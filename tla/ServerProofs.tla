----------------------------- MODULE ServerProofs ------------------------------
(***************************************************************************)
(* Proofs about Server, for any clients, descriptors, number of threads    *)
(* and handlers that throw: no task uses the object after start returned,  *)
(* and wherever client_socket points, no part of a request is handled      *)
(* twice.  When clients come one at a time, each is sent the answer to its *)
(* own request.                                                            *)
(***************************************************************************)
EXTENDS Server, FiniteSetTheorems, SequenceTheorems, WellFoundedInduction, TLAPS

(* accept finds a lowest free descriptor when there is a free one.         *)
LEMMA LeastLemma ==
  ASSUME NEW T, T \subseteq Nat, T # {}
  PROVE  \E x \in T : \A y \in T : x <= y
<1>1. PICK x \in T : \A y \in T : ~(<<y, x>> \in OpToRel(<, Nat))
  BY NatLessThanWellFounded, WFMin
<1>2. \A y \in T : ~(y < x)
  BY <1>1 DEF OpToRel
<1> QED
  BY <1>2

(***************************************************************************)
(* The types, and what ties a task to the pool: a task that is in parsereq *)
(* has begun and not ended, so that the pool is open, and it is closed     *)
(* before start returns.                                                   *)
(***************************************************************************)
Sound ==
  /\ TypeOK
  /\ begun \in [Conns -> Nat] /\ ended \in [Conns -> Nat]
  /\ \A c \in Conns : unread[c] <= Blocks(c)
  /\ \A t \in Conns : /\ ended[t] <= begun[t]
                      /\ step[t] = "receiving" => on[t] \in Conns
                      /\ step[t] # "none" => begun[t] > ended[t]
                      /\ begun[t] > ended[t] => poolOpen
  /\ phase = "returned" => ~poolOpen

LEMMA SoundInit == Init => Sound
BY ServerAssumption DEF Init, InitRest, Sound, TypeOK, Pool!Init, Blocks

(* An answer that is sent is what a task has read.                         *)
LEMMA SendLemma ==
  ASSUME NEW Texts, replies \in [Conns -> Seq(Texts)], got \in [Conns -> Texts],
         NEW t \in Conns, Send(t)
  PROVE  replies' \in [Conns -> Seq(Texts)]
<1>1. CASE replies' = replies
  BY <1>1
<1>2. CASE replies' = [c \in Conns |->
                         IF c = Reached THEN Append(replies[c], got[t]) ELSE replies[c]]
  <2>1. \A c \in Conns : Append(replies[c], got[t]) \in Seq(Texts)
    OBVIOUS
  <2> QED
    BY <1>2, <2>1
<1> QED
  BY <1>1, <1>2 DEF Send

LEMMA SoundStep == Sound /\ [Next]_vars => Sound'
<1> SUFFICES ASSUME Sound, [Next]_vars PROVE Sound'
  OBVIOUS
<1> USE ServerAssumption DEF Sound, TypeOK, Blocks
<1>1. ASSUME NEW c \in Conns, Connect(c) PROVE Sound'
  BY <1>1 DEF Connect, serverVars, taskVars, poolVars
<1>2. ASSUME NEW c \in Conns, SendRequest(c) PROVE Sound'
  BY <1>2 DEF SendRequest, serverVars, taskVars, poolVars
<1>3. ASSUME NEW c \in Conns, Leave(c) PROVE Sound'
  BY <1>3 DEF Leave, serverVars, taskVars, poolVars
<1>4. CASE Accept
  <2>1. Head(backlog) \in Conns /\ Tail(backlog) \in Seq(Conns)
    BY <1>4 DEF Accept
  <2> DEFINE f == CHOOSE g \in FreeFds : \A h \in FreeFds : g <= h
  <2>2. f \in Fds
    <3>1. FreeFds \subseteq Nat /\ FreeFds # {}
      BY <1>4 DEF Accept, FreeFds
    <3>2. \E g \in FreeFds : \A h \in FreeFds : g <= h
      BY <3>1, LeastLemma
    <3> QED
      BY <3>2 DEF FreeFds
  <2> HIDE DEF f
  <2>3. /\ client_socket' = f /\ fd' = [fd EXCEPT ![f] = Head(backlog)]
        /\ backlog' = Tail(backlog) /\ enqueued' = enqueued \cup {Head(backlog)}
        /\ UNCHANGED <<phase, peer, unread, replies, step, on, got, begun, ended, poolOpen>>
    BY <1>4 DEF Accept, Pool!Accept, taskVars, f
  <2> QED
    BY <2>1, <2>2, <2>3
<1>5. CASE AcceptFails
  <2>1. backlog \in Seq(Conns) /\ backlog # <<>> => Tail(backlog) \in Seq(Conns)
    OBVIOUS
  <2>2. backlog' \in Seq(Conns)
    BY <1>5, <2>1 DEF AcceptFails
  <2>3. /\ client_socket' = -1
        /\ UNCHANGED <<phase, fd, peer, unread, replies, step, on, got, enqueued, begun, ended,
                       poolOpen>>
    BY <1>5 DEF AcceptFails, taskVars, poolVars
  <2> QED
    BY <2>2, <2>3
<1>6. CASE PollTimeout \/ PollError \/ Reuse
  BY <1>6 DEF PollTimeout, PollError, Reuse, peerVars, taskVars, poolVars
<1>7. CASE Return
  <2>1. /\ phase' = "returned" /\ poolOpen' = FALSE
        /\ UNCHANGED <<client_socket, fd, backlog, peer, unread, replies, step, on, got,
                       enqueued, begun, ended>>
    BY <1>7 DEF Return, Pool!Close, peerVars, taskVars
  <2>2. \A t \in Conns : ~(begun[t] > ended[t])
    BY <1>7 DEF Return, Pool!Close, Pool!InExecution
  <2> QED
    BY <2>1, <2>2
<1>8. ASSUME NEW t \in Conns, Begin(t) PROVE Sound'
  <2>1. /\ poolOpen /\ begun[t] = 0
        /\ begun' = [begun EXCEPT ![t] = 1] /\ step' = [step EXCEPT ![t] = "recv"]
        /\ UNCHANGED <<phase, client_socket, fd, backlog, peer, unread, replies, on, got,
                       enqueued, ended, poolOpen>>
    BY <1>8 DEF Begin, Pool!Begin, serverVars, peerVars
  <2>2. begun' \in [Conns -> Nat] /\ step' \in [Conns -> {"none", "recv", "receiving", "send", "close"}]
    BY <2>1
  <2>3. \A s \in Conns : begun'[s] = (IF s = t THEN 1 ELSE begun[s])
                       /\ step'[s] = (IF s = t THEN "recv" ELSE step[s])
    BY <2>1
  <2>4. phase' = "returned" => ~poolOpen'
    BY <2>1
  <2>5. ended[t] = 0
    BY <2>1
  <2>6. begun'[t] > ended[t]
    BY <2>1, <2>3, <2>5
  <2> QED
    BY <2>1, <2>2, <2>3, <2>4, <2>6
<1>9. ASSUME NEW t \in Conns, EnterRecv(t) PROVE Sound'
  <2>1. Reached \in Conns \cup {Nobody}
    BY DEF Reached
  <2> QED
    BY <1>9, <2>1 DEF EnterRecv, serverVars, peerVars, poolVars
<1>10. ASSUME NEW t \in Conns, LeaveRecv(t) PROVE Sound'
  <2>1. on[t] \in Conns /\ step[t] = "receiving"
        /\ UNCHANGED <<phase, client_socket, fd, backlog, peer, replies, on, enqueued, begun,
                       ended, poolOpen>>
    BY <1>10 DEF LeaveRecv, serverVars, poolVars
  <2>2. CASE unread[on[t]] > 0
    <3> DEFINE u == unread[on[t]]
               v == Blocks(on[t]) - u + 1
    <3>1. u \in Int /\ u > 0 /\ u <= Blocks(on[t]) /\ Blocks(on[t]) \in {1, 2}
      BY <2>1, <2>2
    <3>2. v \in {1, 2} /\ ~(u <= 0) /\ u - 1 \in -1 .. 2 /\ u - 1 <= Blocks(on[t])
      <4> HIDE DEF u
      <4> QED
        BY <3>1
    <3>3. /\ unread' = [unread EXCEPT ![on[t]] = u - 1]
          /\ got' = [got EXCEPT ![t] = Append(got[t], <<on[t], v>>)]
          /\ step' = [step EXCEPT ![t] = IF u = 1 THEN "send" ELSE "recv"]
      BY <1>10, <3>2 DEF LeaveRecv
    <3> HIDE DEF u, v
    <3>4. Append(got[t], <<on[t], v>>) \in Seq(Conns \X {1, 2})
      BY <2>1, <3>2
    <3> QED
      BY <2>1, <3>2, <3>3, <3>4
  <2>3. CASE ~(unread[on[t]] > 0)
    BY <1>10, <2>1, <2>3 DEF LeaveRecv
  <2> QED
    BY <2>2, <2>3
<1>11. ASSUME NEW t \in Conns, Throw(t) \/ Close(t) PROVE Sound'
  <2>1. /\ step' = [step EXCEPT ![t] = "none"] /\ ended' = [ended EXCEPT ![t] = 1]
        /\ begun[t] > ended[t]
        /\ UNCHANGED <<phase, client_socket, backlog, peer, unread, replies, on, got, enqueued,
                       begun, poolOpen>>
    BY <1>11 DEF Throw, Close, Pool!End, Pool!InExecution, serverVars, peerVars
  <2>2. fd' \in [Fds -> Conns \cup {Nobody}]
    BY <1>11 DEF Throw, Close
  <2> QED
    BY <2>1, <2>2
<1>12. ASSUME NEW t \in Conns, Send(t) PROVE Sound'
  <2>1. /\ step' = [step EXCEPT ![t] = "close"] /\ step[t] = "send"
        /\ UNCHANGED <<client_socket, fd, backlog, peer, unread, on, got, enqueued, begun, ended,
                       poolOpen>>
        /\ phase' \in {phase, "killed"}
    BY <1>12 DEF Send, peerVars, poolVars
  <2>2. replies' \in [Conns -> Seq(Seq(Conns \X {1, 2}))]
    BY <1>12, SendLemma
  <2> QED
    BY <2>1, <2>2
<1>13. CASE UNCHANGED vars
  BY <1>13 DEF vars, serverVars, peerVars, taskVars, poolVars
<1> QED
  BY <1>1, <1>2, <1>3, <1>4, <1>5, <1>6, <1>7, <1>8, <1>9, <1>10, <1>11, <1>12, <1>13
  DEF Next, Carry, Listen

(* Every variable of the server keeps its type.                            *)
THEOREM ServerTypeCorrect == Spec => []TypeOK
<1>1. Spec => []Sound
  BY SoundInit, SoundStep, PTL DEF Spec
<1> QED
  BY <1>1, PTL DEF Sound

(***************************************************************************)
(* When start has returned, no task of the pool is in parsereq, and none   *)
(* will be: the owner may destroy the NiceHTTP object that they capture.   *)
(***************************************************************************)
THEOREM StartOutlastsTasks == Spec => []NoTaskOutlivesStart
<1>1. Spec => []Sound
  BY SoundInit, SoundStep, PTL DEF Spec
<1>2. Sound => NoTaskOutlivesStart
  BY DEF Sound, NoTaskOutlivesStart
<1> QED
  BY <1>1, <1>2, PTL
--------------------------------------------------------------------------------
(***************************************************************************)
(* Why no part of a request is handled twice: what has been read of it is  *)
(* not in the buffer any more (Taken), so that no two tasks have read the  *)
(* same (Apart), and what was answered is what a task had read that is     *)
(* done with reading (Told).                                               *)
(***************************************************************************)
Taken ==
  \A t \in Conns : \A x \in Range(got[t]) :
    unread[x[1]] # -1 /\ x[2] <= Blocks(x[1]) - unread[x[1]]

Apart == \A s, t \in Conns : s # t => Range(got[s]) \cap Range(got[t]) = {}

Answered(t) == begun[t] > 0 /\ step[t] \in {"none", "close"}

Told ==
  \A c \in Conns : \A i \in 1 .. Len(replies[c]) :
    \E t \in Conns : Answered(t) /\ replies[c][i] = got[t]

Once == Taken /\ Apart /\ Told /\ AnsweredOnce

LEMMA AppendRange ==
  ASSUME NEW S, NEW s \in Seq(S), NEW x \in S
  PROVE  Range(Append(s, x)) = Range(s) \cup {x}
<1>1. /\ DOMAIN s = 1 .. Len(s) /\ DOMAIN Append(s, x) = 1 .. Len(s) + 1
      /\ Len(s) \in Nat
      /\ \A i \in 1 .. Len(s) : Append(s, x)[i] = s[i]
      /\ Append(s, x)[Len(s) + 1] = x
  OBVIOUS
<1>2. \A i \in 1 .. Len(s) + 1 : i \in 1 .. Len(s) \/ i = Len(s) + 1
  BY <1>1
<1>3. 1 .. Len(s) \subseteq 1 .. Len(s) + 1 /\ Len(s) + 1 \in 1 .. Len(s) + 1
  BY <1>1
<1> QED
  BY <1>1, <1>2, <1>3 DEF Range

LEMMA GotLemma ==
  ASSUME Sound
  PROVE  \A t \in Conns : \A x \in Range(got[t]) : x[1] \in Conns /\ x[2] \in Int
<1>1. \A t \in Conns : got[t] \in Seq(Conns \X {1, 2})
  BY DEF Sound, TypeOK
<1>2. \A t \in Conns : \A x \in Range(got[t]) : x \in Conns \X {1, 2}
  BY <1>1 DEF Range
<1> QED
  BY <1>2

LEMMA OnceInit == Init => Once
BY DEF Init, InitRest, Once, Taken, Apart, Told, AnsweredOnce, Range

LEMMA AnsweredQuiet ==
  ASSUME AnsweredOnce, replies' = replies
  PROVE  AnsweredOnce'
<1> SUFFICES ASSUME NEW c \in Conns, NEW d \in Conns,
                    NEW i \in 1 .. Len(replies'[c]), NEW j \in 1 .. Len(replies'[d]),
                    Range(replies'[c][i]) \cap Range(replies'[d][j]) # {}
             PROVE  c = d /\ i = j
  BY Zenon DEF AnsweredOnce
<1>1. replies'[c] = replies[c] /\ replies'[d] = replies[d]
  OBVIOUS
<1>2. i \in 1 .. Len(replies[c]) /\ j \in 1 .. Len(replies[d])
  BY <1>1, Zenon
<1>3. Range(replies[c][i]) \cap Range(replies[d][j]) # {}
  BY <1>1, Zenon
<1> QED
  BY <1>2, <1>3, Zenon DEF AnsweredOnce

(* A step that reads nothing and answers nothing.                          *)
LEMMA OnceQuiet ==
  ASSUME Sound, Once, got' = got, replies' = replies,
         \A c \in Conns : unread[c] = -1 \/ unread'[c] = unread[c],
         \A t \in Conns : Answered(t) => Answered(t)'
  PROVE  Once'
<1>1. \A t \in Conns : \A x \in Range(got[t]) : x[1] \in Conns
  BY GotLemma
<1>2. Taken'
  BY <1>1 DEF Once, Taken
<1>3. Apart'
  BY DEF Once, Apart
<1>4. AnsweredOnce'
  BY AnsweredQuiet DEF Once
<1>5. Told'
  BY DEF Once, Told
<1> QED
  BY <1>2, <1>3, <1>4, <1>5 DEF Once

(* A task reads a block: nobody has read that one.                         *)
LEMMA OnceRead ==
  ASSUME Sound, Once, NEW t \in Conns, LeaveRecv(t)
  PROVE  Once'
<1>1. /\ on[t] \in Conns /\ step[t] = "receiving"
      /\ UNCHANGED <<replies, on, begun>>
  BY DEF LeaveRecv, Sound, serverVars, poolVars
<1> DEFINE c == on[t]
           u == unread[c]
           x == <<c, Blocks(c) - u + 1>>
<1>2. CASE ~(u > 0)
  <2>1. UNCHANGED <<unread, got>> /\ step' = [step EXCEPT ![t] = "send"]
    BY <1>2 DEF LeaveRecv
  <2>2. \A s \in Conns : Answered(s) => Answered(s)'
    BY <1>1, <2>1 DEF Answered, Sound, TypeOK
  <2> QED
    BY <1>1, <2>1, <2>2, OnceQuiet
<1>3. CASE u > 0
  <2>0. u \in Int /\ u <= Blocks(c) /\ Blocks(c) \in {1, 2}
    BY <1>1 DEF Sound, TypeOK, Blocks
  <2>1. u \in Int /\ u > 0 /\ ~(u <= 0) /\ u <= Blocks(c) /\ Blocks(c) \in {1, 2}
    <3> HIDE DEF u
    <3> QED
      BY <1>3, <2>0
  <2>2. /\ unread' = [unread EXCEPT ![c] = u - 1]
        /\ got' = [got EXCEPT ![t] = Append(got[t], x)]
        /\ step' = [step EXCEPT ![t] = IF u = 1 THEN "send" ELSE "recv"]
    BY <2>1 DEF LeaveRecv
  <2>3. x \in Conns \X {1, 2}
    BY <1>1, <2>1
  <2>4. Range(got'[t]) = Range(got[t]) \cup {x}
    <3>1. got'[t] = Append(got[t], x) /\ got[t] \in Seq(Conns \X {1, 2})
      BY <2>2 DEF Sound, TypeOK
    <3> QED
      BY <2>3, <3>1, AppendRange
  <2>5. \A s \in Conns \ {t} : got'[s] = got[s]
    BY <2>2 DEF Sound, TypeOK
  <2>6. \A s \in Conns : x \notin Range(got[s])
    BY <2>1 DEF Once, Taken
  <2>7. Taken'
    <3>1. \A s \in Conns : \A y \in Range(got[s]) : y[1] \in Conns /\ y[2] \in Int
      BY GotLemma
    <3>2. \A d \in Conns : unread'[d] = (IF d = c THEN u - 1 ELSE unread[d])
      BY <2>2 DEF Sound, TypeOK
    <3>3. ASSUME NEW s \in Conns, NEW y \in Range(got[s])
          PROVE  unread'[y[1]] # -1 /\ y[2] <= Blocks(y[1]) - unread'[y[1]]
      BY <2>1, <3>1, <3>2, <3>3 DEF Once, Taken
    <3>4. unread'[x[1]] # -1 /\ x[2] <= Blocks(x[1]) - unread'[x[1]]
      BY <1>1, <2>1, <3>2
    <3>5. ASSUME NEW s \in Conns, NEW y \in Range(got'[s])
          PROVE  unread'[y[1]] # -1 /\ y[2] <= Blocks(y[1]) - unread'[y[1]]
      <4>1. CASE s = t
        BY <2>4, <3>3, <3>4, <3>5, <4>1
      <4>2. CASE s # t
        BY <2>5, <3>3, <3>5, <4>2
      <4> QED
        BY <4>1, <4>2
    <3> QED
      BY <3>5 DEF Taken
  <2> HIDE DEF x
  <2>8. Apart'
    <3>1. ASSUME NEW r \in Conns, NEW s \in Conns, r # s
          PROVE  Range(got'[r]) \cap Range(got'[s]) = {}
      BY <2>4, <2>5, <2>6, <3>1 DEF Once, Apart
    <3> QED
      BY <3>1 DEF Apart
  <2>9. Told'
    <3>1. \A s \in Conns : Answered(s) => Answered(s)' /\ s # t
      BY <1>1, <2>2 DEF Answered, Sound, TypeOK
    <3> QED
      BY <1>1, <2>5, <3>1 DEF Once, Told
  <2>10. AnsweredOnce'
    BY <1>1, AnsweredQuiet DEF Once
  <2> QED
    BY <2>7, <2>8, <2>9, <2>10 DEF Once
<1> QED
  BY <1>2, <1>3

(* A task answers: what it has read nobody has answered.                   *)
LEMMA OnceAnswer ==
  ASSUME Sound, Once, NEW t \in Conns, Send(t)
  PROVE  Once'
<1>1. /\ step[t] = "send" /\ step' = [step EXCEPT ![t] = "close"]
      /\ begun[t] > 0
      /\ UNCHANGED <<unread, got, begun>>
  BY DEF Send, Sound, TypeOK, peerVars, poolVars
<1>2. \A s \in Conns : (Answered(s) => Answered(s)') /\ Answered(t)' /\ ~Answered(t)
  BY <1>1 DEF Answered, Sound, TypeOK
<1>3. CASE replies' = replies
  BY <1>1, <1>2, <1>3, OnceQuiet
<1>4. CASE replies' = [c \in Conns |->
                         IF c = Reached THEN Append(replies[c], got[t]) ELSE replies[c]]
  <2>1. ASSUME NEW c \in Conns, NEW i \in 1 .. Len(replies'[c])
        PROVE  \/ i \in 1 .. Len(replies[c]) /\ replies'[c][i] = replies[c][i]
               \/ c = Reached /\ i = Len(replies[c]) + 1 /\ replies'[c][i] = got[t]
    <3>1. replies[c] \in Seq(Seq(Conns \X {1, 2})) /\ got[t] \in Seq(Conns \X {1, 2})
      BY DEF Sound, TypeOK
    <3> DEFINE r == replies[c]
               g == got[t]
    <3>2. replies'[c] = r \/ (c = Reached /\ replies'[c] = Append(r, g))
      BY <1>4
    <3> HIDE DEF r, g
    <3>3. i \in 1 .. Len(Append(r, g)) =>
            \/ i \in 1 .. Len(r) /\ Append(r, g)[i] = r[i]
            \/ i = Len(r) + 1 /\ Append(r, g)[i] = g
      BY <3>1 DEF r, g
    <3> QED
      BY <3>2, <3>3, <2>1 DEF r, g
  <2>2. Taken'
    BY <1>1 DEF Once, Taken
  <2>3. Apart'
    BY <1>1 DEF Once, Apart
  <2>4. Told'
    <3>1. ASSUME NEW c \in Conns, NEW i \in 1 .. Len(replies'[c])
          PROVE  \E s \in Conns : Answered(s)' /\ replies'[c][i] = got'[s]
      BY <1>1, <1>2, <2>1 DEF Once, Told
    <3> QED
      BY <3>1 DEF Told
  <2>5. ASSUME NEW c \in Conns, NEW i \in 1 .. Len(replies[c])
        PROVE  Range(replies[c][i]) \cap Range(got[t]) = {}
    <3>1. PICK s \in Conns : Answered(s) /\ replies[c][i] = got[s]
      BY DEF Once, Told
    <3>2. s # t
      BY <1>2, <3>1
    <3> QED
      BY <3>1, <3>2, Zenon DEF Once, Apart
  <2>6. ASSUME NEW c \in Conns, NEW d \in Conns,
               NEW i \in 1 .. Len(replies'[c]), NEW j \in 1 .. Len(replies'[d]),
               Range(replies'[c][i]) \cap Range(replies'[d][j]) # {}
        PROVE  c = d /\ i = j
    <3>1. CASE i \in 1 .. Len(replies[c]) /\ replies'[c][i] = replies[c][i]
      <4>1. CASE j \in 1 .. Len(replies[d]) /\ replies'[d][j] = replies[d][j]
        BY <2>6, <3>1, <4>1 DEF Once, AnsweredOnce
      <4>2. CASE replies'[d][j] = got[t]
        BY <2>5, <2>6, <3>1, <4>2
      <4> QED
        BY <2>1, <4>1, <4>2
    <3>2. CASE c = Reached /\ i = Len(replies[c]) + 1 /\ replies'[c][i] = got[t]
      <4>1. CASE j \in 1 .. Len(replies[d]) /\ replies'[d][j] = replies[d][j]
        BY <2>5, <2>6, <3>2, <4>1
      <4>2. CASE d = Reached /\ j = Len(replies[d]) + 1 /\ replies'[d][j] = got[t]
        BY <3>2, <4>2
      <4> QED
        BY <2>1, <4>1, <4>2
    <3> QED
      BY <2>1, <3>1, <3>2
  <2>7. AnsweredOnce'
    BY <2>6 DEF AnsweredOnce
  <2> QED
    BY <2>2, <2>3, <2>4, <2>7 DEF Once
<1> QED
  BY <1>3, <1>4 DEF Send

LEMMA OnceStep == Sound /\ Once /\ [Next]_vars => Once'
<1> SUFFICES ASSUME Sound, Once, [Next]_vars PROVE Once'
  OBVIOUS
<1>1. ASSUME NEW c \in Conns, SendRequest(c) PROVE Once'
  <2>1. /\ unread[c] = -1 /\ unread' = [unread EXCEPT ![c] = Blocks(c)]
        /\ UNCHANGED <<got, replies, begun, step>>
    BY <1>1 DEF SendRequest, taskVars, poolVars
  <2>2. \A d \in Conns : unread[d] = -1 \/ unread'[d] = unread[d]
    BY <2>1 DEF Sound, TypeOK
  <2> QED
    BY <2>1, <2>2, OnceQuiet DEF Answered
<1>2. ASSUME NEW t \in Conns, Begin(t) PROVE Once'
  <2>1. begun[t] = 0 /\ step' = [step EXCEPT ![t] = "recv"]
        /\ begun' = [begun EXCEPT ![t] = 1] /\ UNCHANGED <<got, replies, unread>>
    BY <1>2 DEF Begin, Pool!Begin, peerVars
  <2>2. \A s \in Conns : Answered(s) => Answered(s)'
    BY <2>1 DEF Answered, Sound, TypeOK
  <2> QED
    BY <2>1, <2>2, OnceQuiet
<1>3. ASSUME NEW t \in Conns, EnterRecv(t) \/ Throw(t) \/ Close(t) PROVE Once'
  <2>1. /\ UNCHANGED <<got, replies, unread, begun>>
        /\ \/ step[t] = "recv"
           \/ step' = [step EXCEPT ![t] = "none"]
        /\ step' = [step EXCEPT ![t] = step'[t]]
    BY <1>3 DEF EnterRecv, Throw, Close, Pool!End, peerVars, poolVars, Sound, TypeOK
  <2>2. \A s \in Conns : Answered(s) => Answered(s)'
    BY <2>1 DEF Answered, Sound, TypeOK
  <2> QED
    BY <2>1, <2>2, OnceQuiet
<1>4. ASSUME UNCHANGED <<unread, got, replies, begun, step>> PROVE Once'
  BY <1>4, OnceQuiet DEF Answered
<1>5. ASSUME NEW c \in Conns, Connect(c) \/ Leave(c) PROVE Once'
  BY <1>4, <1>5 DEF Connect, Leave, taskVars, poolVars
<1>6. CASE Listen \/ PollTimeout \/ PollError \/ Reuse \/ UNCHANGED vars
  BY <1>4, <1>6 DEF Listen, Accept, AcceptFails, Return, PollTimeout, PollError, Reuse, Pool!Accept,
                    Pool!Close, vars, serverVars, peerVars, taskVars, poolVars
<1> QED
  BY <1>1, <1>2, <1>3, <1>5, <1>6, OnceRead, OnceAnswer DEF Next, Carry

(***************************************************************************)
(* No part of a request is handled twice, in this answer or another, to    *)
(* this client or another.                                                 *)
(***************************************************************************)
THEOREM NothingHandledTwice == Spec => []AnsweredOnce
<1>1. Spec => []Sound
  BY SoundInit, SoundStep, PTL DEF Spec
<1>2. Init /\ []Sound /\ [][Next]_vars => []Once
  BY OnceInit, OnceStep, PTL
<1>3. Once => AnsweredOnce
  BY DEF Once
<1> QED
  BY <1>1, <1>2, <1>3, PTL DEF Spec
--------------------------------------------------------------------------------
(***************************************************************************)
(* When clients come one at a time and stay until they are answered, and   *)
(* no signal comes, client_socket is the connection of the one task that   *)
(* may look at it (Alone), and so a task reads the request of its own      *)
(* client and answers it (Faithful).                                       *)
(***************************************************************************)
OneAtATime == MaxOpen = 1 /\ Impatient = {} /\ ~Signals /\ ~Reuses

(* The tasks that wait for a silent client, and the clients that count in  *)
(* Connect: the others that are there.                                     *)
Waits(t) == step[t] = "receiving" /\ t \in Silent

Counts(c) == peer[c] = "open" /\ ~Waits(c)

(* The tasks that may look at client_socket or have yet to answer.         *)
AtWork(t) == t \in enqueued /\ (begun[t] = 0 \/ step[t] # "none") /\ ~Waits(t)

Alone ==
  /\ \A c, d \in Conns : Counts(c) /\ Counts(d) => c = d
  /\ backlog # <<>> => \E c \in Conns : Counts(c) /\ c \notin enqueued /\ backlog = <<c>>
  /\ \A c \in Conns :
       /\ peer[c] # "reset"
       /\ begun[c] # 0 => c \in enqueued
       /\ c \in enqueued => peer[c] # "idle"
       /\ AtWork(c) => peer[c] = "open" /\ client_socket \in Fds /\ fd[client_socket] = c
       /\ step[c] = "receiving" => peer[c] = "open" /\ on[c] = c
       /\ c \in Silent => unread[c] = -1

(* The first n blocks of the request of c.                                 *)
FirstBlocks(c, n) == [b \in 1 .. n |-> <<c, b>>]

(* The tasks that have not read the end of the request.                    *)
Reading(c) == begun[c] = 0 \/ step[c] \in {"recv", "receiving"}

(* What a task has read of its client, and what that client was sent.      *)
FaithfulTo(c) ==
  /\ got[c] = FirstBlocks(c, IF unread[c] = -1 THEN 0 ELSE Blocks(c) - unread[c])
  /\ Reading(c) => unread[c] # 0
  /\ step[c] \in {"send", "close"} => unread[c] = 0
  /\ Reading(c) \/ step[c] = "send" => replies[c] = <<>>
  /\ replies[c] \in {<<>>, <<Request(c)>>}

Faithful == \A c \in Conns : FaithfulTo(c)

LEMMA AloneInit == Init => Alone
BY DEF Init, InitRest, Alone, Counts, AtWork, Pool!Init

LEMMA FaithfulInit == Init => Faithful
BY DEF Init, InitRest, Faithful, FaithfulTo, FirstBlocks, Pool!Init

(* The clients that Connect counts are the ones that count.                *)
LEMMA CountsLemma ==
  ASSUME OneAtATime, Sound, Alone, NEW c \in Conns, Connect(c)
  PROVE  \A d \in Conns : ~Counts(d)
<1> DEFINE C == {d \in Conns : peer[d] = "open" /\ \A t \in Held : on[t] # d}
<1>1. C = {d \in Conns : Counts(d)}
  <2>1. \A t \in Conns : t \in Held <=> Waits(t)
    BY DEF Alone, Held, Waits
  <2>2. \A t \in Held : t \in Conns /\ on[t] = t
    BY DEF Alone, Held
  <2> QED
    BY <2>1, <2>2 DEF Counts
<1>2. Cardinality(C) < 1
  BY DEF Connect, OneAtATime
<1> HIDE DEF C
<1>3. ASSUME NEW d \in Conns, Counts(d) PROVE FALSE
  <2>1. C = {d}
    BY <1>1, <1>3 DEF Alone
  <2>2. Cardinality(C) = 1
    BY <2>1, FS_Singleton
  <2> QED
    BY <1>2, <2>2
<1> QED
  BY <1>3

(* At most one task is at work, and no client is on its way then.          *)
LEMMA AtWorkLemma ==
  ASSUME Sound, Alone, NEW t \in Conns, AtWork(t)
  PROVE  /\ Counts(t) /\ Reached = t /\ backlog = <<>>
         /\ \A s \in Conns : AtWork(s) => s = t
<1>1. Counts(t) /\ Reached = t
  BY DEF Alone, AtWork, Counts, Reached
<1>2. \A s \in Conns : AtWork(s) => Counts(s)
  BY DEF Alone, AtWork, Counts
<1>3. backlog = <<>>
  BY <1>1 DEF Alone, AtWork
<1> QED
  BY <1>1, <1>2, <1>3 DEF Alone

(***************************************************************************)
(* A step of task t that is at work, after which it still is, or waits, or *)
(* is done.                                                                *)
(***************************************************************************)
LEMMA AloneTask ==
  ASSUME Sound, Alone, NEW t \in Conns, AtWork(t),
         UNCHANGED <<backlog, peer, enqueued, client_socket>>,
         begun'[t] # 0,
         \A s \in Conns \ {t} : step'[s] = step[s] /\ on'[s] = on[s] /\ begun'[s] = begun[s],
         \A s \in Silent : unread'[s] = unread[s],
         step'[t] = "receiving" => on'[t] = t,
         step'[t] # "none" => fd' = fd
  PROVE  Alone'
<1> USE AtWorkLemma
<1>1. Counts(t) /\ backlog = <<>> /\ \A s \in Conns : AtWork(s) => s = t
  OBVIOUS
<1>2. \A s \in Conns : Counts(s)' => Counts(s) \/ s = t
  BY DEF Counts, Waits
<1>3. \A c, d \in Conns : Counts(c)' /\ Counts(d)' => c = d
  BY <1>1, <1>2 DEF Alone
<1>4. backlog' = <<>>
  BY <1>1
<1>5. \A s \in Conns : AtWork(s)' => s = t /\ step'[t] # "none"
  BY <1>1 DEF AtWork, Waits
<1>6. ASSUME NEW s \in Conns
      PROVE  /\ peer'[s] # "reset"
             /\ begun'[s] # 0 => s \in enqueued'
             /\ s \in enqueued' => peer'[s] # "idle"
             /\ AtWork(s)' => peer'[s] = "open" /\ client_socket' \in Fds /\ fd'[client_socket'] = s
             /\ step'[s] = "receiving" => peer'[s] = "open" /\ on'[s] = s
             /\ s \in Silent => unread'[s] = -1
  <2>1. CASE s = t
    BY <1>1, <1>5, <2>1 DEF Alone, AtWork, Counts
  <2>2. CASE s # t
    BY <1>5, <2>2 DEF Alone
  <2> QED
    BY <2>1, <2>2
<1> QED
  BY <1>3, <1>4, <1>6 DEF Alone

(* A step of nobody's task, in which no client comes or goes.              *)
LEMMA AloneQuiet ==
  ASSUME Alone, UNCHANGED <<client_socket, fd, backlog, peer, step, on, begun, enqueued>>,
         \A c \in Silent : unread'[c] = unread[c]
  PROVE  Alone'
BY DEF Alone, Counts, AtWork, Waits

LEMMA AloneConnect ==
  ASSUME OneAtATime, Sound, Alone, NEW c \in Conns, Connect(c)
  PROVE  Alone'
<1>1. /\ peer[c] = "idle" /\ peer' = [peer EXCEPT ![c] = "open"]
      /\ backlog' = Append(backlog, c)
      /\ UNCHANGED <<client_socket, fd, unread, step, on, begun, enqueued>>
  BY DEF Connect, serverVars, taskVars, poolVars
<1>2. \A d \in Conns : peer'[d] = IF d = c THEN "open" ELSE peer[d]
  BY <1>1 DEF Sound, TypeOK
<1>3. \A d \in Conns : ~Counts(d)
  BY CountsLemma
<1>4. backlog = <<>>
  BY <1>3 DEF Alone
<1>5. backlog' = <<c>>
  BY <1>1, <1>4
<1>6. c \notin enqueued /\ step[c] # "receiving"
  BY <1>1 DEF Alone
<1>7. \A d \in Conns : Counts(d)' <=> d = c
  BY <1>1, <1>2, <1>3, <1>6 DEF Counts, Waits
<1>8. \A d \in Conns : AtWork(d)' <=> AtWork(d)
  BY <1>1 DEF AtWork, Waits
<1> QED
  BY <1>1, <1>2, <1>5, <1>6, <1>7, <1>8 DEF Alone

(* A client that leaves has been answered, or at least nobody is at work   *)
(* for it any more.                                                        *)
LEMMA AloneLeave ==
  ASSUME OneAtATime, Sound, Alone, NEW c \in Conns, Leave(c)
  PROVE  Alone'
<1>1. /\ Closed(c) /\ peer' = [peer EXCEPT ![c] = "gone"]
      /\ UNCHANGED <<client_socket, fd, backlog, unread, step, on, begun, enqueued>>
  BY DEF Leave, OneAtATime, serverVars, taskVars, poolVars
<1>2. \A d \in Conns : peer'[d] = IF d = c THEN "gone" ELSE peer[d]
  BY <1>1 DEF Sound, TypeOK
<1>3. ~AtWork(c) /\ step[c] # "receiving" /\ c \in enqueued
  BY <1>1 DEF Closed, Alone
<1>4. \A d \in Conns : Counts(d)' <=> Counts(d) /\ d # c
  BY <1>1, <1>2 DEF Counts, Waits
<1>5. \A d \in Conns : AtWork(d)' <=> AtWork(d)
  BY <1>1 DEF AtWork, Waits
<1>6. backlog # <<>> => \E d \in Conns : Counts(d)' /\ d \notin enqueued /\ backlog = <<d>>
  BY <1>3, <1>4 DEF Alone
<1> QED
  BY <1>1, <1>2, <1>3, <1>4, <1>5, <1>6 DEF Alone

(* The only client that counts is the one that is accepted.                *)
LEMMA AloneAccept ==
  ASSUME OneAtATime, Sound, Alone, Accept \/ AcceptFails
  PROVE  Alone'
<1>1. PICK c \in Conns : Counts(c) /\ c \notin enqueued /\ backlog = <<c>>
  BY DEF Alone, Accept, AcceptFails
<1>2. \A d \in Conns : ~AtWork(d)
  BY <1>1, AtWorkLemma
<1>3. UNCHANGED <<peer, unread, step, on, begun>>
  BY DEF Accept, AcceptFails, Pool!Accept, taskVars, poolVars
<1>4. begun[c] = 0 /\ step[c] = "none" /\ peer[c] = "open"
  BY <1>1 DEF Alone, Sound, TypeOK, Counts
<1>5. CASE Accept
  <2>1. Head(backlog) = c /\ Tail(backlog) = <<>>
    BY <1>1
  <2> DEFINE f == CHOOSE g \in FreeFds : \A h \in FreeFds : g <= h
  <2>2. f \in Fds
    <3>1. FreeFds \subseteq Nat /\ FreeFds # {}
      BY <1>5, ServerAssumption DEF Accept, FreeFds
    <3>2. \E g \in FreeFds : \A h \in FreeFds : g <= h
      BY <3>1, LeastLemma
    <3> QED
      BY <3>2 DEF FreeFds
  <2> HIDE DEF f
  <2>3. /\ client_socket' = f /\ fd' = [fd EXCEPT ![f] = c]
        /\ backlog' = <<>> /\ enqueued' = enqueued \cup {c}
    BY <1>5, <2>1 DEF Accept, Pool!Accept, f
  <2>4. client_socket' \in Fds /\ fd'[client_socket'] = c
    BY <2>2, <2>3 DEF Sound, TypeOK
  <2>5. \A d \in Conns : AtWork(d)' => d = c
    BY <1>2, <1>3, <2>3 DEF AtWork, Waits
  <2>6. \A d \in Conns : Counts(d)' <=> Counts(d)
    BY <1>3 DEF Counts, Waits
  <2> QED
    BY <1>3, <1>4, <2>3, <2>4, <2>5, <2>6 DEF Alone
<1>6. CASE AcceptFails
  <2>1. UNCHANGED <<backlog, enqueued>>
    BY <1>1, <1>6 DEF AcceptFails, Alone, poolVars
  <2>2. \A d \in Conns : ~AtWork(d)'
    BY <1>2, <1>3, <2>1 DEF AtWork, Waits
  <2>3. \A d \in Conns : Counts(d)' <=> Counts(d)
    BY <1>3 DEF Counts, Waits
  <2> QED
    BY <1>3, <2>1, <2>2, <2>3 DEF Alone
<1> QED
  BY <1>5, <1>6

(* A task begins, or goes on: it is at work, and the step leaves the tasks *)
(* of others alone.                                                        *)
LEMMA WorkLemma ==
  ASSUME Sound, Alone, NEW t \in Conns, Begin(t) \/ Carry(t)
  PROVE  AtWork(t) \/ (LeaveRecv(t) /\ Waits(t))
<1>1. CASE Begin(t)
  BY <1>1 DEF Begin, Pool!Begin, AtWork, Waits, Sound
<1>2. CASE Carry(t) /\ ~LeaveRecv(t)
  <2>1. step[t] \in {"recv", "send", "close"}
    BY <1>2 DEF Carry, EnterRecv, Throw, Send, Close
  <2> QED
    BY <2>1 DEF AtWork, Waits, Alone, Sound
<1>3. CASE LeaveRecv(t)
  BY <1>3 DEF LeaveRecv, AtWork, Alone, Sound
<1> QED
  BY <1>1, <1>2, <1>3 DEF Carry

(* A task that waits for a silent client goes on waiting.                  *)
LEMMA WaitsLemma ==
  ASSUME OneAtATime, Sound, Alone, NEW t \in Conns, LeaveRecv(t)
  PROVE  ~Waits(t) /\ on[t] = t /\ unread[t] > 0
<1>1. step[t] = "receiving" /\ on[t] = t /\ peer[t] = "open"
  BY DEF LeaveRecv, Alone
<1>2. unread[t] > 0
  BY <1>1 DEF LeaveRecv, OneAtATime
<1> QED
  BY <1>1, <1>2 DEF Waits, Alone

LEMMA AloneWork ==
  ASSUME OneAtATime, Sound, Alone, NEW t \in Conns, Begin(t) \/ Carry(t)
  PROVE  Alone'
<1>1. AtWork(t)
  BY WorkLemma, WaitsLemma
<1>2. CASE Begin(t)
  <2>1. /\ begun' = [begun EXCEPT ![t] = 1] /\ step' = [step EXCEPT ![t] = "recv"]
        /\ UNCHANGED <<client_socket, fd, backlog, peer, unread, on, enqueued>>
    BY <1>2 DEF Begin, Pool!Begin, serverVars, peerVars
  <2> QED
    BY <1>1, <2>1, AloneTask DEF Sound, TypeOK
<1>3. CASE EnterRecv(t)
  <2>1. Reached = t /\ t # Nobody
    BY <1>1, AtWorkLemma, ServerAssumption
  <2>2. /\ on' = [on EXCEPT ![t] = t] /\ step' = [step EXCEPT ![t] = "receiving"]
        /\ step[t] = "recv"
        /\ UNCHANGED <<client_socket, fd, backlog, peer, unread, enqueued, begun>>
    BY <1>3, <2>1 DEF EnterRecv, serverVars, peerVars, poolVars
  <2> QED
    BY <1>1, <2>2, AloneTask DEF Sound, TypeOK
<1>4. CASE LeaveRecv(t)
  <2>1. /\ unread[t] > 0 /\ on[t] = t /\ step[t] = "receiving"
    BY <1>4, WaitsLemma DEF LeaveRecv
  <2> DEFINE c == on[t]
             u == unread[c]
  <2>2. /\ unread' = [unread EXCEPT ![c] = u - 1]
        /\ step' = [step EXCEPT ![t] = IF u = 1 THEN "send" ELSE "recv"]
        /\ UNCHANGED <<client_socket, fd, backlog, peer, on, enqueued, begun>>
    <3>1. unread[t] \in -1 .. 2
      BY DEF Sound, TypeOK
    <3>2. u > 0 /\ u \in Int
      BY <2>1, <3>1
    <3>3. ~(u <= 0)
      <4> HIDE DEF u
      <4> QED
        BY <3>2
    <3> QED
      BY <1>4, <3>3 DEF LeaveRecv, serverVars, poolVars
  <2>3. \A s \in Silent : unread'[s] = unread[s]
    BY <2>1, <2>2 DEF Alone, Sound, TypeOK
  <2>4. begun[t] # 0
    BY <2>1 DEF Sound
  <2>5. step'[t] # "receiving" /\ step'[t] # "none" /\ \A s \in Conns \ {t} : step'[s] = step[s]
    BY <2>2 DEF Sound, TypeOK
  <2> QED
    BY <1>1, <2>2, <2>3, <2>4, <2>5, AloneTask
<1>5. CASE Throw(t) \/ Close(t)
  <2>1. /\ step' = [step EXCEPT ![t] = "none"] /\ step[t] \in {"send", "close"}
        /\ UNCHANGED <<client_socket, backlog, peer, unread, on, enqueued, begun>>
    BY <1>5 DEF Throw, Close, Pool!End, serverVars, peerVars
  <2> QED
    BY <1>1, <2>1, AloneTask DEF Sound, TypeOK
<1>6. CASE Send(t)
  <2>1. /\ step' = [step EXCEPT ![t] = "close"] /\ step[t] = "send"
        /\ UNCHANGED <<client_socket, fd, backlog, peer, unread, on, enqueued, begun>>
    BY <1>6 DEF Send, peerVars, poolVars
  <2> QED
    BY <1>1, <2>1, AloneTask DEF Sound, TypeOK
<1> QED
  BY <1>2, <1>3, <1>4, <1>5, <1>6 DEF Carry

LEMMA AloneStep ==
  ASSUME OneAtATime, Sound, Alone, [Next]_vars
  PROVE  Alone'
<1>1. ASSUME NEW c \in Conns, SendRequest(c) PROVE Alone'
  <2>1. /\ c \notin Silent /\ unread' = [unread EXCEPT ![c] = Blocks(c)]
        /\ UNCHANGED <<client_socket, fd, backlog, peer, step, on, begun, enqueued>>
    BY <1>1 DEF SendRequest, serverVars, taskVars, poolVars
  <2>2. \A d \in Silent : unread'[d] = unread[d]
    BY <2>1, ServerAssumption DEF Sound, TypeOK
  <2> QED
    BY <2>1, <2>2, AloneQuiet
<1>2. CASE Return \/ PollTimeout \/ PollError \/ Reuse \/ UNCHANGED vars
  BY <1>2, AloneQuiet DEF OneAtATime, Return, PollTimeout, PollError, Reuse, Pool!Close, vars,
                          serverVars, peerVars, taskVars, poolVars
<1> QED
  BY <1>1, <1>2, AloneConnect, AloneLeave, AloneAccept, AloneWork DEF Next, Listen

(* A step that does not disturb what is said of c.                         *)
LEMMA FaithfulQuiet ==
  ASSUME NEW c \in Conns, FaithfulTo(c),
         got'[c] = got[c], unread'[c] = unread[c], replies'[c] = replies[c],
         step'[c] = step[c], begun'[c] = begun[c]
  PROVE  FaithfulTo(c)'
<1>1. Reading(c)' <=> Reading(c)
  BY DEF Reading
<1> QED
  BY <1>1 DEF FaithfulTo

LEMMA BlocksLemma ==
  ASSUME NEW c \in Conns, NEW n \in Nat
  PROVE  Append(FirstBlocks(c, n), <<c, n + 1>>) = FirstBlocks(c, n + 1)
<1> DEFINE x == <<c, n + 1>>
           s == FirstBlocks(c, n)
           z == FirstBlocks(c, n + 1)
<1>1. s \in Seq({<<c, b>> : b \in Nat}) /\ Len(s) = n /\ \A b \in 1 .. n : s[b] = <<c, b>>
  BY DEF FirstBlocks
<1>2. z \in Seq({<<c, b>> : b \in Nat}) /\ Len(z) = n + 1 /\ \A b \in 1 .. n + 1 : z[b] = <<c, b>>
  BY DEF FirstBlocks
<1>3. x \in {<<c, b>> : b \in Nat}
  OBVIOUS
<1> DEFINE T == {<<c, b>> : b \in Nat}
<1>4. x = z[n + 1]
  BY <1>2
<1> HIDE DEF s, z, x, T
<1>5. /\ Append(s, x) \in Seq(T) /\ Len(Append(s, x)) = n + 1
      /\ \A b \in 1 .. n : Append(s, x)[b] = s[b]
      /\ Append(s, x)[n + 1] = x
  BY <1>1, <1>3 DEF T
<1>6. \A b \in 1 .. n + 1 : Append(s, x)[b] = z[b]
  <2>1. \A b \in 1 .. n + 1 : b \in 1 .. n \/ b = n + 1
    OBVIOUS
  <2> QED
    BY <1>1, <1>2, <1>4, <1>5, <2>1
<1>7. Append(s, x) = z
  BY <1>2, <1>5, <1>6, SeqEqual DEF T
<1> QED
  BY <1>7 DEF s, z, x

(* A task reads the next block of the request of its client.               *)
LEMMA FaithfulRead ==
  ASSUME OneAtATime, Sound, Alone, Faithful, NEW t \in Conns, LeaveRecv(t)
  PROVE  Faithful'
<1> DEFINE u == unread[t]
<1>1. /\ u > 0 /\ on[t] = t /\ step[t] = "receiving" /\ begun[t] # 0
      /\ u \in -1 .. 2 /\ u <= Blocks(t) /\ Blocks(t) \in {1, 2}
  <2>1. unread[t] > 0 /\ on[t] = t /\ step[t] = "receiving"
    BY WaitsLemma DEF LeaveRecv
  <2>2. u \in -1 .. 2 /\ u <= Blocks(t) /\ Blocks(t) \in {1, 2} /\ begun[t] # 0
    BY <2>1 DEF Sound, TypeOK, Blocks
  <2> QED
    BY <2>1, <2>2
<1>2. ~(unread[on[t]] <= 0)
  <2>1. unread[on[t]] = u
    BY <1>1
  <2> HIDE DEF u
  <2> QED
    BY <1>1, <2>1
<1> DEFINE c == on[t]
           x == <<c, Blocks(c) - unread[c] + 1>>
<1>3. /\ unread' = [unread EXCEPT ![c] = unread[c] - 1]
      /\ got' = [got EXCEPT ![t] = Append(got[t], x)]
      /\ step' = [step EXCEPT ![t] = IF unread[c] = 1 THEN "send" ELSE "recv"]
      /\ UNCHANGED <<replies, begun>>
  BY <1>2 DEF LeaveRecv, poolVars
<1>4. c = t /\ unread[c] = u
  BY <1>1
<1>5. x = <<t, Blocks(t) - u + 1>>
  BY <1>4
<1> HIDE DEF c, x
<1>6. /\ unread'[t] = u - 1 /\ got'[t] = Append(got[t], x)
      /\ step'[t] = IF u = 1 THEN "send" ELSE "recv"
      /\ \A s \in Conns \ {t} : unread'[s] = unread[s] /\ got'[s] = got[s] /\ step'[s] = step[s]
  BY <1>3, <1>4 DEF Sound, TypeOK
<1> DEFINE n == Blocks(t) - u
<1>7. got[t] = FirstBlocks(t, n) /\ replies[t] = <<>>
  <2>1. FaithfulTo(t)
    BY DEF Faithful
  <2>2. Reading(t)
    BY <1>1 DEF Reading
  <2>3. u # -1
    <3> HIDE DEF u
    <3> QED
      BY <1>1
  <2> QED
    BY <2>1, <2>2, <2>3 DEF FaithfulTo
<1>8. got'[t] = FirstBlocks(t, Blocks(t) - (u - 1)) /\ u - 1 # -1
  <2> HIDE DEF u
  <2>1. n \in Nat /\ Blocks(t) - (u - 1) = n + 1 /\ u - 1 # -1
    BY <1>1
  <2> HIDE DEF n
  <2>2. x = <<t, n + 1>>
    BY <1>5 DEF n
  <2> QED
    BY <1>6, <1>7, <2>1, <2>2, BlocksLemma
<1> HIDE DEF u, n
<1>9. FaithfulTo(t)'
  <2>1. got'[t] = FirstBlocks(t, IF unread'[t] = -1 THEN 0 ELSE Blocks(t) - unread'[t])
    BY <1>6, <1>8
  <2>2. u = 1 => u - 1 = 0
    OBVIOUS
  <2>3. u # 1 => u - 1 # 0
    BY <1>1
  <2>4. (Reading(t)' => unread'[t] # 0) /\ (step'[t] \in {"send", "close"} => unread'[t] = 0)
    BY <1>1, <1>3, <1>6, <2>2, <2>3 DEF Reading
  <2>5. replies'[t] = <<>>
    BY <1>3, <1>7
  <2> QED
    BY <2>1, <2>4, <2>5 DEF FaithfulTo
<1>10. ASSUME NEW s \in Conns, s # t PROVE FaithfulTo(s)'
  BY <1>3, <1>6, <1>10, FaithfulQuiet DEF Faithful
<1> QED
  BY <1>9, <1>10 DEF Faithful

(* What a task answers is the request of its client.                       *)
LEMMA FaithfulAnswer ==
  ASSUME OneAtATime, Sound, Alone, Faithful, NEW t \in Conns, Send(t)
  PROVE  Faithful'
<1>1. /\ step[t] = "send" /\ step' = [step EXCEPT ![t] = "close"]
      /\ UNCHANGED <<unread, got, begun>>
  BY DEF Send, peerVars, poolVars
<1>2. AtWork(t)
  BY <1>1 DEF AtWork, Alone, Sound, Waits
<1>3. Reached = t /\ peer[t] # "reset"
  BY <1>2, AtWorkLemma DEF Alone
<1>4. FaithfulTo(t)
  BY DEF Faithful
<1>5. got[t] = Request(t) /\ replies[t] = <<>> /\ unread[t] = 0 /\ begun[t] # 0
  <2>1. unread[t] = 0 /\ replies[t] = <<>> /\ begun[t] # 0
    BY <1>1, <1>4 DEF FaithfulTo, Sound
  <2>2. got[t] = FirstBlocks(t, Blocks(t))
    <3>1. Blocks(t) - 0 = Blocks(t) /\ 0 # -1
      BY DEF Blocks
    <3> QED
      BY <1>4, <2>1, <3>1 DEF FaithfulTo
  <2> QED
    BY <2>1, <2>2 DEF FirstBlocks, Request
<1>6. replies' = [c \in Conns |-> IF c = t THEN Append(replies[c], got[t]) ELSE replies[c]]
  BY <1>3 DEF Send
<1>7. replies'[t] = <<Request(t)>>
  <2>1. replies'[t] = Append(<<>>, Request(t))
    BY <1>5, <1>6, Zenon
  <2>2. \A r : Append(<<>>, r) = <<r>>
    OBVIOUS
  <2> QED
    BY <2>1, <2>2, Zenon
<1>8. /\ step'[t] = "close" /\ unread'[t] = unread[t] /\ got'[t] = got[t] /\ begun'[t] = begun[t]
  BY <1>1 DEF Sound, TypeOK
<1>9. FaithfulTo(t)'
  <2>1. ~Reading(t)'
    BY <1>5, <1>8 DEF Reading
  <2> QED
    BY <1>4, <1>5, <1>7, <1>8, <2>1 DEF FaithfulTo
<1>10. ASSUME NEW s \in Conns, s # t PROVE FaithfulTo(s)'
  <2>1. step'[s] = step[s] /\ replies'[s] = replies[s]
    BY <1>1, <1>6, <1>10 DEF Sound, TypeOK
  <2> QED
    BY <1>1, <2>1, FaithfulQuiet DEF Faithful
<1> QED
  BY <1>9, <1>10 DEF Faithful

(* A client sends; nobody has read anything of it.                         *)
LEMMA FaithfulSend ==
  ASSUME Sound, Faithful, NEW c \in Conns, SendRequest(c)
  PROVE  Faithful'
<1>1. /\ unread[c] = -1 /\ unread' = [unread EXCEPT ![c] = Blocks(c)]
      /\ UNCHANGED <<replies, step, got, begun>>
  BY DEF SendRequest, taskVars, poolVars
<1>2. \A s \in Conns : unread'[s] = IF s = c THEN Blocks(c) ELSE unread[s]
  BY <1>1 DEF Sound, TypeOK
<1>3. Blocks(c) \in {1, 2} /\ Blocks(c) - Blocks(c) = 0
  BY DEF Blocks
<1>4. FaithfulTo(c)
  BY DEF Faithful
<1>5. unread'[c] # 0 /\ unread'[c] # -1 /\ got[c] = FirstBlocks(c, 0)
      /\ step[c] \notin {"send", "close"}
  BY <1>1, <1>2, <1>3, <1>4 DEF FaithfulTo
<1>6. FaithfulTo(c)'
  BY <1>1, <1>2, <1>3, <1>4, <1>5 DEF FaithfulTo, Reading
<1>7. ASSUME NEW s \in Conns, s # c PROVE FaithfulTo(s)'
  BY <1>1, <1>2, <1>7, FaithfulQuiet DEF Faithful
<1> QED
  BY <1>6, <1>7 DEF Faithful

(* The other steps of a task.                                              *)
LEMMA FaithfulOther ==
  ASSUME OneAtATime, Sound, Alone, Faithful, NEW t \in Conns,
         Begin(t) \/ EnterRecv(t) \/ Throw(t) \/ Close(t)
  PROVE  Faithful'
<1>1. FaithfulTo(t)
  BY DEF Faithful
<1>2. UNCHANGED <<unread, got, replies>>
  BY DEF Begin, EnterRecv, Throw, Close, peerVars
<1>3. \A s \in Conns \ {t} : step'[s] = step[s] /\ begun'[s] = begun[s]
  BY DEF Begin, EnterRecv, Throw, Close, Pool!Begin, Pool!End, poolVars, Sound, TypeOK
<1>4. CASE Begin(t)
  <2>1. begun[t] = 0 /\ step'[t] = "recv"
    BY <1>4 DEF Begin, Pool!Begin, Sound, TypeOK
  <2> QED
    BY <1>1, <1>2, <1>3, <2>1, FaithfulQuiet DEF Faithful, FaithfulTo, Reading
<1>5. CASE EnterRecv(t)
  <2>1. Reached = t /\ t # Nobody
    BY <1>5, WorkLemma, AtWorkLemma, ServerAssumption DEF EnterRecv, LeaveRecv, Carry
  <2>2. step[t] = "recv" /\ step'[t] = "receiving"
    BY <1>5, <2>1 DEF EnterRecv, Sound, TypeOK
  <2> QED
    BY <1>1, <1>2, <1>3, <2>2, FaithfulQuiet DEF Faithful, FaithfulTo, Reading
<1>6. CASE Throw(t) \/ Close(t)
  <2>1. step[t] \in {"send", "close"} /\ step'[t] = "none" /\ begun'[t] = begun[t] /\ begun[t] # 0
    BY <1>6 DEF Throw, Close, Pool!End, Sound, TypeOK
  <2> QED
    BY <1>1, <1>2, <1>3, <2>1, FaithfulQuiet DEF Faithful, FaithfulTo, Reading
<1> QED
  BY <1>4, <1>5, <1>6

LEMMA FaithfulStep ==
  ASSUME OneAtATime, Sound, Alone, Faithful, [Next]_vars
  PROVE  Faithful'
<1>1. ASSUME UNCHANGED <<unread, got, replies, step, begun>> PROVE Faithful'
  BY <1>1, FaithfulQuiet DEF Faithful
<1>2. ASSUME NEW c \in Conns, Connect(c) \/ Leave(c) PROVE Faithful'
  BY <1>1, <1>2 DEF Connect, Leave, taskVars, poolVars
<1>3. CASE Listen \/ PollTimeout \/ PollError \/ Reuse \/ UNCHANGED vars
  BY <1>1, <1>3 DEF Listen, Accept, AcceptFails, Return, PollTimeout, PollError, Reuse, Pool!Accept,
                    Pool!Close, vars, serverVars, peerVars, taskVars, poolVars
<1> QED
  BY <1>2, <1>3, FaithfulRead, FaithfulAnswer, FaithfulSend, FaithfulOther DEF Next, Carry

(***************************************************************************)
(* What start and parsereq do properly: for any clients, among them silent *)
(* ones, with requests of any size, and handlers that throw, each client   *)
(* is sent the answer to its own request or nothing, if the clients come   *)
(* one at a time and stay until they are answered, and no signal comes.    *)
(* Without that, the run server_crossed shows an answer that goes astray.  *)
(***************************************************************************)
THEOREM OneAtATimeGetTheirOwn ==
  ASSUME OneAtATime
  PROVE  Spec => []OwnResponse
<1>1. Spec => []Sound
  BY SoundInit, SoundStep, PTL DEF Spec
<1>2. Init => Alone /\ Faithful
  BY AloneInit, FaithfulInit
<1>3. Sound /\ Alone /\ Faithful /\ [Next]_vars => (Alone /\ Faithful)'
  BY AloneStep, FaithfulStep
<1>4. Faithful => OwnResponse
  BY DEF Faithful, FaithfulTo, OwnResponse
<1> QED
  BY <1>1, <1>2, <1>3, <1>4, PTL DEF Spec
================================================================================
