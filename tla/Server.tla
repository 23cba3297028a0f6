-------------------------------- MODULE Server --------------------------------
(***************************************************************************)
(* NiceHTTP::start and NiceHTTP::parsereq (lib/nicehttp.cpp) on Linux,     *)
(* from the loop on, with the pool of threads as TaskPool describes it.    *)
(*                                                                         *)
(* start has one local variable client_socket.  Every task captures a      *)
(* reference to it, and parsereq and recv_http pass that reference on, so  *)
(* each recv, send and close of a task reads the descriptor that the       *)
(* variable holds at that moment.  The pool is declared before it, so that *)
(* the variable's lifetime ends before ~thread_pool waits for the tasks:   *)
(* what a task reads through its reference then is undefined.              *)
(*                                                                         *)
(* A connection names the client that makes it, the request it sends and   *)
(* the task that start enqueues when it accepts it.  A request is one      *)
(* block of recv_http or two, the first of them full.                      *)
(***************************************************************************)
EXTENDS Integers, FiniteSets, Sequences, SequencesExt

CONSTANTS
  Conns,      \* connections clients may make
  Nobody,     \* no connection; also the request that is empty
  Fds,        \* descriptors the process has left for connections
  Threads,    \* NICEHTTP_THREADS
  MaxOpen,    \* connections clients keep up at a time
  Impatient,  \* clients that may go away before they are answered
  Silent,     \* clients that send nothing
  Long,       \* clients whose request does not fit in a block
  Signals,    \* may a signal interrupt recv?
  Throwing,   \* requests on which the router or a handler throws
  Reuses      \* does the build put something else in client_socket's place
              \* once its lifetime has ended?

ASSUME ServerAssumption ==
  /\ Nobody \notin Conns
  /\ Fds \subseteq Nat \ {0}
  /\ Threads \in Nat /\ MaxOpen \in Nat /\ Signals \in BOOLEAN /\ Reuses \in BOOLEAN
  /\ Impatient \subseteq Conns /\ Silent \subseteq Conns /\ Long \subseteq Conns
  /\ Throwing \subseteq Conns \cup {Nobody}

(* The blocks of a request; what a task reads is a sequence of such.       *)
Blocks(c) == IF c \in Long THEN 2 ELSE 1

Request(c) == [b \in 1 .. Blocks(c) |-> <<c, b>>]

VARIABLES
  phase,         \* where start is
  client_socket,
  fd,            \* the connection behind each descriptor
  backlog,       \* of the listening socket
  peer,          \* the client's end of each connection
  unread,        \* blocks in the socket's buffer; -1 before the request
  replies,       \* to what requests the answers are that it was sent
  \* parsereq, for each task
  step, on, got,
  \* the pool
  enqueued, begun, ended, poolOpen

serverVars == <<phase, client_socket>>
peerVars   == <<backlog, peer, unread>>
taskVars   == <<step, on, got>>
poolVars   == <<enqueued, begun, ended, poolOpen>>
vars == <<serverVars, fd, peerVars, replies, taskVars, poolVars>>

Pool == INSTANCE TaskPool WITH
          Tasks <- Conns, size <- Threads, accepted <- enqueued, open <- poolOpen

(* What start and the kernel have before the loop, but for client_socket. *)
InitRest ==
  /\ phase = "poll"
  /\ fd = [f \in Fds |-> Nobody]
  /\ backlog = <<>>
  /\ peer = [c \in Conns |-> "idle"]
  /\ unread = [c \in Conns |-> -1]
  /\ replies = [c \in Conns |-> <<>>]
  /\ step = [t \in Conns |-> "none"]
  /\ on = [t \in Conns |-> Nobody]
  /\ got = [t \in Conns |-> <<>>]
  /\ Pool!Init

(* Mutant: client_socket starts as 0, which is standard input. *)
InitZero == InitRest /\ client_socket = 0

(* It is uninitialised in the code; nothing reads it before an accept.     *)
Init == InitRest /\ client_socket = -1

Running == phase # "killed"

(* The connection that a system call on client_socket reaches: Nobody when *)
(* the descriptor is -1 or closed, and the call fails with EBADF.          *)
Reached == IF client_socket \in Fds THEN fd[client_socket] ELSE Nobody

(* The server's end is closed: no descriptor and no pending recv holds it. *)
Closed(c) ==
  /\ c \in enqueued
  /\ \A f \in Fds : fd[f] # c
  /\ \A t \in Conns : step[t] = "receiving" => on[t] # c

--------------------------------------------------------------------------------
(* The clients and the kernel.                                             *)

(* The tasks that wait for a client that will not send.                    *)
Held == {t \in Conns : step[t] = "receiving" /\ on[t] \in Silent}

(* A silent client that a task waits for does not count: nobody else reads *)
(* client_socket on its account any more.                                  *)
Connect(c) ==
  /\ Running
  /\ peer[c] = "idle"
  /\ Cardinality({d \in Conns : peer[d] = "open" /\ \A t \in Held : on[t] # d}) < MaxOpen
  /\ peer' = [peer EXCEPT ![c] = "open"]
  /\ backlog' = Append(backlog, c)
  /\ UNCHANGED <<serverVars, fd, unread, replies, taskVars, poolVars>>

SendRequest(c) ==
  /\ c \notin Silent
  /\ peer[c] = "open"
  /\ unread[c] = -1
  /\ unread' = [unread EXCEPT ![c] = Blocks(c)]
  /\ UNCHANGED <<serverVars, fd, backlog, peer, replies, taskVars, poolVars>>

(* A client closes when the server has, an impatient one at any time, with *)
(* a FIN or with a reset.                                                  *)
Leave(c) ==
  /\ peer[c] = "open"
  /\ Closed(c) \/ c \in Impatient
  /\ \E how \in {"gone"} \cup (IF Closed(c) THEN {} ELSE {"reset"}) :
       peer' = [peer EXCEPT ![c] = how]
  /\ UNCHANGED <<serverVars, fd, backlog, unread, replies, taskVars, poolVars>>

--------------------------------------------------------------------------------
(* The loop of start.  poll reports the listening socket, 0 after a minute *)
(* without a client, or an error: a signal is enough.                      *)

FreeFds == {f \in Fds : fd[f] = Nobody}

Accept ==
  /\ phase = "poll"
  /\ backlog # <<>>
  /\ FreeFds # {}
  /\ LET f == CHOOSE g \in FreeFds : \A h \in FreeFds : g <= h
     IN  client_socket' = f /\ fd' = [fd EXCEPT ![f] = Head(backlog)]
  /\ backlog' = Tail(backlog)
  /\ Pool!Accept(Head(backlog))
  /\ UNCHANGED <<phase, peer, unread, replies, taskVars>>

(* accept returns -1: out of descriptors, or the client has reset already. *)
AcceptFails ==
  /\ phase = "poll"
  /\ backlog # <<>>
  /\ \/ FreeFds = {} /\ UNCHANGED backlog
     \/ peer[Head(backlog)] = "reset" /\ backlog' = Tail(backlog)
  /\ client_socket' = -1
  /\ UNCHANGED <<phase, fd, peer, unread, replies, taskVars, poolVars>>

PollTimeout ==
  /\ phase = "poll"
  /\ backlog = <<>>
  /\ phase' = "leaving"
  /\ UNCHANGED <<client_socket, fd, peerVars, replies, taskVars, poolVars>>

PollError ==
  /\ phase = "poll"
  /\ phase' = "leaving"
  /\ UNCHANGED <<client_socket, fd, peerVars, replies, taskVars, poolVars>>

(* Mutant: the pool outlives start. *)
ReturnAtOnce ==
  /\ phase = "leaving"
  /\ phase' = "returned"
  /\ UNCHANGED <<client_socket, fd, peerVars, replies, taskVars, poolVars>>

(* The lifetime of client_socket has ended, and ~thread_pool waits for the *)
(* tasks: in a build that reuses the variable's place it may hold any      *)
(* number, of which -1 stands for those that are no connection.            *)
Reuse ==
  /\ phase = "leaving"
  /\ Reuses
  /\ client_socket' \in Fds \cup {-1}
  /\ UNCHANGED <<phase, fd, peerVars, replies, taskVars, poolVars>>

(* ~thread_pool is through, and start returns.  The listening socket stays *)
(* open.                                                                   *)
Return ==
  /\ phase = "leaving"
  /\ Pool!Close
  /\ phase' = "returned"
  /\ UNCHANGED <<client_socket, fd, peerVars, replies, taskVars>>

--------------------------------------------------------------------------------
(* A task of the pool: parsereq.                                           *)

Begin(t) ==
  /\ Running
  /\ Pool!Begin(t)
  /\ step' = [step EXCEPT ![t] = "recv"]
  /\ UNCHANGED <<serverVars, fd, peerVars, replies, on, got>>

(* recv_http enters recv.  When that fails at once, -1 counts as data and  *)
(* the zeroed buffer ends the loop: the request is what was read before.   *)
EnterRecv(t) ==
  /\ Running
  /\ step[t] = "recv"
  /\ on' = [on EXCEPT ![t] = Reached]
  /\ step' = [step EXCEPT ![t] = IF Reached = Nobody THEN "send" ELSE "receiving"]
  /\ UNCHANGED <<serverVars, fd, peerVars, replies, got, poolVars>>

(* Mutants: recv is repeated until the client closes; recv leaves the      *)
(* request in the buffer.                                                  *)
LeaveRecvAtEnd(t) ==
  /\ Running
  /\ step[t] = "receiving"
  /\ peer[on[t]] # "open"
  /\ step' = [step EXCEPT ![t] = "send"]
  /\ UNCHANGED <<serverVars, fd, peerVars, replies, on, got, poolVars>>

LeaveRecvPeeking(t) ==
  /\ Running
  /\ step[t] = "receiving"
  /\ unread[on[t]] > 0
  /\ got' = [got EXCEPT ![t] = Request(on[t])]
  /\ step' = [step EXCEPT ![t] = "send"]
  /\ UNCHANGED <<serverVars, fd, peerVars, replies, on, poolVars>>

(* Mutant: the loop ends after the first block. *)
LeaveRecvAfterOne(t) ==
  /\ Running
  /\ step[t] = "receiving"
  /\ unread[on[t]] > 0
  /\ unread' = [unread EXCEPT ![on[t]] = @ - 1]
  /\ got' = [got EXCEPT ![t] = Append(@, <<on[t], Blocks(on[t]) - unread[on[t]] + 1>>)]
  /\ step' = [step EXCEPT ![t] = "send"]
  /\ UNCHANGED <<serverVars, fd, backlog, peer, replies, on, poolVars>>

(***************************************************************************)
(* recv returns a block, or nothing because the client has gone or a       *)
(* signal interrupts it.  After a full block recv_http goes round its      *)
(* loop, and reads the reference anew.                                     *)
(***************************************************************************)
LeaveRecv(t) ==
  /\ Running
  /\ step[t] = "receiving"
  /\ \/ /\ unread[on[t]] > 0
        /\ unread' = [unread EXCEPT ![on[t]] = @ - 1]
        /\ got' = [got EXCEPT ![t] = Append(@, <<on[t], Blocks(on[t]) - unread[on[t]] + 1>>)]
        /\ step' = [step EXCEPT ![t] = IF unread[on[t]] = 1 THEN "send" ELSE "recv"]
     \/ /\ unread[on[t]] <= 0
        /\ peer[on[t]] # "open" \/ Signals
        /\ step' = [step EXCEPT ![t] = "send"]
        /\ UNCHANGED <<unread, got>>
  /\ UNCHANGED <<serverVars, fd, backlog, peer, replies, on, poolVars>>

(* The first line, which decides on the handler, is in the first block.    *)
Throws(request) ==
  IF request = <<>> THEN Nobody \in Throwing
  ELSE \E c \in Throwing : request[1] = <<c, 1>>

(* What the router or a handler throws, the pool swallows: no close.       *)
Throw(t) ==
  /\ Running
  /\ step[t] = "send"
  /\ Throws(got[t])
  /\ step' = [step EXCEPT ![t] = "none"]
  /\ Pool!End(t)
  /\ UNCHANGED <<serverVars, fd, peerVars, replies, on, got>>

(* Sending on a connection that the client has reset fails, and, without   *)
(* MSG_NOSIGNAL, may raise SIGPIPE, which nothing in the library handles.  *)
Send(t) ==
  /\ Running
  /\ step[t] = "send"
  /\ ~Throws(got[t])
  /\ IF Reached # Nobody /\ peer[Reached] = "reset"
     THEN phase' \in {phase, "killed"} /\ UNCHANGED replies
     ELSE /\ replies' = [c \in Conns |->
                           IF c = Reached THEN Append(replies[c], got[t]) ELSE replies[c]]
          /\ UNCHANGED phase
  /\ step' = [step EXCEPT ![t] = "close"]
  /\ UNCHANGED <<client_socket, fd, peerVars, on, got, poolVars>>

(* Mutant: parsereq leaves the connection open. *)
CloseForgotten(t) ==
  /\ Running
  /\ step[t] = "close"
  /\ step' = [step EXCEPT ![t] = "none"]
  /\ Pool!End(t)
  /\ UNCHANGED <<serverVars, fd, peerVars, replies, on, got>>

Close(t) ==
  /\ Running
  /\ step[t] = "close"
  /\ fd' = [f \in Fds |-> IF f = client_socket THEN Nobody ELSE fd[f]]
  /\ step' = [step EXCEPT ![t] = "none"]
  /\ Pool!End(t)
  /\ UNCHANGED <<serverVars, peerVars, replies, on, got>>

--------------------------------------------------------------------------------
Listen == Accept \/ AcceptFails \/ Return

Carry(t) == EnterRecv(t) \/ LeaveRecv(t) \/ Throw(t) \/ Send(t) \/ Close(t)

Next ==
  \/ \E c \in Conns : Connect(c) \/ SendRequest(c) \/ Leave(c) \/ Begin(c) \/ Carry(c)
  \/ Listen \/ PollTimeout \/ PollError \/ Reuse

Spec == Init /\ [][Next]_vars

(***************************************************************************)
(* start and the tasks keep running.  That the pool begins every task is   *)
(* what ThreadPool!EveryTaskRuns says if the other tasks return, and no    *)
(* more than that: while one waits for a silent client, a task that was    *)
(* put on the deque of its thread may wait too, although other threads     *)
(* sleep (ThreadPool!BeginsOnceEnqueued).  A client that has connected     *)
(* sends its request, unless it is a silent one, and leaves when the       *)
(* server has closed.                                                      *)
(***************************************************************************)
Fairness ==
  /\ WF_vars(Listen)
  /\ \A c \in Conns :
       /\ WF_vars(Held = {} /\ Begin(c)) /\ WF_vars(Carry(c))
       /\ WF_vars(SendRequest(c)) /\ WF_vars(Leave(c))

FairSpec == Spec /\ Fairness

--------------------------------------------------------------------------------
TypeOK ==
  /\ phase \in {"poll", "leaving", "returned", "killed"}
  /\ client_socket \in Fds \cup {-1}
  /\ fd \in [Fds -> Conns \cup {Nobody}]
  /\ backlog \in Seq(Conns)
  /\ peer \in [Conns -> {"idle", "open", "gone", "reset"}]
  /\ unread \in [Conns -> -1 .. 2]
  /\ replies \in [Conns -> Seq(Seq(Conns \X {1, 2}))]
  /\ step \in [Conns -> {"none", "recv", "receiving", "send", "close"}]
  /\ on \in [Conns -> Conns \cup {Nobody}]
  /\ got \in [Conns -> Seq(Conns \X {1, 2})]
  /\ enqueued \in SUBSET Conns
  /\ poolOpen \in BOOLEAN

(***************************************************************************)
(* Tasks capture the NiceHTTP object too, and use its router and recv_http.*)
(* Its owner may destroy it when start has returned: no task is still in   *)
(* parsereq then, and none begins, whatever the tasks wait for and however *)
(* start left its loop.  (Of the other capture, client_socket, this is not *)
(* true: Reuse.)                                                           *)
(***************************************************************************)
NoTaskOutlivesStart ==
  phase = "returned" => ~poolOpen /\ \A t \in Conns : step[t] = "none"

(***************************************************************************)
(* No part of a request is handled twice, whichever connection the answer  *)
(* goes to, although several tasks may receive on one connection and one   *)
(* task may receive on several.                                            *)
(***************************************************************************)
AnsweredOnce ==
  \A c, d \in Conns : \A i \in 1 .. Len(replies[c]), j \in 1 .. Len(replies[d]) :
    Range(replies[c][i]) \cap Range(replies[d][j]) # {} => c = d /\ i = j

(***************************************************************************)
(* "//Send response to client" (lib/nicehttp.cpp:79): a client is sent the *)
(* response to its own request, all of it, and that once, or nothing when  *)
(* the connection is lost.                                                 *)
(***************************************************************************)
OwnResponse == \A c \in Conns : replies[c] \in {<<>>, <<Request(c)>>}

(***************************************************************************)
(* A client that has sent its request gets the response, and its           *)
(* connection is closed, as long as start stays in its loop and no silent  *)
(* client holds a thread.  This is what is true of "Connections are closed *)
(* after each response." (lib/nicehttp.h:57): it needs clients that come   *)
(* one at a time, and handlers that do not throw.  When start accepts a    *)
(* client between the send and the close of a task, that closes the new    *)
(* connection, and the answered one stays open for ever; so does one whose *)
(* handler throws.                                                         *)
(***************************************************************************)
Served ==
  \A c \in Conns :
    unread[c] # -1 ~>
      \/ phase # "poll" \/ Held # {}
      \/ Request(c) \in Range(replies[c]) /\ Closed(c)

(***************************************************************************)
(* start comes back once it has left its loop: the only tasks that can     *)
(* keep it from returning wait for a silent client.                        *)
(***************************************************************************)
StartReturns ==
  phase = "leaving" ~>
    \/ phase = "returned"
    \/ Held # {} /\ \A t \in Conns : step[t] # "none" => t \in Held
================================================================================
