---------------------------- MODULE SocketsProofs -----------------------------
(***************************************************************************)
(* Proofs about Sockets, for any set of objects and any limit on the       *)
(* descriptors.                                                            *)
(***************************************************************************)
EXTENDS Sockets, WellFoundedInduction, TLAPS

(***************************************************************************)
(* How the calls of an object exclude each other, and what is left in the  *)
(* two members between them.                                               *)
(***************************************************************************)
Calls ==
  \A o \in Objects :
    /\ o \notin Clients => client_socket[o] = -1 /\ asking[o] = "idle"
    /\ starting[o] = "setup" =>
         asking[o] = "idle" /\ cleaning[o] = "idle" /\ server_socket[o] # -1
    /\ starting[o] = "loop" /\ o \notin cutoff =>
         cleaning[o] = "idle" /\ server_socket[o] # -1
    /\ asking[o] # "idle" => client_socket[o] # -1 /\ cleaning[o] = "idle"
    /\ life[o] # "alive" => starting[o] \in {"new", "returned"} /\ asking[o] = "idle"
    /\ life[o] = "dying" <=> cleaning[o] # "idle" /\ life[o] # "alive"
    /\ cleaning[o] = "client" => server_socket[o] = -1

(* Until an object that makes requests has closed what is not its own,     *)
(* nobody has, and every number in a server_socket is the object's own.    *)
Owns ==
  strays \cap Clients = {} =>
    /\ strays = {}
    /\ \A o \in Objects : server_socket[o] # -1 => owner[server_socket[o]] = <<o, "server">>

(* Between two requests there is no connection of the object.              *)
Rests ==
  \A o \in Objects \ unclosed :
    asking[o] = "idle" /\ cleaning[o] = "idle" => Of(o) \subseteq {server_socket[o]}

LEMMA LeastLemma ==
  ASSUME NEW T, T \subseteq Nat, T # {}
  PROVE  \E x \in T : \A y \in T : x <= y
<1>1. PICK x \in T : \A y \in T : ~(<<y, x>> \in OpToRel(<, Nat))
  BY NatLessThanWellFounded, WFMin
<1>2. \A y \in T : ~(y < x)
  BY <1>1 DEF OpToRel
<1> QED
  BY <1>2

LEMMA NewFdLemma ==
  /\ NewFd \in Fds \cup {-1}
  /\ NewFd # -1 => NewFd \in Fds /\ owner[NewFd] = Free
<1> DEFINE T == {f \in Fds : owner[f] = Free}
<1>1. CASE T = {}
  BY <1>1 DEF NewFd
<1>2. CASE T # {}
  <2>1. T \subseteq Nat
    BY SocketsAssumption DEF Fds
  <2>2. \E m \in T : \A y \in T : m <= y
    <3> HIDE DEF T
    <3> QED
      BY <1>2, <2>1, LeastLemma
  <2>3. Min(T) \in T
    BY <2>2 DEF Min
  <2>4. NewFd = Min(T)
    BY <1>2 DEF NewFd
  <2> QED
    BY <2>3, <2>4
<1> QED
  BY <1>1, <1>2

LEMMA SocketsInit == Init => TypeOK /\ Calls /\ Owns /\ HoldsWhatItNames /\ Rests
BY DEF Init, TypeOK, Calls, Owns, HoldsWhatItNames, Rests, Of, Free, Uses

LEMMA CallsStep == TypeOK /\ Calls /\ [Next]_vars => TypeOK' /\ Calls'
<1> SUFFICES ASSUME TypeOK, Calls, [Next]_vars PROVE TypeOK' /\ Calls'
  OBVIOUS
<1> USE SocketsAssumption DEF TypeOK, Calls, Free, Other, Uses, Opened
<1>1. ASSUME NEW o \in Objects, ServerSocket(o) PROVE TypeOK' /\ Calls'
  BY <1>1, NewFdLemma DEF ServerSocket
<1>2. ASSUME NEW o \in Objects, SetUpFails(o) PROVE TypeOK' /\ Calls'
  BY <1>2 DEF SetUpFails
<1>3. ASSUME NEW o \in Objects, Listen(o) \/ Return(o) PROVE TypeOK' /\ Calls'
  BY <1>3 DEF Listen, Return
<1>4. ASSUME NEW o \in Objects, ClientSocket(o) PROVE TypeOK' /\ Calls'
  BY <1>4, NewFdLemma DEF ClientSocket
<1>5. ASSUME NEW o \in Objects, Unresolved(o) \/ Answered(o) \/ Unparsable(o)
      PROVE  TypeOK' /\ Calls'
  BY <1>5 DEF Unresolved, Answered, Unparsable
<1>6. ASSUME NEW o \in Objects, ConnectFails(o) PROVE TypeOK' /\ Calls'
  BY <1>6 DEF ConnectFails
<1>7. ASSUME NEW o \in Objects, CloseClient(o) PROVE TypeOK' /\ Calls'
  BY <1>7 DEF CloseClient, CloseAs
<1>8. ASSUME NEW o \in Objects, Destroy(o) PROVE TypeOK' /\ Calls'
  BY <1>8 DEF Destroy
<1>9. ASSUME NEW o \in Objects, CleanServer(o) PROVE TypeOK' /\ Calls'
  BY <1>9 DEF CleanServer, CloseAs
<1>10. ASSUME NEW o \in Objects, CleanClient(o) PROVE TypeOK' /\ Calls'
  BY <1>10 DEF CleanClient, CloseAs
<1>11. CASE Elsewhere
  BY <1>11, NewFdLemma DEF Elsewhere
<1>12. CASE UNCHANGED vars
  BY <1>12 DEF vars
<1> QED
  BY <1>1, <1>2, <1>3, <1>4, <1>5, <1>6, <1>7, <1>8, <1>9, <1>10, <1>11, <1>12
  DEF Next, start, request, cleanup

LEMMA OwnsStep == TypeOK /\ Calls /\ Owns /\ [Next]_vars => Owns'
<1> SUFFICES ASSUME TypeOK, Calls, Owns, [Next]_vars PROVE Owns'
  OBVIOUS
<1> USE DEF TypeOK, Calls, Free, Other, Owns, Opened
<1>1. ASSUME NEW o \in Objects, ServerSocket(o) \/ ClientSocket(o) PROVE Owns'
  BY <1>1, NewFdLemma DEF ServerSocket, ClientSocket
<1>2. ASSUME NEW o \in Objects, CloseClient(o) PROVE Owns'
  BY <1>2 DEF CloseClient, CloseAs
<1>3. ASSUME NEW o \in Objects, CleanServer(o) PROVE Owns'
  BY <1>3 DEF CleanServer, CloseAs
<1>4. ASSUME NEW o \in Objects, CleanClient(o) PROVE Owns'
  BY <1>4 DEF CleanClient, CloseAs
<1>5. CASE Elsewhere
  BY <1>5, NewFdLemma DEF Elsewhere
<1>6. ASSUME UNCHANGED <<owner, server_socket, strays>> PROVE Owns'
  BY <1>6
<1>7. ASSUME NEW o \in Objects,
             \/ SetUpFails(o) \/ Listen(o) \/ Return(o) \/ Unresolved(o) \/ ConnectFails(o)
             \/ Answered(o) \/ Unparsable(o) \/ Destroy(o)
      PROVE  Owns'
  BY <1>6, <1>7 DEF SetUpFails, Listen, Return, Unresolved, ConnectFails, Answered, Unparsable,
                    Destroy
<1> QED
  BY <1>1, <1>2, <1>3, <1>4, <1>5, <1>6, <1>7 DEF Next, start, request, cleanup, vars

(* What is closed was nobody's, or is gone from its owner.                 *)
LEMMA CloseAsLemma ==
  ASSUME TypeOK, NEW o \in Objects, NEW f \in Fds, NEW use, CloseAs(o, f, use)
  PROVE  \A p \in Objects : Of(p)' = Of(p) \ {f}
BY DEF CloseAs, TypeOK, Of, Free, Uses

LEMMA OpenedLemma ==
  ASSUME TypeOK, NEW o \in Objects, NEW use \in Uses, NewFd # -1,
         owner' = Opened(NewFd, <<o, use>>)
  PROVE  \A p \in Objects : Of(p)' = IF p = o THEN Of(p) \cup {NewFd} ELSE Of(p)
<1>1. NewFd \in Fds /\ owner[NewFd] = Free
  BY NewFdLemma
<1> HIDE DEF NewFd
<1> QED
  BY <1>1 DEF Opened, TypeOK, Of, Free, Uses

LEMMA HoldsStep ==
  TypeOK /\ Calls /\ HoldsWhatItNames /\ Rests /\ [Next]_vars => HoldsWhatItNames' /\ Rests'
<1> DEFINE Holds == HoldsWhatItNames /\ Rests
<1> SUFFICES ASSUME TypeOK, Calls, HoldsWhatItNames, Rests, [Next]_vars PROVE Holds'
  OBVIOUS
<1> USE DEF TypeOK, Calls, HoldsWhatItNames, Rests
<1>0. \A p \in Objects : -1 \notin Of(p)
  BY SocketsAssumption DEF Of, Fds
<1>1. ASSUME NEW o \in Objects, ServerSocket(o) PROVE Holds'
  <2>1. CASE NewFd = -1
    <3>1. \A p \in Objects : Of(p)' = Of(p)
      BY <1>1, <2>1 DEF ServerSocket, Of
    <3> QED
      BY <1>0, <1>1, <2>1, <3>1 DEF ServerSocket
  <2>2. CASE NewFd # -1
    <3>1. \A p \in Objects : Of(p)' = IF p = o THEN Of(p) \cup {NewFd} ELSE Of(p)
      BY <1>1, <2>2, OpenedLemma DEF ServerSocket, Uses
    <3> QED
      BY <1>0, <1>1, <2>2, <3>1 DEF ServerSocket
  <2> QED
    BY <2>1, <2>2
<1>2. ASSUME NEW o \in Objects, ClientSocket(o) PROVE Holds'
  <2>1. CASE NewFd = -1
    <3>1. \A p \in Objects : Of(p)' = Of(p)
      BY <1>2, <2>1 DEF ClientSocket, Of
    <3> QED
      BY <1>0, <1>2, <2>1, <3>1 DEF ClientSocket
  <2>2. CASE NewFd # -1
    <3>1. \A p \in Objects : Of(p)' = IF p = o THEN Of(p) \cup {NewFd} ELSE Of(p)
      BY <1>2, <2>2, OpenedLemma DEF ClientSocket, Uses
    <3> QED
      BY <1>0, <1>2, <2>2, <3>1 DEF ClientSocket
  <2> QED
    BY <2>1, <2>2
<1>3. ASSUME NEW o \in Objects, CloseClient(o) PROVE Holds'
  <2>1. client_socket[o] \in Fds
    BY <1>3 DEF CloseClient
  <2>2. \A p \in Objects : Of(p)' = Of(p) \ {client_socket[o]}
    BY <1>3, <2>1, CloseAsLemma DEF CloseClient
  <2> QED
    BY <1>3, <2>2 DEF CloseClient
<1>4. ASSUME NEW o \in Objects, CleanServer(o) PROVE Holds'
  <2>1. \A p \in Objects : Of(p)' = Of(p) \ {server_socket[o]}
    <3>1. CASE server_socket[o] = -1
      BY <1>0, <1>4, <3>1 DEF CleanServer, Of
    <3>2. CASE server_socket[o] # -1
      <4>1. server_socket[o] \in Fds
        BY <3>2
      <4> QED
        BY <1>4, <3>2, <4>1, CloseAsLemma DEF CleanServer
    <3> QED
      BY <3>1, <3>2
  <2> QED
    BY <1>4, <2>1 DEF CleanServer
<1>5. ASSUME NEW o \in Objects, CleanClient(o) PROVE Holds'
  <2>1. \A p \in Objects : Of(p)' = Of(p) \ {client_socket[o]}
    <3>1. CASE client_socket[o] = -1
      BY <1>0, <1>5, <3>1 DEF CleanClient, Of
    <3>2. CASE client_socket[o] # -1
      <4>1. client_socket[o] \in Fds
        BY <3>2
      <4> QED
        BY <1>5, <3>2, <4>1, CloseAsLemma DEF CleanClient
    <3> QED
      BY <3>1, <3>2
  <2> QED
    BY <1>5, <2>1 DEF CleanClient
<1>6. CASE Elsewhere
  <2>1. \A p \in Objects : Of(p)' = Of(p)
    BY <1>6, NewFdLemma DEF Elsewhere, Of, Opened, Free, Other, Uses
  <2> QED
    BY <1>6, <2>1 DEF Elsewhere
<1>7. ASSUME UNCHANGED owner PROVE \A p \in Objects : Of(p)' = Of(p)
  BY <1>7 DEF Of
<1>8. ASSUME NEW o \in Objects,
             \/ SetUpFails(o) \/ Listen(o) \/ Return(o) \/ Unresolved(o) \/ ConnectFails(o)
             \/ Answered(o) \/ Unparsable(o) \/ Destroy(o)
      PROVE  Holds'
  BY <1>7, <1>8 DEF SetUpFails, Listen, Return, Unresolved, ConnectFails, Answered, Unparsable,
                    Destroy
<1>9. CASE UNCHANGED vars
  BY <1>7, <1>9 DEF vars
<1> QED
  BY <1>1, <1>2, <1>3, <1>4, <1>5, <1>6, <1>8, <1>9 DEF Next, start, request, cleanup

Kept == TypeOK /\ Calls /\ Owns /\ HoldsWhatItNames /\ Rests

LEMMA AlwaysKept == Spec => []Kept
<1>1. Init => Kept
  BY SocketsInit DEF Kept
<1>2. Kept /\ [Next]_vars => Kept'
  BY CallsStep, OwnsStep, HoldsStep DEF Kept
<1> QED
  BY <1>1, <1>2, PTL DEF Spec

(* The members keep their types, and a destroyed object names no socket.   *)
THEOREM SocketsTypeCorrect == Spec => []TypeOK
<1>1. Kept => TypeOK
  BY DEF Kept
<1> QED
  BY <1>1, AlwaysKept, PTL

(***************************************************************************)
(* Of all that closes a descriptor, whatever fails, close(client_socket)   *)
(* and cleanup after it, in an object that made a request, are the first   *)
(* that close one of somebody else.                                        *)
(***************************************************************************)
THEOREM StraysBeginWithRequest == Spec => []BeginsWithRequest
<1>1. Kept => BeginsWithRequest
  BY DEF Kept, Owns, BeginsWithRequest
<1> QED
  BY <1>1, AlwaysKept, PTL

(* Until then every object in its loop listens, unless its own failed      *)
(* request cleaned up.                                                     *)
THEOREM LoopKeepsListening == Spec => []KeepsListening
<1>1. Kept => KeepsListening
  BY DEF Kept, Calls, Owns, KeepsListening, Listening
<1> QED
  BY <1>1, AlwaysKept, PTL

(* An object has no descriptors but those in its two members...            *)
THEOREM MembersNameAll == Spec => []HoldsWhatItNames
<1>1. Kept => HoldsWhatItNames
  BY DEF Kept
<1> QED
  BY <1>1, AlwaysKept, PTL

(* ... and none after the destructor.                                      *)
THEOREM DestructorLeavesNothing == Spec => []NothingLeft
<1>1. Kept => NothingLeft
  <2>1. \A o \in Objects : -1 \notin Of(o)
    BY SocketsAssumption DEF Of, Fds
  <2> QED
    BY <2>1 DEF Kept, TypeOK, HoldsWhatItNames, NothingLeft
<1> QED
  BY <1>1, AlwaysKept, PTL
================================================================================
