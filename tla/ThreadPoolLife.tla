---------------------------- MODULE ThreadPoolLife ----------------------------
(***************************************************************************)
(* The whole life of a dp::thread_pool: its constructor (lib/thread_pool.h *)
(* 36-91), which asks for number_of_threads threads and makes do with      *)
(* those it gets, and then ThreadPool with as many workers as there are    *)
(* threads.  Each worker runs from the moment its thread is created.       *)
(***************************************************************************)
EXTENDS Integers, FiniteSets, ThreadSafeQueue

CONSTANTS
  number_of_threads,               \* asked for
  Tasks, NoTask, Callers, Endless  \* as in ThreadPool

ASSUME LifeAssumption ==
  /\ number_of_threads \in Nat
  /\ NoTask \notin Tasks
  /\ Endless \subseteq Tasks

VARIABLES
  phase,    \* of the constructor
  turn,     \* i of its loop
  threads,  \* threads_.size(), and current_id
  tasks, signal, rotation, pending, wpc, inHand, offset, cpc, carried, target,
  dpc, joining, stopRequested, submitted, begun, ended, future, failed

(* A pool of k threads. *)
P(k) == INSTANCE ThreadPool WITH N <- k

ctorVars == <<phase, turn, threads>>

(* what no step of the constructor touches *)
userVars == <<pending, cpc, carried, target, dpc, joining, submitted, begun, ended,
              future, failed>>

dequeVars == <<tasks, signal>>

threadVars == <<wpc, inHand, offset, stopRequested>>

vars == <<ctorVars, dequeVars, rotation, threadVars, userVars>>

(* The formula F(k) for the number of threads there are. *)
Here(F(_)) == \E k \in 0 .. number_of_threads : k = threads /\ F(k)

(* What there is before the loop, but for the semaphores: a deque for each *)
(* thread asked for.                                                       *)
InitRest ==
  /\ phase = IF number_of_threads > 0 THEN "push" ELSE "built"
  /\ turn = 0
  /\ threads = 0
  /\ tasks = [w \in 0 .. number_of_threads - 1 |-> <<>>]
  /\ rotation = <<>>
  /\ pending = 0
  /\ wpc = <<>> /\ inHand = <<>> /\ offset = <<>> /\ stopRequested = <<>>
  /\ cpc = [c \in Callers |-> "idle"]
  /\ carried = [c \in Callers |-> NoTask]
  /\ target = [c \in Callers |-> -1]
  /\ dpc = "alive"
  /\ joining = 0
  /\ submitted = {}
  /\ begun = [t \in Tasks |-> 0]
  /\ ended = [t \in Tasks |-> 0]
  /\ future = [t \in Tasks |-> "none"]
  /\ failed = {}

(* Mutant: the semaphores start with a token. *)
InitAwake == InitRest /\ signal = [w \in 0 .. number_of_threads - 1 |-> 1]

Init == InitRest /\ signal = [w \in 0 .. number_of_threads - 1 |-> 0]

--------------------------------------------------------------------------------
(* One turn of the loop.                                                   *)

PushId ==
  /\ phase = "push"
  /\ rotation' = PushBack(rotation, threads)
  /\ phase' = "create"
  /\ UNCHANGED <<turn, threads, dequeVars, threadVars, userVars>>

NextTurn ==
  /\ turn' = turn + 1
  /\ phase' = IF turn' < number_of_threads THEN "push" ELSE "built"

(* The worker starts at signal.acquire().                                  *)
ThreadCreated ==
  /\ phase = "create"
  /\ threads' = threads + 1
  /\ wpc' = [w \in 0 .. threads |-> IF w = threads THEN "acquire" ELSE wpc[w]]
  /\ inHand' = [w \in 0 .. threads |-> IF w = threads THEN NoTask ELSE inHand[w]]
  /\ offset' = [w \in 0 .. threads |-> IF w = threads THEN 0 ELSE offset[w]]
  /\ stopRequested' = [w \in 0 .. threads |-> w < threads /\ stopRequested[w]]
  /\ NextTurn
  /\ UNCHANGED <<dequeVars, rotation, userVars>>

DequesBut(n) == [w \in 0 .. Cardinality(DOMAIN tasks) - 1 - n |-> tasks[w]]

SignalsBut(n) == [w \in 0 .. Cardinality(DOMAIN signal) - 1 - n |-> signal[w]]

(* Mutant: the place of the thread in the rotation is not taken back. *)
CreationFailsHalf ==
  /\ phase = "create"
  /\ tasks' = DequesBut(1) /\ signal' = SignalsBut(1)
  /\ NextTurn
  /\ UNCHANGED <<threads, rotation, threadVars, userVars>>

(* The catch clause: the last deque goes, and the thread's place in the    *)
(* rotation.                                                               *)
CreationFails ==
  /\ phase = "create"
  /\ tasks' = DequesBut(1) /\ signal' = SignalsBut(1)
  /\ rotation' = WithoutLast(rotation)
  /\ NextTurn
  /\ UNCHANGED <<threads, threadVars, userVars>>

Construct == PushId \/ ThreadCreated \/ CreationFails

--------------------------------------------------------------------------------
(* A worker, already while others are being created; and, only when the    *)
(* object exists, the callers and the destructor.                          *)

Work(w) ==
  /\ w < threads
  /\ Here(LAMBDA k : P(k)!Work(w))
  /\ UNCHANGED ctorVars

Call(c) ==
  /\ phase = "built"
  /\ Here(LAMBDA k : P(k)!Call(c))
  /\ UNCHANGED ctorVars

FinishCall(c) == Here(LAMBDA k : P(k)!FinishCall(c)) /\ UNCHANGED ctorVars

Destroy == phase = "built" /\ Here(LAMBDA k : P(k)!Destroy) /\ UNCHANGED ctorVars

FinishDestroy == Here(LAMBDA k : P(k)!FinishDestroy) /\ UNCHANGED ctorVars

Next ==
  \/ Construct
  \/ \E w \in 0 .. number_of_threads - 1 : Work(w)
  \/ \E c \in Callers : Call(c) \/ FinishCall(c)
  \/ Destroy \/ FinishDestroy

Spec == Init /\ [][Next]_vars

(* As in ThreadPool; the constructor runs in a thread of the program.      *)
Fairness ==
  /\ WF_vars(Construct)
  /\ \A w \in 0 .. number_of_threads - 1 : WF_vars(Work(w))
  /\ \A c \in Callers : WF_vars(FinishCall(c))
  /\ WF_vars(FinishDestroy)

FairSpec == Spec /\ Fairness

--------------------------------------------------------------------------------
(***************************************************************************)
(* Whichever creations fail, what the constructor leaves is a pool of the  *)
(* threads that were created: as many deques and semaphores, numbered as   *)
(* the threads are, a rotation that has each of them once, and every       *)
(* worker at its semaphore.                                                *)
(***************************************************************************)
BuiltAsPool ==
  [][phase # "built" /\ phase' = "built" =>
       \E k \in 0 .. number_of_threads : k = threads' /\ (P(k)!Init)']_vars

(***************************************************************************)
(* No worker gets past its semaphore while tasks_ still loses elements:    *)
(* nobody reads tasks_.size() before it is what it will be.                *)
(***************************************************************************)
EarlyWorkersSleep ==
  phase # "built" => \A w \in 0 .. threads - 1 : wpc[w] = "acquire" /\ signal[w] = 0

(***************************************************************************)
(* A shortage of threads makes the pool smaller and nothing else: one that *)
(* got any thread still runs every task, unless it is destroyed meanwhile, *)
(* and one that got none does not leave anybody waiting.                   *)
(***************************************************************************)
RunsOrRefuses ==
  \A t \in Tasks :
    t \in submitted ~>
      \/ ended[t] = 1 \/ t \in failed \/ dpc # "alive"
      \/ threads = 0 /\ future[t] # "waiting"
================================================================================
