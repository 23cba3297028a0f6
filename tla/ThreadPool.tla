------------------------------ MODULE ThreadPool ------------------------------
(***************************************************************************)
(* dp::thread_pool (lib/thread_pool.h), from the end of its constructor to *)
(* the end of its destructor.  Worker threads 0 .. N-1 each own a deque of *)
(* tasks and a semaphore; callers put a task on the deque of the worker at *)
(* the front of priority_queue_; a worker that has run out of tasks steals *)
(* one from another deque, and sleeps on its semaphore only after it has   *)
(* read pending_tasks_ = 0.                                                *)
(*                                                                         *)
(* One action is one access to memory that threads share: an operation of  *)
(* a thread_safe_queue, of the atomic counter, of a semaphore, of a stop   *)
(* token.  Atomics are sequentially consistent here.                       *)
(***************************************************************************)
EXTENDS Integers, FiniteSets, ThreadSafeQueue

CONSTANTS
  N,             \* threads the constructor managed to create
  Tasks,         \* one value for each call of enqueue or enqueue_detach
  NoTask,        \* no task in hand
  Callers,       \* threads that call enqueue and enqueue_detach
  Endless        \* the tasks whose function never returns

ASSUME PoolAssumption ==
  /\ N \in Nat
  /\ NoTask \notin Tasks
  /\ Endless \subseteq Tasks

Workers == 0 .. N - 1

NoWorker == -1

VARIABLES
  \* the pool's own state
  tasks,      \* tasks_[w].tasks
  signal,     \* tasks_[w].signal
  rotation,   \* priority_queue_
  pending,    \* pending_tasks_
  \* the workers
  wpc, inHand, offset,
  \* the callers inside enqueue_task
  cpc, carried, target,
  \* the destructor
  dpc, joining, stopRequested,
  \* what has become of the tasks; future is the one enqueue returned, and
  \* failed are the tasks whose call threw
  submitted, begun, ended, future, failed

poolVars   == <<tasks, signal, rotation, pending>>
workerVars == <<wpc, inHand, offset>>
callerVars == <<cpc, carried, target>>
dtorVars   == <<dpc, joining, stopRequested>>
taskVars   == <<submitted, begun, ended, future, failed>>
vars == <<poolVars, workerVars, callerVars, dtorVars, taskVars>>

WorkerPC == {"acquire", "pop", "claimed", "running", "steal", "load",
             "rotate", "check", "exited"}
CallerPC == {"idle", "add", "push", "release"}
DtorPC   == {"alive", "stop", "signal", "join", "free", "dead"}
Futures  == {"none", "waiting", "value", "exception", "broken"}

Init ==
  /\ tasks = [w \in Workers |-> <<>>]
  /\ signal = [w \in Workers |-> 0]
  /\ rotation = [i \in 1 .. N |-> i - 1]
  /\ pending = 0
  /\ wpc = [w \in Workers |-> "acquire"]
  /\ inHand = [w \in Workers |-> NoTask]
  /\ offset = [w \in Workers |-> 0]
  /\ cpc = [c \in Callers |-> "idle"]
  /\ carried = [c \in Callers |-> NoTask]
  /\ target = [c \in Callers |-> NoWorker]
  /\ dpc = "alive"
  /\ joining = 0
  /\ stopRequested = [w \in Workers |-> FALSE]
  /\ submitted = {}
  /\ begun = [t \in Tasks |-> 0]
  /\ ended = [t \in Tasks |-> 0]
  /\ future = [t \in Tasks |-> "none"]
  /\ failed = {}

(***************************************************************************)
(* std::binary_semaphore.  Releasing it at its maximum is undefined:       *)
(* libstdc++ and libc++ count on, other libraries store 1.                 *)
(***************************************************************************)
Released(w) ==
  {[signal EXCEPT ![w] = @ + 1], [signal EXCEPT ![w] = 1]}

--------------------------------------------------------------------------------
(* enqueue, enqueue_detach and enqueue_task, called by thread c.           *)

(* Mutant: the early return leaks the task and with it the promise. *)
DroppedLeaking(t, f) ==
  /\ rotation = <<>>
  /\ future' = [future EXCEPT ![t] = f]
  /\ UNCHANGED <<rotation, callerVars>>

(***************************************************************************)
(* Without any thread enqueue_task returns at once and the wrapped task is *)
(* destroyed, with the promise it holds.                                   *)
(***************************************************************************)
Dropped(t, f) ==
  /\ rotation = <<>>
  /\ future' = [future EXCEPT ![t] = IF f = "waiting" THEN "broken" ELSE f]
  /\ UNCHANGED <<rotation, callerVars>>

ChooseWorker(c, t, f) ==
  /\ rotation # <<>>
  /\ target' = [target EXCEPT ![c] = First(rotation)]
  /\ rotation' = RotatedToBack(rotation)
  /\ carried' = [carried EXCEPT ![c] = t]
  /\ cpc' = [cpc EXCEPT ![c] = "add"]
  /\ future' = [future EXCEPT ![t] = f]

(***************************************************************************)
(* Calling a member of an object whose destructor has started is outside   *)
(* its contract, so a call begins only while the pool is alive.            *)
(***************************************************************************)
EnqueueTask(c, t, f) ==
  /\ dpc = "alive"
  /\ cpc[c] = "idle"
  /\ t \notin submitted
  /\ submitted' = submitted \cup {t}
  /\ Dropped(t, f) \/ ChooseWorker(c, t, f)
  /\ UNCHANGED <<tasks, signal, pending, workerVars, dtorVars, begun, ended, failed>>

Enqueue(c, t) == EnqueueTask(c, t, "waiting")

EnqueueDetach(c, t) == EnqueueTask(c, t, "none")

AddPending(c) ==
  /\ cpc[c] = "add"
  /\ pending' = pending + 1
  /\ cpc' = [cpc EXCEPT ![c] = "push"]
  /\ UNCHANGED <<tasks, signal, rotation, workerVars, carried, target,
                 dtorVars, taskVars>>

PushTask(c) ==
  /\ cpc[c] = "push"
  /\ tasks' = [tasks EXCEPT ![target[c]] = PushBack(@, carried[c])]
  /\ carried' = [carried EXCEPT ![c] = NoTask]
  /\ cpc' = [cpc EXCEPT ![c] = "release"]
  /\ UNCHANGED <<signal, rotation, pending, workerVars, target, dtorVars,
                 taskVars>>

(* Mutant: a failed call leaves its task on the deque. *)
PushFailsLate(c) ==
  /\ cpc[c] = "push"
  /\ tasks' = [tasks EXCEPT ![target[c]] = PushBack(@, carried[c])]
  /\ failed' = failed \cup {carried[c]}
  /\ future' = [future EXCEPT ![carried[c]] = "none"]
  /\ carried' = [carried EXCEPT ![c] = NoTask]
  /\ target' = [target EXCEPT ![c] = NoWorker]
  /\ cpc' = [cpc EXCEPT ![c] = "idle"]
  /\ UNCHANGED <<signal, rotation, pending, workerVars, dtorVars, submitted, begun, ended>>

(***************************************************************************)
(* The closure is moved into a FunctionType, and the deque may need        *)
(* another block: both allocate, and what they throw leaves enqueue_task   *)
(* after the fetch_add, which nothing takes back.  The caller gets the     *)
(* exception in place of a future.                                         *)
(***************************************************************************)
PushFails(c) ==
  /\ cpc[c] = "push"
  /\ failed' = failed \cup {carried[c]}
  /\ future' = [future EXCEPT ![carried[c]] = "none"]
  /\ carried' = [carried EXCEPT ![c] = NoTask]
  /\ target' = [target EXCEPT ![c] = NoWorker]
  /\ cpc' = [cpc EXCEPT ![c] = "idle"]
  /\ UNCHANGED <<tasks, signal, rotation, pending, workerVars, dtorVars, submitted,
                 begun, ended>>

(* Mutant: "only the first waiting task has to wake a worker". *)
ReleaseIfFirst(c) ==
  /\ cpc[c] = "release"
  /\ signal' \in IF pending = 1 THEN Released(target[c]) ELSE {signal}
  /\ target' = [target EXCEPT ![c] = NoWorker]
  /\ cpc' = [cpc EXCEPT ![c] = "idle"]
  /\ UNCHANGED <<tasks, rotation, pending, workerVars, carried, dtorVars,
                 taskVars>>

ReleaseSignal(c) ==
  /\ cpc[c] = "release"
  /\ signal' \in Released(target[c])
  /\ target' = [target EXCEPT ![c] = NoWorker]
  /\ cpc' = [cpc EXCEPT ![c] = "idle"]
  /\ UNCHANGED <<tasks, rotation, pending, workerVars, carried, dtorVars,
                 taskVars>>

--------------------------------------------------------------------------------
(* The loop of worker w.                                                   *)

Acquire(w) ==
  /\ wpc[w] = "acquire"
  /\ signal[w] > 0
  /\ signal' = [signal EXCEPT ![w] = @ - 1]
  /\ wpc' = [wpc EXCEPT ![w] = "pop"]
  /\ UNCHANGED <<tasks, rotation, pending, inHand, offset, callerVars,
                 dtorVars, taskVars>>

(* The owner takes tasks from the front until its deque is empty; then it  *)
(* tries the other deques, the one after its own first.                    *)
PopOwn(w) ==
  /\ wpc[w] = "pop"
  /\ \/ /\ tasks[w] # <<>>
        /\ inHand' = [inHand EXCEPT ![w] = First(tasks[w])]
        /\ tasks' = [tasks EXCEPT ![w] = WithoutFirst(@)]
        /\ wpc' = [wpc EXCEPT ![w] = "claimed"]
        /\ UNCHANGED offset
     \/ /\ tasks[w] = <<>>
        /\ offset' = [offset EXCEPT ![w] = 1]
        /\ wpc' = [wpc EXCEPT ![w] = IF N > 1 THEN "steal" ELSE "load"]
        /\ UNCHANGED <<tasks, inHand>>
  /\ UNCHANGED <<signal, rotation, pending, callerVars, dtorVars, taskVars>>

Victim(w) == (w + offset[w]) % N

Steal(w) ==
  /\ wpc[w] = "steal"
  /\ \/ /\ tasks[Victim(w)] # <<>>
        /\ inHand' = [inHand EXCEPT ![w] = Stolen(tasks[Victim(w)])]
        /\ tasks' = [tasks EXCEPT ![Victim(w)] = WithoutStolen(@)]
        /\ wpc' = [wpc EXCEPT ![w] = "claimed"]
        /\ UNCHANGED offset
     \/ /\ tasks[Victim(w)] = <<>>
        /\ IF offset[w] + 1 < N
           THEN /\ offset' = [offset EXCEPT ![w] = @ + 1]
                /\ UNCHANGED wpc
           ELSE /\ wpc' = [wpc EXCEPT ![w] = "load"]
                /\ UNCHANGED offset
        /\ UNCHANGED <<tasks, inHand>>
  /\ UNCHANGED <<signal, rotation, pending, callerVars, dtorVars, taskVars>>

(* Mutant: fetch_sub is forgotten for a stolen task. *)
BeginStolenUncounted(w) ==
  /\ wpc[w] = "claimed"
  /\ pending' = IF offset[w] = 0 THEN pending - 1 ELSE pending
  /\ begun' = [begun EXCEPT ![inHand[w]] = @ + 1]
  /\ wpc' = [wpc EXCEPT ![w] = "running"]
  /\ UNCHANGED <<tasks, signal, rotation, inHand, offset, callerVars,
                 dtorVars, submitted, ended, future, failed>>

(* pending_tasks_.fetch_sub(1), and the task's function is entered.        *)
BeginTask(w) ==
  /\ wpc[w] = "claimed"
  /\ pending' = pending - 1
  /\ begun' = [begun EXCEPT ![inHand[w]] = @ + 1]
  /\ wpc' = [wpc EXCEPT ![w] = "running"]
  /\ UNCHANGED <<tasks, signal, rotation, inHand, offset, callerVars,
                 dtorVars, submitted, ended, future, failed>>

(* Mutant: what the function of enqueue_detach throws ends the worker's loop. *)
EndTaskUncaught(w) ==
  /\ wpc[w] = "running"
  /\ ended' = [ended EXCEPT ![inHand[w]] = @ + 1]
  /\ inHand' = [inHand EXCEPT ![w] = NoTask]
  /\ \/ /\ future[inHand[w]] = "waiting"
        /\ future' = [future EXCEPT ![inHand[w]] = "value"]
        /\ wpc' = [wpc EXCEPT ![w] = IF offset[w] = 0 THEN "pop" ELSE "load"]
     \/ /\ future[inHand[w]] # "waiting"
        /\ wpc' = [wpc EXCEPT ![w] = "exited"]
        /\ UNCHANGED future
  /\ UNCHANGED <<poolVars, offset, callerVars, dtorVars, submitted, begun, failed>>

(***************************************************************************)
(* The task returns or throws.  Both wrappers catch what it throws: that   *)
(* of enqueue_detach forgets it, that of enqueue stores it in the promise. *)
(* offset is 0 while the worker runs tasks of its own deque; after one     *)
(* stolen task it stops stealing.                                          *)
(***************************************************************************)
EndTask(w) ==
  /\ wpc[w] = "running"
  /\ inHand[w] \notin Endless
  /\ ended' = [ended EXCEPT ![inHand[w]] = @ + 1]
  /\ IF future[inHand[w]] = "waiting"
     THEN \E o \in {"value", "exception"} :
             future' = [future EXCEPT ![inHand[w]] = o]
     ELSE UNCHANGED future
  /\ inHand' = [inHand EXCEPT ![w] = NoTask]
  /\ wpc' = [wpc EXCEPT ![w] = IF offset[w] = 0 THEN "pop" ELSE "load"]
  /\ UNCHANGED <<poolVars, offset, callerVars, dtorVars, submitted, begun, failed>>

LoadPending(w) ==
  /\ wpc[w] = "load"
  /\ wpc' = [wpc EXCEPT ![w] = IF pending > 0 THEN "pop" ELSE "rotate"]
  /\ offset' = [offset EXCEPT ![w] = 0]
  /\ UNCHANGED <<poolVars, inHand, callerVars, dtorVars, taskVars>>

Rotate(w) ==
  /\ wpc[w] = "rotate"
  /\ rotation' = RotateToFront(rotation, w)
  /\ wpc' = [wpc EXCEPT ![w] = "check"]
  /\ UNCHANGED <<tasks, signal, pending, inHand, offset, callerVars,
                 dtorVars, taskVars>>

CheckStop(w) ==
  /\ wpc[w] = "check"
  /\ wpc' = [wpc EXCEPT ![w] = IF stopRequested[w] THEN "exited" ELSE "acquire"]
  /\ UNCHANGED <<poolVars, inHand, offset, callerVars, dtorVars, taskVars>>

--------------------------------------------------------------------------------
(* The destructor: for each thread request_stop, release, join.            *)

Destroy ==
  /\ dpc = "alive"
  /\ \A c \in Callers : cpc[c] = "idle"
  /\ dpc' = IF N > 0 THEN "stop" ELSE "free"
  /\ UNCHANGED <<poolVars, workerVars, callerVars, joining, stopRequested,
                 taskVars>>

RequestStop ==
  /\ dpc = "stop"
  /\ stopRequested' = [stopRequested EXCEPT ![joining] = TRUE]
  /\ dpc' = "signal"
  /\ UNCHANGED <<poolVars, workerVars, callerVars, joining, taskVars>>

(* Mutant: the destructor joins without releasing the semaphore. *)
NoSignalStop ==
  /\ dpc = "signal"
  /\ dpc' = "join"
  /\ UNCHANGED <<poolVars, workerVars, callerVars, joining, stopRequested, taskVars>>

SignalStop ==
  /\ dpc = "signal"
  /\ signal' \in Released(joining)
  /\ dpc' = "join"
  /\ UNCHANGED <<tasks, rotation, pending, workerVars, callerVars, joining,
                 stopRequested, taskVars>>

(* Mutants: one join too many; and a thread that is detached, not joined. *)
JoinPastEnd ==
  /\ dpc = "join"
  /\ wpc[joining] = "exited"
  /\ joining' = joining + 1 /\ dpc' = "stop"
  /\ UNCHANGED <<poolVars, workerVars, callerVars, stopRequested, taskVars>>

Detach ==
  /\ dpc = "join"
  /\ IF joining + 1 < N
     THEN joining' = joining + 1 /\ dpc' = "stop"
     ELSE dpc' = "free" /\ UNCHANGED joining
  /\ UNCHANGED <<poolVars, workerVars, callerVars, stopRequested, taskVars>>

Join ==
  /\ dpc = "join"
  /\ wpc[joining] = "exited"
  /\ IF joining + 1 < N
     THEN joining' = joining + 1 /\ dpc' = "stop"
     ELSE dpc' = "free" /\ UNCHANGED joining
  /\ UNCHANGED <<poolVars, workerVars, callerVars, stopRequested, taskVars>>

(* Mutant: the deques go, but no promise in them is broken. *)
FreeUnbroken ==
  /\ dpc = "free"
  /\ dpc' = "dead"
  /\ tasks' = [w \in Workers |-> <<>>]
  /\ UNCHANGED <<signal, rotation, pending, workerVars, callerVars, joining,
                 stopRequested, taskVars>>

(* The members are destroyed: a task still in a deque goes, and a future   *)
(* that waits for it is told that its promise is broken.                   *)
FreeMembers ==
  /\ dpc = "free"
  /\ dpc' = "dead"
  /\ tasks' = [w \in Workers |-> <<>>]
  /\ future' = [t \in Tasks |->
                  IF (\E w \in Workers : Contains(tasks[w], t)) /\ future[t] = "waiting"
                  THEN "broken" ELSE future[t]]
  /\ UNCHANGED <<signal, rotation, pending, workerVars, callerVars, joining,
                 stopRequested, submitted, begun, ended, failed>>

--------------------------------------------------------------------------------
Call(c) == \E t \in Tasks : Enqueue(c, t) \/ EnqueueDetach(c, t)

FinishCall(c) == AddPending(c) \/ PushTask(c) \/ PushFails(c) \/ ReleaseSignal(c)

Work(w) ==
  \/ Acquire(w) \/ PopOwn(w) \/ Steal(w) \/ BeginTask(w) \/ EndTask(w)
  \/ LoadPending(w) \/ Rotate(w) \/ CheckStop(w)

FinishDestroy == RequestStop \/ SignalStop \/ Join \/ FreeMembers

Next ==
  \/ \E c \in Callers : Call(c) \/ FinishCall(c)
  \/ \E w \in Workers : Work(w)
  \/ Destroy \/ FinishDestroy

Spec == Init /\ [][Next]_vars

(***************************************************************************)
(* The operating system runs every thread that can run.  Nobody has to     *)
(* call the pool or to destroy it.                                         *)
(***************************************************************************)
Fairness ==
  /\ \A c \in Callers : WF_vars(FinishCall(c))
  /\ \A w \in Workers : WF_vars(Work(w))
  /\ WF_vars(FinishDestroy)

FairSpec == Spec /\ Fairness

--------------------------------------------------------------------------------
TypeOK ==
  /\ tasks \in [Workers -> Seq(Tasks)]
  /\ signal \in [Workers -> Nat]
  /\ rotation \in Seq(Workers)
  /\ pending \in Int
  /\ wpc \in [Workers -> WorkerPC]
  /\ inHand \in [Workers -> Tasks \cup {NoTask}]
  /\ \A w \in Workers : wpc[w] \in {"claimed", "running"} => inHand[w] \in Tasks
  /\ offset \in [Workers -> 0 .. N]
  /\ cpc \in [Callers -> CallerPC]
  /\ carried \in [Callers -> Tasks \cup {NoTask}]
  /\ \A c \in Callers : cpc[c] \in {"add", "push"} => carried[c] \in Tasks
  /\ target \in [Callers -> Workers \cup {NoWorker}]
  /\ \A c \in Callers : cpc[c] # "idle" => target[c] \in Workers
  /\ dpc \in DtorPC
  /\ joining \in 0 .. N
  /\ dpc = "alive" => joining = 0
  /\ dpc \in {"stop", "signal", "join"} => joining \in Workers
  /\ stopRequested \in [Workers -> BOOLEAN]
  /\ submitted \in SUBSET Tasks
  /\ begun \in [Tasks -> Nat]
  /\ ended \in [Tasks -> Nat]
  /\ future \in [Tasks -> Futures]
  /\ failed \in SUBSET Tasks

--------------------------------------------------------------------------------
(* Where a task that has been submitted can be.                            *)

Carries(c) == cpc[c] \in {"add", "push"}

Holds(w) == wpc[w] \in {"claimed", "running"}

Waits(t) ==
  \/ \E c \in Callers : Carries(c) /\ carried[c] = t
  \/ \E w \in Workers : Contains(tasks[w], t)
  \/ \E w \in Workers : wpc[w] = "claimed" /\ inHand[w] = t

Runs(t) == \E w \in Workers : wpc[w] = "running" /\ inHand[w] = t

(***************************************************************************)
(* What pending_tasks_ counts: a task from the fetch_add of the call to    *)
(* the fetch_sub of the worker, and one whose push failed for ever.        *)
(***************************************************************************)
Outstanding ==
  {t \in Tasks :
     \/ \E c \in Callers : cpc[c] = "push" /\ carried[c] = t
     \/ \E w \in Workers : Contains(tasks[w], t)
     \/ \E w \in Workers : wpc[w] = "claimed" /\ inHand[w] = t
     \/ t \in failed}

(***************************************************************************)
(* No task is in two places: the callers, the positions of all the deques  *)
(* and the workers' hands hold different tasks, although owners pop,       *)
(* thieves steal and callers push at the same time.                        *)
(***************************************************************************)
OnePlace ==
  /\ \A w \in Workers : IsInjective(tasks[w])
  /\ \A w, v \in Workers, t \in Tasks :
        Contains(tasks[w], t) /\ Contains(tasks[v], t) => w = v
  /\ \A c \in Callers, w \in Workers : Carries(c) =>
        ~Contains(tasks[w], carried[c]) /\ (Holds(w) => inHand[w] # carried[c])
  /\ \A c, d \in Callers :
        Carries(c) /\ Carries(d) /\ carried[c] = carried[d] => c = d
  /\ \A w, v \in Workers : Holds(w) =>
        ~Contains(tasks[v], inHand[w]) /\ (Holds(v) /\ inHand[w] = inHand[v] => w = v)

(***************************************************************************)
(* No task is lost or run twice while the pool exists: a task that was     *)
(* submitted and has not begun waits in some place, one that has begun and *)
(* not ended is in the hands of a worker, and none begins a second time.   *)
(* A task whose call threw is never executed: its caller may try again.    *)
(***************************************************************************)
Accounted ==
  \A t \in Tasks :
    /\ begun[t] <= 1 /\ ended[t] <= begun[t]
    /\ Waits(t) => t \in submitted /\ begun[t] = 0
    /\ Runs(t) <=> begun[t] = 1 /\ ended[t] = 0
    /\ t \in submitted /\ begun[t] = 0 /\ N > 0 /\ dpc # "dead" => Waits(t) \/ t \in failed
    /\ t \in failed => t \in submitted /\ begun[t] = 0 /\ ~Waits(t)
    /\ begun[t] > 0 => t \in submitted

(***************************************************************************)
(* pending_tasks_ is exact: it never runs ahead of or behind the tasks     *)
(* that wait, so the loop that spins on it stops just when nothing is      *)
(* left.  Each call that throws raises it by one for ever, which is all    *)
(* that such a call does to it.                                            *)
(***************************************************************************)
PendingExact == dpc # "dead" => pending = Cardinality(Outstanding)

(***************************************************************************)
(* No wake-up is lost between the load of pending_tasks_ and the acquire:  *)
(* a worker on its way to sleep, or asleep, with a task on its own deque   *)
(* has a token on its semaphore or a caller about to release one.          *)
(***************************************************************************)
NoLostWakeup ==
  dpc # "dead" =>
    \A w \in Workers :
      wpc[w] \in {"rotate", "check", "acquire"} /\ tasks[w] # <<>> =>
        \/ signal[w] > 0
        \/ \E c \in Callers : cpc[c] = "release" /\ target[c] = w

(***************************************************************************)
(* priority_queue_ always holds every worker exactly once, however callers *)
(* and workers interleave their rotations: no worker drops out of the      *)
(* choice.                                                                 *)
(***************************************************************************)
RotationComplete ==
  Len(rotation) = N /\ \A w \in Workers : Contains(rotation, w)

(***************************************************************************)
(* A future never lies: a value or an exception means that the task ran    *)
(* once to its end, a broken promise that it never began and never will,   *)
(* and the destruction of the pool leaves no future waiting.               *)
(***************************************************************************)
FutureHonest ==
  \A t \in Tasks :
    /\ future[t] \in {"value", "exception"} => begun[t] = 1 /\ ended[t] = 1
    /\ ended[t] = 1 => future[t] \notin {"waiting", "broken"}
    /\ future[t] = "broken" => begun[t] = 0 /\ ~Waits(t)
    /\ dpc = "dead" => future[t] # "waiting"

--------------------------------------------------------------------------------
(***************************************************************************)
(* A task that a pool with threads accepts runs to its end, unless the     *)
(* pool is destroyed meanwhile, whatever calls for other tasks have        *)
(* failed.  (When every task's function returns.)                          *)
(***************************************************************************)
EveryTaskRuns ==
  \A t \in Tasks : t \in submitted ~> (ended[t] = 1 \/ t \in failed \/ dpc # "alive")

(***************************************************************************)
(* ~thread_pool returns: every worker notices its stop request and exits.  *)
(* After a failed push it need not: the counter never comes back to 0, and *)
(* a worker that is awake does not look at its stop token any more.        *)
(***************************************************************************)
DestructorReturns == dpc # "alive" /\ failed = {} ~> dpc = "dead"

(* A thread in get() on a future of the pool is not left there for ever.   *)
FuturesResolve ==
  \A t \in Tasks : future[t] = "waiting" ~> future[t] # "waiting"

(***************************************************************************)
(* Workers do not spin for ever: once the callers have made their calls    *)
(* every worker goes to sleep, or exits, and stays so, if no push failed.  *)
(***************************************************************************)
PoolComesToRest ==
  <>(failed # {}) \/ <>[](\A w \in Workers : wpc[w] = "exited" \/ (wpc[w] = "acquire" /\ signal[w] = 0))

(***************************************************************************)
(* "Note that task execution begins once the task is enqueued"             *)
(* (lib/thread_pool.h:108): a submitted task begins, or at least every     *)
(* worker is at some time busy running another one.                        *)
(***************************************************************************)
BeginsOnceEnqueued ==
  \A t \in Tasks :
    t \in submitted ~>
      (begun[t] = 1 \/ dpc # "alive" \/ \A w \in Workers : wpc[w] = "running")

--------------------------------------------------------------------------------
(* What the pool promises: see TaskPool.                                   *)
Promise == INSTANCE TaskPool WITH size <- N, accepted <- submitted, open <- dpc # "dead"

RefinesTaskPool == Promise!Spec
================================================================================
