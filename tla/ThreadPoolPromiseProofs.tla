------------------------ MODULE ThreadPoolPromiseProofs ------------------------
(***************************************************************************)
(* What a user of ThreadPool sees, proved for any number of threads, tasks *)
(* and callers: futures tell the truth, and the pool implements TaskPool.  *)
(***************************************************************************)
EXTENDS ThreadPoolProofs

(***************************************************************************)
(* How far the destructor has come: no call is under way, and the workers  *)
(* that it has joined have exited; in the end the deques are gone.         *)
(***************************************************************************)
Shutdown ==
  /\ dpc # "alive" => \A c \in Callers : cpc[c] = "idle"
  /\ dpc \in {"stop", "signal", "join"} => \A w \in Workers : w < joining => wpc[w] = "exited"
  /\ dpc \in {"free", "dead"} => \A w \in Workers : wpc[w] = "exited"
  /\ dpc = "dead" => \A w \in Workers : tasks[w] = <<>>

LEMMA ShutdownInit == Init => Shutdown
BY DEF Init, Shutdown

(* Who has exited stays so, and no call begins once the destructor has.    *)
LEMMA ShutdownStep == TypeOK /\ Shutdown /\ [Next]_vars => Shutdown'
<1> SUFFICES ASSUME TypeOK, Shutdown, [Next]_vars PROVE Shutdown'
  OBVIOUS
<1> USE PoolAssumption DEF Shutdown
<1>1. ASSUME NEW c \in Callers, Call(c) PROVE Shutdown'
  BY <1>1 DEF Call, Enqueue, EnqueueDetach, EnqueueTask, workerVars, dtorVars
<1>2. ASSUME NEW c \in Callers, FinishCall(c) PROVE Shutdown'
  <2>1. cpc[c] # "idle" /\ UNCHANGED <<wpc, dpc, joining>>
    BY <1>2 DEF FinishCall, AddPending, PushTask, PushFails, ReleaseSignal, workerVars, dtorVars
  <2> QED
    BY <2>1
<1>3. ASSUME NEW w \in Workers, Work(w) PROVE Shutdown'
  <2>1. /\ UNCHANGED <<cpc, dpc, joining>>
        /\ wpc[w] # "exited"
        /\ \A v \in Workers : v # w => wpc'[v] = wpc[v]
    BY <1>3 DEF TypeOK, Work, Acquire, PopOwn, Steal, BeginTask, EndTask, LoadPending, Rotate,
                CheckStop, callerVars, dtorVars
  <2> QED
    BY <2>1 DEF TypeOK
<1>4. CASE Destroy
  <2>1. UNCHANGED <<wpc, cpc, joining>> /\ joining = 0 /\ \A c \in Callers : cpc[c] = "idle"
    BY <1>4 DEF Destroy, workerVars, callerVars, TypeOK
  <2>2. dpc' = (IF N > 0 THEN "stop" ELSE "free")
    BY <1>4 DEF Destroy
  <2>3. CASE N > 0
    BY <2>1, <2>2, <2>3 DEF Workers
  <2>4. CASE ~(N > 0)
    <3>1. Workers = {}
      BY <2>4 DEF Workers
    <3> QED
      BY <2>1, <3>1
  <2> QED
    BY <2>3, <2>4
<1>5. CASE RequestStop
  BY <1>5 DEF RequestStop, workerVars, callerVars
<1>6. CASE SignalStop
  BY <1>6 DEF SignalStop, workerVars, callerVars
<1>7. CASE Join
  <2>1. UNCHANGED <<wpc, cpc>> /\ dpc = "join" /\ joining \in Workers /\ wpc[joining] = "exited"
    BY <1>7 DEF Join, workerVars, callerVars, TypeOK
  <2>2. CASE joining + 1 < N
    <3>1. \A w \in Workers : w < joining + 1 => w < joining \/ w = joining
      BY <2>1 DEF Workers
    <3>2. joining' = joining + 1 /\ dpc' = "stop"
      BY <1>7, <2>2 DEF Join
    <3> QED
      BY <2>1, <3>1, <3>2
  <2>3. CASE ~(joining + 1 < N)
    <3>1. \A w \in Workers : w < joining \/ w = joining
      BY <2>1, <2>3 DEF Workers
    <3>2. dpc' = "free"
      BY <1>7, <2>3 DEF Join
    <3> QED
      BY <2>1, <3>1, <3>2
  <2> QED
    BY <2>2, <2>3
<1>8. CASE FreeMembers
  BY <1>8 DEF FreeMembers, workerVars, callerVars
<1>9. CASE UNCHANGED vars
  BY <1>9 DEF vars, poolVars, workerVars, callerVars, dtorVars
<1> QED
  BY <1>1, <1>2, <1>3, <1>4, <1>5, <1>6, <1>7, <1>8, <1>9 DEF Next, FinishDestroy

Safe == Places /\ Shutdown

LEMMA SafeInit == Init => Safe
BY PlacesInit, ShutdownInit DEF Safe

LEMMA SafeStep == Safe /\ [Next]_vars => Safe'
BY PlacesStep, ShutdownStep DEF Safe, Places

--------------------------------------------------------------------------------
(* Futures.                                                                *)

(***************************************************************************)
(* FutureHonest, and what keeps it true: only a submitted task whose call  *)
(* has not thrown has a future, and a promise is broken only by a pool     *)
(* without threads or by the destruction of the pool.                      *)
(***************************************************************************)
Truthful ==
  \A t \in Tasks :
    /\ future[t] # "none" => t \in submitted /\ t \notin failed
    /\ future[t] \in {"value", "exception"} => begun[t] = 1 /\ ended[t] = 1
    /\ ended[t] = 1 => future[t] \notin {"waiting", "broken"}
    /\ future[t] = "broken" => begun[t] = 0 /\ (N = 0 \/ dpc = "dead")
    /\ N = 0 \/ dpc = "dead" => future[t] # "waiting"

LEMMA TruthfulInit == Init => Truthful
BY DEF Init, Truthful

(* A step that leaves the futures, and what they speak of, as it was.      *)
LEMMA TruthfulQuiet ==
  ASSUME Truthful, UNCHANGED <<future, submitted, failed, begun, ended>>,
         dpc' = "dead" <=> dpc = "dead"
  PROVE  Truthful'
BY DEF Truthful

(* No task waits in a pool without threads or in one that is gone.         *)
LEMMA NobodyWaits ==
  ASSUME Safe, N = 0 \/ dpc = "dead", NEW t \in Tasks
  PROVE  ~Waits(t)
<1>1. CASE N = 0
  <2>1. Workers = {}
    BY <1>1 DEF Workers
  <2>2. \A c \in Callers : ~Carries(c)
    BY <2>1 DEF Safe, Places, TypeOK, Carries
  <2> QED
    BY <2>1, <2>2 DEF Waits
<1>2. CASE dpc = "dead"
  <2>1. \A w \in Workers : ~Contains(tasks[w], t)
    BY <1>2 DEF Safe, Shutdown, Contains
  <2> QED
    BY <1>2, <2>1 DEF Safe, Shutdown, Waits, Carries
<1> QED
  BY <1>1, <1>2

LEMMA TruthfulHonest == Safe /\ Truthful => FutureHonest
BY NobodyWaits DEF Truthful, FutureHonest

(* Once the workers have exited a task that waits does so in a deque.      *)
LEMMA AllExited ==
  ASSUME Safe, dpc = "free", NEW t \in Tasks
  PROVE  /\ ~Runs(t)
         /\ Waits(t) => \E w \in Workers : Contains(tasks[w], t)
BY DEF Safe, Shutdown, Waits, Runs, Carries

LEMMA TruthfulStep == Safe /\ Truthful /\ [Next]_vars => Truthful'
<1> SUFFICES ASSUME Safe, Truthful, [Next]_vars PROVE Truthful'
  OBVIOUS
<1>0. TypeOK /\ RotationComplete /\ OnePlace /\ Accounted /\ Places
  BY DEF Safe, Places
<1>1. ASSUME NEW c \in Callers, NEW t \in Tasks, NEW f \in {"waiting", "none"},
             EnqueueTask(c, t, f)
      PROVE  Truthful'
  <2>1. /\ dpc = "alive" /\ dpc' = "alive" /\ UNCHANGED <<begun, ended, failed>>
        /\ t \notin submitted /\ submitted' = submitted \cup {t}
    BY <1>1 DEF EnqueueTask, dtorVars
  <2>2. begun[t] = 0 /\ ended[t] = 0 /\ t \notin failed
    BY <1>0, <2>1 DEF Accounted, TypeOK
  <2>3. CASE Dropped(t, f)
    <3>1. N = 0
      BY <1>0, <2>3 DEF Dropped, RotationComplete
    <3>2. /\ \A u \in Tasks : u # t => future'[u] = future[u]
          /\ future'[t] \in {"broken", "none"}
      BY <1>0, <2>3 DEF Dropped, TypeOK
    <3> QED
      BY <2>1, <2>2, <3>1, <3>2 DEF Truthful
  <2>4. CASE ChooseWorker(c, t, f)
    <3>1. N # 0
      BY <1>0, <2>4 DEF ChooseWorker, RotationComplete, TypeOK
    <3>2. /\ \A u \in Tasks : u # t => future'[u] = future[u]
          /\ future'[t] = f
      BY <1>0, <2>4 DEF ChooseWorker, TypeOK
    <3> QED
      BY <2>1, <2>2, <3>1, <3>2 DEF Truthful
  <2> QED
    BY <1>1, <2>3, <2>4 DEF EnqueueTask
<1>2. ASSUME NEW c \in Callers, PushTask(c) PROVE Truthful'
  BY <1>2, TruthfulQuiet DEF PushTask, dtorVars, taskVars
<1>3. ASSUME NEW c \in Callers, PushFails(c) PROVE Truthful'
  <2>1. carried[c] \in Tasks /\ Waits(carried[c])
    BY <1>0, <1>3 DEF PushFails, TypeOK, Waits, Carries
  <2>2. begun[carried[c]] = 0 /\ ended[carried[c]] = 0
    BY <1>0, <2>1 DEF Accounted, TypeOK
  <2>3. /\ UNCHANGED <<begun, ended, submitted, dpc>>
        /\ failed' = failed \cup {carried[c]}
        /\ future' = [future EXCEPT ![carried[c]] = "none"]
    BY <1>3 DEF PushFails, dtorVars
  <2>4. /\ \A u \in Tasks : u # carried[c] => future'[u] = future[u]
        /\ future'[carried[c]] = "none"
    BY <1>0, <2>1, <2>3 DEF TypeOK
  <2> QED
    BY <2>2, <2>3, <2>4 DEF Truthful
<1>4. ASSUME NEW w \in Workers, PopOwn(w) \/ Steal(w) PROVE Truthful'
  BY <1>4, TruthfulQuiet DEF PopOwn, Steal, dtorVars, taskVars
<1>5. ASSUME NEW w \in Workers, BeginTask(w) PROVE Truthful'
  <2>1. inHand[w] \in Tasks /\ Waits(inHand[w]) /\ wpc[w] = "claimed"
    BY <1>0, <1>5 DEF BeginTask, TypeOK, Waits
  <2>2. begun[inHand[w]] = 0 /\ ended[inHand[w]] = 0
    BY <1>0, <2>1 DEF Accounted, TypeOK
  <2>3. future[inHand[w]] # "broken"
    BY <2>1, NobodyWaits DEF Truthful
  <2>4. /\ UNCHANGED <<future, ended, submitted, failed, dpc>>
        /\ \A u \in Tasks : u # inHand[w] => begun'[u] = begun[u]
    BY <1>0, <1>5, <2>1 DEF BeginTask, dtorVars, TypeOK
  <2> QED
    BY <2>2, <2>3, <2>4 DEF Truthful
<1>6. ASSUME NEW w \in Workers, EndTask(w) PROVE Truthful'
  <2>1. inHand[w] \in Tasks /\ Runs(inHand[w]) /\ wpc[w] = "running"
    BY <1>0, <1>6 DEF EndTask, TypeOK, Runs
  <2>2. begun[inHand[w]] = 1 /\ ended[inHand[w]] = 0
    BY <1>0, <2>1 DEF Accounted, TypeOK
  <2>3. /\ UNCHANGED <<begun, submitted, failed, dpc>>
        /\ \A u \in Tasks : u # inHand[w] => ended'[u] = ended[u]
        /\ ended'[inHand[w]] = 1
    BY <1>0, <1>6, <2>1, <2>2 DEF EndTask, dtorVars, TypeOK
  <2>4. N # 0 /\ dpc # "dead"
    BY <2>1 DEF Workers, Safe, Shutdown
  <2>5. /\ \A u \in Tasks : u # inHand[w] => future'[u] = future[u]
        /\ IF future[inHand[w]] = "waiting" THEN future'[inHand[w]] \in {"value", "exception"}
           ELSE future'[inHand[w]] = future[inHand[w]]
    BY <1>0, <1>6, <2>1 DEF EndTask, TypeOK
  <2> QED
    BY <2>1, <2>2, <2>3, <2>4, <2>5 DEF Truthful
<1>7. CASE FreeMembers
  <2>1. /\ dpc = "free" /\ dpc' = "dead" /\ UNCHANGED <<begun, ended, submitted, failed>>
        /\ future' = [t \in Tasks |->
              IF (\E w \in Workers : Contains(tasks[w], t)) /\ future[t] = "waiting"
              THEN "broken" ELSE future[t]]
    BY <1>7 DEF FreeMembers
  <2> SUFFICES ASSUME NEW t \in Tasks
               PROVE  /\ future[t] = "waiting" => \E w \in Workers : Contains(tasks[w], t)
                      /\ future[t] = "waiting" => begun[t] = 0
    BY <2>1 DEF Truthful
  <2>2. ~Runs(t) /\ (Waits(t) => \E w \in Workers : Contains(tasks[w], t))
    BY <2>1, AllExited
  <2>3. N # 0 => N > 0
    BY PoolAssumption
  <2>4. begun[t] \in Nat /\ ended[t] \in Nat
    BY <1>0 DEF TypeOK
  <2>5. future[t] = "waiting" => t \in submitted /\ t \notin failed /\ ended[t] # 1 /\ N # 0
    BY DEF Truthful
  <2>6. future[t] = "waiting" => begun[t] = 0
    BY <1>0, <2>2, <2>4, <2>5 DEF Accounted
  <2> QED
    BY <1>0, <2>1, <2>2, <2>3, <2>5, <2>6 DEF Accounted
<1>8. Quiet => Truthful'
  BY TruthfulQuiet DEF Quiet
<1> QED
  BY <1>0, <1>1, <1>2, <1>3, <1>4, <1>5, <1>6, <1>7, <1>8, StepKinds DEF Silent

(***************************************************************************)
(* Whoever holds a future of the pool is told the truth by it: a value is  *)
(* that of a task which has run to its end, a broken promise that of one   *)
(* which never will, and none waits for a pool that has been destroyed.    *)
(***************************************************************************)
THEOREM FuturesAreHonest == Spec => []FutureHonest
<1>1. Spec => [](Safe /\ Truthful)
  BY SafeInit, SafeStep, TruthfulInit, TruthfulStep, PTL DEF Spec
<1> QED
  BY <1>1, TruthfulHonest, PTL

--------------------------------------------------------------------------------
(* ThreadPool implements TaskPool.                                         *)

(* The workers inside a task.                                              *)
Busy == {w \in Workers : wpc[w] = "running"}

LEMMA ExecutionLemma ==
  ASSUME Safe
  PROVE  /\ Promise!InExecution = {inHand[w] : w \in Busy}
         /\ \A t \in Tasks : t \in Promise!InExecution <=> Runs(t)
<1>1. \A t \in Tasks : begun[t] > ended[t] <=> Runs(t)
  BY DEF Safe, Places, Accounted, TypeOK
<1>2. \A w \in Busy : inHand[w] \in Tasks
  BY DEF Busy, Safe, Places, TypeOK
<1> QED
  BY <1>1, <1>2 DEF Promise!InExecution, Runs, Busy

(***************************************************************************)
(* Each task in execution is in the hand of a worker of its own, so a      *)
(* worker that is free leaves fewer of them than there are workers.        *)
(***************************************************************************)
LEMMA FreeWorkerLemma ==
  ASSUME Safe, NEW w \in Workers, wpc[w] # "running"
  PROVE  Cardinality(Promise!InExecution) < N
<1>1. IsFiniteSet(Workers) /\ Cardinality(Workers) = N /\ N \in Nat
  <2>1. N \in Nat /\ N > 0
    BY PoolAssumption DEF Workers
  <2>2. IsFiniteSet(0 .. N - 1) /\ Cardinality(0 .. N - 1) = N
    BY <2>1, FS_Interval, SMT
  <2> QED
    BY <2>1, <2>2 DEF Workers
<1>2. IsFiniteSet(Workers \ {w}) /\ Cardinality(Workers \ {w}) = N - 1
  BY <1>1, FS_RemoveElement
<1>3. Busy \in SUBSET (Workers \ {w})
  BY DEF Busy
<1>4. IsFiniteSet(Busy) /\ Cardinality(Busy) <= N - 1
  BY <1>2, <1>3, FS_Subset
<1> DEFINE T == {inHand[v] : v \in Busy}
<1>5. IsFiniteSet(T) /\ Cardinality(T) <= Cardinality(Busy)
  <2>1. [v \in Busy |-> inHand[v]] \in Surjection(Busy, T)
    BY DEF Surjection
  <2> QED
    BY <1>4, <2>1, FS_Surjection
<1>6. Cardinality(T) \in Nat /\ Cardinality(Busy) \in Nat
  BY <1>4, <1>5, FS_CardinalityType
<1> HIDE DEF T
<1>7. Cardinality(T) < N
  BY <1>1, <1>4, <1>5, <1>6
<1> QED
  BY <1>7, ExecutionLemma DEF T

(* Promise has the same notion of cardinality under a name of its own.     *)
LEMMA SameCardinality ==
  ASSUME NEW S
  PROVE  Promise!Cardinality(S) = Cardinality(S)
BY DEF Promise!Cardinality, Cardinality

LEMMA PromiseInit == Init => Promise!Init
BY DEF Init, Promise!Init

(* Every step of the pool is one that TaskPool allows, or none of its.     *)
LEMMA PromiseStep == Safe /\ [Next]_vars => [Promise!Next]_(Promise!promiseVars)
<1> SUFFICES ASSUME Safe, [Next]_vars PROVE [Promise!Next]_(Promise!promiseVars)
  OBVIOUS
<1>0. TypeOK /\ Places /\ Accounted
  BY DEF Safe, Places
<1> USE DEF Promise!Next, Promise!promiseVars
<1>1. ASSUME NEW c \in Callers, NEW t \in Tasks, NEW f \in {"waiting", "none"},
             EnqueueTask(c, t, f)
      PROVE  Promise!Accept(t)
  BY <1>1 DEF EnqueueTask, Promise!Accept, dtorVars
<1>2. ASSUME NEW c \in Callers, PushTask(c) \/ PushFails(c)
      PROVE  UNCHANGED Promise!promiseVars
  BY <1>2 DEF PushTask, PushFails, dtorVars, taskVars
<1>3. ASSUME NEW w \in Workers, PopOwn(w) \/ Steal(w)
      PROVE  UNCHANGED Promise!promiseVars
  BY <1>3 DEF PopOwn, Steal, dtorVars, taskVars
<1>4. ASSUME NEW w \in Workers, BeginTask(w) PROVE Promise!Begin(inHand[w])
  <2>1. inHand[w] \in Tasks /\ Waits(inHand[w]) /\ wpc[w] = "claimed"
    BY <1>0, <1>4 DEF BeginTask, TypeOK, Waits
  <2>2. begun[inHand[w]] = 0 /\ inHand[w] \in submitted
    BY <1>0, <2>1 DEF Accounted, TypeOK
  <2>3. dpc # "dead"
    BY <2>1 DEF Safe, Shutdown
  <2>4. Promise!Cardinality(Promise!InExecution) < N
    BY <2>1, FreeWorkerLemma, SameCardinality
  <2>5. /\ begun' = [begun EXCEPT ![inHand[w]] = 1]
        /\ UNCHANGED <<submitted, ended, dpc>>
    BY <1>0, <1>4, <2>1, <2>2 DEF BeginTask, dtorVars, TypeOK
  <2> QED
    BY <2>2, <2>3, <2>4, <2>5 DEF Promise!Begin
<1>5. ASSUME NEW w \in Workers, EndTask(w) PROVE Promise!End(inHand[w])
  <2>1. inHand[w] \in Tasks /\ Runs(inHand[w])
    BY <1>0, <1>5 DEF EndTask, TypeOK, Runs
  <2>2. ended[inHand[w]] = 0 /\ inHand[w] \in Promise!InExecution
    BY <1>0, <2>1, ExecutionLemma DEF Accounted, TypeOK
  <2>3. /\ ended' = [ended EXCEPT ![inHand[w]] = 1]
        /\ UNCHANGED <<submitted, begun, dpc>>
    BY <1>0, <1>5, <2>1, <2>2 DEF EndTask, dtorVars, TypeOK
  <2> QED
    BY <2>2, <2>3 DEF Promise!End
<1>6. ASSUME FreeMembers PROVE Promise!Close
  <2>1. /\ dpc = "free" /\ dpc' = "dead" /\ UNCHANGED <<submitted, begun, ended>>
    BY <1>6 DEF FreeMembers
  <2>2. Promise!InExecution = {}
    BY <2>1, ExecutionLemma DEF Busy, Safe, Shutdown
  <2> QED
    BY <2>1, <2>2 DEF Promise!Close
<1>7. Quiet => UNCHANGED Promise!promiseVars
  BY DEF Quiet
<1>8. \A w \in Workers : BeginTask(w) \/ EndTask(w) => inHand[w] \in Tasks
  BY <1>0 DEF BeginTask, EndTask, TypeOK
<1> QED
  BY <1>0, <1>1, <1>2, <1>3, <1>4, <1>5, <1>6, <1>7, <1>8, StepKinds DEF Silent

(***************************************************************************)
(* With any number of threads, tasks and callers, the pool with its        *)
(* deques, semaphores and stealing does nothing that TaskPool does not     *)
(* allow: each task begins at most once, no more of them are in execution  *)
(* than there are threads, and none is or begins when ~thread_pool has     *)
(* returned.                                                               *)
(***************************************************************************)
THEOREM PoolKeepsPromise == Spec => RefinesTaskPool
<1>1. Spec => []Safe
  BY SafeInit, SafeStep, PTL DEF Spec
<1> QED
  BY <1>1, PromiseInit, PromiseStep, PTL DEF Spec, RefinesTaskPool, Promise!Spec
================================================================================
