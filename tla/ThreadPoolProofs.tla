--------------------------- MODULE ThreadPoolProofs ---------------------------
(***************************************************************************)
(* Proofs about ThreadPool, for any number of threads, tasks and callers   *)
(* and whatever a semaphore does at its maximum.                           *)
(***************************************************************************)
EXTENDS ThreadPool, ThreadSafeQueueProofs, FiniteSetTheorems, TLAPS

(* A release leaves a token where it released, and takes none elsewhere.   *)
LEMMA ReleasedLemma ==
  ASSUME TypeOK, NEW w \in Workers, NEW s \in Released(w)
  PROVE  /\ s \in [Workers -> Nat]
         /\ s[w] > 0
         /\ \A v \in Workers : v # w => s[v] = signal[v]
<1>1. signal \in [Workers -> Nat]
  BY DEF TypeOK
<1>2. CASE s = [signal EXCEPT ![w] = @ + 1]
  BY <1>1, <1>2
<1>3. CASE s = [signal EXCEPT ![w] = 1]
  BY <1>1, <1>3
<1> QED
  BY <1>2, <1>3 DEF Released

(* The deque a thief looks at is one of the pool's.                        *)
LEMMA VictimLemma ==
  ASSUME TypeOK, NEW w \in Workers
  PROVE  Victim(w) \in Workers
<1>1. N \in Nat \ {0} /\ w + offset[w] \in Int
  BY PoolAssumption DEF TypeOK, Workers
<1>2. \A a \in Int, b \in Nat \ {0} : a % b \in 0 .. b - 1
  BY Z3
<1> QED
  BY <1>1, <1>2 DEF Victim, Workers

LEMMA TypeInit == Init => TypeOK
<1> SUFFICES ASSUME Init PROVE TypeOK
  OBVIOUS
<1> USE PoolAssumption DEF Init
<1>1. rotation \in Seq(Workers)
  BY DEF Workers
<1>2. 0 \in 0 .. N
  OBVIOUS
<1>3. tasks \in [Workers -> Seq(Tasks)]
  OBVIOUS
<1> QED
  BY <1>1, <1>2, <1>3 DEF TypeOK, WorkerPC, CallerPC, DtorPC, Futures

LEMMA TypeStep == TypeOK /\ [Next]_vars => TypeOK'
<1> SUFFICES ASSUME TypeOK, [Next]_vars PROVE TypeOK'
  OBVIOUS
<1> USE PoolAssumption DEF TypeOK
<1>1. ASSUME NEW c \in Callers, NEW t \in Tasks, NEW f \in {"waiting", "none"},
             EnqueueTask(c, t, f)
      PROVE  TypeOK'
  <2>1. CASE Dropped(t, f)
    BY <1>1, <2>1 DEF EnqueueTask, Dropped, workerVars, callerVars, dtorVars, Futures
  <2>2. CASE ChooseWorker(c, t, f)
    <3>1. First(rotation) \in Workers /\ RotatedToBack(rotation) \in Seq(Workers)
      BY <2>2, PopFrontLemma, RotatedToBackLemma DEF ChooseWorker
    <3> QED
      BY <1>1, <2>2, <3>1 DEF EnqueueTask, ChooseWorker, workerVars, dtorVars,
                              CallerPC, Futures
  <2> QED
    BY <1>1, <2>1, <2>2 DEF EnqueueTask
<1>2. ASSUME NEW c \in Callers, AddPending(c) PROVE TypeOK'
  BY <1>2 DEF AddPending, workerVars, dtorVars, taskVars, CallerPC
<1>3. ASSUME NEW c \in Callers, PushTask(c) PROVE TypeOK'
  <2>1. target[c] \in Workers /\ carried[c] \in Tasks
    BY <1>3 DEF PushTask
  <2>2. PushBack(tasks[target[c]], carried[c]) \in Seq(Tasks)
    BY <2>1, PushBackLemma
  <2> QED
    BY <1>3, <2>1, <2>2 DEF PushTask, workerVars, dtorVars, taskVars, CallerPC
<1>19. ASSUME NEW c \in Callers, PushFails(c) PROVE TypeOK'
  <2>1. target[c] \in Workers /\ carried[c] \in Tasks
    BY <1>19 DEF PushFails
  <2> QED
    BY <1>19, <2>1 DEF PushFails, workerVars, dtorVars, CallerPC, Futures
<1>4. ASSUME NEW c \in Callers, ReleaseSignal(c) PROVE TypeOK'
  <2>1. signal' \in [Workers -> Nat]
    BY <1>4, ReleasedLemma DEF ReleaseSignal
  <2> QED
    BY <1>4, <2>1 DEF ReleaseSignal, workerVars, dtorVars, taskVars, CallerPC
<1>5. ASSUME NEW w \in Workers, Acquire(w) PROVE TypeOK'
  BY <1>5 DEF Acquire, callerVars, dtorVars, taskVars, WorkerPC
<1>6. ASSUME NEW w \in Workers, PopOwn(w) PROVE TypeOK'
  <2>1. 1 \in 0 .. N
    BY DEF Workers
  <2>2. CASE tasks[w] # <<>>
    <3>1. First(tasks[w]) \in Tasks /\ WithoutFirst(tasks[w]) \in Seq(Tasks)
      BY <2>2, PopFrontLemma
    <3>2. /\ inHand' = [inHand EXCEPT ![w] = First(tasks[w])]
          /\ tasks' = [tasks EXCEPT ![w] = WithoutFirst(tasks[w])]
          /\ wpc' = [wpc EXCEPT ![w] = "claimed"]
          /\ UNCHANGED <<offset, signal, rotation, pending>>
      BY <1>6, <2>2 DEF PopOwn
    <3>3. tasks' \in [Workers -> Seq(Tasks)] /\ inHand' \in [Workers -> Tasks \cup {NoTask}]
      BY <3>1, <3>2
    <3>4. wpc' \in [Workers -> WorkerPC]
      BY <3>2 DEF WorkerPC
    <3>5. \A v \in Workers : wpc'[v] \in {"claimed", "running"} => inHand'[v] \in Tasks
      BY <3>1, <3>2
    <3> QED
      BY <1>6, <3>2, <3>3, <3>4, <3>5 DEF PopOwn, callerVars, dtorVars, taskVars
  <2>3. CASE tasks[w] = <<>>
    BY <1>6, <2>1, <2>3 DEF PopOwn, callerVars, dtorVars, taskVars, WorkerPC
  <2> QED
    BY <2>2, <2>3
<1>7. ASSUME NEW w \in Workers, Steal(w) PROVE TypeOK'
  <2>1. Victim(w) \in Workers
    BY VictimLemma
  <2>2. CASE tasks[Victim(w)] # <<>>
    <3>1. /\ Stolen(tasks[Victim(w)]) \in Tasks
          /\ WithoutStolen(tasks[Victim(w)]) \in Seq(Tasks)
      BY <2>1, <2>2, StealLemma
    <3>2. /\ inHand' = [inHand EXCEPT ![w] = Stolen(tasks[Victim(w)])]
          /\ tasks' = [tasks EXCEPT ![Victim(w)] = WithoutStolen(tasks[Victim(w)])]
          /\ wpc' = [wpc EXCEPT ![w] = "claimed"]
          /\ UNCHANGED <<offset, signal, rotation, pending>>
      BY <1>7, <2>1, <2>2 DEF Steal
    <3>3. tasks' \in [Workers -> Seq(Tasks)] /\ inHand' \in [Workers -> Tasks \cup {NoTask}]
      BY <2>1, <3>1, <3>2
    <3>4. wpc' \in [Workers -> WorkerPC]
      BY <3>2 DEF WorkerPC
    <3>5. \A v \in Workers : wpc'[v] \in {"claimed", "running"} => inHand'[v] \in Tasks
      BY <3>1, <3>2
    <3> QED
      BY <1>7, <3>2, <3>3, <3>4, <3>5 DEF Steal, callerVars, dtorVars, taskVars
  <2>3. CASE tasks[Victim(w)] = <<>>
    <3>1. offset' \in [Workers -> 0 .. N]
      <4>1. offset[w] + 1 < N => offset[w] + 1 \in 0 .. N
        OBVIOUS
      <4> QED
        BY <1>7, <2>3, <4>1 DEF Steal
    <3>2. /\ wpc' \in [Workers -> WorkerPC]
          /\ \A v \in Workers : wpc'[v] = wpc[v] \/ wpc'[v] = "load"
      BY <1>7, <2>3 DEF Steal, WorkerPC
    <3> QED
      BY <1>7, <2>3, <3>1, <3>2 DEF Steal, callerVars, dtorVars, taskVars
  <2> QED
    BY <2>2, <2>3
<1>8. ASSUME NEW w \in Workers, BeginTask(w) PROVE TypeOK'
  <2>1. inHand[w] \in Tasks
    BY <1>8 DEF BeginTask
  <2>2. begun' \in [Tasks -> Nat] /\ pending' \in Int
    BY <1>8, <2>1 DEF BeginTask
  <2>3. /\ wpc' \in [Workers -> WorkerPC]
        /\ \A v \in Workers : wpc'[v] \in {"claimed", "running"} => inHand[v] \in Tasks
    BY <1>8, <2>1 DEF BeginTask, WorkerPC
  <2> QED
    BY <1>8, <2>2, <2>3 DEF BeginTask, callerVars, dtorVars
<1>9. ASSUME NEW w \in Workers, EndTask(w) PROVE TypeOK'
  <2>1. inHand[w] \in Tasks
    BY <1>9 DEF EndTask
  <2>2. ended' \in [Tasks -> Nat]
    BY <1>9, <2>1 DEF EndTask
  <2>3. future' \in [Tasks -> Futures]
    BY <1>9, <2>1 DEF EndTask, Futures
  <2>4. /\ inHand' = [inHand EXCEPT ![w] = NoTask]
        /\ wpc' = [wpc EXCEPT ![w] = IF offset[w] = 0 THEN "pop" ELSE "load"]
    BY <1>9 DEF EndTask
  <2>5. /\ inHand' \in [Workers -> Tasks \cup {NoTask}]
        /\ wpc' \in [Workers -> WorkerPC]
        /\ \A v \in Workers : wpc'[v] \in {"claimed", "running"} => inHand'[v] \in Tasks
    BY <2>4 DEF WorkerPC
  <2> QED
    BY <1>9, <2>2, <2>3, <2>5 DEF EndTask, poolVars, callerVars, dtorVars
<1>10. ASSUME NEW w \in Workers, LoadPending(w) PROVE TypeOK'
  BY <1>10 DEF LoadPending, poolVars, callerVars, dtorVars, taskVars, WorkerPC
<1>11. ASSUME NEW w \in Workers, Rotate(w) PROVE TypeOK'
  <2>1. RotateToFront(rotation, w) \in Seq(Workers)
    BY RotateToFrontType
  <2> QED
    BY <1>11, <2>1 DEF Rotate, callerVars, dtorVars, taskVars, WorkerPC
<1>12. ASSUME NEW w \in Workers, CheckStop(w) PROVE TypeOK'
  BY <1>12 DEF CheckStop, poolVars, callerVars, dtorVars, taskVars, WorkerPC
<1>13. CASE Destroy
  <2>1. N > 0 => joining \in Workers
    BY <1>13 DEF Destroy, Workers
  <2> QED
    BY <1>13, <2>1 DEF Destroy, poolVars, workerVars, callerVars, taskVars, DtorPC
<1>14. CASE RequestStop
  BY <1>14 DEF RequestStop, poolVars, workerVars, callerVars, taskVars, DtorPC
<1>15. CASE SignalStop
  <2>1. signal' \in [Workers -> Nat]
    BY <1>15, ReleasedLemma DEF SignalStop
  <2> QED
    BY <1>15, <2>1 DEF SignalStop, workerVars, callerVars, taskVars, DtorPC
<1>16. CASE Join
  <2>1. joining + 1 < N => joining + 1 \in Workers /\ joining + 1 \in 0 .. N
    BY DEF Workers
  <2> QED
    BY <1>16, <2>1 DEF Join, poolVars, workerVars, callerVars, taskVars, DtorPC
<1>17. CASE FreeMembers
  BY <1>17 DEF FreeMembers, workerVars, callerVars, DtorPC, Futures
<1>18. CASE UNCHANGED vars
  BY <1>18 DEF vars, poolVars, workerVars, callerVars, dtorVars, taskVars
<1> QED
  BY <1>1, <1>2, <1>3, <1>4, <1>5, <1>6, <1>7, <1>8, <1>9, <1>10, <1>11, <1>12,
     <1>13, <1>14, <1>15, <1>16, <1>17, <1>18, <1>19
  DEF Next, Call, Enqueue, EnqueueDetach, FinishCall, Work, FinishDestroy

(***************************************************************************)
(* Type correctness: in particular a worker index taken from the rotation  *)
(* or computed by a thief is a worker, and who executes has a task.        *)
(***************************************************************************)
THEOREM TypeCorrect == Spec => []TypeOK
BY TypeInit, TypeStep, PTL DEF Spec

--------------------------------------------------------------------------------
(* No worker drops out of the rotation.                                    *)

LEMMA RotationInit == Init => RotationComplete
<1> SUFFICES ASSUME Init PROVE RotationComplete
  OBVIOUS
<1>1. N \in Nat /\ rotation = [i \in 1 .. N |-> i - 1]
  BY PoolAssumption DEF Init
<1>2. Len(rotation) = N
  BY <1>1
<1>3. ASSUME NEW w \in Workers PROVE Contains(rotation, w)
  <2>1. w + 1 \in 1 .. N /\ (w + 1) - 1 = w
    BY <1>1 DEF Workers
  <2> QED
    BY <2>1, <1>1, <1>2 DEF Contains
<1> QED
  BY <1>2, <1>3 DEF RotationComplete

LEMMA RotationStep == TypeOK /\ RotationComplete /\ [Next]_vars => RotationComplete'
<1> SUFFICES ASSUME TypeOK, RotationComplete, [Next]_vars PROVE RotationComplete'
  OBVIOUS
<1>1. rotation \in Seq(Workers)
  BY DEF TypeOK
<1>2. CASE UNCHANGED rotation
  BY <1>2 DEF RotationComplete
<1>3. ASSUME rotation # <<>>, rotation' = RotatedToBack(rotation)
      PROVE  RotationComplete'
  BY <1>1, <1>3, RotatedToBackLemma, RotatedToBackKeeps DEF RotationComplete
<1>4. ASSUME NEW w \in Workers, rotation' = RotateToFront(rotation, w)
      PROVE  RotationComplete'
  BY <1>1, <1>4, RotateToFrontLemma DEF RotationComplete
<1>5. \/ UNCHANGED rotation
      \/ rotation # <<>> /\ rotation' = RotatedToBack(rotation)
      \/ \E w \in Workers : rotation' = RotateToFront(rotation, w)
  BY DEF vars, poolVars, Next, Call, Enqueue, EnqueueDetach, EnqueueTask, Dropped,
         ChooseWorker, FinishCall, AddPending, PushTask, PushFails, ReleaseSignal, Work, Acquire,
         PopOwn, Steal, BeginTask, EndTask, LoadPending, Rotate, CheckStop, Destroy,
         FinishDestroy, RequestStop, SignalStop, Join, FreeMembers
<1> QED
  BY <1>2, <1>3, <1>4, <1>5

(***************************************************************************)
(* priority_queue_ is a permutation of the workers in every reachable      *)
(* state, so every worker keeps being chosen.                              *)
(***************************************************************************)
THEOREM RotationStaysComplete == Spec => []RotationComplete
BY TypeCorrect, RotationInit, RotationStep, PTL DEF Spec

--------------------------------------------------------------------------------
(* Where the tasks are.  A step of the pool does one of six things to them *)
(* or none; there is a lemma for each.                                     *)

Places == TypeOK /\ RotationComplete /\ OnePlace /\ Accounted

(* A step that moves, begins and ends no task.                             *)
Quiet ==
  /\ UNCHANGED <<tasks, inHand, carried, submitted, begun, ended, failed, future>>
  /\ \A c \in Callers : Carries(c)' <=> Carries(c)
  /\ \A w \in Workers :
        /\ wpc'[w] = "claimed" <=> wpc[w] = "claimed"
        /\ wpc'[w] = "running" <=> wpc[w] = "running"
  /\ dpc' = "dead" <=> dpc = "dead"

(* A quiet step that leaves pending_tasks_ and what it counts alone.       *)
Silent == Quiet /\ pending' = pending /\ \A c \in Callers : cpc'[c] = "push" <=> cpc[c] = "push"

LEMMA StepKinds ==
  ASSUME TypeOK, [Next]_vars
  PROVE  \/ \E c \in Callers, t \in Tasks, f \in {"waiting", "none"} : EnqueueTask(c, t, f)
         \/ \E c \in Callers : PushTask(c) \/ PushFails(c) \/ (AddPending(c) /\ Quiet)
         \/ \E w \in Workers :
              \/ PopOwn(w) /\ tasks[w] # <<>>
              \/ Steal(w) /\ tasks[Victim(w)] # <<>>
              \/ BeginTask(w) \/ EndTask(w)
         \/ FreeMembers
         \/ Silent
<1> USE DEF Quiet, Silent, TypeOK
<1>1. ASSUME NEW c \in Callers, AddPending(c) PROVE Quiet
  BY <1>1 DEF AddPending, workerVars, dtorVars, taskVars, Carries
<1>2. ASSUME NEW c \in Callers, ReleaseSignal(c) PROVE Silent
  BY <1>2 DEF ReleaseSignal, workerVars, dtorVars, taskVars, Carries
<1>3. ASSUME NEW w \in Workers, Acquire(w) PROVE Silent
  BY <1>3 DEF Acquire, callerVars, dtorVars, taskVars, Carries
<1>4. ASSUME NEW w \in Workers, PopOwn(w), tasks[w] = <<>> PROVE Silent
  BY <1>4 DEF PopOwn, callerVars, dtorVars, taskVars, Carries
<1>5. ASSUME NEW w \in Workers, Steal(w), tasks[Victim(w)] = <<>> PROVE Silent
  BY <1>5 DEF Steal, callerVars, dtorVars, taskVars, Carries
<1>6. ASSUME NEW w \in Workers, LoadPending(w) PROVE Silent
  BY <1>6 DEF LoadPending, poolVars, callerVars, dtorVars, taskVars, Carries
<1>7. ASSUME NEW w \in Workers, Rotate(w) PROVE Silent
  BY <1>7 DEF Rotate, callerVars, dtorVars, taskVars, Carries
<1>8. ASSUME NEW w \in Workers, CheckStop(w) PROVE Silent
  BY <1>8 DEF CheckStop, poolVars, callerVars, dtorVars, taskVars, Carries
<1>9. Destroy \/ RequestStop \/ SignalStop \/ Join => Silent
  BY DEF Destroy, RequestStop, SignalStop, Join, poolVars, workerVars, callerVars,
         taskVars, Carries
<1>10. UNCHANGED vars => Silent
  BY DEF vars, poolVars, workerVars, callerVars, dtorVars, taskVars, Carries
<1> QED
  BY <1>1, <1>2, <1>3, <1>4, <1>5, <1>6, <1>7, <1>8, <1>9, <1>10
  DEF Next, Call, Enqueue, EnqueueDetach, FinishCall, Work, FinishDestroy

LEMMA QuietStep ==
  ASSUME Places, Quiet
  PROVE  OnePlace' /\ Accounted'
<1> USE DEF Quiet
<1>1. \A w \in Workers : Holds(w)' <=> Holds(w)
  BY DEF Holds
<1>2. OnePlace'
  BY <1>1 DEF Places, OnePlace
<1>3. \A t \in Tasks : (Waits(t)' <=> Waits(t)) /\ (Runs(t)' <=> Runs(t))
  BY DEF Waits, Runs
<1>4. Accounted'
  BY <1>3 DEF Places, Accounted
<1> QED
  BY <1>2, <1>4

(* A call takes up a task nobody knew.                                     *)
LEMMA ChooseStep ==
  ASSUME Places, NEW c \in Callers, NEW t \in Tasks, NEW f, EnqueueTask(c, t, f)
  PROVE  OnePlace' /\ Accounted'
<1>1. /\ t \notin submitted /\ submitted' = submitted \cup {t} /\ dpc' = dpc
      /\ UNCHANGED <<tasks, wpc, inHand, begun, ended, failed>>
  BY DEF EnqueueTask, workerVars, dtorVars
<1>2. ~Waits(t) /\ ~Runs(t) /\ begun[t] = 0 /\ ended[t] = 0
  BY <1>1 DEF Places, Accounted, TypeOK
<1>3. \A u \in Tasks : Runs(u)' <=> Runs(u)
  BY <1>1 DEF Runs
<1>4. CASE Dropped(t, f)
  <2>1. UNCHANGED <<cpc, carried>> /\ N = 0
    BY <1>4 DEF Dropped, callerVars, Places, RotationComplete
  <2>2. \A u \in Tasks : Waits(u)' <=> Waits(u)
    BY <1>1, <2>1 DEF Waits, Carries
  <2>3. Accounted'
    BY <1>1, <1>2, <1>3, <2>1, <2>2 DEF Places, Accounted
  <2>4. OnePlace'
    BY <1>1, <2>1 DEF Places, OnePlace, Carries, Holds
  <2> QED
    BY <2>3, <2>4
<1>5. CASE ChooseWorker(c, t, f)
  <2>1. cpc[c] = "idle" /\ cpc' = [cpc EXCEPT ![c] = "add"] /\ carried' = [carried EXCEPT ![c] = t]
    BY <1>5 DEF ChooseWorker, EnqueueTask
  <2>2. /\ \A d \in Callers : Carries(d)' <=> Carries(d) \/ d = c
        /\ \A d \in Callers : Carries(d) => d # c /\ carried'[d] = carried[d]
        /\ carried'[c] = t
    BY <2>1 DEF Carries, Places, TypeOK
  <2>3. \A u \in Tasks : Waits(u)' <=> Waits(u) \/ u = t
    BY <1>1, <2>2 DEF Waits
  <2>4. Accounted'
    BY <1>1, <1>2, <1>3, <2>3 DEF Places, Accounted, TypeOK
  <2>5. \A w \in Workers : Holds(w)' <=> Holds(w)
    BY <1>1 DEF Holds
  <2>6. /\ \A w \in Workers : ~Contains(tasks[w], t) /\ (Holds(w) => inHand[w] # t)
        /\ \A d \in Callers : Carries(d) => carried[d] # t
    BY <1>2 DEF Waits, Runs, Holds
  <2>7. OnePlace'
    BY <1>1, <2>2, <2>5, <2>6 DEF Places, OnePlace
  <2> QED
    BY <2>4, <2>7
<1> QED
  BY <1>4, <1>5 DEF EnqueueTask

(* A caller puts its task on a deque.                                      *)
LEMMA PushStep ==
  ASSUME Places, NEW c \in Callers, PushTask(c)
  PROVE  /\ OnePlace' /\ Accounted'
         /\ \A w \in Workers, t \in Tasks :
              Contains(tasks'[w], t) <=> Contains(tasks[w], t) \/ (w = target[c] /\ t = carried[c])
<1> DEFINE v == target[c]  t0 == carried[c]
<1>1. v \in Workers /\ t0 \in Tasks /\ Carries(c)
  BY DEF PushTask, Places, TypeOK, Carries
<1>2. /\ tasks' = [tasks EXCEPT ![v] = PushBack(tasks[v], t0)]
      /\ carried' = [carried EXCEPT ![c] = NoTask]
      /\ cpc' = [cpc EXCEPT ![c] = "release"]
      /\ UNCHANGED <<wpc, inHand, submitted, begun, ended, failed, dpc>>
  BY DEF PushTask, workerVars, dtorVars, taskVars
<1>3. /\ IsInjective(tasks[v]) /\ ~Contains(tasks[v], t0) /\ tasks[v] \in Seq(Tasks)
  BY <1>1 DEF Places, OnePlace, TypeOK
<1>4. /\ \A u \in Tasks : Contains(PushBack(tasks[v], t0), u) <=> Contains(tasks[v], u) \/ u = t0
      /\ IsInjective(PushBack(tasks[v], t0))
  BY <1>1, <1>3, PushBackContents
<1>5. \A w \in Workers, t \in Tasks :
         Contains(tasks'[w], t) <=> Contains(tasks[w], t) \/ (w = v /\ t = t0)
  BY <1>1, <1>2, <1>4 DEF Places, TypeOK
<1>6. \A w \in Workers : IsInjective(tasks'[w])
  BY <1>1, <1>2, <1>4 DEF Places, TypeOK, OnePlace
<1>7. /\ \A d \in Callers : Carries(d)' <=> Carries(d) /\ d # c
      /\ \A d \in Callers : Carries(d)' => carried'[d] = carried[d] /\ carried[d] # t0
      /\ \A d \in Callers : Carries(d)' => carried[d] \in Tasks
  BY <1>1, <1>2 DEF Carries, Places, TypeOK, OnePlace
<1>8. \A w \in Workers : /\ Holds(w)' <=> Holds(w)
                         /\ Holds(w) => inHand[w] # t0 /\ inHand[w] \in Tasks
  BY <1>1, <1>2 DEF Holds, Places, OnePlace, TypeOK
<1> HIDE DEF v, t0
<1>9. OnePlace'
  <2>1. \A w, u \in Workers, t \in Tasks :
          Contains(tasks'[w], t) /\ Contains(tasks'[u], t) => w = u
    <3>1. \A w \in Workers : ~Contains(tasks[w], t0)
      BY <1>1 DEF Places, OnePlace, t0
    <3> QED
      BY <1>5, <3>1 DEF Places, OnePlace
  <2>2. \A d \in Callers, w \in Workers : Carries(d)' =>
          ~Contains(tasks'[w], carried'[d]) /\ (Holds(w)' => inHand'[w] # carried'[d])
    BY <1>2, <1>5, <1>7, <1>8 DEF Places, OnePlace
  <2>3. \A d, e \in Callers :
          Carries(d)' /\ Carries(e)' /\ carried'[d] = carried'[e] => d = e
    BY <1>7 DEF Places, OnePlace
  <2>4. \A w, u \in Workers : Holds(w)' =>
          ~Contains(tasks'[u], inHand'[w]) /\ (Holds(u)' /\ inHand'[w] = inHand'[u] => w = u)
    BY <1>2, <1>5, <1>8 DEF Places, OnePlace
  <2> QED
    BY <1>6, <2>1, <2>2, <2>3, <2>4 DEF OnePlace
<1>10. \A t \in Tasks : (Waits(t)' <=> Waits(t)) /\ (Runs(t)' <=> Runs(t))
  <2>1. \A t \in Tasks : Runs(t)' <=> Runs(t)
    BY <1>2 DEF Runs
  <2>2. ASSUME NEW t \in Tasks PROVE Waits(t)' <=> Waits(t)
    BY <1>1, <1>2, <1>5, <1>7 DEF Waits, t0
  <2> QED
    BY <2>1, <2>2
<1>11. Accounted'
  BY <1>2, <1>10 DEF Places, Accounted
<1> QED
  BY <1>5, <1>9, <1>11 DEF v, t0

(* A call throws and takes its task with it.                               *)
LEMMA FailStep ==
  ASSUME Places, NEW c \in Callers, PushFails(c)
  PROVE  /\ OnePlace' /\ Accounted'
         /\ carried[c] \in Tasks /\ failed' = failed \cup {carried[c]}
         /\ UNCHANGED <<tasks, wpc, inHand, pending, dpc>>
         /\ \A d \in Callers : /\ cpc'[d] = "push" <=> cpc[d] = "push" /\ d # c
                               /\ d # c => carried'[d] = carried[d]
<1> DEFINE t0 == carried[c]
<1>1. t0 \in Tasks /\ Carries(c) /\ cpc[c] = "push"
  BY DEF PushFails, Places, TypeOK, Carries
<1>2. /\ failed' = failed \cup {t0}
      /\ carried' = [carried EXCEPT ![c] = NoTask]
      /\ cpc' = [cpc EXCEPT ![c] = "idle"]
      /\ UNCHANGED <<tasks, wpc, inHand, pending, submitted, begun, ended, dpc>>
  BY DEF PushFails, workerVars, dtorVars
<1>3. /\ \A d \in Callers : Carries(d)' <=> Carries(d) /\ d # c
      /\ \A d \in Callers : Carries(d)' => carried'[d] = carried[d] /\ carried[d] # t0
      /\ \A d \in Callers : cpc'[d] = "push" <=> cpc[d] = "push" /\ d # c
      /\ \A d \in Callers : d # c => carried'[d] = carried[d]
  BY <1>1, <1>2 DEF Carries, Places, TypeOK, OnePlace
<1>4. \A w \in Workers : /\ Holds(w)' <=> Holds(w)
                         /\ Holds(w) => inHand[w] # t0
                         /\ ~Contains(tasks[w], t0)
  BY <1>1, <1>2 DEF Holds, Places, OnePlace
<1> HIDE DEF t0
<1>5. OnePlace'
  BY <1>2, <1>3, <1>4 DEF Places, OnePlace
<1>6. \A t \in Tasks : Waits(t)' <=> Waits(t) /\ t # t0
  <2>1. \A w \in Workers : wpc[w] = "claimed" => inHand[w] # t0
    BY <1>4 DEF Holds
  <2> QED
    BY <1>1, <1>2, <1>3, <1>4, <2>1 DEF Waits, t0
<1>7. \A t \in Tasks : Runs(t)' <=> Runs(t)
  BY <1>2 DEF Runs
<1>8. Waits(t0) /\ t0 \in submitted /\ begun[t0] = 0
  BY <1>1 DEF Waits, Places, Accounted, t0
<1>9. Accounted'
  BY <1>1, <1>2, <1>6, <1>7, <1>8 DEF Places, Accounted
<1> QED
  BY <1>1, <1>2, <1>3, <1>5, <1>9 DEF t0

(* A worker takes a task off a deque, its own or another's.                *)
LEMMA ClaimStep ==
  ASSUME Places,
         NEW w \in Workers, NEW v \in Workers, NEW t0 \in Tasks, NEW q,
         ~Holds(w),
         Contains(tasks[v], t0), IsInjective(q),
         \A u \in Tasks : Contains(q, u) <=> Contains(tasks[v], u) /\ u # t0,
         tasks' = [tasks EXCEPT ![v] = q],
         inHand' = [inHand EXCEPT ![w] = t0],
         wpc' = [wpc EXCEPT ![w] = "claimed"],
         UNCHANGED <<cpc, carried, submitted, begun, ended, failed, dpc>>
  PROVE  /\ OnePlace' /\ Accounted'
         /\ \A x \in Workers, t \in Tasks :
              Contains(tasks'[x], t) <=> Contains(tasks[x], t) /\ t # t0
<1>1. \A x \in Workers : Contains(tasks[x], t0) => x = v
  BY DEF Places, OnePlace
<1>2. \A x \in Workers, t \in Tasks :
         Contains(tasks'[x], t) <=> Contains(tasks[x], t) /\ t # t0
  <2>1. \A x \in Workers : tasks'[x] = IF x = v THEN q ELSE tasks[x]
    BY DEF Places, TypeOK
  <2> QED
    BY <2>1, <1>1
<1>3. \A x \in Workers : IsInjective(tasks'[x])
  BY DEF Places, TypeOK, OnePlace
<1>4. \A c \in Callers : /\ Carries(c)' <=> Carries(c)
                         /\ Carries(c) => carried[c] # t0 /\ carried[c] \in Tasks
  BY DEF Carries, Places, OnePlace, TypeOK
<1>5. /\ \A x \in Workers : Holds(x)' <=> Holds(x) \/ x = w
      /\ \A x \in Workers : Holds(x) => /\ x # w /\ inHand'[x] = inHand[x]
                                        /\ inHand[x] # t0 /\ inHand[x] \in Tasks
      /\ inHand'[w] = t0
  BY DEF Holds, Places, OnePlace, TypeOK
<1>6. OnePlace'
  <2>1. \A x, y \in Workers, t \in Tasks :
          Contains(tasks'[x], t) /\ Contains(tasks'[y], t) => x = y
    BY <1>2 DEF Places, OnePlace
  <2>2. \A c \in Callers, x \in Workers : Carries(c)' =>
          ~Contains(tasks'[x], carried'[c]) /\ (Holds(x)' => inHand'[x] # carried'[c])
    BY <1>2, <1>4, <1>5 DEF Places, OnePlace
  <2>3. \A c, d \in Callers :
          Carries(c)' /\ Carries(d)' /\ carried'[c] = carried'[d] => c = d
    BY <1>4 DEF Places, OnePlace
  <2>4. \A x, y \in Workers : Holds(x)' =>
          ~Contains(tasks'[y], inHand'[x]) /\ (Holds(y)' /\ inHand'[x] = inHand'[y] => x = y)
    BY <1>2, <1>5 DEF Places, OnePlace
  <2> QED
    BY <1>3, <2>1, <2>2, <2>3, <2>4 DEF OnePlace
<1>7. \A x \in Workers : /\ wpc'[x] = "claimed" <=> wpc[x] = "claimed" \/ x = w
                         /\ wpc'[x] = "running" <=> wpc[x] = "running"
                         /\ wpc[x] = "claimed" => x # w
  BY DEF Holds, Places, TypeOK
<1>8. \A t \in Tasks : (Waits(t)' <=> Waits(t)) /\ (Runs(t)' <=> Runs(t))
  <2>1. ASSUME NEW t \in Tasks PROVE Runs(t)' <=> Runs(t)
    BY <1>5, <1>7 DEF Runs, Holds
  <2>2. ASSUME NEW t \in Tasks PROVE Waits(t)' <=> Waits(t)
    BY <1>2, <1>4, <1>5, <1>7 DEF Waits, Holds
  <2> QED
    BY <2>1, <2>2
<1>9. Accounted'
  BY <1>8 DEF Places, Accounted
<1> QED
  BY <1>2, <1>6, <1>9

LEMMA PopStep ==
  ASSUME Places, NEW w \in Workers, PopOwn(w), tasks[w] # <<>>
  PROVE  /\ OnePlace' /\ Accounted'
         /\ \A x \in Workers, t \in Tasks :
              Contains(tasks'[x], t) <=> Contains(tasks[x], t) /\ t # inHand'[w]
         /\ Contains(tasks[w], inHand'[w]) /\ inHand'[w] \in Tasks
<1> DEFINE t0 == First(tasks[w])  q == WithoutFirst(tasks[w])
<1>1. tasks[w] \in Seq(Tasks) /\ IsInjective(tasks[w])
  BY DEF Places, TypeOK, OnePlace
<1>2. t0 \in Tasks
  BY <1>1, PopFrontLemma
<1>3. /\ Contains(tasks[w], t0) /\ IsInjective(q)
      /\ \A u \in Tasks : Contains(q, u) <=> Contains(tasks[w], u) /\ u # t0
  BY <1>1, PopFrontContents
<1>4. /\ tasks' = [tasks EXCEPT ![w] = q]
      /\ inHand' = [inHand EXCEPT ![w] = t0]
      /\ wpc' = [wpc EXCEPT ![w] = "claimed"]
      /\ UNCHANGED <<cpc, carried, submitted, begun, ended, failed, dpc>>
      /\ ~Holds(w)
  BY DEF PopOwn, callerVars, dtorVars, taskVars, Holds
<1> HIDE DEF t0, q
<1>5. inHand'[w] = t0
  BY <1>4 DEF Places, TypeOK
<1> QED
  BY <1>2, <1>3, <1>4, <1>5, ClaimStep

LEMMA StealStep ==
  ASSUME Places, NEW w \in Workers, Steal(w), tasks[Victim(w)] # <<>>
  PROVE  /\ OnePlace' /\ Accounted'
         /\ \A x \in Workers, t \in Tasks :
              Contains(tasks'[x], t) <=> Contains(tasks[x], t) /\ t # inHand'[w]
         /\ Contains(tasks[Victim(w)], inHand'[w]) /\ inHand'[w] \in Tasks
<1> DEFINE v == Victim(w)  t0 == Stolen(tasks[v])  q == WithoutStolen(tasks[v])
<1>1. v \in Workers
  BY VictimLemma DEF Places
<1> HIDE DEF v
<1>2. tasks[v] \in Seq(Tasks) /\ IsInjective(tasks[v]) /\ tasks[v] # <<>>
  BY <1>1 DEF Places, TypeOK, OnePlace, v
<1>3. t0 \in Tasks
  BY <1>2, StealLemma
<1>4. /\ Contains(tasks[v], t0) /\ IsInjective(q)
      /\ \A u \in Tasks : Contains(q, u) <=> Contains(tasks[v], u) /\ u # t0
  BY <1>2, StealContents
<1>5. /\ tasks' = [tasks EXCEPT ![v] = q]
      /\ inHand' = [inHand EXCEPT ![w] = t0]
      /\ wpc' = [wpc EXCEPT ![w] = "claimed"]
      /\ UNCHANGED <<cpc, carried, submitted, begun, ended, failed, dpc>>
      /\ ~Holds(w)
  BY DEF Steal, callerVars, dtorVars, taskVars, Holds, v
<1> HIDE DEF t0, q
<1>6. inHand'[w] = t0
  BY <1>5 DEF Places, TypeOK
<1> QED
  BY <1>1, <1>3, <1>4, <1>5, <1>6, ClaimStep DEF v

LEMMA BeginStep ==
  ASSUME Places, NEW w \in Workers, BeginTask(w)
  PROVE  OnePlace' /\ Accounted'
<1> DEFINE t0 == inHand[w]
<1>1. /\ t0 \in Tasks /\ wpc[w] = "claimed"
      /\ begun' = [begun EXCEPT ![t0] = begun[t0] + 1]
      /\ wpc' = [wpc EXCEPT ![w] = "running"]
      /\ UNCHANGED <<tasks, inHand, cpc, carried, submitted, ended, failed, dpc>>
  BY DEF BeginTask, callerVars, dtorVars, Places, TypeOK
<1>2. Waits(t0) /\ t0 \in submitted /\ begun[t0] = 0 /\ ended[t0] = 0
  BY <1>1 DEF Waits, Places, Accounted, TypeOK
<1>3. begun'[t0] = 1 /\ \A t \in Tasks : t # t0 => begun'[t] = begun[t]
  BY <1>1, <1>2 DEF Places, TypeOK
<1>4. /\ \A x \in Workers : Holds(x)' <=> Holds(x)
      /\ \A x \in Workers : Holds(x) /\ inHand[x] = t0 <=> x = w
      /\ \A c \in Callers : Carries(c)' <=> Carries(c)
      /\ \A c \in Callers : Carries(c) => carried[c] # t0
      /\ \A x \in Workers : ~Contains(tasks[x], t0)
  BY <1>1 DEF Holds, Carries, Places, OnePlace, TypeOK
<1>5. OnePlace'
  BY <1>1, <1>4 DEF Places, OnePlace
<1>6. \A x \in Workers : /\ wpc'[x] = "claimed" <=> wpc[x] = "claimed" /\ x # w
                         /\ wpc'[x] = "running" <=> wpc[x] = "running" \/ x = w
                         /\ wpc[x] = "running" => Holds(x)
                         /\ wpc[x] = "claimed" => Holds(x)
  BY <1>1 DEF Places, TypeOK, Holds
<1> HIDE DEF t0
<1>7. \A t \in Tasks : Waits(t)' <=> Waits(t) /\ t # t0
  BY <1>1, <1>4, <1>6 DEF Waits, t0
<1>8. \A t \in Tasks : Runs(t)' <=> Runs(t) \/ t = t0
  BY <1>1, <1>6 DEF Runs, t0
<1>9. Accounted'
  BY <1>1, <1>2, <1>3, <1>7, <1>8 DEF Places, Accounted, TypeOK
<1> QED
  BY <1>5, <1>9

LEMMA EndStep ==
  ASSUME Places, NEW w \in Workers, EndTask(w)
  PROVE  OnePlace' /\ Accounted'
<1> DEFINE t0 == inHand[w]
<1>1. /\ t0 \in Tasks /\ wpc[w] = "running"
      /\ ended' = [ended EXCEPT ![t0] = ended[t0] + 1]
      /\ inHand' = [inHand EXCEPT ![w] = NoTask]
      /\ wpc' = [wpc EXCEPT ![w] = IF offset[w] = 0 THEN "pop" ELSE "load"]
      /\ UNCHANGED <<tasks, cpc, carried, submitted, begun, failed, dpc>>
  BY DEF EndTask, poolVars, callerVars, dtorVars, Places, TypeOK
<1>2. Runs(t0) /\ begun[t0] = 1 /\ ended[t0] = 0
  BY <1>1 DEF Runs, Places, Accounted, TypeOK
<1>3. ended'[t0] = 1 /\ \A t \in Tasks : t # t0 => ended'[t] = ended[t]
  BY <1>1, <1>2 DEF Places, TypeOK
<1>4. /\ \A x \in Workers : Holds(x)' <=> Holds(x) /\ x # w
      /\ \A x \in Workers : x # w => inHand'[x] = inHand[x]
      /\ \A x \in Workers : Holds(x) /\ inHand[x] = t0 => x = w
      /\ \A c \in Callers : Carries(c)' <=> Carries(c)
  BY <1>1 DEF Holds, Carries, Places, OnePlace, TypeOK
<1>5. OnePlace'
  BY <1>1, <1>4 DEF Places, OnePlace
<1>6. \A x \in Workers : /\ wpc'[x] = "claimed" <=> wpc[x] = "claimed"
                         /\ wpc'[x] = "running" <=> wpc[x] = "running" /\ x # w
                         /\ wpc[x] = "running" => Holds(x)
                         /\ wpc[x] = "claimed" => x # w
  BY <1>1 DEF Places, TypeOK, Holds
<1> HIDE DEF t0
<1>7. \A t \in Tasks : Waits(t)' <=> Waits(t)
  BY <1>1, <1>4, <1>6 DEF Waits
<1>8. \A t \in Tasks : Runs(t)' <=> Runs(t) /\ t # t0
  BY <1>1, <1>4, <1>6 DEF Runs, t0
<1>9. Accounted'
  BY <1>1, <1>2, <1>3, <1>7, <1>8 DEF Places, Accounted, TypeOK
<1> QED
  BY <1>5, <1>9

LEMMA FreeStep ==
  ASSUME Places, FreeMembers
  PROVE  OnePlace' /\ Accounted'
<1>1. /\ tasks' = [w \in Workers |-> <<>>] /\ dpc' = "dead"
      /\ UNCHANGED <<wpc, inHand, cpc, carried, submitted, begun, ended, failed>>
  BY DEF FreeMembers, workerVars, callerVars
<1>2. \A w \in Workers : IsInjective(tasks'[w]) /\ \A t : ~Contains(tasks'[w], t)
  BY <1>1 DEF IsInjective, Contains
<1>3. /\ \A w \in Workers : Holds(w)' <=> Holds(w)
      /\ \A c \in Callers : Carries(c)' <=> Carries(c)
  BY <1>1 DEF Holds, Carries
<1>4. OnePlace'
  BY <1>1, <1>2, <1>3 DEF Places, OnePlace
<1>5. \A t \in Tasks : (Waits(t)' => Waits(t)) /\ (Runs(t)' <=> Runs(t))
  BY <1>1, <1>2, <1>3 DEF Waits, Runs
<1>6. Accounted'
  BY <1>1, <1>5 DEF Places, Accounted
<1> QED
  BY <1>4, <1>6

LEMMA PlacesInit == Init => Places
<1> SUFFICES ASSUME Init PROVE Places
  OBVIOUS
<1>1. TypeOK /\ RotationComplete
  BY TypeInit, RotationInit
<1>2. \A w \in Workers : IsInjective(tasks[w]) /\ \A t : ~Contains(tasks[w], t)
  BY DEF Init, IsInjective, Contains
<1>3. OnePlace
  BY <1>2 DEF Init, OnePlace, Carries, Holds
<1>4. Accounted
  BY <1>2 DEF Init, Accounted, Waits, Runs, Carries
<1> QED
  BY <1>1, <1>3, <1>4 DEF Places

LEMMA PlacesStep == Places /\ [Next]_vars => Places'
<1> SUFFICES ASSUME Places, [Next]_vars PROVE Places'
  OBVIOUS
<1>1. TypeOK' /\ RotationComplete'
  BY TypeStep, RotationStep DEF Places
<1>2. OnePlace' /\ Accounted'
  BY StepKinds, QuietStep, ChooseStep, PushStep, FailStep, PopStep, StealStep, BeginStep,
     EndStep, FreeStep DEF Places, Silent
<1> QED
  BY <1>1, <1>2 DEF Places

(***************************************************************************)
(* However callers push, owners pop and thieves steal, a task is never in  *)
(* two places (so it cannot be executed twice at the same time) ...        *)
(***************************************************************************)
THEOREM NeverInTwoPlaces == Spec => []OnePlace
<1>1. Spec => []Places
  BY PlacesInit, PlacesStep, PTL DEF Spec
<1> QED
  BY <1>1, PTL DEF Places

(***************************************************************************)
(* ... and never lost nor executed a second time: at every moment it is in *)
(* the state that the numbers of its begins and ends say.                  *)
(***************************************************************************)
THEOREM EveryTaskAccounted == Spec => []Accounted
<1>1. Spec => []Places
  BY PlacesInit, PlacesStep, PTL DEF Spec
<1> QED
  BY <1>1, PTL DEF Places

--------------------------------------------------------------------------------
(* pending_tasks_.                                                         *)

Counted == IsFiniteSet(Outstanding) /\ PendingExact

LEMMA CountedInit == Init => Counted
<1> SUFFICES ASSUME Init PROVE Counted
  OBVIOUS
<1>1. Outstanding = {}
  BY DEF Init, Outstanding, Contains
<1> QED
  BY <1>1, FS_EmptySet DEF Init, Counted, PendingExact

LEMMA CountedStep == Places /\ Counted /\ [Next]_vars => Counted'
<1> SUFFICES ASSUME Places, Counted, [Next]_vars PROVE Counted'
  OBVIOUS
<1>1. ASSUME Outstanding' = Outstanding, pending' = pending, dpc = "dead" => dpc' = "dead"
      PROVE  Counted'
  BY <1>1 DEF Counted, PendingExact
<1>2. ASSUME NEW c \in Callers, NEW t \in Tasks, NEW f, EnqueueTask(c, t, f)
      PROVE  Counted'
  <2>1. /\ UNCHANGED <<tasks, inHand, wpc, pending, failed, dpc>>
        /\ \A d \in Callers : cpc'[d] = "push" <=> cpc[d] = "push"
        /\ \A d \in Callers : cpc[d] = "push" => carried'[d] = carried[d]
    BY <1>2 DEF EnqueueTask, Dropped, ChooseWorker, workerVars, callerVars, dtorVars,
                Places, TypeOK
  <2>2. Outstanding' = Outstanding
    BY <2>1 DEF Outstanding
  <2> QED
    BY <1>1, <2>1, <2>2
<1>3. ASSUME NEW c \in Callers, PushTask(c)
      PROVE  Counted'
  <2>1. /\ UNCHANGED <<inHand, wpc, pending, failed, dpc>> /\ cpc[c] = "push"
        /\ target[c] \in Workers
        /\ \A d \in Callers : cpc'[d] = "push" <=> cpc[d] = "push" /\ d # c
        /\ \A d \in Callers : d # c => carried'[d] = carried[d]
    BY <1>3 DEF PushTask, workerVars, dtorVars, taskVars, Places, TypeOK
  <2>2. \A w \in Workers, t \in Tasks :
          Contains(tasks'[w], t) <=> Contains(tasks[w], t) \/ (w = target[c] /\ t = carried[c])
    BY <1>3, PushStep
  <2>3. ASSUME NEW t \in Tasks PROVE t \in Outstanding' <=> t \in Outstanding
    BY <2>1, <2>2 DEF Outstanding
  <2>4. Outstanding' = Outstanding
    BY <2>3 DEF Outstanding
  <2> QED
    BY <1>1, <2>1, <2>4
<1>4. ASSUME NEW c \in Callers, AddPending(c), Quiet
      PROVE  Counted'
  <2> DEFINE t0 == carried[c]
  <2>1. t0 \in Tasks /\ pending' = pending + 1
        /\ UNCHANGED <<tasks, inHand, wpc, carried, failed, dpc>>
        /\ \A d \in Callers : cpc'[d] = "push" <=> cpc[d] = "push" \/ d = c
    BY <1>4 DEF AddPending, workerVars, dtorVars, taskVars, Places, TypeOK
  <2>2. t0 \notin failed
    BY <1>4, <2>1 DEF AddPending, Places, Accounted, Waits, Carries
  <2>5. t0 \notin Outstanding
    BY <1>4, <2>2 DEF AddPending, Outstanding, Places, OnePlace, Carries, Holds
  <2>3. Outstanding' = Outstanding \cup {t0}
    BY <2>1 DEF Outstanding
  <2> QED
    BY <2>1, <2>5, <2>3, FS_AddElement, FS_CardinalityType DEF Counted, PendingExact
<1>5. ASSUME NEW w \in Workers, BeginTask(w)
      PROVE  Counted'
  <2> DEFINE t0 == inHand[w]
  <2>1. t0 \in Tasks /\ pending' = pending - 1 /\ wpc[w] = "claimed"
        /\ UNCHANGED <<tasks, inHand, cpc, carried, failed, dpc>>
        /\ \A x \in Workers : wpc'[x] = "claimed" <=> wpc[x] = "claimed" /\ x # w
    BY <1>5 DEF BeginTask, callerVars, dtorVars, Places, TypeOK
  <2>2. t0 \in Outstanding
    BY <2>1 DEF Outstanding
  <2>3. /\ \A x \in Workers : ~Contains(tasks[x], t0)
        /\ \A x \in Workers : wpc[x] = "claimed" /\ inHand[x] = t0 => x = w
        /\ \A c \in Callers : cpc[c] = "push" => carried[c] # t0
        /\ t0 \notin failed
    BY <2>1 DEF Places, OnePlace, Accounted, Waits, Carries, Holds
  <2>4. Outstanding' = Outstanding \ {t0}
    BY <2>1, <2>3 DEF Outstanding
  <2> QED
    BY <2>1, <2>2, <2>4, FS_RemoveElement, FS_CardinalityType DEF Counted, PendingExact
<1>6. ASSUME NEW w \in Workers, NEW v \in Workers,
             wpc' = [wpc EXCEPT ![w] = "claimed"], wpc[w] # "claimed",
             inHand' = [inHand EXCEPT ![w] = inHand'[w]],
             Contains(tasks[v], inHand'[w]), inHand'[w] \in Tasks,
             \A x \in Workers, t \in Tasks :
               Contains(tasks'[x], t) <=> Contains(tasks[x], t) /\ t # inHand'[w],
             UNCHANGED <<cpc, carried, pending, failed, dpc>>
      PROVE  Counted'
  <2>1. \A x \in Workers : wpc'[x] = "claimed" <=> wpc[x] = "claimed" \/ x = w
    BY <1>6 DEF Places, TypeOK
  <2>2. \A x \in Workers : x # w => inHand'[x] = inHand[x]
    BY <1>6 DEF Places, TypeOK
  <2>3. ASSUME NEW t \in Tasks PROVE t \in Outstanding' <=> t \in Outstanding
    BY <1>6, <2>1, <2>2 DEF Outstanding
  <2>4. Outstanding' = Outstanding
    BY <2>3 DEF Outstanding
  <2> QED
    BY <1>1, <1>6, <2>4
<1>7. ASSUME NEW w \in Workers, PopOwn(w), tasks[w] # <<>>
      PROVE  Counted'
  <2>1. /\ wpc' = [wpc EXCEPT ![w] = "claimed"] /\ wpc[w] # "claimed"
        /\ inHand' = [inHand EXCEPT ![w] = inHand'[w]]
        /\ UNCHANGED <<cpc, carried, pending, failed, dpc>>
    BY <1>7 DEF PopOwn, callerVars, dtorVars, taskVars, Places, TypeOK
  <2> QED
    BY <1>6, <1>7, <2>1, PopStep
<1>8. ASSUME NEW w \in Workers, Steal(w), tasks[Victim(w)] # <<>>
      PROVE  Counted'
  <2>1. /\ wpc' = [wpc EXCEPT ![w] = "claimed"] /\ wpc[w] # "claimed"
        /\ inHand' = [inHand EXCEPT ![w] = inHand'[w]]
        /\ UNCHANGED <<cpc, carried, pending, failed, dpc>>
    BY <1>8 DEF Steal, callerVars, dtorVars, taskVars, Places, TypeOK
  <2> QED
    BY <1>6, <1>8, <2>1, StealStep, VictimLemma DEF Places
<1>9. ASSUME NEW w \in Workers, EndTask(w)
      PROVE  Counted'
  <2>1. /\ UNCHANGED <<tasks, pending, cpc, carried, failed, dpc>> /\ wpc[w] = "running"
        /\ \A x \in Workers : wpc'[x] = "claimed" <=> wpc[x] = "claimed"
        /\ \A x \in Workers : x # w => inHand'[x] = inHand[x]
    BY <1>9 DEF EndTask, poolVars, callerVars, dtorVars, Places, TypeOK
  <2>2. \A x \in Workers : wpc[x] = "claimed" => x # w
    BY <2>1
  <2>3. Outstanding' = Outstanding
    BY <2>1, <2>2 DEF Outstanding
  <2> QED
    BY <1>1, <2>1, <2>3
<1>10. ASSUME FreeMembers
       PROVE  Counted'
  <2>1. /\ tasks' = [w \in Workers |-> <<>>] /\ dpc' = "dead"
        /\ UNCHANGED <<wpc, inHand, cpc, carried, failed>>
    BY <1>10 DEF FreeMembers, workerVars, callerVars
  <2>2. \A w \in Workers, t \in Tasks : ~Contains(tasks'[w], t)
    BY <2>1 DEF Contains
  <2>3. Outstanding' \subseteq Outstanding
    BY <2>1, <2>2 DEF Outstanding
  <2> QED
    BY <2>1, <2>3, FS_Subset DEF Counted, PendingExact
<1>12. ASSUME NEW c \in Callers, PushFails(c)
       PROVE  Counted'
  <2>1. \A w \in Workers, t \in Tasks : Contains(tasks'[w], t) <=> Contains(tasks[w], t)
    BY <1>12, FailStep
  <2>2. cpc[c] = "push"
    BY <1>12 DEF PushFails
  <2>3. ASSUME NEW t \in Tasks PROVE t \in Outstanding' <=> t \in Outstanding
    BY <1>12, <2>1, <2>2, FailStep DEF Outstanding
  <2>4. Outstanding' = Outstanding
    BY <2>3 DEF Outstanding
  <2> QED
    BY <1>1, <1>12, <2>4, FailStep
<1>11. ASSUME Silent PROVE Counted'
  <2>1. Outstanding' = Outstanding
    BY <1>11 DEF Silent, Quiet, Outstanding
  <2> QED
    BY <1>1, <1>11, <2>1 DEF Silent, Quiet
<1> QED
  BY <1>2, <1>3, <1>4, <1>5, <1>7, <1>8, <1>9, <1>10, <1>11, <1>12, StepKinds DEF Places

(***************************************************************************)
(* pending_tasks_ counts exactly the tasks that wait, from the fetch_add   *)
(* of the call to the fetch_sub of the worker.                             *)
(***************************************************************************)
THEOREM PendingStaysExact == Spec => []PendingExact
<1>1. Spec => [](Places /\ Counted)
  BY PlacesInit, PlacesStep, CountedInit, CountedStep, PTL DEF Spec
<1> QED
  BY <1>1, PTL DEF Counted

--------------------------------------------------------------------------------
(* No lost wake-up.                                                        *)

Sleepy == {"rotate", "check", "acquire"}

Wakeable(w) ==
  signal[w] > 0 \/ \E c \in Callers : cpc[c] = "release" /\ target[c] = w

LEMMA WakeupInit == Init => NoLostWakeup
BY DEF Init, NoLostWakeup

(* A worker that has read pending_tasks_ = 0 had nothing on its deque.     *)
LEMMA NothingPending ==
  ASSUME Places, Counted, dpc # "dead", ~(pending > 0), NEW w \in Workers
  PROVE  tasks[w] = <<>>
<1>1. Cardinality(Outstanding) \in Nat /\ Cardinality(Outstanding) = 0
  BY FS_CardinalityType DEF Counted, PendingExact
<1>2. Outstanding = {}
  BY <1>1, FS_EmptySet DEF Counted
<1> SUFFICES ASSUME tasks[w] # <<>> PROVE FALSE
  OBVIOUS
<1>3. tasks[w] \in Seq(Tasks)
  BY DEF Places, TypeOK
<1>4. First(tasks[w]) \in Tasks
  BY <1>3, PopFrontLemma
<1>5. Contains(tasks[w], First(tasks[w]))
  BY <1>3, PopFrontContents DEF Places, OnePlace
<1> HIDE DEF First
<1> QED
  BY <1>2, <1>4, <1>5 DEF Outstanding

LEMMA WakeupStep ==
  Places /\ Counted /\ NoLostWakeup /\ [Next]_vars => NoLostWakeup'
<1> SUFFICES ASSUME Places, Counted, NoLostWakeup, [Next]_vars, NEW w \in Workers,
                    dpc' # "dead", wpc'[w] \in Sleepy, tasks'[w] # <<>>
             PROVE  Wakeable(w)'
  BY DEF NoLostWakeup, Sleepy, Wakeable
<1>1. TypeOK
  BY DEF Places
<1>2. dpc # "dead" /\ wpc[w] \in Sleepy /\ tasks[w] # <<>> => Wakeable(w)
  BY DEF NoLostWakeup, Sleepy, Wakeable
<1>3. ASSUME dpc' = dpc, wpc'[w] \in Sleepy => wpc[w] \in Sleepy,
             UNCHANGED <<tasks, signal, cpc, target>>
      PROVE  Wakeable(w)'
  BY <1>2, <1>3 DEF Wakeable
<1>4. ASSUME NEW c \in Callers, NEW t \in Tasks, NEW f, EnqueueTask(c, t, f)
      PROVE  Wakeable(w)'
  <2>1. UNCHANGED <<tasks, signal, wpc, dpc>> /\ cpc[c] = "idle"
    BY <1>4 DEF EnqueueTask, workerVars, dtorVars
  <2>2. \A d \in Callers : d # c => cpc'[d] = cpc[d] /\ target'[d] = target[d]
    BY <1>1, <1>4 DEF EnqueueTask, Dropped, ChooseWorker, callerVars, TypeOK
  <2> QED
    BY <1>2, <2>1, <2>2 DEF Wakeable
<1>5. ASSUME NEW c \in Callers, AddPending(c)
      PROVE  Wakeable(w)'
  <2>1. UNCHANGED <<tasks, signal, wpc, dpc, target>> /\ cpc[c] = "add"
    BY <1>5 DEF AddPending, workerVars, dtorVars
  <2>2. \A d \in Callers : d # c => cpc'[d] = cpc[d]
    BY <1>1, <1>5 DEF AddPending, TypeOK
  <2> QED
    BY <1>2, <2>1, <2>2 DEF Wakeable
<1>6. ASSUME NEW c \in Callers, PushTask(c)
      PROVE  Wakeable(w)'
  <2>1. UNCHANGED <<signal, wpc, dpc, target>> /\ cpc[c] = "push"
    BY <1>6 DEF PushTask, workerVars, dtorVars
  <2>2. cpc'[c] = "release" /\ \A d \in Callers : d # c => cpc'[d] = cpc[d]
    BY <1>1, <1>6 DEF PushTask, TypeOK
  <2>3. w # target[c] => tasks'[w] = tasks[w]
    BY <1>1, <1>6 DEF PushTask, TypeOK
  <2> QED
    BY <1>2, <2>1, <2>2, <2>3 DEF Wakeable
<1>17. ASSUME NEW c \in Callers, PushFails(c)
       PROVE  Wakeable(w)'
  <2>1. UNCHANGED <<tasks, signal, wpc, dpc>> /\ cpc[c] = "push"
    BY <1>17 DEF PushFails, workerVars, dtorVars
  <2>2. \A d \in Callers : d # c => cpc'[d] = cpc[d] /\ target'[d] = target[d]
    BY <1>1, <1>17 DEF PushFails, TypeOK
  <2> QED
    BY <1>2, <2>1, <2>2 DEF Wakeable
<1>7. ASSUME NEW c \in Callers, ReleaseSignal(c)
      PROVE  Wakeable(w)'
  <2>1. UNCHANGED <<tasks, wpc, dpc>> /\ target[c] \in Workers
    BY <1>1, <1>7 DEF ReleaseSignal, workerVars, dtorVars, TypeOK
  <2>2. \A d \in Callers : d # c => cpc'[d] = cpc[d] /\ target'[d] = target[d]
    BY <1>1, <1>7 DEF ReleaseSignal, TypeOK
  <2>3. signal'[target[c]] > 0 /\ (signal[w] > 0 => signal'[w] > 0)
    BY <1>1, <1>7, <2>1, ReleasedLemma DEF ReleaseSignal
  <2> QED
    BY <1>2, <2>1, <2>2, <2>3 DEF Wakeable
<1>8. ASSUME NEW v \in Workers, Acquire(v)
      PROVE  Wakeable(w)'
  <2>1. UNCHANGED <<tasks, dpc, cpc, target>> /\ v # w
    BY <1>1, <1>8 DEF Acquire, callerVars, dtorVars, TypeOK, Sleepy
  <2>2. wpc'[w] = wpc[w] /\ signal'[w] = signal[w]
    BY <1>1, <1>8, <2>1 DEF Acquire, TypeOK
  <2> QED
    BY <1>2, <2>1, <2>2 DEF Wakeable
<1>9. ASSUME NEW v \in Workers, PopOwn(v)
      PROVE  Wakeable(w)'
  <2>1. UNCHANGED <<signal, dpc, cpc, target>> /\ v # w
    BY <1>1, <1>9 DEF PopOwn, callerVars, dtorVars, TypeOK, Sleepy
  <2>2. wpc'[w] = wpc[w] /\ tasks'[w] = tasks[w]
    BY <1>1, <1>9, <2>1 DEF PopOwn, TypeOK
  <2> QED
    BY <1>2, <2>1, <2>2 DEF Wakeable
<1>10. ASSUME NEW v \in Workers, Steal(v)
       PROVE  Wakeable(w)'
  <2>1. UNCHANGED <<signal, dpc, cpc, target>> /\ v # w /\ Victim(v) \in Workers
    BY <1>1, <1>10, VictimLemma DEF Steal, callerVars, dtorVars, TypeOK, Sleepy
  <2>2. wpc'[w] = wpc[w]
    BY <1>1, <1>10, <2>1 DEF Steal, TypeOK
  <2>3. tasks[w] # <<>>
    BY <1>1, <1>10, <2>1 DEF Steal, TypeOK
  <2> QED
    BY <1>2, <2>1, <2>2, <2>3 DEF Wakeable
<1>11. ASSUME NEW v \in Workers, BeginTask(v) \/ EndTask(v) \/ Rotate(v) \/ CheckStop(v)
       PROVE  Wakeable(w)'
  <2>1. UNCHANGED <<tasks, signal, cpc, target, dpc>>
    BY <1>11 DEF BeginTask, EndTask, Rotate, CheckStop, poolVars, callerVars, dtorVars
  <2>2. wpc[w] \in Sleepy
    BY <1>1, <1>11 DEF BeginTask, EndTask, Rotate, CheckStop, TypeOK, Sleepy
  <2> QED
    BY <1>3, <2>1, <2>2
<1>12. ASSUME NEW v \in Workers, LoadPending(v)
       PROVE  Wakeable(w)'
  <2>1. UNCHANGED <<tasks, signal, cpc, target, dpc>>
    BY <1>12 DEF LoadPending, poolVars, callerVars, dtorVars
  <2>2. v # w
    <3>1. wpc'[v] = IF pending > 0 THEN "pop" ELSE "rotate"
      BY <1>1, <1>12 DEF LoadPending, TypeOK
    <3>2. CASE pending > 0
      BY <3>1, <3>2 DEF Sleepy
    <3>3. CASE ~(pending > 0)
      BY <2>1, <3>3, NothingPending
    <3> QED
      BY <3>2, <3>3
  <2>3. wpc'[w] = wpc[w]
    BY <1>1, <1>12, <2>2 DEF LoadPending, TypeOK
  <2> QED
    BY <1>3, <2>1, <2>3
<1>13. ASSUME Destroy \/ RequestStop \/ Join
       PROVE  Wakeable(w)'
  <2>1. UNCHANGED <<tasks, signal, wpc, cpc, target>> /\ dpc # "dead"
    BY <1>13 DEF Destroy, RequestStop, Join, poolVars, workerVars, callerVars
  <2> QED
    BY <1>2, <2>1 DEF Wakeable
<1>14. ASSUME SignalStop
       PROVE  Wakeable(w)'
  <2>1. UNCHANGED <<tasks, wpc, cpc, target>> /\ dpc = "signal"
    BY <1>14 DEF SignalStop, workerVars, callerVars
  <2>2. signal[w] > 0 => signal'[w] > 0
    <3>1. joining \in Workers
      BY <1>1, <1>14 DEF SignalStop, TypeOK
    <3> QED
      BY <1>1, <1>14, <3>1, ReleasedLemma DEF SignalStop
  <2> QED
    BY <1>2, <2>1, <2>2 DEF Wakeable
<1>15. ~FreeMembers
  BY DEF FreeMembers
<1>16. ASSUME UNCHANGED vars
       PROVE  Wakeable(w)'
  BY <1>3, <1>16 DEF vars, poolVars, workerVars, callerVars, dtorVars
<1> QED
  BY <1>4, <1>5, <1>6, <1>7, <1>8, <1>9, <1>10, <1>11, <1>12, <1>13, <1>14, <1>15, <1>16, <1>17
  DEF Next, Call, Enqueue, EnqueueDetach, FinishCall, Work, FinishDestroy

(***************************************************************************)
(* A worker never sleeps, nor goes to sleep, on a deque with a task in it  *)
(* unless it can still be woken: the load of pending_tasks_ and the        *)
(* acquire are two steps, and no call between them is missed.              *)
(***************************************************************************)
THEOREM WakeupsAreNotLost == Spec => []NoLostWakeup
<1>1. Places /\ Counted /\ NoLostWakeup /\ [Next]_vars
        => (Places /\ Counted /\ NoLostWakeup)'
  BY PlacesStep, CountedStep, WakeupStep
<1>2. Spec => [](Places /\ Counted /\ NoLostWakeup)
  BY <1>1, PlacesInit, CountedInit, WakeupInit, PTL DEF Spec
<1> QED
  BY <1>2, PTL
================================================================================
