------------------------- MODULE ThreadPoolLifeProofs -------------------------
(***************************************************************************)
(* Proofs about the constructor of the thread pool and about the pool that *)
(* it leaves, for any number of threads asked for and any of them that     *)
(* cannot be created.                                                      *)
(*                                                                         *)
(* How many threads there are in the end is a matter of the behaviour.     *)
(* What is proved of a pool of N threads is taken from the proofs about    *)
(* ThreadPool, for a constant N of which nothing is assumed here: so what  *)
(* is stated under threads = N holds however many threads there are.       *)
(***************************************************************************)
EXTENDS ThreadPoolLife, FiniteSetTheorems, SequenceTheorems, TLAPS

CONSTANT N    \* any number of threads

Pool == INSTANCE ThreadPoolPromiseProofs

--------------------------------------------------------------------------------
(* The constructor.                                                        *)

(* n workers of which none has passed its semaphore.                       *)
FreshWorkers(n) ==
  /\ wpc = [w \in 0 .. n - 1 |-> "acquire"]
  /\ inHand = [w \in 0 .. n - 1 |-> NoTask]
  /\ offset = [w \in 0 .. n - 1 |-> 0]
  /\ stopRequested = [w \in 0 .. n - 1 |-> FALSE]

(* Nobody has called the pool.                                             *)
Unused ==
  /\ pending = 0
  /\ cpc = [c \in Callers |-> "idle"]
  /\ carried = [c \in Callers |-> NoTask]
  /\ target = [c \in Callers |-> -1]
  /\ dpc = "alive"
  /\ joining = 0
  /\ submitted = {}
  /\ begun = [t \in Tasks |-> 0]
  /\ ended = [t \in Tasks |-> 0]
  /\ future = [t \in Tasks |-> "none"]
  /\ failed = {}

(* The deques that are left of those that were asked for.                  *)
Deques == number_of_threads - (turn - threads)

(* The threads that priority_queue_ has been told of.                      *)
Entered == IF phase = "create" THEN threads + 1 ELSE threads

(***************************************************************************)
(* Between two steps of the loop: a deque and a semaphore for each thread  *)
(* that there is or may still be, the numbers of the threads in their      *)
(* order, every thread at its semaphore, where there is no token.          *)
(***************************************************************************)
Building ==
  /\ turn \in 0 .. number_of_threads
  /\ threads \in 0 .. turn
  /\ phase # "built" => turn < number_of_threads
  /\ tasks = [w \in 0 .. Deques - 1 |-> <<>>]
  /\ signal = [w \in 0 .. Deques - 1 |-> 0]
  /\ rotation = [i \in 1 .. Entered |-> i - 1]
  /\ FreshWorkers(threads)
  /\ Unused

(* The inductive invariant of the constructor.                             *)
Raised ==
  /\ phase \in {"push", "create", "built"}
  /\ threads \in 0 .. number_of_threads
  /\ phase # "built" => Building

LEMMA RaisedInit == Init => Raised
<1> SUFFICES ASSUME Init PROVE Raised
  OBVIOUS
<1> USE LifeAssumption
<1>1. <<>> = [i \in 1 .. 0 |-> i - 1]
  OBVIOUS
<1>2. \A x : <<>> = [w \in 0 .. 0 - 1 |-> x]
  OBVIOUS
<1>3. tasks = [w \in 0 .. Deques - 1 |-> <<>>] /\ signal = [w \in 0 .. Deques - 1 |-> 0]
  BY DEF Init, InitRest, Deques
<1>4. FreshWorkers(threads)
  BY <1>2, Zenon DEF Init, InitRest, FreshWorkers
<1>5. phase # "built" => rotation = [i \in 1 .. Entered |-> i - 1]
  BY <1>1 DEF Init, InitRest, Entered
<1>6. Unused
  BY DEF Init, InitRest, Unused
<1> QED
  BY <1>3, <1>4, <1>5, <1>6 DEF Init, InitRest, Raised, Building

(* Until the constructor is done, it alone can move: a worker would need a *)
(* token, a call or the destructor an object.                              *)
LEMMA OnlyConstruct ==
  ASSUME Raised, phase # "built", Next
  PROVE  Construct
<1> USE LifeAssumption DEF Raised, Building
<1>1. ASSUME NEW w \in 0 .. number_of_threads - 1, Work(w) PROVE FALSE
  <2>1. PICK k \in 0 .. number_of_threads : k = threads /\ P(k)!Work(w)
    BY <1>1 DEF Work, Here
  <2>2. w \in 0 .. threads - 1 /\ wpc[w] = "acquire" /\ signal[w] = 0
    BY <1>1 DEF Work, Here, FreshWorkers, Deques
  <2> QED
    BY <2>1, <2>2 DEF P!Work, P!Acquire, P!PopOwn, P!Steal, P!BeginTask, P!EndTask,
                      P!LoadPending, P!Rotate, P!CheckStop
<1>2. ASSUME NEW c \in Callers, FinishCall(c) PROVE FALSE
  BY <1>2 DEF FinishCall, Here, Unused, P!FinishCall, P!AddPending, P!PushTask,
              P!PushFails, P!ReleaseSignal
<1>3. ASSUME FinishDestroy PROVE FALSE
  BY <1>3 DEF FinishDestroy, Here, Unused, P!FinishDestroy, P!RequestStop,
              P!SignalStop, P!Join, P!FreeMembers
<1> QED
  BY <1>1, <1>2, <1>3 DEF Next, Call, Destroy

(* How many deques and semaphores tasks_ has.                              *)
LEMMA DequesLemma ==
  ASSUME Building
  PROVE  /\ Cardinality(DOMAIN tasks) = Deques /\ Cardinality(DOMAIN signal) = Deques
         /\ Deques \in threads .. number_of_threads
<1>1. Deques \in Nat /\ Deques \in threads .. number_of_threads
  BY LifeAssumption DEF Building, Deques
<1>2. DOMAIN tasks = 0 .. Deques - 1 /\ DOMAIN signal = 0 .. Deques - 1
  BY DEF Building
<1>3. Cardinality(0 .. Deques - 1) = Deques
  BY <1>1, FS_Interval
<1> QED
  BY <1>1, <1>2, <1>3

(* Entering the number of one more thread, and taking it back.             *)
LEMMA NumbersLemma ==
  ASSUME NEW n \in Nat
  PROVE  /\ PushBack([i \in 1 .. n |-> i - 1], n) = [i \in 1 .. n + 1 |-> i - 1]
         /\ WithoutLast([i \in 1 .. n + 1 |-> i - 1]) = [i \in 1 .. n |-> i - 1]
<1> DEFINE s(m) == [i \in 1 .. m |-> i - 1]
<1>1. \A m \in Nat : s(m) \in Seq(Int) /\ Len(s(m)) = m /\ \A i \in 1 .. m : s(m)[i] = i - 1
  OBVIOUS
<1>2. n + 1 \in Nat
  OBVIOUS
<1>3. n \in Int
  OBVIOUS
<1> HIDE DEF s
<1>4. PushBack(s(n), n) = s(n + 1)
  <2>1. /\ PushBack(s(n), n) \in Seq(Int) /\ Len(PushBack(s(n), n)) = n + 1
        /\ \A i \in 1 .. n : PushBack(s(n), n)[i] = s(n)[i]
        /\ PushBack(s(n), n)[n + 1] = n
    <3>1. s(n) \in Seq(Int) /\ Len(s(n)) = n
      BY <1>1
    <3> QED
      BY <1>3, <3>1, AppendProperties DEF PushBack
  <2>2. \A i \in 1 .. n + 1 : i \in 1 .. n \/ i = n + 1
    OBVIOUS
  <2>3. ASSUME NEW i \in 1 .. n + 1 PROVE PushBack(s(n), n)[i] = s(n + 1)[i]
    <3>1. s(n + 1)[i] = i - 1
      BY <1>1, <1>2
    <3>2. i \in 1 .. n => s(n)[i] = i - 1
      BY <1>1
    <3> QED
      BY <2>1, <2>2, <3>1, <3>2
  <2> QED
    BY <1>1, <1>2, <2>1, <2>3, SeqEqual
<1>5. WithoutLast(s(n + 1)) = s(n)
  <2>1. s(n + 1) # <<>>
    BY <1>1, <1>2
  <2>2. WithoutLast(s(n + 1)) = SubSeq(s(n + 1), 1, n)
    BY <1>1, <1>2, <2>1 DEF WithoutLast
  <2>3. \A i \in 1 .. n : s(n + 1)[i] \in Int /\ s(n + 1)[i] = i - 1
    BY <1>1, <1>2
  <2>4. /\ SubSeq(s(n + 1), 1, n) \in Seq(Int)
        /\ Len(SubSeq(s(n + 1), 1, n)) = n
        /\ \A i \in 1 .. n : SubSeq(s(n + 1), 1, n)[i] = s(n + 1)[i]
    <3>1. 1 \in Int /\ n \in Int
      OBVIOUS
    <3>2. /\ SubSeq(s(n + 1), 1, n) \in Seq(Int)
          /\ Len(SubSeq(s(n + 1), 1, n)) = IF 1 <= n THEN n - 1 + 1 ELSE 0
          /\ \A i \in 1 .. n - 1 + 1 : SubSeq(s(n + 1), 1, n)[i] = s(n + 1)[1 + i - 1]
      BY <2>3, <3>1, SubSeqProperties
    <3> QED
      BY <3>2
  <2>5. \A i \in 1 .. n : SubSeq(s(n + 1), 1, n)[i] = s(n)[i]
    BY <1>1, <2>3, <2>4
  <2> QED
    BY <1>1, <2>2, <2>4, <2>5, SeqEqual
<1> QED
  BY <1>4, <1>5 DEF s

(* A step of the constructor keeps all in proportion, to the last one.     *)
LEMMA ConstructStep ==
  ASSUME Raised, Construct
  PROVE  /\ Building'
         /\ phase' \in {"push", "create", "built"}
         /\ phase' = "built" => turn' = number_of_threads
<1> USE LifeAssumption
<1>1. Building /\ phase # "built" /\ turn < number_of_threads
  BY DEF Raised, Construct, PushId, ThreadCreated, CreationFails, Building
<1>2. turn \in Nat /\ threads \in Nat /\ threads <= turn
  BY <1>1 DEF Building
<1>3. CASE PushId
  <2>1. rotation' = [i \in 1 .. threads + 1 |-> i - 1]
    BY <1>1, <1>2, <1>3, NumbersLemma DEF PushId, Building, Entered
  <2> QED
    BY <1>1, <1>3, <2>1 DEF PushId, Building, Entered, Deques, Unused, FreshWorkers,
                            dequeVars, threadVars, userVars
<1>4. CASE ThreadCreated
  <2>1. /\ turn' = turn + 1 /\ threads' = threads + 1
        /\ phase' = IF turn + 1 < number_of_threads THEN "push" ELSE "built"
        /\ UNCHANGED <<tasks, signal, rotation>> /\ UNCHANGED userVars
    BY <1>4 DEF ThreadCreated, NextTurn, dequeVars
  <2>2. Deques' = Deques /\ Entered' = Entered
    BY <1>2, <1>4, <2>1 DEF Deques, Entered, ThreadCreated
  <2>3. \A w \in 0 .. threads : w = threads \/ w \in 0 .. threads - 1
    BY <1>2
  <2>4. FreshWorkers(threads)'
    <3>1. FreshWorkers(threads)
      BY <1>1 DEF Building
    <3>2. /\ wpc' = [w \in 0 .. threads |-> "acquire"]
          /\ inHand' = [w \in 0 .. threads |-> NoTask]
          /\ offset' = [w \in 0 .. threads |-> 0]
      BY <1>4, <2>3, <3>1 DEF ThreadCreated, FreshWorkers
    <3>3. \A w \in 0 .. threads : (w < threads /\ stopRequested[w]) = FALSE
      BY <1>2, <2>3, <3>1 DEF FreshWorkers
    <3>4. stopRequested' = [w \in 0 .. threads |-> w < threads /\ stopRequested[w]]
      BY <1>4 DEF ThreadCreated
    <3>5. stopRequested' = [w \in 0 .. threads |-> FALSE]
      BY <3>3, <3>4, Zenon
    <3>6. threads' - 1 = threads
      BY <1>2, <2>1
    <3> QED
      BY <3>2, <3>5, <3>6, Zenon DEF FreshWorkers
  <2>5. Unused'
    BY <1>1, <2>1 DEF Building, Unused, userVars
  <2> QED
    BY <1>1, <1>2, <2>1, <2>2, <2>4, <2>5 DEF Building
<1>5. CASE CreationFails
  <2>1. /\ turn' = turn + 1 /\ threads' = threads
        /\ phase' = IF turn + 1 < number_of_threads THEN "push" ELSE "built"
        /\ UNCHANGED threadVars /\ UNCHANGED userVars
    BY <1>5 DEF CreationFails, NextTurn
  <2>2. Deques' = Deques - 1 /\ Entered' = threads /\ Entered = threads + 1
    BY <1>2, <1>5, <2>1 DEF Deques, Entered, CreationFails
  <2>3. /\ Cardinality(DOMAIN tasks) = Deques /\ Cardinality(DOMAIN signal) = Deques
        /\ Deques \in Nat
    BY <1>1, <1>2, DequesLemma
  <2>4. /\ tasks' = [w \in 0 .. Deques - 1 - 1 |-> <<>>]
        /\ signal' = [w \in 0 .. Deques - 1 - 1 |-> 0]
    BY <1>1, <1>5, <2>3 DEF CreationFails, DequesBut, SignalsBut, Building
  <2>5. rotation' = [i \in 1 .. threads |-> i - 1]
    BY <1>1, <1>2, <1>5, <2>2, NumbersLemma DEF CreationFails, Building
  <2>6. FreshWorkers(threads)' /\ Unused'
    BY <1>1, <2>1 DEF Building, FreshWorkers, Unused, threadVars, userVars
  <2> QED
    BY <1>1, <1>2, <2>1, <2>2, <2>4, <2>5, <2>6 DEF Building
<1> QED
  BY <1>3, <1>4, <1>5 DEF Construct

LEMMA RaisedStep == Raised /\ [Next]_vars => Raised'
<1> SUFFICES ASSUME Raised, [Next]_vars PROVE Raised'
  OBVIOUS
<1>1. CASE UNCHANGED vars
  BY <1>1 DEF vars, ctorVars, dequeVars, threadVars, userVars, Raised, Building,
              FreshWorkers, Unused, Deques, Entered
<1>2. CASE phase # "built" /\ Next
  <2>1. Building' /\ phase' \in {"push", "create", "built"}
    BY <1>2, OnlyConstruct, ConstructStep
  <2> QED
    BY <2>1, LifeAssumption DEF Raised, Building
<1>3. CASE phase = "built" /\ Next
  <2>1. UNCHANGED ctorVars
    BY <1>3 DEF Next, Construct, PushId, ThreadCreated, CreationFails, Work, Call,
                FinishCall, Destroy, FinishDestroy
  <2> QED
    BY <1>3, <2>1 DEF Raised, ctorVars
<1> QED
  BY <1>1, <1>2, <1>3

LEMMA AlwaysRaised == Spec => []Raised
BY RaisedInit, RaisedStep, PTL DEF Spec

(***************************************************************************)
(* However many threads are asked for and whichever of them fail, no       *)
(* worker gets past its semaphore while tasks_ still loses elements.       *)
(***************************************************************************)
THEOREM WorkersSleepUntilBuilt == Spec => []EarlyWorkersSleep
<1>1. Raised => EarlyWorkersSleep
  BY LifeAssumption DEF Raised, Building, FreshWorkers, Deques, EarlyWorkersSleep
<1> QED
  BY <1>1, AlwaysRaised, PTL

(* After the last turn the members are those of a new pool of k threads.   *)
LEMMA BuiltLemma ==
  ASSUME Building', phase' = "built", turn' = number_of_threads,
         NEW k \in Nat, k = threads'
  PROVE  (P(k)!Init)'
<1>1. threads' \in Int /\ turn' \in Int
  BY LifeAssumption DEF Building
<1>2. Deques' = k /\ Entered' = k
  <2>1. Deques' = turn' - (turn' - threads')
    BY DEF Deques
  <2>2. \A a, b \in Int : a - (a - b) = b
    OBVIOUS
  <2>3. turn' - (turn' - threads') = threads'
    BY <1>1, <2>2, Zenon
  <2> QED
    BY <2>1, <2>3 DEF Entered
<1> QED
  BY <1>2, LifeAssumption DEF P!Init, Building, P!Workers, P!NoWorker, FreshWorkers,
                              Unused

(***************************************************************************)
(* What the constructor leaves is a pool of the threads it got, as one     *)
(* that has asked for so many and got them all: the catch clause takes     *)
(* back just what the failed turn has done (lib/thread_pool.h:81-89).      *)
(***************************************************************************)
THEOREM ConstructorLeavesPool == Spec => BuiltAsPool
<1>1. Raised /\ [Next]_vars => [phase # "built" /\ phase' = "built" =>
       \E k \in 0 .. number_of_threads : k = threads' /\ (P(k)!Init)']_vars
  <2> SUFFICES ASSUME Raised, [Next]_vars, phase # "built", phase' = "built"
               PROVE  \E k \in 0 .. number_of_threads : k = threads' /\ (P(k)!Init)'
    OBVIOUS
  <2>1. Construct
    BY OnlyConstruct DEF vars, ctorVars
  <2>2. Building' /\ turn' = number_of_threads
    BY <2>1, ConstructStep
  <2>3. threads' \in 0 .. number_of_threads
    BY <2>2, LifeAssumption DEF Building
  <2>4. PICK k \in 0 .. number_of_threads : k = threads'
    BY <2>3
  <2>5. (P(k)!Init)'
    BY <2>2, <2>4, BuiltLemma, LifeAssumption
  <2> QED
    BY <2>4, <2>5
<1> QED
  BY <1>1, AlwaysRaised, PTL DEF Spec, BuiltAsPool

--------------------------------------------------------------------------------
(* The built pool.  P(N) and Pool are two instances of the same module:    *)
(* the actions of the one are those of the other.                          *)

LEMMA SameInit == (P(N)!Init)' => Pool!Init'
BY DEF P!Init, Pool!Init, P!Workers, Pool!Workers, P!NoWorker, Pool!NoWorker

USE DEF P!callerVars, P!dtorVars, P!taskVars, P!poolVars, P!workerVars
USE DEF Pool!callerVars, Pool!dtorVars, Pool!taskVars, Pool!poolVars, Pool!workerVars

LEMMA SameCalls ==
  ASSUME NEW c \in Callers
  PROVE  /\ P(N)!Call(c) => Pool!Call(c)
         /\ P(N)!FinishCall(c) => Pool!FinishCall(c)
<1>1. P(N)!Call(c) => Pool!Call(c)
  BY DEF P!Call, Pool!Call, P!Enqueue, Pool!Enqueue, P!EnqueueDetach,
         Pool!EnqueueDetach, P!EnqueueTask, Pool!EnqueueTask, P!Dropped, Pool!Dropped,
         P!ChooseWorker, Pool!ChooseWorker, P!First, Pool!First, P!RotatedToBack,
         Pool!RotatedToBack
<1>2. P(N)!AddPending(c) => Pool!AddPending(c)
  BY DEF P!AddPending, Pool!AddPending
<1>3. P(N)!PushTask(c) => Pool!PushTask(c)
  BY DEF P!PushTask, Pool!PushTask, P!PushBack, Pool!PushBack
<1>4. P(N)!PushFails(c) => Pool!PushFails(c)
  BY DEF P!PushFails, Pool!PushFails, P!NoWorker, Pool!NoWorker
<1>5. P(N)!ReleaseSignal(c) => Pool!ReleaseSignal(c)
  BY DEF P!ReleaseSignal, Pool!ReleaseSignal, P!NoWorker, Pool!NoWorker, P!Released,
         Pool!Released
<1> QED
  BY <1>1, <1>2, <1>3, <1>4, <1>5 DEF P!FinishCall, Pool!FinishCall

LEMMA SameWork ==
  ASSUME NEW w, P(N)!Work(w)
  PROVE  Pool!Work(w)
<1>1. P(N)!Acquire(w) => Pool!Acquire(w)
  BY DEF P!Acquire, Pool!Acquire
<1>2. P(N)!PopOwn(w) => Pool!PopOwn(w)
  BY DEF P!PopOwn, Pool!PopOwn, P!First, Pool!First, P!WithoutFirst,
         Pool!WithoutFirst
<1>3. P(N)!Steal(w) => Pool!Steal(w)
  BY DEF P!Steal, Pool!Steal, P!Victim, Pool!Victim, P!Stolen, Pool!Stolen,
         P!WithoutStolen, Pool!WithoutStolen
<1>4. P(N)!BeginTask(w) => Pool!BeginTask(w)
  BY DEF P!BeginTask, Pool!BeginTask
<1>5. P(N)!EndTask(w) => Pool!EndTask(w)
  BY DEF P!EndTask, Pool!EndTask
<1>6. P(N)!LoadPending(w) => Pool!LoadPending(w)
  BY DEF P!LoadPending, Pool!LoadPending
<1>7. P(N)!Rotate(w) => Pool!Rotate(w)
  BY DEF P!Rotate, Pool!Rotate, P!RotateToFront, Pool!RotateToFront, P!Erased,
         Pool!Erased, P!Contains, Pool!Contains, P!Min, Pool!Min
<1>8. P(N)!CheckStop(w) => Pool!CheckStop(w)
  BY DEF P!CheckStop, Pool!CheckStop
<1> QED
  BY <1>1, <1>2, <1>3, <1>4, <1>5, <1>6, <1>7, <1>8 DEF P!Work, Pool!Work

LEMMA SameDestroy ==
  /\ P(N)!Destroy => Pool!Destroy
  /\ P(N)!FinishDestroy => Pool!FinishDestroy
<1>1. P(N)!Destroy => Pool!Destroy
  BY DEF P!Destroy, Pool!Destroy
<1>2. P(N)!RequestStop => Pool!RequestStop
  BY DEF P!RequestStop, Pool!RequestStop
<1>3. P(N)!SignalStop => Pool!SignalStop
  BY DEF P!SignalStop, Pool!SignalStop, P!Released, Pool!Released
<1>4. P(N)!Join => Pool!Join
  BY DEF P!Join, Pool!Join
<1>5. P(N)!FreeMembers => Pool!FreeMembers
  BY DEF P!FreeMembers, Pool!FreeMembers, P!Workers, Pool!Workers, P!Contains,
         Pool!Contains
<1> QED
  BY <1>1, <1>2, <1>3, <1>4, <1>5 DEF P!FinishDestroy, Pool!FinishDestroy

(* Once built, every step is one of a pool of N threads.                   *)
LEMMA AsPool ==
  ASSUME phase = "built", threads = N, N \in Nat, [Next]_vars
  PROVE  /\ [Pool!Next]_(Pool!vars)
         /\ UNCHANGED <<phase, threads>>
<1>1. CASE UNCHANGED vars
  BY <1>1 DEF vars, ctorVars, dequeVars, threadVars, userVars, Pool!vars
<1>2. UNCHANGED vars \/ UNCHANGED ctorVars
  BY DEF Next, Construct, PushId, ThreadCreated, CreationFails, Work, Call,
         FinishCall, Destroy, FinishDestroy
<1>3. ASSUME NEW w \in 0 .. number_of_threads - 1, Work(w) PROVE Pool!Next
  <2>1. P(N)!Work(w) /\ w < N
    BY <1>3 DEF Work, Here
  <2> QED
    BY <2>1, SameWork, LifeAssumption DEF Pool!Next, Pool!Workers
<1>4. ASSUME NEW c \in Callers, Call(c) \/ FinishCall(c) PROVE Pool!Next
  <2>1. P(N)!Call(c) \/ P(N)!FinishCall(c)
    BY <1>4 DEF Call, FinishCall, Here
  <2> QED
    BY <2>1, SameCalls DEF Pool!Next
<1>5. ASSUME Destroy \/ FinishDestroy PROVE Pool!Next
  <2>1. P(N)!Destroy \/ P(N)!FinishDestroy
    BY <1>5 DEF Destroy, FinishDestroy, Here
  <2> QED
    BY <2>1, SameDestroy DEF Pool!Next
<1>6. ~Construct
    BY DEF Construct, PushId, ThreadCreated, CreationFails
<1> QED
  BY <1>1, <1>2, <1>3, <1>4, <1>5, <1>6 DEF Next, vars, ctorVars

(* All the inductive invariants of a pool of N threads.                    *)
Sound == Pool!Safe /\ Pool!Counted /\ Pool!NoLostWakeup /\ Pool!Truthful

LEMMA AssumptionLemma == N \in Nat => Pool!PoolAssumption
BY LifeAssumption DEF Pool!PoolAssumption

LEMMA SoundInit ==
  ASSUME N \in Nat
  PROVE  Pool!Init => Sound
BY AssumptionLemma, Pool!SafeInit, Pool!CountedInit, Pool!WakeupInit,
   Pool!TruthfulInit DEF Sound

LEMMA SoundStep ==
  ASSUME N \in Nat
  PROVE  Sound /\ [Pool!Next]_(Pool!vars) => Sound'
BY AssumptionLemma, Pool!SafeStep, Pool!CountedStep, Pool!WakeupStep,
   Pool!TruthfulStep DEF Sound, Pool!Safe

(* The moment the pool is built it is as at its beginning; then Sound.     *)
Kept == phase = "built" /\ threads = N => Pool!Init \/ Sound

LEMMA KeptInit == Init => Kept
<1> SUFFICES ASSUME Init, phase = "built", threads = N PROVE Pool!Init
  BY DEF Kept
<1>1. N = 0 /\ number_of_threads = 0
  BY LifeAssumption DEF Init, InitRest
<1> QED
  BY <1>1 DEF Init, InitRest, Pool!Init, Pool!Workers, Pool!NoWorker

LEMMA KeptStep == ASSUME N \in Nat PROVE Raised /\ Kept /\ [Next]_vars => Kept'
<1> SUFFICES ASSUME Raised, Kept, [Next]_vars, phase' = "built", threads' = N
             PROVE  Pool!Init' \/ Sound'
  BY DEF Kept
<1>1. CASE phase = "built"
  <2>1. threads = N
    BY <1>1 DEF vars, ctorVars, Next, Construct, PushId, ThreadCreated, CreationFails,
                Work, Call, FinishCall, Destroy, FinishDestroy
  <2>2. Sound
    BY <1>1, <2>1, SoundInit DEF Kept
  <2> QED
    BY <1>1, <2>1, <2>2, AsPool, SoundStep
<1>2. CASE phase # "built"
  <2>1. Construct
    BY <1>2, OnlyConstruct DEF vars, ctorVars
  <2>2. Building' /\ turn' = number_of_threads
    BY <2>1, ConstructStep
  <2>3. (P(N)!Init)'
    BY <2>2, BuiltLemma
  <2> QED
    BY <2>3, SameInit
<1> QED
  BY <1>1, <1>2

LEMMA AlwaysKept == ASSUME N \in Nat PROVE Spec => []Kept
BY KeptInit, KeptStep, AlwaysRaised, PTL DEF Spec

(***************************************************************************)
(* Whatever the number N of threads that could be created, from the end of *)
(* the constructor on no task is lost or in two places, pending_tasks_ is  *)
(* exact, no wake-up is lost, no worker drops out of the rotation and no   *)
(* future lies: nothing that the constructor has done, or undone, breaks   *)
(* later what is said of a pool with so many threads.                      *)
(***************************************************************************)
THEOREM BuiltPoolStaysSafe ==
  ASSUME N \in Nat
  PROVE  Spec => [](phase = "built" /\ threads = N =>
                      /\ Pool!OnePlace /\ Pool!Accounted
                      /\ Pool!PendingExact /\ Pool!NoLostWakeup
                      /\ Pool!RotationComplete /\ Pool!FutureHonest)
<1>1. Kept => (phase = "built" /\ threads = N =>
                 /\ Pool!OnePlace /\ Pool!Accounted
                 /\ Pool!PendingExact /\ Pool!NoLostWakeup
                 /\ Pool!RotationComplete /\ Pool!FutureHonest)
  <2> SUFFICES ASSUME Kept, phase = "built", threads = N
               PROVE  /\ Pool!OnePlace /\ Pool!Accounted
                      /\ Pool!PendingExact /\ Pool!NoLostWakeup
                      /\ Pool!RotationComplete /\ Pool!FutureHonest
    OBVIOUS
  <2>1. Sound
    BY SoundInit DEF Kept
  <2>2. Pool!FutureHonest
    BY <2>1, AssumptionLemma, Pool!TruthfulHonest DEF Sound
  <2> QED
    BY <2>1, <2>2 DEF Sound, Pool!Safe, Pool!Places, Pool!Counted
<1> QED
  BY <1>1, AlwaysKept, PTL

(***************************************************************************)
(* Seen from its constructor on, a pool that gets N threads, of however    *)
(* many, implements TaskPool of size N: a shortage of threads lowers the   *)
(* number of tasks in execution and changes nothing else of the promise.   *)
(***************************************************************************)
THEOREM LifeKeepsPromise ==
  ASSUME N \in Nat
  PROVE  Spec /\ [](phase = "built" => threads = N) => Pool!RefinesTaskPool
<1>1. Init => Pool!Promise!Init
  BY DEF Init, InitRest, Pool!Promise!Init
<1>2. Raised /\ Kept /\ (phase = "built" => threads = N) /\ [Next]_vars
        => [Pool!Promise!Next]_(Pool!Promise!promiseVars)
  <2> SUFFICES ASSUME Raised, Kept, phase = "built" => threads = N, [Next]_vars
               PROVE  [Pool!Promise!Next]_(Pool!Promise!promiseVars)
    OBVIOUS
  <2>1. CASE phase = "built"
    BY <2>1, AsPool, SoundInit, AssumptionLemma, Pool!PromiseStep DEF Kept, Sound
  <2>2. CASE phase # "built"
    <3>1. UNCHANGED <<submitted, begun, ended, dpc>>
      BY <2>2, OnlyConstruct DEF vars, Construct, PushId, ThreadCreated, CreationFails,
                                 userVars
    <3> QED
      BY <3>1 DEF Pool!Promise!promiseVars
  <2> QED
    BY <2>1, <2>2
<1> QED
  BY <1>1, <1>2, AlwaysKept, AlwaysRaised, PTL
     DEF Spec, Pool!RefinesTaskPool, Pool!Promise!Spec
===============================================================================
