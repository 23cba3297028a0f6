------------------------------- MODULE TaskPool -------------------------------
(***************************************************************************)
(* What a pool of threads promises its user, without deques, semaphores,   *)
(* counters or stealing: a task that is accepted is begun at most once, at *)
(* most size tasks are in execution at any time, and the pool closes only  *)
(* when none is, after which none begins.  The order in which tasks begin  *)
(* is not promised, nor that a task begins before the pool closes.         *)
(***************************************************************************)
EXTENDS Integers, FiniteSets

CONSTANTS Tasks, size

VARIABLES accepted, begun, ended, open

promiseVars == <<accepted, begun, ended, open>>

InExecution == {t \in Tasks : begun[t] > ended[t]}

Init ==
  /\ accepted = {}
  /\ begun = [t \in Tasks |-> 0]
  /\ ended = [t \in Tasks |-> 0]
  /\ open = TRUE

Accept(t) ==
  /\ open
  /\ t \notin accepted
  /\ accepted' = accepted \cup {t}
  /\ UNCHANGED <<begun, ended, open>>

Begin(t) ==
  /\ open
  /\ t \in accepted
  /\ begun[t] = 0
  /\ Cardinality(InExecution) < size
  /\ begun' = [begun EXCEPT ![t] = 1]
  /\ UNCHANGED <<accepted, ended, open>>

End(t) ==
  /\ t \in InExecution
  /\ ended' = [ended EXCEPT ![t] = 1]
  /\ UNCHANGED <<accepted, begun, open>>

Close ==
  /\ open
  /\ InExecution = {}
  /\ open' = FALSE
  /\ UNCHANGED <<accepted, begun, ended>>

Next == (\E t \in Tasks : Accept(t) \/ Begin(t) \/ End(t)) \/ Close

Spec == Init /\ [][Next]_promiseVars
================================================================================
