---------------------------- MODULE ThreadSafeQueue ----------------------------
(***************************************************************************)
(* dp::thread_safe_queue (lib/thread_safe_queue.h): a std::deque behind    *)
(* one mutex.  Every operation locks the mutex for the whole of its body,  *)
(* so a caller sees it as one atomic step.  The module therefore only has  *)
(* constant operators: what an operation leaves in the deque.  The modules *)
(* that use a queue keep its content in a variable of theirs, and test     *)
(* q # <<>> where the operation would return std::nullopt.                 *)
(*                                                                         *)
(* (SequencesExt has some of these operators, but it extends Bags, and the *)
(* prover cannot take Bags into an instance with a parameter, which        *)
(* ThreadPoolLife has of ThreadPool.)                                      *)
(***************************************************************************)
EXTENDS Integers, Sequences, FiniteSetsExt

Contains(q, item) == \E i \in 1 .. Len(q) : q[i] = item

PushBack(q, v) == Append(q, v)

(* pop_front returns First(q) and leaves WithoutFirst(q). *)
First(q) == Head(q)

WithoutFirst(q) == Tail(q)

(* steal returns Stolen(q), the element at the other end. *)
Stolen(q) == q[Len(q)]

(* Mutant: steal erases nothing. *)
StolenKept(q) == q

WithoutStolen(q) == SubSeq(q, 1, Len(q) - 1)

(* pop_back leaves WithoutLast(q), and the empty deque as it is. *)
WithoutLast(q) == IF q = <<>> THEN q ELSE SubSeq(q, 1, Len(q) - 1)

(* Mutant: the item is put in front and not erased. *)
PutInFront(q, item) == <<item>> \o q

(* std::find and erase: the queue without the first occurrence of the item. *)
Erased(q, item) ==
  IF Contains(q, item)
  THEN LET i == Min({j \in 1 .. Len(q) : q[j] = item})
       IN SubSeq(q, 1, i - 1) \o SubSeq(q, i + 1, Len(q))
  ELSE q

(***************************************************************************)
(* rotate_to_front: erase the first occurrence of the item if there is     *)
(* one, then put the item in front in any case.                            *)
(***************************************************************************)
RotateToFront(q, item) == <<item>> \o Erased(q, item)

(* copy_front_and_rotate_to_back returns First(q) and leaves this. *)
RotatedToBack(q) == Append(Tail(q), Head(q))
================================================================================
