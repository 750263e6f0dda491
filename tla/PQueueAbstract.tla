--------------------------- MODULE PQueueAbstract ---------------------------
(***************************************************************************)
(* What a Pth thread priority queue promises its scheduler, stated without *)
(* the delta encoding: the queue is a sequence of (thread, priority)       *)
(* entries kept in non-increasing priority order, where a new entry goes   *)
(* after every entry of greater or equal priority ("insert after elements  *)
(* with greater or equal priority", pth_pqueue.c), removal of the maximum *)
(* takes the first entry, aging raises every entry by one ("increase       *)
(* priority of all(!) threads"), and favouring a thread moves it in front  *)
(* of the rest with a priority one above the new first entry.             *)
(***************************************************************************)
EXTENDS Integers, Sequences, SequencesExt

CONSTANTS
  Threads,   \* thread handles that may be queued
  Prios      \* priorities an entry may carry

VARIABLE aq  \* <<[thr |-> t, pri |-> p], ...>>, highest priority first

Entry == [thr : Threads, pri : Prios]

Members == {aq[i].thr : i \in 1..Len(aq)}

\* Number of entries that a new entry of priority p goes behind.
Ahead(p) == Cardinality({i \in 1..Len(aq) : aq[i].pri >= p})

Without(t) == SelectSeq(aq, LAMBDA e : e.thr # t)

Init == aq = <<>>

Insert(t, p) ==
  /\ t \notin Members
  /\ aq' = InsertAt(aq, Ahead(p) + 1, [thr |-> t, pri |-> p])

DelMax ==
  /\ aq # <<>>
  /\ aq' = Tail(aq)

\* Arbitrary removal: pth_pqueue_delete, and the lottery winner's removal.
Delete(t) ==
  /\ t \in Members
  /\ aq' = Without(t)

Favorite(t) ==
  /\ t \in Members
  /\ IF Len(aq) = 1
       THEN UNCHANGED aq
       ELSE aq' = <<[thr |-> t, pri |-> Without(t)[1].pri + 1]>> \o Without(t)

Increase ==
  /\ aq # <<>>
  /\ aq' = [i \in 1..Len(aq) |-> [aq[i] EXCEPT !.pri = @ + 1]]

Next ==
  \/ \E t \in Threads, p \in Prios : Insert(t, p)
  \/ DelMax
  \/ \E t \in Threads : Delete(t) \/ Favorite(t)
  \/ Increase

Spec == Init /\ [][Next]_aq

\* The queue never holds a thread twice and is ordered by priority.
Sorted ==
  /\ IsInjective([i \in 1..Len(aq) |-> aq[i].thr])
  /\ IsSorted([i \in 1..Len(aq) |-> aq[i].pri], >=)
=============================================================================
