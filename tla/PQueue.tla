------------------------------- MODULE PQueue -------------------------------
(***************************************************************************)
(* The Pth thread priority queue of src/a1/pth-2.0.7/pth_pqueue.c.         *)
(*                                                                         *)
(* The queue is a circular doubly-linked list threaded through the thread  *)
(* control blocks.  Priorities are delta-encoded in q_prio: the head holds *)
(* its absolute priority, every other member holds how much lower it is   *)
(* than its predecessor.  All fields the queue code touches are kept in    *)
(* one record pq, so that pth_pqueue_favorite can be written, as in the    *)
(* code, as pth_pqueue_delete followed by pth_pqueue_insert.               *)
(*                                                                         *)
(* The scheduler calls every entry point with the queue to itself (Pth is  *)
(* non-preemptive), so each call is one atomic step.  The caller contract  *)
(* (insert only threads not queued, delete only members) is kept with the  *)
(* ghost set queued, the scheduler's own record of which threads it has    *)
(* put into the queue.                                                     *)
(***************************************************************************)
EXTENDS Integers, Sequences, FiniteSets, Functions

CONSTANTS
  Threads,      \* thread handles (pth_t), model values
  NULL,         \* the null pointer
  Prio,         \* static thread priority t->prio, a function on Threads
  InsertPrios,  \* priorities the scheduler passes to pth_pqueue_insert
  MaxPrio       \* bound on absolute priority reached by favour and aging

ASSUME NULL \notin Threads
ASSUME Prio \in [Threads -> Int]
ASSUME InsertPrios \subseteq Int /\ MaxPrio \in Int

VARIABLES
  pq,       \* the queue and the queue fields of every thread control block
  queued    \* ghost: threads the scheduler has put into the queue

vars == <<pq, queued>>

Ptr == Threads \cup {NULL}

TypeOK ==
  /\ pq \in [q_head : Ptr, q_num : Nat, total_prio : Nat,
             q_next : [Threads -> Ptr], q_prev : [Threads -> Ptr],
             q_prio : [Threads -> Int]]
  /\ queued \subseteq Threads

(***************************************************************************)
(* Reading the list.                                                       *)
(***************************************************************************)

\* The thread k steps after t along q_next.
RECURSIVE NthNext(_, _, _)
NthNext(s, t, k) ==
  IF k = 0 \/ t = NULL THEN t ELSE NthNext(s, s.q_next[t], k - 1)

\* The members in list order, walking q_num steps from the head.
ListOf(s) == [i \in 1..s.q_num |-> NthNext(s, s.q_head, i - 1)]

\* Absolute priority of the i-th member: head's q_prio minus the deltas.
RECURSIVE AbsPrio(_, _)
AbsPrio(s, i) ==
  IF i = 1 THEN s.q_prio[ListOf(s)[1]]
  ELSE AbsPrio(s, i - 1) - s.q_prio[ListOf(s)[i]]

\* pth_pqueue_walk: the neighbour of t, NULL on wrapping round to the head.
PqWalk(s, t, forward) ==
  IF t = NULL THEN NULL
  ELSE IF forward THEN (IF s.q_next[t] = s.q_head THEN NULL ELSE s.q_next[t])
  ELSE IF t # s.q_head THEN s.q_prev[t] ELSE NULL

\* pth_pqueue_contains: walk forward from the head looking for t.
PqContains(s, t) ==
  \E k \in 0..Cardinality(Threads) :
     LET RECURSIVE W(_, _)
         W(c, n) == IF n = 0 \/ c = NULL THEN c ELSE W(PqWalk(s, c, TRUE), n - 1)
     IN  W(s.q_head, k) = t /\ t # NULL

\* pth_pqueue_tail
PqTail(s) == IF s.q_head = NULL THEN NULL ELSE s.q_prev[s.q_head]

(***************************************************************************)
(* The operations, as functions from queue to queue.                       *)
(***************************************************************************)

\* Mutant: the walk stops at the first member of equal priority.
RECURSIVE InsertPosStrict(_, _, _, _)
InsertPosStrict(s, c, p, prio) ==
  IF p - s.q_prio[s.q_next[c]] > prio /\ s.q_next[c] # s.q_head
    THEN InsertPosStrict(s, s.q_next[c], p - s.q_prio[s.q_next[c]], prio)
    ELSE <<c, p>>

\* pth_pqueue_insert's walk: stop at the last member whose absolute
\* priority is >= prio; returns <<c, p>> with p the priority of c.
RECURSIVE InsertPos(_, _, _, _)
InsertPos(s, c, p, prio) ==
  IF p - s.q_prio[s.q_next[c]] >= prio /\ s.q_next[c] # s.q_head
    THEN InsertPos(s, s.q_next[c], p - s.q_prio[s.q_next[c]], prio)
    ELSE <<c, p>>

\* Mutant: total_prio grows by prio, not prio + 1.
InsertNoOne(s, prio, t) ==
  LET h == s.q_head
      linked ==
        IF h = NULL \/ s.q_num = 0 THEN
          [s EXCEPT !.q_prev[t] = t, !.q_next[t] = t, !.q_prio[t] = prio,
                    !.q_head = t]
        ELSE IF s.q_prio[h] < prio THEN
          [s EXCEPT !.q_prev[t] = s.q_prev[h], !.q_next[t] = h,
                    !.q_next[s.q_prev[h]] = t, !.q_prev[h] = t,
                    !.q_prio[t] = prio, !.q_prio[h] = prio - s.q_prio[h],
                    !.q_head = t]
        ELSE
          LET cp == InsertPos(s, h, s.q_prio[h], prio)
              c  == cp[1]
              n  == s.q_next[c]
              d  == cp[2] - prio
          IN [s EXCEPT !.q_prev[t] = c, !.q_next[t] = n,
                       !.q_next[c] = t, !.q_prev[n] = t,
                       !.q_prio[t] = d,
                       !.q_prio[n] = IF n # h THEN @ - d ELSE @]
  IN [linked EXCEPT !.q_num = @ + 1, !.total_prio = @ + Prio[t]]

Insert(s, prio, t) ==
  LET h == s.q_head
      linked ==
        IF h = NULL \/ s.q_num = 0 THEN
          [s EXCEPT !.q_prev[t] = t, !.q_next[t] = t, !.q_prio[t] = prio,
                    !.q_head = t]
        ELSE IF s.q_prio[h] < prio THEN
          [s EXCEPT !.q_prev[t] = s.q_prev[h], !.q_next[t] = h,
                    !.q_next[s.q_prev[h]] = t, !.q_prev[h] = t,
                    !.q_prio[t] = prio, !.q_prio[h] = prio - s.q_prio[h],
                    !.q_head = t]
        ELSE
          LET cp == InsertPos(s, h, s.q_prio[h], prio)
              c  == cp[1]
              n  == s.q_next[c]
              d  == cp[2] - prio
          IN [s EXCEPT !.q_prev[t] = c, !.q_next[t] = n,
                       !.q_next[c] = t, !.q_prev[n] = t,
                       !.q_prio[t] = d,
                       !.q_prio[n] = IF n # h THEN @ - d ELSE @]
  IN [linked EXCEPT !.q_num = @ + 1, !.total_prio = @ + Prio[t] + 1]

\* Removing the only member empties the queue and clears t's links.
UnlinkLast(s, t) ==
  [s EXCEPT !.q_next[t] = NULL, !.q_prev[t] = NULL, !.q_prio[t] = 0,
            !.q_head = NULL, !.q_num = 0]

\* Removing the head: its successor becomes head with absolute priority.
UnlinkHead(s, t) ==
  [s EXCEPT !.q_next[s.q_prev[t]] = s.q_next[t],
            !.q_prev[s.q_next[t]] = s.q_prev[t],
            !.q_prio[s.q_next[t]] = s.q_prio[t] - @,
            !.q_prio[t] = 0,
            !.q_head = s.q_next[t],
            !.q_num = @ - 1]

\* Mutant: the successor's back link is left pointing at t.
UnlinkMiddleNoPrev(s, t) ==
  [s EXCEPT !.q_next[s.q_prev[t]] = s.q_next[t],
            !.q_prio[s.q_next[t]] =
               IF s.q_next[t] # s.q_head THEN @ + s.q_prio[t] ELSE @,
            !.q_prio[t] = 0,
            !.q_num = @ - 1]

\* Removing any other member: its delta moves into its successor.
UnlinkMiddle(s, t) ==
  [s EXCEPT !.q_next[s.q_prev[t]] = s.q_next[t],
            !.q_prev[s.q_next[t]] = s.q_prev[t],
            !.q_prio[s.q_next[t]] =
               IF s.q_next[t] # s.q_head THEN @ + s.q_prio[t] ELSE @,
            !.q_prio[t] = 0,
            !.q_num = @ - 1]

DelMax(s) ==
  IF s.q_head = NULL THEN s
  ELSE IF s.q_next[s.q_head] = s.q_head THEN UnlinkLast(s, s.q_head)
  ELSE UnlinkHead(s, s.q_head)

Delete(s, t) ==
  IF s.q_head = NULL THEN s
  ELSE IF s.q_head = t THEN
    IF s.q_next[t] = t THEN UnlinkLast(s, t) ELSE UnlinkHead(s, t)
  ELSE UnlinkMiddle(s, t)

\* pth_pqueue_favorite_prio
FavoritePrio(s) == IF s.q_head # NULL THEN s.q_prio[s.q_head] + 1 ELSE MaxPrio

Favorite(s, t) ==
  IF s.q_head = NULL \/ s.q_num = 0 \/ s.q_num = 1 THEN s
  ELSE LET d == Delete(s, t) IN Insert(d, FavoritePrio(d), t)

Increase(s) ==
  IF s.q_head = NULL THEN s ELSE [s EXCEPT !.q_prio[s.q_head] = @ + 1]

(***************************************************************************)
(* The scheduler's calls.                                                  *)
(***************************************************************************)

Init ==
  /\ pq = [q_head |-> NULL, q_num |-> 0, total_prio |-> 0,
           q_next |-> [t \in Threads |-> NULL],
           q_prev |-> [t \in Threads |-> NULL],
           q_prio |-> [t \in Threads |-> 0]]
  /\ queued = {}

DoInsert(t, p) ==
  /\ t \notin queued
  /\ pq' = Insert(pq, p, t)
  /\ queued' = queued \cup {t}

DoDelMax ==
  /\ pq.q_head # NULL
  /\ pq' = DelMax(pq)
  /\ queued' = queued \ {pq.q_head}

DoDelete(t) ==
  /\ t \in queued
  /\ pq' = Delete(pq, t)
  /\ queued' = queued \ {t}

DoFavorite(t) ==
  /\ t \in queued
  /\ FavoritePrio(Delete(pq, t)) <= MaxPrio
  /\ pq' = Favorite(pq, t)
  /\ UNCHANGED queued

DoIncrease ==
  /\ pq.q_head # NULL
  /\ pq.q_prio[pq.q_head] < MaxPrio
  /\ pq' = Increase(pq)
  /\ UNCHANGED queued

Next ==
  \/ \E t \in Threads, p \in InsertPrios : DoInsert(t, p)
  \/ DoDelMax
  \/ \E t \in Threads : DoDelete(t) \/ DoFavorite(t)
  \/ DoIncrease

Spec == Init /\ [][Next]_vars

(***************************************************************************)
(* Properties.                                                             *)
(***************************************************************************)

\* The list is a ring over exactly the queued threads: q_num counts them,
\* walking q_next from the head visits each once and comes back to the
\* head, q_prev is the inverse of q_next, and pth_pqueue_contains and
\* pth_pqueue_tail agree with it.  Insert, the three unlink paths and
\* favour (delete then insert) all rewrite up to four links.
ListWellFormed ==
  LET L == ListOf(pq) IN
  /\ pq.q_num = Cardinality(queued)
  /\ (pq.q_head = NULL) <=> (pq.q_num = 0)
  /\ {L[i] : i \in 1..Len(L)} = queued
  /\ \A t \in queued : pq.q_next[t] \in queued /\ pq.q_prev[pq.q_next[t]] = t
  /\ pq.q_head # NULL => pq.q_next[L[Len(L)]] = pq.q_head /\ PqTail(pq) = L[Len(L)]
  /\ \A t \in Threads : PqContains(pq, t) <=> t \in queued

\* The list read with its deltas decoded, as the abstract queue sees it.
AbsQueue ==
  [i \in 1..pq.q_num |-> [thr |-> ListOf(pq)[i], pri |-> AbsPrio(pq, i)]]

\* The delta-encoded list implements the abstract priority queue: every
\* call changes the decoded (thread, priority) sequence exactly as
\* PQueueAbstract says, so order, ties, aging and favour are all kept.
Abs == INSTANCE PQueueAbstract WITH aq <- AbsQueue,
                                    Prios <- -MaxPrio..MaxPrio
Refinement == Abs!Spec

\* Spec invariant 3: total_prio is the sum of (prio + 1) over the members.
TotalPrioConsistent ==
  pq.total_prio = SumFunctionOnSet(Prio, queued) + Cardinality(queued)
=============================================================================
