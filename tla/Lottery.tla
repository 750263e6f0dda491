------------------------------ MODULE Lottery ------------------------------
(***************************************************************************)
(* The fair-share lottery layered on the priority queue in                 *)
(* src/a1/pth-2.0.7/pth_pqueue.c: pth_pqueue_update_a_rt,                  *)
(* pth_pqueue_calc_target, pth_pqueue_issue_tk and pth_pqueue_deltk.       *)
(*                                                                         *)
(* One scheduling epoch is one step: the cooperative scheduler runs the    *)
(* three passes over the ready queue and then draws, without yielding in   *)
(* between (spec 2, 5).  The draw n is a uniform number below total_tk    *)
(* from an outside source; only which ticket range it falls in matters,    *)
(* so n ranges over the range boundaries.  When no thread holds a ticket   *)
(* the scheduler falls back to pth_pqueue_delmax (spec 4.3).  Between      *)
(* epochs threads are inserted, deleted, favoured and aged as in PQueue.   *)
(*                                                                         *)
(* CPU usage percentages are doubles in the code; here actual usage is an  *)
(* integer percentage from ActualPcts (it comes from the outside clock)    *)
(* and the target is kept as the exact fraction 100*(prio+1)/total_prio.  *)
(***************************************************************************)
EXTENDS PQueue

CONSTANTS
  ActualPcts,   \* values running/lifetime*100 may take
  MaxTotalPrio  \* bound on total_prio, which only grows (see PQueue)

VARIABLES
  actual,     \* cpu_rt.actual, percent
  target,     \* cpu_rt.target as [num, den]: num/den percent
  tk_num,     \* tk.tk_num
  tk_offset,  \* tk.offset
  total_tk,   \* q->total_tk
  winner      \* thread removed by the last draw (for the properties)

lvars == <<actual, target, tk_num, tk_offset, total_tk, winner>>
allvars == <<pq, queued, lvars>>

LTypeOK ==
  /\ TypeOK
  /\ actual \in [Threads -> Nat]
  /\ target \in [Threads -> [num : Nat, den : Nat]]
  /\ tk_num \in [Threads -> Nat] /\ tk_offset \in [Threads -> Nat]
  /\ total_tk \in Nat
  /\ winner \in Ptr

Members(s) == {ListOf(s)[i] : i \in 1..s.q_num}

\* pth_pqueue_update_a_rt: every member's usage is re-read from the clock
\* (left as it was when its lifetime is still zero).
ActualChoices(s) ==
  {a \in [Threads -> ActualPcts \cup Range(actual)] :
     \A t \in Threads \ Members(s) : a[t] = actual[t]}

\* pth_pqueue_calc_target
CalcTarget(s) ==
  [t \in Threads |-> IF t \in Members(s)
                       THEN [num |-> 100 * (Prio[t] + 1), den |-> s.total_prio]
                       ELSE target[t]]

\* (unsigned long)(err * 5) for err = target - actual >= 0, and the sign.
Err5(tg, a) == (5 * tg.num - 5 * a * tg.den) \div tg.den
Greedy(tg, a) == 5 * tg.num - 5 * a * tg.den < 0

\* Mutant: a thread's offset is taken after its own tickets are added.
IssueTkLateOffset(s, a, tg) ==
  LET L == ListOf(s)
      n(i) == IF Greedy(tg[L[i]], a[L[i]]) THEN 0
              ELSE Err5(tg[L[i]], a[L[i]]) * Err5(tg[L[i]], a[L[i]])
      RECURSIVE Upto(_)
      Upto(i) == IF i = 0 THEN 0 ELSE Upto(i - 1) + n(i)
  IN [num    |-> [t \in Threads |->
                    IF t \in Members(s)
                      THEN n(CHOOSE i \in 1..Len(L) : L[i] = t) ELSE tk_num[t]],
      offset |-> [t \in Threads |->
                    IF t \in Members(s)
                      THEN LET i == CHOOSE i \in 1..Len(L) : L[i] = t
                           IN IF n(i) = 0 THEN 0 ELSE Upto(i)
                      ELSE tk_offset[t]],
      total  |-> Upto(Len(L))]

\* pth_pqueue_issue_tk: walk from the head giving each thread
\* floor(err*5)^2 tickets at the running offset; greedy threads get none.
IssueTk(s, a, tg) ==
  LET L == ListOf(s)
      n(i) == IF Greedy(tg[L[i]], a[L[i]]) THEN 0
              ELSE Err5(tg[L[i]], a[L[i]]) * Err5(tg[L[i]], a[L[i]])
      RECURSIVE Before(_)
      Before(i) == IF i = 1 THEN 0 ELSE Before(i - 1) + n(i - 1)
  IN [num    |-> [t \in Threads |->
                    IF t \in Members(s)
                      THEN n(CHOOSE i \in 1..Len(L) : L[i] = t) ELSE tk_num[t]],
      offset |-> [t \in Threads |->
                    IF t \in Members(s)
                      THEN LET i == CHOOSE i \in 1..Len(L) : L[i] = t
                           IN IF n(i) = 0 THEN 0 ELSE Before(i)
                      ELSE tk_offset[t]],
      total  |-> IF Len(L) = 0 THEN 0 ELSE Before(Len(L)) + n(Len(L))]

\* The draws that lead to different winners: every range boundary below
\* the total.
Draws(tk) ==
  ({0} \cup {tk.offset[t] : t \in Threads}
       \cup {tk.offset[t] + tk.num[t] : t \in Threads})
  \cap 0..(tk.total - 1)

\* The first member, walking from the head, whose range holds ltr_num.
TkWinner(s, tk, ltr_num) ==
  LET L == ListOf(s)
      hit(i) == ltr_num >= tk.offset[L[i]] /\ ltr_num < tk.offset[L[i]] + tk.num[L[i]]
  IN L[CHOOSE i \in 1..Len(L) : hit(i) /\ \A j \in 1..(i - 1) : ~hit(j)]

HasTkWinner(s, tk, ltr_num) ==
  \E t \in Members(s) :
     ltr_num >= tk.offset[t] /\ ltr_num < tk.offset[t] + tk.num[t]

\* Mutant: q_head is not moved when the head wins.
DelTkKeepHead(s, t) ==
  IF s.q_head = NULL THEN s
  ELSE IF s.q_next[s.q_head] = s.q_head THEN
    [UnlinkLast(s, s.q_head) EXCEPT !.total_prio = 0]
  ELSE
    [s EXCEPT !.q_next[s.q_prev[t]] = s.q_next[t],
              !.q_prev[s.q_next[t]] = s.q_prev[t],
              !.q_prio[s.q_next[t]] = s.q_prio[t] - @,
              !.q_prio[t] = 0,
              !.q_num = @ - 1,
              !.total_prio = @ - (Prio[t] + 1)]

\* pth_pqueue_deltk: unlink the winner.  The successor's q_prio is
\* rewritten with the head-removal formula whichever member won.
DelTk(s, t) ==
  IF s.q_head = NULL THEN s
  ELSE IF s.q_next[s.q_head] = s.q_head THEN
    [UnlinkLast(s, s.q_head) EXCEPT !.total_prio = 0]
  ELSE
    [s EXCEPT !.q_next[s.q_prev[t]] = s.q_next[t],
              !.q_prev[s.q_next[t]] = s.q_prev[t],
              !.q_prio[s.q_next[t]] = s.q_prio[t] - @,
              !.q_prio[t] = 0,
              !.q_head = IF s.q_head = t THEN s.q_next[t] ELSE @,
              !.q_num = @ - 1,
              !.total_prio = @ - (Prio[t] + 1)]

(***************************************************************************)
(* Steps.                                                                  *)
(***************************************************************************)

LInit ==
  /\ Init
  /\ actual = [t \in Threads |-> 0]
  /\ target = [t \in Threads |-> [num |-> 0, den |-> 1]]
  /\ tk_num = [t \in Threads |-> 0]
  /\ tk_offset = [t \in Threads |-> 0]
  /\ total_tk = 0
  /\ winner = NULL

\* One scheduler pass: update usage, targets, tickets, then draw.
Epoch ==
  /\ pq.q_head # NULL
  /\ \E a \in ActualChoices(pq) :
       LET tg == CalcTarget(pq)
           tk == IssueTk(pq, a, tg)
           w(n) == IF pq.q_num = 1 THEN pq.q_head ELSE TkWinner(pq, tk, n)
       IN /\ actual' = a
          /\ target' = tg
          /\ tk_num' = tk.num /\ tk_offset' = tk.offset /\ total_tk' = tk.total
          /\ IF tk.total = 0
               THEN /\ pq' = DelMax(pq)
                    /\ winner' = pq.q_head
               ELSE \E n \in Draws(tk) :
                      /\ pq.q_num = 1 \/ HasTkWinner(pq, tk, n)
                      /\ pq' = DelTk(pq, w(n))
                      /\ winner' = w(n)
          /\ queued' = queued \ {winner'}

\* Queue operations between epochs leave the lottery fields alone.
QueueOp ==
  /\ Next
  /\ UNCHANGED lvars

LNext == Epoch \/ QueueOp

LSpec == LInit /\ [][LNext]_allvars

\* State constraint: total_prio stays within MaxTotalPrio, and the q_prio
\* fields that pth_pqueue_deltk rewrites stay within -MaxPrio..MaxPrio.
LotteryBound ==
  /\ pq.total_prio <= MaxTotalPrio
  /\ \A t \in Threads : pq.q_prio[t] \in -MaxPrio..MaxPrio

(***************************************************************************)
(* Properties.                                                             *)
(***************************************************************************)

\* Spec 4.1: removeByLotteryNumber unlinks the winner "exactly as in
\* removeMax/remove", so the decoded queue loses the winner and nothing
\* else: the lottery layer still implements the abstract priority queue.
LotteryRefinement == Abs!Spec

\* The ticket ranges issue_tk hands out cover every draw below total_tk,
\* so pth_pqueue_deltk's search always finds a winner and never returns
\* its uninitialised t: checked for every draw class of every epoch.
DrawAlwaysHasWinner ==
  [][Epoch /\ total_tk' > 0 /\ pq.q_num > 1 =>
       \A n \in Draws([num |-> tk_num', offset |-> tk_offset', total |-> total_tk']) :
          HasTkWinner(pq, [num |-> tk_num', offset |-> tk_offset',
                           total |-> total_tk'], n)]_allvars

\* calc_target divides 100 by the cached total_prio.  delmax, delete and
\* favour never subtract from it and deltk subtracts only the winner's
\* weight, so it drifts, but only upward: it never falls below the sum of
\* (prio + 1) over the queued threads.  Hence the division is never by
\* zero while a thread is queued, and no member's target exceeds its
\* proportional share, across any mix of epochs and queue operations.
WeightNeverUndercounts ==
  pq.total_prio >= SumFunctionOnSet(Prio, queued) + Cardinality(queued)
=============================================================================
