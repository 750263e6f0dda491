----------------------------- MODULE MC_Lottery -----------------------------
(* Three threads, two of equal static priority. *)
EXTENDS Lottery, TLC

CONSTANTS t1, t2, t3

MC_Threads == {t1, t2, t3}
MC_Prio == (t1 :> 0) @@ (t2 :> 1) @@ (t3 :> 1)

\* Every epoch recomputes the lottery fields of all members from the queue
\* alone (ActualPcts holds the initial 0, so the skipped update reads
\* nothing new), so states that differ only in them are identified.
QueueView == <<pq, queued>>
=============================================================================
