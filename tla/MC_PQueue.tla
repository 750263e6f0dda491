------------------------------ MODULE MC_PQueue ------------------------------
(* Four threads, two of equal static priority so that ties are exercised. *)
EXTENDS PQueue, TLC

CONSTANTS t1, t2, t3, t4

MC_Threads == {t1, t2, t3, t4}
MC_Prio == (t1 :> 0) @@ (t2 :> 1) @@ (t3 :> 1) @@ (t4 :> 2)

\* total_prio only grows under delmax/delete/favourite (see the
\* TotalPrioConsistent run); the list properties do not read it, so states
\* that differ only in it are identified.
ListView == <<[pq EXCEPT !.total_prio = 0], queued>>
=============================================================================
