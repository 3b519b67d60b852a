-------------------------- MODULE MCCrawlLifecycle --------------------------
(***************************************************************************)
(* Instances of CrawlLifecycle.  Of two postings on board t1 one can stay  *)
(* while the other goes.                                                   *)
(***************************************************************************)
EXTENDS CrawlLifecycle, TLC

CONSTANTS t1, t2, j1, j2, j3, s1, s2

BoardOf == (j1 :> t1) @@ (j2 :> t1) @@ (j3 :> t2)

\* One posting on each board.
OneEachOf == (j1 :> t1) @@ (j3 :> t2)

\* Bookkeeping rows of earlier nights are read by nothing: every query of the
\* night filters on its orchestration_run_id.
TonightOnly ==
    <<row, SubSeq(runs, nightStart + 1, Len(runs)),
      {tr \in tenantRuns : tr.run > nightStart},
      sweep, queue, verdicts, child, night, nightStart, attempt, phase, cutoff, faults>>

\* The two postings of t1 are interchangeable.
Symmetry == Permutations({j1, j2})

\* So are the slots of the thread pool.
ParallelSymmetry == Symmetry \cup Permutations({s1, s2})

=============================================================================
