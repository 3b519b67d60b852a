---------------------------- MODULE HarvestProofs ----------------------------
(***************************************************************************)
(* What the outcome ledger guarantees for every set of tenants, every set  *)
(* of reported counts and every number of reports; and what every source   *)
(* harvester's report of a board is worth, for boards of any number of     *)
(* pages, any number of search terms and any size of Workday's window.     *)
(***************************************************************************)
EXTENDS Harvest, FiniteSetTheorems, TLAPS

-----------------------------------------------------------------------------
\* The ledger.

\* The reports the two recording functions can build.
Reports == {SuccessReport(n) : n \in Nat} \cup {FailureReport(b) : b \in BOOLEAN}

\* Well-formed reports and outcomes: the job count and the status agree, which
\* is what lets one merged count stand for a set of reports.
Agrees(r) ==
    /\ r \in Outcome
    /\ r.status = "complete_nonzero" => r.jobs > 0
    /\ r.status = "complete_zero" => r.jobs = 0
    /\ r.status = "failed" => r.jobs = 0

\* The inductive invariant: besides the verdict, the merged count is positive
\* exactly when some report's is.
LedgerInv ==
    /\ LedgerTypeOK
    /\ OrderInsensitive
    /\ \A t \in Tenants :
         /\ \A r \in aux_reports[t] : Agrees(r)
         /\ outcomes[t] # Absent => outcomes[t] \in Outcome
         /\ outcomes[t] # Absent =>
              (outcomes[t].jobs > 0 <=> \E r \in aux_reports[t] : r.jobs > 0)

\* Every report the harvesters can make is well formed (record_success clamps
\* the count at zero, record_failure carries none).
LEMMA ReportsAgree ==
    ASSUME NEW r \in Reports PROVE Agrees(r) /\ r # Absent
<1>1. CASE \E n \in Nat : r = SuccessReport(n)
  BY <1>1 DEF SuccessReport, Agrees, Outcome, Status, CleanStatus, Absent
<1>2. CASE \E b \in BOOLEAN : r = FailureReport(b)
  BY <1>2 DEF FailureReport, Agrees, Outcome, Status, CleanStatus, Absent
<1> QED BY <1>1, <1>2 DEF Reports

\* A merge of outcomes is an outcome with the larger count (_merge).
LEMMA MergeType ==
    ASSUME NEW cur \in Outcome \cup {Absent}, NEW inc \in Outcome
    PROVE  /\ Merge(cur, inc) \in Outcome
           /\ cur # Absent => /\ Merge(cur, inc).status = MergedStatus(cur, inc)
                              /\ Merge(cur, inc).jobs = Larger(cur.jobs, inc.jobs)
<1>1. cur # Absent => cur \in Outcome
  OBVIOUS
<1>2. MergedStatus(cur, inc) \in Status
  BY DEF MergedStatus, Status, CleanStatus
<1> QED BY <1>1, <1>2 DEF Merge, Larger, Outcome

\* One report moves the verdict of the set exactly as the merge moves the
\* stored status: the heart of order insensitivity.
LEMMA MergeMatchesVerdict ==
    ASSUME NEW R \in SUBSET Outcome, NEW cur \in Outcome \cup {Absent}, NEW inc \in Outcome,
           \A r \in R : Agrees(r), Agrees(inc),
           cur.status = Verdict(R),
           cur # Absent => (cur.jobs > 0 <=> \E r \in R : r.jobs > 0)
    PROVE  Merge(cur, inc).status = Verdict(R \cup {inc})
<1> DEFINE failed(S) == \E r \in S : r.status = "failed"
           torn(S) == \E r \in S : r.status = "partial_failure"
           clean(S) == \E r \in S : r.status \in CleanStatus
           some(S) == \E r \in S : r.jobs > 0
           S == R \cup {inc}
<1>1. /\ failed(S) <=> failed(R) \/ inc.status = "failed"
      /\ torn(S) <=> torn(R) \/ inc.status = "partial_failure"
      /\ clean(S) <=> clean(R) \/ inc.status \in CleanStatus
      /\ some(S) <=> some(R) \/ inc.jobs > 0
  OBVIOUS
<1>2. inc.status \in Status /\ inc.jobs \in Nat
  BY DEF Outcome
<1>3. CASE R = {}
  <2>1. cur = Absent
    BY <1>3 DEF Verdict, Absent, Outcome, Status, CleanStatus
  <2>2. Merge(cur, inc).status = inc.status
    BY <2>1 DEF Merge
  <2>3. CASE inc.status = "failed"
    BY <1>3, <2>2, <2>3 DEF Verdict, CleanStatus
  <2>4. CASE inc.status = "partial_failure"
    BY <1>3, <2>2, <2>4 DEF Verdict, CleanStatus
  <2>5. CASE inc.status \in CleanStatus
    BY <1>2, <1>3, <2>2, <2>5 DEF Verdict, CleanStatus, Agrees
  <2> QED BY <1>2, <2>3, <2>4, <2>5 DEF Status
<1>4. CASE R # {}
  <2>1. \A r \in R : r.status \in Status
    BY DEF Outcome
  <2>2. failed(R) \/ torn(R) \/ clean(R)
    BY <1>4, <2>1 DEF Status
  <2>3. /\ cur.status = "partial_failure" <=> torn(R) \/ (failed(R) /\ clean(R))
        /\ cur.status = "failed" <=> failed(R) /\ ~torn(R) /\ ~clean(R)
        /\ cur.status \in CleanStatus <=> ~failed(R) /\ ~torn(R)
        /\ cur.status # "absent"
    BY <1>4, <2>2 DEF Verdict, CleanStatus
  <2>4. cur # Absent /\ cur \in Outcome
    BY <2>3 DEF Absent
  <2>5. /\ Merge(cur, inc).status = MergedStatus(cur, inc)
        /\ cur.jobs > 0 <=> some(R)
    BY <2>4, MergeType
  <2>6. Larger(cur.jobs, inc.jobs) > 0 <=> some(S)
    BY <1>1, <1>2, <2>4, <2>5 DEF Larger, Outcome
  <2>7. S # {}
    OBVIOUS
  <2>8. CASE torn(S) \/ (failed(S) /\ clean(S))
    <3>1. Verdict(S) = "partial_failure"
      BY <2>7, <2>8 DEF Verdict
    <3>2. MergedStatus(cur, inc) = "partial_failure"
      BY <1>1, <1>2, <2>1, <2>2, <2>3, <2>8 DEF MergedStatus, CleanStatus, Status
    <3> QED BY <2>5, <3>1, <3>2
  <2>9. CASE failed(S) /\ ~torn(S) /\ ~clean(S)
    <3>1. Verdict(S) = "failed"
      BY <2>7, <2>9 DEF Verdict
    <3>2. cur.status = "failed" /\ inc.status = "failed"
      BY <1>1, <1>2, <2>2, <2>3, <2>9 DEF Status
    <3> QED BY <2>5, <3>1, <3>2 DEF MergedStatus
  <2>10. CASE ~failed(S) /\ ~torn(S)
    <3>1. Verdict(S) = IF some(S) THEN "complete_nonzero" ELSE "complete_zero"
      BY <2>7, <2>10 DEF Verdict
    <3>2. cur.status \in CleanStatus /\ inc.status \in CleanStatus
      BY <1>1, <1>2, <2>3, <2>10 DEF Status
    <3>3. MergedStatus(cur, inc) = IF some(S) THEN "complete_nonzero" ELSE "complete_zero"
      BY <2>6, <3>2 DEF MergedStatus, CleanStatus
    <3> QED BY <2>5, <3>1, <3>3
  <2> QED BY <2>8, <2>9, <2>10
<1> QED BY <1>3, <1>4

LEMMA InitLedgerInv == LedgerInit => LedgerInv
  BY DEF LedgerInit, LedgerInv, LedgerTypeOK, OrderInsensitive, Verdict, Absent

\* Recording one report keeps the invariant.
LEMMA RecordLedgerInv ==
    ASSUME LedgerInv, NEW t \in Tenants, NEW report \in Reports, Record(t, report)
    PROVE  LedgerInv'
<1>1. Agrees(report) /\ report \in Outcome /\ report # Absent
  BY ReportsAgree DEF Agrees
<1>2. outcomes[t] \in Outcome \cup {Absent} /\ aux_reports[t] \in SUBSET Outcome
  BY DEF LedgerInv, LedgerTypeOK
<1>3. /\ outcomes'[t] = Merge(outcomes[t], report)
      /\ aux_reports'[t] = aux_reports[t] \cup {report}
      /\ \A u \in Tenants \ {t} : /\ outcomes'[u] = outcomes[u]
                                  /\ aux_reports'[u] = aux_reports[u]
  BY DEF Record, LedgerInv, LedgerTypeOK
<1>4. Merge(outcomes[t], report) \in Outcome
  BY <1>1, <1>2, MergeType
<1>5. LedgerTypeOK'
  BY <1>1, <1>4 DEF Record, LedgerInv, LedgerTypeOK
<1>6. outcomes'[t].status = Verdict(aux_reports'[t])
  <2>1. /\ outcomes[t].status = Verdict(aux_reports[t])
        /\ \A r \in aux_reports[t] : Agrees(r)
        /\ outcomes[t] # Absent =>
             (outcomes[t].jobs > 0 <=> \E r \in aux_reports[t] : r.jobs > 0)
    BY DEF LedgerInv, OrderInsensitive
  <2> QED BY <1>1, <1>2, <1>3, <2>1, MergeMatchesVerdict
<1>7. OrderInsensitive'
  <2> SUFFICES ASSUME NEW u \in Tenants
               PROVE  outcomes'[u].status = Verdict(aux_reports'[u])
    BY DEF OrderInsensitive, Verdict
  <2>1. CASE u = t BY <2>1, <1>6
  <2>2. CASE u # t BY <2>2, <1>3 DEF LedgerInv, OrderInsensitive
  <2> QED BY <2>1, <2>2
<1>8. outcomes'[t].jobs > 0 <=> \E r \in aux_reports'[t] : r.jobs > 0
  <2>1. CASE outcomes[t] = Absent
    <3>1. aux_reports[t] = {}
      <4>1. Verdict(aux_reports[t]) = "absent"
        BY <2>1 DEF LedgerInv, OrderInsensitive, Absent
      <4> QED BY <4>1 DEF Verdict
    <3> QED BY <1>3, <2>1, <3>1 DEF Merge
  <2>2. CASE outcomes[t] # Absent
    <3>1. outcomes'[t].jobs = Larger(outcomes[t].jobs, report.jobs)
      BY <1>1, <1>2, <1>3, <2>2, MergeType
    <3>2. outcomes[t].jobs > 0 <=> \E r \in aux_reports[t] : r.jobs > 0
      BY <2>2 DEF LedgerInv
    <3>3. outcomes[t].jobs \in Nat /\ report.jobs \in Nat
      BY <1>1, <1>2, <2>2 DEF Outcome
    <3> QED BY <1>3, <3>1, <3>2, <3>3 DEF Larger
  <2> QED BY <2>1, <2>2
<1> QED BY <1>1, <1>3, <1>4, <1>5, <1>7, <1>8 DEF LedgerInv

\* A report never makes a failed or partial outcome clean.
LEMMA RecordSticks ==
    ASSUME LedgerInv, NEW t \in Tenants, NEW u \in Tenants, NEW report \in Reports,
           Record(u, report), outcomes[t].status \in {"failed", "partial_failure"}
    PROVE  outcomes'[t].status \in {"failed", "partial_failure"}
<1>1. CASE u # t
  BY <1>1 DEF Record, LedgerInv, LedgerTypeOK
<1>2. CASE u = t
  <2>1. outcomes[t] \in Outcome /\ outcomes[t] # Absent
    BY DEF LedgerInv, Absent
  <2>2. report \in Outcome
    BY ReportsAgree DEF Agrees
  <2>3. outcomes'[t].status = MergedStatus(outcomes[t], report)
    <3>1. outcomes'[t] = Merge(outcomes[t], report)
      BY <1>2 DEF Record, LedgerInv, LedgerTypeOK
    <3> QED BY <2>1, <2>2, <3>1, MergeType
  <2>4. report.status \in Status
    BY <2>2 DEF Outcome
  <2> QED BY <2>3, <2>4 DEF MergedStatus, CleanStatus, Status
<1> QED BY <1>1, <1>2

\* What a step of any process does to the ledger: one report, a reset, nothing.
Moves ==
    \/ \E t \in Tenants, report \in Reports : Record(t, report)
    \/ Reset
    \/ UNCHANGED ledger

LEMMA MovesLedgerInv == ASSUME LedgerInv, Moves PROVE LedgerInv'
<1>1. CASE \E t \in Tenants, report \in Reports : Record(t, report)
  BY <1>1, RecordLedgerInv
<1>2. CASE Reset
  BY <1>2 DEF Reset, LedgerInv, LedgerTypeOK, OrderInsensitive, Verdict, Absent
<1>3. CASE UNCHANGED ledger
  BY <1>3 DEF ledger, LedgerInv, LedgerTypeOK, OrderInsensitive, Verdict
<1> QED BY <1>1, <1>2, <1>3 DEF Moves

LEMMA MovesStick ==
    ASSUME LedgerInv, Moves, NEW t \in Tenants,
           outcomes[t].status \in {"failed", "partial_failure"}
    PROVE  outcomes'[t].status \notin CleanStatus
<1>1. CASE \E u \in Tenants, report \in Reports : Record(u, report)
  BY <1>1, RecordSticks DEF CleanStatus
<1>2. CASE Reset
  BY <1>2 DEF Reset, Absent, CleanStatus
<1>3. CASE UNCHANGED ledger
  BY <1>3 DEF ledger, CleanStatus
<1> QED BY <1>1, <1>2, <1>3 DEF Moves

LEMMA LedgerNextMoves == [LedgerNext]_ledger => Moves
<1>1. ASSUME NEW t \in Tenants, NEW n \in Counts, RecordSuccess(t, n) PROVE Moves
  <2>1. SuccessReport(n) \in Reports /\ Record(t, SuccessReport(n))
    BY <1>1, CountsAssumption DEF Reports, RecordSuccess
  <2> QED BY <2>1 DEF Moves
<1>2. ASSUME NEW t \in Tenants, NEW b \in BOOLEAN, RecordFailure(t, b) PROVE Moves
  <2>1. FailureReport(b) \in Reports /\ Record(t, FailureReport(b))
    BY <1>2 DEF Reports, RecordFailure
  <2> QED BY <2>1 DEF Moves
<1> QED BY <1>1, <1>2 DEF LedgerNext, Moves

LEMMA NextLedgerInv == LedgerInv /\ [LedgerNext]_ledger => LedgerInv'
  BY LedgerNextMoves, MovesLedgerInv

\* Every stored outcome has a status the tenant table accepts.
THEOREM LedgerTypeCorrect == LedgerSpec => []LedgerTypeOK
<1>1. LedgerInv => LedgerTypeOK
  BY DEF LedgerInv
<1> QED BY InitLedgerInv, NextLedgerInv, <1>1, PTL DEF LedgerSpec

\* The stored status of a tenant depends only on which reports it received,
\* never on the order in which the fetch threads delivered them.
THEOREM OrderDoesNotMatter == LedgerSpec => []OrderInsensitive
<1>1. LedgerInv => OrderInsensitive
  BY DEF LedgerInv
<1> QED BY InitLedgerInv, NextLedgerInv, <1>1, PTL DEF LedgerSpec

\* No later success makes a failed or partial tenant clean again.
THEOREM FailuresAreSticky == LedgerSpec => FailureSticks
<1>1. LedgerInv /\ [LedgerNext]_ledger =>
        (\A t \in Tenants : outcomes[t].status \in {"failed", "partial_failure"}
                              => outcomes'[t].status \notin CleanStatus)
  BY LedgerNextMoves, MovesStick
<1> QED BY InitLedgerInv, NextLedgerInv, <1>1, PTL DEF LedgerSpec, FailureSticks
-----------------------------------------------------------------------------
\* The board.

\* What the ledger holds for the board and, of Workable, for the search: an
\* outcome at all, a bad one, one without a posting.
Told == outcome # Absent
Bad == outcome.status \in {"failed", "partial_failure"}
Jobless == outcome.jobs = 0
Searches == global # Absent

\* Those of a set of postings that lie before a page of a term.
Passed(postings, t, n) == {p \in postings : p[1] < t \/ (p[1] = t /\ p[2] < n)}

\* The types of the fetch itself.
FetchTypeOK ==
    /\ kind \in Kinds /\ size \in 0..MaxPages /\ large \in BOOLEAN
    /\ large => kind = "workday" /\ size > 0
    /\ pc \in {"start", "open", "close", "list", "parse", "pages", "terms", "detail", "report", "second", "done", "dead"}
    /\ read \subseteq Postings /\ asked \subseteq read /\ out \subseteq Postings /\ stub \subseteq Postings
    /\ facets \subseteq 0..(size - 1)
    /\ partial \in BOOLEAN /\ alive \in BOOLEAN /\ aux_fault \in BOOLEAN

\* Nothing that makes a board partial, or its outcome bad, goes unnoticed.
FaultInv == (partial \/ Bad) => aux_fault

\* greenhouse, lever, ashby: the board is reported as soon as it is read.
WholeKinds == {"greenhouse", "lever", "ashby"}
WholeInv ==
    /\ pc \in {"start", "list", "parse", "done", "dead"}
    /\ pc = "parse" => read = Postings /\ Told
    /\ pc = "done" => Told /\ (kind # "ashby" /\ ~Bad => out = Postings)

\* smartrecruiters: while nothing is missing, all passed postings are emitted.
SmartInv ==
    /\ pc \in {"start", "list", "detail", "report", "done", "dead"}
    /\ \E n \in 0..size :
         /\ at = <<1, n>>
         /\ pc = "detail" => n < size
         /\ pc = "report" => n = size
         /\ pc \in {"start", "list", "detail", "report"} /\ ~Bad => out = Passed(Postings, 1, n)
    /\ partial => Bad
    /\ pc = "done" => Told /\ (~Bad => out = Postings)

\* workday: each detail asked for left a posting or a stub, and no count is
\* reported before the details.
WorkdayInv ==
    /\ pc \in {"start", "list", "pages", "terms", "detail", "report", "done", "dead"}
    /\ pc \in {"start", "list", "pages", "terms"} => asked = {} /\ Emitted = {}
    /\ pc = "pages" => \E n \in 0..size : at = <<1, n>>
    /\ pc = "detail" => Emitted = asked
    /\ pc \notin {"report", "done", "dead"} => Jobless
    /\ pc = "report" => partial /\ Told /\ read = Emitted
    /\ pc = "done" => Told /\ (Jobless \/ read = Emitted)

\* amazon, eightfold: the flags tell whether a page was lost, and whether one
\* was read.
PagedKinds == {"amazon", "eightfold"}
PagedInv ==
    /\ pc \in {"start", "list", "report", "second", "done", "dead"}
    /\ pc \in {"start", "list"} =>
         \E t \in Terms, n \in 0..size :
           /\ at = <<t, n>>
           /\ ~partial => Passed(Postings, t, n) \subseteq Emitted
           /\ alive \/ partial \/ (t = 1 /\ n = 0)
    /\ pc \in {"report", "second", "done"} =>
         (alive \/ partial) /\ (partial \/ Emitted = Postings)
    /\ pc = "second" => IF kind = "amazon" THEN alive => Told ELSE partial => Bad
    /\ pc = "done" => Told /\ (partial => Bad)

\* icims, taleo
HtmlKinds == {"icims", "taleo"}
HtmlInv ==
    /\ pc \in {"start", "list", "report", "done", "dead"}
    /\ pc = "done" => Told

\* jobvite, bamboohr: Jobvite marks the board when a detail is missing.
DetailKinds == {"jobvite", "bamboohr"}
DetailInv ==
    /\ pc \in {"start", "list", "detail", "second", "done", "dead"}
    /\ pc \in {"start", "list"} => asked = {} /\ out = {}
    /\ pc \in {"detail", "second"} => read = Postings
    /\ kind = "jobvite" /\ ~partial => out = asked
    /\ pc = "second" => kind = "jobvite" /\ asked = read /\ (partial => Bad)
    /\ pc = "done" => Told /\ (kind = "jobvite" /\ ~Bad => out = Postings)

\* workable: without a fault, every term that was searched found postings.
WorkableInv ==
    /\ pc \in {"list", "report", "second", "done"}
    /\ pc = "list" => at[1] \in Terms
    /\ aux_fault \/ size = 0 \/ out # {} \/ (pc = "list" /\ at[1] = 1)
    /\ pc \in {"second", "done"} /\ out # {} => Told
    /\ pc = "done" => Searches

\* employer_feed: a bad row marks the feed until its outcome is bad.
FeedInv ==
    /\ pc \in {"start", "open", "list", "detail", "second", "close", "done", "dead"}
    /\ pc \in {"start", "open", "list"} => asked = {} /\ out = {}
    /\ pc \in {"detail", "second"} => read = Postings
    /\ pc = "detail" /\ ~partial => out = asked
    /\ pc = "second" => partial /\ Told
    /\ pc \in {"close", "done"} => Told /\ (~Bad => out = Postings)

\* One invariant for the control of each family of sources.
KindInv ==
    /\ kind \in WholeKinds => WholeInv
    /\ kind = "smartrecruiters" => SmartInv
    /\ kind = "workday" => WorkdayInv
    /\ kind \in PagedKinds => PagedInv
    /\ kind \in HtmlKinds => HtmlInv
    /\ kind \in DetailKinds => DetailInv
    /\ kind = "workable" => WorkableInv
    /\ kind = "employer_feed" => FeedInv

FetchInv == FetchTypeOK /\ FaultInv /\ KindInv

\* What a step has to keep: the fetch, and the ledger by one of its moves.
Kept == Moves /\ FetchInv'

-----------------------------------------------------------------------------
\* What a report of a board does to its outcome.

LEMMA SuccessEffect ==
    ASSUME LedgerInv, NEW n \in Nat, Success(n)
    PROVE  /\ Moves /\ Told' /\ (Bad' <=> Bad) /\ (Jobless /\ n = 0 => Jobless')
           /\ (Searches' <=> Searches)
<1>1. SuccessReport(n) \in Reports /\ Record("board", SuccessReport(n))
  BY DEF Reports, Success, RecordSuccess
<1>2. "board" \in Tenants /\ "global-search" \in Tenants
  BY TenantsAssumption
<1>3. Moves
  BY <1>1, <1>2 DEF Moves
<1>4. outcome' = Merge(outcome, SuccessReport(n)) /\ global' = global
  BY <1>1, <1>2 DEF Record, LedgerInv, LedgerTypeOK, outcome, global
<1>5. outcome \in Outcome \cup {Absent} /\ SuccessReport(n) \in Outcome
  BY <1>1, <1>2, ReportsAgree DEF LedgerInv, LedgerTypeOK, outcome, Agrees
<1>6. Merge(outcome, SuccessReport(n)) \in Outcome
  BY <1>5, MergeType
<1>7. Told' /\ (Searches' <=> Searches)
  BY <1>4, <1>6 DEF Told, Searches, Absent, Outcome, Status, CleanStatus
<1>8. CASE outcome = Absent
  <2>1. outcome' = SuccessReport(n)
    BY <1>4, <1>8 DEF Merge
  <2>2. ~Bad /\ ~Bad'
    BY <1>8, <2>1 DEF Bad, Absent, SuccessReport
  <2>3. n = 0 => Jobless'
    BY <2>1 DEF Jobless, SuccessReport
  <2> QED BY <1>3, <1>7, <2>2, <2>3
<1>9. CASE outcome # Absent
  <2>1. outcome'.status = MergedStatus(outcome, SuccessReport(n))
    BY <1>4, <1>5, <1>9, MergeType
  <2>2. outcome'.jobs = Larger(outcome.jobs, n)
    BY <1>4, <1>5, <1>9, MergeType DEF SuccessReport
  <2>3. outcome.status \in Status /\ SuccessReport(n).status \in CleanStatus
    BY <1>5, <1>9 DEF Outcome, SuccessReport, CleanStatus
  <2>4. Bad' <=> Bad
    BY <2>1, <2>3 DEF MergedStatus, Bad, Status, CleanStatus
  <2>5. Jobless /\ n = 0 => Jobless'
    BY <2>2 DEF Jobless, Larger
  <2> QED BY <1>3, <1>7, <2>4, <2>5
<1> QED BY <1>8, <1>9

LEMMA FailureEffect ==
    ASSUME LedgerInv, NEW some \in BOOLEAN, Failure(some)
    PROVE  Moves /\ Told' /\ Bad' /\ (Jobless => Jobless') /\ (Searches' <=> Searches)
<1>1. FailureReport(some) \in Reports /\ Record("board", FailureReport(some))
  BY DEF Reports, Failure, RecordFailure
<1>2. "board" \in Tenants /\ "global-search" \in Tenants
  BY TenantsAssumption
<1>3. Moves
  BY <1>1, <1>2 DEF Moves
<1>4. outcome' = Merge(outcome, FailureReport(some)) /\ global' = global
  BY <1>1, <1>2 DEF Record, LedgerInv, LedgerTypeOK, outcome, global
<1>5. outcome \in Outcome \cup {Absent} /\ FailureReport(some) \in Outcome
  BY <1>1, <1>2, ReportsAgree DEF LedgerInv, LedgerTypeOK, outcome, Agrees
<1>6. Merge(outcome, FailureReport(some)) \in Outcome
  BY <1>5, MergeType
<1>7. Told' /\ (Searches' <=> Searches)
  BY <1>4, <1>6 DEF Told, Searches, Absent, Outcome, Status, CleanStatus
<1>8. CASE outcome = Absent
  <2>1. outcome' = FailureReport(some)
    BY <1>4, <1>8 DEF Merge
  <2>2. Bad' /\ Jobless'
    BY <2>1 DEF Bad, Jobless, FailureReport
  <2> QED BY <1>3, <1>7, <2>2
<1>9. CASE outcome # Absent
  <2>1. outcome'.status = MergedStatus(outcome, FailureReport(some))
    BY <1>4, <1>5, <1>9, MergeType
  <2>2. outcome'.jobs = Larger(outcome.jobs, 0)
    BY <1>4, <1>5, <1>9, MergeType DEF FailureReport
  <2>3. FailureReport(some).status \in {"failed", "partial_failure"}
    BY DEF FailureReport
  <2>4. Bad'
    BY <2>1, <2>3 DEF MergedStatus, Bad
  <2>5. Jobless => Jobless'
    BY <2>2 DEF Jobless, Larger
  <2> QED BY <1>3, <1>7, <2>4, <2>5
<1> QED BY <1>8, <1>9

\* A charge to global-search leaves the outcome of the board.
LEMMA GlobalEffect ==
    ASSUME LedgerInv, NEW report \in Reports, Record("global-search", report)
    PROVE  Moves /\ (Told' <=> Told) /\ (Bad' <=> Bad) /\ (Jobless' <=> Jobless) /\ Searches'
<1>1. "board" \in Tenants /\ "global-search" \in Tenants
  BY TenantsAssumption
<1>2. global' = Merge(global, report) /\ outcome' = outcome
  BY <1>1 DEF Record, LedgerInv, LedgerTypeOK, outcome, global
<1>3. Merge(global, report) \in Outcome
  BY <1>1, ReportsAgree, MergeType DEF LedgerInv, LedgerTypeOK, global, Agrees
<1>4. Searches'
  BY <1>2, <1>3 DEF Searches, Absent, Outcome, Status, CleanStatus
<1> QED BY <1>1, <1>2, <1>4 DEF Moves, Told, Bad, Jobless

LEMMA SilentEffect ==
    ASSUME Silent
    PROVE  /\ Moves /\ (Told' <=> Told) /\ (Bad' <=> Bad) /\ (Jobless' <=> Jobless)
           /\ (Searches' <=> Searches)
  BY DEF Silent, Moves, ledger, Told, Bad, Jobless, Searches, outcome, global

LEMMA NoOutcome ==
    ASSUME outcomes = [t \in Tenants |-> Absent]
    PROVE  ~Told /\ ~Bad /\ Jobless
  BY TenantsAssumption DEF Told, Bad, Jobless, outcome, Absent

-----------------------------------------------------------------------------
\* The postings of a board.

LEMMA TermsInterval == \E k \in Nat \ {0} : Terms = 1..k
<1>1. {1} = 1..1
  OBVIOUS
<1>2. CASE kind \in Searched \/ large
  BY <1>2, BoundsAssumption DEF Terms
<1>3. CASE ~(kind \in Searched \/ large)
  <2>1. Terms = 1..1
    BY <1>1, <1>3 DEF Terms
  <2> QED BY <2>1
<1> QED BY <1>2, <1>3

LEMMA PostingsFinite ==
    ASSUME FetchTypeOK
    PROVE  IsFiniteSet(Postings) /\ \A S \in SUBSET Postings : Cardinality(S) \in Nat
<1>1. IsFiniteSet(Terms)
  BY TermsInterval, FS_Interval
<1>2. IsFiniteSet(0..(size - 1))
  BY FS_Interval DEF FetchTypeOK
<1>3. IsFiniteSet(Postings)
  BY <1>1, <1>2, FS_Product DEF Postings
<1> QED BY <1>3, FS_Subset, FS_CardinalityType

\* A page of a term shows the posting that has just been passed.
LEMMA PassedNext ==
    ASSUME FetchTypeOK, NEW t \in Terms, NEW n \in 0..size
    PROVE  /\ Passed(Postings, t, n + 1) = Passed(Postings, t, n) \cup (Postings \cap {<<t, n>>})
           /\ n + 1 >= size =>
                Passed(Postings, t + 1, 0) = Passed(Postings, t, n) \cup (Postings \cap {<<t, n>>})
           /\ n + 1 >= size /\ t + 1 \notin Terms =>
                Postings = Passed(Postings, t, n) \cup (Postings \cap {<<t, n>>})
<1> PICK k \in Nat \ {0} : Terms = 1..k
  BY TermsInterval
<1>1. \A p \in Postings : p[1] \in 1..k /\ p[2] \in 0..(size - 1) /\ p = <<p[1], p[2]>>
  BY DEF Postings
<1>2. size \in Nat
  BY BoundsAssumption DEF FetchTypeOK
<1>3. \A p \in Postings : p = <<t, n>> <=> p[1] = t /\ p[2] = n
  BY <1>1
<1>4. Passed(Postings, t, n + 1) = Passed(Postings, t, n) \cup (Postings \cap {<<t, n>>})
  <2>1. \A p \in Postings : (p[1] < t \/ (p[1] = t /\ p[2] < n + 1))
                              <=> (p[1] < t \/ (p[1] = t /\ p[2] < n)) \/ p = <<t, n>>
    BY <1>1, <1>2, <1>3
  <2> QED BY <2>1 DEF Passed
<1>5. ASSUME n + 1 >= size
      PROVE  Passed(Postings, t + 1, 0) = Passed(Postings, t, n) \cup (Postings \cap {<<t, n>>})
  <2>1. \A p \in Postings : (p[1] < t + 1 \/ (p[1] = t + 1 /\ p[2] < 0))
                              <=> (p[1] < t \/ (p[1] = t /\ p[2] < n)) \/ p = <<t, n>>
    BY <1>1, <1>2, <1>3, <1>5
  <2> QED BY <2>1 DEF Passed
<1>6. ASSUME n + 1 >= size, t + 1 \notin Terms
      PROVE  Postings = Passed(Postings, t, n) \cup (Postings \cap {<<t, n>>})
  <2>1. \A p \in Postings : p[1] < t \/ (p[1] = t /\ p[2] < n) \/ p = <<t, n>>
    BY <1>1, <1>2, <1>3, <1>6
  <2> QED BY <2>1 DEF Passed
<1> QED BY <1>4, <1>5, <1>6

LEMMA PassedNothing == ASSUME FetchTypeOK PROVE Passed(Postings, 1, 0) = {}
<1>1. \A p \in Postings : p[1] \in Nat \ {0} /\ p[2] \in Nat
  BY TermsInterval DEF Postings
<1> QED BY <1>1 DEF Passed
LEMMA SameBoard ==
    ASSUME UNCHANGED board
    PROVE  Terms' = Terms /\ Postings' = Postings /\ kind' = kind /\ size' = size /\ large' = large
  BY DEF board, Terms, Postings

\* A step of one family of sources has nothing to show for the others.
LEMMA KeptByFamily ==
    ASSUME UNCHANGED board, Moves, FetchTypeOK', FaultInv',
           \/ kind \in WholeKinds /\ WholeInv'
           \/ kind = "smartrecruiters" /\ SmartInv'
           \/ kind = "workday" /\ WorkdayInv'
           \/ kind \in PagedKinds /\ PagedInv'
           \/ kind \in HtmlKinds /\ HtmlInv'
           \/ kind \in DetailKinds /\ DetailInv'
           \/ kind = "workable" /\ WorkableInv'
           \/ kind = "employer_feed" /\ FeedInv'
           \/ kind \in NoLedger
    PROVE  Kept
  BY DEF Kept, FetchInv, KindInv, board, WholeKinds, PagedKinds, HtmlKinds, DetailKinds, NoLedger

\* The list of boards: the fetch begins, or the process is over.
LEMMA LoadEffect ==
    ASSUME FetchInv, NEW label \in {"list", "open"}, Load(label)
    PROVE  /\ pc = "start" /\ pc' \in {label, "dead"}
           /\ UNCHANGED <<board, at, read, asked, out, stub, partial, alive>> /\ Silent
           /\ FetchTypeOK' /\ FaultInv'
<1>1. UNCHANGED board /\ Silent
  BY DEF Load, fixed, Silent
<1>2. FaultInv'
  BY <1>1, SilentEffect DEF Load, FetchInv, FaultInv, Fault, NoFault
<1>3. pc = "start" /\ pc' \in {label, "dead"} /\ UNCHANGED <<at, read, asked, out, stub, partial, alive>>
  BY DEF Load, Goto, fixed
<1>4. aux_fault' \in BOOLEAN /\ UNCHANGED facets
  BY DEF Load, FetchInv, FetchTypeOK, fixed, Fault, NoFault
<1>5. FetchTypeOK'
  BY <1>1, <1>3, <1>4, SameBoard DEF FetchInv, FetchTypeOK
<1> QED BY <1>1, <1>2, <1>3, <1>5

-----------------------------------------------------------------------------
\* greenhouse, lever, ashby

LEMMA WholeSteps ==
    ASSUME LedgerInv, FetchInv,
           LoadCompanies \/ GetBoard \/ ParseGreenhouse \/ ParseLever \/ ParseAshby
    PROVE  Kept
<1> USE DEF Goto, Fault, NoFault, fixed
<1>1. kind \in WholeKinds
  BY DEF LoadCompanies, GetBoard, ParseGreenhouse, ParseLever, ParseAshby, WholeKinds
<1>2. WholeInv /\ FetchTypeOK /\ FaultInv
  BY <1>1 DEF FetchInv, KindInv
<1>3. CASE LoadCompanies
  <2>1. Load("list")
    BY <1>3 DEF LoadCompanies
  <2>2. WholeInv'
    BY <2>1, <1>2, LoadEffect DEF WholeInv
  <2> QED BY <1>1, <2>1, <2>2, LoadEffect, SilentEffect, KeptByFamily
<1>4. CASE GetBoard
  <2>1. UNCHANGED board
    BY <1>4 DEF GetBoard
  <2>2. Cardinality(Postings) \in Nat
    BY <1>2, PostingsFinite
  <2>3. CASE Failure(FALSE) /\ pc' = "done" /\ aux_fault' = TRUE /\ UNCHANGED read
    <3>1. Moves /\ Told' /\ Bad'
      BY <2>3, FailureEffect
    <3>2. WholeInv'
      BY <2>3, <3>1 DEF WholeInv
    <3>3. FetchTypeOK'
      BY <1>2, <1>4, <2>1, <2>3, SameBoard DEF GetBoard, FetchTypeOK
    <3> QED BY <1>1, <2>1, <2>3, <3>1, <3>2, <3>3, KeptByFamily DEF FaultInv
  <2>4. CASE Success(Cardinality(Postings)) /\ pc' = "parse" /\ UNCHANGED aux_fault /\ read' = Postings
    <3>1. Moves /\ Told' /\ (Bad' <=> Bad)
      BY <2>2, <2>4, SuccessEffect
    <3>2. WholeInv'
      BY <2>1, <2>4, <3>1, SameBoard DEF WholeInv
    <3>3. FetchTypeOK'
      BY <1>2, <1>4, <2>1, <2>4, SameBoard DEF GetBoard, FetchTypeOK
    <3>4. FaultInv'
      BY <1>2, <1>4, <2>4, <3>1 DEF GetBoard, FaultInv
    <3> QED BY <1>1, <2>1, <3>1, <3>2, <3>3, <3>4, KeptByFamily
  <2> QED BY <1>4, <2>3, <2>4 DEF GetBoard
<1>5. CASE ParseGreenhouse \/ ParseLever \/ ParseAshby
  <2>1. PICK failed \in {"dead", "done"} : Parse(failed) /\ (failed = "dead" \/ kind = "ashby")
    BY <1>5 DEF ParseGreenhouse, ParseLever, ParseAshby, Uncaught
  <2>2. UNCHANGED board /\ Silent
    BY <2>1 DEF Parse, Silent
  <2>3. Moves /\ (Told' <=> Told) /\ (Bad' <=> Bad)
    BY <2>2, SilentEffect
  <2>4. pc = "parse" /\ read = Postings /\ Told
    BY <1>2, <2>1 DEF Parse, WholeInv
  <2>5. WholeInv'
    BY <2>1, <2>2, <2>3, <2>4, SameBoard DEF Parse, WholeInv
  <2>6. FetchTypeOK'
    <3>1. /\ aux_fault' \in BOOLEAN /\ out' \subseteq Postings /\ pc' \in {"done", "dead"}
          /\ UNCHANGED <<board, asked, read, stub, partial, alive, facets>>
      BY <1>2, <2>1, <2>4 DEF Parse, FetchTypeOK
    <3> QED BY <1>2, <3>1, SameBoard DEF FetchTypeOK
  <2>7. FaultInv'
    BY <1>2, <2>1, <2>3 DEF Parse, FaultInv
  <2> QED BY <1>1, <2>2, <2>3, <2>5, <2>6, <2>7, KeptByFamily
<1> QED BY <1>3, <1>4, <1>5

-----------------------------------------------------------------------------
\* smartrecruiters

LEMMA SmartSteps ==
    ASSUME LedgerInv, FetchInv, kind = "smartrecruiters",
           LoadRegistry \/ SmartDeadline \/ SmartBreaks \/ SmartPage \/ SmartDetail \/ SmartReport
    PROVE  Kept
<1> USE DEF Goto, Fault, NoFault, fixed
<1>1. SmartInv /\ FetchTypeOK /\ FaultInv
  BY DEF FetchInv, KindInv
<1>2. PICK n \in 0..size :
        /\ at = <<1, n>>
        /\ pc = "detail" => n < size
        /\ pc = "report" => n = size
        /\ pc \in {"start", "list", "detail", "report"} /\ ~Bad => out = Passed(Postings, 1, n)
  BY <1>1 DEF SmartInv
<1>3. size \in Nat /\ n \in Nat /\ at[1] = 1 /\ at[2] = n
  BY <1>1, <1>2, BoundsAssumption DEF FetchTypeOK
<1>4. Terms = {1}
  BY <1>1 DEF Terms, Searched, FetchTypeOK
<1>5. CASE LoadRegistry
  <2>1. Load("list")
    BY <1>5 DEF LoadRegistry
  <2>2. Moves /\ (Told' <=> Told) /\ (Bad' <=> Bad) /\ UNCHANGED board
    BY <2>1, LoadEffect, SilentEffect
  <2>3. SmartInv'
    BY <1>1, <1>2, <2>1, <2>2, LoadEffect, SameBoard DEF SmartInv
  <2> QED BY <2>1, <2>2, <2>3, LoadEffect, KeptByFamily
<1>6. CASE SmartDeadline \/ SmartBreaks
  <2>1. PICK some \in BOOLEAN : Failure(some)
    BY <1>6 DEF SmartDeadline, SmartBreaks
  <2>2. Moves /\ Told' /\ Bad'
    BY <2>1, FailureEffect
  <2>3. /\ UNCHANGED <<board, at, read, asked, stub, partial, alive, facets>>
        /\ pc' = "done" /\ aux_fault' = TRUE /\ out' \in {out, {}}
    BY <1>6 DEF SmartDeadline, SmartBreaks
  <2>4. SmartInv'
    BY <1>1, <1>2, <2>2, <2>3, SameBoard DEF SmartInv
  <2>5. FetchTypeOK'
    BY <1>1, <2>3, SameBoard DEF FetchTypeOK
  <2> QED BY <2>2, <2>3, <2>4, <2>5, KeptByFamily DEF FaultInv
<1>7. CASE SmartPage
  <2>1. UNCHANGED <<board, at, asked, out, stub, alive, facets>> /\ pc = "list"
    BY <1>7 DEF SmartPage
  <2>2. CASE Failure(at[2] > 0) /\ partial' = TRUE /\ pc' = "done" /\ aux_fault' = TRUE /\ UNCHANGED read
    <3>1. Moves /\ Told' /\ Bad'
      <4>1. (at[2] > 0) \in BOOLEAN
        BY <1>3
      <4> QED BY <2>2, <4>1, FailureEffect
    <3>2. SmartInv'
      BY <1>1, <1>2, <2>1, <2>2, <3>1, SameBoard DEF SmartInv
    <3>3. FetchTypeOK'
      BY <1>1, <2>1, <2>2, SameBoard DEF FetchTypeOK
    <3> QED BY <2>1, <2>2, <3>1, <3>2, <3>3, KeptByFamily DEF FaultInv
  <2>3. CASE /\ Silent /\ UNCHANGED <<aux_fault, partial>> /\ read' = read \cup Shown
             /\ pc' = IF at \in Postings THEN "detail" ELSE "report"
    <3>1. Moves /\ (Told' <=> Told) /\ (Bad' <=> Bad)
      BY <2>3, SilentEffect
    <3>2. at \in Postings <=> n < size
      BY <1>2, <1>3, <1>4 DEF Postings
    <3>3. (pc' = "detail" => n < size) /\ (pc' = "report" => n = size) /\ pc' \in {"detail", "report"}
      BY <1>3, <2>3, <3>2
    <3>4. SmartInv'
      BY <1>1, <1>2, <2>1, <2>3, <3>1, <3>3, SameBoard DEF SmartInv
    <3>5. FetchTypeOK'
      BY <1>1, <2>1, <2>3, <3>3, SameBoard DEF FetchTypeOK, Shown
    <3>6. FaultInv'
      BY <1>1, <2>3, <3>1 DEF FaultInv
    <3> QED BY <2>1, <3>1, <3>4, <3>5, <3>6, KeptByFamily
  <2> QED BY <1>7, <2>2, <2>3 DEF SmartPage
<1>8. CASE SmartDetail
  <2>1. UNCHANGED <<board, asked, read, stub, alive, facets>> /\ pc = "detail" /\ n < size
    BY <1>2, <1>8 DEF SmartDetail
  <2>2. /\ at' = <<1, n + 1>> /\ n + 1 \in 0..size /\ pc' \in {"list", "report"}
        /\ pc' = "report" => n + 1 = size
    BY <1>3, <1>8, <2>1 DEF SmartDetail, NextPage, Last
  <2>3. at \in Postings
    BY <1>2, <1>3, <1>4, <2>1 DEF Postings
  <2>4. Passed(Postings, 1, n + 1) = Passed(Postings, 1, n) \cup {at}
    BY <1>1, <1>2, <1>4, <2>3, PassedNext
  <2>5. CASE Silent /\ UNCHANGED <<aux_fault, partial>> /\ out' = out \cup {at}
    <3>1. Moves /\ (Told' <=> Told) /\ (Bad' <=> Bad)
      BY <2>5, SilentEffect
    <3>2. ~Bad' => out' = Passed(Postings, 1, n + 1)
      BY <1>2, <2>1, <2>4, <2>5, <3>1
    <3>3. SmartInv'
      BY <1>1, <2>1, <2>2, <2>5, <3>1, <3>2, SameBoard DEF SmartInv
    <3>4. FetchTypeOK'
      BY <1>1, <2>1, <2>2, <2>3, <2>5, SameBoard DEF FetchTypeOK
    <3>5. FaultInv'
      BY <1>1, <2>5, <3>1 DEF FaultInv
    <3> QED BY <2>1, <3>1, <3>3, <3>4, <3>5, KeptByFamily
  <2>6. CASE MissingDetail /\ aux_fault' = TRUE /\ UNCHANGED out
    <3>1. Moves /\ Told' /\ Bad' /\ partial' = TRUE
      BY <2>6, FailureEffect DEF MissingDetail
    <3>2. SmartInv'
      BY <1>1, <2>1, <2>2, <2>6, <3>1, SameBoard DEF SmartInv
    <3>3. FetchTypeOK'
      BY <1>1, <2>1, <2>2, <2>6, <3>1, SameBoard DEF FetchTypeOK
    <3> QED BY <2>1, <2>6, <3>1, <3>2, <3>3, KeptByFamily DEF FaultInv
  <2> QED BY <1>8, <2>5, <2>6 DEF SmartDetail
<1>9. CASE SmartReport
  <2>1. /\ UNCHANGED <<board, at, asked, read, out, stub, partial, alive, facets, aux_fault>>
        /\ pc = "report" /\ n = size /\ pc' = "done"
    BY <1>2, <1>9 DEF SmartReport
  <2>2. Moves /\ Told' /\ (Bad' <=> Bad)
    <3>1. CASE partial /\ Silent
      <4>1. Bad /\ Told
        BY <1>1, <3>1 DEF SmartInv, Bad, Told, Absent
      <4> QED BY <3>1, <4>1, SilentEffect
    <3>2. CASE Success(size)
      BY <1>3, <3>2, SuccessEffect
    <3> QED BY <1>9, <3>1, <3>2 DEF SmartReport
  <2>3. ~Bad => out = Postings
    <3>1. Postings \cap {<<1, size>>} = {}
      BY <1>3 DEF Postings
    <3>2. Postings = Passed(Postings, 1, size)
      BY <1>1, <1>3, <1>4, <2>1, <3>1, PassedNext
    <3> QED BY <1>2, <2>1, <3>2
  <2>4. SmartInv'
    BY <1>1, <1>2, <2>1, <2>2, <2>3, SameBoard DEF SmartInv
  <2>5. FetchTypeOK'
    BY <1>1, <2>1, SameBoard DEF FetchTypeOK
  <2>6. FaultInv'
    BY <1>1, <2>1, <2>2 DEF FaultInv
  <2> QED BY <2>1, <2>2, <2>4, <2>5, <2>6, KeptByFamily
<1> QED BY <1>5, <1>6, <1>7, <1>8, <1>9
-----------------------------------------------------------------------------
\* workday

\* Whatever a query and its partitions return is a set of postings of the term.
LEMMA QueriedPostings ==
    ASSUME FetchTypeOK, NEW t \in Terms, NEW got \in QueryPages(t),
           NEW more \in SUBSET SubPartitions(t, got)
    PROVE  got \cup more \subseteq Postings
<1>1. got \subseteq {t} \X (0..(size - 1))
  BY DEF QueryPages
<1>2. SubPartitions(t, got) \subseteq {t} \X (0..(size - 1))
  BY DEF SubPartitions, FetchTypeOK
<1> QED BY <1>1, <1>2 DEF Postings

LEMMA WorkdayListing ==
    ASSUME LedgerInv, FetchInv, kind = "workday",
           LoadWorkdayList \/ FirstPage \/ OtherPage \/ SearchTerm \/ ListingOver
    PROVE  Kept
<1> USE DEF Goto, Fault, NoFault, fixed
<1>1. WorkdayInv /\ FetchTypeOK /\ FaultInv
  BY DEF FetchInv, KindInv
<1>2. 1 \in Terms /\ size \in Nat
  BY <1>1, TermsInterval, BoundsAssumption DEF FetchTypeOK
<1>3. CASE LoadWorkdayList
  <2>1. Load("list")
    BY <1>3 DEF LoadWorkdayList
  <2>2. Moves /\ (Told' <=> Told) /\ (Jobless' <=> Jobless) /\ UNCHANGED board
    BY <2>1, LoadEffect, SilentEffect
  <2>3. WorkdayInv'
    BY <1>1, <2>1, <2>2, LoadEffect, SameBoard DEF WorkdayInv, Emitted
  <2> QED BY <2>1, <2>2, <2>3, LoadEffect, KeptByFamily
<1>4. CASE FirstPage
  <2>1. UNCHANGED <<board, asked, out, stub, partial, alive>> /\ pc = "list" /\ at' = <<1, 1>>
    BY <1>4 DEF FirstPage
  <2>2. asked = {} /\ Emitted = {} /\ Jobless
    BY <1>1, <2>1 DEF WorkdayInv
  <2>3. CASE /\ (Failure(FALSE) /\ aux_fault' = TRUE) \/ (Success(0) /\ UNCHANGED aux_fault)
             /\ pc' = "done" /\ UNCHANGED <<read, facets>>
    <3>1. Moves /\ Told' /\ Jobless' /\ (Bad' => aux_fault') /\ (aux_fault => aux_fault') /\ aux_fault' \in BOOLEAN
      <4>1. CASE Failure(FALSE) /\ aux_fault' = TRUE
        BY <2>2, <4>1, FailureEffect
      <4>2. CASE Success(0) /\ UNCHANGED aux_fault
        BY <1>1, <2>2, <4>2, SuccessEffect DEF FaultInv, FetchTypeOK
      <4> QED BY <2>3, <4>1, <4>2
    <3>2. WorkdayInv'
      BY <2>3, <3>1 DEF WorkdayInv
    <3>3. FetchTypeOK'
      BY <1>1, <2>1, <2>3, <3>1, SameBoard DEF FetchTypeOK
    <3>4. FaultInv'
      BY <1>1, <2>1, <3>1 DEF FaultInv
    <3> QED BY <2>1, <3>1, <3>2, <3>3, <3>4, KeptByFamily
  <2>4. CASE /\ size > 0 /\ Silent /\ UNCHANGED aux_fault /\ read' = {<<1, 0>>}
             /\ \/ pc' = "terms" /\ facets' \in LocationFacets
                \/ pc' = "pages" /\ UNCHANGED facets
    <3>1. Moves /\ (Told' <=> Told) /\ (Bad' <=> Bad) /\ (Jobless' <=> Jobless)
      BY <2>4, SilentEffect
    <3>2. Emitted' = {} /\ asked' = {}
      BY <2>1, <2>2 DEF Emitted
    <3>3. pc' = "pages" => \E n \in 0..size : at' = <<1, n>>
      BY <1>2, <2>1, <2>4
    <3>4. WorkdayInv'
      BY <2>1, <2>2, <2>4, <3>1, <3>2, <3>3, SameBoard DEF WorkdayInv
    <3>5. <<1, 0>> \in Postings
      BY <1>2, <2>4 DEF Postings
    <3>6. FetchTypeOK'
      BY <1>1, <2>1, <2>2, <2>4, <3>5, SameBoard DEF FetchTypeOK, LocationFacets
    <3>7. FaultInv'
      BY <1>1, <2>1, <2>4, <3>1 DEF FaultInv
    <3> QED BY <2>1, <3>1, <3>4, <3>6, <3>7, KeptByFamily
  <2> QED BY <1>4, <2>3, <2>4 DEF FirstPage
<1>5. CASE OtherPage
  <2>1. UNCHANGED <<board, asked, facets, pc, out, stub, alive>> /\ Silent /\ pc = "pages"
    BY <1>5 DEF OtherPage, Silent
  <2>2. PICK n \in 0..size : at = <<1, n>> /\ n < size
    BY <1>1, <1>5, <2>1 DEF WorkdayInv, OtherPage
  <2>3. at' = <<1, n + 1>> /\ n + 1 \in 0..size /\ at \in Postings
    BY <1>2, <1>5, <2>2 DEF OtherPage, NextPage, Postings
  <2>4. Moves /\ (Told' <=> Told) /\ (Bad' <=> Bad) /\ (Jobless' <=> Jobless)
    BY <2>1, SilentEffect
  <2>5. /\ read' \subseteq read \cup {at} /\ aux_fault' \in BOOLEAN /\ partial' \in BOOLEAN
        /\ (partial' => partial \/ aux_fault') /\ (aux_fault => aux_fault')
    <3>1. read' \subseteq read \cup {at}
      BY <1>5 DEF OtherPage
    <3>2. CASE UNCHANGED <<aux_fault, partial>>
      BY <1>1, <3>1, <3>2 DEF FetchTypeOK
    <3>3. CASE aux_fault' = TRUE /\ (partial' = TRUE \/ UNCHANGED partial)
      BY <1>1, <3>1, <3>3 DEF FetchTypeOK
    <3>4. UNCHANGED <<aux_fault, partial>> \/ (aux_fault' = TRUE /\ (partial' = TRUE \/ UNCHANGED partial))
      BY <1>5 DEF OtherPage
    <3> QED BY <3>2, <3>3, <3>4
  <2>6. asked = {} /\ Emitted = {} /\ Jobless
    BY <1>1, <2>1 DEF WorkdayInv
  <2>7. asked' = {} /\ Emitted' = {} /\ Jobless'
    BY <2>1, <2>4, <2>6 DEF Emitted
  <2>8. WorkdayInv'
    BY <2>1, <2>3, <2>7, SameBoard DEF WorkdayInv
  <2>9. FetchTypeOK'
    BY <1>1, <2>1, <2>3, <2>5, <2>6, SameBoard DEF FetchTypeOK
  <2>10. FaultInv'
    BY <1>1, <2>4, <2>5 DEF FaultInv
  <2> QED BY <2>1, <2>4, <2>8, <2>9, <2>10, KeptByFamily
<1>6. CASE SearchTerm
  <2>1. UNCHANGED <<board, asked, facets, pc, out, stub, alive>> /\ Silent /\ pc = "terms" /\ at[1] \in Terms
    BY <1>6 DEF SearchTerm, Silent
  <2>2. \E got \in QueryPages(at[1]) : \E more \in SUBSET SubPartitions(at[1], got) :
          /\ read' = read \cup got \cup more
          /\ \/ /\ aux_fault' = (aux_fault \/ got \cup more # {at[1]} \X (0..(size - 1)))
                /\ UNCHANGED partial
             \/ partial' = TRUE /\ aux_fault' = TRUE
    BY <1>6 DEF SearchTerm
  <2>3. read' \subseteq Postings
    BY <1>1, <2>1, <2>2, QueriedPostings DEF FetchTypeOK
  <2>4. Moves /\ (Told' <=> Told) /\ (Bad' <=> Bad) /\ (Jobless' <=> Jobless)
    BY <2>1, SilentEffect
  <2>5. aux_fault' \in BOOLEAN /\ partial' \in BOOLEAN /\ (partial' => partial \/ aux_fault')
        /\ (aux_fault => aux_fault')
    <3> PICK got \in QueryPages(at[1]) : \E more \in SUBSET SubPartitions(at[1], got) :
          \/ /\ aux_fault' = (aux_fault \/ got \cup more # {at[1]} \X (0..(size - 1)))
             /\ UNCHANGED partial
          \/ partial' = TRUE /\ aux_fault' = TRUE
      BY <2>2
    <3> PICK more \in SUBSET SubPartitions(at[1], got) :
          \/ /\ aux_fault' = (aux_fault \/ got \cup more # {at[1]} \X (0..(size - 1)))
             /\ UNCHANGED partial
          \/ partial' = TRUE /\ aux_fault' = TRUE
      OBVIOUS
    <3>1. CASE partial' = TRUE /\ aux_fault' = TRUE
      BY <3>1
    <3>2. CASE /\ aux_fault' = (aux_fault \/ got \cup more # {at[1]} \X (0..(size - 1)))
               /\ UNCHANGED partial
      BY <1>1, <3>2 DEF FetchTypeOK
    <3> QED BY <3>1, <3>2
  <2>6. asked = {} /\ Emitted = {} /\ Jobless
    BY <1>1, <2>1 DEF WorkdayInv
  <2>7. asked' = {} /\ Emitted' = {} /\ Jobless'
    BY <2>1, <2>4, <2>6 DEF Emitted
  <2>8. WorkdayInv'
    BY <2>1, <2>7, SameBoard DEF WorkdayInv
  <2>9. FetchTypeOK'
    BY <1>1, <2>1, <2>3, <2>5, <2>6, SameBoard DEF FetchTypeOK
  <2>10. FaultInv'
    BY <1>1, <2>4, <2>5 DEF FaultInv
  <2> QED BY <2>1, <2>4, <2>8, <2>9, <2>10, KeptByFamily
<1>7. CASE ListingOver
  <2>1. /\ UNCHANGED <<board, asked, at, read, out, stub, partial, alive, aux_fault>> /\ Silent
        /\ pc \in {"pages", "terms"} /\ pc' = "detail" /\ facets' = {}
    BY <1>7 DEF ListingOver, Silent
  <2>2. Moves /\ (Told' <=> Told) /\ (Bad' <=> Bad) /\ (Jobless' <=> Jobless)
    BY <2>1, SilentEffect
  <2>3. asked = {} /\ Emitted = {} /\ Jobless
    BY <1>1, <2>1 DEF WorkdayInv
  <2>4. WorkdayInv'
    BY <2>1, <2>2, <2>3 DEF WorkdayInv, Emitted
  <2>5. FetchTypeOK'
    BY <1>1, <2>1, SameBoard DEF FetchTypeOK
  <2>6. FaultInv'
    BY <1>1, <2>1, <2>2 DEF FaultInv
  <2> QED BY <2>1, <2>2, <2>4, <2>5, <2>6, KeptByFamily
<1> QED BY <1>3, <1>4, <1>5, <1>6, <1>7

LEMMA WorkdayEnd ==
    ASSUME LedgerInv, FetchInv, kind = "workday",
           WorkdaySuccess \/ WorkdayPartial \/ WorkdayTimeout \/ \E p \in read : WorkdayDetail(p)
    PROVE  Kept
<1> USE DEF Goto, Fault, NoFault, fixed
<1>1. WorkdayInv /\ FetchTypeOK /\ FaultInv
  BY DEF FetchInv, KindInv
<1>2. CASE WorkdaySuccess
  <2>1. /\ UNCHANGED <<board, asked, facets, at, read, out, stub, partial, alive, aux_fault>>
        /\ pc = "detail" /\ asked = read /\ Success(Cardinality(read))
        /\ pc' = IF partial THEN "report" ELSE "done"
    BY <1>2 DEF WorkdaySuccess
  <2>2. Cardinality(read) \in Nat
    BY <1>1, PostingsFinite DEF FetchTypeOK
  <2>3. Moves /\ Told' /\ (Bad' <=> Bad)
    BY <2>1, <2>2, SuccessEffect
  <2>4. read' = Emitted'
    BY <1>1, <2>1 DEF WorkdayInv, Emitted
  <2>5. WorkdayInv'
    BY <2>1, <2>3, <2>4 DEF WorkdayInv
  <2>6. FetchTypeOK'
    BY <1>1, <2>1, SameBoard DEF FetchTypeOK
  <2>7. FaultInv'
    BY <1>1, <2>1, <2>3 DEF FaultInv
  <2> QED BY <2>1, <2>3, <2>5, <2>6, <2>7, KeptByFamily
<1>3. CASE WorkdayPartial
  <2>1. /\ UNCHANGED <<board, asked, facets, at, read, out, stub, partial, alive, aux_fault>>
        /\ pc = "report" /\ Failure(TRUE) /\ pc' = "done"
    BY <1>3 DEF WorkdayPartial
  <2>2. Moves /\ Told' /\ Bad'
    BY <2>1, FailureEffect
  <2>3. read' = Emitted' /\ partial
    BY <1>1, <2>1 DEF WorkdayInv, Emitted
  <2>4. WorkdayInv'
    BY <2>1, <2>2, <2>3 DEF WorkdayInv
  <2>5. FetchTypeOK'
    BY <1>1, <2>1, SameBoard DEF FetchTypeOK
  <2>6. FaultInv'
    BY <1>1, <2>1, <2>3 DEF FaultInv
  <2> QED BY <2>1, <2>2, <2>4, <2>5, <2>6, KeptByFamily
<1>4. CASE WorkdayTimeout
  <2>1. /\ UNCHANGED <<board, asked, facets, at, read, partial, alive>>
        /\ pc \in {"list", "pages", "terms", "detail"} /\ pc' = "done"
        /\ aux_fault' = TRUE /\ stub' = {} /\ out' \in {out, {}}
    BY <1>4 DEF WorkdayTimeout
  <2>2. PICK some \in BOOLEAN : Failure(some)
    BY <1>4 DEF WorkdayTimeout
  <2>3. Jobless
    BY <1>1, <2>1 DEF WorkdayInv
  <2>4. Moves /\ Told' /\ Jobless'
    BY <2>2, <2>3, FailureEffect
  <2>5. WorkdayInv'
    BY <2>1, <2>4 DEF WorkdayInv
  <2>6. FetchTypeOK'
    BY <1>1, <2>1, SameBoard DEF FetchTypeOK
  <2> QED BY <2>1, <2>4, <2>5, <2>6, KeptByFamily DEF FaultInv
<1>5. ASSUME NEW p \in read, WorkdayDetail(p) PROVE Kept
  <2>1. /\ UNCHANGED <<board, facets, pc, at, read, alive>> /\ Silent
        /\ pc = "detail" /\ p \in read \ asked /\ asked' = asked \cup {p}
    BY <1>5 DEF WorkdayDetail, Silent
  <2>2. \/ out' = out \cup {p} /\ UNCHANGED <<aux_fault, stub, partial>>
        \/ stub' = stub \cup {p} /\ partial' = TRUE /\ aux_fault' = TRUE /\ UNCHANGED out
    BY <1>5 DEF WorkdayDetail, Stubbed
  <2>3. Moves /\ (Told' <=> Told) /\ (Bad' <=> Bad) /\ (Jobless' <=> Jobless)
    BY <2>1, SilentEffect
  <2>4. Emitted' = asked'
    BY <1>1, <2>1, <2>2 DEF WorkdayInv, Emitted
  <2>5. WorkdayInv'
    BY <1>1, <2>1, <2>3, <2>4 DEF WorkdayInv
  <2>6. FetchTypeOK'
    <3>1. aux_fault' \in BOOLEAN /\ partial' \in BOOLEAN /\ p \in Postings
      BY <1>1, <2>2 DEF FetchTypeOK
    <3>2. out' \subseteq Postings /\ stub' \subseteq Postings
      BY <1>1, <2>2, <3>1 DEF FetchTypeOK
    <3> QED BY <1>1, <2>1, <3>1, <3>2, SameBoard DEF FetchTypeOK
  <2>7. FaultInv'
    BY <1>1, <2>2, <2>3 DEF FaultInv
  <2> QED BY <2>1, <2>3, <2>5, <2>6, <2>7, KeptByFamily
<1> QED BY <1>2, <1>3, <1>4, <1>5
-----------------------------------------------------------------------------
\* amazon, eightfold

\* Where the end of a page, or of a term, leads.
LEMMA TermOverEffect ==
    ASSUME NEW t \in Terms, NEW n \in Nat, at = <<t, n>>, TermOver
    PROVE  \/ pc' = pc /\ at' = <<t + 1, 0>> /\ t + 1 \in Terms
           \/ pc' = "report" /\ t + 1 \notin Terms
  BY DEF TermOver, MoreTerms, NextTerm, Goto

LEMMA PageOverEffect ==
    ASSUME FetchTypeOK, NEW t \in Terms, NEW n \in 0..size, at = <<t, n>>, PageOver
    PROVE  \/ pc' = pc /\ at' = <<t, n + 1>> /\ n + 1 \in 0..size
           \/ pc' = pc /\ at' = <<t + 1, 0>> /\ t + 1 \in Terms /\ n + 1 >= size
           \/ pc' = "report" /\ t + 1 \notin Terms /\ n + 1 >= size
<1>1. size \in Nat /\ n \in Nat
  BY BoundsAssumption DEF FetchTypeOK
<1>2. CASE n + 1 >= size
  BY <1>1, <1>2, TermOverEffect DEF PageOver, Last
<1>3. CASE ~(n + 1 >= size)
  BY <1>1, <1>3 DEF PageOver, Last, NextPage
<1> QED BY <1>2, <1>3

\* A page that is lost marks the board; one that is read is passed.
LEMMA PagedPage ==
    ASSUME LedgerInv, FetchInv, AmazonPage \/ EightfoldPage
    PROVE  Kept
<1> USE DEF Goto, Fault, NoFault, fixed
<1>1. kind \in PagedKinds /\ pc = "list" /\ UNCHANGED <<board, asked, facets, read>> /\ Silent
  BY DEF AmazonPage, EightfoldPage, PagedKinds, Silent
<1>2. PagedInv /\ FetchTypeOK /\ FaultInv
  BY <1>1 DEF FetchInv, KindInv
<1>3. PICK t \in Terms, n \in 0..size :
        /\ at = <<t, n>>
        /\ ~partial => Passed(Postings, t, n) \subseteq Emitted
        /\ alive \/ partial \/ (t = 1 /\ n = 0)
  BY <1>1, <1>2 DEF PagedInv
<1>4. size \in Nat /\ n \in Nat /\ t \in Nat
  BY <1>2, TermsInterval, BoundsAssumption DEF FetchTypeOK
<1>5. Moves /\ (Told' <=> Told) /\ (Bad' <=> Bad)
  BY <1>1, SilentEffect
<1>6. CASE ListingFails
  <2>1. partial' = TRUE /\ aux_fault' = TRUE /\ UNCHANGED <<alive, out, stub>> /\ TermOver
    BY <1>6 DEF ListingFails
  <2>2. \/ pc' = "list" /\ at' = <<t + 1, 0>> /\ t + 1 \in Terms
        \/ pc' = "report"
    BY <1>1, <1>3, <1>4, <2>1, TermOverEffect
  <2>3. PagedInv'
    <3>1. CASE pc' = "list" /\ at' = <<t + 1, 0>> /\ t + 1 \in Terms
      <4>1. /\ t + 1 \in Terms' /\ 0 \in 0..size' /\ at' = <<t + 1, 0>>
            /\ partial'
        BY <1>1, <1>4, <2>1, <3>1, SameBoard
      <4> QED BY <3>1, <4>1 DEF PagedInv
    <3>2. CASE pc' = "report"
      BY <2>1, <3>2 DEF PagedInv
    <3> QED BY <2>2, <3>1, <3>2
  <2>4. FetchTypeOK'
    BY <1>1, <1>2, <2>1, <2>2, SameBoard DEF FetchTypeOK
  <2> QED BY <1>1, <1>5, <2>1, <2>3, <2>4, KeptByFamily DEF FaultInv
<1>7. ASSUME PageRead, out' \cup stub' = out \cup stub \cup Shown,
             aux_fault' = TRUE \/ UNCHANGED aux_fault
      PROVE  Kept
  <2>1. alive' = TRUE /\ UNCHANGED partial /\ PageOver
    BY <1>7 DEF PageRead
  <2>2. \/ pc' = "list" /\ at' = <<t, n + 1>> /\ n + 1 \in 0..size
        \/ pc' = "list" /\ at' = <<t + 1, 0>> /\ t + 1 \in Terms /\ n + 1 >= size
        \/ pc' = "report" /\ t + 1 \notin Terms /\ n + 1 >= size
    BY <1>1, <1>2, <1>3, <2>1, PageOverEffect
  <2>3. Emitted' = Emitted \cup (Postings \cap {<<t, n>>})
    BY <1>3, <1>7 DEF Emitted, Shown
  <2>4. Emitted \subseteq Postings
    BY <1>2 DEF FetchTypeOK, Emitted
  <2>5. PagedInv'
    <3>1. CASE pc' = "list" /\ at' = <<t, n + 1>> /\ n + 1 \in 0..size
      <4>1. ~partial' => Passed(Postings', t, n + 1) \subseteq Emitted'
        BY <1>1, <1>2, <1>3, <2>1, <2>3, PassedNext, SameBoard
      <4>2. t \in Terms' /\ n + 1 \in 0..size' /\ at' = <<t, n + 1>> /\ alive'
        BY <1>1, <2>1, <3>1, SameBoard
      <4> QED BY <3>1, <4>1, <4>2 DEF PagedInv
    <3>2. CASE pc' = "list" /\ at' = <<t + 1, 0>> /\ t + 1 \in Terms /\ n + 1 >= size
      <4>1. ~partial' => Passed(Postings', t + 1, 0) \subseteq Emitted'
        BY <1>1, <1>2, <1>3, <2>1, <2>3, <3>2, PassedNext, SameBoard
      <4>2. t + 1 \in Terms' /\ 0 \in 0..size' /\ at' = <<t + 1, 0>> /\ alive'
        BY <1>1, <1>4, <2>1, <3>2, SameBoard
      <4> QED BY <3>2, <4>1, <4>2 DEF PagedInv
    <3>3. CASE pc' = "report" /\ t + 1 \notin Terms /\ n + 1 >= size
      <4>1. ~partial' => Emitted' = Postings'
        BY <1>1, <1>2, <1>3, <2>1, <2>3, <2>4, <3>3, PassedNext, SameBoard
      <4> QED BY <2>1, <3>3, <4>1 DEF PagedInv
    <3> QED BY <2>2, <3>1, <3>2, <3>3
  <2>6. FetchTypeOK'
    <3>1. out' \subseteq Postings /\ stub' \subseteq Postings
      BY <2>3, <2>4 DEF Emitted
    <3>2. aux_fault' \in BOOLEAN /\ pc' \in {"list", "report"}
      BY <1>2, <1>7, <2>2 DEF FetchTypeOK
    <3> QED BY <1>1, <1>2, <2>1, <3>1, <3>2, SameBoard DEF FetchTypeOK
  <2>7. FaultInv'
    BY <1>2, <1>5, <1>7, <2>1 DEF FaultInv
  <2> QED BY <1>1, <1>5, <2>5, <2>6, <2>7, KeptByFamily
<1>8. CASE AmazonPage
  <2>1. CASE PageRead /\ out' = out \cup Shown /\ UNCHANGED <<aux_fault, stub>>
    BY <1>7, <2>1
  <2> QED BY <1>6, <1>8, <2>1 DEF AmazonPage
<1>9. CASE EightfoldPage
  <2>1. CASE PageRead /\ out' = out \cup Shown /\ UNCHANGED <<aux_fault, stub>>
    BY <1>7, <2>1
  <2>2. CASE PageRead /\ at \in Postings /\ stub' = stub \cup {at} /\ aux_fault' = TRUE /\ UNCHANGED out
    <3>1. out' \cup stub' = out \cup stub \cup Shown
      BY <2>2 DEF Shown
    <3> QED BY <1>7, <2>2, <3>1
  <2> QED BY <1>6, <1>9, <2>1, <2>2 DEF EightfoldPage
<1> QED BY <1>8, <1>9

LEMMA PagedEnd ==
    ASSUME LedgerInv, FetchInv,
           AmazonReport \/ EightfoldReport \/ (kind = "eightfold" /\ LoadRegistry)
    PROVE  Kept
<1> USE DEF Goto, Fault, NoFault, fixed
<1>1. kind \in PagedKinds
  BY DEF AmazonReport, EightfoldReport, PagedKinds
<1>2. PagedInv /\ FetchTypeOK /\ FaultInv
  BY <1>1 DEF FetchInv, KindInv
<1>3. Cardinality(out) \in Nat /\ Cardinality(Emitted) \in Nat /\ alive \in BOOLEAN /\ FALSE \in BOOLEAN
  BY <1>2, PostingsFinite DEF FetchTypeOK, Emitted
<1>4. CASE kind = "eightfold" /\ LoadRegistry
  <2>1. Load("list")
    BY <1>4 DEF LoadRegistry
  <2>2. Moves /\ (Told' <=> Told) /\ (Bad' <=> Bad) /\ UNCHANGED board
    BY <2>1, LoadEffect, SilentEffect
  <2>3. UNCHANGED <<at, alive, partial>> /\ Emitted' = Emitted /\ pc = "start" /\ pc' \in {"list", "dead"}
    BY <2>1, LoadEffect DEF Emitted
  <2>4. PagedInv'
    BY <1>2, <2>2, <2>3, SameBoard DEF PagedInv
  <2> QED BY <1>1, <2>1, <2>2, <2>4, LoadEffect, KeptByFamily
<1>5. ASSUME AmazonReport \/ EightfoldReport,
             \/ pc = "report" /\ pc' = "second"
             \/ pc = "second" /\ pc' = "done",
             Moves,
             Bad' => Bad \/ partial,
             pc' = "second" => IF kind = "amazon" THEN alive => Told' ELSE partial => Bad',
             pc' = "done" => Told' /\ (partial => Bad')
      PROVE  Kept
  <2>1. UNCHANGED <<board, asked, facets, at, read, out, stub, partial, alive, aux_fault>>
    BY <1>5 DEF AmazonReport, EightfoldReport
  <2>2. (alive \/ partial) /\ (partial \/ Emitted = Postings)
    BY <1>2, <1>5 DEF PagedInv
  <2>3. (alive' \/ partial') /\ (partial' \/ Emitted' = Postings')
    BY <2>1, <2>2, SameBoard DEF Emitted
  <2>4. PagedInv'
    BY <1>5, <2>1, <2>3, SameBoard DEF PagedInv
  <2>5. FetchTypeOK'
    BY <1>2, <1>5, <2>1, SameBoard DEF FetchTypeOK
  <2>6. FaultInv'
    BY <1>2, <1>5, <2>1 DEF FaultInv
  <2> QED BY <1>1, <1>5, <2>1, <2>4, <2>5, <2>6, KeptByFamily
<1>6. CASE AmazonReport
  <2>1. kind = "amazon"
    BY <1>6 DEF AmazonReport
  <2>2. CASE pc = "report" /\ pc' = "second" /\ IF alive THEN Success(Cardinality(out)) ELSE Silent
    <3>1. CASE alive /\ Success(Cardinality(out))
      BY <1>3, <1>5, <1>6, <2>1, <2>2, <3>1, SuccessEffect
    <3>2. CASE ~alive /\ Silent
      BY <1>5, <1>6, <2>1, <2>2, <3>2, SilentEffect
    <3> QED BY <2>2, <3>1, <3>2
  <2>3. CASE pc = "second" /\ pc' = "done" /\ IF partial THEN Failure(alive) ELSE Silent
    <3>1. (alive \/ partial) /\ (alive => Told)
      BY <1>2, <2>1, <2>3 DEF PagedInv
    <3>2. CASE partial /\ Failure(alive)
      BY <1>3, <1>5, <1>6, <2>3, <3>2, FailureEffect
    <3>3. CASE ~partial /\ Silent
      BY <1>5, <1>6, <2>3, <3>1, <3>3, SilentEffect
    <3> QED BY <2>3, <3>2, <3>3
  <2> QED BY <1>6, <2>2, <2>3 DEF AmazonReport
<1>7. CASE EightfoldReport
  <2>1. kind = "eightfold"
    BY <1>7 DEF EightfoldReport
  <2>2. CASE pc = "report" /\ pc' = "second" /\ IF partial THEN Failure(alive) ELSE Silent
    <3>1. CASE partial /\ Failure(alive)
      BY <1>3, <1>5, <1>7, <2>1, <2>2, <3>1, FailureEffect
    <3>2. CASE ~partial /\ Silent
      BY <1>5, <1>7, <2>1, <2>2, <3>2, SilentEffect
    <3> QED BY <2>2, <3>1, <3>2
  <2>3. CASE /\ pc = "second" /\ pc' = "done"
             /\ IF partial /\ ~alive THEN Failure(FALSE) ELSE Success(Cardinality(Emitted))
    <3>1. partial => Bad
      BY <1>2, <2>1, <2>3 DEF PagedInv
    <3>2. CASE partial /\ Failure(FALSE)
      BY <1>3, <1>5, <1>7, <2>3, <3>2, FailureEffect
    <3>3. CASE Success(Cardinality(Emitted))
      BY <1>3, <1>5, <1>7, <2>3, <3>1, <3>3, SuccessEffect
    <3> QED BY <2>3, <3>2, <3>3
  <2> QED BY <1>7, <2>2, <2>3 DEF EightfoldReport
<1> QED BY <1>4, <1>6, <1>7
-----------------------------------------------------------------------------
\* icims, taleo

LEMMA HtmlSteps ==
    ASSUME LedgerInv, FetchInv,
           \/ kind \in HtmlKinds /\ LoadRegistry
           \/ IcimsPage \/ TaleoPage \/ IcimsReport \/ TaleoReport
    PROVE  Kept
<1> USE DEF Goto, Fault, NoFault, fixed
<1>1. kind \in HtmlKinds
  BY DEF IcimsPage, TaleoPage, IcimsReport, TaleoReport, HtmlKinds
<1>2. HtmlInv /\ FetchTypeOK /\ FaultInv
  BY <1>1 DEF FetchInv, KindInv
<1>3. CASE kind \in HtmlKinds /\ LoadRegistry
  <2>1. Load("list")
    BY <1>3 DEF LoadRegistry
  <2>2. HtmlInv'
    BY <2>1, LoadEffect DEF HtmlInv
  <2> QED BY <1>1, <2>1, <2>2, LoadEffect, SilentEffect, KeptByFamily
<1>4. CASE IcimsPage \/ TaleoPage
  <2>1. UNCHANGED <<board, asked, facets, read, partial, alive>> /\ pc = "list"
    BY <1>4 DEF IcimsPage, TaleoPage
  <2>2. \/ \E links \in {Shown, {}} : HtmlRead(links)
        \/ FirstRequestFails
        \/ EndsEarly
    BY <1>4 DEF IcimsPage, TaleoPage, IcimsLinks, TaleoLinks
  <2>3. CASE FirstRequestFails
    <3>1. pc' = "done" /\ aux_fault' = TRUE /\ UNCHANGED <<at, out, stub>> /\ Moves /\ Told'
      BY <2>3, FailureEffect DEF FirstRequestFails
    <3>2. HtmlInv'
      BY <3>1 DEF HtmlInv
    <3>3. FetchTypeOK'
      BY <1>2, <2>1, <3>1, SameBoard DEF FetchTypeOK
    <3> QED BY <1>1, <2>1, <3>1, <3>2, <3>3, KeptByFamily DEF FaultInv
  <2>4. ASSUME pc' \in {"list", "report"}, out' \subseteq out \cup Shown, stub' \subseteq stub \cup Shown,
               Silent, aux_fault' \in BOOLEAN, aux_fault => aux_fault'
        PROVE  Kept
    <3>1. Moves /\ (Bad' <=> Bad)
      BY <2>4, SilentEffect
    <3>2. HtmlInv'
      BY <2>4 DEF HtmlInv
    <3>3. FetchTypeOK'
      BY <1>2, <2>1, <2>4, SameBoard DEF FetchTypeOK, Shown
    <3>4. FaultInv'
      BY <1>2, <2>1, <2>4, <3>1 DEF FaultInv
    <3> QED BY <1>1, <2>1, <3>1, <3>2, <3>3, <3>4, KeptByFamily
  <2>5. CASE EndsEarly
    <3>1. /\ pc' \in {"list", "report"} /\ UNCHANGED <<out, stub>> /\ Silent /\ aux_fault' = TRUE
      BY <2>1, <2>5 DEF EndsEarly, NoPage, TermOver
    <3> QED BY <2>4, <3>1
  <2>6. ASSUME NEW links \in {Shown, {}}, HtmlRead(links) PROVE Kept
    <3>1. pc' \in {"list", "report"} /\ Silent
      BY <2>1, <2>6 DEF HtmlRead, PageOver, TermOver
    <3>2. out' \subseteq out \cup Shown /\ stub' \subseteq stub \cup Shown
      BY <2>6 DEF HtmlRead, NoDescription
    <3>3. CASE aux_fault' = TRUE
      BY <2>4, <3>1, <3>2, <3>3
    <3>4. CASE aux_fault' = (aux_fault \/ links # Shown)
      <4>1. aux_fault' \in BOOLEAN /\ (aux_fault => aux_fault')
        BY <1>2, <3>4 DEF FetchTypeOK
      <4> QED BY <2>4, <3>1, <3>2, <4>1
    <3> QED BY <2>6, <3>3, <3>4 DEF HtmlRead, NoDescription
  <2> QED BY <2>2, <2>3, <2>5, <2>6
<1>5. CASE IcimsReport \/ TaleoReport
  <2>1. /\ UNCHANGED <<board, asked, facets, at, read, out, stub, partial, alive, aux_fault>>
        /\ Success(Cardinality(Emitted)) /\ pc' = "done"
    BY <1>5 DEF IcimsReport, TaleoReport, HtmlReport
  <2>2. Cardinality(Emitted) \in Nat
    BY <1>2, PostingsFinite DEF FetchTypeOK, Emitted
  <2>3. Moves /\ Told' /\ (Bad' <=> Bad)
    BY <2>1, <2>2, SuccessEffect
  <2>4. HtmlInv'
    BY <2>1, <2>3 DEF HtmlInv
  <2>5. FetchTypeOK'
    BY <1>2, <2>1, SameBoard DEF FetchTypeOK
  <2>6. FaultInv'
    BY <1>2, <2>1, <2>3 DEF FaultInv
  <2> QED BY <1>1, <2>1, <2>3, <2>4, <2>5, <2>6, KeptByFamily
<1> QED BY <1>3, <1>4, <1>5

-----------------------------------------------------------------------------
\* jobvite, bamboohr

LEMMA DetailSteps ==
    ASSUME LedgerInv, FetchInv,
           \/ kind \in DetailKinds /\ LoadRegistry
           \/ ListOnce \/ JobviteReport \/ BambooReport
           \/ \E p \in read : JobviteDetail(p) \/ BambooDetail(p)
    PROVE  Kept
<1> USE DEF Goto, Fault, NoFault, fixed
<1>1. kind \in DetailKinds
  BY DEF ListOnce, JobviteReport, BambooReport, JobviteDetail, BambooDetail, DetailKinds
<1>2. DetailInv /\ FetchTypeOK /\ FaultInv
  BY <1>1 DEF FetchInv, KindInv
<1>3. Cardinality(out) \in Nat /\ Cardinality(Emitted) \in Nat /\ FALSE \in BOOLEAN
  BY <1>2, PostingsFinite DEF FetchTypeOK, Emitted
<1>4. CASE kind \in DetailKinds /\ LoadRegistry
  <2>1. Load("list")
    BY <1>4 DEF LoadRegistry
  <2>2. DetailInv'
    BY <1>2, <2>1, LoadEffect, SameBoard DEF DetailInv
  <2> QED BY <1>1, <2>1, <2>2, LoadEffect, SilentEffect, KeptByFamily
<1>5. CASE ListOnce
  <2>1. UNCHANGED <<board, asked, facets, at, out, stub, partial, alive>> /\ pc = "list" /\ asked = {} /\ out = {}
    BY <1>2, <1>5 DEF ListOnce, DetailInv
  <2>2. CASE Failure(FALSE) /\ pc' = "done" /\ aux_fault' = TRUE /\ UNCHANGED read
    <3>1. Moves /\ Told' /\ Bad'
      BY <1>3, <2>2, FailureEffect
    <3>2. DetailInv'
      BY <1>2, <2>1, <2>2, <3>1, SameBoard DEF DetailInv
    <3>3. FetchTypeOK'
      BY <1>2, <2>1, <2>2, SameBoard DEF FetchTypeOK
    <3> QED BY <1>1, <2>1, <2>2, <3>1, <3>2, <3>3, KeptByFamily DEF FaultInv
  <2>3. CASE Silent /\ pc' = "detail" /\ UNCHANGED aux_fault /\ read' = Postings
    <3>1. Moves /\ (Told' <=> Told) /\ (Bad' <=> Bad)
      BY <2>3, SilentEffect
    <3>2. DetailInv'
      BY <1>2, <2>1, <2>3, <3>1, SameBoard DEF DetailInv
    <3>3. FetchTypeOK'
      BY <1>2, <2>1, <2>3, SameBoard DEF FetchTypeOK
    <3>4. FaultInv'
      BY <1>2, <2>1, <2>3, <3>1 DEF FaultInv
    <3> QED BY <1>1, <2>1, <3>1, <3>2, <3>3, <3>4, KeptByFamily
  <2> QED BY <1>5, <2>2, <2>3 DEF ListOnce
<1>6. ASSUME NEW p \in read, JobviteDetail(p) \/ BambooDetail(p) PROVE Kept
  <2>1. /\ UNCHANGED <<board, facets, pc, at, read, alive>> /\ Silent
        /\ pc = "detail" /\ asked' = asked \cup {p} /\ p \in Postings
    BY <1>2, <1>6 DEF JobviteDetail, BambooDetail, DetailOf, Silent, FetchTypeOK
  <2>2. Moves /\ (Told' <=> Told) /\ (Bad' <=> Bad)
    BY <2>1, SilentEffect
  <2>3. /\ out' \subseteq out \cup {p} /\ stub' \subseteq stub \cup {p}
        /\ UNCHANGED <<aux_fault, partial>> \/ (aux_fault' = TRUE /\ (partial' = TRUE \/ UNCHANGED partial))
    BY <1>6 DEF JobviteDetail, BambooDetail
  <2>4. kind = "jobvite" /\ ~partial' => out' = asked'
    <3>1. ASSUME kind = "jobvite"
          PROVE  \/ out' = out \cup {p} /\ UNCHANGED partial
                 \/ partial' = TRUE
      BY <1>6, <3>1 DEF JobviteDetail, BambooDetail
    <3> QED BY <1>2, <2>1, <3>1 DEF DetailInv
  <2>5. DetailInv'
    BY <1>2, <2>1, <2>4, SameBoard DEF DetailInv
  <2>6. aux_fault' \in BOOLEAN /\ partial' \in BOOLEAN /\ FaultInv'
    <3>1. CASE UNCHANGED <<aux_fault, partial>>
      BY <1>2, <2>2, <3>1 DEF FetchTypeOK, FaultInv
    <3>2. CASE aux_fault' = TRUE /\ (partial' = TRUE \/ UNCHANGED partial)
      BY <1>2, <3>2 DEF FetchTypeOK, FaultInv
    <3> QED BY <2>3, <3>1, <3>2
  <2>7. FetchTypeOK'
    <3>1. out' \subseteq Postings /\ stub' \subseteq Postings
      BY <1>2, <2>1, <2>3 DEF FetchTypeOK
    <3> QED BY <1>2, <2>1, <2>6, <3>1, SameBoard DEF FetchTypeOK
  <2> QED BY <1>1, <2>1, <2>2, <2>5, <2>6, <2>7, KeptByFamily
<1>7. CASE BambooReport
  <2>1. /\ UNCHANGED <<board, asked, facets, at, read, out, stub, partial, alive, aux_fault>>
        /\ Success(Cardinality(Emitted)) /\ pc' = "done" /\ kind = "bamboohr"
    BY <1>7 DEF BambooReport
  <2>2. Moves /\ Told' /\ (Bad' <=> Bad)
    BY <1>3, <2>1, SuccessEffect
  <2>3. DetailInv'
    BY <2>1, <2>2, SameBoard DEF DetailInv
  <2>4. FetchTypeOK'
    BY <1>2, <2>1, SameBoard DEF FetchTypeOK
  <2>5. FaultInv'
    BY <1>2, <2>1, <2>2 DEF FaultInv
  <2> QED BY <1>1, <2>1, <2>2, <2>3, <2>4, <2>5, KeptByFamily
<1>8. CASE JobviteReport
  <2>1. /\ UNCHANGED <<board, asked, facets, at, read, out, stub, partial, alive, aux_fault>>
        /\ kind = "jobvite" /\ asked = read /\ pc \in {"detail", "second"}
    BY <1>8 DEF JobviteReport
  <2>2. read = Postings /\ (~partial => out = Postings) /\ partial \in BOOLEAN
    BY <1>2, <2>1 DEF DetailInv, FetchTypeOK
  <2>3. ASSUME Moves, Bad' => Bad \/ partial,
               \/ pc' = "second" /\ (partial => Bad')
               \/ pc' = "done" /\ Told' /\ (partial => Bad')
        PROVE  Kept
    <3>1. DetailInv'
      BY <1>2, <2>1, <2>2, <2>3, SameBoard DEF DetailInv
    <3>2. FetchTypeOK'
      BY <1>2, <2>1, <2>3, SameBoard DEF FetchTypeOK
    <3>3. FaultInv'
      BY <1>2, <2>1, <2>3 DEF FaultInv
    <3> QED BY <1>1, <2>1, <2>3, <3>1, <3>2, <3>3, KeptByFamily
  <2>4. CASE pc = "detail" /\ pc' = "second" /\ IF partial THEN Failure(out # {}) ELSE Silent
    <3>1. CASE partial /\ Failure(out # {})
      <4>1. (out # {}) \in BOOLEAN
        OBVIOUS
      <4> QED BY <2>3, <2>4, <3>1, <4>1, FailureEffect
    <3>2. CASE ~partial /\ Silent
      BY <2>3, <2>4, <3>2, SilentEffect
    <3> QED BY <2>4, <3>1, <3>2
  <2>5. CASE pc = "second" /\ pc' = "done" /\ Success(Cardinality(out))
    <3>1. partial => Bad
      BY <1>2, <2>5 DEF DetailInv
    <3> QED BY <1>3, <2>3, <2>5, <3>1, SuccessEffect
  <2> QED BY <1>8, <2>4, <2>5 DEF JobviteReport
<1> QED BY <1>4, <1>5, <1>6, <1>7, <1>8
-----------------------------------------------------------------------------
\* workable

LEMMA WorkableSteps ==
    ASSUME LedgerInv, FetchInv, WorkableTerm \/ WorkableReport
    PROVE  Kept
<1> USE DEF Goto, Fault, NoFault, fixed
<1>1. kind = "workable" /\ UNCHANGED <<board, asked, facets, read, stub, partial, alive>>
  BY DEF WorkableTerm, WorkableReport
<1>2. WorkableInv /\ FetchTypeOK /\ FaultInv
  BY <1>1 DEF FetchInv, KindInv
<1>3. size \in Nat /\ Cardinality(out) \in Nat /\ Terms = 1..MaxTerms /\ MaxTerms \in Nat \ {0}
  BY <1>1, <1>2, PostingsFinite, BoundsAssumption DEF FetchTypeOK, Terms, Searched
<1>4. CASE WorkableTerm
  <2> DEFINE all == {at[1]} \X (0..(size - 1))
  <2>1. pc = "list" /\ at[1] \in Terms
    BY <1>2, <1>4 DEF WorkableTerm, WorkableInv
  <2>2. all \subseteq Postings /\ (size # 0 => all # {})
    <3>1. all \subseteq Postings
      BY <2>1 DEF Postings
    <3>2. ASSUME size # 0 PROVE <<at[1], 0>> \in all
      BY <1>3, <3>2
    <3> QED BY <3>1, <3>2
  <2>3. \/ pc' = "list" /\ at'[1] \in Terms
        \/ pc' = "report"
    BY <1>4, <2>1 DEF WorkableTerm, TermOver, MoreTerms, NextTerm
  <2> HIDE DEF all
  <2>4. ASSUME Moves, Bad' <=> Bad, out' \subseteq Postings, aux_fault' \in BOOLEAN,
               aux_fault => aux_fault', aux_fault' \/ size = 0 \/ out' # {}
        PROVE  Kept
    <3>1. WorkableInv'
      BY <1>1, <2>3, <2>4, SameBoard DEF WorkableInv
    <3>2. FetchTypeOK'
      BY <1>1, <1>2, <2>3, <2>4, SameBoard DEF FetchTypeOK
    <3>3. FaultInv'
      BY <1>1, <1>2, <2>4 DEF FaultInv
    <3> QED BY <1>1, <2>4, <3>1, <3>2, <3>3, KeptByFamily
  <2>5. CASE RecordFailure("global-search", out # {}) /\ aux_fault' = TRUE /\ UNCHANGED out
    <3>1. (out # {}) \in BOOLEAN
      OBVIOUS
    <3>2. FailureReport(out # {}) \in Reports /\ Record("global-search", FailureReport(out # {}))
      BY <2>5, <3>1 DEF Reports, RecordFailure
    <3>3. Moves /\ (Bad' <=> Bad)
      BY <3>2, GlobalEffect
    <3>4. out' \subseteq Postings
      BY <1>2, <2>5 DEF FetchTypeOK
    <3> QED BY <2>4, <2>5, <3>3, <3>4
  <2>6. ASSUME NEW got \in SUBSET all, out' = out \cup got,
               aux_fault' = (aux_fault \/ got # all), Silent
        PROVE  Kept
    <3>1. Moves /\ (Bad' <=> Bad)
      BY <2>6, SilentEffect
    <3>2. out' \subseteq Postings
      BY <1>2, <2>2, <2>6 DEF FetchTypeOK
    <3>3. aux_fault' \in BOOLEAN /\ (aux_fault => aux_fault') /\ (~aux_fault' => got = all)
      BY <1>2, <2>6 DEF FetchTypeOK
    <3>4. aux_fault' \/ size = 0 \/ out' # {}
      BY <2>2, <2>6, <3>3
    <3> QED BY <2>4, <3>1, <3>2, <3>3, <3>4
  <2> QED BY <1>4, <2>5, <2>6 DEF WorkableTerm, all
<1>5. CASE WorkableReport
  <2>1. UNCHANGED <<at, out, aux_fault>>
    BY <1>5 DEF WorkableReport
  <2>2. pc # "list" /\ (aux_fault \/ size = 0 \/ out # {})
    BY <1>2, <1>5 DEF WorkableReport, WorkableInv
  <2>3. ASSUME Moves, Bad' <=> Bad, out # {} => Told',
               pc' \in {"second", "done"}, pc' = "done" => Searches'
        PROVE  Kept
    <3>1. WorkableInv'
      BY <1>1, <2>1, <2>2, <2>3 DEF WorkableInv, board
    <3>2. FetchTypeOK'
      BY <1>1, <1>2, <2>1, <2>3, SameBoard DEF FetchTypeOK
    <3>3. FaultInv'
      BY <1>1, <1>2, <2>1, <2>3 DEF FaultInv
    <3> QED BY <1>1, <2>3, <3>1, <3>2, <3>3, KeptByFamily
  <2>4. CASE pc = "report" /\ pc' = "second" /\ IF out # {} THEN Success(Cardinality(out)) ELSE Silent
    <3>1. CASE out # {} /\ Success(Cardinality(out))
      BY <1>3, <2>3, <2>4, <3>1, SuccessEffect
    <3>2. CASE out = {} /\ Silent
      BY <2>3, <2>4, <3>2, SilentEffect
    <3> QED BY <2>4, <3>1, <3>2
  <2>5. CASE pc = "second" /\ pc' = "done" /\ RecordSuccess("global-search", Cardinality(out))
    <3>1. out # {} => Told
      BY <1>2, <2>5 DEF WorkableInv
    <3>2. /\ SuccessReport(Cardinality(out)) \in Reports
          /\ Record("global-search", SuccessReport(Cardinality(out)))
      BY <1>3, <2>5 DEF Reports, RecordSuccess
    <3> QED BY <2>3, <2>5, <3>1, <3>2, GlobalEffect
  <2> QED BY <1>5, <2>4, <2>5 DEF WorkableReport
<1> QED BY <1>4, <1>5

-----------------------------------------------------------------------------
\* employer_feed

LEMMA FeedSteps ==
    ASSUME LedgerInv, FetchInv,
           \/ LoadPartners \/ StartCrawlRun \/ FinishCrawlRun \/ FeedBreaks
           \/ FeedFetch \/ FeedWriteFails \/ FeedReport \/ \E p \in read : FeedRow(p)
    PROVE  Kept
<1> USE DEF Goto, Fault, NoFault, fixed
<1>1. kind = "employer_feed"
  BY DEF LoadPartners, StartCrawlRun, FinishCrawlRun, FeedBreaks, FeedFetch, FeedWriteFails,
         FeedReport, FeedRow
<1>2. FeedInv /\ FetchTypeOK /\ FaultInv
  BY <1>1 DEF FetchInv, KindInv
<1>3. CASE LoadPartners
  <2>1. Load("open")
    BY <1>3 DEF LoadPartners
  <2>2. FeedInv'
    BY <1>2, <2>1, LoadEffect DEF FeedInv
  <2> QED BY <1>1, <2>1, <2>2, LoadEffect, SilentEffect, KeptByFamily
<1>4. CASE StartCrawlRun \/ FinishCrawlRun
  <2>1. /\ UNCHANGED <<board, asked, facets, at, read, out, stub, partial, alive>> /\ Silent
        /\ aux_fault' = TRUE \/ UNCHANGED aux_fault
    BY <1>4 DEF StartCrawlRun, FinishCrawlRun, FeedRun, Silent
  <2>2. \/ pc = "open" /\ pc' \in {"list", "dead"}
        \/ pc = "close" /\ pc' \in {"done", "dead"}
    BY <1>4 DEF StartCrawlRun, FinishCrawlRun, FeedRun
  <2>3. Moves /\ (Told' <=> Told) /\ (Bad' <=> Bad)
    BY <2>1, SilentEffect
  <2>4. FeedInv'
    BY <1>2, <2>1, <2>2, <2>3, SameBoard DEF FeedInv
  <2>5. aux_fault' \in BOOLEAN /\ FaultInv'
    <3>1. CASE aux_fault' = TRUE
      BY <3>1 DEF FaultInv
    <3>2. CASE UNCHANGED aux_fault
      BY <1>2, <2>1, <2>3, <3>2 DEF FetchTypeOK, FaultInv
    <3> QED BY <2>1, <3>1, <3>2
  <2>6. FetchTypeOK'
    BY <1>2, <2>1, <2>2, <2>5, SameBoard DEF FetchTypeOK
  <2> QED BY <1>1, <2>1, <2>3, <2>4, <2>5, <2>6, KeptByFamily
<1>5. CASE FeedBreaks \/ FeedWriteFails \/ (FeedFetch /\ FeedFails)
  <2>1. /\ UNCHANGED <<board, facets, at, stub, partial, alive, asked>> /\ FeedFails /\ out' \in {out, {}}
    BY <1>5 DEF FeedBreaks, FeedWriteFails, FeedFetch
  <2>2. Moves /\ Told' /\ Bad' /\ pc' = "close" /\ aux_fault' = TRUE /\ UNCHANGED read
    BY <2>1, FailureEffect DEF FeedFails
  <2>3. FeedInv'
    BY <2>2 DEF FeedInv
  <2>4. FetchTypeOK'
    BY <1>2, <2>1, <2>2, SameBoard DEF FetchTypeOK
  <2> QED BY <1>1, <2>1, <2>2, <2>3, <2>4, KeptByFamily DEF FaultInv
<1>6. CASE FeedFetch /\ ~FeedFails
  <2>1. /\ UNCHANGED <<board, asked, facets, at, out, stub, partial, alive, aux_fault>>
        /\ Silent /\ pc = "list" /\ pc' = "detail" /\ read' = Postings
    BY <1>6 DEF FeedFetch
  <2>2. asked = {} /\ out = {}
    BY <1>2, <2>1 DEF FeedInv
  <2>3. Moves /\ (Told' <=> Told) /\ (Bad' <=> Bad)
    BY <2>1, SilentEffect
  <2>4. FeedInv'
    BY <2>1, <2>2, SameBoard DEF FeedInv
  <2>5. FetchTypeOK'
    BY <1>2, <2>1, <2>2, SameBoard DEF FetchTypeOK
  <2>6. FaultInv'
    BY <1>2, <2>1, <2>3 DEF FaultInv
  <2> QED BY <1>1, <2>1, <2>3, <2>4, <2>5, <2>6, KeptByFamily
<1>7. ASSUME NEW p \in read, FeedRow(p) PROVE Kept
  <2>1. /\ UNCHANGED <<board, facets, pc, at, read, alive, stub>> /\ Silent
        /\ pc = "detail" /\ asked' = asked \cup {p} /\ p \in Postings
    BY <1>2, <1>7 DEF FeedRow, DetailOf, Silent, FetchTypeOK
  <2>2. Moves /\ (Told' <=> Told) /\ (Bad' <=> Bad)
    BY <2>1, SilentEffect
  <2>3. CASE out' = out \cup {p} /\ UNCHANGED <<aux_fault, partial>>
    <3>1. FeedInv'
      BY <1>2, <2>1, <2>3, SameBoard DEF FeedInv
    <3>2. FetchTypeOK'
      BY <1>2, <2>1, <2>3, SameBoard DEF FetchTypeOK
    <3>3. FaultInv'
      BY <1>2, <2>2, <2>3 DEF FaultInv
    <3> QED BY <1>1, <2>1, <2>2, <3>1, <3>2, <3>3, KeptByFamily
  <2>4. CASE partial' = TRUE /\ aux_fault' = TRUE /\ UNCHANGED out
    <3>1. FeedInv'
      BY <1>2, <2>1, <2>4, SameBoard DEF FeedInv
    <3>2. FetchTypeOK'
      BY <1>2, <2>1, <2>4, SameBoard DEF FetchTypeOK
    <3> QED BY <1>1, <2>1, <2>2, <2>4, <3>1, <3>2, KeptByFamily DEF FaultInv
  <2> QED BY <1>7, <2>3, <2>4 DEF FeedRow
<1>8. CASE FeedReport
  <2>1. /\ UNCHANGED <<board, asked, facets, at, read, out, stub, partial, alive, aux_fault>>
        /\ asked = read /\ pc \in {"detail", "second"}
    BY <1>8 DEF FeedReport
  <2>2. read = Postings /\ (pc = "detail" /\ ~partial => out = Postings) /\ partial \in BOOLEAN
    BY <1>2, <2>1 DEF FeedInv, FetchTypeOK
  <2>3. ASSUME Moves, Told', Bad' => Bad \/ partial,
               \/ pc' = "second" /\ partial
               \/ pc' = "close" /\ (~Bad' => out = Postings)
        PROVE  Kept
    <3>1. FeedInv'
      BY <1>2, <2>1, <2>2, <2>3, SameBoard DEF FeedInv
    <3>2. FetchTypeOK'
      BY <1>2, <2>1, <2>3, SameBoard DEF FetchTypeOK
    <3>3. FaultInv'
      BY <1>2, <2>1, <2>3 DEF FaultInv
    <3> QED BY <1>1, <2>1, <2>3, <3>1, <3>2, <3>3, KeptByFamily
  <2>4. CASE pc = "detail" /\ Success(size) /\ pc' = IF partial THEN "second" ELSE "close"
    <3>1. size \in Nat
      BY <1>2, BoundsAssumption DEF FetchTypeOK
    <3> QED BY <2>2, <2>3, <2>4, <3>1, SuccessEffect
  <2>5. CASE pc = "second" /\ Failure(TRUE) /\ pc' = "close"
    <3>1. partial
      BY <1>2, <2>5 DEF FeedInv
    <3> QED BY <2>3, <2>5, <3>1, FailureEffect
  <2> QED BY <1>8, <2>4, <2>5 DEF FeedReport
<1> QED BY <1>3, <1>4, <1>5, <1>6, <1>7, <1>8

-----------------------------------------------------------------------------
\* usajobs, adzuna, jsonld, feed

LEMMA CommandSteps ==
    ASSUME FetchInv, SitemapPages \/ UsaPage \/ AdzunaPage \/ JsonLdPage \/ FeedUrl \/ CommandWrite
    PROVE  Kept
<1> USE DEF Goto, Fault, NoFault, fixed
<1>1. kind \in NoLedger
  BY DEF SitemapPages, UsaPage, AdzunaPage, JsonLdPage, FeedUrl, CommandWrite, NoLedger
<1>2. FetchTypeOK /\ FaultInv
  BY DEF FetchInv
<1>3. CASE SitemapPages
  <2>1. Load("list")
    BY <1>3 DEF SitemapPages
  <2> QED BY <1>1, <2>1, LoadEffect, SilentEffect, KeptByFamily
<1>4. ASSUME UNCHANGED <<board, asked, facets, stub, partial, alive>>, Silent,
             pc' \in {pc, "report", "done", "dead"}, out' \in {out, read},
             read' \subseteq Postings, read \subseteq read',
             aux_fault' = TRUE \/ UNCHANGED aux_fault
      PROVE  Kept
  <2>1. Moves /\ (Bad' <=> Bad)
    BY <1>4, SilentEffect
  <2>2. aux_fault' \in BOOLEAN /\ FaultInv'
    <3>1. CASE aux_fault' = TRUE
      BY <3>1 DEF FaultInv
    <3>2. CASE UNCHANGED aux_fault
      BY <1>2, <1>4, <2>1, <3>2 DEF FetchTypeOK, FaultInv
    <3> QED BY <1>4, <3>1, <3>2
  <2>3. FetchTypeOK'
    BY <1>2, <1>4, <2>2, SameBoard DEF FetchTypeOK
  <2> QED BY <1>1, <1>4, <2>1, <2>2, <2>3, KeptByFamily
<1>5. ASSUME CommandPage PROVE Kept
  <2>1. /\ UNCHANGED <<board, asked, facets, stub, partial, alive, out>> /\ Silent
        /\ aux_fault' = TRUE \/ UNCHANGED aux_fault
        /\ pc' \in {pc, "report", "dead"}
    BY <1>5 DEF CommandPage, PageOver, TermOver, Silent
  <2>2. read' \subseteq Postings /\ read \subseteq read'
    BY <1>2, <1>5 DEF CommandPage, Shown, FetchTypeOK
  <2> QED BY <1>4, <2>1, <2>2
<1>6. ASSUME UNCHANGED <<fixed, read, out, stub, partial, alive, ledger>>, aux_fault' = TRUE,
             pc' \in {pc, "report"}
      PROVE  Kept
  <2>1. read \subseteq Postings /\ Silent
    BY <1>2, <1>6 DEF FetchTypeOK, Silent
  <2> QED BY <1>4, <1>6, <2>1
<1>7. CASE UsaPage
  BY <1>5, <1>7 DEF UsaPage
<1>8. CASE AdzunaPage
  BY <1>5, <1>6, <1>8 DEF AdzunaPage, TermOver
<1>9. CASE JsonLdPage \/ FeedUrl
  BY <1>5, <1>6, <1>9 DEF JsonLdPage, FeedUrl, TolerantPage, PageOver, TermOver
<1>10. CASE CommandWrite
  <2>1. /\ UNCHANGED <<board, asked, facets, at, read, stub, partial, alive>> /\ Silent
        /\ aux_fault' = TRUE \/ UNCHANGED aux_fault
        /\ pc' \in {"done", "dead"} /\ out' \in {out, read}
    BY <1>10 DEF CommandWrite, Silent
  <2>2. read \subseteq Postings
    BY <1>2 DEF FetchTypeOK
  <2> QED BY <1>4, <2>1, <2>2
<1> QED BY <1>3, <1>7, <1>8, <1>9, <1>10
-----------------------------------------------------------------------------
\* The invariant and the properties.

\* A fetch that has not begun.
Fresh ==
    /\ kind \in Kinds /\ size \in 0..MaxPages /\ large \in BOOLEAN
    /\ large => kind = "workday" /\ size > 0
    /\ pc = First /\ at = <<1, 0>>
    /\ read = {} /\ asked = {} /\ out = {} /\ stub = {} /\ facets = {}
    /\ partial = FALSE /\ alive = FALSE /\ aux_fault = FALSE
    /\ outcomes = [t \in Tenants |-> Absent]

LEMMA FreshInv == Fresh => FetchInv
<1> SUFFICES ASSUME Fresh PROVE FetchInv
  OBVIOUS
<1>1. ~Told /\ ~Bad /\ Jobless
  BY NoOutcome DEF Fresh
<1>2. Emitted = {}
  BY DEF Fresh, Emitted
<1>3. FetchTypeOK
  BY DEF Fresh, FetchTypeOK, First
<1>4. FaultInv
  BY <1>1 DEF Fresh, FaultInv
<1>5. size \in Nat /\ 0 \in 0..size
  BY BoundsAssumption DEF Fresh
<1>6. Passed(Postings, 1, 0) = {} /\ 1 \in Terms
  BY <1>3, PassedNothing, TermsInterval
<1>7. KindInv
  <2>1. CASE kind \in WholeKinds
    BY <2>1 DEF Fresh, First, KindInv, WholeInv, WholeKinds, PagedKinds, HtmlKinds, DetailKinds, Searched
  <2>2. CASE kind = "smartrecruiters"
    <3>1. SmartInv
      BY <1>5, <1>6, <2>2 DEF Fresh, First, SmartInv, Searched
    <3> QED BY <2>2, <3>1 DEF KindInv, WholeKinds, PagedKinds, HtmlKinds, DetailKinds
  <2>3. CASE kind = "workday"
    <3>1. WorkdayInv
      BY <1>1, <1>2, <2>3 DEF Fresh, First, WorkdayInv, Searched
    <3> QED BY <2>3, <3>1 DEF KindInv, WholeKinds, PagedKinds, HtmlKinds, DetailKinds
  <2>4. CASE kind \in PagedKinds
    <3>1. pc \in {"start", "list"} /\ at = <<1, 0>>
      BY DEF Fresh, First
    <3>2. \E t \in Terms, n \in 0..size :
             /\ at = <<t, n>>
             /\ ~partial => Passed(Postings, t, n) \subseteq Emitted
             /\ alive \/ partial \/ (t = 1 /\ n = 0)
      BY <1>5, <1>6, <3>1
    <3>3. PagedInv
      BY <3>1, <3>2 DEF PagedInv
    <3> QED BY <2>4, <3>3 DEF KindInv, WholeKinds, PagedKinds, HtmlKinds, DetailKinds
  <2>5. CASE kind \in HtmlKinds
    BY <2>5 DEF Fresh, First, KindInv, HtmlInv, WholeKinds, PagedKinds, HtmlKinds, DetailKinds
  <2>6. CASE kind \in DetailKinds
    BY <2>6 DEF Fresh, First, KindInv, DetailInv, WholeKinds, PagedKinds, HtmlKinds, DetailKinds
  <2>7. CASE kind = "workable"
    <3>1. WorkableInv
      BY <1>6, <2>7 DEF Fresh, First, WorkableInv, Searched
    <3> QED BY <2>7, <3>1 DEF KindInv, WholeKinds, PagedKinds, HtmlKinds, DetailKinds
  <2>8. CASE kind = "employer_feed"
    BY <2>8 DEF Fresh, First, KindInv, FeedInv, WholeKinds, PagedKinds, HtmlKinds, DetailKinds
  <2>9. CASE kind \in NoLedger
    BY <2>9 DEF NoLedger, KindInv, WholeKinds, PagedKinds, HtmlKinds, DetailKinds
  <2> QED BY <2>1, <2>2, <2>3, <2>4, <2>5, <2>6, <2>7, <2>8, <2>9
       DEF Fresh, Kinds, Listed, Searched, WholeKinds, PagedKinds, HtmlKinds, DetailKinds, NoLedger
<1> QED BY <1>3, <1>4, <1>7 DEF FetchInv

\* The inductive invariant of the harvest.
HarvestInv == LedgerInv /\ FetchInv

LEMMA InitHarvestInv == Init => HarvestInv
<1> SUFFICES ASSUME Init PROVE HarvestInv
  OBVIOUS
<1>1. Fresh
  BY DEF Init, Fresh, LedgerInit
<1> QED BY <1>1, FreshInv, InitLedgerInv DEF Init, HarvestInv

LEMMA NextRunKept == ASSUME FetchTypeOK, NextRun PROVE Kept
<1>1. Fresh'
  BY DEF FetchTypeOK, NextRun, Fresh, Reset, First
<1>2. FetchInv'
  BY <1>1, FreshInv, PTL
<1> QED BY <1>2 DEF Kept, NextRun, Moves

\* Every step of every source keeps the invariant.
LEMMA StepKept == ASSUME HarvestInv, Next PROVE Kept
<1>1. LedgerInv /\ FetchInv
  BY DEF HarvestInv
<1>2. CASE LoadRegistry
  <2>1. kind \in {"smartrecruiters", "eightfold", "icims", "taleo", "jobvite", "bamboohr"}
    BY <1>2 DEF LoadRegistry
  <2> QED BY <1>1, <1>2, <2>1, SmartSteps, PagedEnd, HtmlSteps, DetailSteps DEF HtmlKinds, DetailKinds
<1>3. CASE LoadCompanies \/ GetBoard \/ ParseGreenhouse \/ ParseLever \/ ParseAshby
  BY <1>1, <1>3, WholeSteps
<1>4. CASE SmartDeadline \/ SmartBreaks \/ SmartPage \/ SmartDetail \/ SmartReport
  BY <1>1, <1>4, SmartSteps DEF SmartDeadline, SmartBreaks, SmartPage, SmartDetail, SmartReport
<1>5. CASE LoadWorkdayList \/ FirstPage \/ OtherPage \/ SearchTerm \/ ListingOver
  BY <1>1, <1>5, WorkdayListing DEF LoadWorkdayList, FirstPage, OtherPage, SearchTerm, ListingOver
<1>6. CASE WorkdaySuccess \/ WorkdayPartial \/ WorkdayTimeout \/ \E p \in read : WorkdayDetail(p)
  <2>1. kind = "workday"
    BY <1>6 DEF WorkdaySuccess, WorkdayPartial, WorkdayTimeout, WorkdayDetail
  <2> QED BY <1>1, <1>6, <2>1, WorkdayEnd
<1>7. CASE AmazonPage \/ EightfoldPage
  BY <1>1, <1>7, PagedPage
<1>8. CASE AmazonReport \/ EightfoldReport
  BY <1>1, <1>8, PagedEnd
<1>9. CASE IcimsPage \/ TaleoPage \/ IcimsReport \/ TaleoReport
  BY <1>1, <1>9, HtmlSteps
<1>10. CASE ListOnce \/ JobviteReport \/ BambooReport \/ \E p \in read : JobviteDetail(p) \/ BambooDetail(p)
  BY <1>1, <1>10, DetailSteps
<1>11. CASE WorkableTerm \/ WorkableReport
  BY <1>1, <1>11, WorkableSteps
<1>12. CASE \/ LoadPartners \/ StartCrawlRun \/ FinishCrawlRun \/ FeedBreaks
            \/ FeedFetch \/ FeedWriteFails \/ FeedReport \/ \E p \in read : FeedRow(p)
  BY <1>1, <1>12, FeedSteps
<1>13. CASE SitemapPages \/ UsaPage \/ AdzunaPage \/ JsonLdPage \/ FeedUrl \/ CommandWrite
  BY <1>1, <1>13, CommandSteps
<1>14. CASE NextRun
  BY <1>1, <1>14, NextRunKept DEF FetchInv
<1> QED BY <1>2, <1>3, <1>4, <1>5, <1>6, <1>7, <1>8, <1>9, <1>10, <1>11, <1>12, <1>13, <1>14 DEF Next

LEMMA StepMoves == ASSUME HarvestInv, [Next]_vars PROVE Moves
<1>1. CASE Next
  BY <1>1, StepKept DEF Kept
<1>2. CASE UNCHANGED vars
  BY <1>2 DEF vars, Moves
<1> QED BY <1>1, <1>2

LEMMA NextHarvestInv == HarvestInv /\ [Next]_vars => HarvestInv'
<1> SUFFICES ASSUME HarvestInv, [Next]_vars PROVE HarvestInv'
  OBVIOUS
<1>1. LedgerInv'
  BY StepMoves, MovesLedgerInv DEF HarvestInv
<1>2. FetchInv'
  <2>1. CASE Next
    BY <2>1, StepKept DEF Kept
  <2>2. CASE UNCHANGED vars
    <3>1. UNCHANGED <<board, pc, at, read, asked, out, stub, partial, alive, facets, aux_fault>> /\ Silent
      BY <2>2 DEF vars, board, Silent, ledger
    <3>2. Moves /\ (Told' <=> Told) /\ (Bad' <=> Bad) /\ (Jobless' <=> Jobless) /\ (Searches' <=> Searches)
      BY <3>1, SilentEffect
    <3>3. Emitted' = Emitted
      BY <3>1 DEF Emitted
    <3>4. FetchTypeOK' /\ FaultInv'
      BY <3>1, <3>2, SameBoard DEF HarvestInv, FetchInv, FetchTypeOK, FaultInv
    <3>5. KindInv'
      BY <3>1, <3>2, <3>3, SameBoard DEF HarvestInv, FetchInv, KindInv, WholeInv, SmartInv, WorkdayInv,
         PagedInv, HtmlInv, DetailInv, WorkableInv, FeedInv
    <3> QED BY <3>4, <3>5 DEF FetchInv
  <2> QED BY <2>1, <2>2
<1> QED BY <1>1, <1>2 DEF HarvestInv

LEMMA HarvestInvariant == Spec => []HarvestInv
  BY InitHarvestInv, NextHarvestInv, PTL DEF Spec

\* In every reachable state the variables of a harvest have their types.
THEOREM HarvestTypeCorrect == Spec => []TypeOK
<1>1. HarvestInv => TypeOK
  BY DEF HarvestInv, LedgerInv, FetchInv, FetchTypeOK, TypeOK
<1> QED BY <1>1, HarvestInvariant, PTL

\* Whatever the requests of a careful source meet, a clean outcome stands for a
\* board of which every posting was emitted: expiry closes nothing that is listed.
THEOREM CleanBoardsAreWhole == Spec => []CleanMeansWhole
<1>1. HarvestInv => CleanMeansWhole
  <2> SUFFICES ASSUME HarvestInv, kind \in Careful, pc = "done", Clean
               PROVE  Emitted = Postings
    BY DEF CleanMeansWhole
  <2>1. ~Bad
    BY DEF Clean, Bad, CleanStatus
  <2>2. FetchTypeOK /\ KindInv
    BY DEF HarvestInv, FetchInv
  <2>3. out = Postings => Emitted = Postings
    BY <2>2 DEF FetchTypeOK, Emitted
  <2>4. CASE kind \in {"greenhouse", "lever"}
    BY <2>1, <2>2, <2>3, <2>4 DEF KindInv, WholeInv, WholeKinds
  <2>5. CASE kind = "smartrecruiters"
    BY <2>1, <2>2, <2>3, <2>5 DEF KindInv, SmartInv
  <2>6. CASE kind \in {"amazon", "eightfold"}
    BY <2>1, <2>2, <2>6 DEF KindInv, PagedInv, PagedKinds
  <2>7. CASE kind = "jobvite"
    BY <2>1, <2>2, <2>3, <2>7 DEF KindInv, DetailInv, DetailKinds
  <2>8. CASE kind = "employer_feed"
    BY <2>1, <2>2, <2>3, <2>8 DEF KindInv, FeedInv
  <2> QED BY <2>4, <2>5, <2>6, <2>7, <2>8 DEF Careful
<1> QED BY <1>1, HarvestInvariant, PTL

\* A Workday fetch that reports postings has emitted at least a stub of each
\* posting it listed, whichever details failed.
THEOREM WorkdayKeepsListed == Spec => []ListedIsKept
<1>1. HarvestInv => ListedIsKept
  BY DEF HarvestInv, FetchInv, KindInv, WorkdayInv, ListedIsKept, Jobless
<1> QED BY <1>1, HarvestInvariant, PTL

\* A fetch that is over has an outcome, also for an empty board, and without a
\* fault a clean one.
THEOREM FetchesAreReported == Spec => []HealthyIsClean
<1>1. HarvestInv => HealthyIsClean
  <2> SUFFICES ASSUME HarvestInv, pc = "done" PROVE HealthyIsClean
    BY DEF HealthyIsClean
  <2>1. LedgerInv /\ FetchTypeOK /\ FaultInv /\ KindInv
    BY DEF HarvestInv, FetchInv
  <2>2. kind \notin NoLedger \cup {"workable"} => Told
    BY <2>1 DEF KindInv, WholeInv, SmartInv, WorkdayInv, PagedInv, HtmlInv, DetailInv, FeedInv,
       WholeKinds, PagedKinds, HtmlKinds, DetailKinds, NoLedger, FetchTypeOK, Kinds, Listed, Searched
  <2>3. kind = "workable" => Searches /\ (~aux_fault /\ size # 0 => Told)
    BY <2>1 DEF KindInv, WorkableInv
  <2>4. Told /\ ~Bad => Clean
    <3>1. "board" \in Tenants
      BY TenantsAssumption
    <3>2. Told => outcome \in Outcome
      BY <2>1, <3>1 DEF LedgerInv, Told, outcome
    <3> QED BY <3>2 DEF Bad, Clean, Outcome, Status
  <2>5. ~aux_fault => ~Bad
    BY <2>1 DEF FaultInv
  <2> QED BY <2>2, <2>3, <2>4, <2>5 DEF HealthyIsClean, Told, Searches
<1> QED BY <1>1, HarvestInvariant, PTL

\* The outcome a harvester leaves for a board depends only on which reports its
\* requests made, never on their order.
THEOREM HarvestOrderDoesNotMatter == Spec => []OrderInsensitive
<1>1. HarvestInv => OrderInsensitive
  BY DEF HarvestInv, LedgerInv
<1> QED BY <1>1, HarvestInvariant, PTL

\* No request of a harvester that succeeds later makes a failed or partial
\* board clean again; only the next run forgets it.
THEOREM HarvestFailuresStick == Spec => FailureSticks
<1>1. HarvestInv /\ [Next]_vars =>
        [\A t \in Tenants : outcomes[t].status \in {"failed", "partial_failure"}
                              => outcomes'[t].status \notin CleanStatus]_ledger
  BY StepMoves, MovesStick DEF HarvestInv
<1> QED BY <1>1, HarvestInvariant, PTL DEF Spec, FailureSticks

=============================================================================
