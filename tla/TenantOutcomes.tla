--------------------------- MODULE TenantOutcomes ---------------------------
(***************************************************************************)
(* The in-process ledger of tenant outcomes of one harvester process       *)
(* (python/crawl_observability.py).                                        *)
(*                                                                         *)
(* Fetch threads report what became of the pages of a board, several       *)
(* times per tenant and in any order; the ledger keeps one merged outcome  *)
(* per tenant.  Expiry may close the postings of a tenant whose outcome is *)
(* complete, so what matters is what a merge forgets.                      *)
(***************************************************************************)
EXTENDS Naturals

CONSTANTS
    Tenants,      \* the boards one harvester process crawls
    Counts,       \* the job counts a fetch thread may report
    MaxReports    \* bound on the number of reports between two resets

ASSUME CountsAssumption == Counts \subseteq Nat
ASSUME MaxReportsAssumption == MaxReports \in Nat

VARIABLES
    outcomes,     \* the module's _outcomes dict: the merged outcome, or Absent
    aux_reports,  \* history: the set of reports each tenant received
    aux_count     \* history: how many reports were made since the last reset

ledger == <<outcomes, aux_reports, aux_count>>

CleanStatus == {"complete_nonzero", "complete_zero"}
Status == CleanStatus \cup {"partial_failure", "failed"}
Outcome == [status : Status, jobs : Nat, errors : Nat]
Absent == [status |-> "absent", jobs |-> 0, errors |-> 0]

-----------------------------------------------------------------------------

\* What record_success and record_failure build before they take the lock.
SuccessReport(n) ==
    [status |-> IF n > 0 THEN "complete_nonzero" ELSE "complete_zero",
     jobs |-> n, errors |-> 0]

FailureReport(partial) ==
    [status |-> IF partial THEN "partial_failure" ELSE "failed",
     jobs |-> 0, errors |-> 1]

Larger(m, n) == IF m >= n THEN m ELSE n

\* Seeded fault: the last report of a tenant replaces what was known of it.
LastReportWins(cur, inc) == inc.status

\* A mix of failure and success is partial, and partial absorbs everything.
MergedStatus(cur, inc) ==
    LET statuses == {cur.status, inc.status}
    IN  IF "partial_failure" \in statuses \/ ("failed" \in statuses /\ cur.status # inc.status)
        THEN "partial_failure"
        ELSE IF "failed" \in statuses THEN "failed"
        ELSE IF Larger(cur.jobs, inc.jobs) > 0 THEN "complete_nonzero" ELSE "complete_zero"

Merge(cur, inc) ==
    IF cur = Absent
    THEN inc
    ELSE [status |-> MergedStatus(cur, inc),
          jobs   |-> Larger(cur.jobs, inc.jobs),
          errors |-> cur.errors + inc.errors]

-----------------------------------------------------------------------------

LedgerInit ==
    /\ outcomes = [t \in Tenants |-> Absent]
    /\ aux_reports = [t \in Tenants |-> {}]
    /\ aux_count = 0

\* The read of the old outcome, the merge and the store are one critical
\* section, so a report is one step.
Record(t, report) ==
    /\ aux_count < MaxReports
    /\ outcomes' = [outcomes EXCEPT ![t] = Merge(@, report)]
    /\ aux_reports' = [aux_reports EXCEPT ![t] = @ \cup {report}]
    /\ aux_count' = aux_count + 1

RecordSuccess(t, n) == Record(t, SuccessReport(n))

RecordFailure(t, partial) == Record(t, FailureReport(partial))

\* run_ingestion clears the ledger before the first fetch.
Reset ==
    /\ outcomes' = [t \in Tenants |-> Absent]
    /\ aux_reports' = [t \in Tenants |-> {}]
    /\ aux_count' = 0

LedgerNext ==
    \/ \E t \in Tenants, n \in Counts : RecordSuccess(t, n)
    \/ \E t \in Tenants, partial \in BOOLEAN : RecordFailure(t, partial)
    \/ Reset

LedgerSpec == LedgerInit /\ [][LedgerNext]_ledger

-----------------------------------------------------------------------------

LedgerTypeOK ==
    /\ outcomes \in [Tenants -> Outcome \cup {Absent}]
    /\ aux_reports \in [Tenants -> SUBSET Outcome]
    /\ aux_count \in Nat

\* What a tenant's reports amount to, read off the set of them without their
\* order: the definition the incremental merge has to agree with.
Verdict(reports) ==
    LET failed  == \E r \in reports : r.status = "failed"
        partial == \E r \in reports : r.status = "partial_failure"
        clean   == \E r \in reports : r.status \in CleanStatus
    IN  IF reports = {} THEN "absent"
        ELSE IF partial \/ (failed /\ clean) THEN "partial_failure"
        ELSE IF failed THEN "failed"
        ELSE IF \E r \in reports : r.jobs > 0 THEN "complete_nonzero" ELSE "complete_zero"

\* The stored outcome of a tenant is the verdict on the set of its reports:
\* fetch threads that finish in another order, or report twice, leave the
\* same outcome (_merge, record_success and record_failure).
OrderInsensitive ==
    \A t \in Tenants : outcomes[t].status = Verdict(aux_reports[t])

\* A tenant with a failed or partial outcome is never promoted to a clean one
\* by later successes of the same process: only reset() forgets a failure.
FailureSticks ==
    [][\A t \in Tenants :
         outcomes[t].status \in {"failed", "partial_failure"}
           => outcomes'[t].status \notin CleanStatus]_ledger

=============================================================================
