--------------------------- MODULE CrawlLifecycle ---------------------------
(***************************************************************************)
(* One checkpointed ATS source over several nights: the sweep that cuts    *)
(* the tenant inventory in batches (python/ingest_workday_resumable.py),   *)
(* the child harvester that crawls, writes and logs one batch              *)
(* (run_ingestion of python/ingest_jobs.py), the ingest gate               *)
(* (python/airflow_quality_gate.py) and the expiry of postings that were   *)
(* not seen (python/expire_jobs.py).                                       *)
(*                                                                         *)
(* Each step is one committed database transaction, or the choice of what  *)
(* the network and the operating system do.  Timestamps are counted in     *)
(* registered crawl runs: run k started when the k-th row was inserted, so *)
(* started_at is the position of the run in `runs`, and a transaction that *)
(* began when n runs were registered has now() = n.  Then                  *)
(* last_seen_at >= started_at of run k  is  row[j].seen >= k.              *)
(*                                                                         *)
(* complete_nonzero and complete_zero are both "complete": no decision of  *)
(* the modelled code tells them apart.                                     *)
(***************************************************************************)
EXTENDS Naturals, Sequences, FiniteSets

CONSTANTS
    Tenants,      \* the inventory of the source: its employer boards
    Jobs,         \* the postings the boards may list
    TenantOf,     \* the board of each posting (job_postings.crawl_tenant)
    Slots,        \* children that may run at once: one for Workday, several
                  \* for SmartRecruiters
    BatchSize,    \* tenants per child
    CommitSize,   \* postings per transaction (INGEST_COMMIT_BATCH_SIZE)
    MaxNights,    \* bound on the number of orchestrations
    MaxFaults     \* bound on crashes, kills and failed bookkeeping transactions

ASSUME TenantOfAssumption == TenantOf \in [Jobs -> Tenants]
ASSUME BoundsAssumption ==
    BatchSize \in Nat \ {0} /\ CommitSize \in Nat \ {0} /\ MaxNights \in Nat /\ MaxFaults \in Nat

VARIABLES
    row,          \* job_postings: status and last_seen_at per posting
    runs,         \* ingestion_crawl_runs of the children, in started_at order
    tenantRuns,   \* ingestion_tenant_runs
    sweep,        \* the latest checkpoint_sweep row of the night
    queue,        \* tenants the sweep process has not started yet
    verdicts,     \* what the sweep learnt from exit codes: outage, abort
    child,        \* the child process in each slot
    night,        \* the orchestration in progress
    nightStart,   \* how many runs were registered before it
    attempt,      \* Airflow attempt of the sweep task
    phase,        \* where the night is
    cutoff,       \* expiry's now() - 1 day, in registered runs
    faults        \* faults injected so far

crawlVars == <<row, runs, tenantRuns, child>>
sweepVars == <<sweep, queue, verdicts, attempt>>
nightVars == <<night, nightStart, phase, cutoff>>
vars == <<crawlVars, sweepVars, nightVars, faults>>

-----------------------------------------------------------------------------
(* Types *)

TenantStatus == {"complete", "partial_failure", "failed"}

Row == [status : {"absent", "raw", "expired"}, seen : Nat]

\* aux_listing is what the fetch returned and the row gates accept; the code
\* stores only its size (jobs_fetched).
Run == [night : Nat, status : {"running", "complete", "partial_failure", "source_failure"},
        errors : BOOLEAN, aux_listing : SUBSET Jobs]

\* inferred marks the rows of the compatibility fallback.
TenantRun == [run : Nat, tenant : Tenants, status : TenantStatus, inferred : BOOLEAN]

Child == [pc      : {"idle", "fetched", "writing", "committing", "exited"},
          batch   : SUBSET Tenants,
          outcome : [Tenants -> TenantStatus \cup {"none"}],
          listing : SUBSET Jobs,
          run     : Nat,
          pending : SUBSET Jobs,      \* accepted postings not written yet
          txn     : SUBSET Jobs,      \* postings of the open transaction
          now     : Nat,              \* now() of the open transaction
          errors  : BOOLEAN,
          exit    : {"success", "outage", "failure"}]

IdleChild == [pc |-> "idle", batch |-> {}, outcome |-> [t \in Tenants |-> "none"],
              listing |-> {}, run |-> 0, pending |-> {}, txn |-> {}, now |-> 0,
              errors |-> FALSE, exit |-> "success"]

TypeOK ==
    /\ row \in [Jobs -> Row]
    /\ runs \in Seq(Run)
    /\ tenantRuns \subseteq TenantRun
    /\ sweep \in [state : {"none", "running", "finished"},
                  status : {"running", "complete", "source_failure"}, errors : BOOLEAN]
    /\ queue \subseteq Tenants
    /\ verdicts \subseteq {"outage", "abort"}
    /\ child \in [Slots -> Child]
    /\ night \in Nat /\ nightStart \in Nat /\ attempt \in {1, 2}
    /\ phase \in {"crawl", "sweeping", "gate", "expire", "swept", "skipped"}
    /\ cutoff \in Nat /\ faults \in Nat

Init ==
    /\ row = [j \in Jobs |-> [status |-> "absent", seen |-> 0]]
    /\ runs = <<>>
    /\ tenantRuns = {}
    /\ sweep = [state |-> "none", status |-> "running", errors |-> FALSE]
    /\ queue = {}
    /\ verdicts = {}
    /\ child = [s \in Slots |-> IdleChild]
    /\ night = 1 /\ nightStart = 0 /\ attempt = 1
    /\ phase = "crawl"
    /\ cutoff = 0
    /\ faults = 0

-----------------------------------------------------------------------------
(* What the bookkeeping tables say of the current orchestration *)

RunIds == 1 .. Len(runs)

Tonight(k) == runs[k].night = night

CleanRun(k) == runs[k].status = "complete" /\ ~runs[k].errors

Attempts(t) == {tr \in tenantRuns : tr.tenant = t /\ Tonight(tr.run)}

\* completed_tenants: any clean attempt of the orchestration counts.
Completed ==
    {t \in Tenants : \E tr \in Attempts(t) : tr.status = "complete" /\ CleanRun(tr.run)}

\* The tenants sweep_record finds a terminal outcome for.
Terminal ==
    {t \in Tenants : \E tr \in Attempts(t) :
        runs[tr.run].status # "running" /\ ~runs[tr.run].errors}

\* Seeded fault: a board that was only partly read may be closed as well.
ReadAtAll ==
    {t \in Tenants : \E tr \in Attempts(t) :
        /\ \A other \in Attempts(t) : other.run <= tr.run
        /\ tr.status # "failed" /\ CleanRun(tr.run)}

\* expire_jobs' expiry_clean_tenants: the latest attempt by started_at wins.
CleanTenants ==
    {t \in Tenants : \E tr \in Attempts(t) :
        /\ \A other \in Attempts(t) : other.run <= tr.run
        /\ tr.status = "complete" /\ CleanRun(tr.run)}

\* The boundary row of the source: the latest checkpoint sweep owns it.
SourceHealthy == sweep.state = "finished" /\ sweep.status = "complete" /\ ~sweep.errors

-----------------------------------------------------------------------------
(* The sweep process *)

\* Seeded fault: a retry crawls the whole inventory again.
PendingWithoutCheckpoints == Tenants

\* Plan the inventory without the tenants the orchestration already completed
\* and open a checkpoint_sweep row.
Pending == Tenants \ Completed

BeginSweep ==
    /\ phase = "crawl"
    /\ phase' = "sweeping"
    /\ queue' = Pending
    /\ verdicts' = {}
    /\ sweep' = [state |-> "running", status |-> "running", errors |-> FALSE]
    /\ UNCHANGED <<crawlVars, attempt, night, nightStart, cutoff, faults>>

\* The next n elements of a work list, or all that are left.
IsCut(S, work, n) ==
    /\ S \subseteq work /\ S # {}
    /\ Cardinality(S) = n \/ (S = work /\ Cardinality(S) < n)

\* A fetch may return, for a complete or partial tenant, any of its postings.
Fetchable(B, reported) == {j \in Jobs : TenantOf[j] \in B /\ reported[TenantOf[j]] # "failed"}

\* A child that crawled batch B: one outcome per tenant and the accepted postings.
Fetched(B, reported, listing) ==
    [IdleChild EXCEPT !.pc = "fetched", !.batch = B, !.listing = listing, !.pending = listing,
                      !.outcome = [t \in Tenants |-> IF t \in B THEN reported[t] ELSE "none"]]

\* A free slot takes the next batch and its child crawls it.
StartChild(s) ==
    /\ phase = "sweeping" /\ "abort" \notin verdicts
    /\ child[s].pc = "idle"
    /\ \E B \in SUBSET queue :
         /\ IsCut(B, queue, BatchSize)
         /\ queue' = queue \ B
         /\ \E reported \in [B -> TenantStatus] :
              \E listing \in SUBSET Fetchable(B, reported) :
                child' = [child EXCEPT ![s] = Fetched(B, reported, listing)]
    /\ UNCHANGED <<row, runs, tenantRuns, sweep, verdicts, attempt, nightVars, faults>>

Exit(s, code) == [child EXCEPT ![s] = [@ EXCEPT !.pc = "exited", !.exit = code]]

ExplicitRows(s, k) ==
    {[run |-> k, tenant |-> t, status |-> child[s].outcome[t], inferred |-> FALSE] :
        t \in child[s].batch}

\* No accepted posting: run row and outcomes in one transaction.  Any complete
\* tenant makes it a verified empty crawl, otherwise the child reports an outage.
FinishEmpty(s) ==
    /\ child[s].pc = "fetched" /\ child[s].listing = {}
    /\ LET k == Len(runs) + 1
           verified == \E t \in child[s].batch : child[s].outcome[t] = "complete"
       IN  /\ runs' = Append(runs, [night |-> night, errors |-> FALSE, aux_listing |-> {},
                                    status |-> IF verified THEN "complete" ELSE "source_failure"])
           /\ tenantRuns' = tenantRuns \cup ExplicitRows(s, k)
           /\ child' = Exit(s, IF verified THEN "success" ELSE "outage")
    /\ UNCHANGED <<row, sweepVars, nightVars, faults>>

\* The 'running' row is committed before the first posting is written.
Register(s) ==
    /\ child[s].pc = "fetched" /\ child[s].listing # {}
    /\ runs' = Append(runs, [night |-> night, status |-> "running", errors |-> FALSE,
                             aux_listing |-> child[s].listing])
    /\ child' = [child EXCEPT ![s] = [@ EXCEPT !.pc = "writing", !.run = Len(runs) + 1]]
    /\ UNCHANGED <<row, tenantRuns, sweepVars, nightVars, faults>>

\* The schema transaction fails: run_ingestion logs it and returns normally.
RegisterFails(s) ==
    /\ child[s].pc = "fetched" /\ child[s].listing # {}
    /\ faults < MaxFaults /\ faults' = faults + 1
    /\ child' = Exit(s, "success")
    /\ UNCHANGED <<row, runs, tenantRuns, sweepVars, nightVars>>

\* The first statement after a commit opens the next transaction and fixes its now().
BeginBatch(s) ==
    /\ child[s].pc = "writing" /\ child[s].pending # {}
    /\ \E S \in SUBSET child[s].pending :
         /\ IsCut(S, child[s].pending, CommitSize)
         /\ child' = [child EXCEPT ![s] = [@ EXCEPT !.pc = "committing", !.txn = S, !.now = Len(runs)]]
    /\ UNCHANGED <<row, runs, tenantRuns, sweepVars, nightVars, faults>>

\* ingest_job on one posting: the upsert reopens it; a posting without a
\* description only refreshes last_seen_at of an existing row; an error is
\* rolled back to its savepoint.
Written(j, how, now) ==
    IF how = "upsert" THEN [status |-> "raw", seen |-> now]
    ELSE IF how = "refresh" /\ row[j].status # "absent" THEN [row[j] EXCEPT !.seen = now]
    ELSE row[j]

Committed(c, how) ==
    [c EXCEPT !.pc = "writing", !.pending = @ \ c.txn, !.txn = {},
              !.errors = @ \/ \E j \in c.txn : how[j] = "error"]

CommitBatch(s) ==
    /\ child[s].pc = "committing"
    /\ \E how \in [child[s].txn -> {"upsert", "refresh", "error"}] :
         /\ row' = [j \in Jobs |-> IF j \in child[s].txn
                                   THEN Written(j, how[j], child[s].now) ELSE row[j]]
         /\ child' = [child EXCEPT ![s] = Committed(@, how)]
    /\ UNCHANGED <<runs, tenantRuns, sweepVars, nightVars, faults>>

\* The compatibility fallback: a tenant without an explicit outcome of this
\* run counts as complete when any of its postings was seen since the run started.
InferredTenants(s) ==
    {t \in Tenants :
        /\ child[s].outcome[t] = "none"
        /\ \E j \in Jobs : /\ TenantOf[j] = t
                           /\ row[j].status # "absent"
                           /\ row[j].seen >= child[s].run}

InferredRows(s, k) ==
    {[run |-> k, tenant |-> t, status |-> "complete", inferred |-> TRUE] :
        t \in InferredTenants(s)}

\* The run row when it is closed.
Closed(s) ==
    [runs[child[s].run] EXCEPT !.status = IF child[s].errors THEN "partial_failure" ELSE "complete",
                               !.errors = child[s].errors]

\* Outcomes, fallback and the closing of the run row: one transaction.
LogRun(s) ==
    /\ child[s].pc = "writing" /\ child[s].pending = {}
    /\ tenantRuns' = tenantRuns \cup ExplicitRows(s, child[s].run) \cup InferredRows(s, child[s].run)
    /\ runs' = [runs EXCEPT ![child[s].run] = Closed(s)]
    /\ child' = Exit(s, IF child[s].errors THEN "failure" ELSE "success")
    /\ UNCHANGED <<row, sweepVars, nightVars, faults>>

\* The log of pipeline_runs fails between the two: log_pipeline_run catches it
\* and rolls the connection back, so the outcomes are lost and the run is closed.
LogLosesRows(s) ==
    /\ child[s].pc = "writing" /\ child[s].pending = {}
    /\ faults < MaxFaults /\ faults' = faults + 1
    /\ runs' = [runs EXCEPT ![child[s].run] = Closed(s)]
    /\ child' = Exit(s, IF child[s].errors THEN "failure" ELSE "success")
    /\ UNCHANGED <<row, tenantRuns, sweepVars, nightVars>>

\* That transaction fails: a warning, the row stays 'running', exit code as before.
LogFails(s) ==
    /\ child[s].pc = "writing" /\ child[s].pending = {}
    /\ faults < MaxFaults /\ faults' = faults + 1
    /\ child' = Exit(s, IF child[s].errors THEN "failure" ELSE "success")
    /\ UNCHANGED <<row, runs, tenantRuns, sweepVars, nightVars>>

\* The child dies; its open transaction rolls back.
CrashChild(s) ==
    /\ child[s].pc \in {"fetched", "writing", "committing"}
    /\ faults < MaxFaults /\ faults' = faults + 1
    /\ child' = Exit(s, "failure")
    /\ UNCHANGED <<row, runs, tenantRuns, sweepVars, nightVars>>

\* The sweep reads the exit code: 3 is an outage it survives, anything else
\* that is not 0 cancels the batches that have not started.
Reap(s) ==
    /\ child[s].pc = "exited"
    /\ verdicts' = verdicts \cup (IF child[s].exit = "success" THEN {}
                                  ELSE IF child[s].exit = "outage" THEN {"outage"}
                                  ELSE {"abort"})
    /\ child' = [child EXCEPT ![s] = IdleChild]
    /\ UNCHANGED <<row, runs, tenantRuns, sweep, queue, attempt, nightVars, faults>>

\* Airflow retries a failed task once; the gate runs whatever happened.
EndAttempt(failed) ==
    IF failed /\ attempt = 1
    THEN phase' = "crawl" /\ attempt' = 2
    ELSE phase' = "gate" /\ UNCHANGED attempt

\* Seeded fault: the sweep trusts its exit codes and accounts for nobody.
TrustExitCodes == "abort" \in verdicts

Fatal == "abort" \in verdicts \/ Tenants \ Terminal # {}

\* Seeded fault: the sweep waits for batches an abort has cancelled.
QueueDrained == queue = {}

NothingToStart == queue = {} \/ "abort" \in verdicts

FinishSweep ==
    /\ phase = "sweeping"
    /\ NothingToStart
    /\ \A s \in Slots : child[s].pc = "idle"
    /\ LET status == IF Fatal \/ Completed = {} THEN "source_failure" ELSE "complete"
       IN  /\ sweep' = [state |-> "finished", status |-> status, errors |-> Fatal]
           /\ EndAttempt(verdicts # {} \/ status = "source_failure")
    /\ UNCHANGED <<crawlVars, queue, verdicts, night, nightStart, cutoff, faults>>

\* The task process group is killed: its children die with it and the sweep
\* row stays 'running'.
KillSweep ==
    /\ phase = "sweeping"
    /\ faults < MaxFaults /\ faults' = faults + 1
    /\ child' = [s \in Slots |-> IdleChild]
    /\ EndAttempt(TRUE)
    /\ UNCHANGED <<row, runs, tenantRuns, sweep, queue, verdicts, night, nightStart, cutoff>>

-----------------------------------------------------------------------------
(* The rest of the night *)

IngestGate ==
    /\ phase = "gate"
    /\ phase' = IF SourceHealthy THEN "expire" ELSE "skipped"
    /\ UNCHANGED <<crawlVars, sweepVars, night, nightStart, cutoff, faults>>

Old(j) == row[j].seen < cutoff'

\* Seeded fault: expiry closes postings and never reopens one.
NeverReopened(j) ==
    IF row[j].status = "raw" /\ TenantOf[j] \in CleanTenants /\ Old(j)
    THEN [row[j] EXCEPT !.status = "expired"]
    ELSE row[j]

\* One transaction: close the open postings of clean tenants that were not seen
\* for a day, then reopen the closed ones that were.
Swept(j) ==
    IF row[j].status = "raw" /\ TenantOf[j] \in CleanTenants /\ Old(j)
    THEN [row[j] EXCEPT !.status = "expired"]
    ELSE IF row[j].status = "expired" /\ ~Old(j)
    THEN [row[j] EXCEPT !.status = "raw"]
    ELSE row[j]

\* A night is shorter than a day, so what was seen tonight is never old.
ExpireJobs ==
    /\ phase = "expire" /\ SourceHealthy
    /\ cutoff' \in cutoff .. nightStart + 1
    /\ row' = [j \in Jobs |-> Swept(j)]
    /\ phase' = "swept"
    /\ UNCHANGED <<runs, tenantRuns, child, sweepVars, night, nightStart, faults>>

BeginNight ==
    /\ phase \in {"swept", "skipped"}
    /\ night < MaxNights
    /\ night' = night + 1
    /\ nightStart' = Len(runs)
    /\ attempt' = 1
    /\ phase' = "crawl"
    /\ sweep' = [state |-> "none", status |-> "running", errors |-> FALSE]
    /\ UNCHANGED <<crawlVars, queue, verdicts, cutoff, faults>>

-----------------------------------------------------------------------------

ChildStep(s) ==
    \/ FinishEmpty(s) \/ Register(s) \/ RegisterFails(s)
    \/ BeginBatch(s) \/ CommitBatch(s)
    \/ LogRun(s) \/ LogLosesRows(s) \/ LogFails(s)

NightStep == BeginSweep \/ FinishSweep \/ IngestGate \/ ExpireJobs

Next ==
    \/ \E s \in Slots : StartChild(s) \/ ChildStep(s) \/ CrashChild(s) \/ Reap(s)
    \/ NightStep
    \/ KillSweep
    \/ BeginNight

Spec == Init /\ [][Next]_vars

\* The operating system runs the processes and Airflow starts the next task;
\* nothing has to crash, and no further night has to begin.
FairSpec ==
    /\ Spec
    /\ WF_vars(NightStep)
    /\ \A s \in Slots : WF_vars(StartChild(s)) /\ WF_vars(ChildStep(s)) /\ WF_vars(Reap(s))

-----------------------------------------------------------------------------
(* Properties *)

\* Tonight some error-free finished run crawled the whole board and the
\* posting was not on it.
SeenGone(j) ==
    \E tr \in Attempts(TenantOf[j]) :
        /\ tr.status = "complete" /\ ~tr.inferred
        /\ CleanRun(tr.run)
        /\ j \notin runs[tr.run].aux_listing

\* A step closes a posting only on evidence of the same night: a crawl that
\* itself reported the posting's board complete, in a run without write errors,
\* and did not find the posting (the expiry transaction of expire_jobs.py; the
\* comment above the tenant accounting of run_ingestion: "never inferred
\* completion from an unrelated tenant's success").
ClosureAuthorised ==
    [][\A j \in Jobs : row[j].status = "raw" /\ row'[j].status = "expired" => SeenGone(j)]_vars

\* When expiry may start, every board of the inventory has an outcome that a
\* child reported in an error-free finished run of this night, whatever crashed
\* or failed to be logged before (sweep_record's unaccounted tenants).
EveryTenantAccounted ==
    phase = "expire" =>
        \A t \in Tenants : \E tr \in Attempts(t) :
            ~tr.inferred /\ runs[tr.run].status # "running" /\ ~runs[tr.run].errors

\* The two readings of the bookkeeping agree: a board that completed_tenants
\* makes a retry skip keeps its right to expiry, so no retry leaves a
\* later partial attempt on top of the clean one.
CleanStaysClean == Completed \subseteq CleanTenants

\* After the expiry transaction no posting written since the night began is
\* closed, the ones whose re-crawl only refreshed last_seen_at included.
SeenStaysOpen ==
    phase = "swept" => \A j \in Jobs : row[j].seen > nightStart => row[j].status = "raw"

\* Every night ends: it expires or is skipped, whatever failed on the way.
NightEnds == phase = "crawl" ~> phase \in {"swept", "skipped"}

=============================================================================
