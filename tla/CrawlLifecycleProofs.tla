------------------------ MODULE CrawlLifecycleProofs ------------------------
(***************************************************************************)
(* Proofs about CrawlLifecycle.  Type correctness holds for every number   *)
(* of concurrent children; the safety properties hold when a sweep runs    *)
(* one child at a time, as the Workday sweep does.                         *)
(***************************************************************************)
EXTENDS CrawlLifecycle, TLAPS

\* A child that writes has registered its run, and a child has an outcome for
\* exactly the tenants of its batch.
ChildOK(c, n) ==
    /\ c.pc \in {"writing", "committing"} => c.run \in 1 .. n
    /\ \A t \in Tenants : c.outcome[t] = "none" <=> t \notin c.batch

TypeInv == TypeOK /\ \A s \in Slots : ChildOK(child[s], Len(runs))

LEMMA IdleChildType == IdleChild \in Child /\ \A n \in Nat : ChildOK(IdleChild, n)
  BY DEF IdleChild, Child, ChildOK

LEMMA ChildOKMonotone ==
    ASSUME NEW c \in Child, NEW m \in Nat, NEW n \in Nat, m <= n, ChildOK(c, m)
    PROVE  ChildOK(c, n)
  BY DEF ChildOK, Child

\* A step of one child leaves the other slots alone.
LEMMA ChildUpdate ==
    ASSUME child \in [Slots -> Child], \A s \in Slots : ChildOK(child[s], Len(runs)),
           Len(runs) \in Nat, Len(runs') \in Nat, Len(runs) <= Len(runs'),
           NEW s \in Slots, NEW c \in Child, ChildOK(c, Len(runs')),
           child' = [child EXCEPT ![s] = c]
    PROVE  /\ child' \in [Slots -> Child]
           /\ \A r \in Slots : ChildOK(child'[r], Len(runs'))
<1>1. child' \in [Slots -> Child] /\ child'[s] = c /\ \A r \in Slots \ {s} : child'[r] = child[r]
  OBVIOUS
<1>2. \A r \in Slots : ChildOK(child[r], Len(runs'))
  BY ChildOKMonotone
<1> QED
  BY <1>1, <1>2

\* Exit only changes the program counter and the exit code.
LEMMA ExitType ==
    ASSUME NEW c \in Child, NEW n \in Nat, ChildOK(c, n),
           NEW code \in {"success", "outage", "failure"}
    PROVE  /\ [c EXCEPT !.pc = "exited", !.exit = code] \in Child
           /\ ChildOK([c EXCEPT !.pc = "exited", !.exit = code], n)
  BY DEF Child, ChildOK

\* The rows a child records for its own batch.
LEMMA ExplicitType ==
    ASSUME NEW s \in Slots, child[s] \in Child, NEW k \in Nat, NEW n, ChildOK(child[s], n)
    PROVE  ExplicitRows(s, k) \subseteq TenantRun
<1> SUFFICES ASSUME NEW t \in child[s].batch
             PROVE  [run |-> k, tenant |-> t, status |-> child[s].outcome[t], inferred |-> FALSE]
                      \in TenantRun
  BY DEF ExplicitRows
<1>1. t \in Tenants /\ child[s].outcome[t] \in TenantStatus
  BY DEF Child, ChildOK
<1> QED
  BY <1>1 DEF TenantRun

LEMMA TypeInit == Init => TypeInv
<1> SUFFICES ASSUME Init PROVE TypeInv
  OBVIOUS
<1>1. row \in [Jobs -> Row]
  BY DEF Init, Row
<1>2. child \in [Slots -> Child] /\ \A s \in Slots : ChildOK(child[s], Len(runs))
  BY IdleChildType DEF Init
<1> QED
  BY <1>1, <1>2 DEF Init, TypeInv, TypeOK

LEMMA TypeStartChild ==
    ASSUME TypeInv, NEW s \in Slots, StartChild(s) PROVE TypeInv'
<1> USE DEF TypeInv, TypeOK
<1>1. PICK B \in SUBSET queue :
        /\ queue' = queue \ B
        /\ \E reported \in [B -> TenantStatus] :
             \E listing \in SUBSET Fetchable(B, reported) :
               child' = [child EXCEPT ![s] = Fetched(B, reported, listing)]
  BY DEF StartChild
<1>2. PICK reported \in [B -> TenantStatus] :
        \E listing \in SUBSET Fetchable(B, reported) :
          child' = [child EXCEPT ![s] = Fetched(B, reported, listing)]
  BY <1>1
<1>3. PICK listing \in SUBSET Fetchable(B, reported) :
        child' = [child EXCEPT ![s] = Fetched(B, reported, listing)]
  BY <1>2
<1>4. listing \subseteq Jobs /\ B \subseteq Tenants
  BY DEF Fetchable
<1>5. Fetched(B, reported, listing) \in Child
  BY <1>4 DEF Fetched, IdleChild, Child
<1>6. ChildOK(Fetched(B, reported, listing), Len(runs'))
  BY <1>4 DEF Fetched, IdleChild, ChildOK, TenantStatus
<1>7. UNCHANGED <<row, runs, tenantRuns, sweep, verdicts, attempt, night, nightStart, phase, cutoff, faults>>
  BY DEF StartChild, nightVars
<1>8. child' \in [Slots -> Child] /\ \A r \in Slots : ChildOK(child'[r], Len(runs'))
  BY <1>3, <1>5, <1>6, <1>7, ChildUpdate
<1> QED
  BY <1>1, <1>7, <1>8

LEMMA TypeFinishEmpty ==
    ASSUME TypeInv, NEW s \in Slots, FinishEmpty(s) PROVE TypeInv'
<1> USE DEF TypeInv, TypeOK
<1> DEFINE verified == \E t \in child[s].batch : child[s].outcome[t] = "complete"
           new == [night |-> night, errors |-> FALSE, aux_listing |-> {},
                   status |-> IF verified THEN "complete" ELSE "source_failure"]
           code == IF verified THEN "success" ELSE "outage"
           c == [child[s] EXCEPT !.pc = "exited", !.exit = code]
<1>1. new \in Run
  BY DEF Run
<1>2. runs' = Append(runs, new) /\ tenantRuns' = tenantRuns \cup ExplicitRows(s, Len(runs) + 1)
      /\ child' = [child EXCEPT ![s] = c]
  BY DEF FinishEmpty, Exit
<1>3. /\ runs' \in Seq(Run) /\ Len(runs') = Len(runs) + 1
      /\ Len(runs) \in Nat /\ Len(runs') \in Nat /\ Len(runs) <= Len(runs')
  <2> HIDE DEF new
  <2>1. runs' \in Seq(Run) /\ Len(runs') = Len(runs) + 1 /\ Len(runs) \in Nat
    BY <1>1, <1>2
  <2> QED BY <2>1
<1>4. tenantRuns' \subseteq TenantRun
  BY <1>2, <1>3, ExplicitType
<1>5. code \in {"success", "outage", "failure"}
  OBVIOUS
<1>6. c \in Child /\ ChildOK(c, Len(runs'))
  <2> HIDE DEF code
  <2>1. ChildOK(child[s], Len(runs'))
    BY <1>3, ChildOKMonotone
  <2> QED BY <1>3, <1>5, <2>1, ExitType
<1>7. child' \in [Slots -> Child] /\ \A r \in Slots : ChildOK(child'[r], Len(runs'))
  <2> HIDE DEF c
  <2> QED BY <1>2, <1>3, <1>6, ChildUpdate
<1> QED
  BY <1>3, <1>4, <1>7 DEF FinishEmpty, sweepVars, nightVars

LEMMA TypeRegister ==
    ASSUME TypeInv, NEW s \in Slots, Register(s) PROVE TypeInv'
<1> USE DEF TypeInv, TypeOK
<1> DEFINE new == [night |-> night, status |-> "running", errors |-> FALSE,
                   aux_listing |-> child[s].listing]
           c == [child[s] EXCEPT !.pc = "writing", !.run = Len(runs) + 1]
<1>1. new \in Run
  BY DEF Run, Child
<1>2. runs' = Append(runs, new) /\ child' = [child EXCEPT ![s] = c]
  BY DEF Register
<1>3. /\ runs' \in Seq(Run) /\ Len(runs') = Len(runs) + 1
      /\ Len(runs) \in Nat /\ Len(runs') \in Nat /\ Len(runs) <= Len(runs')
  <2> HIDE DEF new
  <2>1. runs' \in Seq(Run) /\ Len(runs') = Len(runs) + 1 /\ Len(runs) \in Nat
    BY <1>1, <1>2
  <2> QED BY <2>1
<1>4. c \in Child /\ ChildOK(c, Len(runs'))
  <2>1. child[s] \in Child /\ ChildOK(child[s], Len(runs)) /\ Len(runs) + 1 \in 1 .. Len(runs')
    BY <1>3
  <2>2. c \in Child
    BY <1>3, <2>1 DEF Child
  <2>3. ChildOK(c, Len(runs'))
    BY <1>3, <2>1 DEF Child, ChildOK
  <2> QED BY <2>2, <2>3
<1>5. child' \in [Slots -> Child] /\ \A r \in Slots : ChildOK(child'[r], Len(runs'))
  <2> HIDE DEF c
  <2> QED BY <1>2, <1>3, <1>4, ChildUpdate
<1> QED
  BY <1>3, <1>5 DEF Register, sweepVars, nightVars

LEMMA TypeBeginBatch ==
    ASSUME TypeInv, NEW s \in Slots, BeginBatch(s) PROVE TypeInv'
<1> USE DEF TypeInv, TypeOK
<1>1. PICK S \in SUBSET child[s].pending :
        child' = [child EXCEPT ![s] = [@ EXCEPT !.pc = "committing", !.txn = S, !.now = Len(runs)]]
  BY DEF BeginBatch
<1> DEFINE c == [child[s] EXCEPT !.pc = "committing", !.txn = S, !.now = Len(runs)]
<1>2. UNCHANGED <<row, runs, tenantRuns, sweep, queue, verdicts, attempt, night, nightStart,
                  phase, cutoff, faults>> /\ Len(runs) \in Nat
  BY DEF BeginBatch, sweepVars, nightVars
<1>3. c \in Child /\ ChildOK(c, Len(runs'))
  <2>1. child[s] \in Child /\ ChildOK(child[s], Len(runs)) /\ child[s].pc = "writing"
    BY DEF BeginBatch
  <2>2. c \in Child
    BY <1>2, <2>1 DEF Child
  <2>3. ChildOK(c, Len(runs'))
    BY <1>2, <2>1 DEF Child, ChildOK
  <2> QED BY <2>2, <2>3
<1>4. child' = [child EXCEPT ![s] = c]
  BY <1>1
<1>5. child' \in [Slots -> Child] /\ \A r \in Slots : ChildOK(child'[r], Len(runs'))
  <2> HIDE DEF c
  <2> QED BY <1>2, <1>3, <1>4, ChildUpdate
<1> QED
  BY <1>2, <1>5

LEMMA WrittenType ==
    ASSUME NEW j \in Jobs, row \in [Jobs -> Row], NEW how, NEW now \in Nat
    PROVE  Written(j, how, now) \in Row
  BY DEF Written, Row

LEMMA CommittedType ==
    ASSUME NEW c \in Child, NEW n \in Nat, ChildOK(c, n), c.pc = "committing", NEW how
    PROVE  Committed(c, how) \in Child /\ ChildOK(Committed(c, how), n)
<1> DEFINE failed == c.errors \/ \E j \in c.txn : how[j] = "error"
<1>1. failed \in BOOLEAN
  OBVIOUS
<1>2. Committed(c, how) = [c EXCEPT !.pc = "writing", !.pending = c.pending \ c.txn,
                                    !.txn = {}, !.errors = failed]
  BY Zenon DEF Committed, Child
<1> HIDE DEF failed
<1> QED
  BY <1>1, <1>2 DEF Child, ChildOK

LEMMA TypeCommitBatch ==
    ASSUME TypeInv, NEW s \in Slots, CommitBatch(s) PROVE TypeInv'
<1> USE DEF TypeInv, TypeOK
<1>1. PICK how \in [child[s].txn -> {"upsert", "refresh", "error"}] :
        /\ row' = [j \in Jobs |-> IF j \in child[s].txn
                                  THEN Written(j, how[j], child[s].now) ELSE row[j]]
        /\ child' = [child EXCEPT ![s] = Committed(@, how)]
  BY DEF CommitBatch
<1>2. UNCHANGED <<runs, tenantRuns, sweep, queue, verdicts, attempt, night, nightStart,
                  phase, cutoff, faults>> /\ Len(runs) \in Nat
  BY DEF CommitBatch, sweepVars, nightVars
<1>3. row' \in [Jobs -> Row]
  BY <1>1, WrittenType DEF Child
<1>4. Committed(child[s], how) \in Child /\ ChildOK(Committed(child[s], how), Len(runs'))
  BY <1>2, CommittedType DEF CommitBatch
<1>5. child' \in [Slots -> Child] /\ \A r \in Slots : ChildOK(child'[r], Len(runs'))
  BY <1>1, <1>2, <1>4, ChildUpdate
<1> QED
  BY <1>2, <1>3, <1>5

\* The paths on which a child ends without touching the database: the
\* registration fails, the closing transaction fails, the process dies.
LEMMA TypeSilentExit ==
    ASSUME TypeInv, NEW s \in Slots, NEW code \in {"success", "outage", "failure"},
           child' = Exit(s, code), faults' \in Nat,
           UNCHANGED <<row, runs, tenantRuns, sweepVars, nightVars>>
    PROVE  TypeInv'
<1> USE DEF TypeInv, TypeOK
<1> DEFINE c == [child[s] EXCEPT !.pc = "exited", !.exit = code]
<1>1. UNCHANGED <<row, runs, tenantRuns, sweep, queue, verdicts, attempt, night, nightStart,
                  phase, cutoff>> /\ Len(runs) \in Nat
  BY DEF sweepVars, nightVars
<1>2. child' = [child EXCEPT ![s] = c]
  BY DEF Exit
<1>3. c \in Child /\ ChildOK(c, Len(runs'))
  BY <1>1, ExitType
<1>4. child' \in [Slots -> Child] /\ \A r \in Slots : ChildOK(child'[r], Len(runs'))
  <2> HIDE DEF c
  <2> QED BY <1>1, <1>2, <1>3, ChildUpdate
<1> QED
  BY <1>1, <1>4

LEMMA TypeLogRun ==
    ASSUME TypeInv, NEW s \in Slots, LogRun(s) \/ LogLosesRows(s) PROVE TypeInv'
<1> USE DEF TypeInv, TypeOK
<1> DEFINE k == child[s].run
           closed == Closed(s)
           code == IF child[s].errors THEN "failure" ELSE "success"
           c == [child[s] EXCEPT !.pc = "exited", !.exit = code]
<1>1. /\ runs' = [runs EXCEPT ![k] = closed]
      /\ tenantRuns' \subseteq tenantRuns \cup ExplicitRows(s, k) \cup InferredRows(s, k)
      /\ child' = [child EXCEPT ![s] = c]
      /\ UNCHANGED <<row, sweep, queue, verdicts, attempt, night, nightStart, phase, cutoff>>
      /\ faults' \in Nat
  BY DEF LogRun, LogLosesRows, Exit, sweepVars, nightVars
<1>2. k \in 1 .. Len(runs) /\ Len(runs) \in Nat /\ k \in Nat
  BY DEF LogRun, LogLosesRows, ChildOK
<1>3. closed \in Run
  <2>1. runs[k] \in Run /\ child[s].errors \in BOOLEAN
    BY <1>2 DEF Child
  <2> QED BY <2>1 DEF Run, Closed
<1>4. runs' \in Seq(Run) /\ Len(runs') = Len(runs)
  <2> HIDE DEF closed, k
  <2> QED BY <1>1, <1>2, <1>3
<1>5. InferredRows(s, k) \subseteq TenantRun
  <2> SUFFICES ASSUME NEW t \in InferredTenants(s)
               PROVE  [run |-> k, tenant |-> t, status |-> "complete", inferred |-> TRUE]
                        \in TenantRun
    BY DEF InferredRows
  <2> QED BY <1>2 DEF InferredTenants, TenantRun, TenantStatus
<1>6. ExplicitRows(s, k) \subseteq TenantRun
  BY <1>2, ExplicitType
<1>7. code \in {"success", "outage", "failure"}
  OBVIOUS
<1>8. c \in Child /\ ChildOK(c, Len(runs'))
  <2> HIDE DEF code
  <2> QED BY <1>2, <1>4, <1>7, ExitType
<1>9. child' \in [Slots -> Child] /\ \A r \in Slots : ChildOK(child'[r], Len(runs'))
  <2> HIDE DEF c
  <2> QED BY <1>1, <1>2, <1>4, <1>8, ChildUpdate
<1> QED
  BY <1>1, <1>4, <1>5, <1>6, <1>9

LEMMA TypeReap ==
    ASSUME TypeInv, NEW s \in Slots, Reap(s) PROVE TypeInv'
<1> USE DEF TypeInv, TypeOK
<1>1. UNCHANGED <<row, runs, tenantRuns, sweep, queue, attempt, night, nightStart,
                  phase, cutoff, faults>> /\ Len(runs) \in Nat
  BY DEF Reap, nightVars
<1>2. child' = [child EXCEPT ![s] = IdleChild]
  BY DEF Reap
<1>3. child' \in [Slots -> Child] /\ \A r \in Slots : ChildOK(child'[r], Len(runs'))
  BY <1>1, <1>2, IdleChildType, ChildUpdate
<1>4. verdicts' \subseteq {"outage", "abort"}
  BY DEF Reap
<1> QED
  BY <1>1, <1>3, <1>4

LEMMA EndAttemptType ==
    ASSUME NEW failed, EndAttempt(failed), attempt \in {1, 2}
    PROVE  phase' \in {"crawl", "gate"} /\ attempt' \in {1, 2}
  BY DEF EndAttempt

LEMMA TypeKillSweep ==
    ASSUME TypeInv, KillSweep PROVE TypeInv'
<1> USE DEF TypeInv, TypeOK
<1>1. phase' \in {"crawl", "gate"} /\ attempt' \in {1, 2}
  BY EndAttemptType DEF KillSweep
<1>2. child' \in [Slots -> Child] /\ \A r \in Slots : ChildOK(child'[r], Len(runs))
  BY IdleChildType DEF KillSweep
<1> QED
  BY <1>1, <1>2 DEF KillSweep

\* The steps of the sweep and of the night that no child takes part in.
LEMMA TypeNight ==
    ASSUME TypeInv, NightStep \/ BeginNight \/ UNCHANGED vars PROVE TypeInv'
<1> USE DEF TypeInv, TypeOK
<1>1. CASE BeginSweep
  BY <1>1 DEF BeginSweep, Pending, crawlVars
<1>2. CASE FinishSweep
  <2>1. phase' \in {"crawl", "gate"} /\ attempt' \in {1, 2}
    BY <1>2, EndAttemptType DEF FinishSweep
  <2>2. Fatal \in BOOLEAN
    BY DEF Fatal
  <2>3. sweep' \in [state : {"none", "running", "finished"},
                    status : {"running", "complete", "source_failure"}, errors : BOOLEAN]
    BY <1>2, <2>2 DEF FinishSweep
  <2> QED BY <1>2, <2>1, <2>3 DEF FinishSweep, crawlVars
<1>3. CASE IngestGate
  BY <1>3 DEF IngestGate, crawlVars, sweepVars
<1>4. CASE ExpireJobs
  <2>1. row' \in [Jobs -> Row]
    BY <1>4 DEF ExpireJobs, Swept, Row
  <2>2. cutoff' \in Nat
    BY <1>4 DEF ExpireJobs
  <2> QED BY <1>4, <2>1, <2>2 DEF ExpireJobs, sweepVars
<1>5. CASE BeginNight
  BY <1>5 DEF BeginNight, crawlVars
<1>6. CASE UNCHANGED vars
  BY <1>6 DEF vars, crawlVars, sweepVars, nightVars
<1> QED
  BY <1>1, <1>2, <1>3, <1>4, <1>5, <1>6 DEF NightStep

LEMMA TypeStep == TypeInv /\ [Next]_vars => TypeInv'
<1> SUFFICES ASSUME TypeInv, [Next]_vars PROVE TypeInv'
  OBVIOUS
<1>1. ASSUME NEW s \in Slots, StartChild(s) PROVE TypeInv'
  BY <1>1, TypeStartChild
<1>2. ASSUME NEW s \in Slots, ChildStep(s) PROVE TypeInv'
  <2>1. faults \in Nat
    BY DEF TypeInv, TypeOK
  <2>2. CASE RegisterFails(s)
    BY <2>1, <2>2, TypeSilentExit DEF RegisterFails
  <2>3. CASE LogFails(s)
    <3>1. (IF child[s].errors THEN "failure" ELSE "success") \in {"success", "outage", "failure"}
      OBVIOUS
    <3> QED BY <2>1, <2>3, <3>1, TypeSilentExit DEF LogFails
  <2> QED
    BY <1>2, <2>2, <2>3, TypeFinishEmpty, TypeRegister, TypeBeginBatch, TypeCommitBatch, TypeLogRun
       DEF ChildStep
<1>3. ASSUME NEW s \in Slots, CrashChild(s) PROVE TypeInv'
  BY <1>3, TypeSilentExit DEF CrashChild, TypeInv, TypeOK
<1>4. ASSUME NEW s \in Slots, Reap(s) PROVE TypeInv'
  BY <1>4, TypeReap
<1> QED
  BY <1>1, <1>2, <1>3, <1>4, TypeKillSweep, TypeNight DEF Next

\* Every reachable state is well typed, whatever the inventory, the number of
\* concurrent children, the batch and transaction sizes and the bounds.
THEOREM TypeCorrect == Spec => []TypeOK
<1>1. TypeInv => TypeOK
  BY DEF TypeInv
<1> QED
  BY <1>1, TypeInit, TypeStep, PTL DEF Spec

-----------------------------------------------------------------------------
(***************************************************************************)
(* The safety of expiry when a sweep runs one child at a time (the Workday *)
(* sweep: run_checkpoints runs the batches in a loop).  The theorems hold  *)
(* for every inventory, set of postings, batch and transaction size, and   *)
(* for every number of nights and faults.                                  *)
(*                                                                         *)
(* The argument has two layers.  EvidenceInv says what the tables prove: a *)
(* clean run was followed by a write of every posting it listed, and no    *)
(* outcome was inferred.  ScheduleInv says when steps may happen: children *)
(* live only inside a sweep, and no tenant with a clean attempt is crawled *)
(* again in the same night.                                                *)
(***************************************************************************)

OneChild == \A r, s \in Slots : r = s

\* last_seen_at never lies ahead of the registered runs.
RowsSeen ==
    \A j \in Jobs : /\ row[j].seen <= Len(runs)
                    /\ row[j].status = "absent" => row[j].seen = 0

\* The runs of a night are the ones registered since it began.
NightRuns ==
    /\ nightStart <= Len(runs)
    /\ \A k \in RunIds : /\ runs[k].night <= night
                         /\ Tonight(k) => k > nightStart

\* Outcomes belong to finished runs, and none of them was inferred.
OutcomesLogged ==
    \A tr \in tenantRuns :
        /\ tr.run \in RunIds
        /\ runs[tr.run].status # "running"
        /\ ~tr.inferred

\* Every posting on the list of a clean run was seen by that run or later, unless
\* it never was stored.
CleanEvidence ==
    \A k \in RunIds : CleanRun(k) =>
        \A j \in runs[k].aux_listing : row[j].status # "absent" => row[j].seen >= k

\* The single child owns the newest run and is the only writer since.
Working(c) ==
    /\ c.pc \in {"fetched", "writing", "committing"} =>
         /\ \A j \in c.listing : TenantOf[j] \in c.batch
         /\ c.pending \subseteq c.listing
         /\ c.txn \subseteq c.pending
    /\ c.pc = "fetched" => c.pending = c.listing
    /\ c.pc \in {"writing", "committing"} =>
         /\ c.run = Len(runs)
         /\ runs[c.run].status = "running"
         /\ runs[c.run].aux_listing = c.listing
         /\ \A j \in Jobs : row[j].seen >= c.run => j \in c.listing
         /\ ~c.errors => \A j \in c.listing \ c.pending :
                            row[j].status # "absent" => row[j].seen >= c.run
    /\ c.pc = "committing" => c.now = Len(runs)

EvidenceInv ==
    /\ RowsSeen
    /\ NightRuns
    /\ OutcomesLogged
    /\ CleanEvidence
    /\ \A s \in Slots : Working(child[s])

LEMMA ListingsAreJobs ==
    ASSUME TypeInv, NEW k \in RunIds PROVE runs[k] \in Run /\ runs[k].aux_listing \subseteq Jobs
<1>1. runs \in Seq(Run) /\ k \in 1 .. Len(runs)
  BY DEF TypeInv, TypeOK, RunIds
<1>2. runs[k] \in Run
  BY <1>1
<1> QED
  BY <1>2 DEF Run

LEMMA WorkingIdle == Working(IdleChild)
  BY DEF Working, IdleChild

LEMMA EvidenceInit == Init => EvidenceInv
<1> SUFFICES ASSUME Init PROVE EvidenceInv
  OBVIOUS
<1>1. Len(runs) = 0
  BY DEF Init
<1>2. \A s \in Slots : Working(child[s])
  BY WorkingIdle DEF Init
<1> QED
  BY <1>1, <1>2 DEF Init, EvidenceInv, RowsSeen, NightRuns, OutcomesLogged, CleanEvidence, RunIds

\* A step of the child that writes no table.
LEMMA EvidenceChildOnly ==
    ASSUME OneChild, EvidenceInv, NEW s \in Slots, Working(child'[s]),
           UNCHANGED <<row, runs, tenantRuns, night, nightStart>>
    PROVE  EvidenceInv'
<1>1. \A r \in Slots : child'[r] = child'[s]
  BY DEF OneChild
<1>2. \A r \in Slots : Working(child[r])'
  BY <1>1 DEF Working
<1> QED
  BY <1>2 DEF EvidenceInv, RowsSeen, NightRuns, OutcomesLogged, CleanEvidence, CleanRun,
             Tonight, RunIds

LEMMA EvidenceStartChild ==
    ASSUME OneChild, TypeInv, EvidenceInv, NEW s \in Slots, StartChild(s) PROVE EvidenceInv'
<1> USE DEF TypeInv, TypeOK
<1>1. PICK B \in SUBSET queue : \E reported \in [B -> TenantStatus] :
        \E listing \in SUBSET Fetchable(B, reported) :
          child' = [child EXCEPT ![s] = Fetched(B, reported, listing)]
  BY DEF StartChild
<1>2. PICK reported \in [B -> TenantStatus] :
        \E listing \in SUBSET Fetchable(B, reported) :
          child' = [child EXCEPT ![s] = Fetched(B, reported, listing)]
  BY <1>1
<1>3. PICK listing \in SUBSET Fetchable(B, reported) :
        child' = [child EXCEPT ![s] = Fetched(B, reported, listing)]
  BY <1>2
<1>4. child'[s] = Fetched(B, reported, listing)
  BY <1>3
<1>5. Working(Fetched(B, reported, listing))
  BY DEF Working, Fetched, IdleChild, Fetchable
<1> QED
  BY <1>4, <1>5, EvidenceChildOnly DEF StartChild, nightVars

\* Exited and idle children own nothing.
LEMMA EvidenceRelease ==
    ASSUME OneChild, TypeInv, EvidenceInv, NEW s \in Slots, child'[s].pc \in {"exited", "idle"},
           UNCHANGED <<row, runs, tenantRuns, night, nightStart>>
    PROVE  EvidenceInv'
<1>1. Working(child'[s])
  BY DEF Working
<1> QED
  BY <1>1, EvidenceChildOnly

LEMMA EvidenceFinishEmpty ==
    ASSUME OneChild, TypeInv, EvidenceInv, NEW s \in Slots, FinishEmpty(s) PROVE EvidenceInv'
<1> USE DEF TypeInv, TypeOK
<1> DEFINE verified == \E t \in child[s].batch : child[s].outcome[t] = "complete"
           new == [night |-> night, errors |-> FALSE, aux_listing |-> {},
                   status |-> IF verified THEN "complete" ELSE "source_failure"]
           k == Len(runs) + 1
<1>1. /\ runs' = Append(runs, new)
      /\ tenantRuns' = tenantRuns \cup ExplicitRows(s, k)
      /\ child'[s].pc = "exited"
      /\ UNCHANGED <<row, night, nightStart>>
  BY DEF FinishEmpty, Exit, sweepVars, nightVars, Child
<1>2. new \in Run /\ new.aux_listing = {} /\ new.night = night /\ new.status # "running"
  BY DEF Run
<1> HIDE DEF new
<1>3. /\ Len(runs) \in Nat /\ Len(runs') = k
      /\ runs'[k] = new /\ \A i \in 1 .. Len(runs) : runs'[i] = runs[i]
  BY <1>1, <1>2
<1>4. RowsSeen'
  BY <1>1, <1>3 DEF EvidenceInv, RowsSeen, Row
<1>5. NightRuns'
  BY <1>1, <1>2, <1>3 DEF EvidenceInv, NightRuns, RunIds, Tonight, Run
<1>6. OutcomesLogged'
  <2> SUFFICES ASSUME NEW tr \in tenantRuns'
               PROVE  tr.run \in 1 .. k /\ runs'[tr.run].status # "running" /\ ~tr.inferred
    BY <1>3 DEF OutcomesLogged, RunIds
  <2>1. CASE tr \in tenantRuns
    BY <1>3, <2>1 DEF EvidenceInv, OutcomesLogged, RunIds
  <2>2. CASE tr \in ExplicitRows(s, k)
    BY <1>2, <1>3, <2>2 DEF ExplicitRows
  <2> QED BY <1>1, <2>1, <2>2
<1>7. CleanEvidence'
  <2> SUFFICES ASSUME NEW i \in 1 .. k, CleanRun(i)', NEW j \in runs'[i].aux_listing,
                      row[j].status # "absent"
               PROVE  row[j].seen >= i
    BY <1>1, <1>3 DEF CleanEvidence, RunIds
  <2>1. i \in 1 .. Len(runs) /\ runs'[i] = runs[i]
    BY <1>2, <1>3
  <2> QED BY <2>1 DEF EvidenceInv, CleanEvidence, RunIds, CleanRun
<1>8. \A r \in Slots : Working(child[r])'
  BY <1>1 DEF OneChild, Working
<1> QED
  BY <1>4, <1>5, <1>6, <1>7, <1>8 DEF EvidenceInv

LEMMA EvidenceRegister ==
    ASSUME OneChild, TypeInv, EvidenceInv, NEW s \in Slots, Register(s) PROVE EvidenceInv'
<1> USE DEF TypeInv, TypeOK
<1> DEFINE new == [night |-> night, status |-> "running", errors |-> FALSE,
                   aux_listing |-> child[s].listing]
           k == Len(runs) + 1
           c == [child[s] EXCEPT !.pc = "writing", !.run = k]
<1>1. /\ runs' = Append(runs, new)
      /\ child' = [child EXCEPT ![s] = c]
      /\ UNCHANGED <<row, tenantRuns, night, nightStart>>
  BY DEF Register, sweepVars, nightVars
<1>2. new \in Run /\ new.aux_listing = child[s].listing /\ new.night = night /\ new.status = "running"
  BY DEF Run, Child
<1>3. /\ child[s] \in Child /\ child'[s] = c
      /\ c.pc = "writing" /\ c.run = k /\ c.listing = child[s].listing
      /\ c.pending = child[s].pending /\ c.txn = child[s].txn /\ c.batch = child[s].batch
      /\ c.errors = child[s].errors
  BY <1>1 DEF Child
<1> HIDE DEF new, c
<1>4. /\ Len(runs) \in Nat /\ Len(runs') = k
      /\ runs'[k] = new /\ \A i \in 1 .. Len(runs) : runs'[i] = runs[i]
  BY <1>1, <1>2
<1>5. RowsSeen'
  BY <1>1, <1>4 DEF EvidenceInv, RowsSeen, Row
<1>6. NightRuns'
  BY <1>1, <1>2, <1>4 DEF EvidenceInv, NightRuns, RunIds, Tonight, Run
<1>7. OutcomesLogged'
  BY <1>1, <1>4 DEF EvidenceInv, OutcomesLogged, RunIds
<1>8. CleanEvidence'
  <2> SUFFICES ASSUME NEW i \in 1 .. k, CleanRun(i)', NEW j \in runs'[i].aux_listing,
                      row[j].status # "absent"
               PROVE  row[j].seen >= i
    BY <1>1, <1>4 DEF CleanEvidence, RunIds
  <2>1. i \in 1 .. Len(runs) /\ runs'[i] = runs[i]
    BY <1>2, <1>4 DEF CleanRun
  <2> QED BY <2>1 DEF EvidenceInv, CleanEvidence, RunIds, CleanRun
<1>9. Working(child[s])'
  <2>1. Working(child[s]) /\ child[s].pc = "fetched"
    BY DEF EvidenceInv, Register
  <2>2. \A j \in Jobs : ~ (row[j].seen >= k)
    BY <1>4 DEF EvidenceInv, RowsSeen, Row
  <2>3. c.listing \ c.pending = {}
    BY <1>3, <2>1 DEF Working
  <2>4. /\ \A j \in c.listing : TenantOf[j] \in c.batch
        /\ c.pending \subseteq c.listing /\ c.txn \subseteq c.pending
    BY <1>3, <2>1 DEF Working
  <2> QED BY <1>1, <1>2, <1>3, <1>4, <2>2, <2>3, <2>4 DEF Working
<1>10. \A r \in Slots : Working(child[r])'
  BY <1>9 DEF OneChild
<1> QED
  BY <1>5, <1>6, <1>7, <1>8, <1>10 DEF EvidenceInv

LEMMA EvidenceBeginBatch ==
    ASSUME OneChild, TypeInv, EvidenceInv, NEW s \in Slots, BeginBatch(s) PROVE EvidenceInv'
<1> USE DEF TypeInv, TypeOK
<1>1. PICK S \in SUBSET child[s].pending :
        child' = [child EXCEPT ![s] = [@ EXCEPT !.pc = "committing", !.txn = S, !.now = Len(runs)]]
  BY DEF BeginBatch
<1> DEFINE c == [child[s] EXCEPT !.pc = "committing", !.txn = S, !.now = Len(runs)]
<1>2. /\ child[s] \in Child /\ child'[s] = c
      /\ c.pc = "committing" /\ c.run = child[s].run /\ c.listing = child[s].listing
      /\ c.pending = child[s].pending /\ c.txn = S /\ c.batch = child[s].batch
      /\ c.errors = child[s].errors /\ c.now = Len(runs)
  BY <1>1 DEF Child
<1>3. Working(child[s]) /\ child[s].pc = "writing"
  BY DEF EvidenceInv, BeginBatch
<1> HIDE DEF c
<1>4. Working(c)
  BY <1>2, <1>3 DEF Working
<1> QED
  BY <1>2, <1>4, EvidenceChildOnly DEF BeginBatch, sweepVars, nightVars

\* What one write may do to a row (ingest_job).
LEMMA WrittenRow ==
    ASSUME TypeInv, RowsSeen, NEW j \in Jobs, NEW how
    PROVE  LET new == Written(j, how, Len(runs)) IN
             /\ new \in Row
             /\ new.seen >= row[j].seen /\ new.seen <= Len(runs)
             /\ new.status = "absent" => new.seen = 0
             /\ row[j].status = "absent" /\ new.status # "absent" => new.seen = Len(runs)
             /\ how \in {"upsert", "refresh"} /\ new.status # "absent" => new.seen = Len(runs)
<1>1. row[j] \in Row /\ row[j].seen <= Len(runs) /\ Len(runs) \in Nat
      /\ (row[j].status = "absent" => row[j].seen = 0)
  BY DEF TypeInv, TypeOK, RowsSeen
<1> QED
  BY <1>1 DEF Written, Row

LEMMA EvidenceCommitBatch ==
    ASSUME OneChild, TypeInv, EvidenceInv, NEW s \in Slots, CommitBatch(s) PROVE EvidenceInv'
<1> USE DEF TypeInv, TypeOK
<1>1. PICK how \in [child[s].txn -> {"upsert", "refresh", "error"}] :
        /\ row' = [j \in Jobs |-> IF j \in child[s].txn
                                  THEN Written(j, how[j], child[s].now) ELSE row[j]]
        /\ child' = [child EXCEPT ![s] = Committed(@, how)]
  BY DEF CommitBatch
<1> DEFINE c == child'[s]
<1>2. /\ child[s] \in Child
      /\ c.pc = "writing" /\ c.run = child[s].run /\ c.listing = child[s].listing
      /\ c.pending = child[s].pending \ child[s].txn /\ c.txn = {} /\ c.batch = child[s].batch
      /\ ~c.errors => ~child[s].errors /\ \A j \in child[s].txn : how[j] # "error"
  <2> DEFINE failed == child[s].errors \/ \E j \in child[s].txn : how[j] = "error"
  <2>1. child[s] \in Child /\ c = Committed(child[s], how)
    BY <1>1
  <2>2. c = [child[s] EXCEPT !.pc = "writing", !.pending = child[s].pending \ child[s].txn,
                             !.txn = {}, !.errors = failed]
    BY <2>1, Zenon DEF Committed, Child
  <2>3. ~failed => ~child[s].errors /\ \A j \in child[s].txn : how[j] # "error"
    OBVIOUS
  <2> HIDE DEF c, failed
  <2> QED BY <2>1, <2>2, <2>3 DEF Child
<1>3. UNCHANGED <<runs, tenantRuns, night, nightStart>> /\ Len(runs) \in Nat
  BY DEF CommitBatch, sweepVars, nightVars
<1>4. Working(child[s]) /\ child[s].pc = "committing" /\ child[s].now = Len(runs)
      /\ child[s].run = Len(runs)
  BY DEF EvidenceInv, Working, CommitBatch
<1>5. \A j \in Jobs : IF j \in child[s].txn
                      THEN row'[j] = Written(j, how[j], Len(runs)) ELSE row'[j] = row[j]
  BY <1>1, <1>4
<1>6. \A j \in Jobs :
        /\ row[j] \in Row /\ row'[j] \in Row
        /\ row'[j].seen >= row[j].seen /\ row'[j].seen <= Len(runs)
        /\ row'[j].status = "absent" => row'[j].seen = 0
        /\ row[j].status = "absent" /\ row'[j].status # "absent" => row'[j].seen = Len(runs)
  <2> SUFFICES ASSUME NEW j \in Jobs
               PROVE  /\ row[j] \in Row /\ row'[j] \in Row
                      /\ row'[j].seen >= row[j].seen /\ row'[j].seen <= Len(runs)
                      /\ row'[j].status = "absent" => row'[j].seen = 0
                      /\ row[j].status = "absent" /\ row'[j].status # "absent"
                           => row'[j].seen = Len(runs)
    OBVIOUS
  <2>1. CASE j \in child[s].txn
    BY <1>5, <2>1, WrittenRow DEF EvidenceInv
  <2>2. CASE j \notin child[s].txn
    BY <1>5, <2>2 DEF EvidenceInv, RowsSeen, Row
  <2> QED BY <2>1, <2>2
<1>7. RowsSeen'
  BY <1>3, <1>6 DEF RowsSeen
<1>8. NightRuns' /\ OutcomesLogged'
  BY <1>3 DEF EvidenceInv, NightRuns, OutcomesLogged, RunIds, Tonight
<1>9. CleanEvidence'
  <2> SUFFICES ASSUME NEW k \in RunIds, CleanRun(k), NEW j \in runs[k].aux_listing,
                      row'[j].status # "absent"
               PROVE  row'[j].seen >= k
    BY <1>3 DEF CleanEvidence, RunIds, CleanRun
  <2>1. j \in Jobs /\ k \in 1 .. Len(runs) /\ k \in Nat
    BY <1>3, ListingsAreJobs DEF RunIds
  <2>2. CASE row[j].status = "absent"
    BY <1>3, <1>6, <2>1, <2>2
  <2>3. CASE row[j].status # "absent"
    <3>1. row[j].seen >= k
      BY <2>3 DEF EvidenceInv, CleanEvidence
    <3> QED BY <1>6, <2>1, <3>1 DEF Row
  <2> QED BY <2>2, <2>3
<1>10. Working(child[s])'
  <2>1. /\ \A j \in c.listing : TenantOf[j] \in c.batch
        /\ c.pending \subseteq c.listing
    BY <1>2, <1>4 DEF Working
  <2>2. /\ c.run = Len(runs')
        /\ runs'[c.run].status = "running"
        /\ runs'[c.run].aux_listing = c.listing
    BY <1>2, <1>3, <1>4 DEF Working
  <2>3. \A j \in Jobs : row'[j].seen >= c.run => j \in c.listing
    BY <1>2, <1>4, <1>5 DEF Working
  <2>4. ASSUME ~c.errors, NEW j \in c.listing \ c.pending, row'[j].status # "absent"
        PROVE  row'[j].seen >= c.run
    <3>1. j \in Jobs /\ c.run = Len(runs)
      BY <1>2, <1>4 DEF Child
    <3>2. CASE j \in child[s].txn
      <4>1. how[j] \in {"upsert", "refresh"}
        BY <1>2, <2>4, <3>2
      <4> QED BY <1>3, <1>5, <2>4, <3>1, <3>2, <4>1, WrittenRow DEF EvidenceInv
    <3>3. CASE j \notin child[s].txn
      BY <1>2, <1>4, <1>5, <2>4, <3>1, <3>3 DEF Working
    <3> QED BY <3>2, <3>3
  <2> QED BY <1>2, <2>1, <2>2, <2>3, <2>4 DEF Working
<1>11. \A r \in Slots : Working(child[r])'
  BY <1>10 DEF OneChild
<1> QED
  BY <1>7, <1>8, <1>9, <1>11 DEF EvidenceInv

\* The compatibility fallback finds nobody: every posting seen since the run
\* began was written by this run, and the tenants of its listing have outcomes.
LEMMA NothingInferred ==
    ASSUME TypeInv, EvidenceInv, NEW s \in Slots, child[s].pc = "writing"
    PROVE  InferredTenants(s) = {}
<1> SUFFICES ASSUME NEW t \in Tenants, child[s].outcome[t] = "none",
                    NEW j \in Jobs, TenantOf[j] = t, row[j].seen >= child[s].run
             PROVE  FALSE
  BY DEF InferredTenants
<1>1. t \notin child[s].batch
  BY DEF TypeInv, ChildOK
<1> QED
  BY <1>1 DEF EvidenceInv, Working

LEMMA EvidenceLogRun ==
    ASSUME OneChild, TypeInv, EvidenceInv, NEW s \in Slots,
           LogRun(s) \/ LogLosesRows(s)
    PROVE  EvidenceInv'
<1> USE DEF TypeInv, TypeOK
<1> DEFINE k == child[s].run
           closed == Closed(s)
<1>1. /\ runs' = [runs EXCEPT ![k] = closed]
      /\ tenantRuns' \subseteq tenantRuns \cup ExplicitRows(s, k)
      /\ child'[s].pc = "exited"
      /\ UNCHANGED <<row, night, nightStart>>
  <2>1. child[s].pc = "writing"
    BY DEF LogRun, LogLosesRows
  <2>2. InferredRows(s, k) = {}
    BY <2>1, NothingInferred DEF InferredRows
  <2>3. PICK code : child' = Exit(s, code)
    BY DEF LogRun, LogLosesRows
  <2>4. child'[s].pc = "exited"
    BY <2>3 DEF Exit, Child
  <2>5. /\ runs' = [runs EXCEPT ![k] = closed]
        /\ UNCHANGED <<row, night, nightStart>>
    BY DEF LogRun, LogLosesRows, sweepVars, nightVars
  <2>6. \/ tenantRuns' = tenantRuns \cup ExplicitRows(s, k) \cup InferredRows(s, k)
        \/ tenantRuns' = tenantRuns
    BY DEF LogRun, LogLosesRows
  <2> QED BY <2>2, <2>4, <2>5, <2>6
<1>2. /\ Working(child[s]) /\ child[s].pc = "writing" /\ child[s].pending = {}
      /\ child[s] \in Child
      /\ k = Len(runs) /\ Len(runs) \in Nat /\ k \in RunIds
      /\ runs[k] \in Run
  BY DEF EvidenceInv, Working, LogRun, LogLosesRows, ChildOK, RunIds
<1>3. /\ closed.night = runs[k].night /\ closed.aux_listing = child[s].listing
      /\ closed.status # "running"
      /\ closed.errors = child[s].errors
  BY <1>2 DEF Working, Run, Closed
<1> HIDE DEF closed
<1>4. /\ Len(runs') = Len(runs) /\ RunIds' = RunIds
      /\ runs'[k] = closed /\ \A i \in RunIds \ {k} : runs'[i] = runs[i]
  <2> HIDE DEF k
  <2> QED BY <1>1, <1>2 DEF RunIds
<1>5. RowsSeen'
  BY <1>1, <1>4 DEF EvidenceInv, RowsSeen
<1>6. NightRuns'
  BY <1>1, <1>3, <1>4 DEF EvidenceInv, NightRuns, Tonight
<1>7. OutcomesLogged'
  <2> SUFFICES ASSUME NEW tr \in tenantRuns'
               PROVE  tr.run \in RunIds /\ runs'[tr.run].status # "running" /\ ~tr.inferred
    BY <1>4 DEF OutcomesLogged
  <2>1. CASE tr \in tenantRuns
    BY <1>3, <1>4, <2>1 DEF EvidenceInv, OutcomesLogged
  <2>2. CASE tr \in ExplicitRows(s, k)
    BY <1>2, <1>3, <1>4, <2>2 DEF ExplicitRows
  <2> QED BY <1>1, <2>1, <2>2
<1>8. CleanEvidence'
  <2> SUFFICES ASSUME NEW i \in RunIds, CleanRun(i)', NEW j \in runs'[i].aux_listing,
                      row[j].status # "absent"
               PROVE  row[j].seen >= i
    BY <1>1, <1>4 DEF CleanEvidence
  <2>1. CASE i = k
    BY <1>2, <1>3, <1>4, <2>1 DEF Working, CleanRun
  <2>2. CASE i # k
    BY <1>4, <2>2 DEF EvidenceInv, CleanEvidence, CleanRun
  <2> QED BY <2>1, <2>2
<1>9. \A r \in Slots : Working(child[r])'
  BY <1>1 DEF OneChild, Working
<1> QED
  BY <1>5, <1>6, <1>7, <1>8, <1>9 DEF EvidenceInv

LEMMA EvidenceExpireJobs ==
    ASSUME OneChild, TypeInv, EvidenceInv, ExpireJobs PROVE EvidenceInv'
<1> USE DEF TypeInv, TypeOK
<1>1. \A j \in Jobs : /\ row'[j].seen = row[j].seen
                      /\ row'[j].status = "absent" <=> row[j].status = "absent"
  BY DEF ExpireJobs, Swept, Row
<1>2. UNCHANGED <<runs, tenantRuns, child, night, nightStart>>
  BY DEF ExpireJobs
<1>3. RowsSeen' /\ NightRuns' /\ OutcomesLogged'
  BY <1>1, <1>2 DEF EvidenceInv, RowsSeen, NightRuns, OutcomesLogged, Tonight, RunIds
<1>4. CleanEvidence'
  BY <1>1, <1>2, ListingsAreJobs DEF EvidenceInv, CleanEvidence, CleanRun, RunIds
<1>5. \A s \in Slots : Working(child[s])'
  <2> TAKE s \in Slots
  <2>1. Working(child[s]) /\ child[s].listing \subseteq Jobs
    BY DEF EvidenceInv, Child
  <2> QED BY <1>1, <1>2, <2>1 DEF Working
<1> QED
  BY <1>3, <1>4, <1>5 DEF EvidenceInv

LEMMA EvidenceBeginNight ==
    ASSUME OneChild, TypeInv, EvidenceInv, BeginNight PROVE EvidenceInv'
<1> USE DEF TypeInv, TypeOK
<1>1. UNCHANGED <<row, runs, tenantRuns, child>> /\ night' = night + 1 /\ nightStart' = Len(runs)
  BY DEF BeginNight, crawlVars
<1>2. NightRuns'
  <2>1. \A k \in RunIds : runs[k].night \in Nat /\ runs[k].night <= night
    BY ListingsAreJobs DEF EvidenceInv, NightRuns, Run
  <2> QED BY <1>1, <2>1 DEF NightRuns, RunIds, Tonight
<1> QED
  BY <1>1, <1>2 DEF EvidenceInv, RowsSeen, OutcomesLogged, CleanEvidence, CleanRun, RunIds, Working

LEMMA EvidenceKillSweep ==
    ASSUME OneChild, TypeInv, EvidenceInv, KillSweep PROVE EvidenceInv'
<1>1. UNCHANGED <<row, runs, tenantRuns, night, nightStart>>
      /\ \A s \in Slots : child'[s] = IdleChild
  BY DEF KillSweep
<1>2. \A s \in Slots : Working(child[s])'
  BY <1>1, WorkingIdle DEF Working, IdleChild
<1> QED
  BY <1>1, <1>2 DEF EvidenceInv, RowsSeen, NightRuns, OutcomesLogged, CleanEvidence, CleanRun,
                    Tonight, RunIds

LEMMA EvidenceStep == OneChild /\ TypeInv /\ EvidenceInv /\ [Next]_vars => EvidenceInv'
<1> SUFFICES ASSUME OneChild, TypeInv, EvidenceInv, [Next]_vars PROVE EvidenceInv'
  OBVIOUS
<1>1. ASSUME NEW s \in Slots, StartChild(s) PROVE EvidenceInv'
  BY <1>1, EvidenceStartChild
<1>2. ASSUME NEW s \in Slots, \/ RegisterFails(s) \/ LogFails(s) \/ CrashChild(s) \/ Reap(s)
      PROVE  EvidenceInv'
  <2>1. child[s] \in Child /\ child \in [Slots -> Child]
    BY DEF TypeInv, TypeOK
  <2>2. child'[s].pc \in {"exited", "idle"}
    <3>1. CASE Reap(s)
      BY <2>1, <3>1 DEF Reap, IdleChild
    <3>2. CASE \E code : child' = Exit(s, code)
      BY <2>1, <3>2 DEF Exit, Child
    <3> QED BY <1>2, <3>1, <3>2 DEF RegisterFails, LogFails, CrashChild
  <2> QED
    BY <1>2, <2>2, EvidenceRelease DEF RegisterFails, LogFails, CrashChild, Reap, nightVars
<1>3. ASSUME NEW s \in Slots, ChildStep(s) PROVE EvidenceInv'
  BY <1>2, <1>3, EvidenceFinishEmpty, EvidenceRegister, EvidenceBeginBatch, EvidenceCommitBatch,
     EvidenceLogRun DEF ChildStep
<1>4. CASE BeginSweep \/ FinishSweep \/ IngestGate \/ UNCHANGED vars
  <2>1. UNCHANGED <<row, runs, tenantRuns, child, night, nightStart>>
    BY <1>4 DEF BeginSweep, FinishSweep, IngestGate, vars, crawlVars, nightVars
  <2> QED
    BY <2>1 DEF EvidenceInv, RowsSeen, NightRuns, OutcomesLogged, CleanEvidence, CleanRun,
                Tonight, RunIds, Working
<1> QED
  BY <1>1, <1>2, <1>3, <1>4, EvidenceExpireJobs, EvidenceBeginNight, EvidenceKillSweep
     DEF Next, NightStep

\* The evidence invariant, and with it the absence of inferred outcomes, holds
\* in every reachable state of a sweep with one child at a time.
THEOREM EvidenceHolds == OneChild => (Spec => [](TypeInv /\ EvidenceInv))
<1> SUFFICES ASSUME OneChild PROVE Spec => [](TypeInv /\ EvidenceInv)
  OBVIOUS
<1>1. Init => TypeInv /\ EvidenceInv
  BY TypeInit, EvidenceInit
<1>2. TypeInv /\ EvidenceInv /\ [Next]_vars => (TypeInv /\ EvidenceInv)'
  BY TypeStep, EvidenceStep
<1> QED
  BY <1>1, <1>2, PTL DEF Spec

\* A closing row is open, old, and its tenant is clean.
LEMMA ClosingStep ==
    ASSUME TypeInv, [Next]_vars, NEW j \in Jobs, row[j].status = "raw", row'[j].status = "expired"
    PROVE  ExpireJobs
<1> USE DEF TypeInv, TypeOK
<1>1. ASSUME NEW s \in Slots, CommitBatch(s) PROVE FALSE
  <2>1. PICK how : row' = [i \in Jobs |-> IF i \in child[s].txn
                                          THEN Written(i, how[i], child[s].now) ELSE row[i]]
    BY <1>1 DEF CommitBatch
  <2>2. row'[j] = Written(j, how[j], child[s].now) \/ row'[j] = row[j]
    BY <2>1
  <2> QED BY <2>2 DEF Written, Row
<1>2. CASE row' = row
  BY <1>2
<1> QED
  BY <1>1, <1>2 DEF Next, NightStep, ChildStep, vars, crawlVars, StartChild, FinishEmpty, Register,
     RegisterFails, BeginBatch, LogRun, LogLosesRows, LogFails, CrashChild, Reap, BeginSweep, FinishSweep,
     IngestGate, KillSweep, BeginNight

\* With one child at a time, a posting is closed only on the evidence of a crawl
\* of the same night that itself reported the board complete, in a run without
\* write errors, and did not list the posting (expire_jobs.py; run_ingestion's
\* "never inferred completion from an unrelated tenant's success").
THEOREM SequentialClosure == OneChild => (Spec => ClosureAuthorised)
<1> SUFFICES ASSUME OneChild PROVE Spec => ClosureAuthorised
  OBVIOUS
<1> DEFINE Step == \A j \in Jobs : row[j].status = "raw" /\ row'[j].status = "expired" => SeenGone(j)
<1>1. TypeInv /\ EvidenceInv /\ [Next]_vars => [Step]_vars
  <2> SUFFICES ASSUME TypeInv, EvidenceInv, [Next]_vars, NEW j \in Jobs,
                      row[j].status = "raw", row'[j].status = "expired"
               PROVE  SeenGone(j)
    OBVIOUS
  <2> USE DEF TypeInv, TypeOK
  <2>1. ExpireJobs
    BY ClosingStep
  <2>2. TenantOf[j] \in CleanTenants /\ row[j].seen < cutoff'
    BY <2>1 DEF ExpireJobs, Swept, Old, Row
  <2>3. PICK tr \in Attempts(TenantOf[j]) : tr.status = "complete" /\ CleanRun(tr.run)
    BY <2>2 DEF CleanTenants
  <2>4. tr \in tenantRuns /\ Tonight(tr.run) /\ tr.run \in RunIds /\ ~tr.inferred
    BY <2>3 DEF Attempts, EvidenceInv, OutcomesLogged
  <2>5. tr.run > nightStart /\ row[j].seen <= nightStart
    <3>1. tr.run > nightStart
      BY <2>4 DEF EvidenceInv, NightRuns
    <3>2. cutoff' <= nightStart + 1 /\ cutoff' \in Nat
      BY <2>1 DEF ExpireJobs
    <3>3. row[j].seen \in Nat
      BY DEF Row
    <3> QED BY <2>2, <3>1, <3>2, <3>3
  <2>6. j \notin runs[tr.run].aux_listing
    <3>1. row[j].seen \in Nat /\ tr.run \in Nat
      BY <2>4 DEF Row, RunIds
    <3> QED BY <2>3, <2>4, <2>5, <3>1 DEF EvidenceInv, CleanEvidence
  <2> QED BY <2>3, <2>4, <2>6 DEF SeenGone
<1>2. Spec => [](TypeInv /\ EvidenceInv)
  BY EvidenceHolds
<1> QED
  BY <1>1, <1>2, PTL DEF Spec, ClosureAuthorised

-----------------------------------------------------------------------------
(* When steps may happen *)

\* Children live inside a sweep, the sweep row is open while they do, and the
\* gate lets only a healthy boundary through.
Phases ==
    /\ phase # "sweeping" => \A s \in Slots : child[s].pc = "idle"
    /\ phase = "sweeping" => sweep.state = "running"
    /\ phase = "expire" => SourceHealthy

\* A sweep row that finished without errors accounts for the inventory.
Accounted ==
    sweep.state = "finished" /\ ~sweep.errors => Tenants \subseteq Terminal

\* A tenant with a clean attempt is neither queued nor being crawled.
NotRecrawled ==
    /\ phase = "sweeping" => queue \cap Completed = {}
    /\ \A s \in Slots : child[s].pc \in {"fetched", "writing", "committing"} =>
         /\ child[s].batch \cap Completed = {}
         /\ child[s].batch \cap queue = {}

ScheduleInv == Phases /\ Accounted /\ NotRecrawled /\ CleanStaysClean /\ SeenStaysOpen

LEMMA ScheduleInit == Init => ScheduleInv
  BY DEF Init, ScheduleInv, Phases, Accounted, NotRecrawled, CleanStaysClean, SeenStaysOpen,
         IdleChild, Completed, CleanTenants, Attempts

\* New rows of the newest run, for tenants without a clean attempt, keep the two
\* readings of the bookkeeping together.
LEMMA Bookkeeping ==
    ASSUME NEW B \in SUBSET Tenants, NEW k \in Nat, NEW new,
           tenantRuns' = tenantRuns \cup new,
           \A tr \in new : tr.run = k /\ tr.tenant \in B,
           \A tr \in tenantRuns : tr.run \in Nat /\ tr.run <= k /\ runs'[tr.run] = runs[tr.run],
           night' = night, B \cap Completed = {}, CleanStaysClean
    PROVE  CleanStaysClean' /\ Completed' \subseteq Completed \cup B
<1> SUFFICES ASSUME NEW t \in Completed'
             PROVE  t \in CleanTenants' /\ t \in Completed \cup B
  BY DEF CleanStaysClean
<1>1. PICK tr \in Attempts(t)' : tr.status = "complete" /\ CleanRun(tr.run)'
  BY DEF Completed
<1>2. t \in Tenants /\ tr.tenant = t /\ tr \in tenantRuns' /\ runs'[tr.run].night = night
  BY <1>1 DEF Completed, Attempts, Tonight
<1>3. CASE tr \in new
  <2>1. \A other \in Attempts(t)' : other.run <= tr.run
    BY <1>3 DEF Attempts
  <2> QED BY <1>1, <1>2, <1>3, <2>1 DEF CleanTenants
<1>4. CASE tr \in tenantRuns
  <2>1. tr \in Attempts(t) /\ CleanRun(tr.run)
    BY <1>1, <1>2, <1>4 DEF Attempts, Tonight, CleanRun
  <2>2. t \in Completed
    BY <1>1, <1>2, <2>1 DEF Completed
  <2>3. t \in CleanTenants /\ t \notin B
    BY <2>2 DEF CleanStaysClean
  <2>4. PICK last \in Attempts(t) : /\ \A other \in Attempts(t) : other.run <= last.run
                                    /\ last.status = "complete" /\ CleanRun(last.run)
    BY <2>3 DEF CleanTenants
  <2>5. Attempts(t)' = Attempts(t)
    BY <2>3 DEF Attempts, Tonight
  <2>6. CleanRun(last.run)'
    BY <2>4 DEF CleanRun, Attempts
  <2> QED BY <1>2, <2>2, <2>4, <2>5, <2>6 DEF CleanTenants
<1> QED
  BY <1>2, <1>3, <1>4

\* A child step leaves the boundaries of the night alone.
LEMMA ScheduleChildStep ==
    ASSUME ScheduleInv, phase = "sweeping", NotRecrawled', CleanStaysClean',
           UNCHANGED <<sweep, phase>>
    PROVE  ScheduleInv'
  BY DEF ScheduleInv, Phases, Accounted, SeenStaysOpen

\* A child step that logs nothing.
LEMMA ScheduleUnlogged ==
    ASSUME OneChild, ScheduleInv, phase = "sweeping", NEW s \in Slots,
           child'[s].pc \in {"fetched", "writing", "committing"} =>
             /\ child'[s].batch \cap Completed = {}
             /\ child'[s].batch \cap queue' = {},
           queue' \subseteq queue,
           \/ UNCHANGED runs
           \/ /\ Len(runs) \in Nat
              /\ \A k \in 1 .. Len(runs) : runs'[k] = runs[k]
              /\ \A tr \in tenantRuns : tr.run \in 1 .. Len(runs),
           UNCHANGED <<tenantRuns, sweep, phase, night>>
    PROVE  ScheduleInv'
<1>1. \A tr \in tenantRuns : runs'[tr.run] = runs[tr.run]
  OBVIOUS
<1>2. \A t \in Tenants : Attempts(t)' = Attempts(t)
  BY <1>1 DEF Attempts, Tonight
<1>3. Completed' = Completed /\ CleanTenants' = CleanTenants
  BY <1>1, <1>2 DEF Completed, CleanTenants, CleanRun, Attempts
<1>4. NotRecrawled'
  BY <1>3 DEF ScheduleInv, NotRecrawled, OneChild
<1>5. CleanStaysClean'
  BY <1>3 DEF ScheduleInv, CleanStaysClean
<1> QED
  BY <1>4, <1>5, ScheduleChildStep

LEMMA ScheduleStartChild ==
    ASSUME OneChild, TypeInv, ScheduleInv, NEW s \in Slots, StartChild(s) PROVE ScheduleInv'
<1> USE DEF TypeInv, TypeOK
<1>1. PICK B \in SUBSET queue :
        /\ queue' = queue \ B
        /\ \E reported \in [B -> TenantStatus] :
             \E listing \in SUBSET Fetchable(B, reported) :
               child' = [child EXCEPT ![s] = Fetched(B, reported, listing)]
  BY DEF StartChild
<1>2. child'[s].batch = B
  BY <1>1 DEF Fetched, IdleChild
<1>3. /\ phase = "sweeping" /\ UNCHANGED <<runs, tenantRuns, sweep, phase, night>>
      /\ B \cap Completed = {} /\ B \cap queue' = {} /\ queue' \subseteq queue
  BY <1>1 DEF StartChild, nightVars, ScheduleInv, NotRecrawled
<1> QED
  BY <1>2, <1>3, ScheduleUnlogged

LEMMA ScheduleQuietStep ==
    ASSUME OneChild, TypeInv, EvidenceInv, ScheduleInv, NEW s \in Slots,
           \/ Register(s) \/ RegisterFails(s) \/ BeginBatch(s) \/ CommitBatch(s)
           \/ LogFails(s) \/ CrashChild(s) \/ Reap(s)
    PROVE  ScheduleInv'
<1> USE DEF TypeInv, TypeOK
<1>1. UNCHANGED <<tenantRuns, sweep, queue, phase, night>>
  BY DEF Register, RegisterFails, BeginBatch, CommitBatch, LogFails, CrashChild, Reap,
         sweepVars, nightVars
<1>2. child[s].pc # "idle" /\ phase = "sweeping"
  BY DEF Register, RegisterFails, BeginBatch, CommitBatch, LogFails, CrashChild, Reap,
         ScheduleInv, Phases
<1>3. UNCHANGED runs
      \/ /\ Len(runs) \in Nat
         /\ \A k \in 1 .. Len(runs) : runs'[k] = runs[k]
         /\ \A tr \in tenantRuns : tr.run \in 1 .. Len(runs)
  <2>1. CASE Register(s)
    <3>1. \A tr \in tenantRuns : tr.run \in 1 .. Len(runs)
      BY DEF EvidenceInv, OutcomesLogged, RunIds
    <3>2. Len(runs) \in Nat /\ \A k \in 1 .. Len(runs) : runs'[k] = runs[k]
      BY <2>1 DEF Register
    <3> QED BY <3>1, <3>2
  <2>2. CASE ~Register(s)
    BY <2>2 DEF RegisterFails, BeginBatch, CommitBatch, LogFails, CrashChild, Reap
  <2> QED BY <2>1, <2>2
<1>4. \/ child'[s].pc \notin {"fetched", "writing", "committing"}
      \/ /\ child[s].pc \in {"fetched", "writing", "committing"}
         /\ child'[s].batch = child[s].batch
  <2> USE DEF Child
  <2>1. CASE Register(s)
    BY <2>1 DEF Register
  <2>2. CASE BeginBatch(s)
    <3>1. PICK S : child' = [child EXCEPT ![s] =
                              [@ EXCEPT !.pc = "committing", !.txn = S, !.now = Len(runs)]]
      BY <2>2 DEF BeginBatch
    <3> QED BY <2>2, <3>1 DEF BeginBatch
  <2>3. CASE CommitBatch(s)
    <3>1. PICK how : child' = [child EXCEPT ![s] = Committed(@, how)]
      BY <2>3 DEF CommitBatch
    <3>2. child'[s] = Committed(child[s], how)
      BY <3>1
    <3>3. Committed(child[s], how).batch = child[s].batch
      BY DEF Committed
    <3> QED BY <2>3, <3>2, <3>3 DEF CommitBatch
  <2>4. CASE \E code : child' = Exit(s, code)
    BY <2>4 DEF Exit
  <2>5. CASE Reap(s)
    BY <2>5 DEF Reap, IdleChild
  <2> QED BY <2>1, <2>2, <2>3, <2>4, <2>5 DEF RegisterFails, LogFails, CrashChild
<1>5. child'[s].pc \in {"fetched", "writing", "committing"} =>
        child'[s].batch \cap Completed = {} /\ child'[s].batch \cap queue' = {}
  BY <1>1, <1>4 DEF ScheduleInv, NotRecrawled
<1> QED
  BY <1>1, <1>2, <1>3, <1>5, ScheduleUnlogged

\* The two steps that log outcomes.
LEMMA ScheduleLogged ==
    ASSUME OneChild, TypeInv, EvidenceInv, ScheduleInv, NEW s \in Slots,
           FinishEmpty(s) \/ LogRun(s) \/ LogLosesRows(s)
    PROVE  ScheduleInv'
<1> USE DEF TypeInv, TypeOK
<1> DEFINE k == IF FinishEmpty(s) THEN Len(runs) + 1 ELSE child[s].run
           B == child[s].batch
<1>1. /\ UNCHANGED <<sweep, queue, phase, night>> /\ phase = "sweeping"
      /\ child'[s].pc = "exited" /\ child[s].pc \in {"fetched", "writing"}
  <2>1. UNCHANGED <<sweep, queue, phase, night>> /\ child[s].pc \in {"fetched", "writing"}
    BY DEF FinishEmpty, LogRun, LogLosesRows, sweepVars, nightVars
  <2>2. phase = "sweeping"
    BY <2>1 DEF ScheduleInv, Phases
  <2>3. PICK code : child' = Exit(s, code)
    BY DEF FinishEmpty, LogRun, LogLosesRows
  <2>4. child'[s].pc = "exited"
    BY <2>3 DEF Exit, Child
  <2> QED BY <2>1, <2>2, <2>4
<1>2. /\ k \in Nat
      /\ \E E \in {{}, ExplicitRows(s, k)} : tenantRuns' = tenantRuns \cup E
      /\ \A tr \in tenantRuns : tr.run \in Nat /\ tr.run <= k /\ runs'[tr.run] = runs[tr.run]
  <2>1. CASE FinishEmpty(s)
    <3>1. Len(runs) \in Nat /\ \A i \in 1 .. Len(runs) : runs'[i] = runs[i]
      BY <2>1 DEF FinishEmpty
    <3>2. \A tr \in tenantRuns : tr.run \in 1 .. Len(runs)
      BY DEF EvidenceInv, OutcomesLogged, RunIds
    <3>3. k = Len(runs) + 1 /\ tenantRuns' = tenantRuns \cup ExplicitRows(s, k)
      BY <2>1 DEF FinishEmpty
    <3> HIDE DEF k
    <3> QED BY <3>1, <3>2, <3>3
  <2>2. CASE ~FinishEmpty(s)
    <3>1. LogRun(s) \/ LogLosesRows(s)
      BY <2>2
    <3>2. k = child[s].run /\ child[s].pc = "writing" /\ runs' = [runs EXCEPT ![k] = Closed(s)]
      BY <2>2, <3>1 DEF LogRun, LogLosesRows
    <3>3. k = Len(runs) /\ Len(runs) \in Nat /\ runs[k].status = "running" /\ k \in RunIds
      BY <3>2 DEF EvidenceInv, Working, ChildOK, RunIds
    <3>4. \A tr \in tenantRuns : tr.run \in RunIds /\ tr.run # k
      BY <3>3 DEF EvidenceInv, OutcomesLogged
    <3>5. \A i \in RunIds : i # k => runs'[i] = runs[i]
      BY <3>2 DEF RunIds
    <3>6. InferredRows(s, k) = {}
      BY <3>2, NothingInferred DEF InferredRows
    <3>7. \/ tenantRuns' = tenantRuns \cup ExplicitRows(s, k)
          \/ tenantRuns' = tenantRuns \cup {}
      BY <3>1, <3>2, <3>6 DEF LogRun, LogLosesRows
    <3>8. \A tr \in tenantRuns : tr.run \in Nat /\ tr.run <= k /\ runs'[tr.run] = runs[tr.run]
      <4> HIDE DEF k
      <4> QED BY <3>3, <3>4, <3>5 DEF RunIds
    <3> HIDE DEF k
    <3> QED BY <3>3, <3>7, <3>8
  <2> QED BY <2>1, <2>2
<1> PICK E \in {{}, ExplicitRows(s, k)} : tenantRuns' = tenantRuns \cup E
  BY <1>2
<1>3. \A tr \in E : tr.run = k /\ tr.tenant \in B
  BY DEF ExplicitRows
<1>4. B \in SUBSET Tenants /\ B \cap Completed = {} /\ B \cap queue = {} /\ CleanStaysClean
  BY <1>1 DEF Child, ScheduleInv, NotRecrawled
<1>5. CleanStaysClean' /\ Completed' \subseteq Completed \cup B
  <2> HIDE DEF k, B
  <2> QED BY <1>1, <1>2, <1>3, <1>4, Bookkeeping
<1>6. NotRecrawled'
  <2> HIDE DEF k, B
  <2> QED BY <1>1, <1>4, <1>5 DEF ScheduleInv, NotRecrawled, OneChild
<1> QED
  BY <1>1, <1>5, <1>6, ScheduleChildStep

LEMMA ScheduleNight ==
    ASSUME TypeInv, EvidenceInv, ScheduleInv, NightStep \/ KillSweep \/ BeginNight \/ UNCHANGED vars
    PROVE  ScheduleInv'
<1> USE DEF TypeInv, TypeOK, ScheduleInv
<1> DEFINE Ledger == <<runs, tenantRuns, night>>
<1>1. UNCHANGED Ledger => Completed' = Completed /\ CleanTenants' = CleanTenants /\ Terminal' = Terminal
  BY DEF Completed, CleanTenants, Terminal, Attempts, Tonight, CleanRun
<1>2. CASE BeginSweep
  <2>1. UNCHANGED <<runs, tenantRuns, night, child>> /\ phase = "crawl" /\ phase' = "sweeping"
        /\ queue' = Tenants \ Completed /\ sweep'.state = "running"
    BY <1>2 DEF BeginSweep, Pending, crawlVars
  <2>2. \A s \in Slots : child'[s].pc = "idle"
    BY <2>1 DEF Phases
  <2> QED
    BY <1>1, <2>1, <2>2 DEF Phases, Accounted, NotRecrawled, CleanStaysClean, SeenStaysOpen
<1>3. CASE FinishSweep
  <2>1. UNCHANGED <<runs, tenantRuns, night, child, queue>> /\ phase' \in {"crawl", "gate"}
        /\ sweep'.errors = Fatal /\ \A s \in Slots : child[s].pc = "idle"
    <3>1. UNCHANGED <<runs, tenantRuns, night, child, queue>>
          /\ sweep'.errors = Fatal /\ \A s \in Slots : child[s].pc = "idle"
      BY <1>3 DEF FinishSweep, crawlVars
    <3>2. phase' \in {"crawl", "gate"}
      BY <1>3, EndAttemptType DEF FinishSweep
    <3> QED BY <3>1, <3>2
  <2>2. Accounted'
    BY <1>1, <2>1 DEF Accounted, Fatal
  <2> QED
    BY <1>1, <2>1, <2>2 DEF Phases, NotRecrawled, CleanStaysClean, SeenStaysOpen
<1>4. CASE KillSweep
  <2>1. UNCHANGED <<runs, tenantRuns, night, queue, sweep>> /\ phase' \in {"crawl", "gate"}
        /\ \A s \in Slots : child'[s].pc = "idle"
    <3>1. phase' \in {"crawl", "gate"}
      BY <1>4, EndAttemptType DEF KillSweep
    <3> QED BY <1>4, <3>1 DEF KillSweep, IdleChild
  <2> QED
    BY <1>1, <2>1 DEF Phases, Accounted, NotRecrawled, CleanStaysClean, SeenStaysOpen
<1>5. CASE IngestGate
  <2>1. UNCHANGED <<row, runs, tenantRuns, night, child, queue, sweep>> /\ phase = "gate"
        /\ phase' \in {"expire", "skipped"} /\ (phase' = "expire" => SourceHealthy)
    BY <1>5 DEF IngestGate, crawlVars, sweepVars
  <2> QED
    BY <1>1, <2>1 DEF Phases, Accounted, NotRecrawled, CleanStaysClean, SeenStaysOpen, SourceHealthy
<1>6. CASE ExpireJobs
  <2>1. UNCHANGED <<runs, tenantRuns, night, nightStart, child, queue, sweep>> /\ phase = "expire"
        /\ phase' = "swept" /\ cutoff' \in Nat /\ cutoff' <= nightStart + 1
    BY <1>6 DEF ExpireJobs, sweepVars
  <2>2. SeenStaysOpen'
    <3> SUFFICES ASSUME NEW j \in Jobs, row'[j].seen > nightStart PROVE row'[j].status = "raw"
      BY <2>1 DEF SeenStaysOpen
    <3>1. row[j] \in Row /\ row'[j] = Swept(j)
      BY <1>6 DEF ExpireJobs
    <3>2. row'[j].seen = row[j].seen /\ row[j].seen \in Nat
      BY <3>1 DEF Swept, Row
    <3>3. row[j].status # "absent" /\ ~Old(j)
      BY <2>1, <3>1, <3>2 DEF EvidenceInv, RowsSeen, Old
    <3> QED BY <3>1, <3>3 DEF Swept, Row
  <2> QED
    BY <1>1, <2>1, <2>2 DEF Phases, Accounted, NotRecrawled, CleanStaysClean
<1>7. CASE BeginNight
  <2>1. UNCHANGED <<runs, tenantRuns, child>> /\ night' = night + 1 /\ phase' = "crawl"
        /\ phase \in {"swept", "skipped"} /\ sweep'.state = "none"
    BY <1>7 DEF BeginNight, crawlVars
  <2>2. \A t \in Tenants : Attempts(t)' = {}
    <3>1. \A tr \in tenantRuns : runs[tr.run].night # night + 1
      BY ListingsAreJobs DEF EvidenceInv, OutcomesLogged, NightRuns, Run
    <3> QED BY <2>1, <3>1 DEF Attempts, Tonight
  <2>3. Completed' = {}
    BY <2>2 DEF Completed
  <2> QED
    BY <2>1, <2>3 DEF Phases, Accounted, NotRecrawled, CleanStaysClean, SeenStaysOpen
<1>8. CASE UNCHANGED vars
  <2>1. UNCHANGED <<row, runs, tenantRuns, night, nightStart, child, queue, sweep, phase>>
    BY <1>8 DEF vars, crawlVars, sweepVars, nightVars
  <2> QED
    BY <1>1, <2>1 DEF Phases, Accounted, NotRecrawled, CleanStaysClean, SeenStaysOpen, SourceHealthy
<1> QED
  BY <1>2, <1>3, <1>4, <1>5, <1>6, <1>7, <1>8 DEF NightStep

LEMMA ScheduleStep ==
    OneChild /\ TypeInv /\ EvidenceInv /\ ScheduleInv /\ [Next]_vars => ScheduleInv'
  BY ScheduleStartChild, ScheduleQuietStep, ScheduleLogged, ScheduleNight DEF Next, ChildStep

LEMMA ScheduleHolds == OneChild => (Spec => [](TypeInv /\ EvidenceInv /\ ScheduleInv))
<1> SUFFICES ASSUME OneChild PROVE Spec => [](TypeInv /\ EvidenceInv /\ ScheduleInv)
  OBVIOUS
<1>1. Init => TypeInv /\ EvidenceInv /\ ScheduleInv
  BY TypeInit, EvidenceInit, ScheduleInit
<1>2. TypeInv /\ EvidenceInv /\ ScheduleInv /\ [Next]_vars
        => (TypeInv /\ EvidenceInv /\ ScheduleInv)'
  BY TypeStep, EvidenceStep, ScheduleStep
<1> QED
  BY <1>1, <1>2, PTL DEF Spec

\* With one child at a time, expiry starts only when every tenant has an
\* outcome of this night in an error-free finished run, reported by the child
\* that crawled it (sweep_record, main of ingest_workday_resumable.py).
THEOREM SequentialAccounting == OneChild => (Spec => []EveryTenantAccounted)
<1> SUFFICES ASSUME OneChild PROVE Spec => []EveryTenantAccounted
  OBVIOUS
<1>1. TypeInv /\ EvidenceInv /\ ScheduleInv => EveryTenantAccounted
  <2> SUFFICES ASSUME TypeInv, EvidenceInv, ScheduleInv, phase = "expire", NEW t \in Tenants
               PROVE  \E tr \in Attempts(t) :
                        ~tr.inferred /\ runs[tr.run].status # "running" /\ ~runs[tr.run].errors
    BY DEF EveryTenantAccounted
  <2>1. t \in Terminal
    BY DEF ScheduleInv, Phases, Accounted, SourceHealthy
  <2> QED BY <2>1 DEF Terminal, EvidenceInv, OutcomesLogged, Attempts
<1> QED
  BY <1>1, ScheduleHolds, PTL

\* With one child at a time, the tenants a retry skips (completed_tenants) are
\* tenants whose latest attempt is clean (expiry_clean_tenants).
THEOREM SequentialAgreement == OneChild => (Spec => []CleanStaysClean)
<1> SUFFICES ASSUME OneChild PROVE Spec => []CleanStaysClean
  OBVIOUS
<1>1. ScheduleInv => CleanStaysClean
  BY DEF ScheduleInv
<1> QED
  BY <1>1, ScheduleHolds, PTL

\* With one child at a time, no posting written since the night began is closed
\* after expiry (the reactivation of expire_jobs.py).
THEOREM SequentialReopening == OneChild => (Spec => []SeenStaysOpen)
<1> SUFFICES ASSUME OneChild PROVE Spec => []SeenStaysOpen
  OBVIOUS
<1>1. ScheduleInv => SeenStaysOpen
  BY DEF ScheduleInv
<1> QED
  BY <1>1, ScheduleHolds, PTL

=============================================================================
