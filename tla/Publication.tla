---------------------------- MODULE Publication ----------------------------
(***************************************************************************)
(* The publisher (python/publish_snapshot.py) on the tables of             *)
(* sql/publication_boundary.sql and sql/seo_collection_index.sql.          *)
(*                                                                         *)
(* Its transaction runs at PostgreSQL's default READ COMMITTED level, so   *)
(* each statement sees what other transactions committed before it: the    *)
(* candidate view is evaluated afresh by the count, by both change reads   *)
(* and by both updates.  One statement is one step; what the transaction   *)
(* wrote stays invisible to others until the commit.                       *)
(***************************************************************************)
EXTENDS Naturals, Sequences, FiniteSets

CONSTANTS
    Jobs, Opportunities, Ranks, Order, Minimum, FloorPercent,
    Publishers,      \* publisher processes that may be started
    Concurrent,      \* postings other processes may change while a publication
                     \* runs: none in the nightly DAG alone, those of the
                     \* career-host DAG when it runs beside it
    MaxPublications, \* bound on committed publications
    MaxChanges       \* bound on changes of candidate inputs

ASSUME OrderAssumption ==
    /\ Ranks \subseteq Nat /\ Order \in [Jobs -> Nat]
    /\ \A i, j \in Jobs : Order[i] = Order[j] => i = j
ASSUME FloorAssumption ==
    Minimum \in Nat /\ FloorPercent \in Nat /\ MaxPublications \in Nat /\ MaxChanges \in Nat
ASSUME JobsAssumption == IsFiniteSet(Jobs) /\ Concurrent \subseteq Jobs

VARIABLES
    inputs,          \* what the candidate view reads of each posting
    public,          \* committed is_public
    queue,           \* seo_indexing_queue rows, queued_at counted in publications
    log,             \* publication_runs
    txn,             \* the open publication transaction of each publisher
    changes,         \* changes of candidate inputs so far
    aux_during,      \* postings changed since the open publication began
    aux_since,       \* postings changed since the last committed one began
    aux_disturbed    \* whether a committed publication had postings changed under it

publicationAux == <<aux_during, aux_since, aux_disturbed>>
publicationVars == <<inputs, public, queue, log, txn, changes, publicationAux>>

\* The promise of the module: candidate inputs read as they are, the public
\* set as last committed; queue, log and open transactions are hidden.
Promise == INSTANCE PublicSnapshot WITH
    Jobs <- Jobs, Opportunities <- Opportunities, Ranks <- Ranks, Order <- Order,
    Concurrent <- Concurrent, Minimum <- Minimum, FloorPercent <- FloorPercent,
    inputs <- inputs, public <- public

Candidates == Promise!Representatives(inputs)

Txn == [pc : {"idle", "counted", "removals", "additions", "deactivated", "activated"},
        prior : Nat, candidate : Nat,
        removed : SUBSET Jobs, added : SUBSET Jobs,   \* the notices inserted
        flagged : SUBSET Jobs,      \* is_public as the transaction sees it
        written : SUBSET Jobs,      \* rows it holds locked
        activated : Nat, deactivated : Nat]

IdleTxn == [pc |-> "idle", prior |-> 0, candidate |-> 0, removed |-> {}, added |-> {},
            flagged |-> {}, written |-> {}, activated |-> 0, deactivated |-> 0]

Notice == [job : Jobs, kind : {"URL_DELETED", "URL_UPDATED"}, at : Nat]

LogEntry == [prior : Nat, candidate : Nat, activated : Nat, deactivated : Nat]

\* is_public defaults to false.
PublicationInit ==
    /\ inputs \in [Jobs -> Promise!Input]
    /\ public = {}
    /\ queue = {}
    /\ log = <<>>
    /\ txn = [p \in Publishers |-> IdleTxn]
    /\ changes = 0
    /\ aux_during = {} /\ aux_since = {} /\ aux_disturbed = FALSE

Open(p) == txn[p].pc # "idle"

-----------------------------------------------------------------------------

\* The advisory transaction lock admits one publisher; the prior and the
\* candidate count decide whether it goes on.
Begin(p) ==
    /\ Len(log) < MaxPublications
    /\ \A q \in Publishers : ~Open(q)
    /\ Promise!MeetsFloor(Candidates, public)
    /\ txn' = [txn EXCEPT ![p] =
           [IdleTxn EXCEPT !.pc = "counted", !.prior = Cardinality(public),
                           !.candidate = Cardinality(Candidates), !.flagged = public]]
    /\ aux_during' = {}
    /\ UNCHANGED <<inputs, public, queue, log, changes, aux_since, aux_disturbed>>

ReadRemovals(p) ==
    /\ txn[p].pc = "counted"
    /\ txn' = [txn EXCEPT ![p] =
           [@ EXCEPT !.pc = "removals", !.removed = txn[p].flagged \ Candidates]]
    /\ UNCHANGED <<inputs, public, queue, log, changes, publicationAux>>

\* The notices of both kinds are inserted here, inside the transaction.
ReadAdditions(p) ==
    /\ txn[p].pc = "removals"
    /\ txn' = [txn EXCEPT ![p] =
           [@ EXCEPT !.pc = "additions", !.added = Candidates \ txn[p].flagged]]
    /\ UNCHANGED <<inputs, public, queue, log, changes, publicationAux>>

\* Seeded fault: the update that takes postings down is lost.
KeepStale(t) == {}

Leaving(t) == t.flagged \ Candidates

Deactivate(p) ==
    /\ txn[p].pc = "additions"
    /\ LET gone == Leaving(txn[p])
       IN  txn' = [txn EXCEPT ![p] =
               [@ EXCEPT !.pc = "deactivated", !.flagged = txn[p].flagged \ gone,
                         !.written = gone, !.deactivated = Cardinality(gone)]]
    /\ UNCHANGED <<inputs, public, queue, log, changes, publicationAux>>

\* Seeded fault: the activated count is taken for the whole snapshot.
WholeSnapshot(t) == Candidates

Entering(t) == Candidates \ t.flagged

Activate(p) ==
    /\ txn[p].pc = "deactivated"
    /\ LET new == Entering(txn[p])
       IN  txn' = [txn EXCEPT ![p] =
               [@ EXCEPT !.pc = "activated", !.flagged = txn[p].flagged \cup new,
                         !.written = txn[p].written \cup new, !.activated = Cardinality(new)]]
    /\ UNCHANGED <<inputs, public, queue, log, changes, publicationAux>>

\* Seeded fault: both kinds of notice are written for the arriving postings.
UpdatesOnly(t, at) ==
    {[job |-> j, kind |-> "URL_UPDATED", at |-> at] : j \in t.removed \cup t.added}

Notices(t, at) ==
    {[job |-> j, kind |-> "URL_DELETED", at |-> at] : j \in t.removed} \cup
    {[job |-> j, kind |-> "URL_UPDATED", at |-> at] : j \in t.added}

\* The publication_runs row and the commit of everything above.
Commit(p) ==
    /\ txn[p].pc = "activated"
    /\ public' = txn[p].flagged
    /\ queue' = queue \cup Notices(txn[p], Len(log) + 1)
    /\ log' = Append(log, [prior |-> txn[p].prior, candidate |-> txn[p].candidate,
                           activated |-> txn[p].activated, deactivated |-> txn[p].deactivated])
    /\ txn' = [txn EXCEPT ![p] = IdleTxn]
    /\ aux_since' = aux_during /\ aux_disturbed' = (aux_disturbed \/ aux_during # {})
    /\ UNCHANGED <<inputs, changes, aux_during>>

\* A failed statement or a lost connection rolls everything back.
Abort(p) ==
    /\ Open(p)
    /\ txn' = [txn EXCEPT ![p] = IdleTxn]
    /\ UNCHANGED <<inputs, public, queue, log, changes, publicationAux>>

\* Another process commits a change of what the view reads of a posting: whether
\* it qualifies, its opportunity (canonicalize_opportunities.py regroups public
\* postings too) or its place.  The trigger of sql/publication_boundary.sql keeps
\* is_public out of its reach; a row the open publication has written is locked.
ChangeInputs(j) ==
    /\ changes < MaxChanges /\ changes' = changes + 1
    /\ \A p \in Publishers : Open(p) => j \in Concurrent \ txn[p].written
    /\ \E new \in Promise!Input : inputs' = [inputs EXCEPT ![j] = new]
    /\ aux_during' = aux_during \cup {j} /\ aux_since' = aux_since \cup {j}
    /\ UNCHANGED <<public, queue, log, txn, aux_disturbed>>

\* The seed at the end of publication_boundary.sql, which every schema task runs
\* again: one update that fills an empty snapshot.  Its transaction opens with
\* ALTER TABLE, so it waits for a publication that has read the table.
Seed ==
    /\ public = {}
    /\ \A p \in Publishers : ~Open(p)
    /\ public' = Candidates
    /\ aux_since' = {}
    /\ UNCHANGED <<inputs, queue, log, txn, changes, aux_during, aux_disturbed>>

PublisherStep(p) ==
    \/ Begin(p) \/ ReadRemovals(p) \/ ReadAdditions(p)
    \/ Deactivate(p) \/ Activate(p) \/ Commit(p)
    \/ Abort(p)

PublicationNext ==
    \/ \E p \in Publishers : PublisherStep(p)
    \/ \E j \in Jobs : ChangeInputs(j)
    \/ Seed

PublicationSpec == PublicationInit /\ [][PublicationNext]_publicationVars

-----------------------------------------------------------------------------
(* Properties *)

PublicationTypeOK ==
    /\ inputs \in [Jobs -> Promise!Input] /\ public \subseteq Jobs
    /\ queue \subseteq Notice
    /\ log \in Seq(LogEntry)
    /\ txn \in [Publishers -> Txn]
    /\ changes \in Nat
    /\ aux_during \subseteq Jobs /\ aux_since \subseteq Jobs /\ aux_disturbed \in BOOLEAN

\* The committed public set changes only as the promise allows: what it keeps
\* and what it takes in were candidates when the publication looked, and it is
\* not replaced when the candidates fell below the floor the previous snapshot
\* sets (publish; the header of publication_boundary.sql).
KeepsPromise == Promise!Spec

\* "Consumers see only one canonical representative" (the header of
\* publication_boundary.sql): of two public postings of one opportunity, one was
\* changed since the last publication began, by the canonicalizer that regrouped
\* it after the publication or by a process that ran beside it.
OneRepresentative ==
    \A i, j \in public \ aux_since :
        inputs[i].opportunity = inputs[j].opportunity => i = j

\* As long as no publication had postings changed under it, the newest notice of
\* a posting says what the public set says of it, so a search engine that has
\* worked off the queue lists exactly the public postings (publish computes the
\* notices by other statements than the updates they announce).
NewestNoticeTrue ==
    ~aux_disturbed =>
        \A n \in queue :
            (\A m \in queue : m.job = n.job => m.at <= n.at)
              => (n.kind = "URL_UPDATED") = (n.job \in public)

\* As long as no publication had postings changed under it, the counts of
\* publication_runs chain: each run starts from what the runs before it left
\* public, and the last one accounts for what is public now.
LogBalances ==
    ~aux_disturbed =>
        \A k \in 1 .. Len(log) :
            log[k].prior + log[k].activated =
                log[k].deactivated + (IF k < Len(log) THEN log[k + 1].prior ELSE Cardinality(public))

=============================================================================
