------------------------------- MODULE SeoQueue -------------------------------
(***************************************************************************)
(* seo_indexing_queue between the publisher (the INSERT of                 *)
(* python/publish_snapshot.py) and its two readers: the senders of         *)
(* python/notify_google_indexing.py, started by the nightly DAG and by an  *)
(* hourly timer, and the DAG's python/notify_indexnow.py.                  *)
(*                                                                         *)
(* A step is one SQL statement of a transaction (READ COMMITTED), one      *)
(* answer of an engine, or a commit.  A statement that has to wait for a   *)
(* row lock is not enabled while the other transaction holds it.  URLs are *)
(* numbered in text order; queued_at counts publications; a time stamp is  *)
(* reduced to "today" or "earlier" in Google's quota day.                  *)
(***************************************************************************)
EXTENDS Naturals, Sequences, FiniteSets

CONSTANTS
    Urls,            \* opening pages
    Limit,           \* --limit of the Google sender: publishes per quota day
    IndexNowLimit,   \* --limit of IndexNow: URLs per submission
    MaxTries,        \* attempts after which a row is no longer fetched, 5 in the code
    CommitAtFetch,   \* may a publication commit between the two statements of
                     \* compact_and_fetch_pending?
    MaxPublications, \* bound on publications that change something
    MaxFaults        \* bound on failed, refused and lost requests and on crashes;
                     \* both attempts of a night's IndexNow task are one

ASSUME UrlsAssumption == Urls \subseteq Nat /\ IsFiniteSet(Urls)
ASSUME LimitsAssumption ==
    /\ Limit \in Nat \ {0} /\ IndexNowLimit \in Nat \ {0} /\ MaxTries \in Nat \ {0}
    /\ CommitAtFetch \in BOOLEAN /\ MaxPublications \in Nat /\ MaxFaults \in Nat

VARIABLES
    queue,      \* the table: a row, or NoRow, per URL and queued_at
    clock,      \* publications so far
    word,       \* the kind last queued for each URL
    sender,     \* the Google sender processes
    due,        \* attempts the Google task of the current DAG run still has
    indexnow,   \* the IndexNow task of the night
    told,       \* what each engine was last told of each URL
    stamped,    \* sent_at stamps written in the current quota day
    forgotten,  \* how many of those rows were deleted since
    faults

vars == <<queue, clock, word, sender, due, indexnow, told, stamped, forgotten, faults>>

-----------------------------------------------------------------------------
(* Types *)

Kinds == {"URL_UPDATED", "URL_DELETED"}
Senders == {"nightly", "timer"}
Keys == Urls \X (1 .. MaxPublications)

Row == [kind : Kinds \cup {"none"}, sent : {"no", "today", "earlier"}, tries : Nat,
        indexnow : BOOLEAN]

NoRow == [kind |-> "none", sent |-> "no", tries |-> 0, indexnow |-> FALSE]

\* What a sender fetched of a row.
Item == [key : Keys, kind : Kinds]

Sender == [pc        : {"idle", "counted", "compacted", "sending", "answered"},
           remaining : Nat,
           todo      : Seq(Item),
           deleted   : SUBSET Keys,          \* by the open transaction
           now       : {"today", "earlier", "next"}, \* now() of the open transaction, or
                                                     \* none is open
           answer    : {"none", "ok", "error", "quota"}]

IdleSender == [pc |-> "idle", remaining |-> 0, todo |-> <<>>, deleted |-> {},
               now |-> "today", answer |-> "none"]

IndexNow == [pc      : {"ready", "collected", "accepted", "done"},
             attempt : {1, 2},
             batch   : SUBSET Urls,
             deleted : SUBSET Keys]

TypeOK ==
    /\ queue \in [Keys -> Row]
    /\ clock \in 0 .. MaxPublications
    /\ word \in [Urls -> Kinds \cup {"none"}]
    /\ sender \in [Senders -> Sender]
    /\ due \in 0 .. 2
    /\ indexnow \in IndexNow
    /\ told \in [{"google", "indexnow"} -> [Urls -> Kinds \cup {"none"}]]
    /\ stamped \in Nat /\ forgotten \in Nat
    /\ faults \in 0 .. MaxFaults

Init ==
    /\ queue = [k \in Keys |-> NoRow]
    /\ clock = 0
    /\ word = [u \in Urls |-> "none"]
    /\ sender = [s \in Senders |-> IdleSender]
    /\ due = 0
    /\ indexnow = [pc |-> "done", attempt |-> 1, batch |-> {}, deleted |-> {}]
    /\ told = [e \in {"google", "indexnow"} |-> [u \in Urls |-> "none"]]
    /\ stamped = 0 /\ forgotten = 0
    /\ faults = 0

-----------------------------------------------------------------------------
(* The table *)

Rows == {k \in Keys : queue[k].kind # "none"}

Superseded(k) == \E newer \in Rows : newer[1] = k[1] /\ k[2] < newer[2]

\* Seeded fault: nothing is superseded.
NothingStale == {}

\* The rows the compaction of each reader deletes.
GoogleStale == {k \in Rows : queue[k].sent = "no" /\ Superseded(k)}
IndexNowStale == {k \in Rows : ~queue[k].indexnow /\ Superseded(k)}

Without(q, K) == [k \in Keys |-> IF k \in K THEN NoRow ELSE q[k]]

SentToday == {k \in Rows : queue[k].sent = "today"}

-----------------------------------------------------------------------------
(* The publisher *)

Queued(U, kind) ==
    [k \in Keys |-> IF k[1] \in U /\ k[2] = clock + 1
                    THEN [NoRow EXCEPT !.kind = kind[k[1]]] ELSE queue[k]]

\* The notices of a publication become visible with its commit.  A page that
\* was announced is withdrawn and the reverse.  One run of the DAG at a time:
\* its notification tasks are over, the timer's sender may be anywhere.
Publish ==
    /\ indexnow.pc = "done" /\ sender["nightly"].pc = "idle" /\ due = 0
    /\ \E U \in SUBSET Urls : \E kind \in [U -> Kinds] :
         /\ \A u \in U : kind[u] # word[u]
         /\ U # {} => /\ clock < MaxPublications
                      /\ CommitAtFetch \/ sender["timer"].pc # "compacted"
         /\ clock' = IF U = {} THEN clock ELSE clock + 1
         /\ queue' = Queued(U, kind)
         /\ word' = [u \in Urls |-> IF u \in U THEN kind[u] ELSE word[u]]
    /\ indexnow' = [indexnow EXCEPT !.pc = "ready", !.attempt = 1]
    /\ due' = 2
    /\ UNCHANGED <<sender, told, stamped, forgotten, faults>>

-----------------------------------------------------------------------------
(* The Google senders *)

\* Seeded fault: no advisory lock.
NoLock(s) == TRUE

LockFree(s) == \A other \in Senders \ {s} : sender[other].pc = "idle"

\* The task of the DAG runs once, and once more if it failed.
MayStart(s) == sender[s].pc = "idle" /\ (s = "nightly" => due > 0)

\* A task that ended well has no attempt left.
Ended(s) == IF s = "nightly" THEN 0 ELSE due

\* Take the session's advisory lock; what is left of today's quota.
Start(s) ==
    /\ MayStart(s) /\ LockFree(s)
    /\ due' = IF s = "nightly" THEN due - 1 ELSE due
    /\ LET used == Cardinality(SentToday)
       IN  sender' = [sender EXCEPT ![s] =
               [IdleSender EXCEPT !.pc = "counted",
                                  !.remaining = IF used < Limit THEN Limit - used ELSE 0]]
    /\ UNCHANGED <<queue, clock, word, indexnow, told, stamped, forgotten, faults>>

\* Another sender is running: this one reports success at once.
Skip(s) ==
    /\ MayStart(s) /\ ~LockFree(s)
    /\ due' = Ended(s)
    /\ UNCHANGED <<queue, clock, word, sender, indexnow, told, stamped, forgotten, faults>>

\* The DELETE waits for rows IndexNow's open transaction deleted.
Compact(s) ==
    /\ sender[s].pc = "counted"
    /\ GoogleStale \cap indexnow.deleted = {}
    /\ sender' = [sender EXCEPT ![s] = [@ EXCEPT !.pc = "compacted", !.deleted = GoogleStale]]
    /\ UNCHANGED <<due, queue, clock, word, indexnow, told, stamped, forgotten, faults>>

\* row_number() within the notification type, by queued_at and url.
Position(k, P) ==
    Cardinality({n \in P : /\ queue[n].kind = queue[k].kind
                           /\ n[2] < k[2] \/ (n[2] = k[2] /\ n[1] <= k[1])})

\* The fair order alternates between the types, updates first.
Before(a, b, P) ==
    \/ Position(a, P) < Position(b, P)
    \/ /\ Position(a, P) = Position(b, P)
       /\ queue[a].kind = "URL_UPDATED" /\ queue[b].kind = "URL_DELETED"

\* The rows of P in that order.
Ordered(P) ==
    {all \in [1 .. Cardinality(P) -> P] : \A i, j \in DOMAIN all : i < j => Before(all[i], all[j], P)}

Pending(s) ==
    {k \in Rows \ sender[s].deleted : queue[k].sent = "no" /\ queue[k].tries < MaxTries}

Fetch(s) ==
    /\ sender[s].pc = "compacted"
    /\ \E all \in Ordered(Pending(s)) :
         \E n \in 0 .. sender[s].remaining :
           /\ n = sender[s].remaining \/ n = Cardinality(Pending(s))
           /\ n <= Cardinality(Pending(s))
           /\ sender' = [sender EXCEPT ![s] = [@ EXCEPT !.pc = "sending",
                  !.todo = [i \in 1 .. n |-> [key |-> all[i], kind |-> queue[all[i]].kind]]]]
    /\ UNCHANGED <<due, queue, clock, word, indexnow, told, stamped, forgotten, faults>>

\* One request.  A request that fails or whose answer is lost may have been
\* carried out; 429 and other refusals were not.
Post(s) ==
    /\ sender[s].pc = "sending" /\ sender[s].todo # <<>>
    /\ LET item == Head(sender[s].todo)
       IN  \E answer \in {"ok", "error", "quota"} : \E done \in BOOLEAN :
             /\ answer = "ok" => done
             /\ answer = "quota" => ~done
             /\ IF answer = "ok" THEN UNCHANGED faults
                ELSE faults < MaxFaults /\ faults' = faults + 1
             /\ told' = IF done THEN [told EXCEPT !["google"][item.key[1]] = item.kind] ELSE told
             /\ sender' = [sender EXCEPT ![s] = [@ EXCEPT !.pc = "answered", !.answer = answer]]
    /\ UNCHANGED <<due, queue, clock, word, indexnow, stamped, forgotten>>

Stamp(s) == IF sender[s].now = "earlier" THEN "earlier" ELSE "today"

\* Seeded fault: a failed request is stamped like a delivered one.
AlwaysStamped(row, s) == [row EXCEPT !.sent = Stamp(s), !.tries = @ + 1]

\* The UPDATE of a row: quota exhaustion keeps the row's retry budget.
Answered(row, s) ==
    IF sender[s].answer = "ok" THEN [row EXCEPT !.sent = Stamp(s), !.tries = @ + 1]
    ELSE IF sender[s].answer = "error" THEN [row EXCEPT !.tries = @ + 1]
    ELSE row

\* Quota exhaustion ends the run, else the next transaction begins with the
\* next UPDATE.
Onward(c) ==
    IF c.answer = "quota" THEN IdleSender
    ELSE [c EXCEPT !.pc = "sending", !.todo = Tail(@), !.deleted = {}, !.now = "next",
                   !.answer = "none"]

\* The UPDATE by primary key and the commit.  The UPDATE waits for IndexNow if
\* its open transaction deleted the row, and finds nothing when that is committed.
RecordAnswer(s) ==
    /\ sender[s].pc = "answered" /\ sender[s].todo # <<>>
    /\ LET k == Head(sender[s].todo).key
           written == k \in Rows
       IN  /\ k \notin indexnow.deleted
           /\ queue' = Without([queue EXCEPT ![k] = IF written THEN Answered(@, s) ELSE @],
                               sender[s].deleted)
           /\ stamped' = IF written /\ sender[s].answer = "ok" /\ Stamp(s) = "today"
                         THEN stamped + 1 ELSE stamped
           /\ sender' = [sender EXCEPT ![s] = Onward(sender[s])]
    /\ due' = IF sender[s].answer = "quota" THEN Ended(s) ELSE due
    /\ UNCHANGED <<clock, word, indexnow, told, forgotten, faults>>

\* Nothing left to send: the commit of `with conn` and the end of the session.
Finish(s) ==
    /\ sender[s].pc = "sending" /\ sender[s].todo = <<>>
    /\ queue' = Without(queue, sender[s].deleted)
    /\ sender' = [sender EXCEPT ![s] = IdleSender]
    /\ due' = Ended(s)
    /\ UNCHANGED <<clock, word, indexnow, told, stamped, forgotten, faults>>

\* The process dies or its time is up; its open transaction rolls back.
CrashSender(s) ==
    /\ sender[s].pc # "idle"
    /\ faults < MaxFaults /\ faults' = faults + 1
    /\ sender' = [sender EXCEPT ![s] = IdleSender]
    /\ UNCHANGED <<due, queue, clock, word, indexnow, told, stamped, forgotten>>

SenderStep(s) ==
    Start(s) \/ Skip(s) \/ Compact(s) \/ Fetch(s) \/ Post(s) \/ RecordAnswer(s) \/ Finish(s)

-----------------------------------------------------------------------------
(* IndexNow: one transaction around the request *)

HeldBySenders == UNION {sender[s].deleted : s \in Senders}

Unsubmitted == {k[1] : k \in {n \in Rows \ IndexNowStale : ~queue[n].indexnow}}

Collect ==
    /\ indexnow.pc = "ready"
    /\ IndexNowStale \cap HeldBySenders = {}
    /\ indexnow' = [indexnow EXCEPT !.pc = "collected", !.deleted = IndexNowStale,
           !.batch = {u \in Unsubmitted :
                        Cardinality({v \in Unsubmitted : v < u}) < IndexNowLimit}]
    /\ UNCHANGED <<due, queue, clock, word, sender, told, stamped, forgotten, faults>>

\* An accepted batch makes the engine read the pages as they are now.
Submit ==
    /\ indexnow.pc = "collected"
    /\ told' = [told EXCEPT !["indexnow"] =
           [u \in Urls |-> IF u \in indexnow.batch THEN word[u] ELSE @[u]]]
    /\ indexnow' = [indexnow EXCEPT !.pc = "accepted"]
    /\ UNCHANGED <<due, queue, clock, word, sender, stamped, forgotten, faults>>

\* Seeded fault: a row is marked by its URL, whatever was submitted.
MarkedEverything == {k \in Rows : ~queue[k].indexnow}

Marked == {k \in Rows \ indexnow.deleted : k[1] \in indexnow.batch /\ ~queue[k].indexnow}

\* mark_queue and the commit.
Mark ==
    /\ indexnow.pc = "accepted"
    /\ Marked \cap HeldBySenders = {}
    /\ forgotten' = forgotten + Cardinality(SentToday \cap indexnow.deleted)
    /\ queue' = Without([k \in Keys |-> IF k \in Marked THEN [queue[k] EXCEPT !.indexnow = TRUE]
                                        ELSE queue[k]], indexnow.deleted)
    /\ indexnow' = [indexnow EXCEPT !.pc = "done", !.batch = {}, !.deleted = {}]
    /\ UNCHANGED <<due, clock, word, sender, told, stamped, faults>>

\* A failed or refused request, or a crash: the exception rolls back the
\* compaction and the attempts just recorded.  Airflow retries the task once.
Reject ==
    /\ indexnow.pc # "done"
    /\ IF indexnow.attempt = 2 THEN UNCHANGED faults
       ELSE faults < MaxFaults /\ faults' = faults + 1
    /\ indexnow' = [pc |-> IF indexnow.attempt = 1 THEN "ready" ELSE "done",
                    attempt |-> 2, batch |-> {}, deleted |-> {}]
    /\ UNCHANGED <<due, queue, clock, word, sender, told, stamped, forgotten>>

-----------------------------------------------------------------------------

\* Midnight in Los Angeles.
NewDay ==
    /\ stamped > 0
    /\ queue' = [k \in Keys |-> IF queue[k].sent = "today"
                                THEN [queue[k] EXCEPT !.sent = "earlier"] ELSE queue[k]]
    /\ sender' = [s \in Senders |-> IF sender[s].pc # "idle" /\ sender[s].now = "today"
                                    THEN [sender[s] EXCEPT !.now = "earlier"] ELSE sender[s]]
    /\ stamped' = 0 /\ forgotten' = 0
    /\ UNCHANGED <<due, clock, word, indexnow, told, faults>>

IndexNowStep == Collect \/ Submit \/ Mark

Next ==
    \/ Publish
    \/ \E s \in Senders : SenderStep(s) \/ CrashSender(s)
    \/ IndexNowStep \/ Reject
    \/ NewDay

Spec == Init /\ [][Next]_vars

\* The DAG runs every night and the timer every hour, the processes run, and
\* days pass.  Nothing has to fail.
FairSpec ==
    /\ Spec
    /\ WF_vars(Publish) /\ WF_vars(IndexNowStep) /\ WF_vars(NewDay)
    /\ \A s \in Senders : WF_vars(SenderStep(s))

-----------------------------------------------------------------------------
(* Properties *)

\* A URL that has no row left to send stands at Google as it was queued last,
\* whichever of the two senders sent what, and whatever was compacted, failed or
\* was lost ("Keep only each URL's newest desired state",
\* compact_and_fetch_pending).
GoogleInformed ==
    \A u \in Urls :
        (\A k \in Rows : k[1] = u => queue[k].sent # "no") => told["google"][u] = word[u]

\* The same for IndexNow, which is told of URLs and not of rows.
IndexNowInformed ==
    \A u \in Urls :
        (\A k \in Rows : k[1] = u => queue[k].indexnow) => told["indexnow"][u] = word[u]

\* The successful publishes recorded in one quota day exceed the limit at most by
\* the ones whose rows IndexNow's compaction deleted the same day: two
\* senders never spend one allowance twice (sent_since_pacific_midnight).
WithinQuota == stamped <= Limit + forgotten

\* The retry budget of the newest row of a URL is used up.
Exhausted(u) ==
    \E k \in Rows : k[1] = u /\ ~Superseded(k) /\ queue[k].sent = "no" /\ queue[k].tries >= MaxTries

\* In the end Google knows the last state of every URL but those it kept
\* refusing, and IndexNow of every URL: it has no retry budget to use up, since
\* its failures are rolled back.  Row locks never make the two wait for each other.
Delivered ==
    \A u \in Urls :
        /\ <>[](told["google"][u] = word[u] \/ Exhausted(u))
        /\ <>[](told["indexnow"][u] = word[u])

=============================================================================
