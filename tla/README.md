# A verification model of job-market-analytics

The repository ("Lander") harvests job postings from applicant-tracking
systems every night, enriches and deduplicates them in PostgreSQL, publishes
one atomic snapshot of them, tells search engines what changed, and sells a Pro
tier through Stripe.  This directory holds TLA+ models of the parts of it that
decide something under concurrency, crashes, retries or reordered messages, the
TLC configurations that check them on small instances, and TLAPS proofs of what
matters most for every size.  Paths below are relative to `src/`.

* [The system](#the-system): the parts, their state, how they interact
* [Modules](#modules): what each one models and how it corresponds to the code
* [Runs](#runs): what is checked, the bounds, the fairness
* [Proofs](#proofs): what is proved, from what, along which argument
* [Disagreements with the code's own words](#disagreements)
* [What is left out](#what-is-left-out) and the [plan](#plan)

## The system

Everything shares one PostgreSQL database; there is no other message bus.
Programs are short-lived processes that Airflow starts
(`airflow/dags/lander_pipeline.py`), plus one API server (`python/api.py`), so
"interaction" means: who commits which rows when, in READ COMMITTED
transactions.

| part | state it keeps | operations | what must hold |
|---|---|---|---|
| Tenant outcome ledger, `python/crawl_observability.py` | one outcome per board, in process memory | record success or failure from fetch threads, merge, reset | the order of reports does not matter; a failure is not forgotten |
| Checkpointed sweep, `python/ingest_workday_resumable.py` | `ingestion_crawl_runs` row of the sweep; which batches are done | plan, start a child per batch, read exit codes, account for every board | a retry skips exactly the clean boards; every board ends with an outcome |
| Harvester child, `run_ingestion` in `python/ingest_jobs.py` | its run row, its outcomes, `job_postings.last_seen_at` | fetch, register, write in commit batches, log | data and bookkeeping commit separately; no crash may make an unseen board look seen |
| Ingest gate and expiry, `python/airflow_quality_gate.py`, `python/expire_jobs.py` | `job_postings.status` | gate per source, close unseen postings, reopen seen ones | nothing is closed without evidence of this night |
| Publication, `python/publish_snapshot.py`, `sql/publication_boundary.sql` | `is_public`, `publication_runs`, `seo_indexing_queue` | count, compare, deactivate, activate, enqueue notices | one representative per opportunity as it was grouped, the floor, truthful notices |
| SEO senders, `python/notify_google_indexing.py`, `python/notify_indexnow.py` | sent and attempt columns of the queue | compact, send, mark | quota, no lost notice |
| Billing, `python/billing.py` and the Stripe endpoints of `python/api.py` | `billing_*` tables, `api_keys.tier` | webhook, reconciliation, cancellation | the tier agrees with Stripe when nothing is pending |
| Harvesters, the fetchers of `python/ingest_jobs.py`, `python/*_harvest.py`, `python/employer_feeds.py`, `python/coverage_ingest.py` | what one fetch has listed, asked for and emitted | load the boards, page, ask for details, report to the ledger | a clean outcome is a permission to close: it must mean that the whole board was emitted |
| Career agent, `python/career_agent_worker.py` | `career_campaigns`, leads, contacts, search usage | claim, search, heartbeat, recover a stale claim, finish | every campaign is answered; the search budget |
| Career-host engine, `python/career_host_engine.py` | candidates, hosts, direct postings | seed, resolve, review, route, crawl, mature, expire | only mature hosts publish; a crawl closes nothing it found acceptable; blocked hosts stay hidden |
| Derived columns: enrichment, classification, `python/embed_jobs.py`, skills, `python/canonicalize_opportunities.py`, `python/validate_public_source_urls.py` | domain, category, level, embedding, skills, canonical opportunity, URL verdict | read, compute for minutes, write by id | a derived value belongs to the text it was derived from |
| Salaries and model calls, `python/enrich_job_postings.py`, `python/llm_client.py`, `python/extract_salaries.py`, the annualizing statements of the DAG | salary columns, category, classification cache | parse, ask the model, annualize, write in chunks | a yearly pair is one reading of one text |
| ATS registry, `python/discover_*.py`, `python/validate_ats_candidates.py`, `python/integrate_ats_candidates.py`, `python/*_workday_tenants.py` | candidates, boards, `discovered_companies` | discover, validate, integrate | only validated boards are harvested; what is found comes to be harvested |
| Radar, e-mail, reports, resume features, API reads | various | batch SQL, senders, request-local work | mostly data quality |

The nightly DAG runs backup, the schema files, thirteen harvesters (three tasks at
once), the ingest gate, enrichment, expiry, validation, the publish gate,
publication, and then the SEO senders and the report.  A second DAG, the
career-host engine, starts at 10:00 and may run for twelve hours; the nightly may
run for eighteen, so the two overlap and both write `job_postings`.

The behaviours that are hard here:

* **several commits for one fact.**  A harvester commits postings in batches, then
  outcomes; a crash in between leaves fresh postings and no account of them.
* **children in parallel.**  The SmartRecruiters sweep runs one child per board,
  four at a time, against the same tables.
* **a retry that must be both complete and minimal.**  Airflow retries the sweep
  once; what the first attempt completed must not be crawled again.
* **statements that see different states.**  The publisher evaluates one view five
  times, each time on what is committed by then.
* **a second source of truth.**  Stripe's events are late, repeated and out of
  order, and its objects change while a handler works.
* **locks taken in opposite orders** by a webhook handler and a cancellation.
* **absence as evidence.**  A posting is closed because a crawl did not emit it, so
  every way a request can fail has to end up in the outcome of its board.
* **read, compute, write by id.**  Six nightly programs write columns computed from
  rows that they read minutes or hours before.
* **stale status.**  A career host is read when its batch starts and written when its
  crawl ends; reviews, deployments and other crawls come in between.
* **chains with nothing to keep them apart.**  Two discovery DAGs and the career-host
  DAG run discovery, validation and integration on one registry.
* **a worker that is only slow** is indistinguishable from a dead one after 45
  minutes, and two of them then work on one campaign.

Every hazard of this kind that the code is exposed to is listed in
`PROJECT.json` at the line where it bites, with the properties that cover it.

## Modules

### TenantOutcomes

`outcomes` is the module dictionary `_outcomes`; `Absent` is a missing key.
`RecordSuccess` and `RecordFailure` build a report and merge it under the lock
(`Record` is the critical section), `Reset` is `reset()`.  `detail` is left
out; `jobs` and `errors` are kept.  The reference is `Verdict`, which reads the
answer off the *set* of a board's reports (history variable `aux_reports`).
The module is a component of `Harvest`, whose fetches make the reports.

### CrawlLifecycle

One checkpointed source (Workday or SmartRecruiters), its sweep, its children, the
gate and expiry, over several nights.

* `row` is `job_postings` (status, `last_seen_at`), `runs` and `tenantRuns` are the
  tables of `sql/ingestion_observability.sql`, `sweep` the newest
  `checkpoint_sweep` row.  `child[s]` is the process in slot `s`; `queue` and
  `verdicts` are the local state of `run_checkpoints`.
* Time is the number of registered runs: `started_at` of run k is k, and a
  transaction that began when n runs were registered has `now() = n`.  This
  keeps exactly the comparison the code makes, `last_seen_at >= started_at`.
  Run numbers are given in commit order; the code's `started_at` is the `now()` of
  the registering transaction, so two children that register at once may in
  reality be ordered either way.  Both orders are behaviours of the model, as
  either child may commit first.
* `StartChild` is `run_batch` plus the crawl: which postings a board lists, and
  which outcome the adapter reports, are chosen freely, so no assumption is made
  on providers, except that a failed board yields no posting.
* `Register`, `BeginBatch`, `CommitBatch`, `LogRun`, `FinishEmpty` are the
  transactions of `run_ingestion` in order; `RegisterFails`, `LogFails`,
  `CrashChild`, `KillSweep` the ways each can fail.  `LogRun` contains the explicit
  outcomes, the compatibility fallback (`InferredRows`) and the closing of the
  run row, as in the code.  The posting whose write fails on a commit boundary
  postpones that commit to the next boundary in the code; the model commits at the
  boundary, which only makes `now()` fresher than it could be.
* `LogLosesRows` is a failure inside `log_pipeline_run`: its rollback takes along the
  outcomes recorded before it on the same connection, and the caller goes on to
  close the run.
* `FinishSweep` is `sweep_record(finished=True)` with the three exits of `main`;
  `EndAttempt` is Airflow's `retries=1`.  A run that an operator clears gets more
  attempts in reality.
* `IngestGate` is the gate's decision for this source; its row-count sanity check and
  the other sources are not modelled.  `ExpireJobs` is the transaction of
  `expire_jobs.py`, closing and reopening together.  `cutoff`, its
  `now() - 1 day`, may be any point up to the start of the night: the DAG run is
  cut off after 18 hours, so what was seen tonight is never a day old.
* When the sweep is killed its children die with it (one process group).

### PublicSnapshot and Publication

`PublicSnapshot` is the promise in the header of `publication_boundary.sql`: inputs
change freely; the public set is replaced in one step, above the floor, by the candidates
of the moment.  `Publication` is `publish()` one statement at a
time, and `Promise == INSTANCE PublicSnapshot` is the refinement: the abstract
state is the committed part of the concrete one.

`inputs[j]` is what the candidate view reads of a posting: whether it passes the row
predicate (`eligible`, 100 lines of company, content, lifecycle and location rules), the
opportunity canonicalization put it in, and its place in the `row_number()` order
(`rank`, ties broken by job_id as in the view).  `txn[p]` holds what publisher p's open
transaction has read and what it will commit; `flagged` is `is_public` as that
transaction sees it.
`ChangeInputs` is any other program changing one posting's inputs, public postings included
(`canonicalize_opportunities.py:172` regroups them): always possible between publications,
during one only for the postings in `Concurrent`, and never for a row the
transaction has written (row lock).  `Begin` includes the
advisory lock, the counts and the floor check; a refused or dry run changes
nothing and is no step.  `Seed` is the statement at the end of the schema file; its
`ALTER TABLE` waits for an open publication.

With postings that change during a publication the promise is weaker, because the code's is:
`Publish` judges the floor, what stays and what comes each at a moment of the
publication (`Meanwhile`).  With `Concurrent` empty the three moments are one and this is the
atomic snapshot.  Three history variables say what changed when: `aux_during` the postings changed under
the open publication, `aux_since` those changed since the last one began, `aux_disturbed` whether
a committed publication ever had one.

### Billing

`stripe` is Stripe's side (status and a version per subscription), `owed` the
events it still has to deliver, the other variables are the tables.  `worker[w]`
is the open transaction of one handler thread: `Begin` takes the customer's
advisory lock and checks `billing_events`, then one action per statement group
(`Retrieve`, `Upsert`, `Decide`, `SetTier`, `Commit`).  Uncommitted writes live in
the worker record and are invisible to others; `Locks` and `KeyRowFree` are the
row locks.  `cancel[k]` is a `cancel_subscription` request: subscriptions are
listed and ended customer by customer (`ListCustomer`, `CancelOne`) and then one
transaction frees the tier and closes the rows (`FreeTier`, `CommitCancel`), in the
lock order of the code, so a handler and a cancellation can block each other
(`BreakDeadlock`, PostgreSQL's detector).

Abstractions: `entitled` is an active or trialing subscription with the Pro price,
`lapsed` any other live status.  Every e-mail address owns one active key.
`immediate=false` is a later `Change` at Stripe.  `upgraded_to_paid_at` and the
lifecycle event, which follow the tier in the same transaction, are left out.
`asof` in a subscription row is auxiliary: the version it was written from.

### SeoQueue

`queue` is `seo_indexing_queue`, keyed by URL and publication (the order of
`queued_at`); `sent` is `sent_at` against Google's quota day, `indexnow` whether
`indexnow_sent_at` is set.  `Publish` is the commit of the publisher's INSERTs
(`Publication` models the rest of it) and the start of the DAG's notification tasks;
`due` counts what `retries=1` leaves of the Google task.  `sender["nightly"]` and
`sender["timer"]` are two processes of one program: `Start`/`Skip` (advisory lock and
count), `Compact`, `Fetch`, then `Post` and `RecordAnswer` per row, `Finish`.  Deletions
of an open transaction stand in `deleted` and take effect with its first commit.
IndexNow's transaction is `Collect`, `Submit`, `Mark`; `Reject` is every way it fails,
and rolls all of it back, `mark_queue(error=...)` included, so `indexnow_attempts`
never counts a failure and is not modelled.  `Post` may be carried out and its answer
lost.  `now()` of the sender's first transaction is taken before its first request
(`now`, `Stamp`), so a run over midnight stamps its first row with the earlier day.

`told` is what the engines know, `word` what was queued last, `stamped` and
`forgotten` count the day's stamps and how many of those rows are gone; no
action depends on them, except that `NewDay` happens only after something was stamped.
`CommitAtFetch` says whether a publication may commit between the
sender's DELETE and SELECT: nothing in the code prevents it.  `seo_queue` shows what holds
apart from that window of milliseconds; `QuotaKept` is proved with it.
`WithinQuota` speaks of recorded publishes.  The real sum at Google also contains
those whose answer or stamp was lost.

### Harvest

The fetch of one board by each of the sources, from the list of boards to the report;
it extends `TenantOutcomes`, so `outcomes` is the ledger and every report is its
`RecordSuccess` or `RecordFailure`.

* A board is `size` pages for each search term, one accepted posting on a page; which
  fields a posting has is left out.  `read`, `asked`, `out` and `stub` are what the
  fetch listed, asked the details of, and emitted with and without a description.
  `aux_fault` remembers that some request or parse failed.
* One group of actions per source family.  Greenhouse, Lever and Ashby read the board in
  one request and parse it; SmartRecruiters pages under a deadline and asks for
  details; Workday pages and, above the size its API answers reliably (`large`,
  `Window`), asks for partitions by location facet and by term (`SearchTerm`),
  fetches details concurrently and writes stubs for those it did not get; Amazon and
  Eightfold search by terms; iCIMS and Taleo take links out of HTML; Jobvite and
  BambooHR list once; Workable searches globally and charges what no company can be
  charged with to `global-search`; an employer feed is a run of its own
  (`LoadPartners` to `FinishCrawlRun`).
* `LoadCompanies`, `LoadWorkdayList` and `LoadRegistry` read the board list, whose failure
  ends the program before anything is fetched.
* The coverage commands (USAJOBS, Adzuna, JSON-LD pages, single feeds) keep no
  outcome: a failure ends the command before it writes, and their postings are never
  closed by absence.
* A fault is possible at every request and every parse.  `Uncaught` faults end the
  whole child without a report; `CrawlLifecycle` models what the sweep makes of that.

### CareerHost

* `candidate`, `host` and `row` are `career_host_candidates`, `career_hosts` and the
  postings of career sites; `crawl[c]` is the
  process of a crawl: the batch it read (`snap`), the host it is at, what its listing
  and its details gave.  What the site says of each posting is chosen anew by each fetch
  (`Sites`).  Time is kept as ages and waits in whole days.
* `Seed`, `SeedFromIndex` and `Resolve` make candidates and hosts.  `Score` is
  `_score_search_result`, `Fingerprint` the choice of a strategy from a page's links
  and text; `Resolve` ranges over what they can yield.  `ReviewOracle`, `RequeueCandidate`
  and `RequeueHost` are the manual reviews, `Route` the hand-over to the ATS pipeline.
* `SelectHosts` is the quarantine of blocked hosts and the batch query, `StartRun` the
  run row, the five `Fetch` actions the strategies, each with its own errors,
  `Finish` the one transaction that writes rows, expires, classifies the run, moves the
  maturation clock and activates.  `Verdict` is `posting_to_job` together with the location and
  brand rules.  A page that answers without a JobPosting is `gone` like one that states an
  unsuitable job; a posting that `posting_to_job` takes and `ingest_job` refuses by
  returning False is `refused`: it is neither written nor counted as an error, and `Finish`
  closes its row.
* The module does not keep which of the three recipe platforms a host is on, so
  each of the three recipe crawls may be applied to it.
* `aux_clean` remembers when a host was first and last clean since it last entered shadow, and
  whether the crawl that activated it met a wrong employer.

### DerivedState

* A text and a URL are numbers, and a derived column holds the number of the text it was
  computed from; `read` is what the running task has read and not written back.
* `Crawl` is `ingest_job`, which invalidates the columns when a description changes and the
  verdict when the URL does.  The stages follow the nightly DAG: reclassification,
  pre-pass and enrichment, skills, embedding, experience level, canonical groups,
  URL validation, publication.  Which rows each selects is its SQL; `FailNight` is a task
  that fails twice, after which the later ones do not run.
* `Career` postings belong to the other DAG and may be crawled at any stage, also between a
  task's read and its write.  `aux_crossed` holds the postings to which that has
  ever happened, `aux_late` those ingested since the night's tasks began.  The
  instance has one such posting; the proofs allow any.
* `Fresh` speaks of the columns that `ingest_job` resets.  The yearly salary
  (`ingest_jobs.py:1704`, module `Enrichment`) and the employment type (`:1629`) are not among them.

### Candidates and BoardCrawl

`Candidates` is the registry (`ats_tenants_candidates`).  A lane is one run of the chain by
one of the three DAGs: `Start`, `Discover`, `Route`, `Load`, `Validate`, `LoadReady`, `Integrate`,
`Finish`, each lane with the rows it has loaded and not written.  `ProbeBoard`,
`SaveBoard` and `LoseBoards` are the board discoverers, which keep probed tenants in a buffer
until they save them, and lose it when they die.  A locator says what a row knows:
no server, a Workday host, or a board.  `Start` reads what is known (`Known`): the candidates, and of the
harvested companies those that are not dead; a database error leaves a part of it or nothing
(`KnownPart`), and the career-host engine asks for nothing known.  `aux_valid` records what the
validations saw: an opening of a target role (the registry), an opening in the country (the weekly
crawl, which also integrates boards without a target opening).

`BoardCrawl` extends it by the weekly crawl of Workday boards: mining the crawl's
indexes and the slugs of listed companies, the two tables (a row per tenant, a row per
board), validation of a tenant and its siblings, and the integration in one
transaction in which a failing row rolls back those before it.

### CareerAgent

`status`, `quiet` and `lead_count` are columns of `career_campaigns`, `leads`, `pool` and `used` the
other tables; `job[w]` is a worker between two commits of `process`.  `Claim` takes a
queued campaign or one whose row was not touched for `StaleTicks`.  Searches are
charged after they ran (`units`), which is what `MonthlyOvershoot` bounds.  A
contact has a kind (from the web, from the repository's own tables, or both), and the merge and the
selection by kind are modelled.  What queues campaigns is outside the repository.

### Salaries and Enrichment

`Salaries` is the pure part: a text is a sequence of lines, of which the period words
and the shapes of sums are kept.  It holds every extractor of `parse_salary_range` in
order, the windows of `extract_salaries.py`, the yearly amounts and the check of a
model's reply.

`Enrichment` is the program around it: selection, the cache, the rules, then concurrent
calls or a batch, then writes in chunks, beside a crawl that replaces texts, the
extraction and the two annualizing statements.  A coroutine passes the rate limiter, then
takes two permits of one semaphore (one in `_one_classify` or `_one_salary`, one inside the
client); `waiting` is the semaphore's queue and `tripped` the circuit breaker.
A reply of the model states two positive amounts and is checked as the code does, so one with its bounds
in reverse and one of them out of range is accepted; `aux_half` holds the postings it was written to:
see [Disagreements](#disagreements).  `Salaries` carries every extractor because `OneReading`
compares what several of them make of one text; no other property needs them.

### MC modules

One for each run's component.  They give the functions among the constants (which board lists
which posting, which customer belongs to which key, the texts of the salary runs), the
symmetries and one view.  `MCCandidates` also composes `Candidates` and `BoardCrawl`:
the two share only `harvested`, to which both only add and which either reads only to leave a known
tenant undiscovered, as it always may, so a behaviour of the instance runs one of the two (`side`).  The theorems about
`BothSpec` allow every interleaving.  Operators commented "Seeded
fault" in the component modules are plausible mistakes in the definition that follows
them; no specification uses them.  They exist so that every property is
known to fail when the code is broken in that way.

## Runs

| run | checks | bounds |
|---|---|---|
| `crawl_sequential` | `CleanStaysClean`, `SeenStaysOpen`, `ClosureAuthorised` | one slot, a batch is the whole inventory, two boards with a posting each, three nights of at most two attempts, one fault |
| `crawl_ends` | `EveryTenantAccounted`, `NightEnds` under `FairSpec` | one slot, batches of one, two boards (two postings on one, one on the other), one night, one fault |
| `crawl_parallel` | violates `ClosureAuthorised` | two slots, two nights, no fault |
| `publication` | `OneRepresentative`, `NewestNoticeTrue`, `LogBalances`, refinement `KeepsPromise` | three postings, three opportunities and two ranks, any inputs at first, two changes of a posting's inputs, one posting that may change during a publication, two publishers, three publications |
| `billing_customer` | `Settled`, `NoStaleCommit`, `Converges` under `FairSpec` | one customer with two subscriptions, two handlers, four events, one cancellation, one failure |
| `seo_queue` | `GoogleInformed`, `IndexNowInformed`, `WithinQuota`, `Delivered` under `FairSpec` | two URLs, two publications that change something, two publishes a day, one URL per IndexNow batch, one attempt per row, one fault |
| `harvest` | `HealthyIsClean`, `CleanMeansWhole`, `ListedIsKept`, `OrderInsensitive`, `FailureSticks` | every source; boards of up to three pages, two terms, a Workday window of two pages; any number of faults and runs |
| `career_host` | `PublishedAfterMaturation`, `ActiveHostPublishes`, `BlockedStaysHidden`, `ClosesNothingAcceptable`, `CleanHostsMature` | one host, two postings, one crawler, maturation after two days or one (the code's seven and two); no bound on steps |
| `derived_state` | `NeverStale`, `VerdictOfThisUrl`, `OneListing`, `ClassifiedLevels`, `NothingStranded` | two postings, the younger one of the career-host DAG, two texts (one of a kind no rule can place) at two URLs, one row per enrichment; no bound on nights |
| `candidates` | `HarvestedWasValidated`, `BoardsRemembered`, `FoundIsHarvested` under fairness | one Workday and one Greenhouse tenant, two boards (one without a target opening, one whose other postings are abroad), two lanes, a daily quota of one row, one site change, one failure; at first no board without a target opening is listed and the Greenhouse board is open |
| `career_agent` | `MonthlyOvershoot`, `ReadyIsBacked`, `EveryCampaignAnswered` under `AgentFairSpec` | two campaigns, two workers, one contact, a month's budget of two searches, one worker that dies |
| `enrichment` | `OneReading`, `BreakerStops`, `CallsEnd` under `FairSpec` | three postings with a text each (a yearly band; hourly pay behind a range of revenue; none that the rules find), two replies with reversed bounds (one leaves the range), three permits, chunks of two, one changed text, one run, one fault |

Type invariants are proved; they hold in the same
instances and stand in no configuration, to keep each run to its questions.

**Why these bounds.**  A closing of a posting involves an earlier night that
opened it, one more board for "an unrelated tenant", and for a posting that is closed
and then listed again a third night: three nights, two boards.  A batch of the whole
inventory lets a retry's batch be shorter than the first; batches of one (`crawl_ends`)
let one child succeed while the bookkeeping of the other fails.  One fault anywhere is enough to
separate data from bookkeeping; more faults repeat the same states in a later attempt.
Publication needs two postings of one opportunity that can swap or part and a bystander; a posting that
leaves, returns or changes its group needs two changes, and three
publications let a notice be superseded.  Billing needs two subscriptions so that one
may support the tier while the other ends, and four events so that each may have
two in flight.  The notification queue needs two publications to supersede a
row, two URLs for an order among rows and a batch that leaves one out, and two
publishes a day so that a run has a second transaction; four rows exceed the
allowance of a day.  A fault of IndexNow may last over both attempts of a night,
which lets rows that Google was sent be compacted.

A board of three pages has a first, a middle and a last one to fail, and with a window of two
a partition that is too large itself.  A career host needs two postings
for a listing that is short by one, and two different maturation times; hosts share nothing but the
batch.  Two postings with two texts can become one opportunity or cease to be one between
grouping and publication, and an enrichment of one row lets the older crowd the younger out.  Two tenants of which one has a locator, a quota of
one row and two lanes make lanes overtake each other and rows crowd each other out; a
second crash would repeat a chain that is restarted from its tables anyway.  Two workers and two
campaigns are what a shared budget and a stolen claim need.  Three
coroutines on three permits, each of which takes two, can jam, can queue, and leave a
coroutine between its check of the breaker and its call when the breaker trips.

**Why the reductions are sound.**  `TonightOnly`, the view of the crawl runs, drops
bookkeeping rows of earlier nights: every query of the night filters on its
`orchestration_run_id`, and no action or property looks at them
(`Attempts` and `CleanRun` are only evaluated on tonight's rows).  Symmetry
permutes postings of the same board, slots, publishers or handlers, which occur
only in set and function positions; no run with a liveness property uses symmetry or a
view.
`CHECK_DEADLOCK FALSE` stands in the runs whose system stops when its bounds are
used up: the last night is over, the last event answered, the last enrichment done.

**Fairness.**  `CrawlLifecycle!FairSpec` is weak fairness of the steps of the night and of
each slot: Airflow starts the next task, the operating system runs processes.
Nothing forces a crash, a kill or another night.  `Billing!FairSpec` is weak
fairness of deliveries (Stripe retries until it has a 2xx answer), of each
handler and of the deadlock detector, and strong fairness of each cancellation's
steps: it waits for row locks that handlers take again and again, and PostgreSQL
serves lock waiters in their order.  `SeoQueue!FairSpec` is weak fairness of the DAG run
(nightly schedule), the timer's sender (hourly), their steps and midnight; nothing
has to fail.  `Candidates` is fair to the days, to the start of each lane (its
DAG's schedule) and to the lane's steps, not to what a discovery happens to find; `BoardCrawl` to
the steps of the weekly DAG.  `CareerAgent!AgentFairSpec` is fair to each worker's
polling loop and to time.  `Enrichment!FairSpec` is fair to the event loop and to each
call, which has a timeout.  `CareerHost` and `DerivedState` state no fairness: `CleanHostsMature` and
`NothingStranded` name the steps that must recur (clean crawls, completed nights) as hypotheses.
`CallsEnd` excepts the jam that two permits per coroutine make possible, see below.

## Proofs

| module | about | theorems | hypothesis |
|---|---|---|---|
| `CrawlLifecycleProofs` | the crawl | `TypeCorrect` | none |
| | | `EvidenceHolds`, `SequentialClosure`, `SequentialAccounting`, `SequentialAgreement`, `SequentialReopening` | `OneChild`: a single slot |
| `HarvestProofs` | `TenantOutcomes` | `LedgerTypeCorrect`, `OrderDoesNotMatter`, `FailuresAreSticky` | none |
| | `Harvest` | `HarvestTypeCorrect`, `CleanBoardsAreWhole`, `WorkdayKeepsListed`, `FetchesAreReported`, `HarvestOrderDoesNotMatter`, `HarvestFailuresStick` | none |
| `PublicationProofs` | `DerivedState` | `TypeCorrect`, `NothingIsStale`, `VerdictsAreCurrent`, `OneIsListed`, `LevelsAreClassified` | none |
| | `Publication` | `PublicationTypeCorrect` | none |
| | | `TransactionProgress`, `PublicationRefines`, `OnePublicPosting` | none |
| | | `CountsChain`, `NoticesTellTruth` | `SomeMinimum`: the floor is not zero |
| `BillingProofs` | `Billing` | `TypeCorrect`, `CustomerLockHolds`, `SnapshotsMoveForward` | none |
| | | `SettledAgrees` | `OneCustomerEach`; no checkout completes during a cancellation (`~OpenDuringCancel`) |
| `SeoQueueProofs` | `SeoQueue` | `TypeCorrect`, `QuotaKept`, `IndexNowKnows` | none |
| | | `GoogleKnows` | no publication commits between the two statements of the fetch (`~CommitAtFetch`) |
| `CareerProofs` | `CareerAgent` | `AgentTypeCorrect`, `BudgetOvershoot`, `ReadyBacked` | none |
| | `CareerHost` | `HostTypeCorrect`, `PublicationWaits`, `ClosingSparesAcceptable` | none |
| | | `ActiveHostHidesNothing`, `BlockedHostsStayHidden` | `OneCrawler`: one process crawls at a time |
| `CandidatesProofs` | the registry | `TypeCorrect`, `OnlyValidatedIsHarvested`, `BoardsAreRemembered` | none |
| | the registry and `BoardCrawl` | `CrawlTypeCorrect`, `BothHarvestOnlyValidated`, `MarksTellTruth`, `BothRemember` | none |
| `EnrichmentProofs` | `Enrichment` | `TypeCorrect`, `BreakerCorrect`, `OneReadingEach` | none |

Each is a theorem of the component's specification for every value of its constants
under the assumptions named in the component.  A module that proves things about two
components keeps them apart: no fact about one is used for the other.

**The hypotheses** name what the code relies on and does not enforce; when one of them is
dropped TLC finds a property that rests on it violated, and the line where it breaks is among
the [disagreements](#disagreements) or the hazards.

* `OneChild`: the Workday sweep runs its children one at a time; SmartRecruiters does
  not (`crawl_parallel`).
* `SomeMinimum`: `--minimum` is 1000 unless the operator says otherwise.  With zero an
  empty snapshot may be published, and the seed of the schema file, which is a guard against
  an empty public set and writes neither notice nor count, may then run after publications.
* `OneCustomerEach` (`billing.py:93`) and `~OpenDuringCancel` (`api.py:2241`): the advisory
  lock is per Stripe customer, and a cancellation works off a list.
* `~CommitAtFetch` (`notify_google_indexing.py:41`): a window of milliseconds between two
  statements.
* `OneCrawler`: the DAG runs one crawl at a time, but a manual pilot may run beside it, and
  writes what it read when it began: it can hide a row of an active host or activate a
  quarantined one (`career_host_engine.py:1626`).  No run has two crawlers.

**The arguments.**  A property is seldom inductive; this is what had to be added.

* **Tenant outcomes.**  `OrderInsensitive` is inductive only together with the
  type invariant and the link between the stored job count and the reports'
  maximum: whether a board is non-empty is decided by the merged count.
* **Harvest.**  "A clean outcome stands for a whole board" needs the control of each
  source: `KindInv` says for each family what has been read, asked for and emitted at each
  program counter, and that whatever is missing has either made the fetch `partial` or its
  outcome bad.  `FaultInv` adds that nothing is partial or bad without a fault, which
  gives `HealthyIsClean`.  The ledger's merge enters only through what one
  report does to an outcome (a failure stays, a partial stays partial), so the
  order in which concurrent details report is never enumerated.
* **Crawl.**  "Every closing has evidence" is not inductive: it needs to know, of
  every posting seen tonight, that some run tonight listed it, of every clean
  outcome, which listing it stands for and that the child wrote all of it, and
  that with one child the inferred rows of a run never concern a board other
  than its own batch or one that an earlier clean run already covers.
  `EvidenceHolds` proves that invariant action by action; the four safety
  theorems follow from it.  With several slots the invariant is false, which
  is what `crawl_parallel` shows.
* **Publication.**  `TransactionProgress` says at each program counter what the
  transaction's reads and writes amount to as long as nobody has changed a posting under it.
  `PublicationRefines` maps `Commit` to `Publish`, `Seed` to `Seed`, a change to `Change`
  and every other step to a stutter; for the commit it has to name three moments, so the
  invariant keeps, of an open publication, that its count met the floor for inputs that differ from the
  present ones in `Concurrent` only, and likewise for what it took down and put up.
  `OnePublicPosting` follows from the view's order being total: of two postings in one
  opportunity whose inputs have not moved since the publication began, only one was a representative.
  For counts and notices, `AccountInv` measures what the
  open transaction has counted and queued on the committed set, and `Exchange` (what leaves and what arrives
  account for the difference of two finite sets) closes the sum.  A snapshot that was
  published never empties, which is where the floor comes in.
* **Billing.**  `CustomerLockHolds` (at most one handler per customer) gives that no
  other handler can write the row between a handler's retrieval and its commit, so
  the version it holds is at least the row's.  It holds for any number of
  customers per account: what goes wrong there is the tier, not the row.  `SettledAgrees`
  goes by cases of what may be out of date: a row that disagrees with Stripe has an event
  waiting or a handler at work on it (`RowInv`), a tier that disagrees with the
  account's subscriptions likewise (`TierInv`), what a handler holds is true or will be
  corrected by a later event (`GoodRow`, `GoodTier`), and a cancellation still has every live subscription on
  its list (`CancelInv`).  When nothing is in flight, none of the excuses is left.
* **The queue.**  "The day's stamps stay within the limit" needs `QuotaInv`: at most one
  sender works at a time, today's stamps and what that sender still has on its list
  fit under the limit, and the list names each row once, none of them sent or
  deleted by its own transaction, so that every stamp is a new one.  No other
  transaction but IndexNow's deletes a stamped row, and `forgotten` counts those.
  What the engines know rests on `NewestInv`: every page that was ever queued has a newest row, it
  carries the page's last word, and nobody's transaction deletes it.  `ReadInv` then
  follows IndexNow's batch, which is collected and marked in one transaction.  Google's
  list is read before and worked off after other commits, so `SentInv` and `Apt` say of each entry that
  its page appears once, that an entry for the newest row carries the last word, and that no
  older unsent row of the page can be fetched later.  That last part is what a
  commit inside the fetch breaks.
* **Derived columns.**  "No column is stale" needs to know what tasks hold in memory:
  `Sound` says of each posting that a task which has read it read the text and the URL
  it still has unless an ingest has crossed it (`aux_crossed`), and that each stage finds the
  work of those it relies on done unless the posting came late (`aux_late`): the level is the classifier's before publication,
  the canonical group that of the text.  One lemma per action; the action properties
  follow from what `Publish` reads in a `Sound` state.
* **The registry.**  Between a validation and the harvest a locator passes two
  hands, the row and the list an integration has read, while discoverers upsert the
  same row.  `RowsSafe` and `ReadySafe` follow it through both: an active row
  names a locator that some validation saw, and so does every row in a lane's
  hands.  `BoardsRemembered` needs the upsert's rule for servers, case by case.
* **The weekly crawl.**  Its locators pass four hands: what was probed and not recorded (`LeftSeen`), the
  two tables (`AcceptedSeen`), the rows loaded for integration (`WorkSeen`) and those integrated and
  not committed (`TxnSeen`).  A row that fails empties the last; the marks come with the
  commit, which is why none can be without its board (`MarksKept`).  The steps of the registry keep all
  of this because they never shrink what is harvested or was seen (`RegistryGrows`), and the crawl
  keeps the registry's invariant because it touches none of its rows (`CrawlKeepsRegistry`).
* **Career hosts.**  Whether a host has matured is decided from a clock in its row, which a
  crawl reads when its batch begins and writes when it ends.  `ClockInv` ties the stored clock to the
  history (`aux_clean`), `FreshInv` says that a host no crawl has seen has no clock, no batch and no
  visible posting, and `MaturedInv` that whatever is active, *or was read as active by a crawl
  under way*, or is marked publishable has matured.  This survives any number of crawlers because
  maturity is never lost.  `ClosingSparesAcceptable` needs the types only: `Expires` decides on
  what the transaction itself wrote.  What a crawler's stale reading can undo is a status: under
  `OneCrawler` its reading is current (`CurrentInv`), and `RowsInv` and the two theorems about
  hidden rows follow.
* **The career agent.**  The overshoot of the budget is bounded by counting what is granted and not yet
  charged: `BudgetHeld` adds the units in flight to the month's total, and a grant is given only
  below the budget, so the last one given exceeds it by at most one grant of every other worker.
* **Enrichment.**  Permits are counted by two sets, the coroutines that have entered and
  those that call; their sizes move by one when one coroutine moves (`SizeMoves`).  `BreakerInv`: while
  the breaker is closed no call is late; afterwards the late calls and the coroutines that may still
  become late ones together leave two permits, because the call that tripped it held two.
  `OneReadingEach` needs `RowsSound`: of every row, and of every copy that `extract_salaries.py` or the
  enrichment has read, the three columns are NULL together or come from one reading of one text the
  posting has had, and the two yearly amounts likewise.  Each writer fills
  column by column, from what *it* read; the invariant is what makes that fill all or nothing.
  `RepliesSound` adds that a model's reply belongs to the text that was read and speaks of pay.  All of
  it is said of the postings outside `aux_half`: an implausible reply is the one thing that parts a pair.

Three things stay with TLC.

* **Liveness**: `NightEnds`, `Converges`, `Delivered`, `CleanHostsMature`, `NothingStranded`,
  `FoundIsHarvested`, `EveryCampaignAnswered`, `CallsEnd`.  They rest on fairness and `ENABLED`,
  which the prover does not handle.
* **What the salary parser returns.**  Its extractors search sequences with `SelectSeq`, and an
  induction over a text is out of reach; that a reading is in order and within the bounds
  of its period (`ParsesAssumption`) is an assumption of `Enrichment`, which TLC evaluates on the texts of
  the instance.
* **The crawl with several children**, where the invariant is false.

## Disagreements

One run ends in a violation on purpose; `PROJECT.json` "findings" quotes the lines.

* `crawl_parallel`: the compatibility fallback of `run_ingestion` contradicts the comment
  above it once several children of one source run at once.

The following were met while modelling.  They are not run as violations; where a constant
or a definition excludes one from a passing run, it is named.

* The header of `publication_boundary.sql` says consumers see only one canonical representative.
  `publish_snapshot.py:84`: the publisher's statements see different candidate sets when
  the career-host DAG commits between them, and two representatives of an opportunity can become
  public; `canonicalize_opportunities.py:172` moves postings that are already public into one
  opportunity before the next publication.  `OneRepresentative` excuses a posting that was changed
  since the last publication began.  After such a change the notices and counts of that publication may be
  wrong (`NewestNoticeTrue` and `LogBalances` stop at `aux_disturbed`).
* `billing.py:93`: the lock is per Stripe customer, the tier per account; with
  two customers of one account the tier can be left wrong (`OneCustomerEach`).
* `api.py:2241`: a cancellation closes every row of the account, also one that a checkout opened
  after the list of what to cancel was read (`OpenDuringCancel`).
* `notify_google_indexing.py:41`: compaction and fetch are two statements, and both states
  of a URL can be sent in the wrong order (`CommitAtFetch`).
* The repository's `README.md:71` and `:279` promise two clean crawls at least seven days apart.
  `career_host_engine.py:93` and `:921` have a fast track: a host whose activating crawl met no wrong employer
  matures after two days.  `PublishedAfterMaturation` states both intervals and when each holds.
* `README.md:71` says active crawls close "postings that disappeared".  A page that is still listed but
  answers without a JobPosting (`career_host_engine.py:1065`, `:1358`) leaves the crawl clean, and so does a
  posting for which `ingest_job` returns False (`ingest_jobs.py:1515`, `:1538`, `:1564`;
  `_write_host_jobs` counts only exceptions): the rows of both are closed while the site lists them.
  `ClosesNothingAcceptable` is stated for what the program takes.
* The comment above `ingest_jobs.py:1704` says a changed description invalidates derived values.  The yearly salary
  is not among them, and `extract_salaries.py` selects only recent rows without any yearly
  amount, so an old reading can stay: `OneReading` speaks of texts the posting *has had*.  The employment type
  keeps its old value when the new text has none (`:1629`); `Fresh` leaves it out.
  And a career-host posting is ingested beside the nightly tasks, which then write what they
  computed from the old text, or a verdict on the old URL: `NeverStale` and `VerdictOfThisUrl` excuse exactly the postings
  this happened to (`aux_crossed`); `OneListing` and `ClassifiedLevels` those ingested after
  the tasks began (`aux_late`), which the next night mends.
* `enrich_job_postings.py:2500`: rows that can never be placed are selected every night, oldest first; with
  as many of them as the limit, no younger row is enriched (`CrowdedOut` in `NothingStranded`).
* Comments at `ingest_jobs.py:1070` and `discover_serper.py:499` call `integrate_ats_candidates` the only path into
  `discovered_companies`.  `validate_workday_tenants.py:521` is another one, and takes boards without a
  target opening; the manual tools `expand_companies.py:1028`, `discover_companies.py:220` and `probe_workday.py:296`
  insert too.  `HarvestedWasValidated` therefore says what each of the two scheduled paths validated.
* `validate_ats_candidates.py:373` and `:257`: after one failed probe a Workday row keeps the host and forgets its board;
  later probes try the common boards only, so a tenant with another board is not harvested, for good
  (`Astray` in `OpenIsHarvested`).  A stale probe may so overwrite a board that a discovery has found meanwhile
  (`BoardsRemembered` allows it to an unreachable verdict).  The quota's order can keep a tenant waiting for good as well (`Crowded`).
* `discover_ats_aggressive.py:191`: a database error while the known candidates are read is logged, and the
  discovery goes on with a part of them (`KnownPart`).
* Workday pages that time out or answer 408 are dropped without a report, so a board can be
  recorded complete with a page missing; a page of iCIMS or Taleo whose links
  are not recognised is taken for the end of the listing.  Both are why `CleanMeansWhole` names the
  `Careful` sources.
* `validate_workday_tenants.py:135`: a sibling board first sighted after its tenant was
  validated is never validated, and an unreachable tenant is not tried again by the weekly chain.
  `FoundIsHarvested` starts at what a validation accepted.
* Rollbacks per row discard the rows before them in the same transaction: in
  `integrate_active` (the next week repeats them), in the writers of the standalone harvesters, and in
  `log_pipeline_run` (`ingest_jobs.py:1891`), which loses the outcomes of the run.  The last is
  `LogLosesRows`; the sweep's accounting catches it.
* Each model call takes two of the semaphore's permits.  With the production values and a
  slow API every permit can be a first one, and the run jams (`Jammed`); the nightly run uses no model.
* A reply whose minimum exceeds its maximum passes the range check with a bound out of range
  (`llm_client.py:607`, `:735`).  Only half of the yearly pair is then stored, and a later writer can fill the other half from
  another reading.  The run has such a reply, and `OneReading` excuses the postings it was written to (`aux_half`);
  without that excuse TLC finds the mixed pair.  A structured minimum can stand beside a parsed maximum
  in the same way (`OneReading` leaves `Structured` postings out).
* `MonthlyOvershoot` speaks of *recorded* searches: those of a run that fails or dies before `usage` commits are paid for and
  never charged (`career_agent_worker.py:442`).
* The first match of `_try_slash_period` on a line hides later ones when it fails the sanity check; a
  docstring of the salary parser gives an example the code reads differently (Point72).
* Expired rows of the classification cache are never refreshed by priming it, which does nothing on a
  conflict.
* `merge_contacts` of the career agent labels a stored contact that the web search finds again
  as found in both.
* A comment of `migrate_workday_candidates` says only active tenants are integrated, after a manual
  review; `integrate_active` also takes those without a target opening.

## What is left out

* **Text rules.**  Eligibility, scope, target roles, classification and skills are
  sets of texts; workplace, company and location parsing are not modelled.  The salary rules
  are.
* **Providers.**  `CrawlLifecycle` takes any listing and any outcome; `Harvest` relates
  the two for one board.  The pace of Workday requests and its pause after a 429 cost only time.
* **The API's read endpoints, accounts, sessions and quotas**: single statements, with no interleaving
  beyond PostgreSQL's own.  The response cache bounds how old a read may be.
* **Senders of e-mail and radar digests**: a send, then a mark, in one process.
* **Manual tools** (`expand_companies.py`, `probe_workday.py`, health reports, the
  clean-up scripts, `discover_serper.py`, `register_partner.py`), and
  `discover_companies.py --source refresh`, which only counts.
* **The standalone writers** of the harvest modules, which no schedule runs.
* **Resume parsing and scoring** (request-local), dbt, reports, backups, retention.
* **The synchronous model calls**, which no scheduled command reaches.

`PROJECT.json` "components" lists each part with its status.

## Plan

Done: the modules above, in the order ledger, crawl, publication, billing, queue, career
host, derived columns, harvest, registry, board crawl, career agent, salaries and enrichment.
What remains worth doing:

1. The career-host crawl with two processes at once: what stays true of a host whose status one of
   them has changed under the other.
2. The crawl with several slots under the assumption that every child reports its
   boards explicitly and the fallback is gone.
3. `NightlyDag`: trigger rules and retries over the whole task graph, with the gates, of
   which `CrawlLifecycle` and `DerivedState` each have a part.
