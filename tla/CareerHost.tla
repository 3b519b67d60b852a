----------------------------- MODULE CareerHost -----------------------------
(***************************************************************************)
(* The career-host engine (python/career_host_engine.py): employers become *)
(* candidates, candidates become hosts, a host is crawled in shadow until  *)
(* it has proved itself, and only then do its postings become publishable. *)
(*                                                                         *)
(* Time is kept as ages and waits in whole days.  A crawl is split where   *)
(* the program waits for the network: the hosts are read once per batch,   *)
(* each host is fetched later, and everything the crawl of a host writes   *)
(* is one transaction at its end.                                          *)
(***************************************************************************)
EXTENDS Integers, Sequences, FiniteSets

CONSTANTS
    Hosts,        \* employers, each with one career host
    Postings,     \* postings the career sites may list
    HostOf,       \* the host of each posting
    Crawlers,     \* crawl processes: the DAG's task, or also a manual pilot beside it
    DefaultDays,  \* DEFAULT_MATURATION_DAYS
    FastDays,     \* ZERO_MISMATCH_FAST_MATURATION_DAYS
    RetryDays     \* wait after a partial or rejected crawl

ASSUME DaysAssumption ==
    /\ DefaultDays \in Nat /\ FastDays \in Nat /\ RetryDays \in Nat
    /\ 1 <= FastDays /\ FastDays <= DefaultDays /\ 1 <= RetryDays
ASSUME HostsAssumption == HostOf \in [Postings -> Hosts]

VARIABLES
    candidate,    \* career_host_candidates: status, and days until a retry
    host,         \* career_hosts
    row,          \* job_postings of source career_site or oracle_cloud
    blocklist,    \* hosts whose URL the deployed code rejects
    staged,       \* hosts handed over to ats_tenants_candidates
    crawl,        \* the crawl processes
    aux_clean     \* history, per host since it last entered shadow: days since
                  \* its first clean crawl, from that one to its latest, and
                  \* whether the crawl that activated it met no wrong employer

vars == <<candidate, host, row, blocklist, staged, crawl, aux_clean>>

None == -1
History == [first : {None} \cup 0..DefaultDays, span : {None} \cup 0..DefaultDays, spotless : BOOLEAN]
NoClean == [first |-> None, span |-> None, spotless |-> FALSE]
Of(h) == {p \in Postings : HostOf[p] = h}

\* How a host is crawled: extraction_strategy.  The recipes are for three
\* platforms; which of them a host is on is not kept.
Recipes == {"phenom", "avature", "successfactors"}
Strategies == {"ats_router", "oracle_cloud", "api_recipe", "sitemap_jsonld"}

\* A seed is a company, or an Oracle pod, whose name may be an opaque token.
Seeds == {"company", "oracle", "opaque"}
CandidateStatus == {"none", "pending", "resolved", "needs_review", "routed", "rejected"}
Host == [status : {"none", "shadow", "active", "quarantined", "routed"},
         identity : {"pending", "verified", "needs_review"},
         blocked : BOOLEAN,                 \* evidence resolver_blocked
         age : {None} \cup 0..DefaultDays,  \* since first_clean_crawl_at, capped
         due : Nat,                         \* until next_crawl_at
         strategy : Strategies]
NoHost == [status |-> "none", identity |-> "pending", blocked |-> FALSE,
           age |-> None, due |-> 0, strategy |-> "sitemap_jsonld"]

Row == [status : {"absent", "raw", "expired"}, quality : {"active", "quarantine"}]

\* One iteration of the batch loop; snap is what the batch query
\* read of each host: its status, and whether it had a clean crawl.
Read == [status : {"none", "shadow", "active"}, clean : BOOLEAN, strategy : Strategies]
Crawl == [pc : {"idle", "batch", "fetch", "write"}, todo : SUBSET Hosts,
          snap : [Hosts -> Read], host : Hosts \cup {None},
          listed : SUBSET Postings, found : SUBSET Postings, refused : SUBSET Postings,
          errors : BOOLEAN, mismatches : {"none", "few", "many"}, brands : BOOLEAN,
          touched : SUBSET Postings]
Unread == [status |-> "none", clean |-> FALSE, strategy |-> "sitemap_jsonld"]
Idle == [pc |-> "idle", todo |-> {}, snap |-> [h \in Hosts |-> Unread], host |-> None,
         listed |-> {}, found |-> {}, refused |-> {}, errors |-> FALSE, mismatches |-> "none", brands |-> FALSE,
         touched |-> {}]

Init ==
    /\ candidate = [h \in Hosts |-> [status |-> "none", wait |-> 0, seed |-> "company"]]
    /\ host = [h \in Hosts |-> NoHost]
    /\ row = [p \in Postings |-> [status |-> "absent", quality |-> "quarantine"]]
    /\ blocklist = {}
    /\ staged = {}
    /\ crawl = [c \in Crawlers |-> Idle]
    /\ aux_clean = [h \in Hosts |-> NoClean]

-----------------------------------------------------------------------------

\* The tasks of the DAG run one after the other, one run of it at a time: none
\* of those before the crawl overlaps it.  The review commands are manual.
BeforeCrawl == \A c \in Crawlers : crawl[c].pc = "idle"

\* Nothing reads the wait or the seed of a candidate that is settled.
Settled(status) == [status |-> status, wait |-> 0, seed |-> "company"]

\* seed: a database or SEC lead becomes a candidate; a known one is only counted.
Seed(h) ==
    /\ BeforeCrawl /\ candidate[h].status = "none"
    /\ candidate' = [candidate EXCEPT ![h].status = "pending"]
    /\ UNCHANGED <<host, row, blocklist, staged, crawl, aux_clean>>

\* discover: a URL of the Common Crawl index becomes a candidate; the token of
\* an Oracle pod proves no employer, and waits for the review.
SeedFromIndex(h) ==
    /\ BeforeCrawl /\ candidate[h].status = "none"
    /\ \E seed \in Seeds :
          candidate' = [candidate EXCEPT ![h] =
             [@ EXCEPT !.seed = seed,
                       !.status = IF seed = "company" THEN "pending" ELSE "needs_review"]]
    /\ UNCHANGED <<host, row, blocklist, staged, crawl, aux_clean>>

\* The host row a resolution inserts; an existing row keeps its status.
Upserted(h, s, i, strategy) ==
    IF host[h].status = "none"
    THEN [NoHost EXCEPT !.status = s, !.identity = i, !.strategy = strategy]
    ELSE [host[h] EXCEPT !.strategy = strategy]

\* _score_search_result, in hundredths, of a result that is not blocked: what its
\* path, its text, its host name and its platform say of the employer.
Results == [rank : {0, 9}, careers : BOOLEAN, mentions : 0..3,
            domain : {"name", "token", "other"}, platform : BOOLEAN, page : BOOLEAN]
Min2(a, b) == IF a < b THEN a ELSE b
Score(r) ==
    LET careers  == IF r.careers THEN 18 ELSE 0
        mentions == IF r.mentions > 0 THEN Min2(24, 10 + 5 * r.mentions) ELSE 0
        domain   == [name |-> 32, token |-> 20, other |-> 0][r.domain]
        platform == IF r.platform THEN 14 ELSE 0
        unnamed  == IF r.mentions = 0 /\ r.domain = "other" THEN 18 ELSE 0
    IN  8 + (10 - r.rank) + careers + mentions + domain + platform - unnamed
\* The page itself may mention the employer; below zero it is not opened.
Confident(r) == Score(r) + (IF r.page THEN 10 ELSE 0) >= 58
Openable == {r \in Results : Score(r) >= 0}

\* fingerprint_page: the links of a page name platforms, and the most useful of
\* them wins; without any, the text of the page names one, or none.
Preference == <<"ats_router", "oracle_cloud", "api_recipe", "sitemap_jsonld">>
Fingerprint(links, text) ==
    IF links # {}
    THEN Preference[CHOOSE i \in DOMAIN Preference :
                        /\ Preference[i] \in links
                        /\ \A j \in 1..(i - 1) : Preference[j] \notin links]
    ELSE IF text \cap Recipes # {} THEN "api_recipe" ELSE "sitemap_jsonld"
Fingerprints == {Fingerprint(links, text) : links \in SUBSET Strategies, text \in SUBSET Recipes}
Confidences == {Confident(r) : r \in Openable}

\* resolve: the search fails, finds nothing usable, or finds a page that
\* identifies the employer well enough (shadow) or not (quarantined).
Resolve(h) ==
    /\ BeforeCrawl /\ candidate[h].status = "pending" /\ candidate[h].wait = 0
    /\ \/ /\ candidate' = [candidate EXCEPT ![h].wait = DefaultDays]
          /\ UNCHANGED host
       \/ /\ \/ candidate' = [candidate EXCEPT ![h].status = "needs_review"]
             \/ candidate' = [candidate EXCEPT ![h] = Settled("rejected")]
          /\ UNCHANGED host
       \/ /\ h \notin blocklist
          /\ \E sure \in Confidences, strategy \in Fingerprints :
                /\ candidate' = [candidate EXCEPT ![h] =
                       IF sure THEN Settled("resolved") ELSE [@ EXCEPT !.status = "needs_review"]]
                /\ host' = [host EXCEPT ![h] =
                      Upserted(h, IF sure THEN "shadow" ELSE "quarantined",
                                  IF sure THEN "pending" ELSE "needs_review", strategy)]
    /\ UNCHANGED <<row, blocklist, staged, crawl, aux_clean>>

\* The employers that the listings of a site state; its job pages are asked
\* when those are fewer than two, and one that cannot be read states none.
\* Two names of a kind say all that more of them would.
ListingNames == UNION {[1..n -> {"own", "other"}] : n \in 0..2}
PageNames == UNION {[1..n -> {"own", "other"}] : n \in 0..2}
Stated == {listed \in ListingNames : Len(listed) = 2}
    \cup {listed \o pages : listed \in {l \in ListingNames : Len(l) < 2}, pages \in PageNames}

\* decide_oracle_review: an opaque pod takes the name its site agrees on.
OracleDecision(seed, orgs) ==
    LET names == {orgs[i] : i \in DOMAIN orgs}
    IN  IF names = {} THEN "needs_review"
        ELSE IF seed = "opaque"
             THEN IF Len(orgs) > 1 /\ Cardinality(names) = 1 THEN "resolved" ELSE "needs_review"
        ELSE IF "own" \in names THEN "resolved" ELSE "rejected"

\* review-oracle: the site's own statements settle a parked Oracle seed, or
\* leave it there, as a failed probe does.
ReviewOracle(h) ==
    /\ candidate[h].status = "needs_review" /\ candidate[h].seed # "company"
    /\ \E orgs \in Stated :
          LET decision == OracleDecision(candidate[h].seed, orgs)
          IN  /\ candidate' = [candidate EXCEPT ![h] =
                     IF decision = "needs_review" THEN @ ELSE Settled(decision)]
              /\ host' = IF decision = "resolved"
                         THEN [host EXCEPT ![h] = Upserted(h, "shadow", "pending", "oracle_cloud")]
                         ELSE host
    /\ UNCHANGED <<row, blocklist, staged, crawl, aux_clean>>

\* route: a shadow host on a supported ATS is handed over to the ATS pipeline.
Route(h) ==
    /\ BeforeCrawl /\ host[h].status = "shadow" /\ host[h].strategy = "ats_router"
    /\ staged' = staged \cup {h}
    /\ host' = [host EXCEPT ![h].status = "routed"]
    /\ candidate' = [candidate EXCEPT ![h] = Settled("routed")]
    /\ UNCHANGED <<row, blocklist, crawl, aux_clean>>

RequeueCandidate(h) ==
    /\ candidate[h].status = "needs_review"
    /\ candidate' = [candidate EXCEPT ![h] = [@ EXCEPT !.status = "pending", !.wait = 0]]
    /\ UNCHANGED <<host, row, blocklist, staged, crawl, aux_clean>>

\* requeue-review of a host: a fresh maturation clock, its raw rows hidden.
RequeueHost(h) ==
    /\ host[h].status = "quarantined" /\ host[h].identity = "needs_review"
    /\ ~host[h].blocked
    /\ host' = [host EXCEPT ![h] = [@ EXCEPT !.status = "shadow", !.identity = "pending",
                                             !.age = None, !.due = 0]]
    /\ row' = [p \in Postings |-> IF HostOf[p] = h /\ row[p].status = "raw"
                                  THEN [row[p] EXCEPT !.quality = "quarantine"] ELSE row[p]]
    /\ aux_clean' = [aux_clean EXCEPT ![h] = NoClean]
    /\ UNCHANGED <<candidate, blocklist, staged, crawl>>

-----------------------------------------------------------------------------

\* Rows and hosts after quarantine_blocked_hosts.
BlockedHost(h) == host[h].status \in {"shadow", "active"} /\ h \in blocklist
Screened == [h \in Hosts |-> IF BlockedHost(h)
                             THEN [host[h] EXCEPT !.status = "quarantined",
                                       !.identity = "needs_review", !.blocked = TRUE]
                             ELSE host[h]]

\* Seeded fault: the hosts of the batch are read before the screening.
ReadFirst == host
\* The batch query runs after the screening.
BatchRead == Screened

Crawlable(r) == r.status \in {"shadow", "active"} /\ r.strategy # "ats_router" /\ r.due = 0

\* Start of a batch: blocked hosts are quarantined with all their rows, then
\* the hosts that are due are read, each with its status of this moment.
SelectHosts(c) ==
    /\ crawl[c].pc = "idle"
    /\ host' = Screened
    /\ row' = [p \in Postings |-> IF BlockedHost(HostOf[p])
                                  THEN [row[p] EXCEPT !.quality = "quarantine"] ELSE row[p]]
    /\ LET due == {h \in Hosts : Crawlable(BatchRead[h])}
       IN  crawl' = [crawl EXCEPT ![c] = [Idle EXCEPT !.pc = "batch", !.todo = due,
               !.snap = [h \in Hosts |->
                   IF h \in due
                   THEN [status |-> BatchRead[h].status, clean |-> BatchRead[h].age # None,
                         strategy |-> BatchRead[h].strategy]
                   ELSE Unread]]]
    /\ UNCHANGED <<candidate, blocklist, staged, aux_clean>>

\* The loop goes on to the next host of the batch.
Onward(r) == [Idle EXCEPT !.pc = "batch", !.todo = r.todo,
                          !.snap = [r.snap EXCEPT ![r.host] = Unread]]

EndBatch(c) ==
    /\ crawl[c].pc = "batch" /\ crawl[c].todo = {}
    /\ crawl' = [crawl EXCEPT ![c] = Idle]
    /\ UNCHANGED <<candidate, host, row, blocklist, staged, aux_clean>>

\* The run row of the next host is committed before anything is fetched.
StartRun(c, h) ==
    /\ crawl[c].pc = "batch" /\ h \in crawl[c].todo
    /\ crawl' = [crawl EXCEPT ![c] = [@ EXCEPT !.pc = "fetch", !.host = h,
                                      !.todo = crawl[c].todo \ {h}, !.touched = {}]]
    /\ UNCHANGED <<candidate, host, row, blocklist, staged, aux_clean>>

\* What a career site may state of a posting.
Statements == [stated : BOOLEAN,      \* its page holds a JobPosting at all
               target : BOOLEAN, place : BOOLEAN, remote : BOOLEAN, required : BOOLEAN,
               organization : {"missing", "own", "other"}, domain : BOOLEAN,
               blocked : BOOLEAN, fit : BOOLEAN,
               admitted : BOOLEAN]    \* ingest_job's own rules would take it

\* _location_evidence: a place in the United States, or remote work for them.
InUS(x) == x.place \/ (x.remote /\ x.required)

\* _brand_attribution_company: another name counts as a brand of the employer
\* when the employer's own domain states it.
Brand(x) == x.organization = "other" /\ x.domain /\ ~x.blocked

\* posting_to_job and the pages around it: what the crawl makes of a posting.  One
\* it does not accept is as good as gone, and so is one whose page answers without
\* a JobPosting; a wrong employer is counted against the host.  ingest_job still
\* refuses some that are accepted here, for a blocked company, the scope of the
\* full text or a foreign place, and says so only by returning False.
Verdict(x) ==
    IF ~x.stated \/ ~x.target \/ ~InUS(x) THEN "gone"
    ELSE IF x.organization # "own" /\ ~Brand(x) THEN "misnamed"
    ELSE IF ~x.fit THEN "gone"
    ELSE IF x.admitted THEN "good" ELSE "refused"
Verdicts == {Verdict(x) : x \in Statements}

\* What a career site says of the postings of its host.  Employers edit their
\* sites at any time, so each fetch may meet any of these.
Sites(h) == [Of(h) -> Verdicts]

\* The postings that the crawl accepts of those a site states, and the wrong
\* employers, which may be few or many among them.
Accepted(site) == {p \in DOMAIN site : site[p] \in {"good", "refused"}}
Mismatches(site) ==
    IF \E p \in DOMAIN site : site[p] = "misnamed" THEN {"none", "few", "many"} ELSE {"none"}

\* Whether brands take the crawl over: too large a share of the postings found.
Brands(found) == IF found = {} THEN {FALSE} ELSE BOOLEAN

Fetching(c, strategy) ==
    /\ crawl[c].pc = "fetch" /\ crawl[c].snap[crawl[c].host].strategy = strategy
    /\ UNCHANGED <<candidate, host, row, blocklist, staged, aux_clean>>

\* The end of a fetch: a listing, counted as failed or not, and the details of
\* what it lists.  A detail that cannot be read is an error.
Fetched(c, site, listed, failed) ==
    \E found \in SUBSET listed : \E m \in Mismatches(site), brands \in Brands(found) :
        crawl' = [crawl EXCEPT ![c] = [@ EXCEPT !.pc = "write", !.listed = listed, !.found = found,
                     !.refused = {p \in found : site[p] = "refused"},
                     !.errors = failed \/ found # listed, !.mismatches = m, !.brands = brands]]

\* _discover_sitemaps: those the resolution stored and, when the careers page
\* answers, those that it or robots.txt names, and the two usual ones.
Sitemaps(stored, answers) ==
    stored \cup IF answers THEN {"named", "sitemap.xml", "sitemap_index.xml"} ELSE {}

\* enumerate_job_pages: the sitemaps that could be read list some of the
\* postings, down to the 60th sitemap or max_pages; the links of the careers
\* page stand in when they list nothing.
Enumerations(read, answers, postings) ==
    IF read = {} /\ ~answers THEN {{}} ELSE SUBSET postings

\* A child sitemap that fails is counted, and so is a failure of every root; one
\* root of several is not.
Unlisted(read, children) == read = {} \/ children

\* crawl_jsonld_host
FetchSitemaps(c) ==
    /\ Fetching(c, "sitemap_jsonld")
    /\ \E site \in Sites(crawl[c].host), stored \in SUBSET {"stored"}, answers, children \in BOOLEAN :
          \E read \in SUBSET Sitemaps(stored, answers) :
             \E listed \in Enumerations(read, answers, Accepted(site)) :
                Fetched(c, site, listed, Unlisted(read, children))

\* crawl_oracle_host: a page of the listing that fails fails the host, an empty
\* one ends the listing; the host itself stands for the employer's name, so what a
\* posting states of it does not matter, and ingest_job may refuse any.
FetchOracle(c) ==
    /\ Fetching(c, "oracle_cloud")
    /\ \E listed \in SUBSET Of(crawl[c].host) : \E found \in SUBSET listed : \E refused \in SUBSET found :
          crawl' = [crawl EXCEPT ![c] = [@ EXCEPT !.pc = "write", !.listed = listed,
                       !.found = found, !.refused = refused,
                       !.errors = found # listed, !.mismatches = "none", !.brands = FALSE]]

\* crawl_phenom_host: the same listing, but the details name the employer.
FetchPhenom(c) ==
    /\ Fetching(c, "api_recipe")
    /\ \E site \in Sites(crawl[c].host) : \E listed \in SUBSET Accepted(site) :
          Fetched(c, site, listed, FALSE)

\* crawl_avature_host: a page that fails ends the listing and is counted, a page
\* without a new posting only ends it.
FetchAvature(c) ==
    /\ Fetching(c, "api_recipe")
    /\ \E site \in Sites(crawl[c].host), failed \in BOOLEAN : \E listed \in SUBSET Accepted(site) :
          Fetched(c, site, listed, failed)

\* crawl_successfactors_host: tiles like Avature's pages, or one XML feed, whose
\* failure fails the host.
FetchSuccessFactors(c) ==
    /\ Fetching(c, "api_recipe")
    /\ \E site \in Sites(crawl[c].host), tiles, failed \in BOOLEAN : \E listed \in SUBSET Accepted(site) :
          /\ failed => tiles
          /\ Fetched(c, site, listed, failed)

\* Seeded fault: the classification before the writes is kept.
StatusBeforeWrites(r, bad) ==
    IF r.errors THEN "partial_failure"
    ELSE IF r.mismatches = "many" THEN "quality_rejected" ELSE "complete"

\* _classify_host_run on the statistics after the writes.
Complete(r, bad) == ~r.errors /\ bad = {}
RunStatus(r, bad) ==
    IF ~Complete(r, bad) THEN "partial_failure"
    ELSE IF r.mismatches = "many" THEN "quality_rejected" ELSE "complete"
Clean(r, bad) == r.found # {} /\ Complete(r, bad) /\ r.mismatches # "many" /\ ~r.brands

\* Seeded fault: any clean crawl counts from the first day.
NoMaturation(r) == 0

MaturationDays(r) ==
    IF r.mismatches = "none" /\ r.found # {} /\ r.snap[r.host].clean
    THEN FastDays ELSE DefaultDays

\* Seeded fault: a run with any mismatch offers its postings as quarantined.
CautiousIncoming(r) ==
    IF r.snap[r.host].status = "active" /\ r.mismatches = "none" THEN "active" ELSE "quarantine"

\* ingest_job for a posting of this crawl: a quarantined row stays so, unless
\* the posting has moved to another URL.
Incoming(r) == IF r.snap[r.host].status = "active" THEN "active" ELSE "quarantine"
WrittenRow(p, r, moved) ==
    [status |-> "raw",
     quality |-> IF row[p].status = "absent" \/ Incoming(r) = "quarantine" \/ p \in moved
                 THEN Incoming(r) ELSE row[p].quality]

\* _write_host_jobs: a row that the database refuses is rolled back alone and
\* counted; one that ingest_job refuses is neither written nor counted.
Written(r, bad) == r.found \ (bad \cup r.refused)

\* _expire_host_jobs: only for a host read as active, after a complete run; the
\* row of a refused posting has not been seen, and goes too.
Expires(p, r, bad) ==
    /\ HostOf[p] = r.host /\ r.snap[r.host].status = "active"
    /\ RunStatus(r, bad) = "complete"
    /\ row[p].status = "raw" /\ p \notin Written(r, bad) \cup r.touched

\* Seeded fault: every clean crawl restarts the maturation clock.
ClockRestarts(age, clean) == IF clean THEN 0 ELSE age

FirstClean(age, clean) == IF clean /\ age = None THEN 0 ELSE age

\* The host row after the run, before activation.
AfterRun(r, bad) ==
    LET old == host[r.host]
        clean == Clean(r, bad)
    IN  CASE RunStatus(r, bad) = "complete" ->
               [old EXCEPT !.due = 1, !.age = FirstClean(@, clean),
                           !.identity = IF clean THEN "verified" ELSE @]
          [] RunStatus(r, bad) = "quality_rejected" ->
               [old EXCEPT !.due = RetryDays, !.status = "quarantined"]
          [] OTHER -> [old EXCEPT !.due = RetryDays]

\* The UPDATE tests the stored clock, but not the stored status.
Activates(r, bad) ==
    /\ Clean(r, bad) /\ r.snap[r.host].status = "shadow"
    /\ AfterRun(r, bad).age # None /\ AfterRun(r, bad).age >= MaturationDays(r)

\* The transaction that ends the crawl of a host.
Finish(c, bad, moved) ==
    LET r == crawl[c]
        after == [p \in Postings |-> CASE p \in Written(r, bad) -> WrittenRow(p, r, moved)
                                       [] Expires(p, r, bad) -> [row[p] EXCEPT !.status = "expired"]
                                       [] OTHER -> row[p]]
    IN  /\ r.pc = "write" /\ bad \subseteq r.found
        /\ host' = [host EXCEPT ![r.host] =
               IF Activates(r, bad) THEN [AfterRun(r, bad) EXCEPT !.status = "active"]
               ELSE AfterRun(r, bad)]
        /\ row' = [p \in Postings |->
               IF Activates(r, bad) /\ HostOf[p] = r.host /\ after[p].status = "raw"
               THEN [after[p] EXCEPT !.quality = "active"] ELSE after[p]]
        /\ crawl' = [x \in Crawlers |->
               IF x = c THEN Onward(r)
               ELSE [crawl[x] EXCEPT !.touched = @ \cup Written(r, bad)]]
        /\ aux_clean' = IF Clean(r, bad)
               THEN [aux_clean EXCEPT ![r.host] =
                        [first |-> FirstClean(@.first, TRUE), span |-> FirstClean(@.first, TRUE),
                         spotless |-> IF Activates(r, bad) THEN r.mismatches = "none" ELSE @.spotless]]
               ELSE aux_clean
        /\ UNCHANGED <<candidate, blocklist, staged>>

\* An exception rolls the host back and delays it, from hours up to days.
FailHost(c) ==
    /\ crawl[c].pc \in {"fetch", "write"}
    /\ \E days \in 0..RetryDays : host' = [host EXCEPT ![crawl[c].host].due = days]
    /\ crawl' = [crawl EXCEPT ![c] = Onward(crawl[c])]
    /\ UNCHANGED <<candidate, row, blocklist, staged, aux_clean>>

\* The task is killed or times out: its run row stays as it is.
CrashCrawler(c) ==
    /\ crawl[c].pc # "idle"
    /\ crawl' = [crawl EXCEPT ![c] = Idle]
    /\ UNCHANGED <<candidate, host, row, blocklist, staged, aux_clean>>

-----------------------------------------------------------------------------

\* A deployment extends the block list.
Deploy ==
    /\ \E h \in Hosts : blocklist' = blocklist \cup {h}
    /\ UNCHANGED <<candidate, host, row, staged, crawl, aux_clean>>

Less(n) == IF n > 0 THEN n - 1 ELSE 0
Older(age) == IF age = None \/ age = DefaultDays THEN age ELSE age + 1
NextDay ==
    /\ candidate' = [h \in Hosts |-> [candidate[h] EXCEPT !.wait = Less(@)]]
    /\ host' = [h \in Hosts |-> [host[h] EXCEPT !.due = Less(@),
                                             !.age = Older(@)]]
    /\ aux_clean' = [h \in Hosts |-> [aux_clean[h] EXCEPT !.first = Older(@)]]
    /\ UNCHANGED <<row, blocklist, staged, crawl>>

CrawlStep(c) ==
    \/ SelectHosts(c) \/ EndBatch(c) \/ FailHost(c) \/ CrashCrawler(c)
    \/ FetchSitemaps(c) \/ FetchOracle(c) \/ FetchPhenom(c) \/ FetchAvature(c)
    \/ FetchSuccessFactors(c)
    \/ \E h \in Hosts : StartRun(c, h)
    \/ \E bad \in SUBSET crawl[c].found : \E moved \in SUBSET crawl[c].found : Finish(c, bad, moved)

Next ==
    \/ \E h \in Hosts : Seed(h) \/ SeedFromIndex(h) \/ Resolve(h) \/ ReviewOracle(h) \/ Route(h)
                        \/ RequeueCandidate(h) \/ RequeueHost(h)
    \/ \E c \in Crawlers : CrawlStep(c)
    \/ Deploy \/ NextDay

Spec == Init /\ [][Next]_vars

-----------------------------------------------------------------------------

TypeOK ==
    /\ candidate \in [Hosts -> [status : CandidateStatus, wait : 0..DefaultDays, seed : Seeds]]
    /\ host \in [Hosts -> Host]
    /\ row \in [Postings -> Row]
    /\ blocklist \subseteq Hosts /\ staged \subseteq Hosts
    /\ crawl \in [Crawlers -> Crawl]
    /\ aux_clean \in [Hosts -> History]

Publishable(p) == row[p].status = "raw" /\ row[p].quality = "active"

\* No posting of a career host can be published before the host had two clean
\* crawls DefaultDays apart since it last entered shadow, or FastDays apart when
\* the crawl that activated it met no wrong employer, whatever crawl wrote the row
\* and however stale the host it had read (the activation of crawl_hosts,
\* _maturation_interval_days, requeue_review_items and the quality rule of
\* ingest_job together).  The repository's README promises seven days of every
\* host: the fast track is the code's own exception.
PublishedAfterMaturation ==
    \A p \in Postings : Publishable(p) =>
        LET clean == aux_clean[HostOf[p]]
        IN  clean.span >= DefaultDays \/ (clean.spotless /\ clean.span >= FastDays)

\* A crawl closes no posting that its own listing held in a form the program
\* takes: a detail page that failed, a listing that is known to be short or a row
\* that could not be written closes nothing (_classify_host_run after the writes,
\* and _expire_host_jobs).  A listed page that states no JobPosting and a posting
\* that ingest_job refuses are not such a form: their rows are closed.
ClosesNothingAcceptable ==
    [][\A c \in Crawlers, p \in Postings :
         crawl[c].pc = "write" /\ crawl'[c].pc = "batch" /\ HostOf[p] = crawl[c].host
           /\ row[p].status = "raw" /\ row'[p].status = "expired"
         => ~crawl[c].errors /\ p \notin crawl[c].listed \ crawl[c].refused]_vars

\* Every listed row of an active host is publishable: neither an upsert, a
\* re-resolution nor a partial crawl leaves one hidden for good.
ActiveHostPublishes ==
    \A p \in Postings : host[HostOf[p]].status = "active" /\ row[p].status = "raw"
        => row[p].quality = "active"

\* A host that the block list took down shows nothing again: its rows are hidden
\* with it, it is in no batch read after that, and the review leaves it alone
\* (quarantine_blocked_hosts, the batch query and requeue_review_items together).
BlockedStaysHidden ==
    \A p \in Postings : host[HostOf[p]].blocked => ~Publishable(p)

CleanFinish(h) ==
    \E c \in Crawlers : /\ crawl[c].pc = "write" /\ crawl[c].host = h
                        /\ crawl[c].snap[h].status = "shadow"
                        /\ \E bad \in SUBSET crawl[c].found :
                              \E moved \in SUBSET crawl[c].found :
                                 Clean(crawl[c], bad) /\ Finish(c, bad, moved)

\* A host that is crawled clean again and again does not stay in shadow.
CleanHostsMature ==
    \A h \in Hosts : []<><<CleanFinish(h)>>_vars => []<>(host[h].status # "shadow")

=============================================================================
