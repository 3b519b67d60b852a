------------------------------- MODULE Harvest -------------------------------
(***************************************************************************)
(* How each source harvester reads one board and what it reports of it:    *)
(* the fetchers of python/ingest_jobs.py and of the *_harvest.py modules,  *)
(* employer feeds (employer_feeds.py) and the commands of                  *)
(* coverage_ingest.py (USAJOBS, Adzuna, JSON-LD pages, feeds).             *)
(* The reports of a board are merged by the ledger of TenantOutcomes, and  *)
(* expiry closes the postings of a board whose outcome is clean and which  *)
(* the harvest did not emit: everything rests on what a fault leaves in    *)
(* the outcome.                                                            *)
(*                                                                         *)
(* A board is a number of pages for each search term the source is asked   *)
(* for (one term where the whole board is listed), with one posting that   *)
(* passes the role and location filters on every page.  A posting emitted  *)
(* without a description refreshes its row and no more: a stub.            *)
(***************************************************************************)
EXTENDS TenantOutcomes, Integers, FiniteSets

CONSTANTS
    MaxPages,   \* bound on the pages of a board, or of one term
    MaxTerms,   \* terms of the sources that are searched, not listed
    Window      \* pages inside Workday's reliable result window

ASSUME BoundsAssumption == MaxPages \in Nat /\ MaxTerms \in Nat \ {0} /\ Window \in Nat \ {0}
ASSUME TenantsAssumption == Tenants = {"board", "global-search"}

VARIABLES
    kind,       \* the source
    size,       \* pages per term; only page 0 of an oversized board is listed
    large,      \* a Workday board above the reliable result window
    pc,         \* where the fetch is
    at,         \* the term and the page the fetch is at
    read,       \* postings listed on the pages that were read
    asked,      \* those whose detail was asked for
    out,        \* postings emitted with a description
    stub,       \* postings emitted without one
    partial,    \* tenant_partial, crawl_failed, listing_failed, detail_errors
    alive,      \* listing_succeeded
    facets,     \* pages of a term that the board's location facets lead to
    aux_fault   \* history: some request or some parse failed

vars == <<kind, size, large, pc, at, read, asked, out, stub, partial, alive, facets, ledger, aux_fault>>
board == <<kind, size, large>>
fixed == <<board, asked, facets>>

\* Workable charges what no company can be charged with to global-search.
outcome == outcomes["board"]
global == outcomes["global-search"]

Listed == {"greenhouse", "lever", "ashby", "smartrecruiters", "workday", "eightfold",
           "icims", "jobvite", "bamboohr", "employer_feed", "jsonld", "feed"}
Searched == {"amazon", "taleo", "workable", "usajobs", "adzuna"}
Kinds == Listed \cup Searched

Terms == IF kind \in Searched \/ large THEN 1..MaxTerms ELSE {1}
Postings == Terms \X (0..(size - 1))
Emitted == out \cup stub
Clean == outcome.status \in CleanStatus

\* A source that is searched has no list of boards to load.
First == IF kind \in (Searched \ {"taleo"}) \cup {"feed"} THEN "list" ELSE "start"

Init ==
    /\ kind \in Kinds /\ size \in 0..MaxPages
    /\ large \in BOOLEAN /\ (large => kind = "workday" /\ size > 0)
    /\ pc = First /\ at = <<1, 0>>
    /\ read = {} /\ asked = {} /\ out = {} /\ stub = {} /\ facets = {}
    /\ partial = FALSE /\ alive = FALSE
    /\ aux_fault = FALSE
    /\ LedgerInit

-----------------------------------------------------------------------------

\* Seeded fault: a board without accepted postings is not reported.
SuccessIfAny(n) == IF n = 0 THEN UNCHANGED ledger ELSE RecordSuccess("board", n)

Success(n) == RecordSuccess("board", n)
Failure(some) == RecordFailure("board", some)
Fault == aux_fault' = TRUE
NoFault == UNCHANGED aux_fault
Silent == UNCHANGED ledger
Goto(label) == pc' = label

Last == at[2] + 1 >= size

\* The next page of the same term.
NextPage == at' = <<at[1], at[2] + 1>>

\* What the page shows.
Shown == Postings \cap {at}

\* The next term, when the current one is exhausted or given up.
MoreTerms == at[1] + 1 \in Terms
NextTerm == at' = <<at[1] + 1, 0>>

-----------------------------------------------------------------------------
\* The list of boards.  A board that is not on the list is not reported at all.

Load(label) ==
    /\ pc = "start"
    /\ (Goto(label) /\ NoFault) \/ (Goto("dead") /\ Fault)
    /\ UNCHANGED <<fixed, at, read, out, stub, partial, alive, ledger>>

\* When the table cannot be read, or holds none of the source, a bundled list
\* is taken, and the board may not be on that one.
LoadCompanies == kind \in {"greenhouse", "lever", "ashby"} /\ Load("list")

\* Workday's bundled list is used in any case; with a tenant filter, a tenant
\* that is not on it ends the command.
LoadWorkdayList == kind = "workday" /\ Load("list")

\* The others raise, or do without the board.
LoadRegistry ==
    kind \in {"smartrecruiters", "eightfold", "icims", "taleo", "jobvite", "bamboohr"} /\ Load("list")

-----------------------------------------------------------------------------
\* greenhouse, lever, ashby: one request returns the whole board.

GetBoard ==
    /\ kind \in {"greenhouse", "lever", "ashby"} /\ pc = "list"
    /\ \/ Failure(FALSE) /\ Goto("done") /\ Fault /\ UNCHANGED read
       \/ Success(Cardinality(Postings)) /\ Goto("parse") /\ NoFault /\ read' = Postings
    /\ UNCHANGED <<fixed, at, out, stub, partial, alive>>

\* The board was reported before its postings are parsed.  A posting of an
\* unexpected shape ends the whole process, or for Ashby only this board.
Parse(failed) ==
    /\ pc = "parse"
    /\ \/ out' = read /\ Goto("done") /\ NoFault
       \/ UNCHANGED out /\ Goto(failed) /\ Fault
    /\ UNCHANGED <<fixed, at, read, stub, partial, alive, ledger>>

\* The loop over the companies of fetch_all_lever catches nothing.
Uncaught == Parse("dead")

ParseGreenhouse == kind = "greenhouse" /\ Uncaught
ParseLever == kind = "lever" /\ Uncaught
ParseAshby == kind = "ashby" /\ Parse("done")

-----------------------------------------------------------------------------
\* smartrecruiters: pages, a detail for each posting, and a deadline.

SmartDeadline ==
    /\ kind = "smartrecruiters" /\ pc \in {"list", "detail"}
    /\ Failure(out # {}) /\ Goto("done") /\ Fault
    /\ UNCHANGED <<fixed, at, read, out, stub, partial, alive>>

\* A listing of an unexpected shape loses the jobs of the company.
SmartBreaks ==
    /\ kind = "smartrecruiters" /\ pc \in {"list", "detail"}
    /\ Failure(FALSE) /\ out' = {} /\ Goto("done") /\ Fault
    /\ UNCHANGED <<fixed, at, read, stub, partial, alive>>

SmartPage ==
    /\ kind = "smartrecruiters" /\ pc = "list"
    /\ \/ /\ Failure(at[2] > 0) /\ partial' = TRUE /\ Goto("done") /\ Fault
          /\ UNCHANGED read
       \/ /\ Silent /\ NoFault /\ UNCHANGED partial
          /\ read' = read \cup Shown
          /\ Goto(IF at \in Postings THEN "detail" ELSE "report")
    /\ UNCHANGED <<fixed, at, out, stub, alive>>

\* Seeded fault: a posting whose detail is missing is skipped without a word.
SkipsDetail == Silent /\ UNCHANGED partial

\* A detail that cannot be read makes the board partial.
MissingDetail == Failure(TRUE) /\ partial' = TRUE

SmartDetail ==
    /\ kind = "smartrecruiters" /\ pc = "detail"
    /\ \/ Silent /\ NoFault /\ out' = out \cup {at} /\ UNCHANGED partial
       \/ MissingDetail /\ Fault /\ UNCHANGED out
    /\ NextPage /\ Goto(IF Last THEN "report" ELSE "list")
    /\ UNCHANGED <<fixed, read, stub, alive>>

SmartReport ==
    /\ kind = "smartrecruiters" /\ pc = "report"
    /\ IF partial THEN Silent ELSE Success(size)
    /\ Goto("done")
    /\ UNCHANGED <<fixed, at, read, out, stub, partial, alive, aux_fault>>

-----------------------------------------------------------------------------
\* workday: the first page gives the size, the others are read concurrently,
\* then all the details; a budget bounds the whole tenant.

\* The location facets of an oversized board: none when the request fails or
\* the payload has another shape, and no more than a maximum of them.
LocationFacets == SUBSET (0..(size - 1))

FirstPage ==
    /\ kind = "workday" /\ pc = "list"
    /\ \/ Failure(FALSE) /\ Goto("done") /\ Fault /\ UNCHANGED <<read, facets>>
       \/ size = 0 /\ Success(0) /\ Goto("done") /\ NoFault /\ UNCHANGED <<read, facets>>
       \/ /\ size > 0 /\ Silent /\ NoFault
          /\ read' = {<<1, 0>>}
          /\ IF large THEN Goto("terms") /\ facets' \in LocationFacets
             ELSE Goto("pages") /\ UNCHANGED facets
    /\ at' = <<1, 1>>
    /\ UNCHANGED <<board, asked, out, stub, partial, alive>>

\* The outcome of a page after its retries: read, throttled or a server error
\* (429), an exception, or a time-out or another status, which nobody counts.
OtherPage ==
    /\ kind = "workday" /\ pc = "pages" /\ at[2] < size
    /\ \/ read' = read \cup {at} /\ NoFault /\ UNCHANGED partial
       \/ partial' = TRUE /\ Fault /\ UNCHANGED read
       \/ Fault /\ UNCHANGED <<partial, read>>
    /\ NextPage
    /\ UNCHANGED <<fixed, pc, out, stub, alive, ledger>>

\* One query of a term: nothing without its first page, and of the further
\* pages, inside the window only, those that can be read.
QueryPages(t) ==
    {{}} \cup {got \in SUBSET ({t} \X (0..(size - 1))) :
                 <<t, 0>> \in got /\ \A p \in got : p[2] < Window}

\* The pages which the same query leads to, restricted to one facet after
\* another, when its total is known and exceeds the window.
SubPartitions(t, got) == IF got = {} \/ size <= Window THEN {} ELSE {t} \X facets

\* An oversized board is searched term after term; only a first page that is
\* throttled or raises counts.
SearchTerm ==
    /\ kind = "workday" /\ pc = "terms" /\ at[1] \in Terms
    /\ \E got \in QueryPages(at[1]) :
         LET further == SubPartitions(at[1], got)
         IN  \E more \in SUBSET further :
               /\ read' = read \cup got \cup more
               /\ \/ /\ aux_fault' = (aux_fault \/ got \cup more # {at[1]} \X (0..(size - 1)))
                     /\ UNCHANGED partial
                  \/ (got = {} \/ more # further) /\ partial' = TRUE /\ Fault
    /\ NextTerm
    /\ UNCHANGED <<fixed, pc, out, stub, alive, ledger>>

ListingOver ==
    /\ kind = "workday"
    /\ \/ pc = "pages" /\ at[2] >= size
       \/ pc = "terms" /\ at[1] \notin Terms
    /\ Goto("detail") /\ facets' = {}
    /\ UNCHANGED <<board, asked, at, read, out, stub, partial, alive, ledger, aux_fault>>

\* Seeded fault: a detail that failed leaves no row at all.
NoStub(p) == UNCHANGED stub

\* A stub keeps the row of a posting whose detail failed from expiring.
Stubbed(p) == stub' = stub \cup {p}

WorkdayDetail(p) ==
    /\ kind = "workday" /\ pc = "detail" /\ p \in read \ asked
    /\ asked' = asked \cup {p}
    /\ \/ out' = out \cup {p} /\ NoFault /\ UNCHANGED <<stub, partial>>
       \/ Stubbed(p) /\ partial' = TRUE /\ Fault /\ UNCHANGED out
    /\ UNCHANGED <<board, facets, pc, at, read, alive, ledger>>

WorkdaySuccess ==
    /\ kind = "workday" /\ pc = "detail" /\ asked = read
    /\ Success(Cardinality(read))
    /\ Goto(IF partial THEN "report" ELSE "done")
    /\ UNCHANGED <<fixed, at, read, out, stub, partial, alive, aux_fault>>

WorkdayPartial ==
    /\ kind = "workday" /\ pc = "report"
    /\ Failure(TRUE) /\ Goto("done")
    /\ UNCHANGED <<fixed, at, read, out, stub, partial, alive, aux_fault>>

\* The budget ends the fetch anywhere: only finished details are kept; any
\* other exception loses them too.
WorkdayTimeout ==
    /\ kind = "workday" /\ pc \in {"list", "pages", "terms", "detail"}
    /\ \/ Failure(out # {}) /\ UNCHANGED out
       \/ Failure(FALSE) /\ out' = {}
    /\ Goto("done") /\ Fault /\ stub' = {}
    /\ UNCHANGED <<fixed, at, read, partial, alive>>

-----------------------------------------------------------------------------
\* amazon, eightfold: pages in turn, a failure gives up the term.

\* A term that is over gives way to the next one, or to the report.
TermOver == IF MoreTerms THEN NextTerm /\ UNCHANGED pc ELSE UNCHANGED at /\ Goto("report")
PageOver == IF Last THEN TermOver ELSE NextPage /\ UNCHANGED pc

ListingFails == partial' = TRUE /\ Fault /\ TermOver /\ UNCHANGED <<alive, out, stub>>
PageRead == alive' = TRUE /\ PageOver /\ UNCHANGED partial

AmazonPage ==
    /\ kind = "amazon" /\ pc = "list"
    /\ \/ ListingFails
       \/ PageRead /\ out' = out \cup Shown /\ NoFault /\ UNCHANGED stub
    /\ UNCHANGED <<fixed, read, ledger>>

\* Eightfold emits a posting whose detail failed without a description.
EightfoldPage ==
    /\ kind = "eightfold" /\ pc = "list"
    /\ \/ ListingFails
       \/ PageRead /\ out' = out \cup Shown /\ NoFault /\ UNCHANGED stub
       \/ PageRead /\ at \in Postings /\ stub' = stub \cup {at} /\ Fault /\ UNCHANGED out
    /\ UNCHANGED <<fixed, read, ledger>>

AmazonReport ==
    /\ kind = "amazon"
    /\ \/ pc = "report" /\ Goto("second")
          /\ IF alive THEN Success(Cardinality(out)) ELSE Silent
       \/ pc = "second" /\ Goto("done")
          /\ IF partial THEN Failure(alive) ELSE Silent
    /\ UNCHANGED <<fixed, at, read, out, stub, partial, alive, aux_fault>>

\* A listing that failed altogether raises, and is reported a second time;
\* its jobs, none, are lost with it.
EightfoldReport ==
    /\ kind = "eightfold"
    /\ \/ pc = "report" /\ Goto("second")
          /\ IF partial THEN Failure(alive) ELSE Silent
       \/ pc = "second" /\ Goto("done")
          /\ IF partial /\ ~alive THEN Failure(FALSE) ELSE Success(Cardinality(Emitted))
    /\ UNCHANGED <<fixed, at, read, out, stub, partial, alive, aux_fault>>

-----------------------------------------------------------------------------
\* icims, taleo: HTML pages; a page that cannot be read ends the listing, and
\* only the first request of the board (Taleo's section probe) raises.

\* Whatever the request of a page meets, nobody is told.
NoPage == Fault /\ Silent

\* A detail that cannot be read leaves the posting without a description.
NoDescription(links) == stub' = stub \cup links /\ Fault /\ UNCHANGED out

\* The page is read, and its links with their details or without; a page on
\* which no link is recognised is the last one.
HtmlRead(links) ==
    /\ \/ out' = out \cup links /\ aux_fault' = (aux_fault \/ links # Shown) /\ UNCHANGED stub
       \/ links # {} /\ NoDescription(links)
    /\ IF links = {} THEN TermOver ELSE PageOver
    /\ Silent

FirstRequestFails ==
    at = <<1, 0>> /\ Failure(FALSE) /\ Goto("done") /\ Fault /\ UNCHANGED <<at, out, stub>>

\* The listing, or the keyword, is taken to end at a page that failed.
EndsEarly == NoPage /\ TermOver /\ UNCHANGED <<out, stub>>

\* The links of an iCIMS page carry the path of a job, in one of two shapes.
IcimsLinks == {Shown, {}}

IcimsPage ==
    /\ kind = "icims" /\ pc = "list"
    /\ (\E links \in IcimsLinks : HtmlRead(links)) \/ FirstRequestFails \/ (at[2] > 0 /\ EndsEarly)
    /\ UNCHANGED <<fixed, read, partial, alive>>

\* Those of a Taleo page name a jobdetail form.
TaleoLinks == {Shown, {}}

TaleoPage ==
    /\ kind = "taleo" /\ pc = "list"
    /\ (\E links \in TaleoLinks : HtmlRead(links)) \/ FirstRequestFails \/ EndsEarly
    /\ UNCHANGED <<fixed, read, partial, alive>>

HtmlReport ==
    /\ pc = "report" /\ Success(Cardinality(Emitted)) /\ Goto("done")
    /\ UNCHANGED <<fixed, at, read, out, stub, partial, alive, aux_fault>>

IcimsReport == kind = "icims" /\ HtmlReport
TaleoReport == kind = "taleo" /\ HtmlReport

-----------------------------------------------------------------------------
\* jobvite, bamboohr: one listing, then a detail for each posting.

ListOnce ==
    /\ kind \in {"jobvite", "bamboohr"} /\ pc = "list"
    /\ \/ Failure(FALSE) /\ Goto("done") /\ Fault /\ UNCHANGED read
       \/ Silent /\ Goto("detail") /\ NoFault /\ read' = Postings
    /\ UNCHANGED <<fixed, at, out, stub, partial, alive>>

DetailOf(p) ==
    /\ pc = "detail" /\ p \in read \ asked
    /\ asked' = asked \cup {p}
    /\ UNCHANGED <<board, facets, pc, at, read, alive, ledger>>

\* Jobvite counts a detail that failed.
JobviteDetail(p) ==
    /\ kind = "jobvite" /\ DetailOf(p) /\ UNCHANGED stub
    /\ \/ out' = out \cup {p} /\ NoFault /\ UNCHANGED partial
       \/ partial' = TRUE /\ Fault /\ UNCHANGED out

\* BambooHR falls back on the listing, which may not show that the posting is
\* in the US.
BambooDetail(p) ==
    /\ kind = "bamboohr" /\ DetailOf(p) /\ UNCHANGED partial
    /\ \/ out' = out \cup {p} /\ NoFault /\ UNCHANGED stub
       \/ stub' = stub \cup {p} /\ Fault /\ UNCHANGED out
       \/ Fault /\ UNCHANGED <<out, stub>>

\* The failure is reported first, the success of the same company after it.
JobviteReport ==
    /\ kind = "jobvite" /\ asked = read
    /\ \/ pc = "detail" /\ Goto("second")
          /\ IF partial THEN Failure(out # {}) ELSE Silent
       \/ pc = "second" /\ Goto("done") /\ Success(Cardinality(out))
    /\ UNCHANGED <<fixed, at, read, out, stub, partial, alive, aux_fault>>

BambooReport ==
    /\ kind = "bamboohr" /\ pc = "detail" /\ asked = read
    /\ Success(Cardinality(Emitted)) /\ Goto("done")
    /\ UNCHANGED <<fixed, at, read, out, stub, partial, alive, aux_fault>>

-----------------------------------------------------------------------------
\* workable: one search of all companies for each term.  A term that fails is
\* charged to the tenant global-search; the companies whose postings the other
\* terms found are all reported complete.

WorkableTerm ==
    /\ kind = "workable" /\ pc = "list"
    /\ LET all == {at[1]} \X (0..(size - 1))
       IN  \/ /\ \E got \in SUBSET all :   \* up to the page limit, or a repeated token
                    /\ out' = out \cup got
                    /\ aux_fault' = (aux_fault \/ got # all)
              /\ Silent
           \/ RecordFailure("global-search", out # {}) /\ Fault /\ UNCHANGED out
    /\ TermOver
    /\ UNCHANGED <<fixed, read, stub, partial, alive>>

WorkableReport ==
    /\ kind = "workable"
    /\ \/ pc = "report" /\ Goto("second")
          /\ IF out # {} THEN Success(Cardinality(out)) ELSE Silent
       \/ pc = "second" /\ Goto("done")
          /\ RecordSuccess("global-search", Cardinality(out))
    /\ UNCHANGED <<fixed, at, read, out, stub, partial, alive, aux_fault>>

-----------------------------------------------------------------------------
\* employer_feed: the partners are read, and their run is opened and closed,
\* in transactions of their own; one request returns the rows of a partner,
\* and bad rows are only counted.

LoadPartners == kind = "employer_feed" /\ Load("open")

FeedRun(label) ==
    /\ (Goto(label) /\ NoFault) \/ (Goto("dead") /\ Fault)
    /\ UNCHANGED <<fixed, at, read, out, stub, partial, alive, ledger>>

StartCrawlRun == kind = "employer_feed" /\ pc = "open" /\ FeedRun("list")

FeedFails == Failure(FALSE) /\ Goto("close") /\ Fault /\ UNCHANGED read

FeedFetch ==
    /\ kind = "employer_feed" /\ pc = "list"
    /\ FeedFails \/ (Silent /\ Goto("detail") /\ NoFault /\ read' = Postings)
    /\ UNCHANGED <<fixed, at, out, stub, partial, alive>>

\* A row that is malformed, or that the database refuses, makes the feed partial.
FeedRow(p) ==
    /\ kind = "employer_feed" /\ DetailOf(p) /\ UNCHANGED stub
    /\ \/ out' = out \cup {p} /\ NoFault /\ UNCHANGED partial
       \/ partial' = TRUE /\ Fault /\ UNCHANGED out

\* The rows of a partner are one transaction.
FeedWriteFails ==
    /\ kind = "employer_feed" /\ pc = "detail" /\ asked = read
    /\ FeedFails /\ out' = {}
    /\ UNCHANGED <<fixed, at, stub, partial, alive>>

\* The loop over the partners goes on after any other exception, whether the
\* partner is not a valid one or its rows cannot be prepared.
FeedBreaks ==
    /\ kind = "employer_feed" /\ pc \in {"list", "detail"} /\ asked = {}
    /\ FeedFails
    /\ UNCHANGED <<fixed, at, out, stub, partial, alive>>

FeedReport ==
    /\ kind = "employer_feed" /\ asked = read
    /\ \/ pc = "detail" /\ Success(size) /\ Goto(IF partial THEN "second" ELSE "close")
       \/ pc = "second" /\ Failure(TRUE) /\ Goto("close")
    /\ UNCHANGED <<fixed, at, read, out, stub, partial, alive, aux_fault>>

\* The run, its tenants' outcomes and the partners' last status are written
\* together, or none of them.
FinishCrawlRun == kind = "employer_feed" /\ pc = "close" /\ FeedRun("done")

-----------------------------------------------------------------------------
\* usajobs, adzuna, jsonld, feed: any failure ends the command before anything is
\* written; there is no outcome, so absence never closes their postings.

NoLedger == {"usajobs", "adzuna", "jsonld", "feed"}

\* The pages of the sitemaps come first.
SitemapPages == kind = "jsonld" /\ Load("list")

CommandPage ==
    /\ pc = "list"
    /\ \/ read' = read \cup Shown /\ NoFault /\ PageOver
       \/ Goto("dead") /\ Fault /\ UNCHANGED <<at, read>>
    /\ UNCHANGED <<fixed, out, stub, partial, alive, ledger>>

UsaPage == kind = "usajobs" /\ CommandPage

\* A page without results is the last one of its term.
AdzunaPage ==
    \/ kind = "adzuna" /\ CommandPage
    \/ /\ kind = "adzuna" /\ pc = "list" /\ Fault /\ TermOver
       /\ UNCHANGED <<fixed, read, out, stub, partial, alive, ledger>>

\* What is malformed on a page is passed over.
TolerantPage ==
    \/ CommandPage
    \/ /\ pc = "list" /\ Fault /\ PageOver
       /\ UNCHANGED <<fixed, read, out, stub, partial, alive, ledger>>

JsonLdPage == kind = "jsonld" /\ TolerantPage
FeedUrl == kind = "feed" /\ TolerantPage

CommandWrite ==
    /\ kind \in NoLedger /\ pc = "report"
    /\ \/ out' = read /\ Goto("done") /\ NoFault
       \/ Goto("dead") /\ Fault /\ UNCHANGED out
    /\ UNCHANGED <<fixed, at, read, stub, partial, alive, ledger>>

-----------------------------------------------------------------------------

\* The next run of the ingestion forgets the outcomes before it fetches.
NextRun ==
    /\ pc \in {"done", "dead"}
    /\ Reset
    /\ size' \in 0..MaxPages
    /\ pc' = First /\ at' = <<1, 0>>
    /\ read' = {} /\ asked' = {} /\ out' = {} /\ stub' = {} /\ facets' = {}
    /\ partial' = FALSE /\ alive' = FALSE
    /\ aux_fault' = FALSE
    /\ large' = (large /\ size' > 0)
    /\ UNCHANGED kind

Next ==
    \/ LoadCompanies \/ LoadWorkdayList \/ LoadRegistry
    \/ GetBoard \/ ParseGreenhouse \/ ParseLever \/ ParseAshby
    \/ SmartDeadline \/ SmartBreaks \/ SmartPage \/ SmartDetail \/ SmartReport
    \/ FirstPage \/ OtherPage \/ SearchTerm \/ ListingOver \/ WorkdaySuccess
    \/ WorkdayPartial \/ WorkdayTimeout \/ \E p \in read : WorkdayDetail(p)
    \/ AmazonPage \/ EightfoldPage \/ AmazonReport \/ EightfoldReport
    \/ IcimsPage \/ TaleoPage \/ IcimsReport \/ TaleoReport
    \/ ListOnce \/ JobviteReport \/ BambooReport \/ \E p \in read : JobviteDetail(p) \/ BambooDetail(p)
    \/ WorkableTerm \/ WorkableReport
    \/ LoadPartners \/ StartCrawlRun \/ FinishCrawlRun \/ FeedBreaks
    \/ FeedFetch \/ FeedWriteFails \/ FeedReport \/ \E p \in read : FeedRow(p)
    \/ SitemapPages \/ UsaPage \/ AdzunaPage \/ JsonLdPage \/ FeedUrl
    \/ CommandWrite
    \/ NextRun

Spec == Init /\ [][Next]_vars

-----------------------------------------------------------------------------

TypeOK ==
    /\ kind \in Kinds /\ size \in 0..MaxPages /\ large \in BOOLEAN
    /\ pc \in {"start", "open", "close", "list", "parse", "pages", "terms", "detail", "report", "second", "done", "dead"}
    /\ read \subseteq Postings /\ asked \subseteq read /\ out \subseteq Postings /\ stub \subseteq Postings
    /\ facets \subseteq 0..(size - 1)
    /\ partial \in BOOLEAN /\ alive \in BOOLEAN /\ aux_fault \in BOOLEAN
    /\ LedgerTypeOK

\* The sources whose reports say of every fault what it cost.
Careful == {"greenhouse", "lever", "smartrecruiters", "amazon", "eightfold", "jobvite",
            "employer_feed"}

\* A clean outcome is the permission to close what was not emitted: a careful
\* source never reports one for a board of which a posting was not emitted, in
\* whatever order its requests fail.
CleanMeansWhole ==
    kind \in Careful /\ pc = "done" /\ Clean => Emitted = Postings

\* A Workday fetch that reports a number of postings emits at least a stub of
\* each, whichever details fail.
ListedIsKept ==
    kind = "workday" /\ pc = "done" /\ outcome.jobs > 0 => read = Emitted

\* "Harvesters record a terminal outcome even when a healthy board has zero
\* accepted jobs": a fetch that is over has an outcome (Workable's charge goes
\* to global-search, and the coverage commands keep none), and one without any fault has a
\* clean one.
HealthyIsClean ==
    pc = "done" =>
        /\ kind \notin NoLedger \cup {"workable"} => outcome # Absent
        /\ kind = "workable" => global # Absent
        /\ ~aux_fault => Clean \/ kind \in NoLedger \/ (kind = "workable" /\ size = 0)

=============================================================================
