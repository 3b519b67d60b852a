------------------------------ MODULE Candidates ------------------------------
(***************************************************************************)
(* The registry of ATS tenants (ats_tenants_candidates): the discoverers   *)
(* stage rows, python/validate_ats_candidates.py probes them and           *)
(* python/integrate_ats_candidates.py copies the active ones into          *)
(* discovered_companies, where the nightly harvest finds its boards.  Two  *)
(* discovery DAGs and the career-host DAG each run the whole chain, with   *)
(* nothing to keep them apart: a lane is one of them.                      *)
(*                                                                         *)
(* A locator is the server column: a Workday row may know only the host    *)
(* (wd5) or the host and the board (wd5/External); an Eightfold row needs  *)
(* the employer's domain and an Oracle row its site; the other systems     *)
(* need none, their one board is Whole.                                    *)
(***************************************************************************)
EXTENDS Integers, Sequences, FiniteSets

CONSTANTS
    Tenants,
    Workday, Eightfold, Oracle, Unsupported,   \* sets of tenants; the others need no locator
    Greenhouse, Lever, Ashby,                  \* those with a discoverer of their own
    Edgar, Fortune1000, Russell3000, YCombinator,  \* sets of companies
    TenantSlugs,  \* the tenants that bear a company's name or ticker
    Boards,       \* full locators
    Common,       \* the boards every validation tries
    Barren,       \* boards whose openings are none of the target roles
    External,     \* the board a Workday host alone stands for
    Whole, NoServer, HostOnly,
    Lanes,        \* subset of {"daily", "weekly", "hosts"}
    Limit,        \* [Lanes -> Nat], rows one validation loads
    StaleDays,    \* days before a rejected row is tried again
    MaxChanges,   \* bound on the changes of the employers' sites
    MaxCrashes    \* bound on the failed tasks

ASSUME LocatorsAssumption ==
    /\ Common \subseteq Boards /\ External \in Common /\ Barren \subseteq Boards \cup {Whole}
    /\ {Whole, NoServer, HostOnly} \cap Boards = {}
    /\ NoServer # HostOnly /\ Whole \notin {NoServer, HostOnly}
ASSUME SystemsAssumption ==
    /\ Workday \cup Eightfold \cup Oracle \cup Unsupported \subseteq Tenants
    /\ Workday \cap (Eightfold \cup Oracle \cup Unsupported) = {}
    /\ Eightfold \cap (Oracle \cup Unsupported) = {} /\ Oracle \cap Unsupported = {}
    /\ Greenhouse \cup Lever \cup Ashby \subseteq Tenants \ (Workday \cup Eightfold \cup Oracle \cup Unsupported)
ASSUME SlugsAssumption ==
    /\ TenantSlugs \in [Edgar \cup Fortune1000 \cup Russell3000 \cup YCombinator -> SUBSET Tenants]
    /\ \A c \in DOMAIN TenantSlugs : IsFiniteSet(TenantSlugs[c]) /\ Cardinality(TenantSlugs[c]) <= 4
ASSUME LanesAssumption == Limit \in [Lanes -> Nat] /\ StaleDays \in Nat /\ MaxChanges \in Nat /\ MaxCrashes \in Nat

VARIABLES
    cand,      \* the registry: status, server, days since the last validation
    order,     \* the rows in the order of discovered_at
    harvested, \* boards enabled in discovered_companies (Oracle: the shadow host)
    site,      \* the employers' boards that have postings
    pc,        \* what each lane is doing
    known,     \* a discoverer's snapshot of the tenants it need not report
    buffer,    \* tenants the board discoverers probed and have not saved
    pend,      \* the rows a validation loaded and has not written, with their locators
    ready,     \* the active rows an integration read, with their locators
    ran,       \* the daily DAG ran today
    changes, crashes,
    aux_valid  \* history: locators a validation of the registry saw a target opening at

vars == <<cand, order, harvested, site, pc, known, buffer, pend, ready, ran, changes, crashes, aux_valid>>
lanes == <<pc, known, pend, ready>>
world == <<site, buffer, ran, changes, crashes>>

Locator == Boards \cup {NoServer, HostOnly}
Status == {"absent", "pending", "active", "no_data_jobs", "unreachable", "unsupported", "integrated"}
Row == [status : Status, server : Locator, age : 0..StaleDays]
Absent == [status |-> "absent", server |-> NoServer, age |-> StaleDays]
Located == Workday \cup Eightfold \cup Oracle
SiteBoards(t) == IF t \in Located THEN Boards ELSE {Whole}

Init ==
    /\ cand = [t \in Tenants |-> Absent] /\ order = <<>>
    /\ harvested = [t \in Tenants |-> {}]
    /\ site \in [Tenants -> SUBSET (Boards \cup {Whole})]
    /\ \A t \in Tenants : site[t] \subseteq SiteBoards(t)
    /\ pc = [l \in Lanes |-> "idle"] /\ known = [l \in Lanes |-> {}] /\ buffer = {}
    /\ pend = [l \in Lanes |-> {}] /\ ready = [l \in Lanes |-> {}]
    /\ ran = FALSE /\ changes = 0 /\ crashes = 0
    /\ aux_valid = [t \in Tenants |-> {}]

-----------------------------------------------------------------------------
\* Discovery.

\* The tenants a discoverer passes over: those in the registry, except Workday
\* rows whose board is still to be found, and those harvested, except companies
\* that have shown no role for two weeks.
Registered ==
    {t \in Tenants : cand[t].status # "absent" /\ ~(t \in Workday /\ cand[t].server \notin Boards)}
Tracked == {t \in Tenants : harvested[t] # {}}
Known == {Registered \cup live : live \in SUBSET Tracked}

\* A database error ends the reading; the discoverer goes on with what it has.
KnownPart == {{}, Registered}

\* The DAG starts; the daily one once a day.  The career-host engine asks for
\* nothing known: it routes each host it has found, once.
Start(l) ==
    /\ pc[l] = "idle" /\ (l = "daily" => ~ran)
    /\ ran' = (ran \/ l = "daily")
    /\ pc' = [pc EXCEPT ![l] = "discover"]
    /\ \/ l = "hosts" /\ known' = [known EXCEPT ![l] = {}] /\ UNCHANGED crashes
       \/ l # "hosts" /\ UNCHANGED crashes /\ \E k \in Known : known' = [known EXCEPT ![l] = k]
       \/ /\ l # "hosts" /\ crashes < MaxCrashes /\ crashes' = crashes + 1
          /\ \E k \in KnownPart : known' = [known EXCEPT ![l] = k]
    /\ UNCHANGED <<cand, order, harvested, site, buffer, pend, ready, changes, aux_valid>>

\* The companies of four published lists, and the slugs made of their names and
\* tickers.  A list that fails to load adds nothing to the run.
build_company_list == Edgar \cup Fortune1000 \cup Russell3000 \cup YCombinator
NameSlugs == UNION {TenantSlugs[c] : c \in build_company_list}

\* The locators the sources can read: certificate logs and slug probes show a
\* Workday host, the URLs of search results and sitemaps also its board.
CertificateLogs == {HostOnly}
SlugProbes(t) == IF t \in NameSlugs THEN {HostOnly} ELSE {}
SearchResults == {HostOnly} \cup Boards
Sitemaps == {HostOnly} \cup Boards
LinkedInSnippets == {HostOnly} \cup Boards
Sightings(t) ==
    IF t \in Workday THEN CertificateLogs \cup SlugProbes(t) \cup SearchResults \cup Sitemaps
         \cup LinkedInSnippets
    ELSE {NoServer}

New(s) == [status |-> "pending", server |-> s, age |-> StaleDays]
Appended(t) == IF cand[t].status = "absent" THEN Append(order, t) ELSE order

\* Seeded fault: a new locator leaves the verdict on the old one in place.
KeepsVerdict(row, s) == row.status

\* A locator with a board that differs from the stored one is to be validated.
StatusAfter(row, s) ==
    IF row.status # "integrated" /\ s \in Boards /\ s # row.server THEN "pending" ELSE row.status

\* Seeded fault: the newest sighting is stored, however little it says.
NewestSighting(row, s) == IF s = NoServer THEN row.server ELSE s

\* A board is not forgotten for a host.
ServerAfter(row, s) ==
    IF s = NoServer \/ (s = HostOnly /\ row.server \in Boards) THEN row.server ELSE s

Upserted(row, s) ==
    IF row.status = "absent" THEN New(s)
    ELSE [status |-> StatusAfter(row, s), server |-> ServerAfter(row, s), age |-> row.age]

\* The aggressive discoverer saves what a source shows of a tenant it does not
\* know, and knows it for the rest of the run; only a Workday host in a
\* certificate log or a search result leaves its board to the later sources.
Unsettled(s) == s = HostOnly /\ s \in CertificateLogs \cup SearchResults
Discover(l, t) ==
    /\ pc[l] = "discover" /\ l \in {"daily", "weekly"} /\ t \notin known[l] \cup Oracle
    /\ \E s \in Sightings(t) :
          /\ cand' = [cand EXCEPT ![t] = Upserted(@, s)]
          /\ \/ known' = [known EXCEPT ![l] = @ \cup {t}]
             \/ Unsettled(s) /\ UNCHANGED known
    /\ order' = Appended(t)
    /\ UNCHANGED <<harvested, pc, pend, ready, world, aux_valid>>

\* A row that is inserted, never updated.
Insert(t, s) ==
    /\ cand[t].status = "absent"
    /\ cand' = [cand EXCEPT ![t] = New(s)]
    /\ order' = Appended(t)

Stage(t, s) == Insert(t, s) /\ UNCHANGED <<harvested, lanes, world, aux_valid>>

-----------------------------------------------------------------------------
\* The board discoverers of the weekly DAG: Greenhouse, Lever and Ashby.  Each
\* collects slugs, probes those it does not know, and saves the ones whose
\* board shows an opening in the country.  What it knows was read when it
\* started: a slug that another program reported since is inserted in vain.

Unknown(S) == {t \in S : cand[t].status = "absent" /\ harvested[t] = {}}
Open(S) == {t \in S : site[t] # {}}

\* Slugs in the links of search results, on the career pages that embed a
\* board, and in directories of users and of certificates.
GreenhouseLinks == Unknown(Greenhouse)
EmbeddedBoards == Unknown(Greenhouse)
GreenhouseDirectories == Unknown(Greenhouse)
LeverLinks == Lever
AshbyLinks == Ashby

\* A probe that is refused, or fails again after its retries, counts no opening.
LeverOpen(S) == Open(S)
AshbyOpen(S) == Open(S)
GreenhouseProbed == Open(GreenhouseLinks \cup EmbeddedBoards \cup GreenhouseDirectories)
LeverProbed == LeverOpen(Unknown(LeverLinks))
AshbyProbed == AshbyOpen(Unknown(AshbyLinks))

ProbeBoard(t) ==
    /\ t \in (GreenhouseProbed \cup LeverProbed \cup AshbyProbed) \ buffer
    /\ buffer' = buffer \cup {t}
    /\ UNCHANGED <<cand, order, harvested, lanes, site, ran, changes, crashes, aux_valid>>

\* A flush of the buffer writes its rows one by one, and commits them.
SaveBoard(t) ==
    /\ t \in buffer /\ buffer' = buffer \ {t}
    /\ \/ Insert(t, NoServer)
       \/ cand[t].status # "absent" /\ UNCHANGED <<cand, order>>
    /\ UNCHANGED <<harvested, lanes, site, ran, changes, crashes, aux_valid>>

\* A row that fails takes the earlier rows of its flush with it (Greenhouse), or
\* goes alone (Lever, Ashby: a savepoint each), unless the whole flush fails.
GreenhouseLoss == SUBSET (buffer \cap Greenhouse)
LeverLoss == {{t} : t \in buffer \cap Lever} \cup {buffer \cap Lever}
AshbyLoss == {{t} : t \in buffer \cap Ashby} \cup {buffer \cap Ashby}

LoseBoards ==
    /\ crashes < MaxCrashes /\ crashes' = crashes + 1
    /\ \E lost \in (GreenhouseLoss \cup LeverLoss \cup AshbyLoss) \ {{}} : buffer' = buffer \ lost
    /\ UNCHANGED <<cand, order, harvested, lanes, site, ran, changes, aux_valid>>

-----------------------------------------------------------------------------
\* The other discoverers insert a row as they come to it.

\* discover_yc asks for an opening of a target role, and that the board is not
\* harvested yet.
StageYc(t) ==
    /\ t \notin Located \cup Unsupported
    /\ site[t] \ Barren # {} /\ harvested[t] = {}
    /\ Stage(t, NoServer)

\* The iCIMS hosts of Common Crawl are staged unseen, and so are the systems
\* behind the redirects an ingest follows.
StageCrawled(t) == t \notin Located /\ harvested[t] = {} /\ Stage(t, NoServer)
StageRedirect(t) == t \notin Located \cup Unsupported /\ Stage(t, NoServer)

\* A career page shows which system it embeds; of a Workday locator only the
\* host is kept.  Oracle sites are staged by the operator.
SplitLocators(t) == CASE t \in Workday -> {HostOnly} [] t \in Oracle -> Boards [] OTHER -> {NoServer}
StageCareerPage(t) == \E s \in SplitLocators(t) : Stage(t, s)

Staging(t) ==
    StageYc(t) \/ StageCrawled(t) \/ StageRedirect(t) \/ StageCareerPage(t)

\* The career-host engine routes the ATS behind a host: the row is to be
\* validated again whatever was known of it, unless it is integrated.
Routed(row, s) ==
    IF row.status = "absent" THEN New(s)
    ELSE [status |-> IF row.status = "integrated" THEN "integrated" ELSE "pending",
          server |-> IF s = NoServer THEN row.server ELSE s, age |-> row.age]

Route(l, t) ==
    /\ pc[l] = "discover" /\ l = "hosts" /\ t \notin Oracle \cup Unsupported
    /\ \E s \in IF t \in Workday \cup Eightfold THEN Boards ELSE {NoServer} :
          cand' = [cand EXCEPT ![t] = Routed(@, s)]
    /\ order' = Appended(t)
    /\ known' = [known EXCEPT ![l] = @ \cup {t}] /\ t \notin known[l]
    /\ UNCHANGED <<harvested, pc, pend, ready, world, aux_valid>>

-----------------------------------------------------------------------------
\* Validation.

\* Seeded fault: an unreachable board is never tried again.
NoSecondChance(row) == row.status = "no_data_jobs" /\ row.age = StaleDays

\* A rejected row whose last validation is a week old.
Stale(row) == row.status \in {"unreachable", "no_data_jobs"} /\ row.age = StaleDays

Wanted(l) ==
    {t \in Tenants : cand[t].status = "pending" \/ (l = "daily" /\ Stale(cand[t]))}

\* ORDER BY discovered_at LIMIT.
Rank(t) == CHOOSE i \in DOMAIN order : order[i] = t
Loaded(l) ==
    {t \in Wanted(l) : Cardinality({u \in Wanted(l) : Rank(u) < Rank(t)}) < Limit[l]}

\* The discovery tasks are over, or failed: validation runs all the same.
Load(l) ==
    /\ pc[l] = "discover"
    /\ pend' = [pend EXCEPT ![l] = {<<t, cand[t].server>> : t \in Loaded(l)}]
    /\ pc' = [pc EXCEPT ![l] = "validate"] /\ known' = [known EXCEPT ![l] = {}]
    /\ UNCHANGED <<cand, order, harvested, ready, world, aux_valid>>

\* The boards a probe of tenant t, known at s, can settle on.
WorkdayBoards(t, s) == IF s \in site[t] THEN {s} ELSE site[t] \cap Common
EightfoldDomains(t) == site[t]
OracleSite(t, s) == site[t] \cap {s}
PublicBoard(t) == site[t]

Probed(t, s) ==
    CASE t \in Workday   -> WorkdayBoards(t, s)
      [] t \in Eightfold -> EightfoldDomains(t)
      [] t \in Oracle    -> OracleSite(t, s)
      [] OTHER           -> PublicBoard(t)

\* What is written of the locator: Workday resolves at least the host, and an
\* Eightfold or Oracle row keeps its own where no answer names one.
Resolved(t, s) ==
    CASE t \in Workday -> IF s # NoServer \/ site[t] # {} THEN HostOnly ELSE NoServer
      [] OTHER         -> NoServer

\* A board without an opening in the country counts as unreachable, one without
\* a target role as no_data_jobs; so does an Eightfold page that names no domain.
Verdict(S, b) == [status : S, server : {b}]
Rejected == {"unreachable", "no_data_jobs"}

Verdicts(t, s) ==
    CASE t \in Unsupported -> Verdict({"unsupported"}, NoServer)
      [] t \notin Unsupported /\ Probed(t, s) = {} ->
            Verdict(IF t \in Eightfold THEN Rejected ELSE {"unreachable"}, Resolved(t, s))
      [] OTHER -> UNION {Verdict(IF b \in Barren THEN Rejected ELSE {"active"},
                                 IF t \in Located THEN b ELSE NoServer) : b \in Probed(t, s)}

NewServer(row, v) == IF v.server = NoServer THEN row.server ELSE v.server

\* A probe whose requests fail says the same of a board that is there; of a
\* Workday locator it leaves the host.
Unanswered(t, s) ==
    [status |-> "unreachable",
     server |-> IF t \in Workday /\ s # NoServer THEN HostOnly ELSE NoServer]

FailProbe(l) ==
    /\ pc[l] = "validate" /\ crashes < MaxCrashes /\ crashes' = crashes + 1
    /\ \E p \in pend[l] :
          /\ p[1] \notin Unsupported
          /\ cand' = [cand EXCEPT ![p[1]] =
                [status |-> "unreachable", server |-> NewServer(@, Unanswered(p[1], p[2])), age |-> 0]]
          /\ pend' = [pend EXCEPT ![l] = @ \ {p}]
    /\ UNCHANGED <<order, harvested, pc, known, buffer, ready, site, ran, changes, aux_valid>>

\* The verdict replaces the row's status, whatever it has become since.
Validate(l) ==
    /\ pc[l] = "validate"
    /\ \E p \in pend[l] : \E v \in Verdicts(p[1], p[2]) :
          LET t == p[1] IN
          /\ cand' = [cand EXCEPT ![t] =
                [status |-> v.status, server |-> NewServer(@, v), age |-> 0]]
          /\ aux_valid' = [aux_valid EXCEPT ![t] =
                IF v.status # "active" THEN @
                ELSE @ \cup {IF t \in Located THEN v.server ELSE Whole}]
          /\ pend' = [pend EXCEPT ![l] = @ \ {p}]
    /\ UNCHANGED <<order, harvested, pc, known, ready, world>>

-----------------------------------------------------------------------------
\* Integration.

LoadReady(l) ==
    /\ pc[l] = "validate" /\ pend[l] = {}
    /\ ready' = [ready EXCEPT ![l] =
          {<<t, cand[t].server>> : t \in {u \in Tenants : cand[u].status = "active"}}]
    /\ pc' = [pc EXCEPT ![l] = "integrate"]
    /\ UNCHANGED <<cand, order, harvested, known, pend, world, aux_valid>>

\* The board_token of a row, or none.
Token(t, s) ==
    CASE t \in Workday /\ s # NoServer -> {IF s = HostOnly THEN External ELSE s}
      [] t \in Eightfold \cup Oracle   -> {s} \ {NoServer}
      [] t \in Workday /\ s = NoServer -> {}
      [] OTHER                         -> {Whole}

\* A row without a token is skipped and stays active.
Integrable(t, s) == Token(t, s) # {}

\* One transaction enables the board and marks the candidate.
Integrate(l) ==
    /\ pc[l] = "integrate"
    /\ \E r \in ready[l] :
          LET t == r[1] IN
          /\ ready' = [ready EXCEPT ![l] = @ \ {r}]
          /\ \/ Integrable(t, r[2])
                /\ harvested' = [harvested EXCEPT ![t] = @ \cup Token(t, r[2])]
                /\ cand' = [cand EXCEPT ![t].status = "integrated"]
             \/ ~Integrable(t, r[2]) /\ UNCHANGED <<harvested, cand>>
    /\ UNCHANGED <<order, pc, known, pend, world, aux_valid>>

Finish(l) ==
    /\ pc[l] = "integrate" /\ ready[l] = {}
    /\ pc' = [pc EXCEPT ![l] = "idle"]
    /\ UNCHANGED <<cand, order, harvested, known, pend, ready, world, aux_valid>>

\* A validation or an integration task fails; what it committed stays.
Crash(l) ==
    /\ pc[l] \in {"validate", "integrate"} /\ crashes < MaxCrashes
    /\ crashes' = crashes + 1
    /\ pc' = [pc EXCEPT ![l] = "idle"]
    /\ pend' = [pend EXCEPT ![l] = {}] /\ ready' = [ready EXCEPT ![l] = {}]
    /\ UNCHANGED <<cand, order, harvested, site, known, buffer, ran, changes, aux_valid>>

\* One row fails: its transaction is rolled back and the loop goes on.
FailRow(l) ==
    /\ crashes < MaxCrashes /\ crashes' = crashes + 1
    /\ \/ \E p \in pend[l] : pend' = [pend EXCEPT ![l] = @ \ {p}] /\ UNCHANGED ready
       \/ \E r \in ready[l] : ready' = [ready EXCEPT ![l] = @ \ {r}] /\ UNCHANGED pend
    /\ UNCHANGED <<cand, order, harvested, site, pc, known, buffer, ran, changes, aux_valid>>

-----------------------------------------------------------------------------

\* An employer's board appears, empties or moves.
SiteChange(t) ==
    /\ changes < MaxChanges /\ changes' = changes + 1
    /\ \E b \in SUBSET SiteBoards(t) : site' = [site EXCEPT ![t] = b]
    /\ UNCHANGED <<cand, order, harvested, lanes, buffer, ran, crashes, aux_valid>>

\* The day is over when the daily DAG has run.
NextDay ==
    /\ "daily" \in Lanes => ran /\ pc["daily"] = "idle"
    /\ ran' = FALSE
    /\ cand' = [t \in Tenants |-> [cand[t] EXCEPT !.age = IF @ < StaleDays THEN @ + 1 ELSE @]]
    /\ UNCHANGED <<order, harvested, site, lanes, buffer, changes, crashes, aux_valid>>

LaneStep(l) == Load(l) \/ Validate(l) \/ LoadReady(l) \/ Integrate(l) \/ Finish(l)

Next ==
    \/ \E l \in Lanes : Start(l) \/ LaneStep(l) \/ Crash(l) \/ FailRow(l) \/ FailProbe(l)
    \/ \E l \in Lanes, t \in Tenants : Discover(l, t) \/ Route(l, t)
    \/ \E t \in Tenants : Staging(t) \/ ProbeBoard(t) \/ SaveBoard(t) \/ SiteChange(t)
    \/ LoseBoards
    \/ NextDay

Fairness == WF_vars(NextDay) /\ \A l \in Lanes : WF_vars(Start(l)) /\ WF_vars(LaneStep(l))
Spec == Init /\ [][Next]_vars /\ Fairness

-----------------------------------------------------------------------------

TypeOK ==
    /\ cand \in [Tenants -> Row] /\ order \in Seq(Tenants)
    /\ harvested \in [Tenants -> SUBSET (Boards \cup {Whole})]
    /\ site \in [Tenants -> SUBSET (Boards \cup {Whole})]
    /\ pc \in [Lanes -> {"idle", "discover", "validate", "integrate"}]
    /\ known \in [Lanes -> SUBSET Tenants] /\ buffer \subseteq Tenants
    /\ pend \in [Lanes -> SUBSET (Tenants \X Locator)]
    /\ ready \in [Lanes -> SUBSET (Tenants \X Locator)]
    /\ ran \in BOOLEAN /\ changes \in 0..MaxChanges /\ crashes \in 0..MaxCrashes
    /\ aux_valid \in [Tenants -> SUBSET (Boards \cup {Whole})]

\* The harvest never reads a board that no validation has accepted, whichever
\* lanes overlap and whatever is written of a row between its validation and its
\* integration.  The registry accepts a board that shows an opening of a target
\* role; the weekly crawl (BoardCrawl) adds those with an opening in the country.
HarvestedWasValidated == \A t \in Tenants : harvested[t] \subseteq aux_valid[t]

\* A board that was found is forgotten only on a probe that did not find it: no
\* sighting of the bare host, by whichever lane, throws a locator away.
BoardsRemembered ==
    [][\A t \in Tenants :
        cand[t].server \in Boards /\ cand'[t].server \notin Boards =>
            cand'[t].status = "unreachable" /\ \E l \in Lanes : pc[l] = "validate"]_vars

\* A staged tenant of a supported system has a board with a target opening.
Opening(t) == cand[t].status # "absent" /\ t \notin Unsupported /\ site[t] \ Barren # {}

\* No probe of the row as it stands is sure to settle on such a board.  It may
\* never have named the board, or have forgotten it: after one failed probe a
\* Workday row keeps only the host, and the boards tried on a host are the common ones.
Astray(t) ==
    Probed(t, cand[t].server) = {} \/ Probed(t, cand[t].server) \cap Barren # {}

\* The daily quota is used up by older rows.
Crowded(t) ==
    Cardinality({u \in Wanted("daily") : Rank(u) < Rank(t)}) >= Limit["daily"]

\* A staged tenant whose board keeps a target opening comes to be harvested,
\* whatever was said of it before and whichever tasks failed, with two excuses
\* that the code leaves for good: its row leads no probe to the board, or older
\* rows tried in vain use up the daily quota.  (A harvested board stays so.)
OpenIsHarvested ==
    \A t \in Tenants : []<>(Opening(t) => harvested[t] # {} \/ Astray(t) \/ Crowded(t))
=============================================================================
