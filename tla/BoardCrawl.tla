------------------------------ MODULE BoardCrawl ------------------------------
(***************************************************************************)
(* The weekly crawl of Workday boards, beside the registry of Candidates:  *)
(* python/discover_workday_tenants.py mines locators from Common Crawl,    *)
(* python/validate_workday_tenants.py probes them and, with --integrate,   *)
(* writes them into discovered_companies, which the registry fills too.    *)
(*                                                                         *)
(* It keeps two tables: one row for each tenant, the queue of validation,  *)
(* and one for each board of it that was sighted or probed, so that the    *)
(* sibling boards of a tenant are not lost.  Both are in two tasks of one  *)
(* DAG, so only one step of the crawl runs at a time.                      *)
(***************************************************************************)
EXTENDS Candidates

CONSTANTS
    Mined,      \* the Workday tenants in the crawl's indexes
    Foreign     \* boards with postings of which none is in the country

ASSUME MinedAssumption == Mined \subseteq Workday /\ Foreign \subseteq Boards

VARIABLES
    tenant,     \* workday_tenants_candidates: status and locator
    board,      \* workday_tenant_boards: the status of each board
    stage,      \* what the DAG is doing
    tracked,    \* the locators discovery found tracked when it started
    todo,       \* the rows the stage has still to handle
    left,       \* the probed boards still to be recorded
    txn         \* the rows integrated and not committed

crawl == <<tenant, board, stage, tracked, todo, left, txn>>
registry == <<cand, order, pc, known, buffer, pend, ready, ran>>
allVars == <<vars, crawl>>

Stages == {"idle", "mine", "save", "record", "validate", "tenants", "boards"}
BoardStatus == {"absent", "pending", "active", "no_target_jobs", "unreachable", "integrated"}
Locations == Mined \X (Boards \cup {HostOnly})

CrawlInit ==
    /\ tenant = [t \in Mined |-> [status |-> "absent", server |-> NoServer]]
    /\ board = [t \in Mined |-> [b \in Boards |-> "absent"]]
    /\ stage = "idle" /\ tracked = {} /\ todo = {} /\ left = {} /\ txn = {}

Quiet == UNCHANGED <<registry, site, changes>>
Calm == UNCHANGED crashes

\* A request, a statement or a task fails.
Failing == crashes < MaxCrashes /\ crashes' = crashes + 1

-----------------------------------------------------------------------------
\* Discovery.

\* A tenant is tracked whole, for the sightings that do not show a board.
TrackedTenants == {t \in Mined : tenant[t].status # "absent" \/ harvested[t] # {}}
TrackedBoards ==
    {x \in Mined \X Boards : x[2] \in harvested[x[1]] \/ board[x[1]][x[2]] # "absent"}

StartCrawl ==
    /\ stage = "idle" /\ stage' = "mine"
    /\ tracked' = TrackedBoards \cup TrackedTenants \X {HostOnly}
    /\ UNCHANGED <<tenant, board, todo, left, txn, harvested, aux_valid>> /\ Quiet /\ Calm

\* An archived URL shows a board, or only the host where its path is a locale or
\* names a page (job, apply).
Parsed(t) == {<<t, b>> : b \in Boards} \cup {<<t, HostOnly>>}

\* The sightings that are not tracked; an index that fails shows fewer.
CrawlIndexes == UNION {Parsed(t) : t \in Mined} \ tracked

\* The tenants that the name or the ticker of a listed company spells; of one
\* that answers, the redirect shows the host.
Slugs(S) == Mined \ {x[1] : x \in S \cup (tracked \cap Mined \X {HostOnly})}
ProbeSlug(t) == <<t, HostOnly>>
EdgarProbes(S) == {ProbeSlug(t) : t \in Slugs(S)}

\* All the boards survive; a bare host only where no board was seen.
Merged(S) == {x \in S : x[2] \in Boards \/ ~\E b \in Boards : <<x[1], b>> \in S}

Mine ==
    /\ stage = "mine" /\ stage' = "save"
    /\ \E S \in SUBSET CrawlIndexes : \E E \in SUBSET EdgarProbes(S) : todo' = Merged(S \cup E)
    /\ tracked' = {}
    /\ UNCHANGED <<tenant, board, left, txn, harvested, aux_valid>> /\ Quiet /\ Calm

\* The rows of one transaction, each of which may fail: a failure rolls back
\* the rows before it, and the loop goes on with those after it.
Survive(rows) ==
    {kept \in SUBSET rows : kept = rows \/ crashes < MaxCrashes}
Counted(kept, rows) == crashes' = IF kept = rows THEN crashes ELSE crashes + 1

\* One locator for each tenant: a board it was first seen with, if there is one.
Primary(t) == {x[2] : x \in {y \in todo : y[1] = t}}

SaveTenants ==
    /\ stage = "save" /\ stage' = "record"
    /\ LET new == {t \in {x[1] : x \in todo} : tenant[t].status = "absent"}
       IN  \E kept \in Survive(new) : \E seen \in [kept -> Boards \cup {HostOnly}] :
              /\ \A t \in kept : seen[t] \in Primary(t)
              /\ tenant' = [t \in Mined |-> IF t \in kept
                                THEN [status |-> "pending", server |-> seen[t]] ELSE tenant[t]]
              /\ Counted(kept, new)
    /\ UNCHANGED <<board, tracked, todo, left, txn, harvested, aux_valid>> /\ Quiet

Pending == {<<t, tenant[t].server>> : t \in {u \in Mined : tenant[u].status = "pending"}}

\* Then every board sighted; validation loads the tenants still pending.
SaveBoards ==
    /\ stage = "record" /\ stage' = "validate"
    /\ LET new == {x \in todo : x[2] \in Boards}
       IN  \E kept \in Survive(new) :
              /\ board' = [t \in Mined |-> [b \in Boards |->
                    IF <<t, b>> \in kept /\ board[t][b] = "absent" THEN "pending" ELSE board[t][b]]]
              /\ Counted(kept, new)
    /\ todo' = Pending
    /\ UNCHANGED <<tenant, tracked, left, txn, harvested, aux_valid>> /\ Quiet

-----------------------------------------------------------------------------
\* Validation.

\* The boards that answer with postings, and those with some in the country.
Live(t) == site[t] \cup Foreign
InCountry(t) == site[t]

Accepted == {"active", "no_target_jobs"}

\* What the count of a sample says of a board.
CountJobs(t, b) ==
    CASE b \notin InCountry(t) -> "unreachable"
      [] b \in InCountry(t) \cap Barren -> "no_target_jobs"
      [] OTHER -> "active"

\* The board the tenant's row settles on: the known one, or a common one.
FindBoard(t, s) == IF s \in Live(t) THEN {s} ELSE Live(t) \cap Common

\* Afterwards all boards are probed that are known, recorded or common.
Recorded(t) == {b \in Boards : board[t][b] # "absent"}
BoardsToTry(t, s) == {s} \cup Recorded(t) \cup Common
AllBoards(t, s) == Live(t) \cap BoardsToTry(t, s)

Update(t, status, s) == tenant' = [tenant EXCEPT ![t] = [status |-> status, server |-> s]]

\* Only the tenant's row is committed; its boards are recorded one by one next.
\* A board is accepted for an opening in the country, whatever its role: the
\* nightly crawl judges the roles, posting by posting.
ValidateTenant ==
    /\ stage = "validate" /\ left = {}
    /\ \E x \in todo :
          LET t == x[1]  s == x[2] IN
          /\ todo' = todo \ {x}
          /\ \/ \E b \in FindBoard(t, s) :
                   /\ Update(t, CountJobs(t, b), b)
                   /\ left' = {<<t, c, CountJobs(t, c)>> : c \in AllBoards(t, b) \cup {b}}
                   /\ aux_valid' = [aux_valid EXCEPT ![t] =
                         @ \cup {y[2] : y \in {z \in left' : z[3] \in Accepted}}]
             \/ /\ FindBoard(t, s) = {} /\ Update(t, "unreachable", s)
                /\ UNCHANGED <<left, aux_valid>>
    /\ UNCHANGED <<board, stage, tracked, txn, harvested>> /\ Quiet /\ Calm

\* The probes of a tenant fail: it is unreachable, and never tried again; or an
\* exception leaves it pending.
FailTenant ==
    /\ stage = "validate" /\ left = {} /\ Failing
    /\ \E x \in todo :
          /\ todo' = todo \ {x}
          /\ Update(x[1], "unreachable", x[2]) \/ UNCHANGED tenant
    /\ UNCHANGED <<board, stage, tracked, left, txn, harvested, aux_valid>> /\ Quiet

RecordBoard ==
    /\ stage = "validate"
    /\ \E y \in left :
          /\ left' = left \ {y}
          /\ \/ board' = [board EXCEPT ![y[1]][y[2]] = y[3]] /\ Calm
             \/ UNCHANGED board /\ Failing
    /\ UNCHANGED <<tenant, stage, tracked, todo, txn, harvested, aux_valid>> /\ Quiet

-----------------------------------------------------------------------------
\* Integration: one transaction, first the tenants' boards, then all boards.

ReadyTenants ==
    {<<t, tenant[t].server>> :
        t \in {u \in Mined : tenant[u].status \in Accepted /\ tenant[u].server \in Boards}}
ReadyBoards == {x \in Mined \X Boards : board[x[1]][x[2]] \in Accepted}

LoadTenants ==
    /\ stage = "validate" /\ todo = {} /\ left = {}
    /\ stage' = "tenants" /\ todo' = ReadyTenants
    /\ UNCHANGED <<tenant, board, tracked, left, txn, harvested, aux_valid>> /\ Quiet /\ Calm

LoadBoards ==
    /\ stage = "tenants" /\ todo = {}
    /\ stage' = "boards" /\ todo' = ReadyBoards
    /\ UNCHANGED <<tenant, board, tracked, left, txn, harvested, aux_valid>> /\ Quiet /\ Calm

\* A row that fails takes the rows before it along.
RollBack == txn' = {}

IntegrateRow ==
    /\ stage \in {"tenants", "boards"}
    /\ \E x \in todo :
          /\ todo' = todo \ {x}
          /\ \/ txn' = txn \cup {<<stage, x[1], x[2]>>} /\ Calm
             \/ RollBack /\ Failing
    /\ UNCHANGED <<tenant, board, stage, tracked, left, harvested, aux_valid>> /\ Quiet

Commit ==
    /\ stage = "boards" /\ todo = {}
    /\ harvested' = [t \in Tenants |-> harvested[t] \cup {x[3] : x \in {y \in txn : y[2] = t}}]
    /\ tenant' = [t \in Mined |-> IF <<"tenants", t, tenant[t].server>> \in txn
                      THEN [tenant[t] EXCEPT !.status = "integrated"] ELSE tenant[t]]
    /\ board' = [t \in Mined |-> [b \in Boards |->
                    IF <<"boards", t, b>> \in txn THEN "integrated" ELSE board[t][b]]]
    /\ txn' = {} /\ stage' = "idle"
    /\ UNCHANGED <<tracked, todo, left, aux_valid>> /\ Quiet /\ Calm

\* A task fails; the next run of the DAG starts from the tables.
CrawlCrash ==
    /\ stage # "idle" /\ Failing
    /\ stage' = "idle" /\ tracked' = {} /\ todo' = {} /\ left' = {} /\ txn' = {}
    /\ UNCHANGED <<tenant, board, harvested, aux_valid>> /\ Quiet

CrawlStep ==
    \/ StartCrawl \/ Mine \/ SaveTenants \/ SaveBoards
    \/ ValidateTenant \/ RecordBoard
    \/ LoadTenants \/ LoadBoards \/ IntegrateRow \/ Commit

-----------------------------------------------------------------------------

BothInit == Init /\ CrawlInit
RegistryNext == Next /\ UNCHANGED crawl
CrawlNext == CrawlStep \/ FailTenant \/ CrawlCrash
BothSpec ==
    /\ BothInit /\ [][RegistryNext \/ CrawlNext]_allVars
    /\ Fairness /\ WF_allVars(CrawlStep)

-----------------------------------------------------------------------------

CrawlTypeOK ==
    /\ tenant \in [Mined -> [status : BoardStatus, server : Locator]]
    /\ board \in [Mined -> [Boards -> BoardStatus]]
    /\ stage \in Stages /\ tracked \subseteq Locations /\ todo \subseteq Locations
    /\ left \subseteq Mined \X Boards \X BoardStatus
    /\ txn \subseteq {"tenants", "boards"} \X Mined \X Boards

\* A board the validation counted openings in the country at, and what is
\* marked as integrated.
AcceptedBoard(t, b) ==
    \/ board[t][b] \in Accepted \cup {"integrated"}
    \/ tenant[t].status \in Accepted \cup {"integrated"} /\ tenant[t].server = b

\* Whatever the validations accept is harvested in the end, siblings included,
\* whichever rows fail and roll back others and whichever tasks are repeated;
\* and so is a candidate of the registry whose board keeps a target opening,
\* unless its row lost the way to it or older rows crowd it out (OpenIsHarvested).
FoundIsHarvested ==
    /\ OpenIsHarvested
    /\ []<>\A t \in Mined, b \in Boards : AcceptedBoard(t, b) => b \in harvested[t]
=============================================================================
