--------------------------- MODULE CandidatesProofs ---------------------------
(***************************************************************************)
(* What holds of the registry of ATS tenants for any tenants, boards,      *)
(* lanes and quotas.  The invariant follows a validated locator through    *)
(* the two hands it passes: an active row names a locator that a           *)
(* validation saw, whatever the discoverers have written since, and so     *)
(* does every row an integration has read.  The last part adds the weekly  *)
(* crawl of Workday boards, which fills the same table of companies.       *)
(***************************************************************************)
EXTENDS BoardCrawl, TLAPS

\* Row r of tenant t, of which validations saw the locators in valid.
RowSafe(t, r, valid) ==
    /\ r.status = "active" => Token(t, r.server) \subseteq valid /\ (t \in Located => r.server \in Boards)
    /\ r.status = "absent" => r.server = NoServer

RowsSafe == \A t \in Tenants : RowSafe(t, cand[t], aux_valid[t])
ReadySafe == \A l \in Lanes : \A r \in ready[l] : Token(r[1], r[2]) \subseteq aux_valid[r[1]]
SitesTyped == \A t \in Tenants : site[t] \subseteq SiteBoards(t)

Inv == TypeOK /\ RowsSafe /\ ReadySafe /\ SitesTyped /\ HarvestedWasValidated

\* What BoardsRemembered says of one row.
Remembers(t) ==
    cand[t].server \in Boards /\ cand'[t].server \notin Boards =>
        cand'[t].status = "unreachable" /\ \E l \in Lanes : pc[l] = "validate"

LEMMA AbsentIsRow == Absent \in Row /\ (\A t, v : RowSafe(t, Absent, v))
<1>1. Absent \in Row
  BY LanesAssumption, SMT DEF Absent, Row, Locator, Status
<1>2. Absent.status = "absent" /\ Absent.server = NoServer
  BY DEF Absent
<1> HIDE DEF Absent
<1>3. ASSUME NEW t, NEW v PROVE RowSafe(t, Absent, v)
  BY <1>2 DEF RowSafe
<1> QED
  BY <1>1, <1>3

LEMMA InitInv == Init => Inv
<1> SUFFICES ASSUME Init PROVE Inv
  OBVIOUS
<1>1. TypeOK
  <2>1. order \in Seq(Tenants)
    BY DEF Init
  <2>2. /\ cand \in [Tenants -> Row]
        /\ harvested \in [Tenants -> SUBSET (Boards \cup {Whole})]
        /\ aux_valid \in [Tenants -> SUBSET (Boards \cup {Whole})]
        /\ pend \in [Lanes -> SUBSET (Tenants \X Locator)]
        /\ ready \in [Lanes -> SUBSET (Tenants \X Locator)]
        /\ known \in [Lanes -> SUBSET Tenants]
        /\ pc \in [Lanes -> {"idle", "discover", "validate", "integrate"}]
    BY AbsentIsRow DEF Init
  <2>3. ran \in BOOLEAN
    BY DEF Init
  <2>4. changes = 0 /\ crashes = 0 /\ 0 \in 0..MaxChanges /\ 0 \in 0..MaxCrashes
    BY LanesAssumption DEF Init
  <2> QED
    BY <2>1, <2>2, <2>3, <2>4 DEF Init, TypeOK
<1>2. RowsSafe /\ ReadySafe /\ SitesTyped /\ HarvestedWasValidated
  BY AbsentIsRow DEF Init, RowsSafe, ReadySafe, SitesTyped, HarvestedWasValidated
<1> QED
  BY <1>1, <1>2 DEF Inv

\* A row stays a row when one of its columns is replaced.
LEMMA ColumnStays ==
  ASSUME NEW r \in Row
  PROVE  /\ \A s \in Status : [r EXCEPT !.status = s] \in Row
         /\ \A s \in Locator : [r EXCEPT !.server = s] \in Row
         /\ \A n \in 0..StaleDays : [r EXCEPT !.age = n] \in Row
<1>1. \A s \in Status : [r EXCEPT !.status = s] \in Row
  BY SMT DEF Row
<1>2. \A s \in Locator : [r EXCEPT !.server = s] \in Row
  BY SMT DEF Row
<1>3. \A n \in 0..StaleDays : [r EXCEPT !.age = n] \in Row
  BY SMT DEF Row
<1> QED
  BY <1>1, <1>2, <1>3

\* What makes a row.
LEMMA RowOf ==
  ASSUME NEW y \in Status, NEW x \in Locator, NEW a \in 0..StaleDays
  PROVE  LET n == [status |-> y, server |-> x, age |-> a]
         IN  n \in Row /\ n.server = x /\ n.status = y
  BY DEF Row

\* An active row names a locator: its token is that locator.
LEMMA TokenOfBoard ==
  ASSUME NEW t \in Tenants, NEW s
  PROVE  /\ t \in Located /\ s \in Boards => Token(t, s) = {s}
         /\ t \notin Located => Token(t, s) = {Whole}
<1>1. ASSUME t \in Workday, s \in Boards PROVE Token(t, s) = {s}
  BY <1>1, SystemsAssumption, LocatorsAssumption, Zenon DEF Token
<1>2. ASSUME t \in Eightfold \cup Oracle, s \in Boards PROVE Token(t, s) = {s}
  <2>1. t \notin Workday /\ s # NoServer
    BY <1>2, SystemsAssumption, LocatorsAssumption
  <2>2. Token(t, s) = {s} \ {NoServer}
    BY <1>2, <2>1, Zenon DEF Token
  <2> QED
    BY <2>1, <2>2
<1>3. ASSUME t \notin Located PROVE Token(t, s) = {Whole}
  BY <1>3, Zenon DEF Token, Located
<1> QED
  BY <1>1, <1>2, <1>3 DEF Located

-----------------------------------------------------------------------------
\* A step that writes one row and at most adds to what validations saw.

LEMMA RowStep ==
  ASSUME Inv, NEW t \in Tenants, NEW new \in Row, cand' = [cand EXCEPT ![t] = new],
         UNCHANGED <<harvested, site, changes, ran>>, buffer' \subseteq buffer,
         aux_valid' \in [Tenants -> SUBSET (Boards \cup {Whole})],
         \A u \in Tenants : aux_valid[u] \subseteq aux_valid'[u],
         RowSafe(t, new, aux_valid'[t]),
         order' \in Seq(Tenants),
         pc' \in [Lanes -> {"idle", "discover", "validate", "integrate"}],
         known' \in [Lanes -> SUBSET Tenants],
         pend' \in [Lanes -> SUBSET (Tenants \X Locator)], UNCHANGED ready,
         crashes' \in 0..MaxCrashes,
         Remembers(t)
  PROVE  Inv' /\ \A u \in Tenants : Remembers(u)
<1>1. \A u \in Tenants : cand'[u] = IF u = t THEN new ELSE cand[u]
  BY DEF Inv, TypeOK
<1>2. TypeOK'
  BY DEF Inv, TypeOK
<1>3. RowsSafe'
  <2>1. ASSUME NEW u \in Tenants PROVE RowSafe(u, cand'[u], aux_valid'[u])
    <3>1. CASE u = t
      BY <3>1, <1>1
    <3>2. CASE u # t
      BY <3>2, <1>1 DEF Inv, RowsSafe, RowSafe
    <3> QED
      BY <3>1, <3>2
  <2> QED
    BY <2>1 DEF RowsSafe
<1>4. ReadySafe'
  <2>1. ASSUME NEW l \in Lanes, NEW r \in ready[l] PROVE Token(r[1], r[2]) \subseteq aux_valid'[r[1]]
    <3>1. r[1] \in Tenants
      BY DEF Inv, TypeOK
    <3>2. Token(r[1], r[2]) \subseteq aux_valid[r[1]]
      BY DEF Inv, ReadySafe
    <3> QED
      BY <3>1, <3>2
  <2> QED
    BY <2>1 DEF ReadySafe
<1>5. SitesTyped' /\ HarvestedWasValidated'
  BY DEF Inv, SitesTyped, HarvestedWasValidated
<1>6. ASSUME NEW u \in Tenants PROVE Remembers(u)
  <2>1. CASE u = t
    BY <2>1
  <2>2. CASE u # t
    BY <2>2, <1>1 DEF Remembers
  <2> QED
    BY <2>1, <2>2
<1> QED
  BY <1>2, <1>3, <1>4, <1>5, <1>6 DEF Inv

\* A step that writes no row.
LEMMA RowsStay ==
  ASSUME Inv, UNCHANGED cand PROVE \A u \in Tenants : Remembers(u)
  BY DEF Remembers

-----------------------------------------------------------------------------
\* Discovery.

LEMMA AppendedOK == ASSUME Inv, NEW t \in Tenants PROVE Appended(t) \in Seq(Tenants)
<1>1. order \in Seq(Tenants)
  BY DEF Inv, TypeOK
<1>2. Append(order, t) \in Seq(Tenants)
  BY <1>1
<1> QED
  BY <1>1, <1>2 DEF Appended

LEMMA SightingsTyped == ASSUME NEW t \in Tenants PROVE Sightings(t) \subseteq Locator
  BY DEF Sightings, CertificateLogs, SlugProbes, SearchResults, Sitemaps, LinkedInSnippets, Locator

LEMMA NewOK ==
  ASSUME NEW t \in Tenants, NEW s \in Locator, NEW v
  PROVE  New(s) \in Row /\ New(s).status = "pending" /\ New(s).server = s /\ RowSafe(t, New(s), v)
<1>1. New(s) = [status |-> "pending", server |-> s, age |-> StaleDays]
  BY DEF New
<1>2. "pending" \in Status /\ StaleDays \in 0..StaleDays
  BY LanesAssumption DEF Status
<1>3. New(s) \in Row /\ New(s).status = "pending" /\ New(s).server = s
  BY <1>1, <1>2 DEF Row
<1> QED
  BY <1>3 DEF RowSafe

LEMMA UpsertedOK ==
  ASSUME Inv, NEW t \in Tenants, NEW s \in Locator
  PROVE  /\ Upserted(cand[t], s) \in Row
         /\ RowSafe(t, Upserted(cand[t], s), aux_valid[t])
         /\ cand[t].server \in Boards => Upserted(cand[t], s).server \in Boards
<1>1. cand[t] \in Row /\ RowSafe(t, cand[t], aux_valid[t])
  BY DEF Inv, TypeOK, RowsSafe
<1>2. CASE cand[t].status = "absent"
  <2>1. Upserted(cand[t], s) = New(s)
    BY <1>2 DEF Upserted
  <2>2. cand[t].server \notin Boards
    BY <1>1, <1>2, LocatorsAssumption DEF RowSafe
  <2> QED
    BY <2>1, <2>2, NewOK
<1>3. CASE cand[t].status # "absent"
  <2> DEFINE x == ServerAfter(cand[t], s)
             y == StatusAfter(cand[t], s)
             n == Upserted(cand[t], s)
  <2>1. n = [status |-> y, server |-> x, age |-> cand[t].age]
    BY <1>3 DEF Upserted
  <2>2. cand[t].server \in Locator /\ cand[t].status \in Status
    BY <1>1 DEF Row
  <2>3. x \in Locator /\ y \in Status
    BY <2>2 DEF ServerAfter, StatusAfter, Status
  <2>4. cand[t].server \in Boards => x \in Boards
    BY DEF ServerAfter, Locator
  <2>5. y = "active" =>
           /\ cand[t].status = "active"
           /\ cand[t].server \in Boards => x = cand[t].server
    BY LocatorsAssumption DEF ServerAfter, StatusAfter, Locator
  <2>6. y # "absent"
    BY <1>3 DEF StatusAfter
  <2>0. cand[t].age \in 0..StaleDays
    BY <1>1 DEF Row
  <2> HIDE DEF x, y, n
  <2>7. n \in Row /\ n.server = x /\ n.status = y
    BY <2>0, <2>1, <2>3, RowOf
  <2>8. RowSafe(t, n, aux_valid[t])
    <3>1. SUFFICES ASSUME y = "active"
                   PROVE  Token(t, x) \subseteq aux_valid[t] /\ (t \in Located => x \in Boards)
      BY <2>6, <2>7 DEF RowSafe
    <3>2. Token(t, cand[t].server) \subseteq aux_valid[t] /\ (t \in Located => cand[t].server \in Boards)
      BY <3>1, <2>5, <1>1 DEF RowSafe
    <3>3. CASE t \in Located
      BY <3>1, <3>2, <3>3, <2>5
    <3>4. CASE t \notin Located
      BY <3>2, <3>4, TokenOfBoard
    <3> QED
      BY <3>3, <3>4
  <2> QED
    BY <2>4, <2>7, <2>8 DEF n
<1> QED
  BY <1>2, <1>3

LEMMA DiscoverSafe ==
  ASSUME Inv, NEW l \in Lanes, NEW t \in Tenants, Discover(l, t)
  PROVE  Inv' /\ \A u \in Tenants : Remembers(u)
<1>1. PICK s \in Sightings(t) :
        /\ cand' = [cand EXCEPT ![t] = Upserted(cand[t], s)]
        /\ known' \in {known, [known EXCEPT ![l] = @ \cup {t}]}
  BY DEF Discover
<1>2. s \in Locator
  BY SightingsTyped
<1> DEFINE new == Upserted(cand[t], s)
<1>3. /\ new \in Row /\ RowSafe(t, new, aux_valid[t])
      /\ cand[t].server \in Boards => new.server \in Boards
  BY <1>2, UpsertedOK
<1> HIDE DEF new
<1>4. /\ UNCHANGED <<buffer, harvested, pc, pend, ready, site, ran, changes, crashes, aux_valid>>
      /\ order' = Appended(t)
  BY DEF Discover, world
<1>5. cand' = [cand EXCEPT ![t] = new]
  BY <1>1 DEF new
<1>6. cand'[t] = new
  BY <1>5 DEF Inv, TypeOK
<1>7. Remembers(t)
  BY <1>3, <1>6 DEF Remembers
<1>8. known' \in [Lanes -> SUBSET Tenants]
  BY <1>1 DEF Inv, TypeOK
<1>9. order' \in Seq(Tenants)
  BY <1>4, AppendedOK
<1>10. /\ pc' \in [Lanes -> {"idle", "discover", "validate", "integrate"}]
       /\ pend' \in [Lanes -> SUBSET (Tenants \X Locator)] /\ crashes' \in 0..MaxCrashes
       /\ aux_valid' \in [Tenants -> SUBSET (Boards \cup {Whole})]
  BY <1>4 DEF Inv, TypeOK
<1>11. RowSafe(t, new, aux_valid'[t]) /\ \A u \in Tenants : aux_valid[u] \subseteq aux_valid'[u]
  BY <1>3, <1>4
<1> QED
  BY <1>3, <1>4, <1>5, <1>7, <1>8, <1>9, <1>10, <1>11, RowStep

\* A row that a discoverer inserts.
LEMMA InsertSafe ==
  ASSUME Inv, NEW t \in Tenants, NEW s \in Locator, Insert(t, s), buffer' \subseteq buffer,
         UNCHANGED <<harvested, pc, known, pend, ready, site, ran, changes, crashes, aux_valid>>
  PROVE  Inv' /\ \A u \in Tenants : Remembers(u)
<1> DEFINE new == New(s)
<1>1. new \in Row /\ RowSafe(t, new, aux_valid[t])
  BY NewOK
<1>2. cand[t].server \notin Boards
  BY LocatorsAssumption DEF Insert, Inv, RowsSafe, RowSafe
<1> HIDE DEF new
<1>3. cand' = [cand EXCEPT ![t] = new] /\ order' = Appended(t)
  BY DEF Insert, new
<1>4. Remembers(t)
  BY <1>2 DEF Remembers
<1>5. order' \in Seq(Tenants)
  BY <1>3, AppendedOK
<1>6. /\ pc' \in [Lanes -> {"idle", "discover", "validate", "integrate"}]
      /\ known' \in [Lanes -> SUBSET Tenants]
      /\ pend' \in [Lanes -> SUBSET (Tenants \X Locator)] /\ crashes' \in 0..MaxCrashes
      /\ aux_valid' \in [Tenants -> SUBSET (Boards \cup {Whole})]
  BY DEF Inv, TypeOK
<1>7. RowSafe(t, new, aux_valid'[t]) /\ \A u \in Tenants : aux_valid[u] \subseteq aux_valid'[u]
  BY <1>1
<1> QED
  BY <1>1, <1>3, <1>4, <1>5, <1>6, <1>7, RowStep

LEMMA StagingSafe ==
  ASSUME Inv, NEW t \in Tenants, Staging(t)
  PROVE  Inv' /\ \A u \in Tenants : Remembers(u)
<1>1. NoServer \in Locator /\ SplitLocators(t) \subseteq Locator
  BY DEF Locator, SplitLocators
<1>2. PICK s \in Locator : Stage(t, s)
  BY <1>1 DEF Staging, StageYc, StageCrawled, StageRedirect, StageCareerPage
<1>3. /\ Insert(t, s) /\ buffer' \subseteq buffer
      /\ UNCHANGED <<harvested, pc, known, pend, ready, site, ran, changes, crashes, aux_valid>>
  BY <1>2 DEF Stage, lanes, world
<1> QED
  BY <1>3, InsertSafe

\* The board discoverers: what they buffer is a tenant, what they save is a
\* row that was not there.
LEMMA BufferSafe ==
  ASSUME Inv, buffer' \subseteq Tenants, crashes' \in 0..MaxCrashes,
         UNCHANGED <<cand, order, harvested, pc, known, pend, ready, site, ran, changes, aux_valid>>
  PROVE  Inv' /\ \A u \in Tenants : Remembers(u)
<1>1. TypeOK'
  BY DEF Inv, TypeOK
<1>2. RowsSafe' /\ ReadySafe' /\ SitesTyped' /\ HarvestedWasValidated'
  BY DEF Inv, RowsSafe, ReadySafe, SitesTyped, HarvestedWasValidated
<1> QED
  BY <1>1, <1>2, RowsStay DEF Inv

LEMMA ProbeBoardSafe ==
  ASSUME Inv, NEW t \in Tenants, ProbeBoard(t)
  PROVE  Inv' /\ \A u \in Tenants : Remembers(u)
<1>1. /\ UNCHANGED <<cand, order, harvested, pc, known, pend, ready, site, ran, changes, crashes, aux_valid>>
      /\ buffer' = buffer \cup {t}
  BY DEF ProbeBoard, lanes
<1>2. buffer' \subseteq Tenants /\ crashes' \in 0..MaxCrashes
  BY <1>1 DEF Inv, TypeOK
<1> QED
  BY <1>1, <1>2, BufferSafe

LEMMA SaveBoardSafe ==
  ASSUME Inv, NEW t \in Tenants, SaveBoard(t)
  PROVE  Inv' /\ \A u \in Tenants : Remembers(u)
<1>1. /\ UNCHANGED <<harvested, pc, known, pend, ready, site, ran, changes, crashes, aux_valid>>
      /\ buffer' \subseteq buffer
      /\ Insert(t, NoServer) \/ UNCHANGED <<cand, order>>
  BY DEF SaveBoard, lanes
<1>2. buffer' \subseteq Tenants /\ crashes' \in 0..MaxCrashes /\ NoServer \in Locator
  BY <1>1 DEF Inv, TypeOK, Locator
<1>3. CASE Insert(t, NoServer)
  BY <1>1, <1>2, <1>3, InsertSafe
<1>4. CASE UNCHANGED <<cand, order>>
  BY <1>1, <1>2, <1>4, BufferSafe
<1> QED
  BY <1>1, <1>3, <1>4

LEMMA LoseBoardsSafe ==
  ASSUME Inv, LoseBoards
  PROVE  Inv' /\ \A u \in Tenants : Remembers(u)
<1>1. /\ UNCHANGED <<cand, order, harvested, pc, known, pend, ready, site, ran, changes, aux_valid>>
      /\ buffer' \subseteq buffer /\ crashes < MaxCrashes /\ crashes' = crashes + 1
  BY DEF LoseBoards, lanes
<1>2. buffer' \subseteq Tenants /\ crashes' \in 0..MaxCrashes
  BY <1>1, LanesAssumption DEF Inv, TypeOK
<1> QED
  BY <1>1, <1>2, BufferSafe

LEMMA RoutedOK ==
  ASSUME Inv, NEW t \in Tenants, NEW s \in Boards \cup {NoServer}
  PROVE  /\ Routed(cand[t], s) \in Row
         /\ RowSafe(t, Routed(cand[t], s), aux_valid[t])
         /\ cand[t].server \in Boards => Routed(cand[t], s).server \in Boards
<1>0. s \in Locator
  BY DEF Locator
<1>1. cand[t] \in Row /\ RowSafe(t, cand[t], aux_valid[t])
  BY DEF Inv, TypeOK, RowsSafe
<1>2. CASE cand[t].status = "absent"
  <2>1. Routed(cand[t], s) = New(s)
    BY <1>2 DEF Routed
  <2>2. cand[t].server \notin Boards
    BY <1>1, <1>2, LocatorsAssumption DEF RowSafe
  <2> QED
    BY <1>0, <2>1, <2>2, NewOK
<1>3. CASE cand[t].status # "absent"
  <2> DEFINE x == IF s = NoServer THEN cand[t].server ELSE s
             y == IF cand[t].status = "integrated" THEN "integrated" ELSE "pending"
             n == Routed(cand[t], s)
  <2>1. n = [status |-> y, server |-> x, age |-> cand[t].age]
    BY <1>3 DEF Routed
  <2>2. cand[t].server \in Locator /\ cand[t].age \in 0..StaleDays
    BY <1>1 DEF Row
  <2>3. x \in Locator /\ y \in Status /\ y \notin {"absent", "active"}
    BY <1>0, <2>2 DEF Status
  <2>4. cand[t].server \in Boards => x \in Boards
    BY LocatorsAssumption
  <2> HIDE DEF x, y, n
  <2>5. n \in Row /\ n.server = x /\ n.status = y
    BY <2>1, <2>2, <2>3, RowOf
  <2>6. RowSafe(t, n, aux_valid[t])
    BY <2>3, <2>5 DEF RowSafe
  <2> QED
    BY <2>4, <2>5, <2>6 DEF n
<1> QED
  BY <1>2, <1>3

LEMMA RouteSafe ==
  ASSUME Inv, NEW l \in Lanes, NEW t \in Tenants, Route(l, t)
  PROVE  Inv' /\ \A u \in Tenants : Remembers(u)
<1>1. PICK s \in Boards \cup {NoServer} : cand' = [cand EXCEPT ![t] = Routed(cand[t], s)]
  BY DEF Route
<1> DEFINE new == Routed(cand[t], s)
<1>2. /\ new \in Row /\ RowSafe(t, new, aux_valid[t])
      /\ cand[t].server \in Boards => new.server \in Boards
  BY RoutedOK
<1> HIDE DEF new
<1>3. cand' = [cand EXCEPT ![t] = new]
  BY <1>1 DEF new
<1>4. /\ UNCHANGED <<buffer, harvested, pc, pend, ready, site, ran, changes, crashes, aux_valid>>
      /\ order' = Appended(t) /\ known' = [known EXCEPT ![l] = @ \cup {t}]
  BY DEF Route, world
<1>5. cand'[t] = new
  BY <1>3 DEF Inv, TypeOK
<1>6. Remembers(t)
  BY <1>2, <1>5 DEF Remembers
<1>7. order' \in Seq(Tenants)
  BY <1>4, AppendedOK
<1>8. /\ pc' \in [Lanes -> {"idle", "discover", "validate", "integrate"}]
      /\ known' \in [Lanes -> SUBSET Tenants]
      /\ pend' \in [Lanes -> SUBSET (Tenants \X Locator)] /\ crashes' \in 0..MaxCrashes
      /\ aux_valid' \in [Tenants -> SUBSET (Boards \cup {Whole})]
  BY <1>4 DEF Inv, TypeOK
<1>9. RowSafe(t, new, aux_valid'[t]) /\ \A u \in Tenants : aux_valid[u] \subseteq aux_valid'[u]
  BY <1>2, <1>4
<1> QED
  BY <1>2, <1>3, <1>4, <1>6, <1>7, <1>8, <1>9, RowStep

-----------------------------------------------------------------------------
\* Validation.

\* A verdict that accepts a row names a board of the tenant; one that leaves
\* only the host rejects it as unreachable.
LEMMA VerdictOK ==
  ASSUME Inv, NEW t \in Tenants, NEW s \in Locator, NEW v \in Verdicts(t, s)
  PROVE  /\ v.status \in Status \ {"absent"} /\ v.server \in Locator
         /\ v.status = "active" /\ t \in Located => v.server \in Boards
         /\ v.server = HostOnly => v.status = "unreachable"
<1>1. site[t] \subseteq SiteBoards(t)
  BY DEF Inv, SitesTyped
<1>2. NoServer \in Locator /\ HostOnly \in Locator /\ Boards \subseteq Locator
  BY DEF Locator
<1>3. CASE t \in Unsupported
  <2>1. Verdicts(t, s) = Verdict({"unsupported"}, NoServer)
    BY <1>3, Zenon DEF Verdicts
  <2>2. v.status = "unsupported" /\ v.server = NoServer
    BY <2>1 DEF Verdict
  <2> QED
    BY <1>2, <2>2, LocatorsAssumption DEF Status
<1>4. CASE t \notin Unsupported /\ Probed(t, s) = {}
  <2>1. Verdicts(t, s) = Verdict(IF t \in Eightfold THEN Rejected ELSE {"unreachable"}, Resolved(t, s))
    BY <1>4, Zenon DEF Verdicts
  <2>2. /\ v.status \in IF t \in Eightfold THEN Rejected ELSE {"unreachable"}
        /\ v.server = Resolved(t, s)
    BY <2>1 DEF Verdict
  <2>3. Resolved(t, s) \in {NoServer, HostOnly}
    BY Zenon DEF Resolved
  <2>4. Resolved(t, s) = HostOnly => t \in Workday
    BY LocatorsAssumption, Zenon DEF Resolved
  <2>5. v.status \in Rejected /\ (t \notin Eightfold => v.status = "unreachable")
    BY <2>2 DEF Rejected
  <2> QED
    BY <1>2, <2>2, <2>3, <2>4, <2>5, SystemsAssumption DEF Status, Rejected
<1>5. CASE t \notin Unsupported /\ Probed(t, s) # {}
  <2> DEFINE V(b) == Verdict(IF b \in Barren THEN Rejected ELSE {"active"},
                             IF t \in Located THEN b ELSE NoServer)
  <2>1. Verdicts(t, s) = UNION {V(b) : b \in Probed(t, s)}
    BY <1>5, Zenon DEF Verdicts
  <2>2. PICK b \in Probed(t, s) : v \in V(b)
    BY <2>1
  <2>3. /\ v.status \in IF b \in Barren THEN Rejected ELSE {"active"}
        /\ v.server = IF t \in Located THEN b ELSE NoServer
    BY <2>2 DEF Verdict
  <2>4. t \in Located => b \in Boards
    <3>1. SUFFICES ASSUME t \in Located PROVE b \in Boards
      OBVIOUS
    <3>2. site[t] \subseteq Boards /\ Common \subseteq Boards
      BY <1>1, <3>1, LocatorsAssumption DEF SiteBoards
    <3>3. CASE t \in Workday
      <4>0. t \notin Eightfold /\ t \notin Oracle
        BY <3>3, SystemsAssumption
      <4>1. Probed(t, s) = WorkdayBoards(t, s)
        BY <3>3, <4>0, Zenon DEF Probed
      <4> QED
        BY <3>2, <4>1 DEF WorkdayBoards
    <3>4. CASE t \in Eightfold
      <4>0. t \notin Workday /\ t \notin Oracle
        BY <3>4, SystemsAssumption
      <4>1. Probed(t, s) = EightfoldDomains(t)
        BY <3>4, <4>0, Zenon DEF Probed
      <4> QED
        BY <3>2, <4>1 DEF EightfoldDomains
    <3>5. CASE t \in Oracle
      <4>0. t \notin Workday /\ t \notin Eightfold
        BY <3>5, SystemsAssumption
      <4>1. Probed(t, s) = OracleSite(t, s)
        BY <4>0, <3>5, Zenon DEF Probed
      <4> QED
        BY <3>2, <4>1 DEF OracleSite
    <3> QED
      BY <3>1, <3>3, <3>4, <3>5 DEF Located
  <2>5. v.status \in Status \ {"absent"}
    BY <2>3 DEF Status, Rejected
  <2>6. v.server \in Boards \cup {NoServer} /\ (t \in Located => v.server \in Boards)
    BY <2>3, <2>4
  <2> QED
    BY <1>2, <2>5, <2>6, LocatorsAssumption
<1> QED
  BY <1>3, <1>4, <1>5

LEMMA ValidateSafe ==
  ASSUME Inv, NEW l \in Lanes, Validate(l)
  PROVE  Inv' /\ \A u \in Tenants : Remembers(u)
<1>1. PICK p \in pend[l] : \E v \in Verdicts(p[1], p[2]) :
          /\ cand' = [cand EXCEPT ![p[1]] =
                [status |-> v.status, server |-> NewServer(cand[p[1]], v), age |-> 0]]
          /\ aux_valid' = [aux_valid EXCEPT ![p[1]] =
                IF v.status # "active" THEN @
                ELSE @ \cup {IF p[1] \in Located THEN v.server ELSE Whole}]
          /\ pend' = [pend EXCEPT ![l] = @ \ {p}]
  BY DEF Validate
<1>2. p[1] \in Tenants /\ p[2] \in Locator
  BY DEF Inv, TypeOK
<1>3. PICK t \in Tenants, s \in Locator : t = p[1] /\ s = p[2]
  BY <1>2
<1>4. PICK v \in Verdicts(t, s) :
          /\ cand' = [cand EXCEPT ![t] =
                [status |-> v.status, server |-> NewServer(cand[t], v), age |-> 0]]
          /\ aux_valid' = [aux_valid EXCEPT ![t] =
                IF v.status # "active" THEN @
                ELSE @ \cup {IF t \in Located THEN v.server ELSE Whole}]
          /\ pend' = [pend EXCEPT ![l] = @ \ {p}]
  BY <1>1, <1>3
<1>5. /\ v.status \in Status \ {"absent"} /\ v.server \in Locator
      /\ v.status = "active" /\ t \in Located => v.server \in Boards
      /\ v.server = HostOnly => v.status = "unreachable"
  BY VerdictOK
<1> DEFINE x == NewServer(cand[t], v)
           new == [status |-> v.status, server |-> x, age |-> 0]
<1>6. cand[t] \in Row /\ cand[t].server \in Locator /\ 0 \in 0..StaleDays
  BY LanesAssumption DEF Inv, TypeOK, Row
<1>7. x \in Locator
  BY <1>5, <1>6 DEF NewServer
<1>8. x = IF v.server = NoServer THEN cand[t].server ELSE v.server
  BY DEF NewServer
<1> HIDE DEF x
<1>9. new \in Row /\ new.server = x /\ new.status = v.status
  BY <1>5, <1>6, <1>7, RowOf
<1> HIDE DEF new
<1>10. cand' = [cand EXCEPT ![t] = new]
  BY <1>4 DEF new, x
<1>11. cand'[t] = new
  BY <1>10 DEF Inv, TypeOK
<1>12. Remembers(t)
  <2>1. SUFFICES ASSUME cand[t].server \in Boards, x \notin Boards
                 PROVE  v.status = "unreachable" /\ pc[l] = "validate"
    BY <1>9, <1>11 DEF Remembers
  <2>2. v.server = HostOnly
    BY <1>5, <1>8, <2>1 DEF Locator
  <2> QED
    BY <1>5, <2>2 DEF Validate
<1>13. aux_valid' \in [Tenants -> SUBSET (Boards \cup {Whole})]
  BY <1>4, <1>5 DEF Inv, TypeOK
<1>14. /\ \A u \in Tenants : aux_valid[u] \subseteq aux_valid'[u]
       /\ v.status = "active" => (IF t \in Located THEN v.server ELSE Whole) \in aux_valid'[t]
  BY <1>4 DEF Inv, TypeOK
<1>15. RowSafe(t, new, aux_valid'[t])
  <2>1. SUFFICES ASSUME v.status = "active"
                 PROVE  Token(t, x) \subseteq aux_valid'[t] /\ (t \in Located => x \in Boards)
    BY <1>5, <1>9 DEF RowSafe
  <2>2. CASE t \in Located
    <3>1. v.server \in Boards /\ v.server \in aux_valid'[t]
      BY <2>1, <2>2, <1>5, <1>14
    <3>2. x = v.server
      BY <3>1, <1>8, LocatorsAssumption
    <3> QED
      BY <2>2, <3>1, <3>2, TokenOfBoard
  <2>3. CASE t \notin Located
    BY <2>1, <2>3, <1>14, TokenOfBoard
  <2> QED
    BY <2>2, <2>3
<1>16. UNCHANGED <<buffer, order, harvested, pc, known, ready, site, ran, changes, crashes>>
  BY DEF Validate, world
<1>17. /\ order' \in Seq(Tenants) /\ known' \in [Lanes -> SUBSET Tenants] /\ crashes' \in 0..MaxCrashes
       /\ pc' \in [Lanes -> {"idle", "discover", "validate", "integrate"}]
  BY <1>16 DEF Inv, TypeOK
<1>18. pend' \in [Lanes -> SUBSET (Tenants \X Locator)]
  BY <1>4 DEF Inv, TypeOK
<1> QED
  BY <1>9, <1>10, <1>12, <1>13, <1>14, <1>15, <1>16, <1>17, <1>18, RowStep

LEMMA FailProbeSafe ==
  ASSUME Inv, NEW l \in Lanes, FailProbe(l)
  PROVE  Inv' /\ \A u \in Tenants : Remembers(u)
<1>1. PICK p \in pend[l] :
          /\ cand' = [cand EXCEPT ![p[1]] =
                [status |-> "unreachable", server |-> NewServer(cand[p[1]], Unanswered(p[1], p[2])), age |-> 0]]
          /\ pend' = [pend EXCEPT ![l] = @ \ {p}]
  BY DEF FailProbe
<1>2. PICK t \in Tenants, s \in Locator : t = p[1] /\ s = p[2]
  BY DEF Inv, TypeOK
<1> DEFINE x == NewServer(cand[t], Unanswered(t, s))
           new == [status |-> "unreachable", server |-> x, age |-> 0]
<1>3. cand' = [cand EXCEPT ![t] = new]
  BY <1>1, <1>2
<1>4. x \in Locator
  <2>1. Unanswered(t, s).server \in {HostOnly, NoServer}
    BY DEF Unanswered
  <2>2. cand[t].server \in Locator
    BY DEF Inv, TypeOK, Row
  <2> QED
    BY <2>1, <2>2 DEF NewServer, Locator
<1>5. "unreachable" \in Status /\ 0 \in 0..StaleDays
  BY LanesAssumption DEF Status
<1> HIDE DEF x
<1>6. new \in Row /\ new.status = "unreachable"
  BY <1>4, <1>5, RowOf
<1> HIDE DEF new
<1>7. cand'[t] = new
  BY <1>3 DEF Inv, TypeOK
<1>8. Remembers(t)
  BY <1>6, <1>7 DEF Remembers, FailProbe
<1>9. /\ UNCHANGED <<buffer, order, harvested, pc, known, ready, site, ran, changes, aux_valid>>
      /\ crashes < MaxCrashes /\ crashes' = crashes + 1
  BY DEF FailProbe
<1>10. crashes' \in 0..MaxCrashes
  BY <1>9, LanesAssumption DEF Inv, TypeOK
<1>11. /\ order' \in Seq(Tenants) /\ known' \in [Lanes -> SUBSET Tenants]
       /\ pc' \in [Lanes -> {"idle", "discover", "validate", "integrate"}]
       /\ aux_valid' \in [Tenants -> SUBSET (Boards \cup {Whole})]
       /\ \A u \in Tenants : aux_valid[u] \subseteq aux_valid'[u]
  BY <1>9 DEF Inv, TypeOK
<1>12. pend' \in [Lanes -> SUBSET (Tenants \X Locator)]
  BY <1>1 DEF Inv, TypeOK
<1>13. RowSafe(t, new, aux_valid'[t])
  BY <1>6 DEF RowSafe
<1> QED
  BY <1>3, <1>6, <1>8, <1>9, <1>10, <1>11, <1>12, <1>13, RowStep

-----------------------------------------------------------------------------
\* Integration, failures and the world.

\* The steps of a lane that write no row.
LEMMA LaneSafe ==
  ASSUME Inv, UNCHANGED <<cand, harvested, site, aux_valid, order>>, buffer' \subseteq buffer,
         pc' \in [Lanes -> {"idle", "discover", "validate", "integrate"}],
         known' \in [Lanes -> SUBSET Tenants],
         pend' \in [Lanes -> SUBSET (Tenants \X Locator)],
         ready' \in [Lanes -> SUBSET (Tenants \X Locator)],
         \A l \in Lanes : \A r \in ready'[l] : Token(r[1], r[2]) \subseteq aux_valid[r[1]],
         ran' \in BOOLEAN, changes' \in 0..MaxChanges, crashes' \in 0..MaxCrashes
  PROVE  Inv' /\ \A u \in Tenants : Remembers(u)
<1>1. TypeOK'
  BY DEF Inv, TypeOK
<1>2. RowsSafe' /\ ReadySafe' /\ SitesTyped' /\ HarvestedWasValidated'
  BY DEF Inv, RowsSafe, ReadySafe, SitesTyped, HarvestedWasValidated
<1> QED
  BY <1>1, <1>2, RowsStay DEF Inv

LEMMA StartSafe ==
  ASSUME Inv, NEW l \in Lanes, Start(l)
  PROVE  Inv' /\ \A u \in Tenants : Remembers(u)
<1>1. Known \subseteq SUBSET Tenants /\ KnownPart \subseteq SUBSET Tenants
  BY DEF Known, KnownPart, Registered, Tracked
<1>2. /\ pc' \in [Lanes -> {"idle", "discover", "validate", "integrate"}]
      /\ known' \in [Lanes -> SUBSET Tenants]
      /\ UNCHANGED <<buffer, cand, order, harvested, site, pend, ready, changes, aux_valid>>
      /\ ran' \in BOOLEAN
  <2>1. PICK k \in SUBSET Tenants : known' = [known EXCEPT ![l] = k]
    BY <1>1 DEF Start
  <2>2. /\ pc' = [pc EXCEPT ![l] = "discover"] /\ ran' \in BOOLEAN
        /\ UNCHANGED <<buffer, cand, order, harvested, site, pend, ready, changes, aux_valid>>
    BY DEF Start
  <2> QED
    BY <2>1, <2>2 DEF Inv, TypeOK
<1>3. /\ pend' \in [Lanes -> SUBSET (Tenants \X Locator)]
      /\ ready' \in [Lanes -> SUBSET (Tenants \X Locator)]
      /\ changes' \in 0..MaxChanges /\ crashes' \in 0..MaxCrashes
  <2>1. crashes' = crashes \/ (crashes < MaxCrashes /\ crashes' = crashes + 1)
    BY DEF Start
  <2>2. crashes' \in 0..MaxCrashes
    BY <2>1, LanesAssumption, SMT DEF Inv, TypeOK
  <2> QED
    BY <1>2, <2>2 DEF Inv, TypeOK
<1>4. \A m \in Lanes : \A r \in ready'[m] : Token(r[1], r[2]) \subseteq aux_valid[r[1]]
  BY <1>2 DEF Inv, ReadySafe
<1> QED
  BY <1>2, <1>3, <1>4, LaneSafe

LEMMA LoadSafe ==
  ASSUME Inv, NEW l \in Lanes, Load(l)
  PROVE  Inv' /\ \A u \in Tenants : Remembers(u)
<1> DEFINE loaded == {<<t, cand[t].server>> : t \in Loaded(l)}
<1>1. loaded \in SUBSET (Tenants \X Locator)
  <2>1. \A t \in Tenants : cand[t].server \in Locator
    BY DEF Inv, TypeOK, Row
  <2>2. Loaded(l) \subseteq Tenants
    BY Zenon DEF Loaded, Wanted
  <2> QED
    BY <2>1, <2>2
<1> HIDE DEF loaded
<1>2. /\ pend' = [pend EXCEPT ![l] = loaded]
      /\ pc' = [pc EXCEPT ![l] = "validate"] /\ known' = [known EXCEPT ![l] = {}]
      /\ UNCHANGED <<buffer, cand, order, harvested, ready, site, ran, changes, crashes, aux_valid>>
  BY DEF Load, world, loaded
<1>3. /\ pc' \in [Lanes -> {"idle", "discover", "validate", "integrate"}]
      /\ known' \in [Lanes -> SUBSET Tenants]
      /\ pend' \in [Lanes -> SUBSET (Tenants \X Locator)]
  BY <1>1, <1>2 DEF Inv, TypeOK
<1>4. /\ ready' \in [Lanes -> SUBSET (Tenants \X Locator)]
      /\ ran' \in BOOLEAN /\ changes' \in 0..MaxChanges /\ crashes' \in 0..MaxCrashes
  BY <1>2 DEF Inv, TypeOK
<1>5. \A m \in Lanes : \A r \in ready'[m] : Token(r[1], r[2]) \subseteq aux_valid[r[1]]
  BY <1>2 DEF Inv, ReadySafe
<1> QED
  BY <1>2, <1>3, <1>4, <1>5, LaneSafe

\* What an integration reads names locators that validations saw.
LEMMA LoadReadySafe ==
  ASSUME Inv, NEW l \in Lanes, LoadReady(l)
  PROVE  Inv' /\ \A u \in Tenants : Remembers(u)
<1> DEFINE active == {u \in Tenants : cand[u].status = "active"}
           read == {<<t, cand[t].server>> : t \in active}
<1>1. read \in SUBSET (Tenants \X Locator)
  <2>1. \A t \in Tenants : cand[t].server \in Locator
    BY DEF Inv, TypeOK, Row
  <2> QED
    BY <2>1
<1>2. ASSUME NEW r \in read PROVE Token(r[1], r[2]) \subseteq aux_valid[r[1]]
  <2>1. PICK t \in active : r = <<t, cand[t].server>>
    OBVIOUS
  <2>2. Token(t, cand[t].server) \subseteq aux_valid[t]
    BY <2>1 DEF Inv, RowsSafe, RowSafe
  <2>3. r[1] = t /\ r[2] = cand[t].server
    BY <2>1
  <2> QED
    BY <2>2, <2>3
<1> HIDE DEF read
<1>3. /\ ready' = [ready EXCEPT ![l] = read] /\ pc' = [pc EXCEPT ![l] = "integrate"]
      /\ UNCHANGED <<buffer, cand, order, harvested, known, pend, site, ran, changes, crashes, aux_valid>>
  BY DEF LoadReady, world, read
<1>4. /\ pc' \in [Lanes -> {"idle", "discover", "validate", "integrate"}]
      /\ ready' \in [Lanes -> SUBSET (Tenants \X Locator)]
  BY <1>1, <1>3 DEF Inv, TypeOK
<1>5. /\ known' \in [Lanes -> SUBSET Tenants] /\ pend' \in [Lanes -> SUBSET (Tenants \X Locator)]
      /\ ran' \in BOOLEAN /\ changes' \in 0..MaxChanges /\ crashes' \in 0..MaxCrashes
  BY <1>3 DEF Inv, TypeOK
<1>6. ASSUME NEW m \in Lanes, NEW r \in ready'[m] PROVE Token(r[1], r[2]) \subseteq aux_valid[r[1]]
  <2>1. ready'[m] = IF m = l THEN read ELSE ready[m]
    BY <1>3 DEF Inv, TypeOK
  <2> QED
    BY <2>1, <1>2, <1>6 DEF Inv, ReadySafe
<1> QED
  BY <1>3, <1>4, <1>5, <1>6, LaneSafe

LEMMA FinishSafe ==
  ASSUME Inv, NEW l \in Lanes, Finish(l)
  PROVE  Inv' /\ \A u \in Tenants : Remembers(u)
<1>1. /\ pc' = [pc EXCEPT ![l] = "idle"]
      /\ UNCHANGED <<buffer, cand, order, harvested, known, pend, ready, site, ran, changes, crashes, aux_valid>>
  BY DEF Finish, world
<1>2. pc' \in [Lanes -> {"idle", "discover", "validate", "integrate"}]
  BY <1>1 DEF Inv, TypeOK
<1>3. /\ known' \in [Lanes -> SUBSET Tenants] /\ pend' \in [Lanes -> SUBSET (Tenants \X Locator)]
      /\ ready' \in [Lanes -> SUBSET (Tenants \X Locator)]
      /\ ran' \in BOOLEAN /\ changes' \in 0..MaxChanges /\ crashes' \in 0..MaxCrashes
  BY <1>1 DEF Inv, TypeOK
<1>4. \A m \in Lanes : \A r \in ready'[m] : Token(r[1], r[2]) \subseteq aux_valid[r[1]]
  BY <1>1 DEF Inv, ReadySafe
<1> QED
  BY <1>1, <1>2, <1>3, <1>4, LaneSafe

\* A failure forgets what was read, and nothing else.
LEMMA FailureSafe ==
  ASSUME Inv, NEW l \in Lanes, Crash(l) \/ FailRow(l)
  PROVE  Inv' /\ \A u \in Tenants : Remembers(u)
<1>1. crashes' \in 0..MaxCrashes
  BY LanesAssumption DEF Crash, FailRow, Inv, TypeOK
<1>2. UNCHANGED <<buffer, cand, order, harvested, site, known, ran, changes, aux_valid>>
  BY DEF Crash, FailRow
<1>3. pc' \in [Lanes -> {"idle", "discover", "validate", "integrate"}]
  BY DEF Crash, FailRow, Inv, TypeOK
<1>4. /\ known' \in [Lanes -> SUBSET Tenants] /\ ran' \in BOOLEAN /\ changes' \in 0..MaxChanges
  BY <1>2 DEF Inv, TypeOK
<1>5. /\ pend' \in [Lanes -> SUBSET (Tenants \X Locator)]
      /\ ready' \in [Lanes -> SUBSET (Tenants \X Locator)]
      /\ \A m \in Lanes : ready'[m] \subseteq ready[m]
  <2>1. CASE Crash(l)
    BY <2>1 DEF Crash, Inv, TypeOK
  <2>2. CASE \E p \in pend[l] : pend' = [pend EXCEPT ![l] = @ \ {p}] /\ UNCHANGED ready
    BY <2>2 DEF Inv, TypeOK
  <2>3. CASE \E r \in ready[l] : ready' = [ready EXCEPT ![l] = @ \ {r}] /\ UNCHANGED pend
    BY <2>3 DEF Inv, TypeOK
  <2> QED
    BY <2>1, <2>2, <2>3 DEF FailRow
<1>6. \A m \in Lanes : \A r \in ready'[m] : Token(r[1], r[2]) \subseteq aux_valid[r[1]]
  BY <1>5 DEF Inv, ReadySafe
<1> QED
  BY <1>1, <1>2, <1>3, <1>4, <1>5, <1>6, LaneSafe

\* An integration enables a board it read, which a validation saw.
LEMMA IntegrateSafe ==
  ASSUME Inv, NEW l \in Lanes, Integrate(l)
  PROVE  Inv' /\ \A u \in Tenants : Remembers(u)
<1>1. PICK r \in ready[l] :
        /\ ready' = [ready EXCEPT ![l] = @ \ {r}]
        /\ \/ /\ harvested' = [harvested EXCEPT ![r[1]] = @ \cup Token(r[1], r[2])]
              /\ cand' = [cand EXCEPT ![r[1]].status = "integrated"]
           \/ UNCHANGED <<harvested, cand>>
  BY DEF Integrate
<1>2. PICK t \in Tenants, s \in Locator : t = r[1] /\ s = r[2]
  BY DEF Inv, TypeOK
<1>3. /\ UNCHANGED <<buffer, order, pc, known, pend, site, ran, changes, crashes, aux_valid>>
  BY DEF Integrate, world
<1>4. ready' \in [Lanes -> SUBSET (Tenants \X Locator)] /\ \A m \in Lanes : ready'[m] \subseteq ready[m]
  BY <1>1 DEF Inv, TypeOK
<1>5. ReadySafe'
  BY <1>3, <1>4 DEF Inv, ReadySafe
<1>6. CASE UNCHANGED <<harvested, cand>>
  <2>1. TypeOK'
    BY <1>3, <1>4, <1>6 DEF Inv, TypeOK
  <2>2. RowsSafe' /\ SitesTyped' /\ HarvestedWasValidated'
    BY <1>3, <1>6 DEF Inv, RowsSafe, SitesTyped, HarvestedWasValidated
  <2> QED
    BY <1>5, <1>6, <2>1, <2>2, RowsStay DEF Inv
<1>7. CASE /\ harvested' = [harvested EXCEPT ![t] = @ \cup Token(t, s)]
           /\ cand' = [cand EXCEPT ![t].status = "integrated"]
  <2> DEFINE new == [cand[t] EXCEPT !.status = "integrated"]
  <2>1. Token(t, s) \subseteq aux_valid[t] /\ aux_valid[t] \subseteq Boards \cup {Whole}
    BY <1>2 DEF Inv, ReadySafe, TypeOK
  <2>2. cand[t] \in Row /\ RowSafe(t, cand[t], aux_valid[t]) /\ "integrated" \in Status
    BY DEF Inv, TypeOK, RowsSafe, Status
  <2>3. new \in Row /\ new.server = cand[t].server /\ new.status = "integrated"
    BY <2>2, ColumnStays DEF Row
  <2>4. cand' = [cand EXCEPT ![t] = new]
    BY <1>7
  <2> HIDE DEF new
  <2>5. \A u \in Tenants : cand'[u] = IF u = t THEN new ELSE cand[u]
    BY <2>4 DEF Inv, TypeOK
  <2>6. cand' \in [Tenants -> Row]
    BY <2>3, <2>4 DEF Inv, TypeOK
  <2>7. /\ harvested' \in [Tenants -> SUBSET (Boards \cup {Whole})]
        /\ \A u \in Tenants : harvested'[u] \subseteq aux_valid[u]
    BY <1>7, <2>1 DEF Inv, TypeOK, HarvestedWasValidated
  <2>8. TypeOK'
    BY <1>3, <1>4, <2>6, <2>7 DEF Inv, TypeOK
  <2>9. RowsSafe'
    BY <1>3, <2>3, <2>5 DEF Inv, RowsSafe, RowSafe
  <2>10. SitesTyped' /\ HarvestedWasValidated'
    BY <1>3, <2>7 DEF Inv, SitesTyped, HarvestedWasValidated
  <2>11. \A u \in Tenants : Remembers(u)
    BY <2>3, <2>5 DEF Remembers
  <2> QED
    BY <1>5, <2>8, <2>9, <2>10, <2>11 DEF Inv
<1> QED
  BY <1>1, <1>2, <1>6, <1>7

LEMMA SiteChangeSafe ==
  ASSUME Inv, NEW t \in Tenants, SiteChange(t)
  PROVE  Inv' /\ \A u \in Tenants : Remembers(u)
<1>1. PICK b \in SUBSET SiteBoards(t) : site' = [site EXCEPT ![t] = b]
  BY DEF SiteChange
<1>2. /\ UNCHANGED <<buffer, cand, order, harvested, pc, known, pend, ready, ran, crashes, aux_valid>>
      /\ changes < MaxChanges /\ changes' = changes + 1
  BY DEF SiteChange, lanes
<1>3. SiteBoards(t) \subseteq Boards \cup {Whole}
  BY DEF SiteBoards
<1>4. site' \in [Tenants -> SUBSET (Boards \cup {Whole})] /\ SitesTyped'
  BY <1>1, <1>3 DEF Inv, TypeOK, SitesTyped
<1>5. changes' \in 0..MaxChanges
  BY <1>2, LanesAssumption DEF Inv, TypeOK
<1>6. TypeOK'
  BY <1>2, <1>4, <1>5 DEF Inv, TypeOK
<1>7. RowsSafe' /\ ReadySafe' /\ HarvestedWasValidated'
  BY <1>2 DEF Inv, RowsSafe, ReadySafe, HarvestedWasValidated
<1> QED
  BY <1>2, <1>4, <1>6, <1>7, RowsStay DEF Inv

LEMMA NextDaySafe ==
  ASSUME Inv, NextDay
  PROVE  Inv' /\ \A u \in Tenants : Remembers(u)
<1> DEFINE Older(n) == IF n < StaleDays THEN n + 1 ELSE n
<1>1. /\ cand' = [t \in Tenants |-> [cand[t] EXCEPT !.age = Older(@)]] /\ ran' = FALSE
      /\ UNCHANGED <<buffer, order, harvested, site, pc, known, pend, ready, changes, crashes, aux_valid>>
  BY DEF NextDay, lanes
<1>2. \A n \in 0..StaleDays : Older(n) \in 0..StaleDays
  BY LanesAssumption
<1> HIDE DEF Older
<1>3. ASSUME NEW t \in Tenants
      PROVE  cand'[t] \in Row /\ cand'[t].server = cand[t].server /\ cand'[t].status = cand[t].status
  <2>1. cand[t] \in Row /\ cand[t].age \in 0..StaleDays
    BY DEF Inv, TypeOK, Row
  <2>2. PICK n \in 0..StaleDays : n = Older(cand[t].age)
    BY <1>2, <2>1
  <2>3. cand'[t] = [cand[t] EXCEPT !.age = n]
    BY <1>1, <2>2, Zenon
  <2>4. [cand[t] EXCEPT !.age = n] \in Row
    BY <2>1, ColumnStays
  <2>5. /\ [cand[t] EXCEPT !.age = n].server = cand[t].server
        /\ [cand[t] EXCEPT !.age = n].status = cand[t].status
    BY <2>1, SMT DEF Row
  <2> QED
    BY <2>3, <2>4, <2>5
<1>4. cand' \in [Tenants -> Row]
  <2>1. cand' = [t \in Tenants |-> cand'[t]]
    BY <1>1
  <2> QED
    BY <1>3, <2>1
<1>5. TypeOK'
  BY <1>1, <1>4 DEF Inv, TypeOK
<1>6. RowsSafe'
  BY <1>1, <1>3 DEF Inv, RowsSafe, RowSafe
<1>7. ReadySafe' /\ SitesTyped' /\ HarvestedWasValidated'
  BY <1>1 DEF Inv, ReadySafe, SitesTyped, HarvestedWasValidated
<1>8. \A u \in Tenants : Remembers(u)
  BY <1>3 DEF Remembers
<1> QED
  BY <1>5, <1>6, <1>7, <1>8 DEF Inv

-----------------------------------------------------------------------------

LEMMA NextInv == Inv /\ [Next]_vars => Inv' /\ \A u \in Tenants : Remembers(u)
<1> SUFFICES ASSUME Inv, [Next]_vars PROVE Inv' /\ \A u \in Tenants : Remembers(u)
  OBVIOUS
<1>1. ASSUME NEW l \in Lanes, LaneStep(l) PROVE Inv' /\ \A u \in Tenants : Remembers(u)
  BY <1>1, LoadSafe, ValidateSafe, LoadReadySafe, IntegrateSafe, FinishSafe DEF LaneStep
<1>2. ASSUME NEW l \in Lanes, Start(l) \/ Crash(l) \/ FailRow(l) \/ FailProbe(l)
      PROVE  Inv' /\ \A u \in Tenants : Remembers(u)
  BY <1>2, StartSafe, FailureSafe, FailProbeSafe
<1>3. ASSUME NEW l \in Lanes, NEW t \in Tenants, Discover(l, t) \/ Route(l, t)
      PROVE  Inv' /\ \A u \in Tenants : Remembers(u)
  BY <1>3, DiscoverSafe, RouteSafe
<1>4. ASSUME NEW t \in Tenants, Staging(t) \/ ProbeBoard(t) \/ SaveBoard(t) \/ SiteChange(t)
      PROVE  Inv' /\ \A u \in Tenants : Remembers(u)
  BY <1>4, StagingSafe, ProbeBoardSafe, SaveBoardSafe, SiteChangeSafe
<1>5. CASE NextDay \/ LoseBoards
  BY <1>5, NextDaySafe, LoseBoardsSafe
<1>6. CASE UNCHANGED vars
  <2>1. TypeOK'
    BY <1>6 DEF vars, Inv, TypeOK
  <2>2. RowsSafe' /\ ReadySafe' /\ SitesTyped' /\ HarvestedWasValidated'
    BY <1>6 DEF vars, Inv, RowsSafe, ReadySafe, SitesTyped, HarvestedWasValidated
  <2> QED
    BY <1>6, <2>1, <2>2, RowsStay DEF Inv, vars
<1> QED
  BY <1>1, <1>2, <1>3, <1>4, <1>5, <1>6 DEF Next

LEMMA Invariance == Spec => []Inv
<1>1. Init => Inv
  BY InitInv
<1>2. Inv /\ [Next]_vars => Inv'
  BY NextInv
<1> QED
  BY <1>1, <1>2, PTL DEF Spec

\* Every state of the registry is one of the types the tables declare.
THEOREM TypeCorrect == Spec => []TypeOK
<1>1. Inv => TypeOK
  BY DEF Inv
<1> QED
  BY <1>1, Invariance, PTL

\* validate_ats_candidates.py and integrate_ats_candidates.py: no board is
\* harvested that a validation did not see a target opening at, however many
\* lanes discover, validate and integrate at once and whichever of them fail.
THEOREM OnlyValidatedIsHarvested == Spec => []HarvestedWasValidated
<1>1. Inv => HarvestedWasValidated
  BY DEF Inv
<1> QED
  BY <1>1, Invariance, PTL

\* The upserts of the discoverers and of the career-host engine: a full
\* locator gives way to less only on a probe that did not find the board.
THEOREM BoardsAreRemembered == Spec => BoardsRemembered
<1>1. Inv /\ [Next]_vars =>
        [\A t \in Tenants :
            cand[t].server \in Boards /\ cand'[t].server \notin Boards =>
                cand'[t].status = "unreachable" /\ \E l \in Lanes : pc[l] = "validate"]_vars
  BY NextInv DEF Remembers
<1> QED
  BY <1>1, Invariance, PTL DEF Spec, BoardsRemembered

-----------------------------------------------------------------------------
\* The weekly crawl beside the registry.

\* Board b of tenant t is marked as integrated.
Integrated(t, b) ==
    \/ board[t][b] = "integrated"
    \/ tenant[t].status = "integrated" /\ tenant[t].server = b

\* What the two tables accept, some validation saw; and what they mark as
\* integrated is harvested.
AcceptedSeen == \A t \in Mined, b \in Boards : AcceptedBoard(t, b) => b \in aux_valid[t]
MarksKept == \A t \in Mined, b \in Boards : Integrated(t, b) => b \in harvested[t]

\* A row that is there has a host at least.
RowsLocated == \A t \in Mined : tenant[t].status # "absent" => tenant[t].server \in Boards \cup {HostOnly}

\* So does what the crawl has in hand: the boards probed and not recorded, the
\* rows to integrate, those integrated and not committed.
LeftSeen == \A y \in left : y[3] = "unreachable" \/ (y[3] \in Accepted /\ y[2] \in aux_valid[y[1]])
WorkSeen == stage \in {"tenants", "boards"} => \A x \in todo : x[2] \in aux_valid[x[1]] \cap Boards
TxnSeen == \A y \in txn : y[3] \in aux_valid[y[2]]

CrawlInv == CrawlTypeOK /\ AcceptedSeen /\ MarksKept /\ RowsLocated /\ LeftSeen /\ WorkSeen /\ TxnSeen

\* What a step of either program leaves behind.
BothKept == Inv' /\ CrawlInv' /\ \A u \in Tenants : Remembers(u)

LEMMA MinedTenants == Mined \subseteq Workday /\ Mined \subseteq Tenants /\ Foreign \subseteq Boards
  BY MinedAssumption, SystemsAssumption

LEMMA CrawlInitInv == CrawlInit => CrawlInv
<1> SUFFICES ASSUME CrawlInit PROVE CrawlInv
  OBVIOUS
<1>1. CrawlTypeOK
  BY DEF CrawlInit, CrawlTypeOK, Locator, BoardStatus, Stages
<1>2. AcceptedSeen /\ MarksKept /\ RowsLocated /\ LeftSeen /\ WorkSeen /\ TxnSeen
  BY DEF CrawlInit, AcceptedSeen, MarksKept, RowsLocated, LeftSeen, WorkSeen, TxnSeen,
         AcceptedBoard, Integrated, Accepted
<1> QED
  BY <1>1, <1>2 DEF CrawlInv

\* Neither what validations saw nor what is harvested ever shrinks.
LEMMA RegistryGrows ==
  ASSUME Inv, [Next]_vars
  PROVE  \A u \in Tenants : aux_valid[u] \subseteq aux_valid'[u] /\ harvested[u] \subseteq harvested'[u]
<1>1. ASSUME NEW l \in Lanes, Validate(l)
      PROVE  UNCHANGED harvested /\ \A u \in Tenants : aux_valid[u] \subseteq aux_valid'[u]
  BY <1>1 DEF Validate, Inv, TypeOK
<1>2. ASSUME NEW l \in Lanes, Integrate(l)
      PROVE  UNCHANGED aux_valid /\ \A u \in Tenants : harvested[u] \subseteq harvested'[u]
  BY <1>2 DEF Integrate, Inv, TypeOK
<1>3. ASSUME NEW l \in Lanes, Load(l) \/ LoadReady(l) \/ Finish(l) \/ Start(l) \/ Crash(l)
                              \/ FailRow(l) \/ FailProbe(l)
      PROVE  UNCHANGED <<harvested, aux_valid>>
  BY <1>3 DEF Load, LoadReady, Finish, Start, Crash, FailRow, FailProbe
<1>4. ASSUME NEW l \in Lanes, NEW t \in Tenants, Discover(l, t) \/ Route(l, t)
      PROVE  UNCHANGED <<harvested, aux_valid>>
  BY <1>4 DEF Discover, Route
<1>5. ASSUME NEW t \in Tenants, Staging(t) \/ ProbeBoard(t) \/ SaveBoard(t) \/ SiteChange(t)
      PROVE  UNCHANGED <<harvested, aux_valid>>
  BY <1>5 DEF Staging, StageYc, StageCrawled, StageRedirect, StageCareerPage, Stage, ProbeBoard,
              SaveBoard, SiteChange
<1>6. CASE NextDay \/ LoseBoards \/ UNCHANGED vars
  BY <1>6 DEF NextDay, LoseBoards, vars
<1> QED
  BY <1>1, <1>2, <1>3, <1>4, <1>5, <1>6 DEF Next, LaneStep

\* A step that leaves the crawl's tables alone.
LEMMA TablesStay ==
  ASSUME Inv, CrawlInv, UNCHANGED <<tenant, board>>,
         \A u \in Tenants : aux_valid[u] \subseteq aux_valid'[u] /\ harvested[u] \subseteq harvested'[u]
  PROVE  AcceptedSeen' /\ MarksKept' /\ RowsLocated'
<1>1. \A t \in Mined : aux_valid[t] \subseteq aux_valid'[t] /\ harvested[t] \subseteq harvested'[t]
  BY MinedTenants
<1> QED
  BY <1>1 DEF CrawlInv, AcceptedSeen, MarksKept, RowsLocated, AcceptedBoard, Integrated

LEMMA RegistryKeepsCrawl ==
  ASSUME Inv, CrawlInv, [Next]_vars, UNCHANGED crawl PROVE BothKept
<1>1. /\ Inv' /\ \A u \in Tenants : Remembers(u)
      /\ \A u \in Tenants : aux_valid[u] \subseteq aux_valid'[u] /\ harvested[u] \subseteq harvested'[u]
  BY NextInv, RegistryGrows
<1>2. UNCHANGED <<tenant, board, stage, tracked, todo, left, txn>>
  BY DEF crawl
<1>3. CrawlTypeOK'
  BY <1>2 DEF CrawlInv, CrawlTypeOK
<1>4. LeftSeen' /\ TxnSeen'
  BY <1>1, <1>2, MinedTenants DEF CrawlInv, CrawlTypeOK, LeftSeen, TxnSeen
<1>5. WorkSeen'
  BY <1>1, <1>2, MinedTenants DEF CrawlInv, CrawlTypeOK, WorkSeen, Locations
<1> QED
  BY <1>1, <1>2, <1>3, <1>4, <1>5, TablesStay DEF CrawlInv, BothKept

\* What a step of the crawl does to the registry.
LEMMA CrawlKeepsRegistry ==
  ASSUME Inv, Quiet, crashes' \in 0..MaxCrashes,
         harvested' \in [Tenants -> SUBSET (Boards \cup {Whole})],
         aux_valid' \in [Tenants -> SUBSET (Boards \cup {Whole})],
         \A u \in Tenants : aux_valid[u] \subseteq aux_valid'[u] /\ harvested'[u] \subseteq aux_valid'[u]
  PROVE  Inv' /\ \A u \in Tenants : Remembers(u)
<1>1. UNCHANGED <<cand, order, pc, known, buffer, pend, ready, ran, site, changes>>
  BY DEF Quiet, registry
<1>2. TypeOK'
  BY <1>1 DEF Inv, TypeOK
<1>3. RowsSafe'
  BY <1>1 DEF Inv, RowsSafe, RowSafe
<1>4. ReadySafe'
  <2>1. ASSUME NEW l \in Lanes, NEW r \in ready[l] PROVE Token(r[1], r[2]) \subseteq aux_valid'[r[1]]
    <3>1. r[1] \in Tenants /\ Token(r[1], r[2]) \subseteq aux_valid[r[1]]
      BY DEF Inv, TypeOK, ReadySafe
    <3> QED
      BY <3>1
  <2> QED
    BY <1>1, <2>1 DEF ReadySafe
<1>5. SitesTyped' /\ HarvestedWasValidated'
  BY <1>1 DEF Inv, SitesTyped, HarvestedWasValidated
<1> QED
  BY <1>1, <1>2, <1>3, <1>4, <1>5, RowsStay DEF Inv

\* A step that changes neither what is harvested nor what validations saw.
LEMMA CrawlQuiet ==
  ASSUME Inv, Quiet, UNCHANGED <<harvested, aux_valid>>, crashes' \in 0..MaxCrashes
  PROVE  Inv' /\ \A u \in Tenants : Remembers(u)
<1>1. /\ harvested' \in [Tenants -> SUBSET (Boards \cup {Whole})]
      /\ aux_valid' \in [Tenants -> SUBSET (Boards \cup {Whole})]
      /\ \A u \in Tenants : aux_valid[u] \subseteq aux_valid'[u] /\ harvested'[u] \subseteq aux_valid'[u]
  BY DEF Inv, TypeOK, HarvestedWasValidated
<1> QED
  BY <1>1, CrawlKeepsRegistry

LEMMA CrashesBounded ==
  ASSUME Inv
  PROVE  /\ Calm => crashes' \in 0..MaxCrashes
         /\ Failing => crashes' \in 0..MaxCrashes
         /\ \A rows : \A kept \in Survive(rows) : Counted(kept, rows) => crashes' \in 0..MaxCrashes
<1>1. crashes \in 0..MaxCrashes /\ MaxCrashes \in Nat
  BY LanesAssumption DEF Inv, TypeOK
<1>2. crashes < MaxCrashes => crashes + 1 \in 0..MaxCrashes
  BY <1>1
<1>3. ASSUME NEW rows, NEW kept \in Survive(rows), Counted(kept, rows) PROVE crashes' \in 0..MaxCrashes
  <2>1. kept = rows \/ crashes < MaxCrashes
    BY DEF Survive
  <2> QED
    BY <1>1, <1>2, <1>3, <2>1 DEF Counted
<1> QED
  BY <1>1, <1>2, <1>3 DEF Calm, Failing

-----------------------------------------------------------------------------
\* Discovery: a crawl that has not come to the integration.

LEMMA StartCrawlSafe == ASSUME Inv, CrawlInv, StartCrawl PROVE BothKept
<1>1. /\ UNCHANGED <<tenant, board, todo, left, txn, harvested, aux_valid>> /\ Quiet /\ Calm
      /\ stage' = "mine" /\ tracked' = TrackedBoards \cup TrackedTenants \X {HostOnly}
  BY DEF StartCrawl
<1>2. Inv' /\ \A u \in Tenants : Remembers(u)
  BY <1>1, CrawlQuiet, CrashesBounded
<1>3. AcceptedSeen' /\ MarksKept' /\ RowsLocated'
  BY <1>1, TablesStay
<1>4. tracked' \subseteq Locations
  BY <1>1 DEF TrackedBoards, TrackedTenants, Locations
<1>5. CrawlTypeOK'
  BY <1>1, <1>4 DEF CrawlInv, CrawlTypeOK, Stages
<1>6. LeftSeen' /\ WorkSeen' /\ TxnSeen'
  BY <1>1 DEF CrawlInv, LeftSeen, WorkSeen, TxnSeen
<1> QED
  BY <1>2, <1>3, <1>5, <1>6 DEF CrawlInv, BothKept

LEMMA MineSafe == ASSUME Inv, CrawlInv, Mine PROVE BothKept
<1>1. /\ UNCHANGED <<tenant, board, left, txn, harvested, aux_valid>> /\ Quiet /\ Calm
      /\ stage' = "save" /\ tracked' = {}
  BY DEF Mine
<1>2. Inv' /\ \A u \in Tenants : Remembers(u)
  BY <1>1, CrawlQuiet, CrashesBounded
<1>3. AcceptedSeen' /\ MarksKept' /\ RowsLocated'
  BY <1>1, TablesStay
<1>4. todo' \subseteq Locations
  <2>1. PICK S \in SUBSET CrawlIndexes : \E E \in SUBSET EdgarProbes(S) : todo' = Merged(S \cup E)
    BY DEF Mine
  <2>2. PICK E \in SUBSET EdgarProbes(S) : todo' = Merged(S \cup E)
    BY <2>1
  <2>3. S \subseteq Locations
    BY DEF CrawlIndexes, Parsed, Locations
  <2>4. E \subseteq Locations
    BY DEF EdgarProbes, ProbeSlug, Slugs, Locations
  <2> QED
    BY <2>2, <2>3, <2>4 DEF Merged
<1>5. CrawlTypeOK'
  BY <1>1, <1>4 DEF CrawlInv, CrawlTypeOK, Stages
<1>6. LeftSeen' /\ WorkSeen' /\ TxnSeen'
  BY <1>1 DEF CrawlInv, LeftSeen, WorkSeen, TxnSeen
<1> QED
  BY <1>2, <1>3, <1>5, <1>6 DEF CrawlInv, BothKept

\* A tenant that is saved is pending: nothing is claimed of it yet.
LEMMA SaveTenantsSafe == ASSUME Inv, CrawlInv, SaveTenants PROVE BothKept
<1> DEFINE new == {t \in {x[1] : x \in todo} : tenant[t].status = "absent"}
<1>1. PICK kept \in Survive(new) :
        \E seen \in [kept -> Boards \cup {HostOnly}] :
           /\ \A t \in kept : seen[t] \in Primary(t)
           /\ tenant' = [t \in Mined |-> IF t \in kept
                             THEN [status |-> "pending", server |-> seen[t]] ELSE tenant[t]]
           /\ Counted(kept, new)
  BY DEF SaveTenants
<1> HIDE DEF new
<1>2. PICK seen \in [kept -> Boards \cup {HostOnly}] :
           /\ tenant' = [t \in Mined |-> IF t \in kept
                             THEN [status |-> "pending", server |-> seen[t]] ELSE tenant[t]]
           /\ Counted(kept, new)
  BY <1>1
<1>3. /\ UNCHANGED <<board, tracked, todo, left, txn, harvested, aux_valid>> /\ Quiet
      /\ stage' = "record"
  BY DEF SaveTenants
<1>4. Inv' /\ \A u \in Tenants : Remembers(u)
  BY <1>2, <1>3, CrawlQuiet, CrashesBounded
<1>5. ASSUME NEW t \in Mined
      PROVE  \/ tenant'[t] = tenant[t]
             \/ /\ tenant'[t] \in [status : BoardStatus, server : Locator]
                /\ tenant'[t].status = "pending" /\ tenant'[t].server \in Boards \cup {HostOnly}
  <2>1. CASE t \in kept
    BY <1>2, <2>1 DEF BoardStatus, Locator
  <2>2. CASE t \notin kept
    BY <1>2, <2>2
  <2> QED
    BY <2>1, <2>2
<1>6. tenant' \in [Mined -> [status : BoardStatus, server : Locator]]
  <2>1. tenant' = [t \in Mined |-> tenant'[t]]
    BY <1>2
  <2>2. \A t \in Mined : tenant[t] \in [status : BoardStatus, server : Locator]
    BY DEF CrawlInv, CrawlTypeOK
  <2> QED
    BY <1>5, <2>1, <2>2
<1>7. CrawlTypeOK'
  BY <1>3, <1>6 DEF CrawlInv, CrawlTypeOK, Stages
<1>8. AcceptedSeen' /\ MarksKept' /\ RowsLocated'
  BY <1>3, <1>5 DEF CrawlInv, AcceptedSeen, MarksKept, RowsLocated, AcceptedBoard, Integrated, Accepted
<1>9. LeftSeen' /\ WorkSeen' /\ TxnSeen'
  BY <1>3 DEF CrawlInv, LeftSeen, WorkSeen, TxnSeen
<1> QED
  BY <1>4, <1>7, <1>8, <1>9 DEF CrawlInv, BothKept

LEMMA SaveBoardsSafe == ASSUME Inv, CrawlInv, SaveBoards PROVE BothKept
<1> DEFINE new == {x \in todo : x[2] \in Boards}
<1>1. PICK kept \in Survive(new) :
        /\ board' = [t \in Mined |-> [b \in Boards |->
              IF <<t, b>> \in kept /\ board[t][b] = "absent" THEN "pending" ELSE board[t][b]]]
        /\ Counted(kept, new)
  BY DEF SaveBoards
<1> HIDE DEF new
<1>2. /\ UNCHANGED <<tenant, tracked, left, txn, harvested, aux_valid>> /\ Quiet
      /\ stage' = "validate" /\ todo' = Pending
  BY DEF SaveBoards
<1>3. Inv' /\ \A u \in Tenants : Remembers(u)
  BY <1>1, <1>2, CrawlQuiet, CrashesBounded
<1>4. ASSUME NEW t \in Mined, NEW b \in Boards
      PROVE  board'[t][b] = board[t][b] \/ board'[t][b] = "pending"
  BY <1>1
<1>5. board' \in [Mined -> [Boards -> BoardStatus]]
  <2>1. \A t \in Mined, b \in Boards : board[t][b] \in BoardStatus
    BY DEF CrawlInv, CrawlTypeOK
  <2>2. "pending" \in BoardStatus
    BY DEF BoardStatus
  <2> QED
    BY <1>1, <2>1, <2>2
<1>6. todo' \subseteq Locations
  <2>1. ASSUME NEW t \in Mined, tenant[t].status = "pending"
        PROVE  <<t, tenant[t].server>> \in Locations
    BY <2>1 DEF CrawlInv, RowsLocated, Locations
  <2> QED
    BY <1>2, <2>1 DEF Pending
<1>7. CrawlTypeOK'
  BY <1>2, <1>5, <1>6 DEF CrawlInv, CrawlTypeOK, Stages
<1>8. AcceptedSeen' /\ MarksKept' /\ RowsLocated'
  BY <1>2, <1>4 DEF CrawlInv, AcceptedSeen, MarksKept, RowsLocated, AcceptedBoard, Integrated, Accepted
<1>9. LeftSeen' /\ WorkSeen' /\ TxnSeen'
  BY <1>2 DEF CrawlInv, LeftSeen, WorkSeen, TxnSeen
<1> QED
  BY <1>3, <1>7, <1>8, <1>9 DEF CrawlInv, BothKept

-----------------------------------------------------------------------------
\* Validation.

LEMMA CountTyped ==
  ASSUME NEW t \in Mined, NEW b
  PROVE  CountJobs(t, b) \in {"active", "no_target_jobs", "unreachable"}
<1>1. CASE b \notin InCountry(t)
  BY <1>1, Zenon DEF CountJobs
<1>2. CASE b \in InCountry(t) \cap Barren
  BY <1>2, Zenon DEF CountJobs
<1>3. CASE b \in InCountry(t) /\ b \notin Barren
  BY <1>3, Zenon DEF CountJobs
<1> QED
  BY <1>1, <1>2, <1>3

LEMMA LiveBoards == ASSUME Inv, NEW t \in Mined PROVE Live(t) \subseteq Boards
<1>1. t \in Located /\ t \in Tenants
  BY MinedTenants DEF Located
<1>2. site[t] \subseteq Boards
  BY <1>1 DEF Inv, SitesTyped, SiteBoards
<1> QED
  BY <1>2, MinedTenants DEF Live

\* A verdict on a tenant's row, with what was counted at its board.
LEMMA RowUpdated ==
  ASSUME Inv, CrawlInv, NEW t \in Mined, NEW s \in Boards \cup {HostOnly},
         NEW y \in {"active", "no_target_jobs", "unreachable"}, Update(t, y, s),
         y \in Accepted => s \in aux_valid'[t],
         UNCHANGED <<board, harvested>>, \A u \in Tenants : aux_valid[u] \subseteq aux_valid'[u]
  PROVE  /\ tenant' \in [Mined -> [status : BoardStatus, server : Locator]]
         /\ AcceptedSeen' /\ MarksKept' /\ RowsLocated'
<1> DEFINE new == [status |-> y, server |-> s]
<1>1. new \in [status : BoardStatus, server : Locator] /\ new.status = y /\ new.server = s
  BY DEF BoardStatus, Locator
<1>2. tenant' = [tenant EXCEPT ![t] = new]
  BY DEF Update
<1> HIDE DEF new
<1>3. \A u \in Mined : tenant'[u] = IF u = t THEN new ELSE tenant[u]
  BY <1>2 DEF CrawlInv, CrawlTypeOK
<1>4. tenant' \in [Mined -> [status : BoardStatus, server : Locator]]
  BY <1>1, <1>2 DEF CrawlInv, CrawlTypeOK
<1>5. ASSUME NEW u \in Mined, NEW b \in Boards, AcceptedBoard(u, b)' PROVE b \in aux_valid'[u]
  <2>1. CASE AcceptedBoard(u, b)
    BY <2>1, MinedTenants DEF CrawlInv, AcceptedSeen
  <2>2. CASE u = t /\ y \in Accepted \cup {"integrated"} /\ s = b
    BY <2>2
  <2> QED
    BY <1>1, <1>3, <1>5, <2>1, <2>2 DEF AcceptedBoard
<1>6. ASSUME NEW u \in Mined, NEW b \in Boards, Integrated(u, b)' PROVE b \in harvested'[u]
  <2>1. Integrated(u, b)
    BY <1>1, <1>3, <1>6 DEF Integrated
  <2> QED
    BY <2>1 DEF CrawlInv, MarksKept
<1>7. RowsLocated'
  BY <1>1, <1>3 DEF CrawlInv, RowsLocated
<1> QED
  BY <1>4, <1>5, <1>6, <1>7 DEF AcceptedSeen, MarksKept

\* The verdicts in hand are on boards of the tenant, and each that is good is of
\* a board this validation saw.
LEMMA ValidateTenantSafe == ASSUME Inv, CrawlInv, ValidateTenant PROVE BothKept
<1>1. PICK x \in todo :
        /\ todo' = todo \ {x}
        /\ \/ \E b \in FindBoard(x[1], x[2]) :
                 /\ Update(x[1], CountJobs(x[1], b), b)
                 /\ left' = {<<x[1], c, CountJobs(x[1], c)>> : c \in AllBoards(x[1], b) \cup {b}}
                 /\ aux_valid' = [aux_valid EXCEPT ![x[1]] =
                       @ \cup {y[2] : y \in {z \in left' : z[3] \in Accepted}}]
           \/ /\ Update(x[1], "unreachable", x[2])
              /\ UNCHANGED <<left, aux_valid>>
  BY DEF ValidateTenant
<1>2. /\ UNCHANGED <<board, stage, tracked, txn, harvested>> /\ Quiet /\ Calm
      /\ stage = "validate" /\ left = {}
  BY DEF ValidateTenant
<1>3. PICK t \in Mined, s \in Boards \cup {HostOnly} : t = x[1] /\ s = x[2]
  BY DEF CrawlInv, CrawlTypeOK, Locations
<1>4. t \in Tenants /\ crashes' \in 0..MaxCrashes
  BY <1>2, MinedTenants, CrashesBounded
<1>5. WorkSeen' /\ todo' \subseteq Locations
  BY <1>1, <1>2 DEF WorkSeen, CrawlInv, CrawlTypeOK
<1>6. CASE Update(t, "unreachable", s) /\ UNCHANGED <<left, aux_valid>>
  <2>1. Inv' /\ \A u \in Tenants : Remembers(u)
    BY <1>2, <1>4, <1>6, CrawlQuiet
  <2>2. /\ tenant' \in [Mined -> [status : BoardStatus, server : Locator]]
        /\ AcceptedSeen' /\ MarksKept' /\ RowsLocated'
    <3>1. "unreachable" \notin Accepted
      BY DEF Accepted
    <3>2. \A u \in Tenants : aux_valid[u] \subseteq aux_valid'[u]
      BY <1>6
    <3> QED
      BY <1>2, <1>6, <3>1, <3>2, RowUpdated
  <2>3. CrawlTypeOK'
    BY <1>2, <1>5, <1>6, <2>2 DEF CrawlInv, CrawlTypeOK
  <2>4. LeftSeen' /\ TxnSeen'
    BY <1>2, <1>6 DEF CrawlInv, LeftSeen, TxnSeen
  <2> QED
    BY <1>5, <2>1, <2>2, <2>3, <2>4 DEF CrawlInv, BothKept
<1>7. ASSUME NEW b \in FindBoard(t, s), Update(t, CountJobs(t, b), b),
             left' = {<<t, c, CountJobs(t, c)>> : c \in AllBoards(t, b) \cup {b}},
             aux_valid' = [aux_valid EXCEPT ![t] =
                   @ \cup {y[2] : y \in {z \in left' : z[3] \in Accepted}}]
      PROVE  BothKept
  <2>1. b \in Boards /\ AllBoards(t, b) \subseteq Boards
    BY LiveBoards DEF FindBoard, AllBoards
  <2>2. ASSUME NEW y \in left'
        PROVE  /\ y \in Mined \X Boards \X BoardStatus /\ y[1] = t
               /\ y[3] \in {"active", "no_target_jobs", "unreachable"}
    <3>1. PICK c \in AllBoards(t, b) \cup {b} : y = <<t, c, CountJobs(t, c)>>
      BY <1>7
    <3>2. CountJobs(t, c) \in {"active", "no_target_jobs", "unreachable"} /\ c \in Boards
      BY <2>1, CountTyped
    <3> QED
      BY <3>1, <3>2 DEF BoardStatus
  <2> DEFINE seen == {y[2] : y \in {z \in left' : z[3] \in Accepted}}
  <2>3. seen \subseteq Boards
    BY <2>2
  <2>4. \A y \in left' : y[3] \in Accepted => y[2] \in seen
    OBVIOUS
  <2>5. <<t, b, CountJobs(t, b)>> \in left'
    BY <1>7
  <2>6. aux_valid' = [aux_valid EXCEPT ![t] = @ \cup seen]
    BY <1>7
  <2> HIDE DEF seen
  <2>7. \A u \in Tenants : aux_valid'[u] = IF u = t THEN aux_valid[u] \cup seen ELSE aux_valid[u]
    BY <1>4, <2>6 DEF Inv, TypeOK
  <2>8. aux_valid' \in [Tenants -> SUBSET (Boards \cup {Whole})]
    BY <1>4, <2>3, <2>6 DEF Inv, TypeOK
  <2>9. \A u \in Tenants : aux_valid[u] \subseteq aux_valid'[u]
    BY <2>7
  <2>10. Inv' /\ \A u \in Tenants : Remembers(u)
    <3>1. /\ harvested' \in [Tenants -> SUBSET (Boards \cup {Whole})]
          /\ \A u \in Tenants : harvested'[u] \subseteq aux_valid'[u]
      BY <1>2, <2>9 DEF Inv, TypeOK, HarvestedWasValidated
    <3> QED
      BY <1>2, <1>4, <2>8, <2>9, <3>1, CrawlKeepsRegistry
  <2>11. CountJobs(t, b) \in Accepted => b \in aux_valid'[t]
    <3>1. CountJobs(t, b) \in Accepted => b \in seen
      BY <2>4, <2>5
    <3> QED
      BY <1>4, <2>7, <3>1
  <2>12. /\ tenant' \in [Mined -> [status : BoardStatus, server : Locator]]
         /\ AcceptedSeen' /\ MarksKept' /\ RowsLocated'
    BY <1>2, <1>7, <2>1, <2>9, <2>11, CountTyped, RowUpdated
  <2>13. CrawlTypeOK'
    BY <1>2, <1>5, <2>2, <2>12 DEF CrawlInv, CrawlTypeOK
  <2>14. LeftSeen'
    <3>1. ASSUME NEW y \in left'
          PROVE  y[3] = "unreachable" \/ (y[3] \in Accepted /\ y[2] \in aux_valid'[y[1]])
      <4>1. y[3] = "unreachable" \/ y[3] \in Accepted
        BY <2>2 DEF Accepted
      <4>2. y[3] \in Accepted => y[2] \in aux_valid'[t]
        BY <1>4, <2>4, <2>7
      <4> QED
        BY <2>2, <4>1, <4>2
    <3> QED
      BY <3>1 DEF LeftSeen
  <2>15. TxnSeen'
    <3>1. ASSUME NEW y \in txn PROVE y[3] \in aux_valid'[y[2]]
      <4>1. y[2] \in Tenants /\ y[3] \in aux_valid[y[2]]
        BY MinedTenants DEF CrawlInv, CrawlTypeOK, TxnSeen
      <4> QED
        BY <2>9, <4>1
    <3> QED
      BY <1>2, <3>1 DEF TxnSeen
  <2> QED
    BY <1>5, <2>10, <2>12, <2>13, <2>14, <2>15 DEF CrawlInv, BothKept
<1> QED
  BY <1>1, <1>3, <1>6, <1>7

LEMMA FailTenantSafe == ASSUME Inv, CrawlInv, FailTenant PROVE BothKept
<1>1. PICK x \in todo : todo' = todo \ {x} /\ (Update(x[1], "unreachable", x[2]) \/ UNCHANGED tenant)
  BY DEF FailTenant
<1>2. /\ UNCHANGED <<board, stage, tracked, left, txn, harvested, aux_valid>> /\ Quiet /\ Failing
      /\ stage = "validate"
  BY DEF FailTenant
<1>3. PICK t \in Mined, s \in Boards \cup {HostOnly} : t = x[1] /\ s = x[2]
  BY DEF CrawlInv, CrawlTypeOK, Locations
<1>4. Inv' /\ \A u \in Tenants : Remembers(u)
  BY <1>2, CrawlQuiet, CrashesBounded
<1>5. \A u \in Tenants : aux_valid[u] \subseteq aux_valid'[u] /\ harvested[u] \subseteq harvested'[u]
  BY <1>2
<1>6. /\ tenant' \in [Mined -> [status : BoardStatus, server : Locator]]
      /\ AcceptedSeen' /\ MarksKept' /\ RowsLocated'
  <2>1. CASE Update(t, "unreachable", s)
    <3>1. "unreachable" \notin Accepted
      BY DEF Accepted
    <3> QED
      BY <1>2, <1>5, <2>1, <3>1, RowUpdated
  <2>2. CASE UNCHANGED tenant
    BY <1>2, <1>5, <2>2, TablesStay DEF CrawlInv, CrawlTypeOK
  <2> QED
    BY <1>1, <1>3, <2>1, <2>2
<1>7. CrawlTypeOK'
  BY <1>1, <1>2, <1>6 DEF CrawlInv, CrawlTypeOK
<1>8. LeftSeen' /\ WorkSeen' /\ TxnSeen'
  BY <1>2 DEF CrawlInv, LeftSeen, WorkSeen, TxnSeen
<1> QED
  BY <1>4, <1>6, <1>7, <1>8 DEF CrawlInv, BothKept

LEMMA RecordBoardSafe == ASSUME Inv, CrawlInv, RecordBoard PROVE BothKept
<1>1. PICK y \in left :
        /\ left' = left \ {y}
        /\ \/ board' = [board EXCEPT ![y[1]][y[2]] = y[3]] /\ Calm
           \/ UNCHANGED board /\ Failing
  BY DEF RecordBoard
<1>2. /\ UNCHANGED <<tenant, stage, tracked, todo, txn, harvested, aux_valid>> /\ Quiet
      /\ stage = "validate"
  BY DEF RecordBoard
<1>3. Inv' /\ \A u \in Tenants : Remembers(u)
  BY <1>1, <1>2, CrawlQuiet, CrashesBounded
<1>4. CrawlTypeOK' /\ AcceptedSeen' /\ MarksKept' /\ RowsLocated'
  <2>1. CASE UNCHANGED board
    BY <1>1, <1>2, <2>1, TablesStay DEF CrawlInv, CrawlTypeOK
  <2>2. CASE board' = [board EXCEPT ![y[1]][y[2]] = y[3]]
    <3>1. y[1] \in Mined /\ y[2] \in Boards /\ y[3] \in BoardStatus
      BY DEF CrawlInv, CrawlTypeOK
    <3>2. /\ y[3] # "integrated"
          /\ y[3] \in Accepted => y[2] \in aux_valid[y[1]]
      BY DEF CrawlInv, LeftSeen, Accepted
    <3>3. \A t \in Mined, b \in Boards :
            board'[t][b] = IF t = y[1] /\ b = y[2] THEN y[3] ELSE board[t][b]
      BY <2>2, <3>1 DEF CrawlInv, CrawlTypeOK
    <3>4. board' \in [Mined -> [Boards -> BoardStatus]]
      BY <2>2, <3>1 DEF CrawlInv, CrawlTypeOK
    <3>5. CrawlTypeOK'
      BY <1>1, <1>2, <3>4 DEF CrawlInv, CrawlTypeOK
    <3>6. AcceptedSeen'
      BY <1>2, <3>2, <3>3 DEF CrawlInv, AcceptedSeen, AcceptedBoard
    <3>7. MarksKept' /\ RowsLocated'
      BY <1>2, <3>2, <3>3 DEF CrawlInv, MarksKept, Integrated, RowsLocated
    <3> QED
      BY <3>5, <3>6, <3>7
  <2> QED
    BY <1>1, <2>1, <2>2
<1>5. LeftSeen' /\ WorkSeen' /\ TxnSeen'
  BY <1>1, <1>2 DEF CrawlInv, LeftSeen, WorkSeen, TxnSeen
<1> QED
  BY <1>3, <1>4, <1>5 DEF CrawlInv, BothKept

-----------------------------------------------------------------------------
\* Integration.

\* The rows an integration loads are of boards that validations saw.
LEMMA LoadSafeForCrawl == ASSUME Inv, CrawlInv, LoadTenants \/ LoadBoards PROVE BothKept
<1>1. /\ UNCHANGED <<tenant, board, tracked, left, txn, harvested, aux_valid>> /\ Quiet /\ Calm
      /\ stage' \in Stages /\ todo' \in {ReadyTenants, ReadyBoards}
  BY DEF LoadTenants, LoadBoards, Stages
<1>2. Inv' /\ \A u \in Tenants : Remembers(u)
  BY <1>1, CrawlQuiet, CrashesBounded
<1>3. AcceptedSeen' /\ MarksKept' /\ RowsLocated'
  BY <1>1, TablesStay
<1>4. ASSUME NEW x \in ReadyTenants PROVE x \in Mined \X Boards /\ x[2] \in aux_valid[x[1]] \cap Boards
  <2>1. PICK t \in Mined : /\ x = <<t, tenant[t].server>>
                           /\ tenant[t].status \in Accepted /\ tenant[t].server \in Boards
    BY DEF ReadyTenants
  <2>2. AcceptedBoard(t, tenant[t].server)
    BY <2>1 DEF AcceptedBoard
  <2> QED
    BY <2>1, <2>2 DEF CrawlInv, AcceptedSeen
<1>5. ASSUME NEW x \in ReadyBoards PROVE x \in Mined \X Boards /\ x[2] \in aux_valid[x[1]] \cap Boards
  <2>1. x \in Mined \X Boards /\ board[x[1]][x[2]] \in Accepted
    BY DEF ReadyBoards
  <2>2. AcceptedBoard(x[1], x[2])
    BY <2>1 DEF AcceptedBoard
  <2> QED
    BY <2>1, <2>2 DEF CrawlInv, AcceptedSeen
<1>6. CrawlTypeOK'
  BY <1>1, <1>4, <1>5 DEF CrawlInv, CrawlTypeOK, Locations
<1>7. WorkSeen'
  BY <1>1, <1>4, <1>5 DEF WorkSeen
<1>8. LeftSeen' /\ TxnSeen'
  BY <1>1 DEF CrawlInv, LeftSeen, TxnSeen
<1> QED
  BY <1>2, <1>3, <1>6, <1>7, <1>8 DEF CrawlInv, BothKept

LEMMA IntegrateRowSafe == ASSUME Inv, CrawlInv, IntegrateRow PROVE BothKept
<1>1. PICK x \in todo :
        /\ todo' = todo \ {x}
        /\ \/ txn' = txn \cup {<<stage, x[1], x[2]>>} /\ Calm
           \/ txn' = {} /\ Failing
  BY DEF IntegrateRow, RollBack
<1>2. /\ UNCHANGED <<tenant, board, stage, tracked, left, harvested, aux_valid>> /\ Quiet
      /\ stage \in {"tenants", "boards"}
  BY DEF IntegrateRow
<1>3. Inv' /\ \A u \in Tenants : Remembers(u)
  BY <1>1, <1>2, CrawlQuiet, CrashesBounded
<1>4. AcceptedSeen' /\ MarksKept' /\ RowsLocated'
  BY <1>2, TablesStay
<1>5. x[1] \in Mined /\ x[2] \in Boards /\ x[2] \in aux_valid[x[1]]
  BY <1>2 DEF CrawlInv, CrawlTypeOK, WorkSeen, Locations
<1>6. CrawlTypeOK'
  BY <1>1, <1>2, <1>5 DEF CrawlInv, CrawlTypeOK
<1>7. TxnSeen'
  BY <1>1, <1>2, <1>5 DEF CrawlInv, TxnSeen
<1>8. LeftSeen' /\ WorkSeen'
  BY <1>1, <1>2 DEF CrawlInv, LeftSeen, WorkSeen
<1> QED
  BY <1>3, <1>4, <1>6, <1>7, <1>8 DEF CrawlInv, BothKept

\* The boards and their marks come in one transaction.
LEMMA CommitSafe == ASSUME Inv, CrawlInv, Commit PROVE BothKept
<1>1. /\ harvested' = [t \in Tenants |-> harvested[t] \cup {x[3] : x \in {y \in txn : y[2] = t}}]
      /\ tenant' = [t \in Mined |-> IF <<"tenants", t, tenant[t].server>> \in txn
                        THEN [tenant[t] EXCEPT !.status = "integrated"] ELSE tenant[t]]
      /\ board' = [t \in Mined |-> [b \in Boards |->
                      IF <<"boards", t, b>> \in txn THEN "integrated" ELSE board[t][b]]]
      /\ txn' = {} /\ stage' = "idle"
      /\ UNCHANGED <<tracked, todo, left, aux_valid>> /\ Quiet /\ Calm
  BY DEF Commit
<1>2. \A x \in txn : x[2] \in Mined /\ x[2] \in Tenants /\ x[3] \in Boards /\ x[3] \in aux_valid[x[2]]
  BY MinedTenants DEF CrawlInv, CrawlTypeOK, TxnSeen
<1>3. ASSUME NEW u \in Tenants
      PROVE  /\ harvested[u] \subseteq harvested'[u] /\ harvested'[u] \subseteq aux_valid[u]
             /\ harvested'[u] \subseteq Boards \cup {Whole}
  <2>1. harvested'[u] = harvested[u] \cup {x[3] : x \in {y \in txn : y[2] = u}}
    BY <1>1
  <2>2. harvested[u] \subseteq aux_valid[u] /\ harvested[u] \subseteq Boards \cup {Whole}
    BY DEF Inv, TypeOK, HarvestedWasValidated
  <2> QED
    BY <1>2, <2>1, <2>2
<1>4. \A x \in txn : x[3] \in harvested'[x[2]]
  BY <1>1, <1>2
<1>5. Inv' /\ \A u \in Tenants : Remembers(u)
  <2>1. harvested' \in [Tenants -> SUBSET (Boards \cup {Whole})]
    BY <1>1, <1>3
  <2>2. aux_valid' \in [Tenants -> SUBSET (Boards \cup {Whole})]
    BY <1>1 DEF Inv, TypeOK
  <2>3. crashes' \in 0..MaxCrashes
    BY <1>1, CrashesBounded
  <2> QED
    BY <1>1, <1>3, <2>1, <2>2, <2>3, CrawlKeepsRegistry
<1>6. ASSUME NEW t \in Mined
      PROVE  \/ tenant'[t] = tenant[t]
             \/ /\ tenant'[t] \in [status : BoardStatus, server : Locator]
                /\ tenant'[t].server = tenant[t].server /\ tenant'[t].status = "integrated"
                /\ tenant[t].server \in harvested'[t] /\ tenant[t].server \in aux_valid[t]
                /\ tenant[t].server \in Boards
  <2>1. CASE <<"tenants", t, tenant[t].server>> \in txn
    <3>1. tenant[t] \in [status : BoardStatus, server : Locator] /\ "integrated" \in BoardStatus
      BY DEF CrawlInv, CrawlTypeOK, BoardStatus
    <3>2. tenant'[t] = [tenant[t] EXCEPT !.status = "integrated"]
      BY <1>1, <2>1
    <3>3. /\ tenant'[t] \in [status : BoardStatus, server : Locator]
          /\ tenant'[t].server = tenant[t].server /\ tenant'[t].status = "integrated"
      BY <3>1, <3>2
    <3> QED
      BY <1>2, <1>4, <2>1, <3>3
  <2>2. CASE <<"tenants", t, tenant[t].server>> \notin txn
    BY <1>1, <2>2
  <2> QED
    BY <2>1, <2>2
<1>7. ASSUME NEW t \in Mined, NEW b \in Boards
      PROVE  \/ board'[t][b] = board[t][b]
             \/ board'[t][b] = "integrated" /\ b \in harvested'[t] /\ b \in aux_valid[t]
  BY <1>1, <1>2, <1>4
<1>8. CrawlTypeOK'
  <2>1. tenant' \in [Mined -> [status : BoardStatus, server : Locator]]
    <3>1. tenant' = [t \in Mined |-> tenant'[t]]
      BY <1>1
    <3>2. \A t \in Mined : tenant[t] \in [status : BoardStatus, server : Locator]
      BY DEF CrawlInv, CrawlTypeOK
    <3> QED
      BY <1>6, <3>1, <3>2
  <2>2. board' \in [Mined -> [Boards -> BoardStatus]]
    <3>1. \A t \in Mined, b \in Boards : board[t][b] \in BoardStatus
      BY DEF CrawlInv, CrawlTypeOK
    <3>2. "integrated" \in BoardStatus
      BY DEF BoardStatus
    <3> QED
      BY <1>1, <3>1, <3>2
  <2> QED
    BY <1>1, <2>1, <2>2 DEF CrawlInv, CrawlTypeOK, Stages
<1>9. AcceptedSeen'
  <2>1. ASSUME NEW t \in Mined, NEW b \in Boards, AcceptedBoard(t, b)' PROVE b \in aux_valid[t]
    <3>1. AcceptedBoard(t, b) \/ b \in aux_valid[t]
      BY <1>6, <1>7, <2>1 DEF AcceptedBoard
    <3> QED
      BY <3>1 DEF CrawlInv, AcceptedSeen
  <2> QED
    BY <1>1, <2>1 DEF AcceptedSeen
<1>10. MarksKept'
  <2>1. ASSUME NEW t \in Mined, NEW b \in Boards, Integrated(t, b)' PROVE b \in harvested'[t]
    <3>1. Integrated(t, b) \/ b \in harvested'[t]
      BY <1>6, <1>7, <2>1 DEF Integrated
    <3>2. harvested[t] \subseteq harvested'[t]
      BY <1>3, MinedTenants
    <3> QED
      BY <3>1, <3>2 DEF CrawlInv, MarksKept
  <2> QED
    BY <2>1 DEF MarksKept
<1>11. RowsLocated'
  BY <1>6 DEF CrawlInv, RowsLocated
<1>12. LeftSeen' /\ WorkSeen' /\ TxnSeen'
  BY <1>1 DEF CrawlInv, LeftSeen, WorkSeen, TxnSeen
<1> QED
  BY <1>5, <1>8, <1>9, <1>10, <1>11, <1>12 DEF CrawlInv, BothKept

LEMMA CrawlCrashSafe == ASSUME Inv, CrawlInv, CrawlCrash PROVE BothKept
<1>1. /\ UNCHANGED <<tenant, board, harvested, aux_valid>> /\ Quiet /\ Failing
      /\ stage' = "idle" /\ tracked' = {} /\ todo' = {} /\ left' = {} /\ txn' = {}
  BY DEF CrawlCrash
<1>2. Inv' /\ \A u \in Tenants : Remembers(u)
  BY <1>1, CrawlQuiet, CrashesBounded
<1>3. AcceptedSeen' /\ MarksKept' /\ RowsLocated'
  BY <1>1, TablesStay
<1>4. CrawlTypeOK'
  BY <1>1 DEF CrawlInv, CrawlTypeOK, Stages
<1>5. LeftSeen' /\ WorkSeen' /\ TxnSeen'
  BY <1>1 DEF LeftSeen, WorkSeen, TxnSeen
<1> QED
  BY <1>2, <1>3, <1>4, <1>5 DEF CrawlInv, BothKept

-----------------------------------------------------------------------------

LEMMA BothNextInv == Inv /\ CrawlInv /\ [RegistryNext \/ CrawlNext]_allVars => BothKept
<1> SUFFICES ASSUME Inv, CrawlInv, [RegistryNext \/ CrawlNext]_allVars PROVE BothKept
  OBVIOUS
<1>1. CASE RegistryNext
  BY <1>1, RegistryKeepsCrawl DEF RegistryNext
<1>2. CASE CrawlNext
  BY <1>2, StartCrawlSafe, MineSafe, SaveTenantsSafe, SaveBoardsSafe, ValidateTenantSafe,
     RecordBoardSafe, LoadSafeForCrawl, IntegrateRowSafe, CommitSafe, FailTenantSafe, CrawlCrashSafe
     DEF CrawlNext, CrawlStep
<1>3. CASE UNCHANGED allVars
  BY <1>3, RegistryKeepsCrawl DEF allVars
<1> QED
  BY <1>1, <1>2, <1>3

LEMMA BothInvariance == BothSpec => [](Inv /\ CrawlInv)
<1>1. BothInit => Inv /\ CrawlInv
  BY InitInv, CrawlInitInv DEF BothInit
<1>2. Inv /\ CrawlInv /\ [RegistryNext \/ CrawlNext]_allVars => (Inv /\ CrawlInv)'
  BY BothNextInv DEF BothKept
<1> QED
  BY <1>1, <1>2, PTL DEF BothSpec

\* Every state of the registry and of the crawl's two tables is one of the
\* types they declare.
THEOREM CrawlTypeCorrect == BothSpec => [](TypeOK /\ CrawlTypeOK)
<1>1. Inv /\ CrawlInv => TypeOK /\ CrawlTypeOK
  BY DEF Inv, CrawlInv
<1> QED
  BY <1>1, BothInvariance, PTL

\* integrate_ats_candidates.py and validate_workday_tenants.py --integrate fill
\* one table: with the weekly crawl beside the lanes, too, no board is
\* harvested that a validation did not see.
THEOREM BothHarvestOnlyValidated == BothSpec => []HarvestedWasValidated
<1>1. Inv => HarvestedWasValidated
  BY DEF Inv
<1> QED
  BY <1>1, BothInvariance, PTL

\* validate_workday_tenants.py: what its tables accept, a validation saw, and
\* what they mark as integrated is harvested, whichever rows fail and roll back
\* others and wherever a task ends.  A mark is what keeps a board from being
\* integrated again: one without its board would keep the crawl from trying once more.
THEOREM MarksTellTruth == BothSpec => [](AcceptedSeen /\ MarksKept)
<1>1. CrawlInv => AcceptedSeen /\ MarksKept
  BY DEF CrawlInv
<1> QED
  BY <1>1, BothInvariance, PTL

\* The crawl does not touch the registry's rows: a full locator there gives way
\* to less only on a probe of the registry that did not find the board.
THEOREM BothRemember == BothSpec => BoardsRemembered
<1>1. Inv /\ CrawlInv /\ [RegistryNext \/ CrawlNext]_allVars =>
        [\A t \in Tenants :
            cand[t].server \in Boards /\ cand'[t].server \notin Boards =>
                cand'[t].status = "unreachable" /\ \E l \in Lanes : pc[l] = "validate"]_vars
  BY BothNextInv DEF BothKept, Remembers
<1> QED
  BY <1>1, BothInvariance, PTL DEF BothSpec, BoardsRemembered
=============================================================================
