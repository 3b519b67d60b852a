---------------------------- MODULE DerivedState ----------------------------
(***************************************************************************)
(* The derived columns of a posting: domain, category, experience level,   *)
(* embedding, skills, canonical opportunity and URL verdict are a cache of *)
(* the text and the URL an ingest stored.  The ingest invalidates them     *)
(* (python/ingest_jobs.py, ingest_job); the tasks of lander_nightly fill   *)
(* them, each reading rows, computing for minutes or hours, and writing by *)
(* job_id what it computed from the rows as it had read them.              *)
(*                                                                         *)
(* A text or a URL is a number, and a derived column holds the number of   *)
(* the text it was computed from, 0 when it is NULL.                       *)
(***************************************************************************)
EXTENDS Integers, FiniteSets

CONSTANTS
    Postings,      \* numbers, in the order of ingested_at
    Career,        \* postings of career hosts: their DAG crawls beside the night
    MaxText,       \* texts a posting may have
    MaxUrl,        \* URLs a posting may have
    Links,         \* the pairs of a text and a URL that sources offer
    ScopeNamed,    \* texts whose scope rule names a domain and a category
    Classifiable,  \* texts the classifier and the title heuristics can place
    NullBlocked,   \* texts whose title names a trade that is never covered
    Skilled,       \* texts of more than 500 characters that name a skill
    Levelled,      \* texts whose parse states an experience level
    Paid,          \* postings that state a salary
    Limit          \* rows one enrichment may select

Texts == 1..MaxText
ASSUME PostingsAssumption == Postings \subseteq Nat /\ Career \subseteq Postings /\ Paid \subseteq Postings
ASSUME TextsAssumption ==
    /\ MaxText \in Nat /\ MaxUrl \in Nat /\ Limit \in Nat
    /\ ScopeNamed \subseteq Texts /\ Classifiable \subseteq Texts /\ Skilled \subseteq Texts
    /\ NullBlocked \subseteq Texts /\ Levelled \subseteq Texts /\ Links \subseteq Texts \X (1..MaxUrl)

VARIABLES
    row,     \* job_postings and job_skills
    stage,   \* the task of the night that runs
    todo,    \* postings the running task has selected and not read yet
    read,    \* rows the running task has read and not written back yet
    aux_crossed, \* postings an ingest has met while a task held a row it had read
    aux_late     \* postings an ingest has met since the night's first task

auxVars == <<aux_crossed, aux_late>>
vars == <<row, stage, todo, read, auxVars>>

Origin == 0..MaxText
Row == [text : Origin, url : 0..MaxUrl,
        age : 0..3,                        \* days since ingested_at, capped
        domain : Origin, category : Origin,
        level : Origin,                    \* experience_level
        guessed : BOOLEAN,                 \* it is not the one in experience_level_v3
        embedding : Origin, skills : SUBSET Texts, canonical : Origin,
        dead : BOOLEAN,                    \* source_quality_status dead_url
        checked : 0..MaxUrl,               \* the URL source_http_status is about
        public : BOOLEAN]
NoRow == [text |-> 0, url |-> 0, age |-> 0, domain |-> 0, category |-> 0, level |-> 0,
          guessed |-> FALSE, embedding |-> 0, skills |-> {}, canonical |-> 0, dead |-> FALSE,
          checked |-> 0, public |-> FALSE]
Stages == {"crawl", "reclassify", "prepass", "enrich", "derive", "embed",
           "experience", "canonicalize", "validate", "publish"}
Nothing == [p \in Postings |-> NoRow]

Init ==
    /\ row = Nothing
    /\ stage = "crawl"
    /\ todo = {}
    /\ read = Nothing
    /\ aux_crossed = {} /\ aux_late = {}

-----------------------------------------------------------------------------

Stored(p) == row[p].text # 0
Reading == \E p \in Postings : read[p] # NoRow
OrElse(a, b) == IF a # 0 THEN a ELSE b

\* The text rules: what each makes of a text, or nothing.
Scope(t) == IF t \in ScopeNamed THEN t ELSE 0
ByTitleOrSkills(t) == IF t \in Classifiable THEN t ELSE 0
Classify(t) == IF t \in NullBlocked THEN 0 ELSE ByTitleOrSkills(t)
CategoryOf(t) == IF t \in Classifiable THEN t ELSE 0
LevelOf(t) == IF t \in Levelled THEN t ELSE 0
SkillsOf(t) == IF t \in Skilled THEN {t} ELSE {}

\* Seeded fault: a changed text leaves the skills of the old one.
KeepsSkills(r) ==
    [r EXCEPT !.domain = 0, !.category = 0, !.level = 0, !.guessed = FALSE, !.embedding = 0]

\* The description changed: everything derived from it is dropped.
Invalidated(r) ==
    [r EXCEPT !.domain = 0, !.category = 0, !.level = 0, !.guessed = FALSE,
              !.embedding = 0, !.skills = {}]

\* Seeded fault: the verdict survives a change of the URL.
KeepsVerdict(r, u) == [r EXCEPT !.url = u]

\* A new URL has no verdict yet.
Relinked(r, u) ==
    IF r.url = u THEN r ELSE [r EXCEPT !.url = u, !.dead = FALSE, !.checked = 0]

\* The scope decision fills what is NULL, of the row as it was.
Scoped(r, t) ==
    [r EXCEPT !.text = t, !.domain = OrElse(@, Scope(t)), !.category = OrElse(@, Scope(t))]

\* ingest_job of text t at URL u; d is what the classifier made of the raw
\* markup, used only where the domain is still NULL.
Upserted(r, t, u, d) ==
    LET scoped == Scoped(Relinked(r, u), t)
        kept == IF r.text \notin {0, t} THEN Invalidated(scoped) ELSE scoped
    IN  [kept EXCEPT !.domain = OrElse(@, d)]

\* Crawls of the night end before its first task starts; the crawl of a career
\* host has a DAG of its own.
Crawl(p) ==
    /\ stage = "crawl" \/ p \in Career
    /\ \A q \in Postings : q < p => Stored(q)
    /\ \E link \in Links, found \in BOOLEAN :
          row' = [row EXCEPT ![p] =
                    Upserted(@, link[1], link[2], IF found THEN Classify(link[1]) ELSE 0)]
    /\ aux_crossed' = IF read[p] # NoRow THEN aux_crossed \cup {p} ELSE aux_crossed
    /\ aux_late' = IF stage # "crawl" THEN aux_late \cup {p} ELSE aux_late
    /\ UNCHANGED <<stage, todo, read>>

\* A task reads the rows it selects and goes on to write them.
ReadAll(next, selected) ==
    /\ stage' = next
    /\ read' = [p \in Postings |-> IF p \in selected THEN row[p] ELSE NoRow]
    /\ todo' = {}
    /\ UNCHANGED <<row, auxVars>>

\* A task writes one row by its job_id, computed from what it had read.
WriteOne(p, written) ==
    /\ read[p] # NoRow
    /\ row' = [row EXCEPT ![p] = written]
    /\ read' = [read EXCEPT ![p] = NoRow]
    /\ UNCHANGED <<stage, todo, auxVars>>

\* reclassify_domains: rows ingested today whose domain would be another.
StartReclassify ==
    /\ stage = "crawl"
    /\ ReadAll("reclassify", {p \in Postings : /\ Stored(p) /\ row[p].age = 0
                                               /\ row[p].domain # Classify(row[p].text)})

WriteDomain(p) ==
    /\ stage = "reclassify"
    /\ WriteOne(p, [row[p] EXCEPT !.domain = Classify(read[p].text)])

\* The selection of enrich_jobs, oldest rows first.
Missing(p) ==
    /\ Stored(p)
    /\ \/ p \notin Paid
       \/ row[p].domain = 0 \/ row[p].category = 0 \/ row[p].level = 0 \/ row[p].skills = {}
Selected == {p \in Postings : Missing(p) /\ Cardinality({q \in Postings : Missing(q) /\ q < p}) < Limit}

StartEnrich ==
    /\ stage = "reclassify" /\ ~Reading
    /\ ReadAll("prepass", Selected)

\* Seeded fault: enrichment leaves domains to the reclassification.
NonePlaced == {}

Placed == {p \in Postings : read[p].domain = 0 /\ Classify(read[p].text) # 0}
InDomain(rows) == [p \in Postings |-> IF p \in Placed
                                       THEN [rows[p] EXCEPT !.domain = read[p].text] ELSE rows[p]]

\* Rows without a domain are classified and committed before anything else.
PrePass ==
    /\ stage = "prepass"
    /\ row' = InDomain(row) /\ read' = InDomain(read)
    /\ stage' = "enrich"
    /\ UNCHANGED <<todo, auxVars>>

\* What the parse of the text read states of the level.
Levels(r, old) ==
    IF LevelOf(old.text) # 0 THEN [r EXCEPT !.level = LevelOf(old.text), !.guessed = TRUE] ELSE r

\* What enrich_jobs writes of the text it had read.
Enriched(r, old) ==
    [Levels(r, old) EXCEPT
              !.category = IF old.domain # 0 /\ old.category = 0
                           THEN OrElse(CategoryOf(old.text), @) ELSE @,
              !.skills = IF old.skills = {} /\ old.domain # 0
                         THEN @ \cup SkillsOf(old.text) ELSE @]

WriteEnriched(p) ==
    /\ stage = "enrich"
    /\ WriteOne(p, Enriched(row[p], read[p]))

FinishEnrich ==
    /\ stage = "enrich" /\ ~Reading
    /\ ReadAll("derive", {})

\* extract_skills_sql is one statement; it runs beside the embedding.
ExtractSkills ==
    /\ stage \in {"derive", "embed", "experience"}
    /\ row' = [p \in Postings |->
                 IF Stored(p) /\ row[p].age < 3 /\ row[p].domain # 0 /\ row[p].skills = {}
                 THEN [row[p] EXCEPT !.skills = SkillsOf(row[p].text)] ELSE row[p]]
    /\ UNCHANGED <<stage, todo, read, auxVars>>

Unembedded(p) == Stored(p) /\ row[p].embedding = 0 /\ row[p].domain # 0

\* embed_jobs lists its companies first and reads each company when its turn comes.
StartEmbed ==
    /\ stage = "derive"
    /\ stage' = "embed"
    /\ todo' = {p \in Postings : Unembedded(p)}
    /\ UNCHANGED <<row, read, auxVars>>

ReadForEmbedding(p) ==
    /\ stage = "embed" /\ p \in todo
    /\ todo' = todo \ {p}
    /\ read' = IF Unembedded(p) THEN [read EXCEPT ![p] = row[p]] ELSE read
    /\ UNCHANGED <<row, stage, auxVars>>

WriteEmbedding(p) ==
    /\ stage = "embed"
    /\ WriteOne(p, [row[p] EXCEPT !.embedding = read[p].text])

StartExperience ==
    /\ stage = "embed" /\ todo = {} /\ ~Reading
    /\ ReadAll("experience", {})

\* Seeded fault: a level another task wrote is taken for a classified one.
OnlyUnlevelled(p) == Stored(p) /\ row[p].domain # 0 /\ row[p].level = 0

Unclassified(p) ==
    /\ Stored(p) /\ row[p].domain # 0
    /\ row[p].level = 0 \/ row[p].guessed

\* classify_exp_level_v2 reads one batch after another until none is left.
ReadForLevel(p) ==
    /\ stage = "experience" /\ Unclassified(p)
    /\ read' = [read EXCEPT ![p] = row[p]]
    /\ UNCHANGED <<row, stage, todo, auxVars>>

WriteLevel(p) ==
    /\ stage = "experience"
    /\ WriteOne(p, [row[p] EXCEPT !.level = read[p].text, !.guessed = FALSE])

\* canonicalize_opportunities groups all rows it read, then updates them at once.
StartCanonicalize ==
    /\ stage = "experience" /\ ~Reading
    /\ \A p \in Postings : ~Unclassified(p)
    /\ ReadAll("canonicalize", {p \in Postings : Stored(p)})

\* Seeded fault: only rows without a group are grouped.
GroupsNewOnly(p) == OrElse(row[p].canonical, read[p].text)

Grouped(p) == IF read[p] = NoRow THEN row[p].canonical ELSE read[p].text

WriteCanonical ==
    /\ stage = "canonicalize"
    /\ row' = [p \in Postings |-> [row[p] EXCEPT !.canonical = Grouped(p)]]
    /\ stage' = "validate" /\ read' = Nothing
    /\ UNCHANGED <<todo, auxVars>>

\* validate_public_source_urls: rows never checked, or due again.
StartValidate ==
    /\ stage = "validate" /\ ~Reading
    /\ \E due \in SUBSET {p \in Postings : Stored(p) /\ (row[p].public \/ row[p].dead)} :
          ReadAll("validate", due \cup {p \in Postings : Stored(p) /\ row[p].checked = 0})

Judged(r, old, verdict) ==
    [r EXCEPT !.checked = old.url,
              !.dead = CASE verdict = "dead" -> TRUE
                         [] verdict = "alive" -> FALSE
                         [] OTHER -> @]

WriteVerdicts ==
    /\ stage = "validate"
    /\ \E verdict \in [Postings -> {"alive", "dead", "inconclusive"}] :
          row' = [p \in Postings |-> IF read[p] = NoRow THEN row[p]
                                     ELSE Judged(row[p], read[p], verdict[p])]
    /\ stage' = "publish" /\ read' = Nothing
    /\ UNCHANGED <<todo, auxVars>>

\* What vw_lander_publication_candidates asks of a row, and its representatives.
Complete(r) == r.domain # 0 /\ r.category # 0 /\ r.level # 0 /\ r.embedding # 0
Eligible(p) == Stored(p) /\ Complete(row[p]) /\ ~row[p].dead
\* A posting no group was found for stands for itself.
Group(p) == IF row[p].canonical = 0 THEN <<"own", p>> ELSE <<"text", row[p].canonical>>
Candidate(p) ==
    /\ Eligible(p)
    /\ \A q \in Postings : Eligible(q) /\ Group(q) = Group(p) => p <= q

\* publish_snapshot; the night is over and a day passes.
Publish ==
    /\ stage = "publish"
    /\ row' = [p \in Postings |-> [row[p] EXCEPT !.public = Candidate(p),
                  !.age = IF Stored(p) /\ @ < 3 THEN @ + 1 ELSE @]]
    /\ stage' = "crawl"
    /\ aux_late' = {}
    /\ UNCHANGED <<todo, read, aux_crossed>>

\* A task fails or times out twice: the tasks after it do not run.
FailNight ==
    /\ stage # "crawl"
    /\ row' = [p \in Postings |-> [row[p] EXCEPT !.age = IF Stored(p) /\ @ < 3 THEN @ + 1 ELSE @]]
    /\ stage' = "crawl" /\ todo' = {} /\ read' = Nothing
    /\ aux_late' = {}
    /\ UNCHANGED aux_crossed

Next ==
    \/ \E p \in Postings : Crawl(p)
    \/ StartReclassify \/ \E p \in Postings : WriteDomain(p)
    \/ StartEnrich \/ PrePass \/ (\E p \in Postings : WriteEnriched(p)) \/ FinishEnrich
    \/ ExtractSkills
    \/ StartEmbed \/ \E p \in Postings : ReadForEmbedding(p) \/ WriteEmbedding(p)
    \/ StartExperience \/ \E p \in Postings : ReadForLevel(p) \/ WriteLevel(p)
    \/ StartCanonicalize \/ WriteCanonical
    \/ StartValidate \/ WriteVerdicts
    \/ Publish \/ FailNight

Spec == Init /\ [][Next]_vars

-----------------------------------------------------------------------------

TypeOK ==
    /\ row \in [Postings -> Row]
    /\ stage \in Stages
    /\ todo \subseteq Postings
    /\ read \in [Postings -> Row]
    /\ aux_crossed \subseteq Postings /\ aux_late \subseteq Postings

\* The columns the ingest resets come from the text the row has.  It does not
\* reset the yearly salary (module Enrichment) and the employment type.
Fresh(r) ==
    /\ r.domain \in {0, r.text} /\ r.category \in {0, r.text}
    /\ r.level \in {0, r.text} /\ r.embedding \in {0, r.text}
    /\ r.skills \subseteq {r.text}

\* "A changed description must invalidate them or an old classification or
\* embedding can be published with new source text": a domain, category, level,
\* embedding or skill of a text the posting no longer has can only come from an
\* ingest that met a task between its read and its write, though six tasks write
\* by job_id what they computed from rows read hours before.
NeverStale == \A p \in Postings \ aux_crossed : Fresh(row[p])

\* A posting is hidden as dead only for a verdict about the URL it has, unless
\* an ingest met the check between its read and its write.
VerdictOfThisUrl ==
    \A p \in Postings \ aux_crossed : row[p].dead => row[p].checked = row[p].url

\* One publication does not list one opportunity twice: the groups are those of
\* the texts being published, except of a posting ingested after the night's
\* tasks began.
OneListing ==
    [][Publish => \A p, q \in Postings \ aux_late :
         row'[p].public /\ row'[q].public /\ row[p].text = row[q].text => p = q]_vars

\* The levels that are published are the classifier's, although the enrichment
\* writes its own guess into the same column every night, except of a posting
\* ingested after the night's tasks began.
ClassifiedLevels ==
    [][Publish => \A p \in Postings \ aux_late : row'[p].public => ~row'[p].guessed]_vars

Placeable(t) == t \in Classifiable \ NullBlocked /\ t \in Skilled

\* Older rows that lack a column take all the places of an enrichment.
CrowdedOut(p) == Cardinality({q \in Postings : Missing(q) /\ q < p}) >= Limit

\* While nights keep completing, a posting whose text can be placed and stays as
\* it is gets every column publication asks for, or the enrichment keeps being
\* filled by older rows that lack something: rows that can never be placed are
\* selected again every night, before it.
NothingStranded ==
    \A p \in Postings :
        []<><<Publish>>_vars /\ <>[](Placeable(row[p].text)) /\ <>[][UNCHANGED row[p].text]_vars
            => <>[](Complete(row[p]) /\ row[p].skills # {}) \/ []<>CrowdedOut(p)

=============================================================================
