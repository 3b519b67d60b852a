------------------------- MODULE PublicationProofs -------------------------
(***************************************************************************)
(* What publication shows: the derived columns of the postings it takes,   *)
(* for any postings, texts, rules and limits, and the publisher itself,    *)
(* for every inventory, floor and number of publisher processes.           *)
(***************************************************************************)
EXTENDS DerivedState, Publication, FiniteSetTheorems, TLAPS

-----------------------------------------------------------------------------
(***************************************************************************)
(* The derived columns.  The invariant speaks of one posting at a time     *)
(* (Sound): unless an ingest has crossed a task that held it (aux_crossed) *)
(* its row is fresh; unless it came late (aux_late), the stages that rely  *)
(* on an earlier task find its work done; and what a task has read is the  *)
(* text and the URL the row still has, unless both.                        *)
(***************************************************************************)

\* The columns agree with the text, and a verdict with the URL.
RowOK(r) == Fresh(r) /\ (r.dead => r.checked = r.url)

\* The level is the classifier's wherever publication will look for one.
Classified(r) == r.text # 0 /\ r.domain # 0 => r.level # 0 /\ ~r.guessed

\* Row r of posting p, read by the running task as old, in stage s, when the
\* postings of C were crossed by an ingest and those of L came late.
Sound(p, r, old, s, C, L) ==
    /\ p \notin C => RowOK(r)
    /\ old # NoRow /\ p \notin C \cap L => old.text = r.text /\ old.url = r.url
    /\ s \in {"crawl", "publish"} => old = NoRow
    /\ s = "crawl" => p \notin L
    /\ p \notin L =>
          /\ s = "canonicalize" /\ r.text # 0 => old # NoRow
          /\ s \in {"validate", "publish"} /\ r.text # 0 => r.canonical = r.text
          /\ s \in {"canonicalize", "validate", "publish"} => Classified(r)

AllSound == \A p \in Postings : Sound(p, row[p], read[p], stage, aux_crossed, aux_late)
Inv == TypeOK /\ AllSound

LEMMA NoRowIsRow == NoRow \in Row /\ RowOK(NoRow) /\ Classified(NoRow)
  BY TextsAssumption, SMT DEF NoRow, Row, Origin, Texts, RowOK, Fresh, Classified

LEMMA InitInv == Init => Inv
<1> SUFFICES ASSUME Init PROVE Inv
  OBVIOUS
<1> USE DEF Init, Nothing
<1>1. TypeOK
  BY NoRowIsRow DEF TypeOK, Stages
<1>2. AllSound
  BY NoRowIsRow DEF AllSound, Sound, NoRow
<1> QED
  BY <1>1, <1>2 DEF Inv

\* A row stays a row when one of its columns is replaced.
LEMMA ColumnStays ==
  ASSUME NEW r \in Row
  PROVE  /\ \A x \in Origin :
               /\ [r EXCEPT !.text = x] \in Row /\ [r EXCEPT !.domain = x] \in Row
               /\ [r EXCEPT !.category = x] \in Row /\ [r EXCEPT !.level = x] \in Row
               /\ [r EXCEPT !.embedding = x] \in Row /\ [r EXCEPT !.canonical = x] \in Row
         /\ \A u \in 0..MaxUrl : [r EXCEPT !.url = u] \in Row /\ [r EXCEPT !.checked = u] \in Row
         /\ \A b \in BOOLEAN : /\ [r EXCEPT !.guessed = b] \in Row /\ [r EXCEPT !.dead = b] \in Row
                                /\ [r EXCEPT !.public = b] \in Row
         /\ \A S \in SUBSET Texts : [r EXCEPT !.skills = S] \in Row
         /\ \A n \in 0..3 : [r EXCEPT !.age = n] \in Row
<1>1. \A x \in Origin :
               /\ [r EXCEPT !.text = x] \in Row /\ [r EXCEPT !.domain = x] \in Row
               /\ [r EXCEPT !.category = x] \in Row /\ [r EXCEPT !.level = x] \in Row
               /\ [r EXCEPT !.embedding = x] \in Row /\ [r EXCEPT !.canonical = x] \in Row
  BY SMT DEF Row
<1>2. \A u \in 0..MaxUrl : [r EXCEPT !.url = u] \in Row /\ [r EXCEPT !.checked = u] \in Row
  BY SMT DEF Row
<1>3. \A b \in BOOLEAN : /\ [r EXCEPT !.guessed = b] \in Row /\ [r EXCEPT !.dead = b] \in Row
                          /\ [r EXCEPT !.public = b] \in Row
  BY SMT DEF Row
<1>4. \A S \in SUBSET Texts : [r EXCEPT !.skills = S] \in Row
  BY SMT DEF Row
<1>5. \A n \in 0..3 : [r EXCEPT !.age = n] \in Row
  BY SMT DEF Row
<1> QED
  BY <1>1, <1>2, <1>3, <1>4, <1>5

-----------------------------------------------------------------------------
\* The ingest.

\* What an ingest makes of a row: a row of the new text, with nothing of the old one.
LEMMA UpsertedOK ==
  ASSUME NEW r \in Row, NEW link \in Links, NEW d \in {0, link[1]}
  PROVE  /\ Upserted(r, link[1], link[2], d) \in Row
         /\ RowOK(r) => RowOK(Upserted(r, link[1], link[2], d))
<1> DEFINE t == link[1]
           u == link[2]
           linked == Relinked(r, u)
           scoped == Scoped(linked, t)
           kept == IF r.text \notin {0, t} THEN Invalidated(scoped) ELSE scoped
           new == [kept EXCEPT !.domain = OrElse(@, d)]
<1>0. t \in Texts /\ t \in Origin /\ t # 0 /\ u \in 0..MaxUrl /\ d \in {0, t} /\ Scope(t) \in {0, t}
      /\ 0 \in Origin /\ 0 \in 0..MaxUrl
  BY TextsAssumption, SMT DEF Texts, Origin, Scope
<1>1. Upserted(r, t, u, d) = new
  BY DEF Upserted
<1> HIDE DEF t, u
<1>2. /\ linked \in Row /\ linked.text = r.text
      /\ linked.domain = r.domain /\ linked.category = r.category /\ linked.level = r.level
      /\ linked.embedding = r.embedding /\ linked.skills = r.skills
      /\ (r.dead => r.checked = r.url) => (linked.dead => linked.checked = linked.url)
  <2>1. CASE r.url = u
    BY <2>1 DEF Relinked
  <2>2. CASE r.url # u
    <3> DEFINE a == [r EXCEPT !.url = u]
               b == [a EXCEPT !.dead = FALSE]
               c == [b EXCEPT !.checked = 0]
    <3>1. linked = [r EXCEPT !.url = u, !.dead = FALSE, !.checked = 0]
      BY <2>2 DEF Relinked
    <3> HIDE DEF linked
    <3>2. linked = c
      BY <3>1, Zenon
    <3>3. a \in Row
      BY <1>0, ColumnStays
    <3>4. b \in Row
      BY <3>3, ColumnStays
    <3>5. c \in Row
      BY <3>4, <1>0, ColumnStays
    <3>6. linked \in Row
      BY <3>2, <3>5
    <3> HIDE DEF a, b, c
    <3>7. /\ linked.text = r.text
          /\ linked.domain = r.domain /\ linked.category = r.category /\ linked.level = r.level
          /\ linked.embedding = r.embedding /\ linked.skills = r.skills /\ linked.dead = FALSE
      BY <3>1, SMT DEF Row
    <3> QED
      BY <3>6, <3>7
  <2> QED
    BY <2>1, <2>2
<1> HIDE DEF linked
<1>3. /\ scoped \in Row /\ scoped.text = t
      /\ scoped.domain = OrElse(linked.domain, Scope(t))
      /\ scoped.category = OrElse(linked.category, Scope(t))
      /\ scoped.level = linked.level /\ scoped.embedding = linked.embedding
      /\ scoped.skills = linked.skills
      /\ scoped.dead = linked.dead /\ scoped.checked = linked.checked /\ scoped.url = linked.url
  <2> DEFINE x == OrElse(linked.domain, Scope(t))
             y == OrElse(linked.category, Scope(t))
  <2>1. x \in Origin /\ y \in Origin
    BY <1>0, <1>2 DEF OrElse, Row
  <2>2. scoped = [linked EXCEPT !.text = t, !.domain = x, !.category = y]
    BY DEF Scoped
  <2> HIDE DEF x, y, scoped
  <2>3. /\ scoped \in Row /\ scoped.text = t /\ scoped.domain = x /\ scoped.category = y
        /\ scoped.level = linked.level /\ scoped.embedding = linked.embedding
        /\ scoped.skills = linked.skills
        /\ scoped.dead = linked.dead /\ scoped.checked = linked.checked /\ scoped.url = linked.url
    <3> DEFINE a == [linked EXCEPT !.text = t]
               b == [a EXCEPT !.domain = x]
               c == [b EXCEPT !.category = y]
    <3>1. a \in Row
      BY <1>0, <1>2, ColumnStays
    <3>2. b \in Row
      BY <3>1, <2>1, ColumnStays
    <3>3. c \in Row
      BY <3>2, <2>1, ColumnStays
    <3>4. scoped = c
      BY <2>2, Zenon
    <3>5. scoped \in Row
      BY <3>3, <3>4
    <3> HIDE DEF a, b, c
    <3> QED
      BY <3>5, <2>2, <1>2, SMT DEF Row
  <2> QED
    BY <2>3 DEF x, y
<1> HIDE DEF scoped
<1>4. /\ kept \in Row /\ kept.text = t
      /\ kept.dead = scoped.dead /\ kept.checked = scoped.checked /\ kept.url = scoped.url
      /\ Fresh(r) => Fresh(kept)
  <2>1. CASE r.text \notin {0, t}
    <3>1. kept = Invalidated(scoped)
      BY <2>1
    <3> HIDE DEF kept
    <3> DEFINE a == [scoped EXCEPT !.domain = 0]
               b == [a EXCEPT !.category = 0]
               c == [b EXCEPT !.level = 0]
               e == [c EXCEPT !.guessed = FALSE]
               f == [e EXCEPT !.embedding = 0]
               g == [f EXCEPT !.skills = {}]
    <3>2. a \in Row
      BY <1>0, <1>3, ColumnStays
    <3>3. b \in Row
      BY <3>2, <1>0, ColumnStays
    <3>4. c \in Row
      BY <3>3, <1>0, ColumnStays
    <3>5. e \in Row
      BY <3>4, ColumnStays
    <3>6. f \in Row
      BY <3>5, <1>0, ColumnStays
    <3>7. g \in Row
      BY <3>6, ColumnStays
    <3>8. kept = g
      BY <3>1, Zenon DEF Invalidated
    <3>9. kept \in Row
      BY <3>7, <3>8
    <3> HIDE DEF a, b, c, e, f, g
    <3>10. /\ kept.text = scoped.text /\ kept.domain = 0 /\ kept.category = 0 /\ kept.level = 0
           /\ kept.embedding = 0 /\ kept.skills = {}
           /\ kept.dead = scoped.dead /\ kept.checked = scoped.checked /\ kept.url = scoped.url
      BY <3>1, <1>3, SMT DEF Invalidated, Row
    <3> QED
      BY <3>9, <3>10, <1>3 DEF Fresh
  <2>2. CASE r.text \in {0, t}
    <3>1. kept = scoped
      BY <2>2
    <3> HIDE DEF kept
    <3>2. Fresh(r) => r.skills \subseteq {t}
      BY <2>2, TextsAssumption, SMT DEF Fresh, Row, Texts
    <3>3. ASSUME Fresh(r) PROVE Fresh(kept)
      BY <3>1, <3>2, <3>3, <2>2, <1>0, <1>2, <1>3 DEF Fresh, OrElse
    <3> QED
      BY <3>1, <3>3, <1>3
  <2> QED
    BY <2>1, <2>2
<1> HIDE DEF kept
<1>5. /\ new \in Row /\ new.text = t
      /\ new.domain = OrElse(kept.domain, d)
      /\ new.category = kept.category /\ new.level = kept.level
      /\ new.embedding = kept.embedding /\ new.skills = kept.skills
      /\ new.dead = kept.dead /\ new.checked = kept.checked /\ new.url = kept.url
  <2> DEFINE x == OrElse(kept.domain, d)
  <2>1. x \in Origin
    BY <1>0, <1>4 DEF OrElse, Row
  <2>2. new = [kept EXCEPT !.domain = x]
    OBVIOUS
  <2> HIDE DEF x, new
  <2>3. /\ new \in Row /\ new.text = t /\ new.domain = x
        /\ new.category = kept.category /\ new.level = kept.level
        /\ new.embedding = kept.embedding /\ new.skills = kept.skills
        /\ new.dead = kept.dead /\ new.checked = kept.checked /\ new.url = kept.url
    BY <2>1, <2>2, <1>4, SMT DEF Row
  <2> QED
    BY <2>3 DEF x
<1> HIDE DEF new
<1>6. RowOK(r) => RowOK(new)
  BY <1>0, <1>2, <1>3, <1>4, <1>5 DEF RowOK, Fresh, OrElse
<1> QED
  BY <1>1, <1>5, <1>6 DEF t, u

LEMMA CrawlKeeps == ASSUME Inv, NEW p \in Postings, Crawl(p) PROVE Inv'
<1>1. PICK link \in Links, found \in BOOLEAN :
        row' = [row EXCEPT ![p] = Upserted(row[p], link[1], link[2],
                                           IF found THEN Classify(link[1]) ELSE 0)]
  BY DEF Crawl
<1> DEFINE d == IF found THEN Classify(link[1]) ELSE 0
           new == Upserted(row[p], link[1], link[2], d)
<1>2. d \in {0, link[1]}
  BY DEF Classify, ByTitleOrSkills
<1>3. row[p] \in Row
  BY DEF Inv, TypeOK
<1> HIDE DEF d
<1>4. new \in Row /\ (RowOK(row[p]) => RowOK(new))
  BY <1>2, <1>3, UpsertedOK
<1>5. row' = [row EXCEPT ![p] = new]
  BY <1>1 DEF d
<1> HIDE DEF new
<1>6. UNCHANGED <<stage, todo, read>> /\ aux_crossed' \subseteq Postings /\ aux_late' \subseteq Postings
  BY DEF Crawl, Inv, TypeOK
<1>7. TypeOK'
  BY <1>4, <1>5, <1>6 DEF Inv, TypeOK
<1>8. ASSUME NEW q \in Postings PROVE Sound(q, row[q], read[q], stage, aux_crossed, aux_late)'
  <2>1. Sound(q, row[q], read[q], stage, aux_crossed, aux_late)
    BY <1>8 DEF Inv, AllSound
  <2>2. CASE q # p
    <3>1. row'[q] = row[q] /\ (q \in aux_crossed' <=> q \in aux_crossed)
          /\ (q \in aux_late' <=> q \in aux_late)
      BY <2>2, <1>5 DEF Inv, TypeOK, Crawl
    <3> QED
      BY <2>1, <3>1, <1>6 DEF Sound
  <2>3. CASE q = p
    <3>1. row'[q] = new /\ read'[q] = read[q] /\ stage' = stage
      BY <2>3, <1>5, <1>6 DEF Inv, TypeOK
    <3>2. CASE read[q] = NoRow
      <4>1. q \in aux_crossed' <=> q \in aux_crossed
        BY <2>3, <3>2 DEF Crawl
      <4>2. stage = "crawl" => q \notin aux_late'
        BY <2>1, <2>3 DEF Crawl, Sound
      <4>3. stage # "crawl" => q \in aux_late'
        BY <2>3 DEF Crawl
      <4> QED
        BY <2>1, <2>3, <3>1, <3>2, <4>1, <4>2, <4>3, <1>4 DEF Sound
    <3>3. CASE read[q] # NoRow
      <4>1. stage \notin {"crawl", "publish"}
        BY <2>1, <3>3 DEF Sound
      <4>2. q \in aux_crossed' /\ q \in aux_late'
        BY <2>3, <3>3, <4>1 DEF Crawl
      <4> QED
        BY <3>1, <4>1, <4>2 DEF Sound
    <3> QED
      BY <3>2, <3>3
  <2> QED
    BY <2>2, <2>3
<1> QED
  BY <1>7, <1>8 DEF Inv, AllSound

-----------------------------------------------------------------------------
\* The two shapes a task's steps have: it reads what it selects, or it writes
\* one row and forgets what it read of it.

LEMMA ReadAllKeeps ==
  ASSUME Inv, NEW next \in Stages, NEW selected \in SUBSET Postings, ReadAll(next, selected),
         next \notin {"crawl", "publish"},
         next = "canonicalize" =>
           \A p \in Postings : (Stored(p) => p \in selected) /\ ~Unclassified(p),
         next = "validate" => stage = "validate"
  PROVE  Inv'
<1>1. /\ stage' = next /\ todo' = {} /\ UNCHANGED <<row, aux_crossed, aux_late>>
      /\ read' = [p \in Postings |-> IF p \in selected THEN row[p] ELSE NoRow]
  BY DEF ReadAll, auxVars
<1>2. TypeOK'
  BY <1>1, NoRowIsRow DEF Inv, TypeOK
<1>3. ASSUME NEW p \in Postings PROVE Sound(p, row[p], read[p], stage, aux_crossed, aux_late)'
  <2>1. Sound(p, row[p], read[p], stage, aux_crossed, aux_late)
    BY <1>3 DEF Inv, AllSound
  <2>2. read'[p] \in {row[p], NoRow} /\ (p \in selected => read'[p] = row[p])
    BY <1>1, <1>3
  <2>3. next = "canonicalize" /\ row[p].text # 0 => read'[p] # NoRow
    BY <2>2, <1>3 DEF Stored, NoRow
  <2>4. next = "canonicalize" => Classified(row[p])
    BY <1>3, Zenon DEF Unclassified, Stored, Classified
  <2>5. next = "validate" /\ p \notin aux_late =>
          Classified(row[p]) /\ (row[p].text # 0 => row[p].canonical = row[p].text)
    BY <2>1 DEF Sound
  <2>6. Sound(p, row[p], read'[p], next, aux_crossed, aux_late)
    BY <2>1, <2>2, <2>3, <2>4, <2>5 DEF Sound
  <2> QED
    BY <2>6, <1>1
<1> QED
  BY <1>2, <1>3 DEF Inv, AllSound

LEMMA WriteOneKeeps ==
  ASSUME Inv, NEW p \in Postings, NEW new \in Row, WriteOne(p, new),
         stage \in {"reclassify", "enrich", "embed", "experience"},
         p \notin aux_crossed => RowOK(new)
  PROVE  Inv'
<1>1. /\ row' = [row EXCEPT ![p] = new] /\ read' = [read EXCEPT ![p] = NoRow]
      /\ UNCHANGED <<stage, todo, aux_crossed, aux_late>>
  BY DEF WriteOne, auxVars
<1>2. TypeOK'
  BY <1>1, NoRowIsRow DEF Inv, TypeOK
<1>3. ASSUME NEW q \in Postings PROVE Sound(q, row[q], read[q], stage, aux_crossed, aux_late)'
  <2>1. Sound(q, row[q], read[q], stage, aux_crossed, aux_late)
    BY <1>3 DEF Inv, AllSound
  <2>2. CASE q # p
    BY <2>1, <2>2, <1>1 DEF Inv, TypeOK
  <2>3. CASE q = p
    <3>1. row'[q] = new /\ read'[q] = NoRow /\ stage' = stage
      BY <2>3, <1>1 DEF Inv, TypeOK
    <3>2. Sound(q, new, NoRow, stage, aux_crossed, aux_late)
      BY <2>1, <2>3 DEF Sound
    <3> QED
      BY <1>1, <3>1, <3>2
  <2> QED
    BY <2>2, <2>3
<1> QED
  BY <1>2, <1>3 DEF Inv, AllSound

\* A posting that was read has the text it was read with.
LEMMA ReadIsCurrent ==
  ASSUME Inv, NEW p \in Postings \ aux_crossed, read[p] # NoRow
  PROVE  read[p].text = row[p].text /\ read[p].url = row[p].url /\ RowOK(row[p])
  BY DEF Inv, AllSound, Sound

-----------------------------------------------------------------------------
\* The tasks that write one row at a time.

LEMMA RulesReturnTexts ==
  ASSUME NEW t \in Origin
  PROVE  /\ Classify(t) \in Origin /\ Classify(t) \in {0, t}
         /\ CategoryOf(t) \in Origin /\ CategoryOf(t) \in {0, t}
         /\ LevelOf(t) \in Origin /\ LevelOf(t) \in {0, t}
         /\ SkillsOf(t) \in SUBSET Texts /\ SkillsOf(t) \subseteq {t}
         /\ 0 \in Origin
  BY TextsAssumption, SMT DEF Origin, Texts, Classify, ByTitleOrSkills, CategoryOf, LevelOf, SkillsOf

LEMMA WriteDomainKeeps == ASSUME Inv, NEW p \in Postings, WriteDomain(p) PROVE Inv'
<1> DEFINE x == Classify(read[p].text)
           new == [row[p] EXCEPT !.domain = x]
<1>1. read[p] \in Row /\ row[p] \in Row /\ read[p].text \in Origin
  BY DEF Inv, TypeOK, Row
<1>2. x \in Origin /\ x \in {0, read[p].text}
  BY <1>1, RulesReturnTexts
<1>3. WriteOne(p, new) /\ stage = "reclassify" /\ read[p] # NoRow
  BY DEF WriteDomain, WriteOne
<1> HIDE DEF x
<1>4. new \in Row
  BY <1>1, <1>2, ColumnStays
<1>5. ASSUME p \notin aux_crossed PROVE RowOK(new)
  <2>1. RowOK(row[p]) /\ read[p].text = row[p].text
    BY <1>3, <1>5, ReadIsCurrent
  <2>2. /\ new.text = row[p].text /\ new.domain = x /\ new.category = row[p].category
        /\ new.level = row[p].level /\ new.embedding = row[p].embedding
        /\ new.skills = row[p].skills /\ new.dead = row[p].dead
        /\ new.checked = row[p].checked /\ new.url = row[p].url
    BY <1>1, SMT DEF Row
  <2> HIDE DEF new
  <2> QED
    BY <2>1, <2>2, <1>2 DEF RowOK, Fresh
<1> HIDE DEF new
<1> QED
  BY <1>3, <1>4, <1>5, WriteOneKeeps

LEMMA WriteEmbeddingKeeps == ASSUME Inv, NEW p \in Postings, WriteEmbedding(p) PROVE Inv'
<1> DEFINE x == read[p].text
           new == [row[p] EXCEPT !.embedding = x]
<1>1. read[p] \in Row /\ row[p] \in Row /\ x \in Origin
  BY DEF Inv, TypeOK, Row
<1>2. WriteOne(p, new) /\ stage = "embed" /\ read[p] # NoRow
  BY DEF WriteEmbedding, WriteOne
<1>3. new \in Row
  BY <1>1, ColumnStays
<1>4. ASSUME p \notin aux_crossed PROVE RowOK(new)
  <2>1. RowOK(row[p]) /\ x = row[p].text
    BY <1>2, <1>4, ReadIsCurrent
  <2> HIDE DEF x
  <2>2. /\ new.text = row[p].text /\ new.domain = row[p].domain /\ new.category = row[p].category
        /\ new.level = row[p].level /\ new.embedding = x
        /\ new.skills = row[p].skills /\ new.dead = row[p].dead
        /\ new.checked = row[p].checked /\ new.url = row[p].url
    BY <1>1, SMT DEF Row
  <2> HIDE DEF new
  <2> QED
    BY <2>1, <2>2 DEF RowOK, Fresh
<1> HIDE DEF new
<1> QED
  BY <1>2, <1>3, <1>4, WriteOneKeeps

LEMMA WriteLevelKeeps == ASSUME Inv, NEW p \in Postings, WriteLevel(p) PROVE Inv'
<1> DEFINE x == read[p].text
           a == [row[p] EXCEPT !.level = x]
           new == [row[p] EXCEPT !.level = x, !.guessed = FALSE]
<1>1. read[p] \in Row /\ row[p] \in Row /\ x \in Origin
  BY DEF Inv, TypeOK, Row
<1>2. WriteOne(p, new) /\ stage = "experience" /\ read[p] # NoRow
  BY DEF WriteLevel, WriteOne
<1>3. new = [a EXCEPT !.guessed = FALSE]
  BY Zenon
<1>4. a \in Row
  BY <1>1, ColumnStays
<1> HIDE DEF a
<1>5. new \in Row
  BY <1>3, <1>4, ColumnStays
<1>6. ASSUME p \notin aux_crossed PROVE RowOK(new)
  <2>1. RowOK(row[p]) /\ x = row[p].text
    BY <1>2, <1>6, ReadIsCurrent
  <2> HIDE DEF x
  <2>2. /\ new.text = row[p].text /\ new.domain = row[p].domain /\ new.category = row[p].category
        /\ new.level = x /\ new.embedding = row[p].embedding
        /\ new.skills = row[p].skills /\ new.dead = row[p].dead
        /\ new.checked = row[p].checked /\ new.url = row[p].url
    BY <1>1, SMT DEF Row
  <2> HIDE DEF new
  <2> QED
    BY <2>1, <2>2 DEF RowOK, Fresh
<1> HIDE DEF new
<1> QED
  BY <1>2, <1>5, <1>6, WriteOneKeeps

\* What the enrichment makes of a row, of the text it read.
LEMMA EnrichedOK ==
  ASSUME NEW r \in Row, NEW old \in Row
  PROVE  /\ Enriched(r, old) \in Row
         /\ old.text = r.text /\ RowOK(r) => RowOK(Enriched(r, old))
<1> DEFINE l == LevelOf(old.text)
           lev == Levels(r, old)
           k == IF old.domain # 0 /\ old.category = 0
                THEN OrElse(CategoryOf(old.text), lev.category) ELSE lev.category
           S == IF old.skills = {} /\ old.domain # 0
                THEN lev.skills \cup SkillsOf(old.text) ELSE lev.skills
           new == [lev EXCEPT !.category = k, !.skills = S]
<1>1. /\ old.text \in Origin /\ l \in Origin /\ l \in {0, old.text}
      /\ CategoryOf(old.text) \in Origin /\ CategoryOf(old.text) \in {0, old.text}
      /\ SkillsOf(old.text) \in SUBSET Texts /\ SkillsOf(old.text) \subseteq {old.text}
  <2>1. old.text \in Origin
    BY DEF Row
  <2> QED
    BY <2>1, RulesReturnTexts
<1>2. Enriched(r, old) = new
  BY DEF Enriched
<1> HIDE DEF l
<1>3. /\ lev \in Row /\ lev.text = r.text /\ lev.domain = r.domain /\ lev.category = r.category
      /\ lev.level \in {r.level, l} /\ lev.embedding = r.embedding /\ lev.skills = r.skills
      /\ lev.dead = r.dead /\ lev.checked = r.checked /\ lev.url = r.url
  <2>1. CASE l = 0
    BY <2>1 DEF Levels, l
  <2>2. CASE l # 0
    <3> DEFINE a == [r EXCEPT !.level = l]
    <3>1. lev = [r EXCEPT !.level = l, !.guessed = TRUE]
      BY <2>2 DEF Levels, l
    <3> HIDE DEF lev
    <3>2. lev = [a EXCEPT !.guessed = TRUE]
      BY <3>1, Zenon
    <3>3. a \in Row
      BY <1>1, ColumnStays
    <3> HIDE DEF a
    <3>4. lev \in Row
      BY <3>2, <3>3, ColumnStays
    <3> QED
      BY <3>1, <3>4, SMT DEF Row
  <2> QED
    BY <2>1, <2>2
<1> HIDE DEF lev
<1>4. k \in Origin /\ k \in {0, old.text, r.category}
  BY <1>1, <1>3 DEF OrElse, Row
<1>5. S \in SUBSET Texts /\ S \subseteq r.skills \cup {old.text}
  BY <1>1, <1>3 DEF Row
<1> HIDE DEF k, S
<1>6. /\ new \in Row /\ new.text = r.text /\ new.domain = r.domain /\ new.category = k
      /\ new.level = lev.level /\ new.embedding = r.embedding /\ new.skills = S
      /\ new.dead = r.dead /\ new.checked = r.checked /\ new.url = r.url
  <2> DEFINE a == [lev EXCEPT !.category = k]
  <2>1. a \in Row
    BY <1>3, <1>4, ColumnStays
  <2>2. new = [a EXCEPT !.skills = S]
    BY Zenon
  <2> HIDE DEF a
  <2>3. new \in Row
    BY <2>1, <2>2, <1>5, ColumnStays
  <2> QED
    BY <2>3, <1>3, SMT DEF Row
<1> HIDE DEF new
<1>7. ASSUME old.text = r.text, RowOK(r) PROVE RowOK(new)
  BY <1>1, <1>3, <1>4, <1>5, <1>6, <1>7 DEF RowOK, Fresh
<1> QED
  BY <1>2, <1>6, <1>7

LEMMA WriteEnrichedKeeps == ASSUME Inv, NEW p \in Postings, WriteEnriched(p) PROVE Inv'
<1>1. read[p] \in Row /\ row[p] \in Row
  BY DEF Inv, TypeOK
<1>2. WriteOne(p, Enriched(row[p], read[p])) /\ stage = "enrich" /\ read[p] # NoRow
  BY DEF WriteEnriched, WriteOne
<1>3. Enriched(row[p], read[p]) \in Row
  BY <1>1, EnrichedOK
<1>4. p \notin aux_crossed => RowOK(Enriched(row[p], read[p]))
  BY <1>1, <1>2, EnrichedOK, ReadIsCurrent
<1> QED
  BY <1>2, <1>3, <1>4, WriteOneKeeps

-----------------------------------------------------------------------------
\* The tasks that read one row at a time.

LEMMA ReadOneKeeps ==
  ASSUME Inv, NEW p \in Postings, read' = [read EXCEPT ![p] = row[p]] \/ UNCHANGED read,
         UNCHANGED <<row, stage, aux_crossed, aux_late>>, stage \in {"embed", "experience"}, todo' \subseteq Postings
  PROVE  Inv'
<1>1. TypeOK'
  BY DEF Inv, TypeOK
<1>2. ASSUME NEW q \in Postings PROVE Sound(q, row[q], read[q], stage, aux_crossed, aux_late)'
  <2>1. Sound(q, row[q], read[q], stage, aux_crossed, aux_late)
    BY <1>2 DEF Inv, AllSound
  <2>2. read'[q] \in {row[q], read[q]}
    BY DEF Inv, TypeOK
  <2>3. Sound(q, row[q], read'[q], stage, aux_crossed, aux_late)
    BY <2>1, <2>2 DEF Sound
  <2> QED
    BY <2>3
<1> QED
  BY <1>1, <1>2 DEF Inv, AllSound

LEMMA ReadForEmbeddingKeeps == ASSUME Inv, NEW p \in Postings, ReadForEmbedding(p) PROVE Inv'
<1>1. /\ read' = [read EXCEPT ![p] = row[p]] \/ UNCHANGED read
      /\ UNCHANGED <<row, stage, aux_crossed, aux_late>> /\ stage = "embed" /\ todo' \subseteq Postings
  BY DEF ReadForEmbedding, Inv, auxVars, TypeOK
<1> QED
  BY <1>1, ReadOneKeeps

LEMMA ReadForLevelKeeps == ASSUME Inv, NEW p \in Postings, ReadForLevel(p) PROVE Inv'
<1>1. /\ read' = [read EXCEPT ![p] = row[p]]
      /\ UNCHANGED <<row, stage, aux_crossed, aux_late>> /\ stage = "experience" /\ todo' \subseteq Postings
  BY DEF ReadForLevel, Inv, auxVars, TypeOK
<1> QED
  BY <1>1, ReadOneKeeps

-----------------------------------------------------------------------------
\* The tasks that write many rows in one statement.

LEMMA PrePassKeeps == ASSUME Inv, PrePass PROVE Inv'
<1> DEFINE new(r, p) == [r EXCEPT !.domain = read[p].text]
<1>1. /\ stage = "prepass" /\ stage' = "enrich" /\ UNCHANGED <<todo, aux_crossed, aux_late>>
      /\ row' = [p \in Postings |-> IF p \in Placed THEN new(row[p], p) ELSE row[p]]
      /\ read' = [p \in Postings |-> IF p \in Placed THEN new(read[p], p) ELSE read[p]]
  BY DEF PrePass, InDomain, auxVars
<1>2. ASSUME NEW p \in Postings, NEW r \in Row PROVE new(r, p) \in Row
  <2>1. read[p].text \in Origin
    BY DEF Inv, TypeOK, Row
  <2> QED
    BY <1>2, <2>1, ColumnStays
<1>3. ASSUME NEW r \in Row, NEW p \in Postings
      PROVE  /\ new(r, p).text = r.text /\ new(r, p).domain = read[p].text
             /\ new(r, p).category = r.category
             /\ new(r, p).level = r.level /\ new(r, p).embedding = r.embedding
             /\ new(r, p).skills = r.skills /\ new(r, p).dead = r.dead
             /\ new(r, p).checked = r.checked /\ new(r, p).url = r.url
  BY <1>3, SMT DEF Row
<1> HIDE DEF new
<1>4. TypeOK'
  BY <1>1, <1>2 DEF Inv, TypeOK, Stages
<1>5. ASSUME NEW p \in Postings PROVE Sound(p, row[p], read[p], stage, aux_crossed, aux_late)'
  <2>1. Sound(p, row[p], read[p], "prepass", aux_crossed, aux_late) /\ row[p] \in Row /\ read[p] \in Row
    BY <1>1, <1>5 DEF Inv, AllSound, TypeOK
  <2>2. CASE p \notin Placed
    <3>1. row'[p] = row[p] /\ read'[p] = read[p]
      BY <1>1, <2>2
    <3>2. Sound(p, row[p], read[p], "enrich", aux_crossed, aux_late)
      BY <2>1 DEF Sound
    <3> QED
      BY <3>1, <3>2, <1>1
  <2>3. CASE p \in Placed
    <3>1. row'[p] = new(row[p], p) /\ read'[p] = new(read[p], p)
      BY <1>1, <2>3
    <3>2. read[p].text # 0
      BY <2>3, TextsAssumption, SMT DEF Placed, Classify, ByTitleOrSkills, Texts
    <3>3. read[p] # NoRow
      BY <3>2 DEF NoRow
    <3>4. p \notin aux_crossed \cap aux_late => read[p].text = row[p].text /\ read[p].url = row[p].url
      BY <2>1, <3>3 DEF Sound
    <3>5. p \notin aux_crossed => RowOK(new(row[p], p))
      BY <2>1, <3>4, <1>3 DEF Sound, RowOK, Fresh
    <3>6. p \notin aux_crossed \cap aux_late =>
            new(read[p], p).text = new(row[p], p).text /\ new(read[p], p).url = new(row[p], p).url
      BY <2>1, <3>4, <1>3
    <3>7. Sound(p, new(row[p], p), new(read[p], p), "enrich", aux_crossed, aux_late)
      BY <3>5, <3>6 DEF Sound
    <3> QED
      BY <3>1, <3>7, <1>1
  <2> QED
    BY <2>2, <2>3
<1> QED
  BY <1>4, <1>5 DEF Inv, AllSound

LEMMA ExtractSkillsKeeps == ASSUME Inv, ExtractSkills PROVE Inv'
<1> DEFINE new(r) == [r EXCEPT !.skills = SkillsOf(r.text)]
           some == {p \in Postings : /\ Stored(p) /\ row[p].age < 3
                                     /\ row[p].domain # 0 /\ row[p].skills = {}}
<1>1. /\ stage \in {"derive", "embed", "experience"} /\ UNCHANGED <<stage, todo, read, aux_crossed, aux_late>>
      /\ row' = [p \in Postings |-> IF p \in some THEN new(row[p]) ELSE row[p]]
  BY DEF ExtractSkills, auxVars
<1>2. ASSUME NEW r \in Row
      PROVE  /\ new(r) \in Row /\ SkillsOf(r.text) \subseteq {r.text}
             /\ new(r).text = r.text /\ new(r).domain = r.domain
             /\ new(r).category = r.category
             /\ new(r).level = r.level /\ new(r).embedding = r.embedding
             /\ new(r).skills = SkillsOf(r.text) /\ new(r).dead = r.dead
             /\ new(r).checked = r.checked /\ new(r).url = r.url
  <2>1. r.text \in Origin
    BY DEF Row
  <2>2. SkillsOf(r.text) \in SUBSET Texts /\ SkillsOf(r.text) \subseteq {r.text}
    BY <2>1, RulesReturnTexts
  <2>3. new(r) \in Row
    BY <2>2, ColumnStays
  <2> DEFINE S == SkillsOf(r.text)
             n == [r EXCEPT !.skills = S]
  <2> HIDE DEF S
  <2>4. /\ n.text = r.text /\ n.domain = r.domain /\ n.category = r.category
        /\ n.level = r.level /\ n.embedding = r.embedding
        /\ n.skills = S /\ n.dead = r.dead
        /\ n.checked = r.checked /\ n.url = r.url
    BY SMT DEF Row
  <2> QED
    BY <2>2, <2>3, <2>4 DEF S
<1> HIDE DEF new, some
<1>3. TypeOK'
  BY <1>1, <1>2 DEF Inv, TypeOK
<1>4. ASSUME NEW p \in Postings PROVE Sound(p, row[p], read[p], stage, aux_crossed, aux_late)'
  <2>1. Sound(p, row[p], read[p], stage, aux_crossed, aux_late) /\ row[p] \in Row
    BY <1>4 DEF Inv, AllSound, TypeOK
  <2>2. row'[p] \in {row[p], new(row[p])}
    BY <1>1
  <2>3. p \notin aux_crossed => RowOK(new(row[p]))
    BY <2>1, <1>2 DEF Sound, RowOK, Fresh
  <2>4. Sound(p, new(row[p]), read[p], stage, aux_crossed, aux_late)
    BY <2>1, <2>3, <1>1, <1>2 DEF Sound
  <2> QED
    BY <2>1, <2>2, <2>4, <1>1
<1> QED
  BY <1>3, <1>4 DEF Inv, AllSound

LEMMA WriteCanonicalKeeps == ASSUME Inv, WriteCanonical PROVE Inv'
<1>1. /\ stage = "canonicalize" /\ stage' = "validate" /\ read' = Nothing /\ UNCHANGED <<todo, aux_crossed, aux_late>>
      /\ row' = [p \in Postings |-> [row[p] EXCEPT !.canonical = Grouped(p)]]
  BY DEF WriteCanonical, auxVars
<1>2. ASSUME NEW p \in Postings PROVE Grouped(p) \in Origin
  BY DEF Inv, TypeOK, Grouped, Row
<1>3. ASSUME NEW p \in Postings
      PROVE  [row[p] EXCEPT !.canonical = Grouped(p)] \in Row
  BY <1>2, ColumnStays DEF Inv, TypeOK
<1>4. TypeOK'
  BY <1>1, <1>3, NoRowIsRow DEF Inv, TypeOK, Stages, Nothing
<1>5. ASSUME NEW p \in Postings PROVE Sound(p, row[p], read[p], stage, aux_crossed, aux_late)'
  <2> DEFINE g == Grouped(p)
             new == [row[p] EXCEPT !.canonical = g]
  <2>1. Sound(p, row[p], read[p], "canonicalize", aux_crossed, aux_late) /\ row[p] \in Row
    BY <1>1, <1>5 DEF Inv, AllSound, TypeOK
  <2>2. row[p].text # 0 /\ p \notin aux_late => g = row[p].text
    BY <2>1 DEF Sound, Grouped
  <2>3. row'[p] = new /\ read'[p] = NoRow
    BY <1>1, <1>5 DEF Nothing
  <2> HIDE DEF g
  <2>4. /\ new.text = row[p].text /\ new.domain = row[p].domain /\ new.category = row[p].category
        /\ new.level = row[p].level /\ new.embedding = row[p].embedding
        /\ new.skills = row[p].skills /\ new.dead = row[p].dead /\ new.guessed = row[p].guessed
        /\ new.checked = row[p].checked /\ new.url = row[p].url /\ new.canonical = g
    BY <2>1, SMT DEF Row
  <2> HIDE DEF new
  <2>5. Sound(p, new, NoRow, "validate", aux_crossed, aux_late)
    BY <2>1, <2>2, <2>4, Zenon DEF Sound, RowOK, Fresh, Classified
  <2> QED
    BY <2>3, <2>5, <1>1
<1> QED
  BY <1>4, <1>5 DEF Inv, AllSound

\* What a verdict makes of a row that still has the URL it is about.
LEMMA JudgedOK ==
  ASSUME NEW r \in Row, NEW old \in Row, NEW v
  PROVE  /\ Judged(r, old, v) \in Row
         /\ Judged(r, old, v).text = r.text /\ Judged(r, old, v).domain = r.domain
         /\ Judged(r, old, v).category = r.category
         /\ Judged(r, old, v).level = r.level /\ Judged(r, old, v).embedding = r.embedding
         /\ Judged(r, old, v).skills = r.skills /\ Judged(r, old, v).guessed = r.guessed
         /\ Judged(r, old, v).canonical = r.canonical
         /\ Judged(r, old, v).checked = old.url /\ Judged(r, old, v).url = r.url
<1> DEFINE dead == CASE v = "dead" -> TRUE [] v = "alive" -> FALSE [] OTHER -> r.dead
           a == [r EXCEPT !.checked = old.url]
           new == [r EXCEPT !.checked = old.url, !.dead = dead]
<1>1. dead \in BOOLEAN
  <2>1. r.dead \in BOOLEAN
    BY DEF Row
  <2>2. CASE v = "dead"
    BY <2>2
  <2>3. CASE v = "alive"
    BY <2>3
  <2>4. CASE v \notin {"dead", "alive"}
    BY <2>1, <2>4
  <2> QED
    BY <2>2, <2>3, <2>4
<1>2. Judged(r, old, v) = new
  BY DEF Judged
<1> HIDE DEF dead
<1>3. new = [a EXCEPT !.dead = dead]
  BY Zenon
<1>4. old.url \in 0..MaxUrl
  BY DEF Row
<1>5. a \in Row
  BY <1>4, ColumnStays
<1> HIDE DEF a
<1>6. new \in Row
  BY <1>1, <1>3, <1>5, ColumnStays
<1>7. /\ new.text = r.text /\ new.domain = r.domain /\ new.category = r.category
      /\ new.level = r.level /\ new.embedding = r.embedding
      /\ new.skills = r.skills /\ new.guessed = r.guessed /\ new.canonical = r.canonical
      /\ new.checked = old.url /\ new.url = r.url
  BY SMT DEF Row
<1> HIDE DEF new
<1> QED
  BY <1>2, <1>6, <1>7

LEMMA WriteVerdictsKeeps == ASSUME Inv, WriteVerdicts PROVE Inv'
<1>1. PICK v \in [Postings -> {"alive", "dead", "inconclusive"}] :
        row' = [p \in Postings |-> IF read[p] = NoRow THEN row[p] ELSE Judged(row[p], read[p], v[p])]
  BY DEF WriteVerdicts
<1>2. stage = "validate" /\ stage' = "publish" /\ read' = Nothing /\ UNCHANGED <<todo, aux_crossed, aux_late>>
  BY DEF WriteVerdicts, auxVars
<1>3. ASSUME NEW p \in Postings PROVE row[p] \in Row /\ read[p] \in Row
  BY DEF Inv, TypeOK
<1>4. TypeOK'
  <2>1. ASSUME NEW p \in Postings PROVE row'[p] \in Row
    BY <1>1, <1>3, JudgedOK
  <2> QED
    BY <2>1, <1>1, <1>2, NoRowIsRow DEF Inv, TypeOK, Stages, Nothing
<1>5. ASSUME NEW p \in Postings PROVE Sound(p, row[p], read[p], stage, aux_crossed, aux_late)'
  <2>1. Sound(p, row[p], read[p], "validate", aux_crossed, aux_late)
    BY <1>2, <1>5 DEF Inv, AllSound
  <2>2. CASE read[p] = NoRow
    <3>1. row'[p] = row[p]
      BY <1>1, <2>2
    <3>2. Sound(p, row[p], NoRow, "publish", aux_crossed, aux_late)
      BY <2>1 DEF Sound
    <3> QED
      BY <3>1, <3>2, <1>2 DEF Nothing
  <2>3. CASE read[p] # NoRow
    <3> DEFINE new == Judged(row[p], read[p], v[p])
    <3>1. row'[p] = new /\ read'[p] = NoRow
      BY <1>1, <1>2, <2>3 DEF Nothing
    <3>2. /\ new.text = row[p].text /\ new.domain = row[p].domain
          /\ new.category = row[p].category
          /\ new.level = row[p].level /\ new.embedding = row[p].embedding
          /\ new.skills = row[p].skills /\ new.guessed = row[p].guessed
          /\ new.canonical = row[p].canonical
          /\ new.checked = read[p].url /\ new.url = row[p].url
      BY <1>3, JudgedOK
    <3> HIDE DEF new
    <3>3. p \notin aux_crossed => new.checked = new.url
      BY <2>1, <2>3, <3>2 DEF Sound
    <3>4. Sound(p, new, NoRow, "publish", aux_crossed, aux_late)
      BY <2>1, <3>2, <3>3, Zenon DEF Sound, RowOK, Fresh, Classified
    <3> QED
      BY <3>1, <3>4, <1>2
  <2> QED
    BY <2>2, <2>3
<1> QED
  BY <1>4, <1>5 DEF Inv, AllSound

\* A day older, and public or not.
LEMMA AgedOK ==
  ASSUME NEW r \in Row, NEW b \in BOOLEAN
  PROVE  LET age == IF r.text # 0 /\ r.age < 3 THEN r.age + 1 ELSE r.age
             new == [r EXCEPT !.public = b, !.age = age]
             old == [r EXCEPT !.age = age]
         IN  /\ new \in Row /\ old \in Row
             /\ RowOK(r) => RowOK(new) /\ RowOK(old)
             /\ new.guessed = r.guessed /\ new.public = b
<1> DEFINE age == IF r.text # 0 /\ r.age < 3 THEN r.age + 1 ELSE r.age
           a == [r EXCEPT !.public = b]
           new == [r EXCEPT !.public = b, !.age = age]
           old == [r EXCEPT !.age = age]
<1>1. r.age \in 0..3
  BY DEF Row
<1>2. age \in 0..3
  BY <1>1, SMT
<1> HIDE DEF age
<1>3. new = [a EXCEPT !.age = age]
  BY Zenon
<1>4. a \in Row
  BY ColumnStays
<1> HIDE DEF a
<1>5. new \in Row /\ old \in Row
  BY <1>2, <1>3, <1>4, ColumnStays
<1>6. /\ new.text = r.text /\ new.domain = r.domain /\ new.category = r.category
      /\ new.level = r.level /\ new.embedding = r.embedding
      /\ new.skills = r.skills /\ new.guessed = r.guessed /\ new.dead = r.dead
      /\ new.checked = r.checked /\ new.url = r.url /\ new.public = b
  BY SMT DEF Row
<1>7. /\ old.text = r.text /\ old.domain = r.domain /\ old.category = r.category
      /\ old.level = r.level /\ old.embedding = r.embedding
      /\ old.skills = r.skills /\ old.dead = r.dead
      /\ old.checked = r.checked /\ old.url = r.url
  BY SMT DEF Row
<1> HIDE DEF new, old
<1>8. RowOK(r) => RowOK(new) /\ RowOK(old)
  BY <1>6, <1>7, Zenon DEF RowOK, Fresh
<1>9. /\ new \in Row /\ old \in Row
      /\ RowOK(r) => RowOK(new) /\ RowOK(old)
      /\ new.guessed = r.guessed /\ new.public = b
  BY <1>5, <1>6, <1>8
<1> QED
  BY <1>9 DEF new, old, age

LEMMA PublishKeeps == ASSUME Inv, Publish PROVE Inv'
<1> DEFINE new(p) == [row[p] EXCEPT !.public = Candidate(p),
                         !.age = IF row[p].text # 0 /\ row[p].age < 3 THEN row[p].age + 1 ELSE row[p].age]
<1>1. /\ stage = "publish" /\ stage' = "crawl" /\ UNCHANGED <<todo, read, aux_crossed>> /\ aux_late' = {}
      /\ row' = [p \in Postings |-> new(p)]
  BY DEF Publish, Stored
<1>2. ASSUME NEW p \in Postings PROVE new(p) \in Row /\ (RowOK(row[p]) => RowOK(new(p)))
  <2>1. Candidate(p) \in BOOLEAN
    BY DEF Candidate
  <2> QED
    BY <2>1, AgedOK DEF Inv, TypeOK
<1> HIDE DEF new
<1>3. TypeOK'
  BY <1>1, <1>2 DEF Inv, TypeOK, Stages
<1>4. ASSUME NEW p \in Postings PROVE Sound(p, row[p], read[p], stage, aux_crossed, aux_late)'
  <2>1. Sound(p, row[p], read[p], "publish", aux_crossed, aux_late)
    BY <1>1, <1>4 DEF Inv, AllSound
  <2>2. row'[p] = new(p) /\ read'[p] = NoRow
    BY <1>1, <2>1 DEF Sound
  <2>3. Sound(p, new(p), NoRow, "crawl", aux_crossed, {})
    BY <1>2, <2>1 DEF Sound
  <2> QED
    BY <2>2, <2>3, <1>1
<1> QED
  BY <1>3, <1>4 DEF Inv, AllSound

\* The publication flags the candidates and leaves their levels alone.
LEMMA PublishSays ==
  ASSUME Inv, Publish, NEW p \in Postings
  PROVE  row'[p].public = Candidate(p) /\ row'[p].guessed = row[p].guessed /\ stage = "publish"
<1> DEFINE age == IF row[p].text # 0 /\ row[p].age < 3 THEN row[p].age + 1 ELSE row[p].age
<1>1. row'[p] = [row[p] EXCEPT !.public = Candidate(p), !.age = age] /\ stage = "publish"
  BY DEF Publish, Stored
<1> DEFINE r == row[p]
           b == Candidate(p)
           new == [r EXCEPT !.public = b, !.age = age]
<1>2. r \in Row /\ b \in BOOLEAN
  BY DEF Inv, TypeOK, Candidate
<1> HIDE DEF r, b, age
<1>3. new.public = b /\ new.guessed = r.guessed
  BY <1>2, SMT DEF Row
<1> QED
  BY <1>1, <1>3 DEF r, b, age

LEMMA FailNightKeeps == ASSUME Inv, FailNight PROVE Inv'
<1> DEFINE new(p) == [row[p] EXCEPT
                         !.age = IF row[p].text # 0 /\ row[p].age < 3 THEN row[p].age + 1 ELSE row[p].age]
<1>1. /\ stage' = "crawl" /\ todo' = {} /\ read' = Nothing
      /\ aux_crossed' = aux_crossed /\ aux_late' = {}
      /\ row' = [p \in Postings |-> new(p)]
  BY DEF FailNight, Stored
<1>2. ASSUME NEW p \in Postings PROVE new(p) \in Row /\ (RowOK(row[p]) => RowOK(new(p)))
  BY AgedOK DEF Inv, TypeOK
<1> HIDE DEF new
<1>3. TypeOK'
  BY <1>1, <1>2, NoRowIsRow DEF Inv, TypeOK, Stages, Nothing
<1>4. ASSUME NEW p \in Postings PROVE Sound(p, row[p], read[p], stage, aux_crossed, aux_late)'
  <2>1. p \notin aux_crossed => RowOK(row[p])
    BY <1>4 DEF Inv, AllSound, Sound
  <2>2. row'[p] = new(p) /\ read'[p] = NoRow
    BY <1>1, <1>4 DEF Nothing
  <2>3. Sound(p, new(p), NoRow, "crawl", aux_crossed, {})
    BY <1>2, <2>1 DEF Sound
  <2> QED
    BY <2>2, <2>3, <1>1
<1> QED
  BY <1>3, <1>4 DEF Inv, AllSound

-----------------------------------------------------------------------------
\* The tasks that only select and read.

LEMMA StartEmbedKeeps == ASSUME Inv, StartEmbed PROVE Inv'
<1>1. /\ stage = "derive" /\ stage' = "embed" /\ UNCHANGED <<row, read, aux_crossed, aux_late>> /\ todo' \subseteq Postings
  BY DEF StartEmbed, auxVars
<1>2. TypeOK'
  BY <1>1 DEF Inv, TypeOK, Stages
<1>3. ASSUME NEW p \in Postings PROVE Sound(p, row[p], read[p], stage, aux_crossed, aux_late)'
  <2>1. Sound(p, row[p], read[p], "derive", aux_crossed, aux_late)
    BY <1>1, <1>3 DEF Inv, AllSound
  <2>2. Sound(p, row[p], read[p], "embed", aux_crossed, aux_late)
    BY <2>1 DEF Sound
  <2> QED
    BY <2>2, <1>1
<1> QED
  BY <1>2, <1>3 DEF Inv, AllSound

LEMMA SelectingKeeps ==
  ASSUME Inv, \/ StartReclassify \/ StartEnrich \/ FinishEnrich \/ StartExperience
              \/ StartCanonicalize \/ StartValidate
  PROVE  Inv'
<1>1. CASE StartReclassify
  <2>1. PICK S \in SUBSET Postings : ReadAll("reclassify", S)
    BY <1>1 DEF StartReclassify
  <2> QED
    BY <2>1, ReadAllKeeps DEF Stages
<1>2. CASE StartEnrich
  <2>1. ReadAll("prepass", Selected) /\ Selected \in SUBSET Postings
    BY <1>2 DEF StartEnrich, Selected
  <2> QED
    BY <2>1, ReadAllKeeps DEF Stages
<1>3. CASE FinishEnrich
  <2>1. ReadAll("derive", {})
    BY <1>3 DEF FinishEnrich
  <2> QED
    BY <2>1, ReadAllKeeps DEF Stages
<1>4. CASE StartExperience
  <2>1. ReadAll("experience", {})
    BY <1>4 DEF StartExperience
  <2> QED
    BY <2>1, ReadAllKeeps DEF Stages
<1>5. CASE StartCanonicalize
  <2> DEFINE S == {p \in Postings : Stored(p)}
  <2>1. /\ ReadAll("canonicalize", S) /\ S \in SUBSET Postings
        /\ \A p \in Postings : (Stored(p) => p \in S) /\ ~Unclassified(p)
    BY <1>5 DEF StartCanonicalize
  <2> HIDE DEF S
  <2> QED
    BY <2>1, ReadAllKeeps DEF Stages
<1>6. CASE StartValidate
  <2>1. PICK due \in SUBSET {p \in Postings : Stored(p) /\ (row[p].public \/ row[p].dead)} :
          ReadAll("validate", due \cup {p \in Postings : Stored(p) /\ row[p].checked = 0})
    BY <1>6 DEF StartValidate
  <2> DEFINE S == due \cup {p \in Postings : Stored(p) /\ row[p].checked = 0}
  <2>2. ReadAll("validate", S) /\ S \in SUBSET Postings /\ stage = "validate"
    BY <1>6, <2>1 DEF StartValidate
  <2> HIDE DEF S
  <2> QED
    BY <2>2, ReadAllKeeps DEF Stages
<1> QED
  BY <1>1, <1>2, <1>3, <1>4, <1>5, <1>6

-----------------------------------------------------------------------------
\* The invariant, and what follows from it.

LEMMA NextInv == Inv /\ [Next]_vars => Inv'
<1> SUFFICES ASSUME Inv, [Next]_vars PROVE Inv'
  OBVIOUS
<1>1. ASSUME NEW p \in Postings, Crawl(p) PROVE Inv'
  BY <1>1, CrawlKeeps
<1>2. ASSUME NEW p \in Postings,
             \/ WriteDomain(p) \/ WriteEnriched(p) \/ WriteEmbedding(p) \/ WriteLevel(p)
      PROVE Inv'
  BY <1>2, WriteDomainKeeps, WriteEnrichedKeeps, WriteEmbeddingKeeps, WriteLevelKeeps
<1>3. ASSUME NEW p \in Postings, ReadForEmbedding(p) \/ ReadForLevel(p) PROVE Inv'
  BY <1>3, ReadForEmbeddingKeeps, ReadForLevelKeeps
<1>4. CASE PrePass
  BY <1>4, PrePassKeeps
<1>5. CASE ExtractSkills
  BY <1>5, ExtractSkillsKeeps
<1>6. CASE StartEmbed
  BY <1>6, StartEmbedKeeps
<1>7. CASE WriteCanonical
  BY <1>7, WriteCanonicalKeeps
<1>8. CASE WriteVerdicts
  BY <1>8, WriteVerdictsKeeps
<1>9. CASE Publish
  BY <1>9, PublishKeeps
<1>10. CASE FailNight
  BY <1>10, FailNightKeeps
<1>11. CASE \/ StartReclassify \/ StartEnrich \/ FinishEnrich \/ StartExperience
            \/ StartCanonicalize \/ StartValidate
  BY <1>11, SelectingKeeps
<1>12. CASE UNCHANGED vars
  <2>1. row' = row /\ read' = read /\ stage' = stage /\ todo' = todo
        /\ aux_crossed' = aux_crossed /\ aux_late' = aux_late
    BY <1>12 DEF vars, auxVars
  <2>2. TypeOK'
    BY <2>1 DEF Inv, TypeOK
  <2>3. AllSound'
    BY <2>1 DEF Inv, AllSound
  <2> QED
    BY <2>2, <2>3 DEF Inv
<1> QED
  BY <1>1, <1>2, <1>3, <1>4, <1>5, <1>6, <1>7, <1>8, <1>9, <1>10, <1>11, <1>12 DEF Next

LEMMA Invariance == Spec => []Inv
  BY InitInv, NextInv, PTL DEF Spec

\* Rows, and what tasks have read, keep their types for any texts and rules
\* (the columns of job_postings the nightly tasks write).
THEOREM TypeCorrect == Spec => []TypeOK
<1>1. Inv => TypeOK
  BY DEF Inv
<1> QED
  BY <1>1, Invariance, PTL

\* The domain, category, level, embedding and skills of a posting come from the
\* text it has, unless an ingest has met a task between its read and its write
\* of that posting, for any postings, texts and limits: the reset of ingest_job
\* and the tasks, which write by job_id what they read before, leave no other
\* way to publish a stale column.
THEOREM NothingIsStale == Spec => []NeverStale
<1>1. Inv => NeverStale
  BY DEF Inv, AllSound, Sound, RowOK, NeverStale
<1> QED
  BY <1>1, Invariance, PTL

\* A posting is hidden as dead only for a verdict about the URL it has, unless
\* an ingest has met a task that held it (validate_public_source_urls beside
\* ingest_job).
THEOREM VerdictsAreCurrent == Spec => []VerdictOfThisUrl
<1>1. Inv => VerdictOfThisUrl
  BY DEF Inv, AllSound, Sound, RowOK, VerdictOfThisUrl
<1> QED
  BY <1>1, Invariance, PTL

\* Two postings of one text are never published together unless one of them
\* was ingested after the night's tasks began: when a publication runs, every
\* other posting is in the group of the text it has.
THEOREM OneIsListed == Spec => OneListing
<1>1. Inv /\ [Next]_vars =>
        [Publish => \A p, q \in Postings \ aux_late :
           row'[p].public /\ row'[q].public /\ row[p].text = row[q].text => p = q]_vars
  <2> SUFFICES ASSUME Inv, Publish, NEW p \in Postings \ aux_late, NEW q \in Postings \ aux_late,
                      row'[p].public, row'[q].public, row[p].text = row[q].text
               PROVE  p = q
    OBVIOUS
  <2>1. ASSUME NEW i \in Postings \ aux_late, row'[i].public
        PROVE  Candidate(i) /\ Eligible(i) /\ row[i].canonical = row[i].text
    <3>3. row'[i].public = Candidate(i) /\ stage = "publish"
      BY PublishSays
    <3>4. Candidate(i) /\ Eligible(i)
      BY <3>3, <2>1 DEF Candidate
    <3>5. row[i].text # 0
      BY <3>4 DEF Eligible, Stored
    <3> QED
      BY <3>3, <3>4, <3>5 DEF Inv, AllSound, Sound
  <2>2. Group(p) = Group(q)
    <3>1. row[p].canonical = row[q].canonical /\ row[p].canonical # 0
      BY <2>1 DEF Eligible, Stored
    <3> QED
      BY <3>1 DEF Group
  <2>3. p <= q /\ q <= p
    BY <2>1, <2>2 DEF Candidate
  <2>4. p \in Int /\ q \in Int
    BY PostingsAssumption
  <2> QED
    BY <2>3, <2>4, SMT
<1> QED
  BY <1>1, Invariance, PTL DEF Spec, OneListing

\* A published level is the classifier's, never the guess the enrichment
\* writes into the same column (classify_exp_level_v2 after enrich_jobs), of
\* every posting that was not ingested after the night's tasks began.
THEOREM LevelsAreClassified == Spec => ClassifiedLevels
<1>1. Inv /\ [Next]_vars =>
        [Publish => \A p \in Postings \ aux_late : row'[p].public => ~row'[p].guessed]_vars
  <2> SUFFICES ASSUME Inv, Publish, NEW p \in Postings \ aux_late, row'[p].public
               PROVE  ~row'[p].guessed
    OBVIOUS
  <2>3. row'[p].public = Candidate(p) /\ row'[p].guessed = row[p].guessed /\ stage = "publish"
    BY PublishSays
  <2>4. row[p].text # 0 /\ row[p].domain # 0
    BY <2>3 DEF Candidate, Eligible, Stored, Complete
  <2>5. Classified(row[p])
    BY <2>3 DEF Inv, AllSound, Sound
  <2> QED
    BY <2>3, <2>4, <2>5 DEF Classified
<1> QED
  BY <1>1, Invariance, PTL DEF Spec, ClassifiedLevels

-----------------------------------------------------------------------------
(***************************************************************************)
(* The publisher, beside any processes that change postings.               *)
(*                                                                         *)
(* The promise replaces the public set in one step, the publisher in six.  *)
(* LookedInv says how far the open transaction's view of is_public has     *)
(* come: untouched, stripped of what was no candidate at some moment, or   *)
(* also filled with the candidates of another.  The commit then is the     *)
(* abstract Publish, and every other step leaves the committed set alone.  *)
(* While no posting was changed under it, the moments are one (TxnInv).    *)
(***************************************************************************)
OnePublisher == \A p, q \in Publishers : Open(p) /\ Open(q) => p = q

\* What the open transaction has made of the public set.
Looked(t) ==
    /\ \E f \in Promise!Meanwhile : Promise!MeetsFloor(Promise!Representatives(f), public)
    /\ t.pc \in {"counted", "removals", "additions"} => t.flagged = public
    /\ t.pc = "deactivated" =>
          \E g \in Promise!Meanwhile : t.flagged = public \cap Promise!Representatives(g)
    /\ t.pc = "activated" =>
          \E g, h \in Promise!Meanwhile :
             t.flagged = (public \cap Promise!Representatives(g)) \cup Promise!Representatives(h)

LookedInv == \A p \in Publishers : Open(p) => Looked(txn[p])

\* The postings it keeps come first in their opportunity, and those it takes in
\* too, as far as nobody changed them since it began.
Unshared(t) ==
    /\ t.pc = "deactivated" =>
          \A i \in t.flagged \ aux_during :
             /\ inputs[i].eligible
             /\ \A j \in Jobs \ (aux_during \cup {i}) :
                   inputs[j].eligible /\ inputs[j].opportunity = inputs[i].opportunity
                     => Promise!Before(inputs, i, j)
    /\ t.pc = "activated" =>
          \A i, j \in t.flagged \ aux_during :
             inputs[i].opportunity = inputs[j].opportunity => i = j

UnsharedInv == \A p \in Publishers : Open(p) => Unshared(txn[p])

\* The same while nobody changed a posting since it began.
Progress(t) ==
    /\ Promise!MeetsFloor(Candidates, public)
    /\ t.pc \in {"counted", "removals", "additions"} => t.flagged = public
    /\ t.pc = "deactivated" => t.flagged = public \cap Candidates
    /\ t.pc = "activated" => t.flagged = Candidates

TxnInv ==
    /\ OnePublisher
    /\ \A p \in Publishers : Open(p) /\ aux_during = {} => Progress(txn[p])

-----------------------------------------------------------------------------

\* Two postings cannot come first of each other.
LEMMA OneFirst ==
    ASSUME NEW f \in [Jobs -> Promise!Input], NEW i \in Jobs, NEW j \in Jobs,
           Promise!Before(f, i, j), Promise!Before(f, j, i)
    PROVE  FALSE
<1>1. f[i].rank \in Nat /\ f[j].rank \in Nat
  BY OrderAssumption DEF Promise!Input
<1>2. Order[i] \in Nat /\ Order[j] \in Nat
  BY OrderAssumption
<1> QED
  BY <1>1, <1>2 DEF Promise!Before

\* The view has at most one row for each opportunity.
LEMMA OneOfEach ==
    ASSUME NEW f \in [Jobs -> Promise!Input],
           NEW i \in Promise!Representatives(f), NEW j \in Promise!Representatives(f),
           f[i].opportunity = f[j].opportunity
    PROVE  i = j
<1> SUFFICES ASSUME i # j PROVE FALSE
  OBVIOUS
<1>1. i \in Jobs /\ j \in Jobs /\ Promise!Before(f, i, j) /\ Promise!Before(f, j, i)
  BY DEF Promise!Representatives
<1> QED
  BY <1>1, OneFirst

LEMMA Counted ==
    ASSUME NEW S \in SUBSET Jobs
    PROVE  Cardinality(S) \in Nat
BY JobsAssumption, FS_Subset, FS_CardinalityType

LEMMA CandidatesType ==
    Candidates \in SUBSET Jobs
BY DEF Candidates, Promise!Representatives

\* What a publisher step leaves alone.
LEMMA Untouched ==
    ASSUME NEW p \in Publishers, PublisherStep(p)
    PROVE  inputs' = inputs /\ Candidates' = Candidates
BY DEF PublisherStep, Begin, ReadRemovals, ReadAdditions, Deactivate, Activate, Commit, Abort,
       Candidates, Promise!Representatives

-----------------------------------------------------------------------------

\* Every variable keeps its type (Publication!PublicationTypeOK).
THEOREM PublicationTypeCorrect == PublicationSpec => []PublicationTypeOK
<1>1. PublicationInit => PublicationTypeOK
  <2> SUFFICES ASSUME PublicationInit PROVE PublicationTypeOK
    OBVIOUS
  <2>1. public \subseteq Jobs
    BY DEF PublicationInit
  <2>2. IdleTxn \in Txn
    BY DEF IdleTxn, Txn
  <2>3. log \in Seq(LogEntry)
    BY DEF PublicationInit
  <2> QED
    BY <2>1, <2>2, <2>3 DEF PublicationInit, PublicationTypeOK
<1>2. PublicationTypeOK /\ [PublicationNext]_publicationVars => PublicationTypeOK'
  <2> SUFFICES ASSUME PublicationTypeOK, [PublicationNext]_publicationVars PROVE PublicationTypeOK'
    OBVIOUS
  <2>c. Candidates \in SUBSET Jobs
    BY CandidatesType
  <2>i. IdleTxn \in Txn
    BY DEF IdleTxn, Txn
  <2>s. CASE UNCHANGED publicationVars
    BY <2>s DEF publicationVars, publicationAux, PublicationTypeOK
  <2>j. ASSUME NEW j \in Jobs, ChangeInputs(j) PROVE PublicationTypeOK'
    BY <2>j DEF ChangeInputs, PublicationTypeOK
  <2>d. CASE Seed
    BY <2>d, <2>c DEF Seed, PublicationTypeOK
  <2>p. ASSUME NEW p \in Publishers, PublisherStep(p) PROVE PublicationTypeOK'
    <3>t. txn[p] \in Txn
      BY DEF PublicationTypeOK
    <3>1. CASE Begin(p)
      <4>1. Cardinality(public) \in Nat /\ Cardinality(Candidates) \in Nat
        BY <2>c, Counted DEF PublicationTypeOK
      <4> DEFINE t == [IdleTxn EXCEPT !.pc = "counted", !.prior = Cardinality(public),
                           !.candidate = Cardinality(Candidates), !.flagged = public]
      <4>2. t \in Txn
        BY <4>1, <2>i DEF PublicationTypeOK, Txn, IdleTxn
      <4>3. txn' = [txn EXCEPT ![p] = t]
        BY <3>1 DEF Begin
      <4> HIDE DEF t
      <4> QED
        BY <3>1, <4>2, <4>3 DEF Begin, PublicationTypeOK
    <3>2. CASE ReadRemovals(p)
      BY <3>2, <3>t DEF ReadRemovals, PublicationTypeOK, publicationAux, Txn
    <3>3. CASE ReadAdditions(p)
      BY <3>3, <3>t, <2>c DEF ReadAdditions, PublicationTypeOK, publicationAux, Txn
    <3>4. CASE Deactivate(p)
      <4> DEFINE gone == Leaving(txn[p])
      <4>1. gone \in SUBSET Jobs
        BY <3>t DEF Leaving, Txn
      <4>2. Cardinality(gone) \in Nat
        BY <4>1, Counted
      <4> HIDE DEF gone
      <4> QED
        BY <3>4, <3>t, <4>1, <4>2 DEF Deactivate, PublicationTypeOK, publicationAux, Txn, gone
    <3>5. CASE Activate(p)
      <4> DEFINE new == Entering(txn[p])
      <4>1. new \in SUBSET Jobs
        BY <2>c DEF Entering
      <4>2. Cardinality(new) \in Nat
        BY <4>1, Counted
      <4> HIDE DEF new
      <4> QED
        BY <3>5, <3>t, <4>1, <4>2 DEF Activate, PublicationTypeOK, publicationAux, Txn, new
    <3>6. CASE Commit(p)
      <4>1. public' \subseteq Jobs
        BY <3>6, <3>t DEF Commit, Txn
      <4>2. Len(log) \in Nat
        BY DEF PublicationTypeOK
      <4>3. Notices(txn[p], Len(log) + 1) \subseteq Notice
        BY <3>t, <4>2 DEF Notices, Notice, Txn
      <4>4. log' \in Seq(LogEntry)
        <5> DEFINE e == [prior |-> txn[p].prior, candidate |-> txn[p].candidate,
                         activated |-> txn[p].activated, deactivated |-> txn[p].deactivated]
        <5>1. e \in LogEntry
          BY <3>t DEF LogEntry, Txn
        <5>2. log' = Append(log, e)
          BY <3>6 DEF Commit
        <5> HIDE DEF e
        <5> QED
          BY <5>1, <5>2 DEF PublicationTypeOK
      <4> QED
        BY <3>6, <4>1, <4>3, <4>4, <2>i DEF Commit, PublicationTypeOK
    <3>7. CASE Abort(p)
      BY <3>7, <2>i DEF Abort, PublicationTypeOK, publicationAux
    <3> QED
      BY <2>p, <3>1, <3>2, <3>3, <3>4, <3>5, <3>6, <3>7 DEF PublisherStep
  <2> QED
    BY <2>s, <2>j, <2>d, <2>p DEF PublicationNext
<1> QED
  BY <1>1, <1>2, PTL DEF PublicationSpec

-----------------------------------------------------------------------------

\* Progress is kept: the candidates have not moved under the open transaction.
LEMMA TxnStep ==
    ASSUME PublicationTypeOK, TxnInv, [PublicationNext]_publicationVars
    PROVE  TxnInv'
<1>s. CASE UNCHANGED publicationVars
  BY <1>s DEF publicationVars, publicationAux, TxnInv, OnePublisher, Progress, Open, Candidates,
              Promise!Representatives
<1>j. ASSUME NEW j \in Jobs, ChangeInputs(j) PROVE TxnInv'
  <2>1. aux_during' # {} /\ txn' = txn
    BY <1>j DEF ChangeInputs
  <2> QED
    BY <2>1 DEF TxnInv, OnePublisher, Open
<1>d. CASE Seed
  <2>1. (\A p \in Publishers : ~Open(p)) /\ txn' = txn
    BY <1>d DEF Seed
  <2> QED
    BY <2>1 DEF TxnInv, OnePublisher, Open
<1>p. ASSUME NEW p \in Publishers, PublisherStep(p) PROVE TxnInv'
  <2>t. txn \in [Publishers -> Txn] /\ txn[p] \in Txn
    BY DEF PublicationTypeOK
  <2>k. inputs' = inputs /\ Candidates' = Candidates
    BY <1>p, Untouched
  <2>o. \A q \in Publishers \ {p} : txn'[q] = txn[q]
    BY <1>p, <2>t DEF PublisherStep, Begin, ReadRemovals, ReadAdditions, Deactivate, Activate,
                      Commit, Abort
  <2>1. CASE Begin(p)
    <3>1. \A q \in Publishers \ {p} : ~Open(q)'
      BY <2>1, <2>o DEF Begin, Open
    <3>2. txn'[p].pc = "counted" /\ txn'[p].flagged = public /\ public' = public
      BY <2>1, <2>t DEF Begin, IdleTxn
    <3>3. Progress(txn[p])'
      BY <2>1, <2>k, <3>2 DEF Begin, Progress
    <3> QED
      BY <3>1, <3>3 DEF TxnInv, OnePublisher
  <2>2. CASE Commit(p) \/ Abort(p)
    <3>1. Open(p)
      BY <2>2 DEF Commit, Abort, Open
    <3>2. \A q \in Publishers \ {p} : ~Open(q)
      BY <3>1 DEF TxnInv, OnePublisher
    <3>3. \A q \in Publishers : ~Open(q)'
      BY <2>2, <2>t, <2>o, <3>2 DEF Commit, Abort, Open, IdleTxn
    <3> QED
      BY <3>3 DEF TxnInv, OnePublisher
  <2>3. CASE ReadRemovals(p) \/ ReadAdditions(p) \/ Deactivate(p) \/ Activate(p)
    <3>1. Open(p) /\ public' = public /\ aux_during' = aux_during
      BY <2>3 DEF ReadRemovals, ReadAdditions, Deactivate, Activate, Open, publicationAux
    <3>2. \A q \in Publishers \ {p} : ~Open(q)
      BY <3>1 DEF TxnInv, OnePublisher
    <3>3. \A q \in Publishers \ {p} : ~Open(q)'
      BY <3>2, <2>o DEF Open
    <3>5. ASSUME aux_during = {} PROVE Progress(txn[p])'
      <4>0. Progress(txn[p])
        BY <3>1, <3>5 DEF TxnInv
      <4>1. CASE ReadRemovals(p)
        <5>1. txn'[p].pc = "removals" /\ txn'[p].flagged = txn[p].flagged
          BY <4>1, <2>t DEF ReadRemovals, Txn
        <5> QED
          BY <4>1, <5>1, <3>1, <4>0, <2>k DEF Progress, ReadRemovals
      <4>2. CASE ReadAdditions(p)
        <5>1. txn'[p].pc = "additions" /\ txn'[p].flagged = txn[p].flagged
          BY <4>2, <2>t DEF ReadAdditions, Txn
        <5> QED
          BY <4>2, <5>1, <3>1, <4>0, <2>k DEF Progress, ReadAdditions
      <4>3. CASE Deactivate(p)
        <5>1. /\ txn'[p].pc = "deactivated"
              /\ txn'[p].flagged = txn[p].flagged \ Leaving(txn[p])
          BY <4>3, <2>t DEF Deactivate, Txn
        <5> QED
          BY <4>3, <5>1, <3>1, <4>0, <2>k DEF Progress, Deactivate, Leaving
      <4>4. CASE Activate(p)
        <5>1. /\ txn'[p].pc = "activated"
              /\ txn'[p].flagged = txn[p].flagged \cup Entering(txn[p])
          BY <4>4, <2>t DEF Activate, Txn
        <5> QED
          BY <4>4, <5>1, <3>1, <4>0, <2>k DEF Progress, Activate, Entering
      <4> QED
        BY <2>3, <4>1, <4>2, <4>3, <4>4
    <3> QED
      BY <3>1, <3>3, <3>5 DEF TxnInv, OnePublisher
  <2> QED
    BY <1>p, <2>1, <2>2, <2>3 DEF PublisherStep
<1> QED
  BY <1>s, <1>j, <1>d, <1>p DEF PublicationNext

\* One publication is open at a time, and while nobody changes a posting under
\* it, its view of the public set develops from the old snapshot to the
\* candidate set of the moment it began (Publication!PublisherStep).
THEOREM TransactionProgress == PublicationSpec => []TxnInv
<1>1. PublicationInit => TxnInv
  BY DEF PublicationInit, TxnInv, OnePublisher, Open, IdleTxn
<1>2. PublicationTypeOK /\ TxnInv /\ [PublicationNext]_publicationVars => TxnInv'
  BY TxnStep
<1> QED
  BY <1>1, <1>2, PublicationTypeCorrect, PTL DEF PublicationSpec

\* The inputs of now are among those of the publication.
LEMMA NowIsMeanwhile ==
    ASSUME PublicationTypeOK
    PROVE  inputs \in Promise!Meanwhile
<1> DEFINE g == [j \in Concurrent |-> inputs[j]]
<1>1. g \in [Concurrent -> Promise!Input]
  BY JobsAssumption DEF PublicationTypeOK
<1>2. inputs = [j \in Jobs |-> IF j \in Concurrent THEN g[j] ELSE inputs[j]]
  BY DEF PublicationTypeOK
<1> QED
  BY <1>1, <1>2, Zenon DEF Promise!Meanwhile

\* A process that runs beside the publication does not widen them.
LEMMA MeanwhileStays ==
    ASSUME PublicationTypeOK, NEW j \in Jobs, ChangeInputs(j), j \in Concurrent
    PROVE  Promise!Meanwhile' = Promise!Meanwhile
<1>1. \A i \in Jobs \ Concurrent : inputs'[i] = inputs[i]
  BY DEF ChangeInputs, PublicationTypeOK
<1>2. \A g : [i \in Jobs |-> IF i \in Concurrent THEN g[i] ELSE inputs'[i]]
             = [i \in Jobs |-> IF i \in Concurrent THEN g[i] ELSE inputs[i]]
  BY <1>1
<1>3. ASSUME NEW f PROVE f \in Promise!Meanwhile' <=> f \in Promise!Meanwhile
  BY <1>2 DEF Promise!Meanwhile
<1> QED
  BY <1>3

\* Which publisher a step of the program leaves open.
LEMMA StaysOpen ==
    ASSUME PublicationTypeOK, OnePublisher, NEW p \in Publishers, PublisherStep(p)
    PROVE  \A q \in Publishers : Open(q)' => q = p /\ ~Commit(p) /\ ~Abort(p)
<1>1. txn \in [Publishers -> Txn]
  BY DEF PublicationTypeOK
<1>2. \A q \in Publishers \ {p} : txn'[q] = txn[q]
  BY <1>1 DEF PublisherStep, Begin, ReadRemovals, ReadAdditions, Deactivate, Activate, Commit, Abort
<1>3. \A q \in Publishers \ {p} : ~Open(q)
  <2>1. CASE Begin(p)
    BY <2>1 DEF Begin
  <2>2. CASE ~Begin(p)
    <3>1. Open(p)
      BY <2>2 DEF PublisherStep, ReadRemovals, ReadAdditions, Deactivate, Activate, Commit, Abort, Open
    <3> QED
      BY <3>1 DEF OnePublisher
  <2> QED
    BY <2>1, <2>2
<1>4. Commit(p) \/ Abort(p) => ~Open(p)'
  BY <1>1 DEF Commit, Abort, Open, IdleTxn
<1> QED
  BY <1>2, <1>3, <1>4 DEF Open

\* What the open transaction has looked at stays among the inputs of the
\* publication.
LEMMA LookedStep ==
    ASSUME PublicationTypeOK, OnePublisher, LookedInv, [PublicationNext]_publicationVars
    PROVE  LookedInv'
<1>s. CASE UNCHANGED publicationVars
  BY <1>s DEF publicationVars, LookedInv, Looked, Open, Promise!Meanwhile
<1>j. ASSUME NEW j \in Jobs, ChangeInputs(j) PROVE LookedInv'
  <2> SUFFICES ASSUME NEW p \in Publishers, Open(p)' PROVE Looked(txn[p])'
    BY DEF LookedInv
  <2>1. Open(p) /\ txn' = txn /\ public' = public
    BY <1>j DEF ChangeInputs, Open
  <2>2. Promise!Meanwhile' = Promise!Meanwhile
    BY <1>j, <2>1, MeanwhileStays DEF ChangeInputs
  <2>3. Looked(txn[p])
    BY <2>1 DEF LookedInv
  <2> QED
    BY <2>1, <2>2, <2>3 DEF Looked
<1>d. CASE Seed
  BY <1>d DEF Seed, LookedInv, Open
<1>p. ASSUME NEW p \in Publishers, PublisherStep(p) PROVE LookedInv'
  <2> SUFFICES ASSUME Open(p)', ~Commit(p), ~Abort(p) PROVE Looked(txn[p])'
    BY <1>p, StaysOpen DEF LookedInv
  <2>t. txn[p] \in Txn /\ txn \in [Publishers -> Txn]
    BY DEF PublicationTypeOK
  <2>k. inputs' = inputs /\ public' = public
    BY <1>p DEF PublisherStep, Begin, ReadRemovals, ReadAdditions, Deactivate, Activate
  <2>m. Promise!Meanwhile' = Promise!Meanwhile
    BY <2>k DEF Promise!Meanwhile
  <2>n. inputs \in Promise!Meanwhile /\ Candidates = Promise!Representatives(inputs)
    BY NowIsMeanwhile DEF Candidates
  <2>1. CASE Begin(p)
    <3>1. txn'[p].pc = "counted" /\ txn'[p].flagged = public
      BY <2>1, <2>t DEF Begin, IdleTxn
    <3>2. Promise!MeetsFloor(Promise!Representatives(inputs), public)
      BY <2>1, <2>n DEF Begin
    <3> QED
      BY <2>k, <2>m, <2>n, <3>1, <3>2 DEF Looked
  <2>2. CASE ReadRemovals(p) \/ ReadAdditions(p)
    <3>1. txn[p].pc \in {"counted", "removals"} /\ txn'[p].pc \in {"removals", "additions"}
          /\ txn'[p].flagged = txn[p].flagged
      BY <2>2, <2>t DEF ReadRemovals, ReadAdditions, Txn
    <3>2. Looked(txn[p])
      BY <3>1 DEF LookedInv, Open
    <3> QED
      BY <2>k, <2>m, <3>1, <3>2 DEF Looked
  <2>3. CASE Deactivate(p)
    <3>1. /\ txn[p].pc = "additions" /\ txn'[p].pc = "deactivated"
          /\ txn'[p].flagged = txn[p].flagged \ Leaving(txn[p])
      BY <2>3, <2>t DEF Deactivate, Txn
    <3>2. Looked(txn[p])
      BY <3>1 DEF LookedInv, Open
    <3>3. txn'[p].flagged = public \cap Promise!Representatives(inputs)
      BY <2>n, <3>1, <3>2 DEF Looked, Leaving
    <3> QED
      BY <2>k, <2>m, <2>n, <3>1, <3>2, <3>3 DEF Looked
  <2>4. CASE Activate(p)
    <3>1. /\ txn[p].pc = "deactivated" /\ txn'[p].pc = "activated"
          /\ txn'[p].flagged = txn[p].flagged \cup Entering(txn[p])
      BY <2>4, <2>t DEF Activate, Txn
    <3>2. Looked(txn[p])
      BY <3>1 DEF LookedInv, Open
    <3>3. PICK g \in Promise!Meanwhile : txn[p].flagged = public \cap Promise!Representatives(g)
      BY <3>1, <3>2 DEF Looked
    <3>4. txn'[p].flagged = (public \cap Promise!Representatives(g))
                               \cup Promise!Representatives(inputs)
      BY <2>n, <3>1, <3>3 DEF Entering
    <3> QED
      BY <2>k, <2>m, <2>n, <3>1, <3>2, <3>4 DEF Looked
  <2> QED
    BY <1>p, <2>1, <2>2, <2>3, <2>4 DEF PublisherStep
<1> QED
  BY <1>s, <1>j, <1>d, <1>p DEF PublicationNext

\* Every step of the publisher is a step of the promise or leaves it alone.
LEMMA StepRefines ==
    ASSUME PublicationTypeOK, LookedInv, [PublicationNext]_publicationVars
    PROVE  [Promise!Next]_(Promise!vars)
<1>s. CASE UNCHANGED publicationVars
  BY <1>s DEF publicationVars, Promise!vars
<1>j. ASSUME NEW j \in Jobs, ChangeInputs(j) PROVE Promise!Change
  BY <1>j DEF ChangeInputs, Promise!Change, PublicationTypeOK
<1>d. Seed => Promise!Seed
  BY DEF Seed, Promise!Seed, Candidates
<1>p. ASSUME NEW p \in Publishers, PublisherStep(p)
      PROVE  Promise!Publish \/ UNCHANGED Promise!vars
  <2>1. CASE Commit(p)
    <3>1. Open(p) /\ txn[p].pc = "activated" /\ public' = txn[p].flagged /\ inputs' = inputs
      BY <2>1 DEF Commit, Open
    <3>2. Looked(txn[p])
      BY <3>1 DEF LookedInv
    <3> QED
      BY <3>1, <3>2 DEF Looked, Promise!Publish
  <2>2. CASE ~Commit(p)
    BY <1>p, <2>2 DEF PublisherStep, Begin, ReadRemovals, ReadAdditions, Deactivate, Activate,
                      Abort, Promise!vars
  <2> QED
    BY <2>1, <2>2
<1> QED
  BY <1>s, <1>j, <1>d, <1>p DEF PublicationNext, Promise!Next

\* The publisher implements the promise of sql/publication_boundary.sql beside
\* any processes that change postings: the public set is replaced as a whole, by
\* postings that were candidates when the publication looked, above the floor
\* (Publication!KeepsPromise).
THEOREM PublicationRefines == PublicationSpec => KeepsPromise
<1>1. PublicationInit => Promise!Init /\ LookedInv
  BY DEF PublicationInit, Promise!Init, LookedInv, Open, IdleTxn
<1>2. PublicationTypeOK /\ LookedInv /\ [PublicationNext]_publicationVars => [Promise!Next]_(Promise!vars)
  BY StepRefines
<1>3. PublicationTypeOK /\ TxnInv /\ LookedInv /\ [PublicationNext]_publicationVars => LookedInv'
  BY LookedStep DEF TxnInv
<1> QED
  BY <1>1, <1>2, <1>3, PublicationTypeCorrect, TransactionProgress, PTL
  DEF PublicationSpec, KeepsPromise, Promise!Spec

\* What the open transaction shows of unchanged postings has no two of one
\* opportunity.
LEMMA UnsharedStep ==
    ASSUME PublicationTypeOK, OnePublisher, UnsharedInv, [PublicationNext]_publicationVars
    PROVE  UnsharedInv'
<1>i. inputs \in [Jobs -> Promise!Input] /\ Candidates \in SUBSET Jobs
  BY CandidatesType DEF PublicationTypeOK
<1>s. CASE UNCHANGED publicationVars
  BY <1>s DEF publicationVars, publicationAux, UnsharedInv, Unshared, Open, Promise!Before
<1>j. ASSUME NEW k \in Jobs, ChangeInputs(k) PROVE UnsharedInv'
  <2> SUFFICES ASSUME NEW p \in Publishers, Open(p) PROVE Unshared(txn[p])'
    BY <1>j DEF UnsharedInv, ChangeInputs, Open
  <2>1. txn' = txn /\ aux_during' = aux_during \cup {k}
    BY <1>j DEF ChangeInputs
  <2>2. \A i \in Jobs \ aux_during' : inputs'[i] = inputs[i]
    BY <1>i, <1>j, <2>1 DEF ChangeInputs
  <2>3. Unshared(txn[p]) /\ txn[p].flagged \subseteq Jobs
    BY DEF UnsharedInv, PublicationTypeOK, Txn
  <2>4. \A i, j \in Jobs \ aux_during' :
           Promise!Before(inputs, i, j) => Promise!Before(inputs', i, j)
    BY <2>2 DEF Promise!Before
  <2>5. ASSUME txn[p].pc = "deactivated", NEW i \in txn[p].flagged \ aux_during'
        PROVE  /\ inputs'[i].eligible
               /\ \A j \in Jobs \ (aux_during' \cup {i}) :
                     inputs'[j].eligible /\ inputs'[j].opportunity = inputs'[i].opportunity
                       => Promise!Before(inputs', i, j)
    BY <2>1, <2>2, <2>3, <2>4, <2>5 DEF Unshared
  <2>6. ASSUME txn[p].pc = "activated", NEW i \in txn[p].flagged \ aux_during',
               NEW j \in txn[p].flagged \ aux_during', inputs'[i].opportunity = inputs'[j].opportunity
        PROVE  i = j
    BY <2>1, <2>2, <2>3, <2>6 DEF Unshared
  <2> QED
    BY <2>1, <2>5, <2>6 DEF Unshared, Promise!Before
<1>d. CASE Seed
  BY <1>d DEF Seed, UnsharedInv, Open
<1>p. ASSUME NEW p \in Publishers, PublisherStep(p) PROVE UnsharedInv'
  <2> SUFFICES ASSUME Open(p)', ~Commit(p), ~Abort(p) PROVE Unshared(txn[p])'
    BY <1>p, StaysOpen DEF UnsharedInv
  <2>t. txn[p] \in Txn /\ txn \in [Publishers -> Txn] /\ txn[p].flagged \subseteq Jobs
    BY DEF PublicationTypeOK, Txn
  <2>1. CASE Begin(p) \/ ReadRemovals(p) \/ ReadAdditions(p)
    <3>1. txn'[p].pc \notin {"deactivated", "activated"}
      BY <2>1, <2>t DEF Begin, ReadRemovals, ReadAdditions, IdleTxn, Txn
    <3> QED
      BY <3>1 DEF Unshared
  <2>2. CASE Deactivate(p)
    <3>1. /\ txn'[p].pc = "deactivated" /\ txn'[p].flagged = txn[p].flagged \ Leaving(txn[p])
          /\ inputs' = inputs /\ aux_during' = aux_during
      BY <2>2, <2>t DEF Deactivate, Txn, publicationAux
    <3>2. \A i \in txn'[p].flagged : i \in Promise!Representatives(inputs)
      BY <3>1 DEF Leaving, Candidates
    <3>3. ASSUME NEW i \in txn'[p].flagged
          PROVE  /\ inputs[i].eligible
                 /\ \A j \in Jobs \ {i} :
                       inputs[j].eligible /\ inputs[j].opportunity = inputs[i].opportunity
                         => Promise!Before(inputs, i, j)
      BY <3>2, <3>3 DEF Promise!Representatives
    <3> QED
      BY <3>1, <3>3 DEF Unshared, Promise!Before
  <2>3. CASE Activate(p)
    <3>1. /\ txn[p].pc = "deactivated" /\ txn'[p].pc = "activated"
          /\ txn'[p].flagged = txn[p].flagged \cup Candidates
          /\ inputs' = inputs /\ aux_during' = aux_during
      BY <2>3, <2>t DEF Activate, Txn, Entering, publicationAux
    <3>2. Unshared(txn[p])
      BY <3>1 DEF UnsharedInv, Open
    <3>3. ASSUME NEW i \in (txn[p].flagged \cup Candidates) \ aux_during,
                 NEW j \in Jobs \ aux_during, i # j, inputs[j].eligible,
                 inputs[j].opportunity = inputs[i].opportunity
          PROVE  inputs[i].eligible /\ Promise!Before(inputs, i, j)
      <4>1. CASE i \in txn[p].flagged
        BY <3>1, <3>2, <3>3, <4>1 DEF Unshared
      <4>2. CASE i \in Candidates
        BY <3>3, <4>2 DEF Candidates, Promise!Representatives
      <4> QED
        BY <3>3, <4>1, <4>2
    <3>4. \A i \in (txn[p].flagged \cup Candidates) \ aux_during : inputs[i].eligible /\ i \in Jobs
      BY <1>i, <2>t, <3>1, <3>2 DEF Unshared, Candidates, Promise!Representatives
    <3>5. ASSUME NEW i \in (txn[p].flagged \cup Candidates) \ aux_during,
                 NEW j \in (txn[p].flagged \cup Candidates) \ aux_during,
                 inputs[i].opportunity = inputs[j].opportunity, i # j
          PROVE  FALSE
      <4>1. Promise!Before(inputs, i, j) /\ Promise!Before(inputs, j, i) /\ i \in Jobs /\ j \in Jobs
        BY <3>3, <3>4, <3>5
      <4> QED
        BY <1>i, <4>1, OneFirst
    <3> QED
      BY <3>1, <3>5 DEF Unshared
  <2> QED
    BY <1>p, <2>1, <2>2, <2>3 DEF PublisherStep
<1> QED
  BY <1>s, <1>j, <1>d, <1>p DEF PublicationNext

LEMMA UnsharedInvariant == PublicationSpec => []UnsharedInv
<1>1. PublicationInit => UnsharedInv
  BY DEF PublicationInit, UnsharedInv, Open, IdleTxn
<1>2. PublicationTypeOK /\ TxnInv /\ UnsharedInv /\ [PublicationNext]_publicationVars => UnsharedInv'
  BY UnsharedStep DEF TxnInv
<1> QED
  BY <1>1, <1>2, PublicationTypeCorrect, TransactionProgress, PTL DEF PublicationSpec

\* Of two public postings of one opportunity, one was regrouped or otherwise
\* changed since the last publication began, however canonicalization, crawls
\* and publications interleave (Publication!OneRepresentative).
THEOREM OnePublicPosting == PublicationSpec => []OneRepresentative
<1>1. PublicationInit => OneRepresentative
  BY DEF PublicationInit, OneRepresentative
<1>2. PublicationTypeOK /\ UnsharedInv /\ OneRepresentative /\ [PublicationNext]_publicationVars
        => OneRepresentative'
  <2> SUFFICES ASSUME PublicationTypeOK, UnsharedInv, OneRepresentative, [PublicationNext]_publicationVars
               PROVE  OneRepresentative'
    OBVIOUS
  <2>i. inputs \in [Jobs -> Promise!Input] /\ public \subseteq Jobs
    BY DEF PublicationTypeOK
  <2>1. CASE UNCHANGED <<inputs, public, aux_since>>
    BY <2>1 DEF OneRepresentative
  <2>2. ASSUME NEW k \in Jobs, ChangeInputs(k) PROVE OneRepresentative'
    <3>1. public' = public /\ aux_since' = aux_since \cup {k}
      BY <2>2 DEF ChangeInputs
    <3>2. \A i \in public \ aux_since' : inputs'[i] = inputs[i] /\ i \in public \ aux_since
      BY <2>i, <2>2, <3>1 DEF ChangeInputs
    <3> QED
      BY <3>1, <3>2 DEF OneRepresentative
  <2>3. CASE Seed
    <3>1. public' = Promise!Representatives(inputs) /\ inputs' = inputs
      BY <2>3 DEF Seed, Candidates
    <3> QED
      BY <2>i, <3>1, OneOfEach DEF OneRepresentative
  <2>4. ASSUME NEW p \in Publishers, Commit(p) PROVE OneRepresentative'
    <3>1. /\ Open(p) /\ txn[p].pc = "activated" /\ public' = txn[p].flagged
          /\ aux_since' = aux_during /\ inputs' = inputs
      BY <2>4 DEF Commit, Open
    <3> QED
      BY <3>1 DEF UnsharedInv, Unshared, OneRepresentative
  <2>5. ASSUME NEW p \in Publishers, PublisherStep(p), ~Commit(p) PROVE OneRepresentative'
    BY <2>1, <2>5 DEF PublisherStep, Begin, ReadRemovals, ReadAdditions, Deactivate, Activate, Abort, publicationAux
  <2>6. CASE UNCHANGED publicationVars
    BY <2>1, <2>6 DEF publicationVars, publicationAux
  <2> QED
    BY <2>2, <2>3, <2>4, <2>5, <2>6 DEF PublicationNext
<1> QED
  BY <1>1, <1>2, PublicationTypeCorrect, UnsharedInvariant, PTL DEF PublicationSpec

-----------------------------------------------------------------------------
\* The notices and the counts.

\* The publisher is asked for at least one posting (--minimum, 1000 if not given).
SomeMinimum == Minimum > 0

\* What the open transaction has read and counted, measured on the committed
\* public set, which nobody else replaces.
Account(t) ==
    /\ t.prior = Cardinality(public)
    /\ t.pc \in {"removals", "additions", "deactivated", "activated"} => t.removed = public \ Candidates
    /\ t.pc \in {"additions", "deactivated", "activated"} => t.added = Candidates \ public
    /\ t.pc \in {"deactivated", "activated"} => t.deactivated = Cardinality(public \ Candidates)
    /\ t.pc = "activated" => t.activated = Cardinality(Candidates \ public)

\* As long as no publication was disturbed, the snapshot never empties once
\* something was published, so that the seed, which writes neither notices nor a
\* row of publication_runs, comes first.
AccountInv ==
    /\ \A p \in Publishers : Open(p) /\ aux_during = {} => Account(txn[p])
    /\ ~aux_disturbed /\ log # <<>> => public # {}
    /\ \A n \in queue : n.at <= Len(log) /\ n.at > 0

\* What leaves a finite set and what arrives account for the difference.
LEMMA Exchange ==
    ASSUME NEW S \in SUBSET Jobs, NEW T \in SUBSET Jobs
    PROVE  Cardinality(S) + Cardinality(T \ S) = Cardinality(S \ T) + Cardinality(T)
<1>1. IsFiniteSet(S) /\ IsFiniteSet(T)
  BY JobsAssumption, FS_Subset
<1>2. /\ Cardinality(S \ T) = Cardinality(S) - Cardinality(S \cap T)
      /\ Cardinality(T \ S) = Cardinality(T) - Cardinality(T \cap S)
  BY <1>1, FS_Difference
<1>3. S \cap T = T \cap S
  OBVIOUS
<1>4. Cardinality(S) \in Nat /\ Cardinality(T) \in Nat /\ Cardinality(S \cap T) \in Nat
  BY Counted
<1> QED BY <1>2, <1>3, <1>4

\* The promise counts with its own instance of the operator.
LEMMA SameCount == \A S : Promise!Cardinality(S) = Cardinality(S)
  BY DEF Promise!Cardinality, Cardinality, Promise!IsFiniteSet, IsFiniteSet

\* A snapshot that meets a positive floor is not empty.
LEMMA NotEmpty ==
    ASSUME SomeMinimum, NEW C \in SUBSET Jobs, NEW S \in SUBSET Jobs, Promise!MeetsFloor(C, S)
    PROVE  C # {}
<1>1. Cardinality(C) \in Nat /\ Cardinality(S) \in Nat /\ Minimum \in Nat /\ FloorPercent \in Nat
  BY Counted, FloorAssumption
<1>2. Promise!Required(Cardinality(S)) >= Minimum
  <2> DEFINE share == (Cardinality(S) * FloorPercent) \div 100
  <2>1. share \in Int
    BY <1>1
  <2> HIDE DEF share
  <2>2. Promise!AtLeast(Minimum, share) >= Minimum
    BY <1>1, <2>1 DEF Promise!AtLeast
  <2> QED BY <1>1, <2>2 DEF Promise!Required, share
<1>3. Promise!Required(Cardinality(S)) \in Int
  BY <1>1 DEF Promise!Required, Promise!AtLeast
<1>4. Cardinality(C) > 0
  BY <1>1, <1>2, <1>3, SameCount DEF Promise!MeetsFloor, SomeMinimum
<1>5. Cardinality({}) = 0
  BY FS_EmptySet
<1> QED BY <1>4, <1>5

\* What each step of the open transaction leaves in its account.
LEMMA AccountStep ==
    ASSUME PublicationTypeOK, TxnInv, AccountInv, NEW p \in Publishers, PublisherStep(p),
           aux_during' = {}
    PROVE  \A q \in Publishers : Open(q)' => Account(txn[q])'
<1>t. txn \in [Publishers -> Txn] /\ txn[p] \in Txn
  BY DEF PublicationTypeOK
<1>k. inputs' = inputs /\ Candidates' = Candidates
  BY Untouched
<1>o. \A q \in Publishers \ {p} : txn'[q] = txn[q]
  BY <1>t DEF PublisherStep, Begin, ReadRemovals, ReadAdditions, Deactivate, Activate, Commit, Abort
<1>1. CASE Begin(p)
  <2>1. \A q \in Publishers \ {p} : ~Open(q)'
    BY <1>1, <1>o DEF Begin, Open
  <2>2. /\ txn'[p].pc = "counted" /\ txn'[p].prior = Cardinality(public)
        /\ public' = public
    BY <1>1, <1>t DEF Begin, IdleTxn
  <2>3. Account(txn[p])'
    BY <2>2, <1>k DEF Account
  <2> QED BY <2>1, <2>3
<1>2. CASE Commit(p) \/ Abort(p)
  <2>1. Open(p)
    BY <1>2 DEF Commit, Abort, Open
  <2>2. \A q \in Publishers \ {p} : ~Open(q)
    BY <2>1 DEF TxnInv, OnePublisher
  <2>3. \A q \in Publishers : ~Open(q)'
    BY <1>2, <1>t, <1>o, <2>2 DEF Commit, Abort, Open, IdleTxn
  <2> QED BY <2>3
<1>3. CASE ReadRemovals(p) \/ ReadAdditions(p) \/ Deactivate(p) \/ Activate(p)
  <2>1. Open(p) /\ public' = public /\ aux_during = {}
    BY <1>3 DEF ReadRemovals, ReadAdditions, Deactivate, Activate, Open, publicationAux
  <2>2. \A q \in Publishers \ {p} : ~Open(q)'
    BY <2>1, <1>o DEF Open, TxnInv, OnePublisher
  <2>3. Account(txn[p]) /\ Progress(txn[p])
    BY <2>1 DEF AccountInv, TxnInv
  <2>4. CASE ReadRemovals(p)
    <3>1. /\ txn'[p].pc = "removals" /\ txn'[p].prior = txn[p].prior
          /\ txn'[p].removed = txn[p].flagged \ Candidates
      BY <2>4, <1>t DEF ReadRemovals, Txn
    <3>2. txn[p].flagged = public
      BY <2>3, <2>4 DEF Progress, ReadRemovals
    <3>3. Account(txn[p])'
      BY <2>1, <2>3, <3>1, <3>2, <1>k DEF Account
    <3> QED BY <2>2, <3>3
  <2>5. CASE ReadAdditions(p)
    <3>1. /\ txn'[p].pc = "additions" /\ txn'[p].prior = txn[p].prior
          /\ txn'[p].removed = txn[p].removed
          /\ txn'[p].added = Candidates \ txn[p].flagged
      BY <2>5, <1>t DEF ReadAdditions, Txn
    <3>2. txn[p].flagged = public /\ txn[p].pc = "removals"
      BY <2>3, <2>5 DEF Progress, ReadAdditions
    <3>3. Account(txn[p])'
      BY <2>1, <2>3, <3>1, <3>2, <1>k DEF Account
    <3> QED BY <2>2, <3>3
  <2>6. CASE Deactivate(p)
    <3>1. /\ txn'[p].pc = "deactivated" /\ txn'[p].prior = txn[p].prior
          /\ txn'[p].removed = txn[p].removed /\ txn'[p].added = txn[p].added
          /\ txn'[p].deactivated = Cardinality(Leaving(txn[p]))
      BY <2>6, <1>t DEF Deactivate, Txn
    <3>2. Leaving(txn[p]) = public \ Candidates /\ txn[p].pc = "additions"
      BY <2>3, <2>6 DEF Progress, Deactivate, Leaving
    <3>3. Account(txn[p])'
      BY <2>1, <2>3, <3>1, <3>2, <1>k DEF Account
    <3> QED BY <2>2, <3>3
  <2>7. CASE Activate(p)
    <3>1. /\ txn'[p].pc = "activated" /\ txn'[p].prior = txn[p].prior
          /\ txn'[p].removed = txn[p].removed /\ txn'[p].added = txn[p].added
          /\ txn'[p].deactivated = txn[p].deactivated
          /\ txn'[p].activated = Cardinality(Entering(txn[p]))
      BY <2>7, <1>t DEF Activate, Txn
    <3>2. Entering(txn[p]) = Candidates \ public /\ txn[p].pc = "deactivated"
      BY <2>3, <2>7 DEF Progress, Activate, Entering
    <3>3. Account(txn[p])'
      BY <2>1, <2>3, <3>1, <3>2, <1>k DEF Account
    <3> QED BY <2>2, <3>3
  <2> QED BY <1>3, <2>4, <2>5, <2>6, <2>7
<1> QED BY <1>1, <1>2, <1>3 DEF PublisherStep

\* What an undisturbed commit does, in terms of the committed sets before and
\* after it.
LEMMA CommitEffect ==
    ASSUME SomeMinimum, PublicationTypeOK, TxnInv, AccountInv, NEW p \in Publishers, Commit(p),
           ~aux_disturbed'
    PROVE  /\ Open(p) /\ ~aux_disturbed
           /\ public' = Candidates /\ public' # {} /\ public' \subseteq Jobs
           /\ log' = Append(log, [prior |-> Cardinality(public), candidate |-> txn[p].candidate,
                                  activated |-> Cardinality(public' \ public),
                                  deactivated |-> Cardinality(public \ public')])
           /\ queue' = queue
                \cup {[job |-> j, kind |-> "URL_DELETED", at |-> Len(log) + 1] : j \in public \ public'}
                \cup {[job |-> j, kind |-> "URL_UPDATED", at |-> Len(log) + 1] : j \in public' \ public}
<1>1. Open(p) /\ txn[p].pc = "activated" /\ aux_during = {} /\ ~aux_disturbed
  BY DEF Commit, Open
<1>2. Progress(txn[p]) /\ Account(txn[p])
  BY <1>1 DEF TxnInv, AccountInv
<1>3. public' = Candidates /\ Promise!MeetsFloor(Candidates, public)
  BY <1>1, <1>2 DEF Commit, Progress
<1>4. Candidates \in SUBSET Jobs /\ public \in SUBSET Jobs
  BY CandidatesType DEF PublicationTypeOK
<1>5. public' # {}
  BY <1>3, <1>4, NotEmpty
<1>6. /\ txn[p].prior = Cardinality(public) /\ txn[p].removed = public \ public'
      /\ txn[p].added = public' \ public /\ txn[p].deactivated = Cardinality(public \ public')
      /\ txn[p].activated = Cardinality(public' \ public)
  BY <1>1, <1>2, <1>3 DEF Account
<1> QED BY <1>1, <1>3, <1>4, <1>5, <1>6 DEF Commit, Notices

\* Of the steps of the open transaction only the commit writes what is shared.
LEMMA CommitWrites ==
    ASSUME NEW p \in Publishers, PublisherStep(p), ~Commit(p)
    PROVE  UNCHANGED <<public, queue, log, aux_disturbed>>
BY DEF PublisherStep, Begin, ReadRemovals, ReadAdditions, Deactivate, Activate, Abort, publicationAux

LEMMA AccountInvStep ==
    ASSUME SomeMinimum, PublicationTypeOK, TxnInv, AccountInv, [PublicationNext]_publicationVars
    PROVE  AccountInv'
<1>s. CASE UNCHANGED publicationVars
  BY <1>s DEF publicationVars, publicationAux, AccountInv, Account, Open, Candidates, Promise!Representatives
<1>j. ASSUME NEW j \in Jobs, ChangeInputs(j) PROVE AccountInv'
  <2>1. aux_during' # {} /\ UNCHANGED <<txn, public, queue, log, aux_disturbed>>
    BY <1>j DEF ChangeInputs
  <2> QED BY <2>1 DEF AccountInv
<1>d. CASE Seed
  <2>1. /\ (\A p \in Publishers : ~Open(p)) /\ UNCHANGED <<txn, queue, log, aux_disturbed>>
        /\ public = {}
    BY <1>d DEF Seed
  <2> QED BY <2>1 DEF AccountInv, Open
<1>p. ASSUME NEW p \in Publishers, PublisherStep(p) PROVE AccountInv'
  <2>1. \A q \in Publishers : Open(q)' /\ aux_during' = {} => Account(txn[q])'
    BY <1>p, AccountStep
  <2>2. CASE Commit(p)
    <3>1. log \in Seq(LogEntry) /\ Len(log) \in Nat
      BY DEF PublicationTypeOK
    <3>2. ~aux_disturbed' => public' # {}
      BY <2>2, CommitEffect
    <3>e. PICK entry : log' = Append(log, entry)
      BY <2>2 DEF Commit
    <3>l. Len(log') = Len(log) + 1
      BY <3>1, <3>e
    <3>q. queue' = queue \cup Notices(txn[p], Len(log) + 1)
      BY <2>2 DEF Commit
    <3>3. \A n \in queue' : n \in queue \/ n.at = Len(log) + 1
      BY <3>q DEF Notices
    <3>4. \A n \in queue : n.at \in Nat
      BY DEF PublicationTypeOK, Notice
    <3>5. \A n \in queue' : n.at <= Len(log') /\ n.at > 0
      BY <3>1, <3>l, <3>3, <3>4 DEF AccountInv
    <3> QED BY <2>1, <3>2, <3>5 DEF AccountInv
  <2>3. CASE ~Commit(p)
    <3>1. UNCHANGED <<public, queue, log, aux_disturbed>>
      BY <1>p, <2>3, CommitWrites
    <3> QED BY <2>1, <3>1 DEF AccountInv
  <2> QED BY <2>2, <2>3
<1> QED BY <1>s, <1>j, <1>d, <1>p DEF PublicationNext

LEMMA AccountInvariant == SomeMinimum => (PublicationSpec => []AccountInv)
<1> SUFFICES ASSUME SomeMinimum PROVE PublicationSpec => []AccountInv
  OBVIOUS
<1>1. PublicationInit => AccountInv
  BY DEF PublicationInit, AccountInv, Open, IdleTxn
<1>2. PublicationTypeOK /\ TxnInv /\ AccountInv /\ [PublicationNext]_publicationVars => AccountInv'
  BY AccountInvStep
<1>3. PublicationSpec => []TxnInv
  BY TransactionProgress
<1> QED BY <1>1, <1>2, <1>3, PublicationTypeCorrect, PTL DEF PublicationSpec

\* While the empty snapshot has not been published on, nothing is queued.
LEMMA SeedComesFirst ==
    ASSUME PublicationTypeOK, AccountInv, public = {}, ~aux_disturbed
    PROVE  log = <<>> /\ Len(log) = 0 /\ queue = {}
<1>1. log = <<>>
  BY DEF AccountInv
<1>2. Len(log) = 0
  BY <1>1
<1>3. \A n \in queue : n.at \in Nat /\ n.at <= 0 /\ n.at > 0
  BY <1>2 DEF AccountInv, PublicationTypeOK, Notice
<1>4. queue = {}
  BY <1>3
<1> QED BY <1>1, <1>2, <1>4

\* With a floor set, and until a publication has had inputs change under it,
\* each row of publication_runs starts from what the rows before it left public,
\* and the last accounts for what is public now (Publication!LogBalances).
THEOREM CountsChain == SomeMinimum => (PublicationSpec => []LogBalances)
<1> SUFFICES ASSUME SomeMinimum PROVE PublicationSpec => []LogBalances
  OBVIOUS
<1>1. PublicationInit => LogBalances
  BY DEF PublicationInit, LogBalances
<1>2. ASSUME PublicationTypeOK, TxnInv, AccountInv, LogBalances, [PublicationNext]_publicationVars
      PROVE  LogBalances'
  <2>s. CASE UNCHANGED <<log, public, aux_disturbed>>
    BY <1>2, <2>s DEF LogBalances
  <2>d. ASSUME Seed, ~aux_disturbed PROVE LogBalances'
    <3>1. Len(log) = 0 /\ log' = log
      BY <1>2, <2>d, SeedComesFirst DEF Seed
    <3> QED BY <3>1 DEF LogBalances
  <2>c. ASSUME NEW p \in Publishers, Commit(p), ~aux_disturbed' PROVE LogBalances'
    <3> DEFINE e == [prior |-> Cardinality(public), candidate |-> txn[p].candidate,
                     activated |-> Cardinality(public' \ public),
                     deactivated |-> Cardinality(public \ public')]
    <3>0. ~aux_disturbed
      BY <1>2, <2>c, CommitEffect
    <3>1. log' = Append(log, e) /\ public \subseteq Jobs /\ public' \subseteq Jobs
      BY <1>2, <2>c, CommitEffect DEF PublicationTypeOK
    <3>2. e.prior + e.activated = e.deactivated + Cardinality(public')
      BY <3>1, Exchange
    <3>3. e.prior = Cardinality(public)
      OBVIOUS
    <3>4. log \in Seq(LogEntry)
      BY <1>2 DEF PublicationTypeOK
    <3> HIDE DEF e
    <3>5. /\ Len(log') = Len(log) + 1 /\ Len(log) \in Nat /\ log'[Len(log) + 1] = e
          /\ \A k \in 1 .. Len(log) : log'[k] = log[k]
      BY <3>1, <3>4
    <3>6. ASSUME NEW k \in 1 .. Len(log')
          PROVE  log'[k].prior + log'[k].activated =
                   log'[k].deactivated
                     + (IF k < Len(log') THEN log'[k + 1].prior ELSE Cardinality(public'))
      <4>1. CASE k = Len(log) + 1
        BY <3>2, <3>5, <4>1
      <4>2. CASE k = Len(log)
        <5>1. /\ k \in 1 .. Len(log) /\ k < Len(log') /\ log'[k] = log[k]
              /\ log'[k + 1].prior = Cardinality(public)
          BY <3>3, <3>5, <3>6, <4>2
        <5>2. log[k].prior + log[k].activated = log[k].deactivated + Cardinality(public)
          BY <1>2, <3>0, <4>2, <5>1 DEF LogBalances
        <5> QED BY <5>1, <5>2
      <4>3. CASE k < Len(log)
        <5>1. /\ k \in 1 .. Len(log) /\ k + 1 \in 1 .. Len(log) /\ k < Len(log')
              /\ log'[k] = log[k] /\ log'[k + 1] = log[k + 1]
          BY <3>5, <3>6, <4>3
        <5>2. log[k].prior + log[k].activated = log[k].deactivated + log[k + 1].prior
          BY <1>2, <3>0, <4>3, <5>1 DEF LogBalances
        <5> QED BY <5>1, <5>2
      <4> QED BY <3>5, <3>6, <4>1, <4>2, <4>3
    <3> QED BY <3>6 DEF LogBalances
  <2>1. ASSUME NEW p \in Publishers, PublisherStep(p), ~Commit(p) PROVE LogBalances'
    BY <2>1, <2>s, CommitWrites
  <2>2. ASSUME NEW j \in Jobs, ChangeInputs(j) PROVE LogBalances'
    BY <2>2, <2>s DEF ChangeInputs
  <2>3. CASE UNCHANGED publicationVars
    BY <2>3, <2>s DEF publicationVars, publicationAux
  <2>4. ASSUME NEW p \in Publishers, PublisherStep(p) PROVE LogBalances'
    BY <2>4, <2>1, <2>c DEF LogBalances
  <2>5. CASE Seed
    BY <2>5, <2>d DEF Seed, LogBalances
  <2> QED BY <1>2, <2>5, <2>2, <2>3, <2>4 DEF PublicationNext
<1>3. PublicationSpec => []TxnInv
  BY TransactionProgress
<1>4. PublicationSpec => []AccountInv
  BY AccountInvariant
<1> QED BY <1>1, <1>2, <1>3, <1>4, PublicationTypeCorrect, PTL DEF PublicationSpec

\* With a floor set, and until a publication has had inputs change under it, the
\* newest notice of a posting agrees with the public set, however often it left
\* and returned (Publication!NewestNoticeTrue).
THEOREM NoticesTellTruth == SomeMinimum => (PublicationSpec => []NewestNoticeTrue)
<1> SUFFICES ASSUME SomeMinimum PROVE PublicationSpec => []NewestNoticeTrue
  OBVIOUS
<1>1. PublicationInit => NewestNoticeTrue
  BY DEF PublicationInit, NewestNoticeTrue
<1>2. ASSUME PublicationTypeOK, TxnInv, AccountInv, NewestNoticeTrue, [PublicationNext]_publicationVars
      PROVE  NewestNoticeTrue'
  <2>s. CASE UNCHANGED <<queue, public, aux_disturbed>>
    BY <1>2, <2>s DEF NewestNoticeTrue
  <2>d. ASSUME Seed, ~aux_disturbed PROVE NewestNoticeTrue'
    <3>1. queue' = {}
      BY <1>2, <2>d, SeedComesFirst DEF Seed
    <3> QED BY <3>1 DEF NewestNoticeTrue
  <2>c. ASSUME NEW p \in Publishers, Commit(p), ~aux_disturbed' PROVE NewestNoticeTrue'
    <3> DEFINE deleted == {[job |-> j, kind |-> "URL_DELETED", at |-> Len(log) + 1] : j \in public \ public'}
               updated == {[job |-> j, kind |-> "URL_UPDATED", at |-> Len(log) + 1] : j \in public' \ public}
    <3>0. ~aux_disturbed
      BY <1>2, <2>c, CommitEffect
    <3>1. queue' = queue \cup deleted \cup updated
      BY <1>2, <2>c, CommitEffect
    <3>2. Len(log) \in Nat /\ \A n \in queue : n.at \in Nat /\ n.at <= Len(log)
      BY <1>2 DEF PublicationTypeOK, AccountInv, Notice
    <3> SUFFICES ASSUME NEW n \in queue', \A m \in queue' : m.job = n.job => m.at <= n.at
                 PROVE  (n.kind = "URL_UPDATED") = (n.job \in public')
      BY DEF NewestNoticeTrue
    <3>3. CASE n \in deleted
      BY <3>3
    <3>4. CASE n \in updated
      BY <3>4
    <3>5. CASE n \in queue
      <4>1. n.job \notin public \ public'
        <5> SUFFICES ASSUME n.job \in public \ public' PROVE FALSE
          OBVIOUS
        <5>1. [job |-> n.job, kind |-> "URL_DELETED", at |-> Len(log) + 1] \in queue'
          BY <3>1
        <5>2. Len(log) + 1 <= n.at
          BY <5>1
        <5> QED BY <3>2, <3>5, <5>2
      <4>2. n.job \notin public' \ public
        <5> SUFFICES ASSUME n.job \in public' \ public PROVE FALSE
          OBVIOUS
        <5>1. [job |-> n.job, kind |-> "URL_UPDATED", at |-> Len(log) + 1] \in queue'
          BY <3>1
        <5>2. Len(log) + 1 <= n.at
          BY <5>1
        <5> QED BY <3>2, <3>5, <5>2
      <4>3. \A m \in queue : m.job = n.job => m.at <= n.at
        BY <3>1
      <4>4. (n.kind = "URL_UPDATED") = (n.job \in public)
        BY <1>2, <3>0, <3>5, <4>3 DEF NewestNoticeTrue
      <4> QED BY <4>1, <4>2, <4>4
    <3> QED BY <3>1, <3>3, <3>4, <3>5
  <2>1. ASSUME NEW p \in Publishers, PublisherStep(p), ~Commit(p) PROVE NewestNoticeTrue'
    BY <2>1, <2>s, CommitWrites
  <2>2. ASSUME NEW j \in Jobs, ChangeInputs(j) PROVE NewestNoticeTrue'
    BY <2>2, <2>s DEF ChangeInputs
  <2>3. CASE UNCHANGED publicationVars
    BY <2>3, <2>s DEF publicationVars, publicationAux
  <2>4. ASSUME NEW p \in Publishers, PublisherStep(p) PROVE NewestNoticeTrue'
    BY <2>4, <2>1, <2>c DEF NewestNoticeTrue
  <2>5. CASE Seed
    BY <2>5, <2>d DEF Seed, NewestNoticeTrue
  <2> QED BY <1>2, <2>5, <2>2, <2>3, <2>4 DEF PublicationNext
<1>3. PublicationSpec => []TxnInv
  BY TransactionProgress
<1>4. PublicationSpec => []AccountInv
  BY AccountInvariant
<1> QED BY <1>1, <1>2, <1>3, <1>4, PublicationTypeCorrect, PTL DEF PublicationSpec

=============================================================================
