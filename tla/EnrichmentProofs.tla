--------------------------- MODULE EnrichmentProofs ---------------------------
(***************************************************************************)
(* What holds of the enrichment for any postings, texts, replies, limits   *)
(* and numbers of crawls, runs and faults: the variables keep their types, *)
(* the breaker stops the calls, and the yearly amounts of a row are one    *)
(* reading.                                                                *)
(***************************************************************************)
EXTENDS Enrichment, FiniteSetTheorems, SequenceTheorems, TLAPS

LEMMA Constants ==
    /\ Postings \subseteq Nat /\ IsFiniteSet(Postings) /\ Recurring \subseteq Postings
    /\ Original \in [Postings -> Texts] /\ Permits \in Nat /\ Permits > 0
    /\ Offers \subseteq [lo : Nat, hi : Nat, period : {"year"}]
BY PostingsAssumption, OriginalAssumption, BoundsAssumption, OffersAssumption

-----------------------------------------------------------------------------
(* Salaries *)

LEMMA PeriodBounds ==
    ASSUME NEW period \in Period
    PROVE  /\ Floor[period] \in Nat /\ Floor[period] > 0 /\ Ceiling[period] \in Nat
           /\ Multiplier[period] \in Nat /\ Multiplier[period] > 0 /\ period # "none"
BY DEF Period, Floor, Ceiling, Multiplier

LEMMA NothingIsPlausible == Plausible(None)
BY DEF Plausible

\* A salary somebody read: both amounts are there, in order.
LEMMA PlausibleParts ==
    ASSUME NEW pay, Plausible(pay), pay # None
    PROVE  /\ pay \in [lo : Nat, hi : Nat, period : Period]
           /\ pay.lo \in Nat /\ pay.hi \in Nat /\ pay.period \in Period /\ pay.period # "none"
           /\ pay.lo > 0 /\ pay.hi > 0 /\ pay.lo <= pay.hi
           /\ Floor[pay.period] <= pay.lo /\ pay.hi <= Ceiling[pay.period]
<1>1. /\ pay \in [lo : Nat, hi : Nat, period : Period]
      /\ pay.lo <= pay.hi /\ Floor[pay.period] <= pay.lo /\ pay.hi <= Ceiling[pay.period]
  BY DEF Plausible, Sanity
<1>2. pay.lo \in Nat /\ pay.hi \in Nat /\ pay.period \in Period
  BY <1>1
<1>3. Floor[pay.period] \in Nat /\ Floor[pay.period] > 0 /\ pay.period # "none"
  BY <1>2, PeriodBounds
<1> QED
  BY <1>1, <1>2, <1>3

\* A reply that is accepted is put in order, whatever its amounts.
LEMMA ReplyOrdered ==
    ASSUME NEW r \in Replies PROVE Ordered(ParseReply(r))
<1>1. r.min \in Nat \ {0} /\ r.max \in Nat \ {0}
  BY RepliesAssumption
<1>2. /\ Lower(r.min, r.max) \in Nat \ {0} /\ Higher(r.min, r.max) \in Nat \ {0}
      /\ Lower(r.min, r.max) <= Higher(r.min, r.max)
  BY <1>1 DEF Lower, Higher
<1>3. CASE ParseReply(r) # None
  <2>1. r.period \in Period /\ ParseReply(r) = Pay(r.min, r.max, r.period)
    BY <1>3 DEF ParseReply
  <2>2. Pay(r.min, r.max, r.period)
          = [lo |-> Lower(r.min, r.max), hi |-> Higher(r.min, r.max), period |-> r.period]
    BY DEF Pay
  <2> QED
    BY <1>2, <2>1, <2>2 DEF Ordered
<1>4. CASE ParseReply(r) = None
  BY <1>4 DEF Ordered
<1> QED
  BY <1>3, <1>4

\* A plausible salary is in order, and both of its amounts are there.
LEMMA PlausibleIsOrdered == ASSUME NEW pay, Plausible(pay) PROVE Ordered(pay)
<1>1. CASE pay = None
  BY <1>1 DEF Ordered
<1>2. CASE pay # None
  <2>1. /\ pay \in [lo : Nat, hi : Nat, period : Period]
        /\ pay.lo > 0 /\ pay.hi > 0 /\ pay.lo <= pay.hi
    BY <1>2, PlausibleParts
  <2>2. pay = [lo |-> pay.lo, hi |-> pay.hi, period |-> pay.period]
    BY <2>1
  <2> QED
    BY <2>1, <2>2 DEF Ordered
<1> QED
  BY <1>1, <1>2

\* A reply without a period says nothing.
LEMMA EmptyReply == ParseReply([min |-> 1, max |-> 1, period |-> "none"]) = None
BY DEF ParseReply, Period

LEMMA PaysPlausible ==
    ASSUME NEW t \in Texts, NEW pay \in Pays(t) PROVE Plausible(pay) /\ pay # None
<1>1. pay # None
  BY DEF Pays
<1>2. CASE pay = InText[t] \/ pay = InWindows[t]
  BY <1>1, <1>2, ParsesAssumption
<1>3. CASE pay \in PlausibleReplies(t)
  BY <1>1, <1>3 DEF PlausibleReplies
<1> QED
  BY <1>1, <1>2, <1>3 DEF Pays

LEMMA AnnualType == ASSUME NEW v \in Nat, NEW period \in Period PROVE Annualize(v, period) \in Nat
<1>1. Multiplier[period] \in Nat
  BY PeriodBounds
<1>2. v * Multiplier[period] \in Nat
  BY <1>1
<1> QED
  BY <1>2 DEF Annualize

\* What is copied is what annualizing would give.
LEMMA AnnualOfYearly ==
    ASSUME NEW pay, Plausible(pay), pay.period = "year", pay # None
    PROVE  Annualize(pay.lo, "year") = pay.lo /\ Annualize(pay.hi, "year") = pay.hi
<1>1. /\ pay.lo \in Nat /\ pay.hi \in Nat /\ pay.lo <= pay.hi
      /\ Floor["year"] <= pay.lo /\ pay.hi <= Ceiling["year"]
  BY PlausibleParts
<1>2. Multiplier["year"] = 1 /\ Floor["year"] = 15000 /\ Ceiling["year"] = 1000000
  BY DEF Multiplier, Floor, Ceiling
<1> QED
  BY <1>1, <1>2 DEF Annualize
-----------------------------------------------------------------------------
(* Types: the tables and what was read of them *)

Tables ==
    /\ row \in [Postings -> Row] /\ aux_texts \in [Postings -> SUBSET Texts]
    /\ cache \subseteq Postings /\ known \subseteq Postings /\ written \subseteq Postings
    /\ DOMAIN scanned \subseteq Postings /\ DOMAIN read \subseteq Postings
    /\ \A p \in DOMAIN scanned : scanned[p] \in [was : Row, repair : BOOLEAN]
    /\ \A p \in DOMAIN read : read[p] \in Row
    /\ aux_half \subseteq Postings

\* A row with other salary columns, whatever they are taken from.
LEMMA RowWith ==
    ASSUME NEW r \in Row, NEW lo \in Nat, NEW hi \in Nat, NEW period \in Period \cup {"none"},
           NEW alo \in Nat, NEW ahi \in Nat, NEW sorted \in BOOLEAN, NEW text \in Texts
    PROVE  [r EXCEPT !.text = text, !.lo = lo, !.hi = hi, !.period = period, !.alo = alo,
                     !.ahi = ahi, !.sorted = sorted] \in Row
BY DEF Row

LEMMA RowParts ==
    ASSUME NEW r \in Row
    PROVE  /\ r.text \in Texts /\ r.lo \in Nat /\ r.hi \in Nat /\ r.period \in Period \cup {"none"}
           /\ r.alo \in Nat /\ r.ahi \in Nat /\ r.sorted \in BOOLEAN
BY DEF Row

LEMMA CrawlRow ==
    ASSUME NEW r \in Row, NEW text \in Texts, NEW offer \in {None} \cup Offers
    PROVE  Recrawled(r, text, offer) \in Row
<1>1. offer.lo \in Nat /\ offer.hi \in Nat /\ offer.period \in Period \cup {"none"}
  BY Constants DEF None, Period
<1>2. (r.sorted /\ text = r.text) \in BOOLEAN
  OBVIOUS
<1> HIDE DEF Texts
<1> QED
  BY <1>1, <1>2 DEF Recrawled, Row

LEMMA CopiedRow == ASSUME NEW r \in Row PROVE Copied(r) \in Row
BY DEF Copied, Row

\* What extract_salaries makes of a row it read, and of the row as it is.
LEMMA ExtractedPay ==
    ASSUME NEW s \in [was : Row, repair : BOOLEAN]
    PROVE  /\ Extracted(s).lo \in Nat /\ Extracted(s).hi \in Nat
           /\ Extracted(s) = [lo |-> Extracted(s).lo, hi |-> Extracted(s).hi, period |-> Extracted(s).period]
<1>1. s.was \in Row /\ s.was.text \in Texts
  BY RowParts
<1>2. Plausible(InWindows[s.was.text])
  BY <1>1, ParsesAssumption
<1>3. InWindows[s.was.text].lo \in Nat /\ InWindows[s.was.text].hi \in Nat
  BY <1>2, PlausibleParts DEF None
<1> QED
  BY <1>1, <1>3, RowParts DEF Extracted

LEMMA ExtractedRowType ==
    ASSUME Tables, NEW p \in Postings PROVE ExtractedRow(p) \in Row
<1>1. row[p] \in Row
  BY DEF Tables
<1> DEFINE pay == Extracted(scanned[p])
           alo == Annualize(pay.lo, pay.period)
           ahi == Annualize(pay.hi, pay.period)
<1>2. CASE p \notin DOMAIN scanned \/ pay.period \notin Period \/ alo = 0 \/ ahi = 0
  BY <1>1, <1>2 DEF ExtractedRow
<1>3. CASE ~(p \notin DOMAIN scanned \/ pay.period \notin Period \/ alo = 0 \/ ahi = 0)
  <2>1. scanned[p] \in [was : Row, repair : BOOLEAN]
    BY <1>3 DEF Tables
  <2>2. pay.lo \in Nat /\ pay.hi \in Nat
    BY <2>1, ExtractedPay
  <2>3. alo \in Nat /\ ahi \in Nat
    BY <1>3, <2>2, AnnualType
  <2>4. ExtractedRow(p) = IF scanned[p].repair THEN Replaced(row[p], pay, alo, ahi)
                          ELSE Coalesced(row[p], pay, alo, ahi)
    BY <1>3 DEF ExtractedRow
  <2>5. pay.period \in Period
    BY <1>3
  <2> HIDE DEF pay, alo, ahi
  <2>6. Replaced(row[p], pay, alo, ahi) \in Row
    BY <1>1, <2>2, <2>3, <2>5 DEF Replaced, Row
  <2>7. Coalesced(row[p], pay, alo, ahi) \in Row
    BY <1>1, <2>2, <2>3, <2>5 DEF Coalesced, OrElse, Row
  <2> QED
    BY <2>4, <2>6, <2>7
<1> QED
  BY <1>2, <1>3

\* What the enrichment writes.
LEMMA OfferOrdered ==
    ASSUME TypeOK, NEW p \in DOMAIN read PROVE Ordered(Offered(p))
<1>1. read[p].text \in Texts
  BY RowParts DEF TypeOK
<1>2. Ordered(Parsed(p))
  BY <1>1, ParsesAssumption, PlausibleIsOrdered DEF Parsed
<1>3. Ordered(Replied(p))
  BY DEF TypeOK, Replied, Ordered
<1> QED
  BY <1>2, <1>3 DEF Offered

LEMMA FilledRowType ==
    ASSUME TypeOK, NEW p \in DOMAIN read PROVE Filled(p) \in Row
<1>1. p \in Postings /\ row[p] \in Row /\ read[p] \in Row
  BY DEF TypeOK
<1>2. Ordered(Offered(p))
  BY OfferOrdered
<1>3. Offered(p) # None => Offered(p).lo \in Nat /\ Offered(p).hi \in Nat /\ Offered(p).period \in Period
  BY <1>2 DEF Ordered
<1>4. (row[p].sorted \/ ByRule(p) \/ p \in category) \in BOOLEAN
  OBVIOUS
<1> QED
  BY <1>1, <1>3, <1>4 DEF Filled, Row

LEMMA TablesStep == ASSUME TypeOK, [Next]_vars PROVE Tables'
<1>t. Tables
  BY DEF TypeOK, Tables
<1>1. ASSUME NEW p \in Postings, Crawl(p) PROVE Tables'
  <2>1. PICK text \in Texts, offer \in {None} \cup (IF p \in Structured THEN Offers ELSE {}) :
           /\ row' = [row EXCEPT ![p] = Recrawled(@, text, offer)]
           /\ aux_texts' = [aux_texts EXCEPT ![p] = @ \cup {text}]
    BY <1>1 DEF Crawl
  <2>2. Recrawled(row[p], text, offer) \in Row
    BY <1>t, CrawlRow DEF Tables
  <2>3. row' \in [Postings -> Row] /\ aux_texts' \in [Postings -> SUBSET Texts]
    BY <1>t, <2>1, <2>2 DEF Tables
  <2> QED
    BY <1>1, <1>t, <2>3 DEF Crawl, process, Tables
<1>2. CASE AnnualizeSalaries \/ AnnualizeLever
  <2>1. row' \in [Postings -> Row]
    BY <1>2, <1>t, CopiedRow DEF AnnualizeSalaries, AnnualizeLever, Tables
  <2> QED
    BY <1>2, <1>t, <2>1 DEF AnnualizeSalaries, AnnualizeLever, process, history, Tables
<1>3. CASE ExtractRead
  <2>1. PICK repair \in BOOLEAN, due \in SUBSET Postings :
           scanned' = [p \in due |-> [was |-> row[p], repair |-> repair]]
    BY <1>3 DEF ExtractRead
  <2> QED
    BY <1>3, <1>t, <2>1 DEF ExtractRead, tables, process, history, Tables
<1>4. CASE ExtractWrite
  <2>1. row' \in [Postings -> Row]
    BY <1>4, <1>t, ExtractedRowType DEF ExtractWrite
  <2> QED
    BY <1>4, <1>t, <2>1 DEF ExtractWrite, process, history, Nothing, Tables
<1>5. ASSUME NEW how \in {"rules", "calls", "batch"}, StartEnrich(how) PROVE Tables'
  BY <1>5, <1>t DEF StartEnrich, tables, Tables
<1>6. CASE WriteChunk
  <2>1. Chunk \subseteq DOMAIN read
    BY DEF Chunk, First, Selected
  <2>2. row' \in [Postings -> Row]
    BY <1>6, <1>t, <2>1, FilledRowType DEF WriteChunk, Tables
  <2>3. cache' \subseteq Postings /\ written' \subseteq Postings /\ aux_half' \subseteq Postings
    BY <1>6, <1>t, <2>1 DEF WriteChunk, Tables
  <2> QED
    BY <1>6, <1>t, <2>2, <2>3 DEF WriteChunk, history, Tables
<1>7. CASE Parse \/ Gathered \/ BatchEnds \/ FinishEnrich \/ Token \/ Admit \/ EnrichDies
  BY <1>7, <1>t DEF Parse, Gathered, BatchEnds, FinishEnrich, Token, Admit, EnrichDies, tables, process,
                    history, Tables
<1>8. ASSUME NEW p \in Postings, CategoryReply(p) \/ SalaryReply(p) PROVE Tables'
  BY <1>8, <1>t DEF CategoryReply, SalaryReply, Answered, tables, process, history, Tables
<1>9. CASE UNCHANGED vars
  BY <1>9, <1>t DEF vars, tables, process, history, Tables
<1> QED
  BY <1>1, <1>2, <1>3, <1>4, <1>5, <1>6, <1>7, <1>8, <1>9 DEF Next, Phase
-----------------------------------------------------------------------------
(* Types: the calls *)

\* The coroutines of a gather at one of the given steps.
At(f, steps) == {p \in DOMAIN f : f[p] \in steps}
Size(f, steps) == Cardinality(At(f, steps))
Used(f) == Size(f, {"inner", "calling"}) + Size(f, {"calling"})

LEMMA FreePermits == Free = Permits - Size(task, {"inner", "calling"}) - Size(task, {"calling"})
BY DEF Free, Entered, In, Size, At

LEMMA SizeType ==
    ASSUME NEW f, DOMAIN f \subseteq Postings, NEW steps
    PROVE  Size(f, steps) \in Nat /\ IsFiniteSet(At(f, steps))
<1>1. At(f, steps) \in SUBSET Postings
  BY DEF At
<1> QED
  BY <1>1, Constants, FS_Subset, FS_CardinalityType DEF Size

\* What one coroutine's step changes.
LEMMA SizeMoves ==
    ASSUME NEW f, DOMAIN f \subseteq Postings, NEW p \in DOMAIN f, NEW step, NEW steps
    PROVE  Size([f EXCEPT ![p] = step], steps)
             = Size(f, steps) - (IF f[p] \in steps THEN 1 ELSE 0) + (IF step \in steps THEN 1 ELSE 0)
<1> DEFINE g == [f EXCEPT ![p] = step]
           rest == At(f, steps) \ {p}
<1>1. IsFiniteSet(At(f, steps)) /\ Size(f, steps) \in Nat
  BY SizeType
<1>2. /\ IsFiniteSet(rest)
      /\ Cardinality(rest) = IF f[p] \in steps THEN Size(f, steps) - 1 ELSE Size(f, steps)
  BY <1>1, FS_RemoveElement DEF At, Size
<1>g. DOMAIN g = DOMAIN f /\ \A q \in DOMAIN f : g[q] = IF q = p THEN step ELSE f[q]
  OBVIOUS
<1> HIDE DEF g, rest
<1>3. CASE step \in steps
  <2>1. At(g, steps) = rest \cup {p}
    BY <1>g, <1>3 DEF At, rest
  <2>2. Cardinality(rest \cup {p}) = Cardinality(rest) + 1
    BY <1>2, FS_AddElement DEF rest
  <2>3. Size(g, steps) = Cardinality(rest) + 1
    BY <2>1, <2>2 DEF Size
  <2> QED
    BY <1>1, <1>2, <1>3, <2>3 DEF g
<1>4. CASE step \notin steps
  <2>1. At(g, steps) = rest
    BY <1>g, <1>4 DEF At, rest
  <2>2. Size(g, steps) = Cardinality(rest)
    BY <2>1 DEF Size
  <2> QED
    BY <1>1, <1>2, <1>4, <2>2 DEF g
<1> QED
  BY <1>3, <1>4 DEF g

\* Before the first coroutine moves, and when the last is done, every permit is free.
LEMMA NobodyHolds ==
    ASSUME NEW f, DOMAIN f \subseteq Postings, NEW steps, \A p \in DOMAIN f : f[p] \notin steps
    PROVE  Size(f, steps) = 0
<1>1. At(f, steps) = {}
  BY DEF At
<1> QED
  BY <1>1, FS_EmptySet DEF Size

Steps == {"limited", "outer", "inner", "calling", "done"}

Calls ==
    /\ category \subseteq Postings /\ DOMAIN task \subseteq Postings /\ DOMAIN salary \subseteq Postings
    /\ \A p \in DOMAIN task : task[p] \in Steps
    /\ \A p \in DOMAIN salary : Ordered(salary[p])
    /\ pc \in {"idle", "parse", "classify", "pay", "batch", "write"}
    /\ mode \in {"rules", "calls", "batch"}
    /\ tripped \in BOOLEAN /\ aux_late \in Nat
    /\ Used(task) <= Permits

\* Who waits for a permit, in which order.
Queue ==
    /\ waiting \in Seq(DOMAIN task)
    /\ \A i, j \in 1 .. Len(waiting) : waiting[i] = waiting[j] => i = j
    /\ \A i \in 1 .. Len(waiting) : task[waiting[i]] \in {"outer", "inner"}
    /\ pc \in {"parse", "batch", "write"} => waiting = <<>>

LEMMA TypesTogether ==
    ASSUME Tables, Calls, Queue PROVE TypeOK
<1>1. Size(task, {"inner", "calling"}) \in Nat /\ Size(task, {"calling"}) \in Nat
  BY SizeType DEF Calls
<1>2. Free \in 0 .. Permits
  BY <1>1, Constants, FreePermits DEF Calls, Used
<1> QED
  BY <1>2 DEF TypeOK, Tables, Calls, Queue, Steps

LEMMA TypesApart == ASSUME TypeOK PROVE Tables /\ Calls /\ waiting \in Seq(DOMAIN task)
<1>1. DOMAIN task \subseteq Postings
  BY DEF TypeOK
<1>2. Size(task, {"inner", "calling"}) \in Nat /\ Size(task, {"calling"}) \in Nat
  BY <1>1, SizeType
<1>3. Used(task) <= Permits
  BY <1>2, Constants, FreePermits DEF TypeOK, Used
<1> QED
  BY <1>3 DEF TypeOK, Tables, Calls, Steps

\* The lists of calls and what they are about.
LEMMA CallLists ==
    ASSUME Tables
    PROVE  ToClassify \subseteq Postings /\ ToPay \subseteq AskSalary /\ AskSalary \subseteq DOMAIN read
BY DEF ToClassify, ToPay, First, AskCategory, AskSalary, Selected, Tables

LEMMA NewTasks ==
    ASSUME NEW S, S \subseteq Postings
    PROVE  /\ DOMAIN Tasks(S) = S /\ \A p \in S : Tasks(S)[p] = "limited"
           /\ Used(Tasks(S)) <= Permits
<1>1. DOMAIN Tasks(S) = S /\ \A p \in S : Tasks(S)[p] = "limited"
  BY DEF Tasks
<1>2. Size(Tasks(S), {"inner", "calling"}) = 0 /\ Size(Tasks(S), {"calling"}) = 0
  BY <1>1, NobodyHolds
<1> QED
  BY <1>1, <1>2, Constants DEF Used

LEMMA NoTasks ==
    /\ DOMAIN Nothing = {} /\ Used(Nothing) <= Permits
<1>1. DOMAIN Nothing = {}
  BY DEF Nothing
<1>2. Size(Nothing, {"inner", "calling"}) = 0 /\ Size(Nothing, {"calling"}) = 0
  BY <1>1, NobodyHolds
<1> QED
  BY <1>1, <1>2, Constants DEF Used

\* The permits a coroutine gives back or takes.
LEMMA UsedMoves ==
    ASSUME NEW f, DOMAIN f \subseteq Postings, NEW p \in DOMAIN f, f[p] \in Steps, NEW step \in Steps
    PROVE  LET held(s) == IF s = "inner" THEN 1 ELSE IF s = "calling" THEN 2 ELSE 0
           IN  Used([f EXCEPT ![p] = step]) = Used(f) - held(f[p]) + held(step) /\ Used(f) \in Nat
<1>1. Size(f, {"inner", "calling"}) \in Nat /\ Size(f, {"calling"}) \in Nat
  BY SizeType
<1>2. Size([f EXCEPT ![p] = step], {"inner", "calling"})
        = Size(f, {"inner", "calling"}) - (IF f[p] \in {"inner", "calling"} THEN 1 ELSE 0)
                                        + (IF step \in {"inner", "calling"} THEN 1 ELSE 0)
  BY SizeMoves
<1>3. Size([f EXCEPT ![p] = step], {"calling"})
        = Size(f, {"calling"}) - (IF f[p] \in {"calling"} THEN 1 ELSE 0) + (IF step \in {"calling"} THEN 1 ELSE 0)
  BY SizeMoves
<1> QED
  BY <1>1, <1>2, <1>3 DEF Used, Steps
\* The permits that are free are those nobody uses.
LEMMA FreeIsRest == ASSUME DOMAIN task \subseteq Postings PROVE Free = Permits - Used(task) /\ Used(task) \in Nat
<1>1. Size(task, {"inner", "calling"}) \in Nat /\ Size(task, {"calling"}) \in Nat
  BY SizeType
<1> QED
  BY <1>1, Constants, FreePermits DEF Used

\* The head of the queue and where it goes.
LEMMA Admitted ==
    ASSUME Calls, Queue, Admit
    PROVE  \E p \in DOMAIN task, step \in {"inner", "calling", "done"} :
             /\ waiting # <<>> /\ p = Head(waiting) /\ p = waiting[1] /\ task[p] \in {"outer", "inner"}
             /\ task' = [task EXCEPT ![p] = step]
             /\ waiting' = IF step = "inner" THEN Append(Tail(waiting), p) ELSE Tail(waiting)
             /\ task[p] = "inner" => step = "calling"
             /\ task[p] = "outer" /\ step # "done" => ~tripped
             /\ Used(task) < Permits /\ (task[p] = "outer" /\ step = "calling" => Used(task) + 1 < Permits)
             /\ category' \in {category, category \cup {p}}
             /\ aux_late' = IF step = "calling" /\ tripped THEN aux_late + 1 ELSE aux_late
<1> DEFINE p == Head(waiting)
           step == IF task[p] = "inner" THEN "calling"
                   ELSE IF Short(p) THEN "done"
                   ELSE IF Tail(waiting) = <<>> /\ Free > 1 THEN "calling"
                   ELSE "inner"
<1>1. /\ waiting # <<>> /\ Free > 0
      /\ task' = [task EXCEPT ![p] = step]
      /\ waiting' = IF step = "inner" THEN Append(Tail(waiting), p) ELSE Tail(waiting)
      /\ category' = IF step = "done" /\ ~tripped /\ p \in Verdicts \ Blocked
                     THEN category \cup {p} ELSE category
      /\ aux_late' = IF step = "calling" /\ tripped THEN aux_late + 1 ELSE aux_late
  BY DEF Admit
<1>2. waiting \in Seq(DOMAIN task) /\ Len(waiting) >= 1 /\ p = waiting[1] /\ p \in DOMAIN task
  BY <1>1 DEF Queue
<1>3. task[p] \in {"outer", "inner"}
  BY <1>2 DEF Queue
<1>4. Free = Permits - Used(task) /\ Used(task) \in Nat /\ Permits \in Nat
  BY FreeIsRest, Constants DEF Calls
<1>5. step \in {"inner", "calling", "done"}
  OBVIOUS
<1>6. /\ task[p] = "inner" => step = "calling"
      /\ task[p] = "outer" /\ step # "done" => ~tripped
      /\ task[p] = "outer" /\ step = "calling" => Free > 1
  BY <1>3 DEF Short
<1> HIDE DEF p, step
<1>7. Used(task) < Permits /\ (task[p] = "outer" /\ step = "calling" => Used(task) + 1 < Permits)
  BY <1>1, <1>4, <1>6
<1>8. category' \in {category, category \cup {p}}
  BY <1>1
<1> QED
  BY <1>1, <1>2, <1>3, <1>5, <1>6, <1>7, <1>8 DEF p

\* The first permit leads into the queue for the second, or out of it.
LEMMA AdmitCalls == ASSUME Tables, Calls, Queue, Admit PROVE Calls'
<1>1. PICK p \in DOMAIN task, step \in {"inner", "calling", "done"} :
             /\ task[p] \in {"outer", "inner"}
             /\ task' = [task EXCEPT ![p] = step]
             /\ task[p] = "inner" => step = "calling"
             /\ Used(task) < Permits /\ (task[p] = "outer" /\ step = "calling" => Used(task) + 1 < Permits)
             /\ category' \in {category, category \cup {p}}
             /\ aux_late' = IF step = "calling" /\ tripped THEN aux_late + 1 ELSE aux_late
  BY Admitted
<1>2. UNCHANGED <<process, salary, tripped>>
  BY DEF Admit
<1>3. DOMAIN task \subseteq Postings /\ task[p] \in Steps /\ step \in Steps
  BY <1>1 DEF Calls, Steps
<1>4. DOMAIN task' = DOMAIN task /\ \A q \in DOMAIN task' : task'[q] \in Steps
  BY <1>1, <1>3 DEF Calls
<1>5. Used(task') <= Permits
  <2>1. /\ Used(task') = Used(task) - (IF task[p] = "inner" THEN 1 ELSE IF task[p] = "calling" THEN 2 ELSE 0)
                          + (IF step = "inner" THEN 1 ELSE IF step = "calling" THEN 2 ELSE 0)
        /\ Used(task) \in Nat
    BY <1>1, <1>3, UsedMoves
  <2> QED
    BY <1>1, <2>1, Constants
<1>6. aux_late' \in Nat /\ category' \subseteq Postings
  BY <1>1, <1>3 DEF Calls
<1> QED
  BY <1>2, <1>3, <1>4, <1>5, <1>6 DEF Calls, process

\* Nobody queues twice: who leaves the head may come back at the end.
LEMMA AdmitQueue == ASSUME Calls, Queue, Admit PROVE Queue'
<1>1. PICK p \in DOMAIN task, step \in {"inner", "calling", "done"} :
             /\ waiting # <<>> /\ p = waiting[1]
             /\ task' = [task EXCEPT ![p] = step]
             /\ waiting' = IF step = "inner" THEN Append(Tail(waiting), p) ELSE Tail(waiting)
  BY Admitted
<1>2. Gathering /\ pc' = pc
  BY DEF Admit, process
<1>3. DOMAIN task' = DOMAIN task /\ \A q \in DOMAIN task : task'[q] = IF q = p THEN step ELSE task[q]
  BY <1>1
<1>4. /\ waiting \in Seq(DOMAIN task) /\ Len(waiting) \in Nat /\ Len(waiting) >= 1
      /\ \A i, j \in 1 .. Len(waiting) : waiting[i] = waiting[j] => i = j
      /\ \A i \in 1 .. Len(waiting) : waiting[i] \in DOMAIN task /\ task[waiting[i]] \in {"outer", "inner"}
  BY <1>1 DEF Queue
<1> DEFINE rest == Tail(waiting)
<1>5. /\ rest \in Seq(DOMAIN task) /\ Len(rest) = Len(waiting) - 1
      /\ \A i \in 1 .. Len(rest) : rest[i] = waiting[i + 1]
  BY <1>1, <1>4
<1>w. waiting' = IF step = "inner" THEN Append(rest, p) ELSE rest
  BY <1>1
<1> HIDE DEF rest
<1>6. /\ \A i, j \in 1 .. Len(rest) : rest[i] = rest[j] => i = j
      /\ \A i \in 1 .. Len(rest) : rest[i] # p /\ rest[i] \in DOMAIN task /\ task'[rest[i]] \in {"outer", "inner"}
  <2>1. \A i \in 1 .. Len(rest) : i + 1 \in 1 .. Len(waiting) /\ i + 1 # 1
    BY <1>4, <1>5
  <2>2. \A i, j \in 1 .. Len(rest) : rest[i] = rest[j] => i = j
    BY <1>4, <1>5, <2>1
  <2>3. \A i \in 1 .. Len(rest) : rest[i] # p /\ rest[i] \in DOMAIN task /\ task[rest[i]] \in {"outer", "inner"}
    BY <1>1, <1>4, <1>5, <2>1
  <2> QED
    BY <1>3, <2>2, <2>3
<1>7. CASE step # "inner"
  <2>1. waiting' = rest
    BY <1>7, <1>w
  <2> QED
    BY <1>2, <1>3, <1>5, <1>6, <2>1 DEF Queue, Gathering
<1>8. CASE step = "inner"
  <2>1. waiting' = Append(rest, p)
    BY <1>8, <1>w
  <2>2. /\ waiting' \in Seq(DOMAIN task) /\ Len(waiting') = Len(rest) + 1 /\ Len(rest) \in Nat
        /\ \A i \in 1 .. Len(rest) : waiting'[i] = rest[i]
        /\ waiting'[Len(rest) + 1] = p
    BY <1>5, <2>1
  <2>3. \A i \in 1 .. Len(waiting') : i \in 1 .. Len(rest) \/ i = Len(rest) + 1
    BY <2>2
  <2>4. \A i, j \in 1 .. Len(waiting') : waiting'[i] = waiting'[j] => i = j
    BY <1>6, <2>2, <2>3
  <2>5. \A i \in 1 .. Len(waiting') : task'[waiting'[i]] \in {"outer", "inner"}
    BY <1>1, <1>3, <1>6, <1>8, <2>2, <2>3
  <2> QED
    BY <1>2, <1>3, <2>2, <2>4, <2>5 DEF Queue, Gathering
<1> QED
  BY <1>7, <1>8

\* The next coroutine queues.
LEMMA TokenStep == ASSUME Tables, Calls, Queue, Token PROVE Calls' /\ Queue'
<1>1. PICK p \in DOMAIN task :
         /\ task[p] = "limited"
         /\ task' = [task EXCEPT ![p] = "outer"]
         /\ waiting' = Append(waiting, p)
  BY DEF Token
<1>2. Gathering /\ UNCHANGED <<process, category, salary, tripped, aux_late>>
  BY DEF Token, history
<1>3. DOMAIN task' = DOMAIN task /\ \A q \in DOMAIN task : task'[q] = IF q = p THEN "outer" ELSE task[q]
  BY <1>1
<1>4. DOMAIN task \subseteq Postings /\ task[p] \in Steps /\ "outer" \in Steps
  BY DEF Calls, Steps
<1>5. Used(task') = Used(task) - 0 + 0 /\ Used(task) \in Nat
  BY <1>1, <1>4, UsedMoves
<1>6. Calls'
  BY <1>2, <1>3, <1>4, <1>5 DEF Calls, process
<1>7. /\ waiting \in Seq(DOMAIN task) /\ Len(waiting) \in Nat
      /\ \A i, j \in 1 .. Len(waiting) : waiting[i] = waiting[j] => i = j
      /\ \A i \in 1 .. Len(waiting) : waiting[i] \in DOMAIN task /\ task[waiting[i]] \in {"outer", "inner"}
  BY DEF Queue
<1>8. /\ waiting' \in Seq(DOMAIN task) /\ Len(waiting') = Len(waiting) + 1
      /\ \A i \in 1 .. Len(waiting) : waiting'[i] = waiting[i]
      /\ waiting'[Len(waiting) + 1] = p
  BY <1>1, <1>7
<1>9. \A i \in 1 .. Len(waiting') : i \in 1 .. Len(waiting) \/ i = Len(waiting) + 1
  BY <1>7, <1>8
<1>10. \A i \in 1 .. Len(waiting) : waiting[i] # p /\ task'[waiting[i]] \in {"outer", "inner"}
  BY <1>1, <1>3, <1>7
<1>11. \A i, j \in 1 .. Len(waiting') : waiting'[i] = waiting'[j] => i = j
  BY <1>7, <1>8, <1>9, <1>10
<1>12. \A i \in 1 .. Len(waiting') : task'[waiting'[i]] \in {"outer", "inner"}
  BY <1>3, <1>8, <1>9, <1>10
<1> QED
  BY <1>2, <1>3, <1>6, <1>8, <1>11, <1>12 DEF Queue, Gathering, process
\* A call is over: its permits come back.
LEMMA AnswerTasks ==
    ASSUME Tables, Calls, Queue, NEW p, Answered(p)
    PROVE  /\ p \in DOMAIN task /\ task[p] = "calling" /\ task' = [task EXCEPT ![p] = "done"]
           /\ DOMAIN task' = DOMAIN task /\ \A q \in DOMAIN task' : task'[q] \in Steps
           /\ Used(task') <= Permits
           /\ Queue'
<1>1. /\ Gathering /\ p \in DOMAIN task /\ task[p] = "calling" /\ task' = [task EXCEPT ![p] = "done"]
      /\ waiting' = waiting /\ pc' = pc
  BY DEF Answered, process
<1>2. DOMAIN task' = DOMAIN task /\ \A q \in DOMAIN task : task'[q] = IF q = p THEN "done" ELSE task[q]
  BY <1>1
<1>3. DOMAIN task \subseteq Postings /\ task[p] \in Steps /\ "done" \in Steps
  BY <1>1 DEF Calls, Steps
<1>4. Used(task') = Used(task) - 2 + 0 /\ Used(task) \in Nat
  BY <1>1, <1>3, UsedMoves
<1>5. Used(task') <= Permits
  BY <1>4, Constants DEF Calls
<1>6. \A i \in 1 .. Len(waiting) : waiting[i] # p
  BY <1>1 DEF Queue
<1>7. Queue'
  BY <1>1, <1>2, <1>6 DEF Queue, Gathering
<1> QED
  BY <1>1, <1>2, <1>3, <1>5, <1>7 DEF Calls

LEMMA AnswerStep ==
    ASSUME Tables, Calls, Queue, NEW p \in Postings, CategoryReply(p) \/ SalaryReply(p)
    PROVE  Calls' /\ Queue'
<1>1. Answered(p)
  BY DEF CategoryReply, SalaryReply
<1>2. /\ DOMAIN task' = DOMAIN task /\ \A q \in DOMAIN task' : task'[q] \in Steps
      /\ Used(task') <= Permits /\ Queue'
  BY <1>1, AnswerTasks
<1>3. UNCHANGED <<process, history>>
  BY <1>1 DEF Answered
<1>4. category' \subseteq Postings /\ tripped' \in BOOLEAN
  <2>1. category' \subseteq Postings
    BY DEF CategoryReply, SalaryReply, Refused, Calls
  <2>2. tripped' = tripped \/ tripped' = TRUE
    BY DEF CategoryReply, SalaryReply, Refused
  <2> QED
    BY <2>1, <2>2 DEF Calls
<1>5. DOMAIN salary' \subseteq Postings /\ \A q \in DOMAIN salary' : Ordered(salary'[q])
  <2>1. CASE salary' = salary
    BY <2>1 DEF Calls
  <2>2. ASSUME NEW reply \in Replies \cup {[min |-> 1, max |-> 1, period |-> "none"]},
               salary' = [q \in DOMAIN salary \cup {p} |-> IF q = p THEN ParseReply(reply) ELSE salary[q]]
        PROVE  DOMAIN salary' \subseteq Postings /\ \A q \in DOMAIN salary' : Ordered(salary'[q])
    <3>1. Ordered(ParseReply(reply))
      BY ReplyOrdered, EmptyReply DEF Ordered
    <3>2. DOMAIN salary' = DOMAIN salary \cup {p}
      BY <2>2
    <3>3. \A q \in DOMAIN salary' : salary'[q] = IF q = p THEN ParseReply(reply) ELSE salary[q]
      BY <2>2
    <3> QED
      BY <3>1, <3>2, <3>3 DEF Calls
  <2> QED
    BY <2>1, <2>2 DEF CategoryReply, SalaryReply, Refused
<1> QED
  BY <1>2, <1>3, <1>4, <1>5 DEF Calls, process, history

\* When the last coroutine is done, nobody waits.
LEMMA GatheredStep == ASSUME Tables, Calls, Queue, Gathered PROVE Calls' /\ Queue'
<1>1. /\ Gathering /\ \A p \in DOMAIN task : task[p] = "done"
      /\ UNCHANGED <<mode, waiting, category, salary, tripped, aux_late>>
      /\ \/ pc' = "pay" /\ task' = Tasks(ToPay)
         \/ pc' = "write" /\ task' = Nothing
  BY DEF Gathered, history
<1>2. waiting = <<>>
  <2>1. Len(waiting) \in Nat /\ \A i \in 1 .. Len(waiting) : FALSE
    BY <1>1 DEF Queue
  <2>2. Len(waiting) = 0
    BY <2>1
  <2> QED
    BY <2>2 DEF Queue
<1>3. ToPay \subseteq Postings
  BY CallLists DEF Tables
<1>4. /\ DOMAIN task' \subseteq Postings /\ Used(task') <= Permits
      /\ \A p \in DOMAIN task' : task'[p] \in Steps
  BY <1>1, <1>3, NewTasks, NoTasks DEF Steps
<1>5. Calls'
  BY <1>1, <1>4 DEF Calls
<1>6. waiting' = <<>> /\ <<>> \in Seq(DOMAIN task')
  BY <1>1, <1>2
<1> QED
  BY <1>5, <1>6 DEF Queue

LEMMA CallsStep == ASSUME Tables, Calls, Queue, [Next]_vars PROVE Calls' /\ Queue'
<1>1. ASSUME NEW p \in Postings, Crawl(p) PROVE Calls' /\ Queue'
  BY <1>1 DEF Crawl, process, calls, Calls, Queue
<1>2. CASE AnnualizeSalaries \/ AnnualizeLever \/ ExtractRead \/ ExtractWrite
  BY <1>2 DEF AnnualizeSalaries, AnnualizeLever, ExtractRead, ExtractWrite, process, calls, history,
              Calls, Queue
<1>3. ASSUME NEW how \in {"rules", "calls", "batch"}, StartEnrich(how) PROVE Calls' /\ Queue'
  <2>1. /\ mode' = how /\ pc' = "parse" /\ task' = Nothing /\ waiting' = <<>> /\ category' = {}
        /\ salary' = Nothing /\ tripped' = FALSE /\ aux_late' = 0
    BY <1>3 DEF StartEnrich
  <2>2. DOMAIN Nothing = {} /\ Used(Nothing) <= Permits
    BY NoTasks
  <2>3. <<>> \in Seq(DOMAIN task')
    OBVIOUS
  <2>4. tripped' \in BOOLEAN /\ aux_late' \in Nat /\ mode' \in {"rules", "calls", "batch"}
    BY <2>1
  <2>5. DOMAIN task' = {} /\ DOMAIN salary' = {} /\ Used(task') <= Permits
    BY <2>1, <2>2
  <2>6. Calls'
    BY <2>1, <2>4, <2>5 DEF Calls
  <2> QED
    BY <2>1, <2>3, <2>6 DEF Queue
<1>4. CASE Parse
  <2>1. /\ pc = "parse" /\ pc' \in {"write", "batch", "classify"}
        /\ UNCHANGED <<mode, waiting, category, salary, tripped, aux_late>>
        /\ task' = task \/ task' = Tasks(ToClassify)
    BY <1>4 DEF Parse, history
  <2>2. waiting' = <<>> /\ <<>> \in Seq(DOMAIN task')
    BY <2>1 DEF Queue
  <2>3. ToClassify \subseteq Postings
    BY CallLists
  <2>4. /\ DOMAIN task' \subseteq Postings /\ Used(task') <= Permits
        /\ \A p \in DOMAIN task' : task'[p] \in Steps
    BY <2>1, <2>3, NewTasks DEF Steps, Calls
  <2>5. Calls'
    BY <2>1, <2>4 DEF Calls
  <2> QED
    BY <2>2, <2>5 DEF Queue
<1>5. CASE Token
  BY <1>5, TokenStep
<1>6. CASE Admit
  BY <1>6, AdmitCalls, AdmitQueue
<1>7. ASSUME NEW p \in Postings, CategoryReply(p) \/ SalaryReply(p) PROVE Calls' /\ Queue'
  BY <1>7, AnswerStep
<1>8. CASE Gathered
  BY <1>8, GatheredStep
<1>9. CASE BatchEnds
  <2>1. /\ pc = "batch" /\ pc' = "write" /\ task' = Nothing
        /\ UNCHANGED <<mode, waiting, tripped, aux_late>>
    BY <1>9 DEF BatchEnds, history
  <2>2. ToClassify \subseteq Postings /\ ToPay \subseteq Postings
    BY CallLists DEF Tables
  <2>3. category' \subseteq Postings
    BY <1>9, <2>2 DEF BatchEnds
  <2>4. PICK paid \in SUBSET ToPay, reply \in Replies : salary' = [p \in paid |-> ParseReply(reply)]
    BY <1>9 DEF BatchEnds
  <2>5. DOMAIN salary' \subseteq Postings /\ \A p \in DOMAIN salary' : Ordered(salary'[p])
    BY <2>2, <2>4, ReplyOrdered
  <2>6. waiting' = <<>> /\ <<>> \in Seq(DOMAIN task') /\ DOMAIN task' = {} /\ Used(task') <= Permits
    BY <2>1, NoTasks DEF Queue
  <2>7. Calls'
    BY <2>1, <2>3, <2>5, <2>6 DEF Calls
  <2> QED
    BY <2>6, <2>7 DEF Queue
<1>10. CASE WriteChunk
  BY <1>10 DEF WriteChunk, calls, history, Calls, Queue
<1>11. CASE FinishEnrich \/ EnrichDies
  BY <1>11 DEF FinishEnrich, EnrichDies, calls, history, Calls, Queue
<1>12. CASE UNCHANGED vars
  BY <1>12 DEF vars, process, calls, history, Calls, Queue
<1> QED
  BY <1>1, <1>2, <1>3, <1>4, <1>5, <1>6, <1>7, <1>8, <1>9, <1>10, <1>11, <1>12 DEF Next, Phase

Typed == Tables /\ Calls /\ Queue

LEMMA TypedInit == Init => Typed
<1> SUFFICES ASSUME Init PROVE Typed
  OBVIOUS
<1>1. row \in [Postings -> Row] /\ aux_texts \in [Postings -> SUBSET Texts]
  BY Constants DEF Init, Row
<1>2. DOMAIN Nothing = {} /\ Used(Nothing) <= Permits
  BY NoTasks
<1>3. Tables
  BY <1>1, <1>2, Constants DEF Init, Tables
<1>4. Calls
  BY <1>2 DEF Init, Calls
<1>5. Queue
  BY DEF Init, Queue
<1> QED
  BY <1>3, <1>4, <1>5 DEF Typed

LEMMA TypedStep == Typed /\ [Next]_vars => Typed'
BY TypesTogether, TablesStep, CallsStep DEF Typed

\* Every variable keeps its type: rows of amounts, a period and texts of the
\* posting, salaries in order and within the bounds of their period, and
\* permits that are never more nor less than there are, however the
\* coroutines of _one_classify and _one_salary take and release them.
THEOREM TypeCorrect == Spec => []TypeOK
<1>1. Spec => []Typed
  BY TypedInit, TypedStep, PTL DEF Spec
<1>2. Typed => TypeOK
  BY TypesTogether DEF Typed
<1> QED
  BY <1>1, <1>2, PTL
-----------------------------------------------------------------------------
(* The breaker *)

Waiters(f) == Size(f, {"inner"})

\* Nobody calls late before the breaker trips; afterwards, who may still call
\* waits for a second permit, and the call that tripped it held two.
BreakerInv ==
    /\ ~tripped => aux_late = 0
    /\ tripped => aux_late + Waiters(task) <= Permits - 2

LEMMA WaitersMove ==
    ASSUME NEW f, DOMAIN f \subseteq Postings, NEW p \in DOMAIN f, f[p] \in Steps, NEW step \in Steps
    PROVE  /\ Waiters(f) \in Nat
           /\ Waiters([f EXCEPT ![p] = step])
                = Waiters(f) - (IF f[p] = "inner" THEN 1 ELSE 0) + (IF step = "inner" THEN 1 ELSE 0)
<1>1. Size(f, {"inner"}) \in Nat
  BY SizeType
<1>2. Size([f EXCEPT ![p] = step], {"inner"})
        = Size(f, {"inner"}) - (IF f[p] \in {"inner"} THEN 1 ELSE 0) + (IF step \in {"inner"} THEN 1 ELSE 0)
  BY SizeMoves
<1> QED
  BY <1>1, <1>2 DEF Waiters

LEMMA NoWaiters ==
    ASSUME NEW f, DOMAIN f \subseteq Postings, \A p \in DOMAIN f : f[p] # "inner"
    PROVE  Waiters(f) = 0
<1>1. \A p \in DOMAIN f : f[p] \notin {"inner"}
  OBVIOUS
<1> QED
  BY <1>1, NobodyHolds DEF Waiters

LEMMA DisjointCount ==
    ASSUME NEW S, IsFiniteSet(S), NEW T, IsFiniteSet(T), S \cap T = {}
    PROVE  Cardinality(S \cup T) = Cardinality(S) + Cardinality(T)
<1>1. Cardinality(S \cup T) = Cardinality(S) + Cardinality(T) - Cardinality(S \cap T)
  BY FS_Union
<1>2. Cardinality(S \cap T) = 0 /\ Cardinality(S) \in Nat /\ Cardinality(T) \in Nat
  BY FS_EmptySet, FS_CardinalityType
<1> QED
  BY <1>1, <1>2

\* A call leaves room for all but two of the permits.
LEMMA WaitersBesideCall ==
    ASSUME NEW f, DOMAIN f \subseteq Postings, NEW p \in DOMAIN f, f[p] = "calling", Used(f) <= Permits
    PROVE  Waiters(f) \in Nat /\ Waiters(f) <= Permits - 2
<1>1. /\ IsFiniteSet(At(f, {"inner", "calling"})) /\ Size(f, {"inner", "calling"}) \in Nat
      /\ IsFiniteSet(At(f, {"calling"})) /\ Size(f, {"calling"}) \in Nat
      /\ IsFiniteSet(At(f, {"inner"})) /\ Size(f, {"inner"}) \in Nat
  BY SizeType
<1>2. At(f, {"inner"}) \cup At(f, {"calling"}) = At(f, {"inner", "calling"})
  BY DEF At
<1>3. At(f, {"inner"}) \cap At(f, {"calling"}) = {}
  BY DEF At
<1>4. Size(f, {"inner", "calling"}) = Size(f, {"inner"}) + Size(f, {"calling"})
  <2>1. Cardinality(At(f, {"inner"}) \cup At(f, {"calling"})) =
          Cardinality(At(f, {"inner"})) + Cardinality(At(f, {"calling"}))
    BY <1>1, <1>3, DisjointCount
  <2> QED
    BY <1>2, <2>1 DEF Size
<1>5. Size(f, {"calling"}) >= 1
  <2>1. p \in At(f, {"calling"})
    BY DEF At
  <2>2. Size(f, {"calling"}) # 0
    BY <1>1, <2>1, FS_EmptySet DEF Size
  <2> QED
    BY <1>1, <2>2
<1>6. Size(f, {"inner", "calling"}) + Size(f, {"calling"}) <= Permits
  BY DEF Used
<1>7. Size(f, {"inner"}) <= Permits - 2
  BY <1>1, <1>4, <1>5, <1>6, Constants
<1> QED
  BY <1>1, <1>7 DEF Waiters

LEMMA BreakerStep ==
    ASSUME Typed, BreakerInv, [Next]_vars PROVE BreakerInv'
<1>t. Tables /\ Calls /\ Queue /\ DOMAIN task \subseteq Postings /\ tripped \in BOOLEAN /\ aux_late \in Nat
  BY DEF Typed, Calls
<1>1. CASE UNCHANGED <<task, tripped, aux_late>>
  BY <1>1 DEF BreakerInv
<1>2. ASSUME NEW how \in {"rules", "calls", "batch"}, StartEnrich(how) PROVE BreakerInv'
  BY <1>2 DEF StartEnrich, BreakerInv
<1>3. ASSUME UNCHANGED <<tripped, aux_late>>, DOMAIN task' \subseteq Postings,
             \A p \in DOMAIN task' : task'[p] # "inner"
      PROVE  BreakerInv'
  <2>1. Waiters(task') = 0
    BY <1>3, NoWaiters
  <2>2. Waiters(task) \in Nat
    BY <1>t, SizeType DEF Waiters
  <2> QED
    BY <1>3, <1>t, <2>1, <2>2, Constants DEF BreakerInv
<1>4. CASE Parse \/ Gathered \/ BatchEnds
  <2>1. UNCHANGED <<tripped, aux_late>>
    BY <1>4 DEF Parse, Gathered, BatchEnds, history
  <2>2. ToClassify \subseteq Postings /\ ToPay \subseteq Postings
    BY <1>t, CallLists DEF Tables
  <2>3. task' = task \/ task' = Tasks(ToClassify) \/ task' = Tasks(ToPay) \/ task' = Nothing
    BY <1>4 DEF Parse, Gathered, BatchEnds
  <2>4. CASE task' = task
    BY <1>1, <2>1, <2>4
  <2>5. CASE task' # task
    BY <1>3, <2>1, <2>2, <2>3, <2>5, NewTasks, NoTasks
  <2> QED
    BY <2>4, <2>5
<1>5. CASE Token
  <2>1. PICK p \in DOMAIN task : task[p] = "limited" /\ task' = [task EXCEPT ![p] = "outer"]
    BY <1>5 DEF Token
  <2>2. UNCHANGED <<tripped, aux_late>>
    BY <1>5 DEF Token, history
  <2>3. Waiters(task') = Waiters(task) - 0 + 0 /\ Waiters(task) \in Nat
    BY <1>t, <2>1, WaitersMove DEF Steps
  <2> QED
    BY <2>2, <2>3 DEF BreakerInv
<1>6. CASE Admit
  <2>1. PICK p \in DOMAIN task, step \in {"inner", "calling", "done"} :
             /\ task[p] \in {"outer", "inner"}
             /\ task' = [task EXCEPT ![p] = step]
             /\ task[p] = "inner" => step = "calling"
             /\ task[p] = "outer" /\ step # "done" => ~tripped
             /\ aux_late' = IF step = "calling" /\ tripped THEN aux_late + 1 ELSE aux_late
    BY <1>6, <1>t, Admitted
  <2>2. tripped' = tripped
    BY <1>6 DEF Admit
  <2>3. /\ Waiters(task) \in Nat
        /\ Waiters(task') = Waiters(task) - (IF task[p] = "inner" THEN 1 ELSE 0) + (IF step = "inner" THEN 1 ELSE 0)
    BY <1>t, <2>1, WaitersMove DEF Steps
  <2>4. CASE ~tripped
    BY <2>1, <2>2, <2>4 DEF BreakerInv
  <2>5. CASE tripped
    <3>1. aux_late + Waiters(task) <= Permits - 2
      BY <2>5 DEF BreakerInv
    <3>2. aux_late' + Waiters(task') <= aux_late + Waiters(task)
      BY <1>t, <2>1, <2>3, <2>5
    <3>3. aux_late' + Waiters(task') <= Permits - 2
      BY <1>t, <2>1, <2>3, <3>1, <3>2, Constants
    <3> QED
      BY <2>2, <2>5, <3>3 DEF BreakerInv
  <2> QED
    BY <2>4, <2>5
<1>7. ASSUME NEW p \in Postings, CategoryReply(p) \/ SalaryReply(p) PROVE BreakerInv'
  <2>1. Answered(p) /\ (tripped' = tripped \/ tripped' = TRUE)
    BY <1>7 DEF CategoryReply, SalaryReply, Refused
  <2>2. p \in DOMAIN task /\ task[p] = "calling" /\ task' = [task EXCEPT ![p] = "done"] /\ aux_late' = aux_late
    BY <1>t, <2>1, AnswerTasks DEF Answered, history
  <2>3. Waiters(task') = Waiters(task) - 0 + 0
    BY <1>t, <2>2, WaitersMove DEF Steps
  <2>4. Waiters(task) \in Nat /\ Waiters(task) <= Permits - 2
    BY <1>t, <2>2, WaitersBesideCall DEF Calls
  <2>5. CASE tripped
    <3>1. tripped' /\ aux_late + Waiters(task) <= Permits - 2
      BY <2>1, <2>5 DEF BreakerInv
    <3>2. aux_late' + Waiters(task') <= Permits - 2
      BY <2>2, <2>3, <2>4, <3>1
    <3> QED
      BY <3>1, <3>2 DEF BreakerInv
  <2>6. CASE ~tripped
    <3>1. aux_late' = 0
      BY <2>2, <2>6 DEF BreakerInv
    <3> QED
      BY <2>3, <2>4, <3>1, Constants DEF BreakerInv
  <2> QED
    BY <2>5, <2>6
<1>8. CASE \/ \E p \in Postings : Crawl(p)
           \/ AnnualizeSalaries \/ AnnualizeLever \/ ExtractRead \/ ExtractWrite
           \/ WriteChunk \/ FinishEnrich \/ EnrichDies \/ UNCHANGED vars
  <2>1. UNCHANGED <<task, tripped, aux_late>>
    BY <1>8 DEF Crawl, AnnualizeSalaries, AnnualizeLever, ExtractRead, ExtractWrite, WriteChunk,
                FinishEnrich, EnrichDies, vars, calls, history
  <2> QED
    BY <1>1, <2>1
<1> QED
  BY <1>2, <1>4, <1>5, <1>6, <1>7, <1>8 DEF Next, Phase

\* After the breaker has tripped, fewer calls are sent than there are permits,
\* by two: a coroutine may pass the check of the breaker in _one_classify or
\* _one_salary and then wait for the permit its call needs, but each that does
\* holds the first of its permits.
THEOREM BreakerCorrect == Spec => []BreakerStops
<1>1. Init => BreakerInv
  BY DEF Init, BreakerInv
<1>2. Spec => []Typed
  BY TypedInit, TypedStep, PTL DEF Spec
<1>3. Spec => []BreakerInv
  BY <1>1, <1>2, BreakerStep, PTL DEF Spec
<1>4. Typed /\ BreakerInv => BreakerStops
  <2> SUFFICES ASSUME Typed, BreakerInv PROVE BreakerStops
    OBVIOUS
  <2>1. aux_late \in Nat /\ tripped \in BOOLEAN /\ Waiters(task) \in Nat
    BY SizeType DEF Typed, Calls, Waiters
  <2>2. CASE tripped
    BY <2>1, <2>2, Constants DEF BreakerInv, BreakerStops, Higher
  <2>3. CASE ~tripped
    <3>1. aux_late = 0
      BY <2>3 DEF BreakerInv
    <3> QED
      BY <3>1, Constants DEF BreakerStops, Higher
  <2> QED
    BY <2>1, <2>2, <2>3
<1> QED
  BY <1>2, <1>3, <1>4, PTL
-----------------------------------------------------------------------------
(* One reading *)

Given(r) == [lo |-> r.lo, hi |-> r.hi, period |-> r.period]

\* Somebody read this from one of the texts T.
Stated(T, pay) == \E t \in T : pay \in Pays(t)
Yearlies(T, alo, ahi) == \E t \in T : <<alo, ahi>> \in Readings[t]

\* Pay is there as a whole or not at all, and so are its yearly amounts.
Whole(T, r) == r.text \in T /\ (Given(r) = None \/ Stated(T, Given(r)))
Paired(T, r) == (r.alo = 0 /\ r.ahi = 0) \/ (r.alo > 0 /\ r.ahi > 0 /\ Yearlies(T, r.alo, r.ahi))
Sound(T, r) == Whole(T, r) /\ Paired(T, r)

LEMMA MoreTexts ==
    ASSUME NEW T, NEW U, T \subseteq U, NEW r
    PROVE  (Whole(T, r) => Whole(U, r)) /\ (Paired(T, r) => Paired(U, r))
BY DEF Whole, Paired, Stated, Yearlies

LEMMA GivenNone == ASSUME NEW r PROVE Given(r) = None <=> r.lo = 0 /\ r.hi = 0 /\ r.period = "none"
BY DEF Given, None

\* Nothing, or all three columns.
LEMMA WholeParts ==
    ASSUME NEW T \in SUBSET Texts, NEW r \in Row, Whole(T, r)
    PROVE  \/ Given(r) = None /\ r.lo = 0 /\ r.hi = 0 /\ r.period = "none"
           \/ /\ Given(r) # None /\ Stated(T, Given(r)) /\ Plausible(Given(r))
              /\ r.lo > 0 /\ r.hi > 0 /\ r.lo <= r.hi /\ r.period \in Period /\ r.period # "none"
<1>1. CASE Given(r) = None
  BY <1>1, GivenNone
<1>2. CASE Given(r) # None
  <2>1. PICK t \in T : Given(r) \in Pays(t)
    BY <1>2 DEF Whole, Stated
  <2>2. t \in Texts
    OBVIOUS
  <2>3. Plausible(Given(r))
    BY <2>1, <2>2, PaysPlausible
  <2>4. /\ Given(r).lo > 0 /\ Given(r).hi > 0 /\ Given(r).lo <= Given(r).hi
        /\ Given(r).period \in Period /\ Given(r).period # "none"
    BY <1>2, <2>3, PlausibleParts
  <2>5. Given(r).lo = r.lo /\ Given(r).hi = r.hi /\ Given(r).period = r.period
    BY DEF Given
  <2> QED
    BY <1>2, <2>1, <2>3, <2>4, <2>5 DEF Stated
<1> QED
  BY <1>1, <1>2

\* The two yearly amounts of pay somebody read.
LEMMA YearliesOf ==
    ASSUME NEW T \in SUBSET Texts, NEW pay, Stated(T, pay)
    PROVE  Yearlies(T, Annualize(pay.lo, pay.period), Annualize(pay.hi, pay.period))
<1>1. PICK t \in T : pay \in Pays(t)
  BY DEF Stated
<1>2. Readings[t] = {<<Annualize(q.lo, q.period), Annualize(q.hi, q.period)>> : q \in Pays(t)}
  BY <1>1 DEF Readings
<1> QED
  BY <1>1, <1>2 DEF Yearlies

LEMMA YearliesOfYearly ==
    ASSUME NEW T \in SUBSET Texts, NEW pay, Stated(T, pay), pay.period = "year"
    PROVE  Yearlies(T, pay.lo, pay.hi) /\ pay.lo > 0 /\ pay.hi > 0
<1>1. PICK t \in T : pay \in Pays(t)
  BY DEF Stated
<1>2. Plausible(pay) /\ pay # None
  BY <1>1, PaysPlausible
<1>3. Annualize(pay.lo, "year") = pay.lo /\ Annualize(pay.hi, "year") = pay.hi
  BY <1>2, AnnualOfYearly
<1>4. pay.lo > 0 /\ pay.hi > 0
  BY <1>2, PlausibleParts
<1>5. Yearlies(T, Annualize(pay.lo, pay.period), Annualize(pay.hi, pay.period))
  BY YearliesOf
<1> QED
  BY <1>3, <1>4, <1>5

\* Annualizing keeps the order.
LEMMA YearliesOrdered ==
    ASSUME NEW T \in SUBSET Texts, NEW alo, NEW ahi, Yearlies(T, alo, ahi), alo > 0, ahi > 0
    PROVE  alo <= ahi
<1>1. PICK t \in T : <<alo, ahi>> \in Readings[t]
  BY DEF Yearlies
<1>2. Readings[t] = {<<Annualize(q.lo, q.period), Annualize(q.hi, q.period)>> : q \in Pays(t)}
  BY <1>1 DEF Readings
<1>3. PICK pay \in Pays(t) : alo = Annualize(pay.lo, pay.period) /\ ahi = Annualize(pay.hi, pay.period)
  BY <1>1, <1>2
<1>4. Plausible(pay) /\ pay # None
  BY <1>1, <1>3, PaysPlausible
<1>5. pay.lo \in Nat /\ pay.hi \in Nat /\ pay.lo <= pay.hi /\ pay.period \in Period
  BY <1>4, PlausibleParts
<1>6. \/ Multiplier[pay.period] = 1 \/ Multiplier[pay.period] = 12 \/ Multiplier[pay.period] = 2080
  BY <1>5 DEF Multiplier, Period
<1>7. pay.lo * Multiplier[pay.period] <= pay.hi * Multiplier[pay.period]
  BY <1>5, <1>6
<1>8. alo = pay.lo * Multiplier[pay.period] /\ ahi = pay.hi * Multiplier[pay.period]
  BY <1>3 DEF Annualize
<1> QED
  BY <1>7, <1>8

-----------------------------------------------------------------------------
(* The writers keep rows sound *)

LEMMA CrawlSound ==
    ASSUME NEW T \in SUBSET Texts, NEW r \in Row, Sound(T, r), NEW text \in Texts
    PROVE  Sound(T \cup {text}, Recrawled(r, text, None))
<1> DEFINE q == Recrawled(r, text, None)
<1>1. q.text = text /\ q.lo = 0 /\ q.hi = 0 /\ q.period = "none" /\ q.alo = r.alo /\ q.ahi = r.ahi
  BY DEF Recrawled, Row, None
<1>2. Paired(T \cup {text}, r)
  BY MoreTexts DEF Sound
<1> HIDE DEF q
<1>3. Whole(T \cup {text}, q)
  BY <1>1, GivenNone DEF Whole
<1>4. Paired(T \cup {text}, q)
  BY <1>1, <1>2 DEF Paired
<1> QED
  BY <1>3, <1>4 DEF Sound, q

LEMMA CopiedSound ==
    ASSUME NEW T \in SUBSET Texts, NEW r \in Row, Sound(T, r), Yearly1M(r)
    PROVE  Sound(T, Copied(r))
<1> DEFINE q == Copied(r)
<1>1. q.text = r.text /\ Given(q) = Given(r) /\ q.alo = r.lo /\ q.ahi = r.hi
  BY DEF Copied, Row, Given
<1> HIDE DEF q
<1>2. r.period = "year" /\ Given(r) # None
  BY GivenNone DEF Yearly1M
<1>3. Stated(T, Given(r)) /\ Given(r).period = "year" /\ Given(r).lo = r.lo /\ Given(r).hi = r.hi
  BY <1>2 DEF Sound, Whole, Given
<1>4. Yearlies(T, r.lo, r.hi) /\ r.lo > 0 /\ r.hi > 0
  BY <1>3, YearliesOfYearly
<1>5. Whole(T, q)
  BY <1>1 DEF Sound, Whole
<1>6. Paired(T, q)
  BY <1>1, <1>4 DEF Paired
<1> QED
  BY <1>5, <1>6 DEF Sound, q

\* What extract_salaries makes of a row it read is what one text says: the
\* windows fill a row only as a whole.
LEMMA ExtractedStated ==
    ASSUME NEW T \in SUBSET Texts, NEW s \in [was : Row, repair : BOOLEAN], Whole(T, s.was),
           Extracted(s).period \in Period
    PROVE  Stated(T, Extracted(s))
<1> DEFINE r == s.was
           win == InWindows[s.was.text]
<1>1. r \in Row /\ r.text \in T /\ r.text \in Texts
  BY RowParts DEF Whole
<1>2. Plausible(win)
  BY <1>1, ParsesAssumption
<1>3. win = None \/ win \in [lo : Nat, hi : Nat, period : Period]
  BY <1>2 DEF Plausible
<1>4. win = [lo |-> win.lo, hi |-> win.hi, period |-> win.period]
  BY <1>3 DEF None
<1>5. win.period \in Period => Stated(T, win)
  <2>1. win.period \in Period => win # None
    BY DEF None, Period
  <2> QED
    BY <1>1, <2>1 DEF Stated, Pays
<1>6. CASE s.repair \/ Given(r) = None
  <2>1. Extracted(s) = win
    BY <1>4, <1>6, GivenNone DEF Extracted
  <2> QED
    BY <1>5, <2>1
<1>7. CASE ~s.repair /\ Given(r) # None
  <2>1. r.lo > 0 /\ r.hi > 0 /\ r.period # "none" /\ Stated(T, Given(r))
    BY <1>1, <1>7, WholeParts
  <2>2. Extracted(s) = Given(r)
    BY <1>7, <2>1 DEF Extracted, Given
  <2> QED
    BY <2>1, <2>2
<1> QED
  BY <1>6, <1>7

LEMMA ReplacedSound ==
    ASSUME NEW T \in SUBSET Texts, NEW r \in Row, Sound(T, r),
           NEW lo \in Nat, NEW hi \in Nat, NEW period \in Period,
           NEW pay, pay = [lo |-> lo, hi |-> hi, period |-> period], Stated(T, pay),
           NEW alo \in Nat \ {0}, NEW ahi \in Nat \ {0}, Yearlies(T, alo, ahi)
    PROVE  Sound(T, Replaced(r, pay, alo, ahi)) /\ Sound(T, Coalesced(r, pay, alo, ahi))
<1>1. Sound(T, Replaced(r, pay, alo, ahi))
  <2> DEFINE q == Replaced(r, pay, alo, ahi)
  <2>1. q.text = r.text /\ Given(q) = pay /\ q.alo = alo /\ q.ahi = ahi
    BY DEF Replaced, Row, Given
  <2> HIDE DEF q
  <2>2. Whole(T, q)
    BY <2>1 DEF Sound, Whole
  <2>3. Paired(T, q)
    BY <2>1 DEF Paired
  <2> QED
    BY <2>2, <2>3 DEF Sound, q
<1>2. Sound(T, Coalesced(r, pay, alo, ahi))
  <2> DEFINE q == Coalesced(r, pay, alo, ahi)
  <2>1. /\ q.text = r.text
        /\ q.lo = (IF r.lo = 0 THEN lo ELSE r.lo) /\ q.hi = (IF r.hi = 0 THEN hi ELSE r.hi)
        /\ q.period = (IF r.period = "none" THEN period ELSE r.period)
        /\ q.alo = (IF r.alo = 0 THEN alo ELSE r.alo) /\ q.ahi = (IF r.ahi = 0 THEN ahi ELSE r.ahi)
    BY DEF Coalesced, OrElse, Row
  <2> HIDE DEF q
  <2>2. Given(q) = pay \/ (Given(q) = Given(r) /\ Stated(T, Given(r)))
    <3>1. CASE Given(r) = None
      <4>1. r.lo = 0 /\ r.hi = 0 /\ r.period = "none"
        BY <3>1, GivenNone
      <4> QED
        BY <2>1, <4>1 DEF Given
    <3>2. CASE Given(r) # None
      <4>1. r.lo > 0 /\ r.hi > 0 /\ r.period # "none" /\ Stated(T, Given(r))
        BY <3>2, WholeParts DEF Sound
      <4> QED
        BY <2>1, <4>1 DEF Given
    <3> QED
      BY <3>1, <3>2
  <2>3. Whole(T, q)
    BY <2>1, <2>2 DEF Sound, Whole
  <2>4. Paired(T, q)
    BY <2>1 DEF Sound, Paired
  <2> QED
    BY <2>3, <2>4 DEF Sound, q
<1> QED
  BY <1>1, <1>2

LEMMA ExtractSound ==
    ASSUME Tables, NEW p \in Postings, NEW T \in SUBSET Texts, Sound(T, row[p]),
           p \in DOMAIN scanned => Whole(T, scanned[p].was)
    PROVE  Sound(T, ExtractedRow(p))
<1>1. row[p] \in Row
  BY DEF Tables
<1> DEFINE pay == Extracted(scanned[p])
           alo == Annualize(pay.lo, pay.period)
           ahi == Annualize(pay.hi, pay.period)
<1>2. CASE p \notin DOMAIN scanned \/ pay.period \notin Period \/ alo = 0 \/ ahi = 0
  BY <1>2 DEF ExtractedRow
<1>3. CASE ~(p \notin DOMAIN scanned \/ pay.period \notin Period \/ alo = 0 \/ ahi = 0)
  <2>1. scanned[p] \in [was : Row, repair : BOOLEAN] /\ Whole(T, scanned[p].was) /\ pay.period \in Period
    BY <1>3 DEF Tables
  <2>2. pay.lo \in Nat /\ pay.hi \in Nat /\ pay = [lo |-> pay.lo, hi |-> pay.hi, period |-> pay.period]
    BY <2>1, ExtractedPay
  <2>3. Stated(T, pay)
    BY <2>1, ExtractedStated
  <2>4. alo \in Nat \ {0} /\ ahi \in Nat \ {0}
    BY <1>3, <2>1, <2>2, AnnualType
  <2>5. Yearlies(T, alo, ahi)
    BY <2>3, YearliesOf
  <2>6. ExtractedRow(p) = IF scanned[p].repair THEN Replaced(row[p], pay, alo, ahi)
                          ELSE Coalesced(row[p], pay, alo, ahi)
    BY <1>3 DEF ExtractedRow
  <2> HIDE DEF pay, alo, ahi
  <2>7. Sound(T, Replaced(row[p], pay, alo, ahi)) /\ Sound(T, Coalesced(row[p], pay, alo, ahi))
    BY <1>1, <2>1, <2>2, <2>3, <2>4, <2>5, ReplacedSound
  <2> QED
    BY <2>6, <2>7
<1> QED
  BY <1>2, <1>3

\* A reply is nothing, implausible, or one of the pays of the text that was read.
RepliedSound(p) ==
    salary[p] = None \/ ~Plausible(salary[p]) \/ (p \in DOMAIN read /\ salary[p] \in Pays(read[p].text))

\* What the enrichment may fill in: what it parsed, or what the model said of
\* a text that speaks of pay.
LEMMA OfferStated ==
    ASSUME Tables, NEW p \in DOMAIN read, NEW T \in SUBSET Texts, Whole(T, read[p]),
           p \in DOMAIN salary => RepliedSound(p), Plausible(Offered(p))
    PROVE  Offered(p) = None \/ Stated(T, Offered(p))
<1>1. read[p].text \in T /\ read[p].text \in Texts
  BY DEF Whole
<1>2. CASE Parsed(p) # None
  <2>1. Offered(p) = InText[read[p].text] /\ InText[read[p].text] # None
    BY <1>2 DEF Offered, Parsed
  <2> QED
    BY <1>1, <2>1 DEF Stated, Pays
<1>3. CASE Parsed(p) = None
  <2>1. Offered(p) = IF p \in DOMAIN salary THEN salary[p] ELSE None
    BY <1>3 DEF Offered, Replied
  <2> QED
    BY <1>1, <2>1 DEF Stated, RepliedSound
<1> QED
  BY <1>2, <1>3

\* A row that had pay when it was read keeps what it has now; one that had
\* none gets all three columns, and both yearly amounts or neither.
LEMMA FilledSound ==
    ASSUME Tables, NEW p \in DOMAIN read, NEW T \in SUBSET Texts, Sound(T, row[p]), Whole(T, read[p]),
           p \in DOMAIN salary => RepliedSound(p), Plausible(Offered(p))
    PROVE  Sound(T, Filled(p))
<1> DEFINE q == Filled(p)
           pay == Offered(p)
<1>1. p \in Postings /\ row[p] \in Row /\ read[p] \in Row
  BY DEF Tables
<1>2. pay = None \/ Stated(T, pay)
  BY OfferStated
<1>3. CASE pay = None \/ Given(read[p]) # None
  <2>1. /\ pay # None => read[p].lo # 0 /\ read[p].hi # 0 /\ read[p].period # "none"
    BY <1>1, <1>3, WholeParts
  <2>2. q.text = row[p].text /\ Given(q) = Given(row[p]) /\ q.alo = row[p].alo /\ q.ahi = row[p].ahi
    BY <1>1, <2>1 DEF Filled, Row, Given
  <2> HIDE DEF q
  <2>3. Sound(T, q)
    BY <2>2 DEF Sound, Whole, Paired
  <2> QED
    BY <2>3 DEF q
<1>4. CASE pay # None /\ Given(read[p]) = None
  <2>1. read[p].lo = 0 /\ read[p].hi = 0 /\ read[p].period = "none"
    BY <1>4, GivenNone
  <2>2. PICK t \in T : pay \in Pays(t)
    BY <1>2, <1>4 DEF Stated
  <2>3. /\ pay \in [lo : Nat, hi : Nat, period : Period]
        /\ pay.lo <= pay.hi /\ pay.hi <= Ceiling[pay.period]
    BY <2>2, PaysPlausible, PlausibleParts
  <2>y. Ceiling["year"] \in Nat
    BY DEF Ceiling
  <2>4. pay.period = "year" => pay.lo <= Ceiling["year"] /\ pay.hi <= Ceiling["year"]
    BY <2>3, <2>y
  <2>5. /\ q.text = row[p].text /\ Given(q) = pay
        /\ q.alo = (IF pay.period = "year" THEN pay.lo ELSE row[p].alo)
        /\ q.ahi = (IF pay.period = "year" THEN pay.hi ELSE row[p].ahi)
    BY <1>1, <1>4, <2>1, <2>3, <2>4 DEF Filled, Row, Given
  <2>6. pay.period = "year" => Yearlies(T, pay.lo, pay.hi) /\ pay.lo > 0 /\ pay.hi > 0
    BY <1>2, <1>4, YearliesOfYearly
  <2> HIDE DEF q, pay
  <2>7. Whole(T, q)
    BY <1>2, <1>4, <2>5 DEF Sound, Whole
  <2>8. Paired(T, q)
    BY <2>5, <2>6 DEF Sound, Paired
  <2> QED
    BY <2>7, <2>8 DEF Sound, q
<1> QED
  BY <1>3, <1>4
-----------------------------------------------------------------------------

\* Rows, and rows the two programs read of them, are sound for the texts the
\* posting has had, unless an implausible reply was written to the posting; a
\* plausible reply of the model speaks of the text that was read.
RowsSound ==
    \A p \in Postings \ (Structured \cup aux_half) :
        /\ Sound(aux_texts[p], row[p])
        /\ p \in DOMAIN scanned => Whole(aux_texts[p], scanned[p].was)
        /\ p \in DOMAIN read => Whole(aux_texts[p], read[p])

RepliesSound ==
    /\ \A p \in DOMAIN salary : RepliedSound(p)
    /\ pc = "pay" => \A p \in DOMAIN task : p \in DOMAIN read /\ read[p].text \in Worded

\* A plausible reply about a text that speaks of pay is nothing or one of its pays.
LEMMA ReplyStated ==
    ASSUME NEW t \in Worded, NEW reply \in Replies
    PROVE  LET pay == ParseReply(reply) IN pay = None \/ ~Plausible(pay) \/ pay \in Pays(t)
BY DEF Pays, PlausibleReplies

LEMMA AskedWorded == ASSUME Tables PROVE \A p \in ToPay : p \in DOMAIN read /\ read[p].text \in Worded
BY CallLists DEF AskSalary, Selected

LEMMA RepliesStep == ASSUME Typed, RepliesSound, [Next]_vars PROVE RepliesSound'
<1>t. Tables /\ Calls /\ Queue
  BY DEF Typed
<1>1. CASE UNCHANGED <<salary, read>> /\ (pc' = "pay" => pc = "pay" /\ DOMAIN task' = DOMAIN task)
  BY <1>1 DEF RepliesSound, RepliedSound
<1>2. ASSUME NEW how \in {"rules", "calls", "batch"}, StartEnrich(how) PROVE RepliesSound'
  BY <1>2 DEF StartEnrich, Nothing, RepliesSound
<1>3. CASE \/ \E p \in Postings : Crawl(p)
           \/ AnnualizeSalaries \/ AnnualizeLever \/ ExtractRead \/ ExtractWrite
           \/ WriteChunk \/ UNCHANGED vars
  BY <1>1, <1>3 DEF Crawl, AnnualizeSalaries, AnnualizeLever, ExtractRead, ExtractWrite, WriteChunk,
                    vars, calls, process
<1>4. CASE Parse \/ FinishEnrich \/ EnrichDies
  BY <1>1, <1>4 DEF Parse, FinishEnrich, EnrichDies, calls
<1>5. CASE Token \/ Admit
  <2>1. UNCHANGED <<salary, process>> /\ DOMAIN task' = DOMAIN task
    BY <1>5 DEF Token, Admit
  <2> QED
    BY <1>1, <2>1 DEF process
<1>6. CASE Gathered
  <2>1. /\ UNCHANGED <<salary, read>>
        /\ (pc' = "pay" /\ task' = Tasks(ToPay)) \/ pc' = "write"
    BY <1>6 DEF Gathered
  <2>2. pc' = "pay" => DOMAIN task' = ToPay
    BY <2>1 DEF Tasks
  <2>3. pc' = "pay" => \A p \in DOMAIN task' : p \in DOMAIN read' /\ read'[p].text \in Worded
    BY <1>t, <2>1, <2>2, AskedWorded
  <2> QED
    BY <2>1, <2>3 DEF RepliesSound, RepliedSound
<1>7. CASE BatchEnds
  <2>1. read' = read /\ pc' = "write"
    BY <1>7 DEF BatchEnds
  <2>2. PICK paid \in SUBSET ToPay, reply \in Replies : salary' = [p \in paid |-> ParseReply(reply)]
    BY <1>7 DEF BatchEnds
  <2>3. \A p \in paid : p \in DOMAIN read /\ read[p].text \in Worded
    BY <1>t, AskedWorded
  <2>4. \A p \in DOMAIN salary' :
          \/ salary'[p] = None \/ ~Plausible(salary'[p])
          \/ p \in DOMAIN read /\ salary'[p] \in Pays(read[p].text)
    BY <2>2, <2>3, ReplyStated
  <2> QED
    BY <2>1, <2>4 DEF RepliesSound, RepliedSound
<1>8. ASSUME NEW p \in Postings, CategoryReply(p) \/ SalaryReply(p) PROVE RepliesSound'
  <2>1. Answered(p) /\ DOMAIN task' = DOMAIN task /\ p \in DOMAIN task
    BY <1>8, <1>t, AnswerTasks DEF CategoryReply, SalaryReply
  <2>2. pc' = pc /\ read' = read
    BY <2>1 DEF Answered, process
  <2>3. CASE salary' = salary
    BY <1>1, <2>1, <2>2, <2>3
  <2>4. ASSUME NEW reply \in Replies \cup {[min |-> 1, max |-> 1, period |-> "none"]}, pc = "pay",
               salary' = [q \in DOMAIN salary \cup {p} |-> IF q = p THEN ParseReply(reply) ELSE salary[q]]
        PROVE  RepliesSound'
    <3>1. p \in DOMAIN read /\ read[p].text \in Worded
      BY <2>1, <2>4 DEF RepliesSound, RepliedSound
    <3>2. \/ ParseReply(reply) = None \/ ~Plausible(ParseReply(reply))
          \/ ParseReply(reply) \in Pays(read[p].text)
      BY <3>1, ReplyStated, EmptyReply
    <3>3. \A q \in DOMAIN salary' :
            \/ salary'[q] = None \/ ~Plausible(salary'[q])
            \/ q \in DOMAIN read /\ salary'[q] \in Pays(read[q].text)
      BY <2>4, <3>1, <3>2 DEF RepliesSound, RepliedSound
    <3> QED
      BY <2>1, <2>2, <3>3 DEF RepliesSound, RepliedSound
  <2> QED
    BY <1>8, <2>3, <2>4 DEF CategoryReply, SalaryReply, Refused
<1> QED
  BY <1>2, <1>3, <1>4, <1>5, <1>6, <1>7, <1>8 DEF Next, Phase

LEMMA RowsStep == ASSUME Typed, RowsSound, RepliesSound, [Next]_vars PROVE RowsSound'
<1>t. Tables /\ Tables'
  BY TypesTogether, TablesStep DEF Typed
<1>s. \A p \in Postings : row[p] \in Row /\ aux_texts[p] \in SUBSET Texts
  BY <1>t DEF Tables
<1>1. CASE UNCHANGED <<row, scanned, read, aux_texts, aux_half>>
  BY <1>1 DEF RowsSound
<1>2. ASSUME NEW p \in Postings, Crawl(p) PROVE RowsSound'
  <2>1. PICK text \in Texts, offer \in {None} \cup (IF p \in Structured THEN Offers ELSE {}) :
           /\ row' = [row EXCEPT ![p] = Recrawled(@, text, offer)]
           /\ aux_texts' = [aux_texts EXCEPT ![p] = @ \cup {text}]
    BY <1>2 DEF Crawl
  <2>2. UNCHANGED <<scanned, read, aux_half>>
    BY <1>2 DEF Crawl, process
  <2>3. SUFFICES ASSUME NEW q \in Postings \ (Structured \cup aux_half)
                 PROVE  /\ Sound(aux_texts'[q], row'[q])
                        /\ q \in DOMAIN scanned => Whole(aux_texts'[q], scanned[q].was)
                        /\ q \in DOMAIN read => Whole(aux_texts'[q], read[q])
    BY <2>2 DEF RowsSound
  <2>4. aux_texts[q] \subseteq aux_texts'[q]
    BY <1>t, <2>1 DEF Tables
  <2>5. Sound(aux_texts'[q], row'[q])
    <3>1. CASE q = p
      <4>1. offer = None
        BY <2>1, <3>1
      <4>2. row'[q] = Recrawled(row[q], text, None) /\ aux_texts'[q] = aux_texts[q] \cup {text}
        BY <1>t, <2>1, <3>1, <4>1 DEF Tables
      <4> QED
        BY <1>s, <4>2, CrawlSound DEF RowsSound
    <3>2. CASE q # p
      <4>1. row'[q] = row[q] /\ aux_texts'[q] = aux_texts[q]
        BY <1>t, <2>1, <3>2 DEF Tables
      <4> QED
        BY <4>1 DEF RowsSound
    <3> QED
      BY <3>1, <3>2
  <2> QED
    BY <2>4, <2>5, MoreTexts DEF RowsSound
<1>3. CASE AnnualizeSalaries \/ AnnualizeLever
  <2>1. UNCHANGED <<scanned, read, aux_texts, aux_half>>
    BY <1>3 DEF AnnualizeSalaries, AnnualizeLever, process, history
  <2>2. \A q \in Postings : row'[q] = row[q] \/ (Yearly1M(row[q]) /\ row'[q] = Copied(row[q]))
    BY <1>3 DEF AnnualizeSalaries, AnnualizeLever, LeverDue
  <2>3. \A q \in Postings \ (Structured \cup aux_half) : Sound(aux_texts[q], row'[q])
    BY <1>s, <2>2, CopiedSound DEF RowsSound
  <2> QED
    BY <2>1, <2>3 DEF RowsSound
<1>4. CASE ExtractRead
  <2>1. UNCHANGED <<row, read, aux_texts, aux_half>>
    BY <1>4 DEF ExtractRead, tables, process, history
  <2>2. PICK repair \in BOOLEAN, due \in SUBSET Postings :
           scanned' = [p \in due |-> [was |-> row[p], repair |-> repair]]
    BY <1>4 DEF ExtractRead
  <2>3. \A q \in Postings \ (Structured \cup aux_half) : q \in DOMAIN scanned' => scanned'[q].was = row[q]
    BY <2>2
  <2> QED
    BY <2>1, <2>3 DEF RowsSound, Sound
<1>5. CASE ExtractWrite
  <2>1. UNCHANGED <<read, aux_texts, aux_half>> /\ DOMAIN scanned' = {}
    BY <1>5 DEF ExtractWrite, Nothing, process, history
  <2>2. \A q \in Postings : row'[q] = ExtractedRow(q)
    BY <1>5 DEF ExtractWrite
  <2>3. \A q \in Postings \ (Structured \cup aux_half) : Sound(aux_texts[q], row'[q])
    BY <1>t, <1>s, <2>2, ExtractSound DEF RowsSound
  <2> QED
    BY <2>1, <2>3 DEF RowsSound
<1>6. ASSUME NEW how \in {"rules", "calls", "batch"}, StartEnrich(how) PROVE RowsSound'
  <2>1. UNCHANGED <<row, scanned, aux_texts, aux_half>>
    BY <1>6 DEF StartEnrich, tables
  <2>2. \A q \in Postings \ (Structured \cup aux_half) : q \in DOMAIN read' => read'[q] = row[q]
    BY <1>6 DEF StartEnrich
  <2> QED
    BY <2>1, <2>2 DEF RowsSound, Sound
<1>7. CASE WriteChunk
  <2>1. UNCHANGED <<scanned, read, aux_texts>> /\ aux_half \subseteq aux_half'
    BY <1>7 DEF WriteChunk
  <2>2. \A q \in Postings \ aux_half' :
          row'[q] = row[q] \/ (q \in DOMAIN read /\ Plausible(Offered(q)) /\ row'[q] = Filled(q))
    BY <1>7 DEF WriteChunk, Chunk, First, Selected
  <2>3. ASSUME NEW q \in Postings \ (Structured \cup aux_half') PROVE Sound(aux_texts[q], row'[q])
    <3>1. q \in Postings \ (Structured \cup aux_half)
      BY <2>1
    <3>2. Sound(aux_texts[q], row[q]) /\ (q \in DOMAIN read => Whole(aux_texts[q], read[q]))
      BY <3>1 DEF RowsSound
    <3>3. q \in DOMAIN salary => RepliedSound(q)
      BY DEF RepliesSound
    <3> QED
      BY <1>t, <1>s, <2>2, <3>2, <3>3, FilledSound
  <2> QED
    BY <2>1, <2>3 DEF RowsSound
<1>8. CASE \/ Parse \/ Gathered \/ BatchEnds \/ FinishEnrich \/ Token \/ Admit \/ EnrichDies
           \/ \E p \in Postings : CategoryReply(p) \/ SalaryReply(p)
           \/ UNCHANGED vars
  BY <1>1, <1>8 DEF Parse, Gathered, BatchEnds, FinishEnrich, Token, Admit, EnrichDies, CategoryReply,
                    SalaryReply, Answered, tables, process, history, vars
<1> QED
  BY <1>2, <1>3, <1>4, <1>5, <1>6, <1>7, <1>8 DEF Next, Phase

LEMMA SoundInit == Init => RowsSound /\ RepliesSound
<1> SUFFICES ASSUME Init PROVE RowsSound /\ RepliesSound
  OBVIOUS
<1>1. \A p \in Postings : Sound(aux_texts[p], row[p])
  BY GivenNone DEF Init, Sound, Whole, Paired
<1> QED
  BY <1>1 DEF Init, Nothing, RowsSound, RepliesSound

\* The yearly amounts of a posting whose board states no salary are in order
\* and are one reading of one text it has had, whatever the crawl, the rules,
\* the model, extract_salaries.py with and without repair, and the annualizing
\* statements do to the row between one another's reads and writes: what can
\* part the two amounts is a reply of the model that llm_client.py accepts in
\* reverse and that leaves the range once it is in order, and nothing else.
THEOREM OneReadingEach == Spec => []OneReading
<1>1. Spec => []Typed
  BY TypedInit, TypedStep, PTL DEF Spec
<1>2. Spec => [](RowsSound /\ RepliesSound)
  BY <1>1, SoundInit, RowsStep, RepliesStep, PTL DEF Spec
<1>3. Typed /\ RowsSound => OneReading
  <2> SUFFICES ASSUME Typed, RowsSound, NEW p \in Postings \ (Structured \cup aux_half), row[p].alo > 0, row[p].ahi > 0
               PROVE  /\ row[p].alo <= row[p].ahi
                      /\ \E t \in aux_texts[p] : <<row[p].alo, row[p].ahi>> \in Readings[t]
    BY DEF OneReading
  <2>1. aux_texts[p] \in SUBSET Texts
    BY DEF Typed, Tables
  <2>2. row[p] \in Row /\ row[p].alo \in Nat
    BY RowParts DEF Typed, Tables
  <2>3. Yearlies(aux_texts[p], row[p].alo, row[p].ahi)
    BY <2>2 DEF RowsSound, Sound, Paired
  <2>4. row[p].alo <= row[p].ahi
    BY <2>1, <2>3, YearliesOrdered
  <2> QED
    BY <2>3, <2>4 DEF Yearlies
<1> QED
  BY <1>1, <1>2, <1>3, PTL

=============================================================================
