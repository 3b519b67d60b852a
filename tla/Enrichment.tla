----------------------------- MODULE Enrichment -----------------------------
(***************************************************************************)
(* The salary columns and the category of postings, and the run of         *)
(* python/enrich_job_postings.py that fills them: rules first, then calls  *)
(* of a language model (python/llm_client.py), then writes in chunks.      *)
(* Beside it a crawl replaces texts (ingest_job of python/ingest_jobs.py), *)
(* extract_salaries.py and the two SQL statements annualize, and an        *)
(* operator may repair periods.                                            *)
(*                                                                         *)
(* Amounts are what module Salaries reads; zero is NULL.  Every posting    *)
(* has a domain here: module DerivedState has those without.               *)
(***************************************************************************)
EXTENDS Salaries, Naturals, FiniteSets

CONSTANTS
    Postings,      \* numbered in the order they were ingested
    Original,      \* the text each was ingested with
    Lines,         \* the texts a posting may have, as sequences of lines
    Structured,    \* postings whose board states the salary (Lever)
    Offers,        \* what such a board may state, beside nothing
    Replies,       \* what the model may reply about a salary
    Recurring,     \* postings whose company and title have been classified before
    Obvious,       \* postings whose title a rule or the vote over titles settles
    Verdicts,      \* postings a pre-check settles (federal staffing, data titles)
    Blocked,       \* postings of aggregators, which are never classified
    Cap,           \* ENRICH_MAX_LLM_CALLS
    Permits,       \* semaphore_size
    CommitInterval,
    MaxCrawls, MaxRuns, MaxFaults   \* bounds

Texts == DOMAIN Lines

\* What each text gives, as a whole and through its windows.
InText == [t \in Texts |-> ParseSalaryRange(Lines[t])]
InWindows == [t \in Texts |-> ParseSalaryRange(SalaryWindows(Lines[t]))]
Windowed == {t \in Texts : SalaryWindows(Lines[t]) # <<>>}
Worded == {t \in Texts : Keyword(Lines[t])}

\* In order, or nothing: what a reply that is accepted comes to.
Ordered(pay) ==
    pay = None \/ (pay \in [lo : Nat \ {0}, hi : Nat \ {0}, period : Period] /\ pay.lo <= pay.hi)

\* In order and within the bounds of the period, or nothing.
Plausible(pay) ==
    \/ pay = None
    \/ /\ pay \in [lo : Nat, hi : Nat, period : Period]
       /\ pay.lo <= pay.hi /\ Sanity(pay)

ASSUME PostingsAssumption ==
    /\ Postings \subseteq Nat /\ IsFiniteSet(Postings)
    /\ Structured \subseteq Postings /\ Recurring \subseteq Postings
ASSUME OriginalAssumption == Original \in [Postings -> Texts]
\* A reply states positive amounts, for zero is NULL here; nothing else is
\* taken for granted of it.
ASSUME RepliesAssumption == \A r \in Replies : r.min \in Nat \ {0} /\ r.max \in Nat \ {0}
\* What Salaries makes of any text: Pay puts the bounds in order, and
\* ParseSalaryRange keeps nothing that Sanity refuses.
ASSUME ParsesAssumption == \A t \in Texts : Plausible(InText[t]) /\ Plausible(InWindows[t])
ASSUME OffersAssumption == Offers \subseteq [lo : Nat, hi : Nat, period : {"year"}]
ASSUME BoundsAssumption ==
    Cap \in Nat /\ Permits \in Nat \ {0} /\ CommitInterval \in Nat \ {0}
    /\ MaxCrawls \in Nat /\ MaxRuns \in Nat /\ MaxFaults \in Nat

VARIABLES
    row,         \* job_postings: text, salary columns, whether it has a category
    cache,       \* postings whose company and title are in role_category_cache
    scanned,     \* extract_salaries: the rows it read, by posting
    pc,          \* where the enrichment is
    mode,        \* how it was started: without model, with concurrent calls, batch
    read,        \* the rows it selected, by posting
    known,       \* the cache rows it loaded
    task,        \* the coroutine of each posting in the gather that runs
    waiting,     \* the semaphore's queue
    category,    \* classify_results
    salary,      \* salary_results
    tripped,     \* the circuit breaker of the process
    written,     \* rows of the run that are committed
    crawls, runs, faults,   \* how much of the bounds is used
    aux_texts,   \* history: the texts each posting has had
    aux_late,    \* history: calls sent after the breaker tripped
    aux_half     \* history: postings an implausible reply was written to

tables == <<row, cache>>
calls == <<task, waiting, category, salary, tripped>>
process == <<pc, mode, read, known, written>>
counts == <<crawls, runs, faults>>
history == <<aux_texts, aux_late, aux_half>>
vars == <<tables, scanned, process, calls, counts, history>>

Nothing == [p \in {} |-> 0]
Row == [text : Texts, lo : Nat, hi : Nat, period : Period \cup {"none"},
        alo : Nat, ahi : Nat, sorted : BOOLEAN]

Init ==
    /\ row = [p \in Postings |-> [text |-> Original[p], lo |-> 0, hi |-> 0, period |-> "none",
                                  alo |-> 0, ahi |-> 0, sorted |-> FALSE]]
    /\ cache = Recurring
    /\ scanned = Nothing
    /\ pc = "idle" /\ mode = "rules" /\ read = Nothing /\ known = {} /\ written = {}
    /\ task = Nothing /\ waiting = <<>> /\ category = {} /\ salary = Nothing /\ tripped = FALSE
    /\ crawls = 0 /\ runs = 0 /\ faults = 0
    /\ aux_texts = [p \in Postings |-> {Original[p]}] /\ aux_late = 0 /\ aux_half = {}

-----------------------------------------------------------------------------
(* The tables change beside the enrichment *)

\* The upsert of a crawl takes text and salary from the board, and keeps the
\* yearly amounts whatever it takes.
Recrawled(r, text, offer) ==
    [r EXCEPT !.text = text, !.lo = offer.lo, !.hi = offer.hi, !.period = offer.period,
              !.sorted = @ /\ text = r.text]

Crawl(p) ==
    /\ crawls < MaxCrawls /\ crawls' = crawls + 1
    /\ \E text \in Texts, offer \in {None} \cup (IF p \in Structured THEN Offers ELSE {}) :
         /\ row' = [row EXCEPT ![p] = Recrawled(@, text, offer)]
         /\ aux_texts' = [aux_texts EXCEPT ![p] = @ \cup {text}]
    /\ UNCHANGED <<cache, scanned, process, calls, runs, faults, aux_late, aux_half>>

Yearly1M(r) == r.period = "year" /\ r.hi > 0 /\ r.hi <= Ceiling["year"]

Copied(r) == [r EXCEPT !.alo = r.lo, !.ahi = r.hi]

\* annualize_salaries of the nightly DAG.
AnnualizeSalaries ==
    /\ \E p \in Postings : Yearly1M(row[p]) /\ row[p].ahi = 0
    /\ row' = [p \in Postings |-> IF Yearly1M(row[p]) /\ row[p].ahi = 0 THEN Copied(row[p]) ELSE row[p]]
    /\ UNCHANGED <<cache, scanned, process, calls, counts, history>>

LeverDue(p) ==
    p \in Structured /\ Yearly1M(row[p]) /\ row[p].lo \in 1..Ceiling["year"] /\ row[p].alo = 0

\* The last statement of a Lever crawl.
AnnualizeLever ==
    /\ \E p \in Postings : LeverDue(p)
    /\ row' = [p \in Postings |-> IF LeverDue(p) THEN Copied(row[p]) ELSE row[p]]
    /\ UNCHANGED <<cache, scanned, process, calls, counts, history>>

\* extract_salaries selects what was inserted in the last three days and has no
\* yearly amount, or in repair mode what is hourly or monthly.  Any of the
\* postings may be that young.
ExtractRead ==
    /\ scanned = Nothing
    /\ \E repair \in BOOLEAN, young \in SUBSET Postings :
         LET due == {p \in Postings :
                        /\ row[p].text \in Windowed
                        /\ IF repair THEN row[p].period \in {"hour", "month"}
                           ELSE row[p].alo = 0 /\ row[p].ahi = 0 /\ p \in young}
         IN  due # {} /\ scanned' = [p \in due |-> [was |-> row[p], repair |-> repair]]
    /\ UNCHANGED <<tables, process, calls, counts, history>>

\* What the board states comes before what the text says, column by column.
Extracted(s) ==
    LET pay == InWindows[s.was.text]
    IN  [lo |-> IF s.repair \/ s.was.lo = 0 THEN pay.lo ELSE s.was.lo,
         hi |-> IF s.repair \/ s.was.hi = 0 THEN pay.hi ELSE s.was.hi,
         period |-> IF s.repair \/ s.was.period = "none" THEN pay.period ELSE s.was.period]

OrElse(mine, other) == IF mine = 0 THEN other ELSE mine

Coalesced(r, pay, alo, ahi) ==
    [r EXCEPT !.lo = OrElse(@, pay.lo), !.hi = OrElse(@, pay.hi),
              !.period = IF @ = "none" THEN pay.period ELSE @,
              !.alo = OrElse(@, alo), !.ahi = OrElse(@, ahi)]

\* Seeded fault: the repair keeps a yearly maximum that is already there.
KeepsMaximum(r, pay, alo, ahi) ==
    [r EXCEPT !.lo = pay.lo, !.hi = pay.hi, !.period = pay.period, !.alo = alo, !.ahi = OrElse(@, ahi)]

Replaced(r, pay, alo, ahi) ==
    [r EXCEPT !.lo = pay.lo, !.hi = pay.hi, !.period = pay.period, !.alo = alo, !.ahi = ahi]

\* A row is written only with both yearly amounts; all rows in one transaction.
ExtractedRow(p) ==
    LET pay == Extracted(scanned[p])
        alo == Annualize(pay.lo, pay.period)
        ahi == Annualize(pay.hi, pay.period)
    IN  IF p \notin DOMAIN scanned \/ pay.period \notin Period \/ alo = 0 \/ ahi = 0 THEN row[p]
        ELSE IF scanned[p].repair THEN Replaced(row[p], pay, alo, ahi)
        ELSE Coalesced(row[p], pay, alo, ahi)

ExtractWrite ==
    /\ scanned # Nothing
    /\ row' = [p \in Postings |-> ExtractedRow(p)]
    /\ scanned' = Nothing
    /\ UNCHANGED <<cache, process, calls, counts, history>>

-----------------------------------------------------------------------------
(* The enrichment: selection and rules *)

Missing(r) == ~r.sorted \/ r.lo = 0 \/ r.hi = 0 \/ r.period = "none"

\* A cached category counts for thirty days.
StartEnrich(how) ==
    /\ pc = "idle" /\ runs < MaxRuns /\ runs' = runs + 1
    /\ mode' = how
    /\ read' = [p \in {q \in Postings : Missing(row[q])} |-> row[p]]
    /\ known' \in SUBSET cache
    /\ written' = {}
    /\ pc' = "parse"
    /\ task' = Nothing /\ waiting' = <<>> /\ category' = {} /\ salary' = Nothing /\ tripped' = FALSE
    /\ aux_late' = 0
    /\ UNCHANGED <<tables, scanned, crawls, faults, aux_texts, aux_half>>

Selected == DOMAIN read
Parsed(p) == InText[read[p].text]

\* The category the rules give: from the cache, the vote over titles or a pattern.
ByRule(p) == ~read[p].sorted /\ p \in known \cup Obvious

AskCategory == {p \in Selected : ~read[p].sorted /\ ~ByRule(p)}
AskSalary == {p \in Selected : Parsed(p) = None /\ read[p].lo = 0 /\ read[p].text \in Worded}

\* The queues are cut at the budget, categories first.
First(S, n) == {p \in S : Cardinality({q \in S : q < p}) < n}
ToClassify == First(AskCategory, Cap)
ToPay == First(AskSalary, Cap - Cardinality(ToClassify))

Tasks(S) == [p \in S |-> "limited"]

\* Phase 1 queues the calls; Phase 2 is left out where there is none to make.
Parse ==
    /\ pc = "parse"
    /\ \/ /\ mode = "rules" \/ ToClassify \cup ToPay = {}
          /\ pc' = "write" /\ UNCHANGED task
       \/ /\ mode # "rules" /\ ToClassify \cup ToPay # {}
          /\ pc' = IF mode = "batch" THEN "batch" ELSE "classify"
          /\ task' = Tasks(ToClassify)
    /\ UNCHANGED <<tables, scanned, mode, read, known, written, waiting, category, salary, tripped, counts, history>>

-----------------------------------------------------------------------------
(* Concurrent calls: gather of the categories, then of the salaries *)

In(steps) == {p \in DOMAIN task : task[p] \in steps}

\* Seeded fault: a coroutine that is done keeps its first permit.
NeverReleased == In({"inner", "calling", "done"})

\* A coroutine that waits for its second permit holds one, a call holds both.
Entered == In({"inner", "calling"})
Free == Permits - Cardinality(Entered) - Cardinality(In({"calling"}))
Gathering == pc \in {"classify", "pay"}

\* The rate limiter lets the coroutines go one after the other; each then
\* queues for a permit.
Token ==
    /\ Gathering
    /\ \E p \in DOMAIN task :
         /\ task[p] = "limited" /\ \A q \in DOMAIN task : task[q] = "limited" => p <= q
         /\ task' = [task EXCEPT ![p] = "outer"]
         /\ waiting' = Append(waiting, p)
    /\ UNCHANGED <<tables, scanned, process, category, salary, tripped, counts, history>>

\* Seeded fault: nobody looks at the breaker before a call.
NeverShort(p) == pc = "classify" /\ p \in Blocked \cup Verdicts

\* Answered without a call: the breaker, or a pre-check of the title and company.
Short(p) == tripped \/ (pc = "classify" /\ p \in Blocked \cup Verdicts)

\* The head of the queue has a permit.  With its first one a coroutine enters
\* _one_classify or _one_salary, and asks for the second, which it gets at
\* once only when one is free and nobody waits; with the second it calls.
Admit ==
    /\ Gathering /\ waiting # <<>> /\ Free > 0
    /\ LET p == Head(waiting)
           next == IF task[p] = "inner" THEN "calling"
                   ELSE IF Short(p) THEN "done"
                   ELSE IF Tail(waiting) = <<>> /\ Free > 1 THEN "calling"
                   ELSE "inner"
       IN  /\ task' = [task EXCEPT ![p] = next]
           /\ waiting' = IF next = "inner" THEN Append(Tail(waiting), p) ELSE Tail(waiting)
           /\ category' = IF next = "done" /\ ~tripped /\ p \in Verdicts \ Blocked
                          THEN category \cup {p} ELSE category
           /\ aux_late' = IF next = "calling" /\ tripped THEN aux_late + 1 ELSE aux_late
    /\ UNCHANGED <<tables, scanned, process, salary, tripped, counts, aux_texts, aux_half>>

\* A billing or authentication error trips the breaker.
Refused ==
    /\ faults < MaxFaults /\ faults' = faults + 1
    /\ tripped' = TRUE
    /\ UNCHANGED <<category, salary>>

Answered(p) ==
    /\ Gathering /\ p \in DOMAIN task /\ task[p] = "calling"
    /\ task' = [task EXCEPT ![p] = "done"]
    /\ UNCHANGED <<tables, scanned, process, waiting, crawls, runs, history>>

CategoryReply(p) ==
    /\ pc = "classify" /\ Answered(p)
    /\ \/ category' \in {category, category \cup {p}} /\ UNCHANGED <<salary, tripped, faults>>
       \/ Refused

\* A reply of another currency, another period or low confidence is none.
SalaryReply(p) ==
    /\ pc = "pay" /\ Answered(p)
    /\ \/ /\ \E reply \in Replies \cup {[min |-> 1, max |-> 1, period |-> "none"]} :
               salary' = [q \in DOMAIN salary \cup {p} |-> IF q = p THEN ParseReply(reply) ELSE salary[q]]
          /\ UNCHANGED <<category, tripped, faults>>
       \/ Refused

\* gather waits for all of them; then come the salaries, and then the writes.
Gathered ==
    /\ Gathering /\ \A p \in DOMAIN task : task[p] = "done"
    /\ IF pc = "classify" THEN pc' = "pay" /\ task' = Tasks(ToPay)
       ELSE pc' = "write" /\ task' = Nothing
    /\ UNCHANGED <<tables, scanned, mode, read, known, written, waiting, category, salary, tripped, counts, history>>

\* The batch API: some of the requests have a result when the batches have ended.
BatchEnds ==
    /\ pc = "batch"
    /\ \E got \in SUBSET (ToClassify \ (Blocked \cup Verdicts)) :
         category' = got \cup (ToClassify \cap (Verdicts \ Blocked))
    /\ \E paid \in SUBSET ToPay : \E reply \in Replies :
         salary' = [p \in paid |-> ParseReply(reply)]
    /\ pc' = "write" /\ task' = Nothing
    /\ UNCHANGED <<tables, scanned, mode, read, known, written, waiting, tripped, counts, history>>

-----------------------------------------------------------------------------
(* Writes *)

Replied(p) == IF p \in DOMAIN salary THEN salary[p] ELSE None
Offered(p) == IF Parsed(p) # None THEN Parsed(p) ELSE Replied(p)

\* Each column is filled that was NULL when the row was selected; the yearly
\* ones, when the pay is yearly, replace what they hold.
Filled(p) ==
    LET pay == Offered(p)
        r == row[p]
        opens(column) == pay # None /\ column = 0
        yearly(column, amount) == opens(column) /\ pay.period = "year" /\ amount <= Ceiling["year"]
    IN  [r EXCEPT
           !.lo = IF opens(read[p].lo) THEN pay.lo ELSE @,
           !.hi = IF opens(read[p].hi) THEN pay.hi ELSE @,
           !.period = IF pay # None /\ read[p].period = "none" THEN pay.period ELSE @,
           !.alo = IF yearly(read[p].lo, pay.lo) THEN pay.lo ELSE @,
           !.ahi = IF yearly(read[p].hi, pay.hi) THEN pay.hi ELSE @,
           !.sorted = @ \/ ByRule(p) \/ p \in category]

\* A category from the rules primes the cache where it has no row; one from
\* the model replaces the row.
Cached(p) == ~read[p].sorted /\ (ByRule(p) \/ p \in category)

\* The rows of one commit.
Chunk == First(Selected \ written, CommitInterval)

WriteChunk ==
    /\ pc = "write" /\ Chunk # {}
    /\ row' = [p \in Postings |-> IF p \in Chunk THEN Filled(p) ELSE row[p]]
    /\ cache' = cache \cup {p \in Chunk : Cached(p)}
    /\ written' = written \cup Chunk
    /\ aux_half' = aux_half \cup {p \in Chunk : ~Plausible(Offered(p))}
    /\ UNCHANGED <<scanned, pc, mode, read, known, calls, counts, aux_texts, aux_late>>

FinishEnrich ==
    /\ pc = "write" /\ Chunk = {}
    /\ pc' = "idle"
    /\ UNCHANGED <<tables, scanned, mode, read, known, written, calls, counts, history>>

\* The process dies, or a batch cannot be submitted or read: what was not
\* committed is lost.
EnrichDies ==
    /\ pc # "idle"
    /\ faults < MaxFaults /\ faults' = faults + 1
    /\ pc' = "idle"
    /\ UNCHANGED <<tables, scanned, mode, read, known, written, calls, crawls, runs, history>>

-----------------------------------------------------------------------------

Phase == Parse \/ Gathered \/ BatchEnds \/ WriteChunk \/ FinishEnrich

Next ==
    \/ \E p \in Postings : Crawl(p)
    \/ AnnualizeSalaries \/ AnnualizeLever \/ ExtractRead \/ ExtractWrite
    \/ \E how \in {"rules", "calls", "batch"} : StartEnrich(how)
    \/ Phase
    \/ Token \/ Admit \/ \E p \in Postings : CategoryReply(p) \/ SalaryReply(p)
    \/ EnrichDies

Spec == Init /\ [][Next]_vars

\* The event loop runs what can run, and a call of the API has a timeout.
FairSpec ==
    /\ Spec
    /\ WF_vars(Phase) /\ WF_vars(Token) /\ WF_vars(Admit)
    /\ \A p \in Postings : WF_vars(CategoryReply(p) \/ SalaryReply(p))

-----------------------------------------------------------------------------
(* Properties *)

TypeOK ==
    /\ row \in [Postings -> Row]
    /\ \A S \in {cache, known, written, category, DOMAIN scanned, DOMAIN read, DOMAIN task, DOMAIN salary} :
          S \subseteq Postings
    /\ \A p \in DOMAIN scanned : scanned[p] \in [was : Row, repair : BOOLEAN]
    /\ \A p \in DOMAIN read : read[p] \in Row
    /\ pc \in {"idle", "parse", "classify", "pay", "batch", "write"}
    /\ mode \in {"rules", "calls", "batch"}
    /\ \A p \in DOMAIN task : task[p] \in {"limited", "outer", "inner", "calling", "done"}
    /\ waiting \in Seq(DOMAIN task)
    /\ \A p \in DOMAIN salary : Ordered(salary[p])
    /\ tripped \in BOOLEAN
    /\ Free \in 0..Permits
    /\ aux_texts \in [Postings -> SUBSET Texts] /\ aux_late \in Nat
    /\ aux_half \subseteq Postings

\* The plausible salaries somebody could have read from a text.
PlausibleReplies(t) == {pay \in {ParseReply(r) : r \in Replies} : t \in Worded /\ Plausible(pay)}
Pays(t) == ({InText[t], InWindows[t]} \cup PlausibleReplies(t)) \ {None}

\* Their yearly amounts.
Readings ==
    [t \in Texts |-> {<<Annualize(pay.lo, pay.period), Annualize(pay.hi, pay.period)>> : pay \in Pays(t)}]

\* The yearly pair of a posting whose board states no salary is in order and
\* is one reading of one text the posting has had: the four writers and the
\* crawl leave the minimum of one reading beside the maximum of another only
\* after a reply of the model whose bounds, accepted in reverse, leave the range
\* once they are in order.  Of such a reply one yearly amount is written, and
\* extract_salaries or a later run completes the pair from another reading.
OneReading ==
    \A p \in Postings \ (Structured \cup aux_half) :
        row[p].alo > 0 /\ row[p].ahi > 0 =>
            /\ row[p].alo <= row[p].ahi
            /\ \E t \in aux_texts[p] : <<row[p].alo, row[p].ahi>> \in Readings[t]

\* "Once True, all ... calls short-circuit": after the breaker has tripped only
\* coroutines that had passed it still call, and the first permit of the two
\* each needs keeps these below the number of permits.
BreakerStops == aux_late <= Higher(0, Permits - 2)

\* All permits are first ones of coroutines that wait for their second.
Jammed == Gathering /\ Cardinality(In({"inner"})) = Permits

\* A run that started its calls comes to its writes, unless it dies or the
\* coroutines of _one_classify and _one_salary jam each other.
CallsEnd == Gathering ~> (pc \in {"write", "idle"} \/ Jammed)

=============================================================================
