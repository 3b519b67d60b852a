------------------------------ MODULE Salaries ------------------------------
(***************************************************************************)
(* How a salary is read from the text of a posting: parse_salary_range of  *)
(* python/enrich_job_postings.py with its extractors, the windows and the  *)
(* annual amounts of python/extract_salaries.py, and the check of a        *)
(* language model's reply (python/llm_client.py).                          *)
(*                                                                         *)
(* A text is a sequence of lines; of a line only the period words in it    *)
(* and its sums of money matter.  The shapes of a sum are the patterns it  *)
(* matches: "$140k-$160k" behind a label has the shapes labeled and bare.  *)
(* A figure is a number as written, with its suffix; one that cannot be    *)
(* read counts as zero, which every extractor treats alike.                *)
(***************************************************************************)
EXTENDS Integers, Sequences, SequencesExt

Period == {"year", "hour", "month"}

\* No salary: the NULLs of the three columns.
None == [lo |-> 0, hi |-> 0, period |-> "none"]

Lower(a, b) == IF a <= b THEN a ELSE b
Higher(a, b) == IF a >= b THEN a ELSE b
Pay(a, b, period) == [lo |-> Lower(a, b), hi |-> Higher(a, b), period |-> period]

-----------------------------------------------------------------------------
(* Figures *)

\* A suffix behind a number that is in the thousands already is a slip.
ToDec(f) ==
    CASE f.suffix = "k" /\ f.n < 1000 -> f.n * 1000
      [] f.suffix = "m" -> f.n * 1000000
      [] OTHER -> f.n

\* "$185 - $235K": the suffix of the second figure counts for both.
ScaleFirst(s) ==
    IF s.hi.suffix = "k" /\ s.lo.suffix # "k" /\ s.lo.n < 10000
    THEN ToDec([s.lo EXCEPT !.suffix = "k"])
    ELSE ToDec(s.lo)

\* Words decide before the magnitude does.
PeriodFromContext(words, lo) ==
    CASE "year" \in words -> "year"
      [] "hour" \in words /\ "year" \notin words -> "hour"
      [] words = {"month"} -> "month"
      [] words = {} /\ lo >= 15000 -> "year"
      [] words = {} /\ lo \in 1000..14999 -> "month"
      [] words = {} /\ lo \in 7..999 -> "hour"
      [] OTHER -> "none"

Floor == [year |-> 15000, hour |-> 7, month |-> 1000]
Ceiling == [year |-> 1000000, hour |-> 500, month |-> 50000]

Sanity(pay) ==
    /\ pay.period \in Period
    /\ Floor[pay.period] <= pay.lo /\ pay.hi <= Ceiling[pay.period]

Checked(a, b, period) ==
    IF a > 0 /\ b > 0 /\ Sanity(Pay(a, b, period)) THEN Pay(a, b, period) ELSE None

InContext(line, a, b) == Checked(a, b, PeriodFromContext(line.words, Lower(a, b)))

-----------------------------------------------------------------------------
(* Extractors: each searches a line for the first sum of its shape *)

Matches(line, shape) == SelectSeq(line.sums, LAMBDA s : shape \in s.shapes /\ ~s.spaced)

Found(line, shape, Read(_)) ==
    LET sums == Matches(line, shape) IN IF sums = <<>> THEN None ELSE Read(Head(sums))

\* The first of several readings that is one.
FirstOf(readings) ==
    LET some == SelectSeq(readings, LAMBDA r : r # None)
    IN  IF some = <<>> THEN None ELSE Head(some)

\* "$40/hr - $50/hr": taken whatever the amounts are.
Slash(line) ==
    Found(line, "slash", LAMBDA s :
        IF s.unit \in Period /\ ToDec(s.lo) > 0 /\ ToDec(s.hi) > 0
        THEN Pay(ToDec(s.lo), ToDec(s.hi), s.unit) ELSE None)

\* A range behind a label, in the line or in its window; a compact band
\* ("80 - 95") is in thousands unless it is said to be hourly.
LabeledIn(target) ==
    Found(target, "labeled", LAMBDA s :
        LET a == ScaleFirst(s)
            b == ToDec(s.hi)
            compact == /\ "hour" \notin target.words /\ a < 1000 /\ b < 1000
                       /\ a >= 80 \/ "year" \in target.words
        IN  IF ~s.pay \/ a = 0 \/ b = 0 THEN None
            ELSE IF compact THEN InContext(target, a * 1000, b * 1000)
            ELSE InContext(target, a, b))

Labeled(line, window) == FirstOf(<<LabeledIn(line), LabeledIn(window)>>)

\* Two figures whose period is what the line says or their size suggests.
ByContext(line, shape) == Found(line, shape, LAMBDA s : InContext(line, ToDec(s.lo), ToDec(s.hi)))

\* Two figures of a wording that only yearly pay has.
Yearly(line, shape) == Found(line, shape, LAMBDA s : Checked(ToDec(s.lo), ToDec(s.hi), "year"))

\* The same for wordings with one figure.
OneByContext(line, shape) == Found(line, shape, LAMBDA s : InContext(line, ToDec(s.lo), ToDec(s.lo)))
OneYearly(line, shape) == Found(line, shape, LAMBDA s : Checked(ToDec(s.lo), ToDec(s.lo), "year"))

\* The wordings of single employers.
MinMaxPayRange(line) == ByContext(line, "min_max_range")
TargetedPayRange(line) == ByContext(line, "targeted")
TwilioColonRange(line) == ByContext(line, "colon")
AnnualSalaryRange(line) == Yearly(line, "annual_range")
FordSalaryGrades(line) == Yearly(line, "ranges_from")
IqviaFrench(line) == Yearly(line, "french")
LowHighRange(line) == Yearly(line, "low_high")
CadBetween(line) == Yearly(line, "cad_between")
SalarySlashAnnually(line) == OneYearly(line, "per_annum")
SalaryPlus(line) == OneYearly(line, "salary_plus")

Between(line) == Found(line, "between", LAMBDA s : InContext(line, ScaleFirst(s), ToDec(s.hi)))

\* Every bare range is tried until one is plausible pay.
BareOf(line, shape) ==
    LET pays == SelectSeq(Matches(line, shape), LAMBDA s : s.pay)
    IN  FirstOf([i \in DOMAIN pays |-> InContext(line, ScaleFirst(pays[i]), ToDec(pays[i].hi))])

Bare(line) ==
    FirstOf(<<BareOf(line, "usd"), BareOf(line, "cad"), BareOf(line, "bare"), BareOf(line, "bare_to")>>)

MinMax(line) ==
    FirstOf(<<ByContext(line, "min_max"), ByContext(line, "min_max_marked"), ByContext(line, "min_max_worded")>>)

\* Figures with spaces inside them, once the spaces are removed.
Spaced(line) ==
    LET closed == [line EXCEPT !.sums = [i \in DOMAIN @ |-> [@[i] EXCEPT !.spaced = FALSE]]]
    IN  IF closed = line THEN None ELSE FirstOf(<<LabeledIn(closed), Bare(closed)>>)

\* "$130,000-$1450,000": a second figure above a million loses its first digit.
Typo(line) ==
    Found(line, "typo", LAMBDA s :
        LET rest == s.hi.n % (IF s.hi.n < 10000000 THEN 1000000 ELSE 10000000)
        IN  Checked(s.lo.n, IF s.hi.n > 1000000 THEN rest ELSE s.hi.n, "year"))

\* "$140,00 - $240,000": the first figure, read as 140, stands for thousands.
Truncated(line) == Found(line, "truncated", LAMBDA s : Checked(s.lo.n * 1000, ToDec(s.hi), "year"))

\* A yearly amount that only has to be large enough.
AtLeast(line, shape, floor) ==
    Found(line, shape, LAMBDA s : IF ToDec(s.lo) >= floor THEN Pay(ToDec(s.lo), ToDec(s.lo), "year") ELSE None)

PerHour(line, shape) == Found(line, shape, LAMBDA s : Checked(s.lo.n, s.lo.n, "hour"))

\* A base and its target earnings, or "begins at" and "up to".
BaseAndTarget(line, shape) ==
    Found(line, shape, LAMBDA s : Checked(ScaleFirst(s), ToDec(s.hi), "year"))

\* One figure with an explicit wording.
SingleValue(line) == FirstOf(<<
    BaseAndTarget(line, "base_ote"), BaseAndTarget(line, "ote_base"),
    BaseAndTarget(line, "begins_up_to"), OneByContext(line, "cap"), OneYearly(line, "plus_salary"),
    AtLeast(line, "offering", 50000), AtLeast(line, "starting", 15000),
    AtLeast(line, "base_starts", 15000), AtLeast(line, "around", 50000),
    AtLeast(line, "salary_is", 50000), AtLeast(line, "salary", 50000),
    OneByContext(line, "base_pay"), PerHour(line, "per_hour"), PerHour(line, "per_hr")>>)

Extractors(line, window) == FirstOf(<<
    Slash(line), Labeled(line, window), MinMax(line), MinMaxPayRange(line),
    TargetedPayRange(line), AnnualSalaryRange(line), Between(line), Spaced(line),
    SalarySlashAnnually(line), SalaryPlus(line), Typo(line), FordSalaryGrades(line),
    TwilioColonRange(line), IqviaFrench(line), LowHighRange(line), CadBetween(line),
    Truncated(line), Bare(line), SingleValue(line)>>)

-----------------------------------------------------------------------------
(* Texts *)

\* The lines from the previous one to the one after next, read as one.
Window(lines, i) ==
    LET near == SubSeq(lines, Higher(1, i - 1), Lower(Len(lines), i + 2))
    IN  [lines[i] EXCEPT !.words = UNION {near[k].words : k \in DOMAIN near},
                         !.sums = FlattenSeq([k \in DOMAIN near |-> near[k].sums])]

\* The text without the lines that are buttons and banners of a LinkedIn page.
StripChrome(text) == SelectSeq(text, LAMBDA line : ~line.chrome)

\* The first line whose first reading is plausible.
ParseSalaryRange(text) ==
    LET lines == StripChrome(text)
        first == [i \in DOMAIN lines |->
                     IF lines[i].sums = <<>> THEN None ELSE Extractors(lines[i], Window(lines, i))]
    IN  FirstOf(SelectSeq(first, LAMBDA pay : Sanity(pay)))

\* The surroundings of the sums near which there is talk of pay.
SalaryWindows(text) == SelectSeq(text, LAMBDA line : line.sums # <<>> /\ line.near)

\* There is talk of pay somewhere: what a model is asked about.
Keyword(text) == LET lines == StripChrome(text) IN \E i \in DOMAIN lines : lines[i].near

Multiplier == [year |-> 1, month |-> 12, hour |-> 2080]

\* The yearly amount, or zero when it is not plausible.
Annualize(value, period) ==
    LET yearly == value * Multiplier[period]
    IN  IF Floor["year"] <= yearly /\ yearly <= Ceiling["year"] THEN yearly ELSE 0

\* The reply's bounds are checked as they come and put in order afterwards.
ParseReply(reply) ==
    IF reply.period \in Period /\ Floor[reply.period] <= reply.min /\ reply.max <= Ceiling[reply.period]
    THEN Pay(reply.min, reply.max, reply.period) ELSE None

=============================================================================
