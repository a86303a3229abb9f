----------------------------- MODULE Extraction -----------------------------
(***************************************************************************)
(* spine/extract.py: the deterministic parser that reads typed claims out  *)
(* of one artifact.  A sentence is what the patterns find in it: the       *)
(* attributes it names, the first quantity of every unit (a set of at most *)
(* one), a relative date phrase.  A value is counted in thousandths, which *)
(* is where _value_for rounds; a date is a month, counted from year 0, and *)
(* a day of it.                                                            *)
(***************************************************************************)
EXTENDS Integers, Sequences, FiniteSets, SequencesExt, FiniteSetsExt

Attribute(suffix, unit, label) == [suffix |-> suffix, unit |-> unit, label |-> label]

\* The attributes, in the order the code tries them, with the row of the
\* coverage matrix that the name of each earns it.
LEXICON == <<
    Attribute("lead_time_days",          "days",  "temporal:absolute-duration"),
    Attribute("transit_days",            "days",  "temporal:absolute-duration"),
    Attribute("consolidation_days",      "days",  "temporal:absolute-duration"),
    Attribute("rate_pct",                "pct",   "numeric:percentage"),
    Attribute("unit_price_usd",          "usd",   "numeric:currency"),
    Attribute("moq_units",               "units", "numeric:quantity"),
    Attribute("capacity_units_per_week", "units", "numeric:quantity") >>

SpecOf(suffix) == CHOOSE spec \in ToSet(LEXICON) : spec.suffix = suffix

KnownSuffixes == {spec.suffix : spec \in ToSet(LEXICON)}
Units == {spec.unit : spec \in ToSet(LEXICON)}

(* Relative dates                                                          *)

Phrases ==
    {"next quarter", "this quarter", "end of quarter", "end of month", "next month", "immediate"}

Leap(y) == y % 4 = 0 /\ (y % 100 # 0 \/ y % 400 = 0)
DaysIn(m) ==
    CASE m % 12 = 1 -> IF Leap(m \div 12) THEN 29 ELSE 28
      [] m % 12 \in {3, 5, 8, 10} -> 30
      [] OTHER -> 31

\* The date n days after t: so many whole months have gone by.
Plus(t, n) ==
    LET gone[k \in 0 .. n + 1] == IF k = 0 THEN 0 ELSE gone[k - 1] + DaysIn(t.m + k - 1)
        months == CHOOSE k \in 0 .. n : gone[k] < t.d + n /\ t.d + n <= gone[k + 1]
    IN  [m |-> t.m + months, d |-> t.d + n - gone[months]]

QuarterStart(t) == [m |-> t.m - (t.m % 3), d |-> 1]
DayBefore(t) == IF t.d > 1 THEN [t EXCEPT !.d = @ - 1] ELSE [m |-> t.m - 1, d |-> DaysIn(t.m - 1)]

\* The days of the calendar.
Date == {t \in [m : Nat, d : 1 .. 31] : t.d <= DaysIn(t.m)}

\* A quarter later by adding 95 days to the start of this one, or 90.
NextQuarterBy90(t) == QuarterStart(Plus(QuarterStart(t), 90))
NextQuarter(t) == QuarterStart(Plus(QuarterStart(t), 95))

ResolveRelative(phrase, anchor) ==
    CASE phrase = "next quarter"   -> NextQuarter(anchor)
      [] phrase = "this quarter"   -> QuarterStart(anchor)
      [] phrase = "end of quarter" -> DayBefore(NextQuarter(anchor))
      [] phrase = "end of month"   -> [anchor EXCEPT !.d = DaysIn(anchor.m)]
      [] phrase = "next month"     -> [m |-> anchor.m + 1, d |-> 1]
      [] phrase = "immediate"      -> anchor

(* extract                                                                 *)

\* What the patterns find in a sentence.
Sentence == [names : SUBSET KnownSuffixes, reads : [Units -> SUBSET Int], phrase : SUBSET Phrases]

\* A pattern is searched for, and the first match of it taken.
Readable(artifact) ==
    /\ artifact.sentences \in Seq(Sentence)
    /\ \A i \in DOMAIN artifact.sentences : \A p, q \in artifact.sentences[i].phrase : p = q
    /\ artifact.received \in Date

ValueFor(spec, sentence) == sentence.reads[spec.unit]

Seen(report) == {e.suffix : e \in report.extractions}

Extracted(spec, sentence, received) ==
    LET relative == sentence.phrase # {} IN
    [suffix     |-> spec.suffix,
     value      |-> CHOOSE v \in ValueFor(spec, sentence) : TRUE,
     relative   |-> relative,
     confidence |-> IF relative THEN 712 ELSE 950,
     valid_from |-> IF relative THEN ResolveRelative(CHOOSE p \in sentence.phrase : TRUE, received)
                    ELSE received]

\* An attribute is read off the first sentence that gives it a value.
Asked(report, sentence) ==
    {spec \in ToSet(LEXICON) : spec.suffix \in sentence.names \ Seen(report)}

\* Each attribute of the lexicon once: what one of them leaves is nothing to
\* the next.
ReadSentence(report, sentence, received) ==
    LET asked == Asked(report, sentence)
        given == {spec \in asked : ValueFor(spec, sentence) # {}}
    IN  [extractions |-> report.extractions
                           \cup {Extracted(spec, sentence, received) : spec \in given},
         unresolved  |-> report.unresolved \cup {spec.suffix : spec \in asked \ given}]

\* Sentence by sentence.
Extract(artifact) ==
    LET report[n \in 0 .. Len(artifact.sentences)] ==
            IF n = 0 THEN [extractions |-> {}, unresolved |-> {}]
            ELSE ReadSentence(report[n - 1], artifact.sentences[n], artifact.received)
    IN  report[Len(artifact.sentences)]

ExtractOutcome(report) ==
    IF report.extractions # {} THEN "extracted"
    ELSE IF report.unresolved # {} THEN "no_value" ELSE "no_match"

\* Would the text yield a lead time?
ExtractsLeadTime(artifact) == "lead_time_days" \in Seen(Extract(artifact))

-----------------------------------------------------------------------------
(* What the text says, with no order to read it in.                        *)

FirstReading(artifact, suffix) ==
    LET at == {i \in DOMAIN artifact.sentences :
                 /\ suffix \in artifact.sentences[i].names
                 /\ artifact.sentences[i].reads[SpecOf(suffix).unit] # {}}
    IN  IF at = {} THEN 0 ELSE Min(at)

Named(artifact) == UNION {artifact.sentences[i].names : i \in DOMAIN artifact.sentences}

\* Dates in order.
Before(t, u) == t.m < u.m \/ (t.m = u.m /\ t.d < u.d)

\* What the rule of every phrase says in words: the first day of the quarter
\* after the anchor's, the last day of the anchor's own, and so on.
KeepsItsRule(phrase, anchor, date) ==
    LET q == anchor.m \div 3 IN
    CASE phrase = "next quarter"   -> date.m \div 3 = q + 1 /\ date.m % 3 = 0 /\ date.d = 1
      [] phrase = "this quarter"   -> date.m \div 3 = q /\ date.m % 3 = 0 /\ date.d = 1
      [] phrase = "end of quarter" -> date.m = 3 * q + 2 /\ date.d = DaysIn(date.m)
      [] phrase = "end of month"   -> date.m = anchor.m /\ date.d = DaysIn(date.m)
      [] phrase = "next month"     -> date.m = anchor.m + 1 /\ date.d = 1
      [] phrase = "immediate"      -> date = anchor
=============================================================================
