----------------------------- MODULE MCJudgment -----------------------------
(* Small labelled sets, a short T2 queue and four claims for TLC.          *)
EXTENDS Judgment, TLC

No == [u \in Units |-> {}]
Says(names, reads, phrase) == [names |-> names, reads |-> reads, phrase |-> phrase]
Days(v) == [No EXCEPT !["days"] = {v}]

\* Month ends, leap days, the end of a year and of a long quarter.
Anchors == {[m |-> 12 * 2026 + 11, d |-> 31], [m |-> 12 * 2028 + 1, d |-> 29],
            [m |-> 12 * 2026 + 1, d |-> 1], [m |-> 12 * 2026 + 5, d |-> 30],
            [m |-> 12 * 2026 + 6, d |-> 15], [m |-> 12 * 2026 + 8, d |-> 30]}

Mail(sentences, gold, received) == [sentences |-> sentences, gold |-> gold, received |-> received]
Day1 == CHOOSE t \in Anchors : t.m % 12 = 6

\* One sentence with a value and a relative phrase, received at any anchor.
Dated(p, t) ==
    Mail(<<Says({"lead_time_days"}, Days(14000), {p})>>, "lead_time_days" :> 14000, t)

\* Named without a value, then with one, then with another.
Thrice == Mail(<<Says({"transit_days"}, No, {}), Says({"transit_days"}, Days(416), {}),
                 Says({"transit_days", "rate_pct"}, Days(9000), {})>>,
               "transit_days" :> 417 @@ "rate_pct" :> 8500, Day1)

\* Two attributes of one unit in one sentence: both read the first quantity.
Doubled == Mail(<<Says({"lead_time_days", "transit_days"}, Days(14000), {}),
                  Says({"moq_units"}, [No EXCEPT !["units"] = {1200000}], {"next month"})>>,
                "lead_time_days" :> 14000 @@ "transit_days" :> 10000, Day1)

\* Out of the lexicon, and nothing to find at all.
Unread == Mail(<<Says({}, Days(10000), {})>>, "lead_time_days" :> 10000, Day1)
Silence == Mail(<<Says({"lead_time_days"}, No, {"next quarter"})>>, Empty, Day1)

MCCorpora ==
    {<<Dated(p, t), Unread>> : p \in Phrases, t \in Anchors}
      \cup {<<Thrice, Doubled>>, <<Doubled, Unread, Silence>>, <<Thrice, Thrice>>, <<Silence>>}

MCAnswers == {-1, 2}

MCLead == <<14, NoLead, 20, 7>>
MCPremisesOf == <<{1, 2}, {1}, {2, 3}, {1}>>
MCValue == <<14, 5, 9, 11>>

MCT2Replies ==
    {[kind |-> k, days |-> NoLead, confidence |-> 0] : k \in {"unavailable", "malformed", "raises"}}
      \cup {[kind |-> "parsed", days |-> d, confidence |-> 60] : d \in {NoLead, 15, 16}}
      \cup {[kind |-> "parsed", days |-> 16, confidence |-> 59]}

Claim(s, a, spelling, type, days, conf, status) ==
    [canonical |-> [subject |-> s, attribute |-> a, spelling |-> spelling], type |-> type,
     valid_from |-> days, confidence |-> conf, status |-> status]

\* Aliases, a twin at another supplier, another type, wordings nobody knows.
MCClaims == <<
    Claim("K", "lead_time", 1, "temporal", 0, 90, "live"),
    Claim("K", "leadtime", 1, "temporal", 60, 30, "live"),
    Claim("L", "lead_time", 1, "temporal", 0, 40, "retracted"),
    Claim("K", "turnaround", 1, "temporal", 700, 60, "live"),
    Claim("K", "lead_time", 2, "numeric", 0, 70, "tombstoned")>>

MCPairReplies ==
    {[available |-> FALSE, same |-> FALSE, confidence |-> 0],
     [available |-> TRUE, same |-> TRUE, confidence |-> 95],
     [available |-> TRUE, same |-> TRUE, confidence |-> 70],
     [available |-> TRUE, same |-> FALSE, confidence |-> 0],
     [available |-> TRUE, same |-> FALSE, confidence |-> 80]}
=============================================================================
