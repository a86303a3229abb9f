------------------------ MODULE ExternalActionProofs ------------------------
(***************************************************************************)
(* Theorems about ExternalAction for any number of callers, keys, effects  *)
(* and failures: the type invariant, the soundness of the durable records, *)
(* that a settled correction stays settled, that the module implements     *)
(* RetriedEffect, and what a correction can cost in repeated effects.      *)
(***************************************************************************)
EXTENDS ExternalAction, FiniteSetTheorems, TLAPS

\* Between the effect and the record a caller holds an effect of its own key
\* and backend; between the read of a record and its mark it holds the effect
\* the record named, and the record is still there.
JobSound(c) ==
    /\ job[c].step = "record"
          => /\ job[c].line \in Effects(job[c].key)
             /\ lines[job[c].line].backend = job[c].backend
    /\ job[c].step \in {"append", "mark"}
          => /\ job[c].line \in Effects(job[c].key)
             /\ record[job[c].key] # NoRecord
    /\ job[c].step = "mark" => Reversals(job[c].key) # {}

Inv ==
    /\ TypeOK
    /\ RecordsNameEffects
    /\ \A c \in Caller : JobSound(c)

-----------------------------------------------------------------------------
(* The outside world only grows.                                           *)

LEMMA AppendedLine ==
    ASSUME lines \in Seq(Line), NEW l \in Line, lines' = Append(lines, l)
    PROVE  /\ lines' \in Seq(Line)
           /\ Len(lines) + 1 \notin DOMAIN lines
           /\ DOMAIN lines' = DOMAIN lines \cup {Len(lines) + 1}
           /\ \A i \in DOMAIN lines : lines'[i] = lines[i]
           /\ lines'[Len(lines) + 1] = l
  OBVIOUS

LEMMA AppendedEffect ==
    ASSUME lines \in Seq(Line), NEW l \in Line, lines' = Append(lines, l), NEW k
    PROVE  /\ l.kind = "APPLY" /\ l.key = k
                 => Effects(k)' = Effects(k) \cup {Len(lines) + 1}
           /\ ~(l.kind = "APPLY" /\ l.key = k) => Effects(k)' = Effects(k)
           /\ l.kind = "REVERSAL" /\ l.key = k
                 => Reversals(k)' = Reversals(k) \cup {Len(lines) + 1}
           /\ ~(l.kind = "REVERSAL" /\ l.key = k) => Reversals(k)' = Reversals(k)
           /\ Len(lines) + 1 \notin Effects(k) \cup Reversals(k)
  BY AppendedLine DEF Effects, Reversals

LEMMA SameLines ==
    ASSUME UNCHANGED lines, NEW k
    PROVE  Effects(k)' = Effects(k) /\ Reversals(k)' = Reversals(k)
  BY DEF Effects, Reversals

\* A call in progress is a Job.
LEMMA InCall ==
    ASSUME TypeOK, NEW c \in Caller, job[c].step # "idle"
    PROVE  job[c] \in Job
  BY DEF TypeOK, NoJob

LEMMA Finished ==
    ASSUME TypeOK, NEW c \in Caller, NEW o \in Outcome, job[c].step # "idle", Finish(c, o)
    PROVE  /\ job' \in [Caller -> Job \cup {NoJob}]
           /\ job'[c].step = "done"
           /\ \A d \in Caller \ {c} : job'[d] = job[d]
  BY InCall DEF TypeOK, Finish, Job, CallStep
-----------------------------------------------------------------------------
(* Inv is inductive.                                                       *)

\* A step of c that writes nothing outside and no record.
LEMMA QuietStep ==
    ASSUME Inv, NEW c \in Caller, UNCHANGED <<lines, record>>,
           job' \in [Caller -> Job \cup {NoJob}], failures' \in Nat,
           \A d \in Caller \ {c} : job'[d] = job[d],
           JobSound(c)'
    PROVE  Inv'
  <1>1. \A k : Effects(k)' = Effects(k) /\ Reversals(k)' = Reversals(k)
    BY SameLines
  <1>2. TypeOK'
    BY DEF Inv, TypeOK
  <1>3. RecordsNameEffects'
    BY <1>1 DEF Inv, RecordsNameEffects
  <1>4. ASSUME NEW d \in Caller, d # c
        PROVE  JobSound(d)'
    BY <1>1, <1>4 DEF Inv, JobSound
  <1> QED
    BY <1>2, <1>3, <1>4 DEF Inv

\* A step of c that adds a line and writes no record.
LEMMA WritingStep ==
    ASSUME Inv, NEW c \in Caller, NEW l \in Line, lines' = Append(lines, l),
           UNCHANGED record,
           l.kind = "REVERSAL" => l.of \in Effects(l.key),
           job' \in [Caller -> Job \cup {NoJob}], failures' \in Nat,
           \A d \in Caller \ {c} : job'[d] = job[d],
           JobSound(c)'
    PROVE  Inv'
  <1> lines \in Seq(Line)
    BY DEF Inv, TypeOK
  <1>1. \A k : Effects(k) \subseteq Effects(k)' /\ Reversals(k) \subseteq Reversals(k)'
    BY AppendedEffect
  <1>2. \A k : \A i \in Effects(k) : lines'[i] = lines[i]
    BY AppendedLine DEF Effects
  <1>3. TypeOK'
    BY AppendedLine DEF Inv, TypeOK
  <1>4. RecordsNameEffects'
    <2>1. ASSUME NEW k \in Key, record'[k] # NoRecord
          PROVE  /\ record'[k].line \in Effects(k)'
                 /\ lines'[record'[k].line].backend = record'[k].backend
      BY <2>1, <1>1, <1>2 DEF Inv, RecordsNameEffects
    <2>2. ASSUME NEW k \in Key, NEW i \in Reversals(k)'
          PROVE  lines'[i].of \in Effects(k)' /\ lines'[i].of < i
      <3>1. CASE i \in Reversals(k)
        <4>1. lines'[i] = lines[i]
          BY <3>1, AppendedLine DEF Reversals
        <4> QED
          BY <3>1, <4>1, <1>1 DEF Inv, RecordsNameEffects
      <3>2. CASE i \notin Reversals(k)
        <4>1. l.kind = "REVERSAL" /\ l.key = k /\ i = Len(lines) + 1
          BY <2>2, <3>2, AppendedEffect
        <4>2. l.of \in Effects(k) /\ l.of \in DOMAIN lines
          BY <4>1 DEF Effects
        <4>3. lines'[i] = l
          BY <4>1, AppendedLine
        <4>4. l.of < i
          BY <4>1, <4>2
        <4> QED
          BY <4>2, <4>3, <4>4, <1>1
      <3> QED
        BY <3>1, <3>2
    <2> QED
      BY <2>1, <2>2 DEF RecordsNameEffects
  <1>5. ASSUME NEW d \in Caller, d # c
        PROVE  JobSound(d)'
    <2>1. job'[d] = job[d] /\ JobSound(d)
      BY <1>5 DEF Inv
    <2>2. job[d].step = "record"
             => /\ job[d].line \in Effects(job[d].key)'
                /\ lines'[job[d].line].backend = job[d].backend
      BY <2>1, <1>1, <1>2 DEF JobSound
    <2>3. job[d].step \in {"append", "mark"}
             => job[d].line \in Effects(job[d].key)' /\ record'[job[d].key] # NoRecord
      BY <2>1, <1>1 DEF JobSound
    <2>4. job[d].step = "mark" => Reversals(job[d].key)' # {}
      BY <2>1, <1>1 DEF JobSound
    <2> QED
      BY <2>1, <2>2, <2>3, <2>4 DEF JobSound
  <1> QED
    BY <1>3, <1>4, <1>5 DEF Inv

\* A step of c that writes the record of its key, and finishes.
LEMMA RecordingStep ==
    ASSUME Inv, NEW c \in Caller, NEW k \in Key, NEW r \in Record, UNCHANGED lines,
           record' = [record EXCEPT ![k] = r],
           r.line \in Effects(k), lines[r.line].backend = r.backend,
           job' \in [Caller -> Job \cup {NoJob}], failures' \in Nat,
           \A d \in Caller \ {c} : job'[d] = job[d],
           job'[c].step = "done"
    PROVE  Inv'
  <1>1. \A j : Effects(j)' = Effects(j) /\ Reversals(j)' = Reversals(j)
    BY SameLines
  <1>2. r # NoRecord
    BY DEF Record, NoRecord
  <1>3. TypeOK'
    BY DEF Inv, TypeOK
  <1>4. RecordsNameEffects'
    BY <1>1, <1>2 DEF Inv, RecordsNameEffects, TypeOK
  <1>5. \A j \in Key : record[j] # NoRecord => record'[j] # NoRecord
    BY <1>2 DEF Inv, TypeOK
  <1>6. ASSUME NEW d \in Caller, d # c
        PROVE  JobSound(d)'
    <2>1. job'[d] = job[d]
      BY <1>6
    <2>2. job[d].step \in {"append", "mark"} => job[d].key \in Key
      BY InCall DEF Inv, Job
    <2> QED
      BY <2>1, <2>2, <1>1, <1>5 DEF Inv, JobSound
  <1>7. JobSound(c)'
    BY DEF JobSound
  <1> QED
    BY <1>3, <1>4, <1>6, <1>7 DEF Inv

\* Every action is one of the three kinds of step, or none.
LEMMA Stays ==
    ASSUME Inv, UNCHANGED vars
    PROVE  Inv'
  <1>1. \A k : Effects(k)' = Effects(k) /\ Reversals(k)' = Reversals(k)
    BY SameLines DEF vars
  <1> QED
    BY <1>1 DEF Inv, TypeOK, RecordsNameEffects, JobSound, vars

LEMMA Beginning ==
    ASSUME Inv, NEW c \in Caller, NEW k \in Key, NEW b \in Backend,
           \/ Revert(c, k, b)
           \/ \E auth \in Authorization : Execute(c, k, b, auth)
    PROVE  Inv'
  <1>1. /\ job' \in [Caller -> Job \cup {NoJob}]
        /\ job'[c].step \in {"read", "reread", "done"}
        /\ \A d \in Caller \ {c} : job'[d] = job[d]
    BY DEF Inv, TypeOK, Revert, Execute, Job, CallStep, Outcome
  <1>2. UNCHANGED <<lines, record, failures>>
    BY DEF Revert, Execute
  <1>3. JobSound(c)'
    BY <1>1 DEF JobSound
  <1> QED
    BY <1>1, <1>2, <1>3, QuietStep DEF Inv, TypeOK

\* What the steps of a call have in common.
LEMMA Doing ==
    ASSUME Inv, NEW c \in Caller, job[c].step # "idle"
    PROVE  /\ job \in [Caller -> Job \cup {NoJob}] /\ job[c] \in Job
           /\ job[c].key \in Key /\ job[c].backend \in Backend /\ job[c].line \in Nat
           /\ lines \in Seq(Line) /\ record \in [Key -> Record \cup {NoRecord}]
           /\ failures \in Nat /\ TypeOK /\ JobSound(c)
  BY InCall DEF Inv, TypeOK, Job

LEMMA Ending ==
    ASSUME Inv, NEW c \in Caller, Return(c) \/ Crash(c)
    PROVE  Inv'
  <1>1. /\ job' \in [Caller -> Job \cup {NoJob}]
        /\ job'[c] = NoJob
        /\ \A d \in Caller \ {c} : job'[d] = job[d]
        /\ failures' \in Nat
    BY DEF Inv, TypeOK, Return, Crash
  <1>2. UNCHANGED <<lines, record>>
    BY DEF Return, Crash
  <1>3. JobSound(c)'
    BY <1>1 DEF JobSound, NoJob
  <1> QED
    BY <1>1, <1>2, <1>3, QuietStep

LEMMA Reading ==
    ASSUME Inv, NEW c \in Caller,
           ReadForExecute(c) \/ ReadForRevert(c) \/ GithubRefuses(c)
    PROVE  Inv'
  <1>0. job[c].step # "idle"
    BY DEF ReadForExecute, ReadForRevert, GithubRefuses, At
  <1>1. UNCHANGED <<lines, record, failures>>
    BY DEF ReadForExecute, ReadForRevert, GithubRefuses
  <1>2. CASE \E o \in Outcome : Finish(c, o)
    <2>1. /\ job' \in [Caller -> Job \cup {NoJob}]
          /\ job'[c].step = "done"
          /\ \A d \in Caller \ {c} : job'[d] = job[d]
      BY <1>0, <1>2, Doing, Finished
    <2>2. JobSound(c)'
      BY <2>1 DEF JobSound
    <2> QED
      BY <1>1, <2>1, <2>2, QuietStep DEF Inv, TypeOK
  <1>3. CASE job' = [job EXCEPT ![c].step = "effect"]
    <2>1. /\ job' \in [Caller -> Job \cup {NoJob}]
          /\ job'[c].step = "effect"
          /\ \A d \in Caller \ {c} : job'[d] = job[d]
      BY <1>0, <1>3, Doing DEF Job, CallStep
    <2>2. JobSound(c)'
      BY <2>1 DEF JobSound
    <2> QED
      BY <1>1, <2>1, <2>2, QuietStep DEF Inv, TypeOK
  <1>4. CASE /\ record[job[c].key] # NoRecord
             /\ job' = [job EXCEPT ![c].step = "append",
                                   ![c].line = record[job[c].key].line]
    <2>1. record[job[c].key].line \in Effects(job[c].key)
      BY <1>0, <1>4, Doing DEF Inv, RecordsNameEffects
    <2>2. record[job[c].key].line \in Nat
      BY <1>0, <1>4, Doing DEF Record
    <2>3. /\ job' \in [Caller -> Job \cup {NoJob}]
          /\ job'[c].step = "append" /\ job'[c].key = job[c].key
          /\ job'[c].line = record[job[c].key].line
          /\ \A d \in Caller \ {c} : job'[d] = job[d]
      BY <1>0, <1>4, <2>2, Doing DEF Job, CallStep
    <2>4. JobSound(c)'
      BY <1>1, <1>4, <2>1, <2>3, SameLines DEF JobSound
    <2> QED
      BY <1>1, <2>3, <2>4, QuietStep DEF Inv, TypeOK
  <1> QED
    BY <1>2, <1>3, <1>4 DEF ReadForExecute, ReadForRevert, GithubRefuses, Outcome

LEMMA Effecting ==
    ASSUME Inv, NEW c \in Caller, PerformEffect(c) \/ GithubAnswerLost(c)
    PROVE  Inv'
  <1>0. job[c].step = "effect"
    BY DEF PerformEffect, GithubAnswerLost, At
  <1>1. /\ Written(c) \in Line
        /\ Written(c).kind = "APPLY" /\ Written(c).key = job[c].key
        /\ Written(c).backend = job[c].backend
    BY <1>0, Doing DEF Written, Line
  <1>2. lines' = Append(lines, Written(c)) /\ UNCHANGED record
    BY DEF PerformEffect, GithubAnswerLost
  <1>3. CASE PerformEffect(c)
    <2>1. /\ job' \in [Caller -> Job \cup {NoJob}]
          /\ job'[c].step = "record" /\ job'[c].key = job[c].key
          /\ job'[c].backend = job[c].backend
          /\ job'[c].line = Len(lines) + 1
          /\ \A d \in Caller \ {c} : job'[d] = job[d]
          /\ failures' \in Nat
      BY <1>0, <1>3, Doing DEF PerformEffect, Job, CallStep
    <2>2. Len(lines) + 1 \in Effects(job[c].key)'
      BY <1>0, <1>1, <1>2, <2>1, Doing, AppendedEffect
    <2>3. lines'[Len(lines) + 1] = Written(c)
      BY <1>0, <1>1, <1>2, Doing, AppendedLine
    <2>4. JobSound(c)'
      BY <1>1, <2>1, <2>2, <2>3 DEF JobSound
    <2> QED
      BY <1>1, <1>2, <2>1, <2>4, WritingStep
  <1>4. CASE GithubAnswerLost(c)
    <2>1. /\ job' \in [Caller -> Job \cup {NoJob}]
          /\ job'[c].step = "done"
          /\ \A d \in Caller \ {c} : job'[d] = job[d]
      BY <1>0, <1>4, Doing, Finished DEF GithubAnswerLost, Outcome
    <2>2. failures' \in Nat
      BY <1>0, <1>4, Doing DEF GithubAnswerLost
    <2>3. JobSound(c)'
      BY <2>1 DEF JobSound
    <2> QED
      BY <1>1, <1>2, <2>1, <2>2, <2>3, WritingStep
  <1> QED
    BY <1>3, <1>4

LEMMA Reversing ==
    ASSUME Inv, NEW c \in Caller, AppendReversal(c)
    PROVE  Inv'
  <1> DEFINE l == [kind |-> "REVERSAL", key |-> job[c].key,
                   backend |-> "sandbox_file", of |-> job[c].line]
  <1>0. job[c].step = "append"
    BY DEF AppendReversal, At
  <1>1. l \in Line /\ job[c].line \in Effects(job[c].key) /\ record[job[c].key] # NoRecord
    BY <1>0, Doing DEF Line, JobSound
  <1>2. lines' = Append(lines, l) /\ UNCHANGED record
    BY DEF AppendReversal
  <1>3. /\ job' \in [Caller -> Job \cup {NoJob}]
        /\ job'[c].step = "mark" /\ job'[c].key = job[c].key
        /\ job'[c].line = job[c].line
        /\ \A d \in Caller \ {c} : job'[d] = job[d]
        /\ failures' \in Nat
    BY <1>0, Doing DEF AppendReversal, Job, CallStep
  <1>4. /\ Reversals(job[c].key)' # {}
        /\ job[c].line \in Effects(job[c].key)'
    BY <1>0, <1>1, <1>2, <1>3, Doing, AppendedEffect
  <1>5. JobSound(c)'
    BY <1>1, <1>2, <1>3, <1>4 DEF JobSound
  <1> QED
    BY <1>1, <1>2, <1>3, <1>5, WritingStep

LEMMA Recording ==
    ASSUME Inv, NEW c \in Caller, RecordEffect(c) \/ MarkReverted(c)
    PROVE  Inv'
  <1>0. job[c].step \in {"record", "mark"}
    BY DEF RecordEffect, MarkReverted, At
  <1>1. /\ job' \in [Caller -> Job \cup {NoJob}]
        /\ job'[c].step = "done"
        /\ \A d \in Caller \ {c} : job'[d] = job[d]
    BY <1>0, Doing, Finished DEF RecordEffect, MarkReverted, Outcome
  <1>2. CASE RecordEffect(c)
    <2> DEFINE r == [status |-> "APPLIED", line |-> job[c].line, backend |-> job[c].backend]
    <2>1. job[c].step = "record"
      BY <1>2 DEF RecordEffect, At
    <2>2. r \in Record /\ r.line \in Effects(job[c].key) /\ lines[r.line].backend = r.backend
      BY <2>1, Doing DEF Record, JobSound
    <2>3. record' = [record EXCEPT ![job[c].key] = r] /\ UNCHANGED <<lines, failures>>
      BY <1>2 DEF RecordEffect
    <2> HIDE DEF r
    <2> QED
      BY <1>0, <1>1, <2>2, <2>3, Doing, RecordingStep
  <1>3. CASE MarkReverted(c)
    <2> DEFINE r == [record[job[c].key] EXCEPT !.status = "REVERTED"]
    <2>1. job[c].step = "mark"
      BY <1>3 DEF MarkReverted, At
    <2>2. record[job[c].key] \in Record /\ record[job[c].key] # NoRecord
      BY <2>1, Doing DEF JobSound
    <2>3. /\ r \in Record /\ r.line = record[job[c].key].line
          /\ r.backend = record[job[c].key].backend
      BY <2>2 DEF Record
    <2>4. r.line \in Effects(job[c].key) /\ lines[r.line].backend = r.backend
      BY <1>0, <2>2, <2>3, Doing DEF Inv, RecordsNameEffects
    <2>5. record' = [record EXCEPT ![job[c].key] = r] /\ UNCHANGED <<lines, failures>>
      BY <1>3 DEF MarkReverted
    <2> HIDE DEF r
    <2> QED
      BY <1>0, <1>1, <2>3, <2>4, <2>5, Doing, RecordingStep
  <1> QED
    BY <1>2, <1>3

LEMMA InvInitially == Init => Inv
  BY DEF Init, Inv, TypeOK, RecordsNameEffects, JobSound, NoRecord, NoJob, Effects, Reversals

LEMMA InvPreserved == Inv /\ [Next]_vars => Inv'
  <1> SUFFICES ASSUME Inv, [Next]_vars PROVE Inv'
    OBVIOUS
  <1>1. CASE UNCHANGED vars
    BY <1>1, Stays
  <1>2. ASSUME NEW c \in Caller,
               \/ \E k \in Key, b \in Backend, auth \in Authorization : Execute(c, k, b, auth)
               \/ \E k \in Key, b \in Backend : Revert(c, k, b)
        PROVE  Inv'
    BY <1>2, Beginning
  <1>3. ASSUME NEW c \in Caller, Proceed(c)
        PROVE  Inv'
    BY <1>3, Reading, Effecting, Recording DEF Proceed
  <1>4. ASSUME NEW c \in Caller, Undoing(c)
        PROVE  Inv'
    BY <1>4, Reading, Reversing, Recording DEF Undoing
  <1>5. ASSUME NEW c \in Caller, Return(c) \/ Crash(c)
        PROVE  Inv'
    BY <1>5, Ending
  <1> QED
    BY <1>1, <1>2, <1>3, <1>4, <1>5 DEF Next

\* The invariant holds in every reachable state.
LEMMA InvHolds == Spec => []Inv
  BY InvInitially, InvPreserved, PTL DEF Spec

\* Records, calls and lines keep their types.
THEOREM TypeCorrect == Spec => []TypeOK
  <1>1. Inv => TypeOK
    BY DEF Inv
  <1> QED
    BY <1>1, InvHolds, PTL

\* What the durable record of a correction names really happened, under its
\* own key and in its own backend, and so did what every reversal names
\* (execute_action, revert_action), however callers race and fail.
THEOREM RecordsAreSound == Spec => []RecordsNameEffects
  <1>1. Inv => RecordsNameEffects
    BY DEF Inv
  <1> QED
    BY <1>1, InvHolds, PTL

\* The effects of a key grow only by a caller that stands before the effect.
LEMMA EffectsGrowByRacers ==
    ASSUME Inv, Next, NEW k \in Key, Racing(k) = {}
    PROVE  Effects(k)' = Effects(k)
  <1>1. CASE UNCHANGED lines
    BY <1>1, SameLines
  <1>2. ASSUME NEW c \in Caller, PerformEffect(c) \/ GithubAnswerLost(c)
        PROVE  Effects(k)' = Effects(k)
    <2>1. job[c].step = "effect" /\ job[c].key # k
      BY <1>2 DEF PerformEffect, GithubAnswerLost, At, Racing
    <2>2. /\ Written(c) \in Line /\ Written(c).key # k
          /\ lines' = Append(lines, Written(c))
      BY <1>2, <2>1, Doing DEF Written, Line, PerformEffect, GithubAnswerLost
    <2> QED
      BY <2>1, <2>2, Doing, AppendedEffect
  <1>3. ASSUME NEW c \in Caller, AppendReversal(c)
        PROVE  Effects(k)' = Effects(k)
    <2> DEFINE l == [kind |-> "REVERSAL", key |-> job[c].key,
                     backend |-> "sandbox_file", of |-> job[c].line]
    <2>1. job[c].step = "append"
      BY <1>3 DEF AppendReversal, At
    <2>2. l \in Line /\ lines' = Append(lines, l)
      BY <1>3, <2>1, Doing DEF Line, AppendReversal
    <2> QED
      BY <2>1, <2>2, Doing, AppendedEffect
  <1> QED
    BY <1>1, <1>2, <1>3
       DEF Next, Execute, Revert, Proceed, Undoing, Return, Crash, ReadForExecute,
           GithubRefuses, RecordEffect, ReadForRevert, MarkReverted

\* Records are written and marked, never deleted.
LEMMA RecordsStay ==
    ASSUME Inv, Next, NEW k \in Key, record[k] # NoRecord
    PROVE  record'[k] # NoRecord
  <1>1. ASSUME NEW c \in Caller, RecordEffect(c)
        PROVE  record'[k] # NoRecord
    BY <1>1 DEF Inv, TypeOK, RecordEffect, NoRecord
  <1>2. ASSUME NEW c \in Caller, MarkReverted(c)
        PROVE  record'[k] # NoRecord
    BY <1>2 DEF Inv, TypeOK, MarkReverted, Record, NoRecord
  <1> QED
    BY <1>1, <1>2
       DEF Next, Execute, Revert, Proceed, Undoing, Return, Crash, ReadForExecute,
           PerformEffect, GithubRefuses, GithubAnswerLost, ReadForRevert, AppendReversal

\* A caller that reads a record does not race.
LEMMA NobodyJoins ==
    ASSUME Inv, Next, NEW k \in Key, record[k] # NoRecord, Racing(k) = {}
    PROVE  Racing(k)' = {}
  <1> SUFFICES ASSUME NEW d \in Caller, job'[d].step \in {"effect", "record"},
                      job'[d].key = k
               PROVE  FALSE
    BY DEF Racing
  <1>0. ~(job[d].step \in {"effect", "record"} /\ job[d].key = k)
    BY DEF Racing
  <1>1. ASSUME NEW c \in Caller, ReadForExecute(c)
        PROVE  FALSE
    <2>1. job[c] \in Job
      BY <1>1, InCall DEF Inv, ReadForExecute, At
    <2>2. CASE record[job[c].key] # NoRecord
      <3>1. Finish(c, "REPLAYED") /\ job[c].step = "read"
        BY <1>1, <2>2 DEF ReadForExecute, At
      <3>2. job'[c].step = "done" /\ \A e \in Caller \ {c} : job'[e] = job[e]
        BY <3>1, Finished DEF Inv, Outcome
      <3> QED
        BY <1>0, <3>2
    <2>3. CASE record[job[c].key] = NoRecord
      <3>1. job' = [job EXCEPT ![c].step = "effect"]
        BY <1>1, <2>3 DEF ReadForExecute
      <3>2. job'[c].key = job[c].key /\ \A e \in Caller \ {c} : job'[e] = job[e]
        BY <2>1, <3>1 DEF Inv, TypeOK, Job
      <3> QED
        BY <1>0, <2>3, <3>2
    <2> QED
      BY <2>2, <2>3
  <1>2. ASSUME NEW c \in Caller, NEW o \in Outcome, job[c].step # "idle", Finish(c, o)
        PROVE  FALSE
    <2>1. job'[c].step = "done" /\ \A e \in Caller \ {c} : job'[e] = job[e]
      BY <1>2, Finished DEF Inv
    <2> QED
      BY <1>0, <2>1
  <1>3. ASSUME NEW c \in Caller, PerformEffect(c)
        PROVE  FALSE
    <2>1. job[c].step = "effect" /\ job[c] \in Job
      BY <1>3, InCall DEF Inv, PerformEffect, At
    <2>2. job'[c].key = job[c].key /\ \A e \in Caller \ {c} : job'[e] = job[e]
      BY <1>3, <2>1 DEF Inv, TypeOK, PerformEffect, Job
    <2> QED
      BY <1>0, <2>1, <2>2
  <1>4. ASSUME NEW c \in Caller, ReadForRevert(c), ~Finish(c, "REFUSED"),
               ~Finish(c, "REPLAYED")
        PROVE  FALSE
    <2>1. job[c] \in Job
      BY <1>4, InCall DEF Inv, ReadForRevert, At
    <2>2. job' = [job EXCEPT ![c].step = "append", ![c].line = record[job[c].key].line]
      BY <1>4 DEF ReadForRevert
    <2>3. job'[c].step = "append" /\ \A e \in Caller \ {c} : job'[e] = job[e]
      BY <2>1, <2>2 DEF Inv, TypeOK, Job
    <2> QED
      BY <1>0, <2>3
  <1>5. ASSUME NEW c \in Caller, AppendReversal(c)
        PROVE  FALSE
    <2>1. job[c] \in Job
      BY <1>5, InCall DEF Inv, AppendReversal, At
    <2>2. job'[c].step = "mark" /\ \A e \in Caller \ {c} : job'[e] = job[e]
      BY <1>5, <2>1 DEF Inv, TypeOK, AppendReversal, Job
    <2> QED
      BY <1>0, <2>2
  <1>6. ASSUME NEW c \in Caller, Return(c) \/ Crash(c)
        PROVE  FALSE
    BY <1>0, <1>6 DEF Inv, TypeOK, Return, Crash, NoJob
  <1>7. ASSUME NEW c \in Caller,
               \/ \E k2 \in Key, b \in Backend, auth \in Authorization : Execute(c, k2, b, auth)
               \/ \E k2 \in Key, b \in Backend : Revert(c, k2, b)
        PROVE  FALSE
    BY <1>0, <1>7 DEF Inv, TypeOK, Execute, Revert
  <1>8. ASSUME NEW c \in Caller, Proceed(c) \/ Undoing(c)
        PROVE  FALSE
    BY <1>1, <1>2, <1>3, <1>4, <1>5, <1>8
       DEF Proceed, Undoing, GithubRefuses, GithubAnswerLost, RecordEffect,
           ReadForRevert, MarkReverted, At, Outcome
  <1> QED
    BY <1>6, <1>7, <1>8 DEF Next

\* A settled correction stays settled and never takes effect again
\* (execute_action reads the record before it acts).
THEOREM Settled == Spec => SettledOnce
  <1>1. ASSUME Inv, [Next]_vars
        PROVE  [\A k \in Key : IsSettled(k) => IsSettled(k)' /\ Effects(k)' = Effects(k)]_vars
    <2>1. ASSUME Next, NEW k \in Key, IsSettled(k)
          PROVE  IsSettled(k)' /\ Effects(k)' = Effects(k)
      BY <1>1, <2>1, EffectsGrowByRacers, RecordsStay, NobodyJoins DEF IsSettled
    <2> QED
      BY <1>1, <2>1
  <1> QED
    BY <1>1, InvHolds, PTL DEF Spec, SettledOnce

-----------------------------------------------------------------------------
(* The refinement.                                                         *)

LEMMA OutsideWithin ==
    ASSUME NEW c \in Caller, \A d \in Caller \ {c} : job'[d] = job[d], NEW s, NEW k,
           job[c].step # s, job'[c].step # s
    PROVE  Within(k, s)' = Within(k, s)
  BY DEF Within, At

LEMMA EntersWithin ==
    ASSUME NEW c \in Caller, \A d \in Caller \ {c} : job'[d] = job[d], NEW s, NEW k,
           job[c].step # s, job'[c].step = s
    PROVE  /\ job'[c].key = k => Within(k, s)' = Within(k, s) \cup {c}
           /\ job'[c].key # k => Within(k, s)' = Within(k, s)
  BY DEF Within, At

LEMMA LeavesWithin ==
    ASSUME NEW c \in Caller, \A d \in Caller \ {c} : job'[d] = job[d], NEW s, NEW k,
           job[c].step = s, job'[c].step # s
    PROVE  /\ job[c].key = k => c \in Within(k, s) /\ Within(k, s)' = Within(k, s) \ {c}
           /\ job[c].key # k => Within(k, s)' = Within(k, s)
  BY DEF Within, At

LEMMA SameState ==
    ASSUME UNCHANGED record, NEW k
    PROVE  StateOf(k)' = StateOf(k)
  BY DEF StateOf

Mapped == <<[k \in Key |-> StateOf(k)], [k \in Key |-> Effects(k)],
            [k \in Key |-> Reversals(k)], [k \in Key |-> Within(k, "effect")],
            [k \in Key |-> Within(k, "append")]>>

\* A step between steps that are neither an effect nor a reversal pending.
LEMMA Stutters ==
    ASSUME NEW c \in Caller, UNCHANGED <<lines, record>>,
           \A d \in Caller \ {c} : job'[d] = job[d],
           job[c].step \notin {"effect", "append"},
           job'[c].step \notin {"effect", "append"}
    PROVE  UNCHANGED Mapped
  BY SameLines, SameState, OutsideWithin DEF Mapped

LEMMA MappedInitially == Init => Retried!Init
  BY DEF Init, Retried!Init, StateOf, Effects, Reversals, Within, At, NoRecord, NoJob

LEMMA BeginningMaps ==
    ASSUME Inv, NEW c \in Caller, NEW k \in Key, NEW b \in Backend,
           \/ Revert(c, k, b)
           \/ \E auth \in Authorization : Execute(c, k, b, auth)
    PROVE  UNCHANGED Mapped
  <1>1. /\ job[c].step = "idle" /\ job'[c].step \in {"read", "reread", "done"}
        /\ \A d \in Caller \ {c} : job'[d] = job[d]
        /\ UNCHANGED <<lines, record>>
    BY DEF Inv, TypeOK, Revert, Execute, At
  <1> QED
    BY <1>1, Stutters

\* Where a caller that leaves `step` has gone.
LEMMA Finishing ==
    ASSUME Inv, NEW c \in Caller, NEW o \in Outcome, job[c].step # "idle", Finish(c, o)
    PROVE  /\ job'[c].step = "done"
           /\ \A d \in Caller \ {c} : job'[d] = job[d]
  BY Doing, Finished

LEMMA AdmitMaps ==
    ASSUME Inv, NEW c \in Caller, ReadForExecute(c)
    PROVE  UNCHANGED Mapped \/ Retried!Admit(job[c].key, c)
  <1>0. job[c].step = "read" /\ UNCHANGED <<lines, record>>
    BY DEF ReadForExecute, At
  <1>1. CASE record[job[c].key] # NoRecord
    <2>1. Finish(c, "REPLAYED")
      BY <1>1 DEF ReadForExecute
    <2> QED
      BY <1>0, <2>1, Finishing, Stutters DEF Outcome
  <1>2. CASE record[job[c].key] = NoRecord
    <2> DEFINE kc == job[c].key
    <2>1. /\ job'[c].step = "effect" /\ job'[c].key = kc
          /\ \A d \in Caller \ {c} : job'[d] = job[d]
      BY <1>0, <1>2, Doing DEF ReadForExecute, Job
    <2>2. kc \in Key /\ StateOf(kc) = "new"
      BY <1>0, <1>2, Doing DEF StateOf, NoRecord
    <2>3. \A k : /\ Within(k, "append")' = Within(k, "append")
                 /\ k # kc => Within(k, "effect")' = Within(k, "effect")
                 /\ k = kc => Within(k, "effect")' = Within(k, "effect") \cup {c}
      BY <1>0, <2>1, OutsideWithin, EntersWithin
    <2>4. \A k : /\ StateOf(k)' = StateOf(k)
                 /\ Effects(k)' = Effects(k) /\ Reversals(k)' = Reversals(k)
      BY <1>0, SameLines, SameState
    <2> QED
      BY <2>2, <2>3, <2>4 DEF Retried!Admit
  <1> QED
    BY <1>1, <1>2

LEMMA AdmitUndoMaps ==
    ASSUME Inv, NEW c \in Caller, ReadForRevert(c)
    PROVE  UNCHANGED Mapped \/ Retried!AdmitUndo(job[c].key, c)
  <1>0. job[c].step = "reread" /\ UNCHANGED <<lines, record>>
    BY DEF ReadForRevert, At
  <1>1. CASE record[job[c].key] = NoRecord \/ record[job[c].key].status = "REVERTED"
    <2>1. Finish(c, "REFUSED") \/ Finish(c, "REPLAYED")
      BY <1>1 DEF ReadForRevert
    <2> QED
      BY <1>0, <2>1, Finishing, Stutters DEF Outcome
  <1>2. CASE record[job[c].key] # NoRecord /\ record[job[c].key].status # "REVERTED"
    <2> DEFINE kc == job[c].key
    <2>1. /\ job'[c].step = "append" /\ job'[c].key = kc
          /\ \A d \in Caller \ {c} : job'[d] = job[d]
      BY <1>0, <1>2, Doing DEF ReadForRevert, Job
    <2>2. kc \in Key /\ StateOf(kc) = "applied"
      BY <1>0, <1>2, Doing DEF StateOf, Record
    <2>3. \A k : /\ Within(k, "effect")' = Within(k, "effect")
                 /\ k # kc => Within(k, "append")' = Within(k, "append")
                 /\ k = kc => Within(k, "append")' = Within(k, "append") \cup {c}
      BY <1>0, <2>1, OutsideWithin, EntersWithin
    <2>4. \A k : /\ StateOf(k)' = StateOf(k)
                 /\ Effects(k)' = Effects(k) /\ Reversals(k)' = Reversals(k)
      BY <1>0, SameLines, SameState
    <2> QED
      BY <2>2, <2>3, <2>4 DEF Retried!AdmitUndo
  <1> QED
    BY <1>1, <1>2

LEMMA ApplyMaps ==
    ASSUME Inv, NEW c \in Caller, PerformEffect(c) \/ GithubAnswerLost(c)
    PROVE  Retried!Apply(job[c].key, c)
  <1> DEFINE kc == job[c].key
             e == Len(lines) + 1
  <1>0. job[c].step = "effect" /\ kc \in Key
    BY Doing DEF PerformEffect, GithubAnswerLost, At
  <1>1. /\ job'[c].step \in {"record", "done"}
        /\ \A d \in Caller \ {c} : job'[d] = job[d]
    <2>1. CASE PerformEffect(c)
      BY <1>0, <2>1, Doing DEF PerformEffect, Job
    <2>2. CASE GithubAnswerLost(c)
      BY <1>0, <2>2, Finishing DEF GithubAnswerLost, Outcome
    <2> QED
      BY <2>1, <2>2
  <1>2. \A k : /\ Within(k, "append")' = Within(k, "append")
               /\ k # kc => Within(k, "effect")' = Within(k, "effect")
               /\ k = kc => /\ c \in Within(k, "effect")
                           /\ Within(k, "effect")' = Within(k, "effect") \ {c}
    BY <1>0, <1>1, OutsideWithin, LeavesWithin
  <1>3. /\ Written(c) \in Line /\ Written(c).kind = "APPLY" /\ Written(c).key = kc
        /\ lines' = Append(lines, Written(c)) /\ UNCHANGED record
    BY <1>0, Doing DEF Written, Line, PerformEffect, GithubAnswerLost
  <1>4. \A k : /\ StateOf(k)' = StateOf(k)
               /\ Reversals(k)' = Reversals(k)
               /\ k # kc => Effects(k)' = Effects(k)
               /\ k = kc => Effects(k)' = Effects(k) \cup {e}
               /\ e \notin Effects(k)
    BY <1>0, <1>3, Doing, AppendedEffect, SameState
  <1> HIDE DEF kc, e
  <1>5. /\ [k \in Key |-> Effects(k)]' = [[k \in Key |-> Effects(k)] EXCEPT ![kc] = @ \cup {e}]
        /\ e \in [k \in Key |-> Effects(k)]'[kc] \ [k \in Key |-> Effects(k)][kc]
    BY <1>0, <1>4
  <1>6. Retried!Leave(kc, c)
    BY <1>0, <1>2 DEF Retried!Leave
  <1>7. Retried!Apply(kc, c)
    BY <1>2, <1>4, <1>5, <1>6 DEF Retried!Apply
  <1> QED
    BY <1>7 DEF kc

LEMMA UndoMaps ==
    ASSUME Inv, NEW c \in Caller, AppendReversal(c)
    PROVE  Retried!Undo(job[c].key, c)
  <1> DEFINE kc == job[c].key
             e == Len(lines) + 1
             l == [kind |-> "REVERSAL", key |-> job[c].key,
                   backend |-> "sandbox_file", of |-> job[c].line]
  <1>0. job[c].step = "append" /\ kc \in Key /\ Effects(kc) # {}
    BY Doing DEF AppendReversal, At, JobSound
  <1>1. /\ job'[c].step = "mark"
        /\ \A d \in Caller \ {c} : job'[d] = job[d]
    BY <1>0, Doing DEF AppendReversal, Job
  <1>2. \A k : /\ Within(k, "effect")' = Within(k, "effect")
               /\ k # kc => Within(k, "append")' = Within(k, "append")
               /\ k = kc => /\ c \in Within(k, "append")
                           /\ Within(k, "append")' = Within(k, "append") \ {c}
    BY <1>0, <1>1, OutsideWithin, LeavesWithin
  <1>3. l \in Line /\ lines' = Append(lines, l) /\ UNCHANGED record
    BY <1>0, Doing DEF Line, AppendReversal
  <1>4. \A k : /\ StateOf(k)' = StateOf(k)
               /\ Effects(k)' = Effects(k)
               /\ k # kc => Reversals(k)' = Reversals(k)
               /\ k = kc => Reversals(k)' = Reversals(k) \cup {e}
               /\ e \notin Reversals(k)
    BY <1>0, <1>3, Doing, AppendedEffect, SameState
  <1> HIDE DEF kc, e
  <1>5. /\ [k \in Key |-> Reversals(k)]'
              = [[k \in Key |-> Reversals(k)] EXCEPT ![kc] = @ \cup {e}]
        /\ e \in [k \in Key |-> Reversals(k)]'[kc] \ [k \in Key |-> Reversals(k)][kc]
    BY <1>0, <1>4
  <1>6. Retried!LeaveUndo(kc, c)
    BY <1>0, <1>2 DEF Retried!LeaveUndo
  <1>7. Retried!Undo(kc, c)
    BY <1>0, <1>2, <1>4, <1>5, <1>6 DEF Retried!Undo
  <1> QED
    BY <1>7 DEF kc

LEMMA StateMaps ==
    ASSUME Inv, NEW c \in Caller, RecordEffect(c) \/ MarkReverted(c)
    PROVE  Retried!Settle(job[c].key) \/ Retried!Close(job[c].key)
  <1> DEFINE kc == job[c].key
  <1>0. job[c].step \in {"record", "mark"} /\ kc \in Key /\ UNCHANGED lines
    BY Doing DEF RecordEffect, MarkReverted, At
  <1>1. /\ job'[c].step = "done"
        /\ \A d \in Caller \ {c} : job'[d] = job[d]
    BY <1>0, Finishing DEF RecordEffect, MarkReverted, Outcome
  <1>2. \A k : /\ Within(k, "effect")' = Within(k, "effect")
               /\ Within(k, "append")' = Within(k, "append")
               /\ Effects(k)' = Effects(k) /\ Reversals(k)' = Reversals(k)
    BY <1>0, <1>1, OutsideWithin, SameLines
  <1>3. CASE RecordEffect(c)
    <2>1. Effects(kc) # {}
      BY <1>3, Doing DEF RecordEffect, At, JobSound
    <2>2. \A k \in Key : StateOf(k)' = IF k = kc THEN "applied" ELSE StateOf(k)
      BY <1>0, <1>1, <1>3, Doing DEF RecordEffect, StateOf, NoRecord, Job
    <2> QED
      BY <1>0, <1>2, <2>1, <2>2 DEF Retried!Settle
  <1>4. CASE MarkReverted(c)
    <2>1. Reversals(kc) # {} /\ record[kc] \in Record
      BY <1>4, Doing DEF MarkReverted, At, JobSound
    <2>2. \A k \in Key : StateOf(k)' = IF k = kc THEN "reverted" ELSE StateOf(k)
      BY <1>0, <1>1, <1>4, <2>1, Doing DEF MarkReverted, StateOf, NoRecord, Record, Job
    <2> QED
      BY <1>0, <1>2, <2>1, <2>2 DEF Retried!Close
  <1> QED
    BY <1>3, <1>4

LEMMA LeavingMaps ==
    ASSUME Inv, NEW c \in Caller, Return(c) \/ Crash(c) \/ GithubRefuses(c)
    PROVE  UNCHANGED Mapped \/ Retried!GiveUp(job[c].key, c) \/ Retried!GiveUpUndo(job[c].key, c)
  <1> DEFINE kc == job[c].key
  <1>0. UNCHANGED <<lines, record>> /\ job[c].step # "idle"
    BY DEF Return, Crash, GithubRefuses, At
  <1>1. /\ job'[c].step \in {"idle", "done"}
        /\ \A d \in Caller \ {c} : job'[d] = job[d]
    <2>1. CASE Return(c) \/ Crash(c)
      BY <2>1 DEF Return, Crash, Inv, TypeOK, NoJob
    <2>2. CASE GithubRefuses(c)
      BY <1>0, <2>2, Finishing DEF GithubRefuses, Outcome
    <2> QED
      BY <2>1, <2>2
  <1>2. kc \in Key
    BY <1>0, Doing
  <1>3. \A k : /\ StateOf(k)' = StateOf(k)
               /\ Effects(k)' = Effects(k) /\ Reversals(k)' = Reversals(k)
    BY <1>0, SameLines, SameState
  <1>4. CASE job[c].step \notin {"effect", "append"}
    BY <1>0, <1>1, <1>4, Stutters
  <1>5. CASE job[c].step = "effect"
    <2>1. \A k : /\ Within(k, "append")' = Within(k, "append")
                 /\ k # kc => Within(k, "effect")' = Within(k, "effect")
                 /\ k = kc => /\ c \in Within(k, "effect")
                             /\ Within(k, "effect")' = Within(k, "effect") \ {c}
      BY <1>1, <1>5, OutsideWithin, LeavesWithin
    <2> QED
      BY <1>2, <1>3, <2>1 DEF Retried!GiveUp, Retried!Leave
  <1>6. CASE job[c].step = "append"
    <2>1. \A k : /\ Within(k, "effect")' = Within(k, "effect")
                 /\ k # kc => Within(k, "append")' = Within(k, "append")
                 /\ k = kc => /\ c \in Within(k, "append")
                             /\ Within(k, "append")' = Within(k, "append") \ {c}
      BY <1>1, <1>6, OutsideWithin, LeavesWithin
    <2> QED
      BY <1>2, <1>3, <2>1 DEF Retried!GiveUpUndo, Retried!LeaveUndo
  <1> QED
    BY <1>4, <1>5, <1>6

MappedStep == Retried!Next \/ UNCHANGED Mapped

LEMMA NextMaps == Inv /\ [Next]_vars => MappedStep
  <1> SUFFICES ASSUME Inv, [Next]_vars PROVE MappedStep
    OBVIOUS
  <1>1. CASE UNCHANGED vars
    <2>1. \A k : /\ StateOf(k)' = StateOf(k)
                 /\ Effects(k)' = Effects(k) /\ Reversals(k)' = Reversals(k)
      BY <1>1, SameLines, SameState DEF vars
    <2>2. \A k, s : Within(k, s)' = Within(k, s)
      BY <1>1 DEF Within, At, vars
    <2> QED
      BY <2>1, <2>2 DEF MappedStep, Mapped
  <1>2. ASSUME NEW c \in Caller,
               \/ \E k \in Key, b \in Backend, auth \in Authorization : Execute(c, k, b, auth)
               \/ \E k \in Key, b \in Backend : Revert(c, k, b)
        PROVE  MappedStep
    BY <1>2, BeginningMaps DEF MappedStep
  <1>3. ASSUME NEW c \in Caller, Proceed(c) \/ Undoing(c) \/ Return(c) \/ Crash(c)
        PROVE  MappedStep
    <2>1. job[c].key \in Key
      <3>1. job[c].step # "idle"
        BY <1>3 DEF Proceed, Undoing, Return, Crash, At, ReadForExecute, PerformEffect,
              GithubRefuses, GithubAnswerLost, RecordEffect, ReadForRevert,
              AppendReversal, MarkReverted
      <3> QED
        BY <3>1, Doing
    <2>2. CASE Proceed(c)
      BY <2>1, <2>2, AdmitMaps, ApplyMaps, LeavingMaps, StateMaps
         DEF Proceed, MappedStep, Retried!Next
    <2>3. CASE Undoing(c)
      BY <2>1, <2>3, AdmitUndoMaps, UndoMaps, StateMaps DEF Undoing, MappedStep, Retried!Next
    <2>4. CASE Return(c) \/ Crash(c)
      BY <2>1, <2>4, LeavingMaps DEF MappedStep, Retried!Next
    <2> QED
      BY <1>3, <2>2, <2>3, <2>4
  <1> QED
    BY <1>1, <1>2, <1>3 DEF Next

\* For any number of callers, keys, crashes and lost answers, the boundary
\* implements RetriedEffect: what happens outside is done by attempts that were
\* admitted while the correction was new, or undone while it was in force.
THEOREM Implements == Spec => ImplementsRetried
  <1>1. Inv /\ [Next]_vars
           => [Retried!Next]_<<[k \in Key |-> StateOf(k)], [k \in Key |-> Effects(k)],
                               [k \in Key |-> Reversals(k)],
                               [k \in Key |-> Within(k, "effect")],
                               [k \in Key |-> Within(k, "append")]>>
    BY NextMaps DEF MappedStep, Mapped
  <1> QED
    BY <1>1, InvHolds, MappedInitially, PTL DEF Spec, ImplementsRetried, Retried!Spec

-----------------------------------------------------------------------------
(* What a key can cost.                                                    *)

\* While there is no record, an effect stands beside a caller about to record
\* it or was lost to a failure.  From the first record on nobody new reads
\* "no record", so the callers already before their effect are all that is
\* left to pay for.
Owed(k) ==
    /\ record[k] = NoRecord
          => Cardinality(Effects(k)) <= Cardinality(Within(k, "record")) + failures
    /\ record[k] # NoRecord
          => Cardinality(Effects(k)) + Cardinality(Within(k, "effect"))
                <= Cardinality(Caller) + failures

LEMMA EffectsCounted ==
    ASSUME lines \in Seq(Line), NEW k
    PROVE  IsFiniteSet(Effects(k)) /\ Cardinality(Effects(k)) \in Nat
  <1>1. IsFiniteSet(1 .. Len(lines)) /\ Effects(k) \subseteq 1 .. Len(lines)
    BY FS_Interval DEF Effects
  <1> QED
    BY <1>1, FS_Subset, FS_CardinalityType

LEMMA WithinCounted ==
    ASSUME NEW k
    PROVE  /\ Cardinality(Caller) \in Nat
           /\ \A s : IsFiniteSet(Within(k, s)) /\ Cardinality(Within(k, s)) \in Nat
           /\ Cardinality(Within(k, "effect")) + Cardinality(Within(k, "record"))
                 <= Cardinality(Caller)
  <1>1. IsFiniteSet(Caller) /\ Cardinality(Caller) \in Nat
    BY ExternalAssumption, FS_CardinalityType
  <1>2. ASSUME NEW s
        PROVE  IsFiniteSet(Within(k, s)) /\ Cardinality(Within(k, s)) \in Nat
    <2>1. Within(k, s) \subseteq Caller
      BY DEF Within
    <2> QED
      BY <1>1, <2>1, FS_Subset, FS_CardinalityType
  <1> DEFINE A == Within(k, "effect")
             R == Within(k, "record")
  <1>3. A \cap R = {} /\ A \cup R \subseteq Caller
    BY DEF Within, At
  <1>4. IsFiniteSet(A) /\ IsFiniteSet(R)
    BY <1>2
  <1> HIDE DEF A, R
  <1>5. Cardinality(A \cup R) = Cardinality(A) + Cardinality(R) - Cardinality(A \cap R)
    BY <1>4, FS_Union
  <1>6. Cardinality(A \cap R) = 0
    BY <1>3, FS_EmptySet
  <1>7. Cardinality(A \cup R) <= Cardinality(Caller)
    BY <1>1, <1>3, FS_Subset
  <1>8. Cardinality(A) \in Nat /\ Cardinality(R) \in Nat
    BY <1>4, FS_CardinalityType
  <1>9. Cardinality(A) + Cardinality(R) <= Cardinality(Caller)
    BY <1>5, <1>6, <1>7, <1>8
  <1> QED
    BY <1>1, <1>2, <1>9 DEF A, R

LEMMA WithinCountedNext ==
    ASSUME NEW k, NEW s
    PROVE  Cardinality(Within(k, s)') \in Nat
  <1>1. Within(k, s)' \subseteq Caller
    BY DEF Within
  <1>2. IsFiniteSet(Within(k, s)')
    BY <1>1, ExternalAssumption, FS_Subset
  <1> QED
    BY <1>2, FS_CardinalityType

\* One caller moves: it leaves the count of its step or joins another.
LEMMA WithinMoves ==
    ASSUME NEW c \in Caller, \A d \in Caller \ {c} : job'[d] = job[d], NEW s, NEW k
    PROVE  Cardinality(Within(k, s)') + (IF c \in Within(k, s) THEN 1 ELSE 0)
              = Cardinality(Within(k, s)) + (IF c \in Within(k, s)' THEN 1 ELSE 0)
  <1> DEFINE W == Within(k, s)
             V == Within(k, s)'
  <1>1. W \subseteq Caller /\ V \subseteq Caller /\ W \ {c} = V \ {c}
    BY DEF Within, At
  <1> HIDE DEF W, V
  <1>2. IsFiniteSet(W) /\ IsFiniteSet(V)
    BY <1>1, ExternalAssumption, FS_Subset
  <1>3. Cardinality(W \ {c}) = IF c \in W THEN Cardinality(W) - 1 ELSE Cardinality(W)
    BY <1>2, FS_RemoveElement
  <1>4. Cardinality(V \ {c}) = IF c \in V THEN Cardinality(V) - 1 ELSE Cardinality(V)
    BY <1>2, FS_RemoveElement
  <1>5. Cardinality(W) \in Nat /\ Cardinality(V) \in Nat
    BY <1>2, FS_CardinalityType
  <1>6. Cardinality(W \ {c}) = Cardinality(V \ {c})
    BY <1>1
  <1> DEFINE w == Cardinality(W)
             v == Cardinality(V)
             m == Cardinality(W \ {c})
  <1>7. /\ w \in Nat /\ v \in Nat
        /\ c \in W => m = w - 1
        /\ c \notin W => m = w
        /\ c \in V => m = v - 1
        /\ c \notin V => m = v
    BY <1>3, <1>4, <1>5, <1>6
  <1> HIDE DEF w, v, m
  <1>8. v + (IF c \in W THEN 1 ELSE 0) = w + (IF c \in V THEN 1 ELSE 0)
    BY <1>7
  <1> QED
    <2>1. /\ v = Cardinality(Within(k, s)') /\ w = Cardinality(Within(k, s))
          /\ W = Within(k, s) /\ V = Within(k, s)'
      BY DEF w, v, W, V
    <2> QED
      BY <1>8, <2>1

\* A step of c that performs no effect, and writes no record where none was.
LEMMA OwedWithoutEffect ==
    ASSUME Inv, NEW c \in Caller, NEW k \in Key, Owed(k),
           \A d \in Caller \ {c} : job'[d] = job[d],
           Effects(k)' = Effects(k),
           record'[k] = NoRecord <=> record[k] = NoRecord,
           c \in Within(k, "effect")' => c \in Within(k, "effect") \/ record[k] = NoRecord,
           \/ failures' = failures /\ (c \in Within(k, "record") => record[k] # NoRecord)
           \/ failures' = failures + 1
    PROVE  Owed(k)'
  <1>1. failures \in Nat /\ lines \in Seq(Line)
    BY DEF Inv, TypeOK
  <1>2. Cardinality(Effects(k)) \in Nat
    BY <1>1, EffectsCounted
  <1>3. /\ Cardinality(Within(k, "effect")) \in Nat
        /\ Cardinality(Within(k, "record")) \in Nat
        /\ Cardinality(Caller) \in Nat
    BY WithinCounted
  <1>4. /\ Cardinality(Within(k, "effect")') + (IF c \in Within(k, "effect") THEN 1 ELSE 0)
              = Cardinality(Within(k, "effect")) + (IF c \in Within(k, "effect")' THEN 1 ELSE 0)
        /\ Cardinality(Within(k, "record")') + (IF c \in Within(k, "record") THEN 1 ELSE 0)
              = Cardinality(Within(k, "record")) + (IF c \in Within(k, "record")' THEN 1 ELSE 0)
    BY WithinMoves
  <1>5. Cardinality(Within(k, "effect")') \in Int /\ Cardinality(Within(k, "record")') \in Int
    BY WithinCountedNext
  <1>6. record[k] # NoRecord
           => Cardinality(Within(k, "effect")') <= Cardinality(Within(k, "effect"))
    BY <1>3, <1>4, <1>5
  <1>7. record[k] = NoRecord
           => Cardinality(Within(k, "record")) + failures
                 <= Cardinality(Within(k, "record")') + failures'
    BY <1>1, <1>3, <1>4, <1>5
  <1>8. failures' \in Nat /\ failures <= failures'
    BY <1>1
  <1> QED
    BY <1>1, <1>2, <1>3, <1>5, <1>6, <1>7, <1>8 DEF Owed

\* PerformEffect moves an effect out of the callers before it; a lost answer
\* is a failure.
LEMMA OwedByEffect ==
    ASSUME Inv, NEW c \in Caller, NEW k \in Key, Owed(k),
           PerformEffect(c) \/ GithubAnswerLost(c)
    PROVE  Owed(k)'
  <1>1. job[c].step = "effect" /\ job[c].key \in Key
    BY Doing DEF PerformEffect, GithubAnswerLost, At
  <1>2. /\ Written(c) \in Line /\ Written(c).kind = "APPLY" /\ Written(c).key = job[c].key
        /\ lines' = Append(lines, Written(c)) /\ UNCHANGED record
        /\ lines \in Seq(Line) /\ failures \in Nat
    BY <1>1, Doing DEF Written, Line, PerformEffect, GithubAnswerLost
  <1>3. \/ job'[c].step = "record" /\ job'[c].key = job[c].key /\ failures' = failures
        \/ job'[c].step = "done" /\ failures' = failures + 1
    <2>1. CASE PerformEffect(c)
      BY <1>1, <2>1, Doing DEF PerformEffect, Job
    <2>2. CASE GithubAnswerLost(c)
      BY <1>1, <2>2, Finishing DEF GithubAnswerLost, Outcome
    <2> QED
      BY <2>1, <2>2
  <1>4. \A d \in Caller \ {c} : job'[d] = job[d]
    BY <1>1, Doing DEF PerformEffect, GithubAnswerLost, Finish
  <1>5. CASE job[c].key # k
    <2>1. Effects(k)' = Effects(k)
      BY <1>2, <1>5, AppendedEffect
    <2>2. Within(k, "effect")' = Within(k, "effect") /\ Within(k, "record")' = Within(k, "record")
      BY <1>1, <1>3, <1>4, <1>5 DEF Within, At
    <2>3. /\ Cardinality(Effects(k)) \in Nat
          /\ Cardinality(Within(k, "effect")) \in Nat
          /\ Cardinality(Within(k, "record")) \in Nat
          /\ Cardinality(Caller) \in Nat
      BY <1>2, EffectsCounted, WithinCounted
    <2> QED
      BY <1>2, <1>3, <2>1, <2>2, <2>3 DEF Owed
  <1>6. CASE job[c].key = k
    <2>1. Cardinality(Effects(k)') = Cardinality(Effects(k)) + 1
      <3>1. /\ Effects(k)' = Effects(k) \cup {Len(lines) + 1}
            /\ Len(lines) + 1 \notin Effects(k)
        BY <1>2, <1>6, AppendedEffect
      <3> QED
        BY <3>1, <1>2, EffectsCounted, FS_AddElement
    <2>2. /\ c \in Within(k, "effect") /\ c \notin Within(k, "effect")'
          /\ c \notin Within(k, "record")
          /\ c \in Within(k, "record")' <=> job'[c].step = "record"
      BY <1>1, <1>3, <1>6 DEF Within, At
    <2>3. /\ Cardinality(Within(k, "effect")') + 1 = Cardinality(Within(k, "effect"))
          /\ Cardinality(Within(k, "record")')
                = Cardinality(Within(k, "record")) + (IF job'[c].step = "record" THEN 1 ELSE 0)
      BY <1>4, <2>2, WithinMoves, WithinCounted, WithinCountedNext
    <2>4. /\ Cardinality(Effects(k)) \in Nat
          /\ Cardinality(Within(k, "effect")) \in Nat
          /\ Cardinality(Within(k, "record")) \in Nat
          /\ Cardinality(Within(k, "effect")') \in Nat
          /\ Cardinality(Caller) \in Nat
      BY <1>2, EffectsCounted, WithinCounted, WithinCountedNext
    <2> QED
      BY <1>2, <1>3, <2>1, <2>3, <2>4, SMTT(30) DEF Owed
  <1> QED
    BY <1>5, <1>6

\* The first record closes the count: who has not read it is before its effect
\* or beside one already there.
LEMMA OwedByRecord ==
    ASSUME Inv, NEW c \in Caller, NEW k \in Key, Owed(k), RecordEffect(c)
    PROVE  Owed(k)'
  <1>1. job[c].step = "record" /\ job[c].key \in Key
    BY Doing DEF RecordEffect, At
  <1>2. /\ job'[c].step = "done"
        /\ \A d \in Caller \ {c} : job'[d] = job[d]
        /\ UNCHANGED <<lines, failures>>
    BY <1>1, Finishing DEF RecordEffect, Outcome
  <1>3. Effects(k)' = Effects(k)
    BY <1>2, SameLines
  <1>4. Within(k, "effect")' = Within(k, "effect")
    BY <1>1, <1>2 DEF Within, At
  <1>5. job[c].key = k => record'[k] # NoRecord
    BY <1>1, Doing DEF RecordEffect, NoRecord
  <1>6. job[c].key # k => /\ record'[k] = record[k]
                          /\ Within(k, "record")' = Within(k, "record")
    BY <1>1, <1>2, Doing DEF RecordEffect, Within, At
  <1>7. /\ Cardinality(Effects(k)) \in Nat /\ failures \in Nat
        /\ Cardinality(Within(k, "effect")) \in Nat
        /\ Cardinality(Within(k, "record")) \in Nat
        /\ Cardinality(Caller) \in Nat
        /\ Cardinality(Within(k, "effect")) + Cardinality(Within(k, "record"))
              <= Cardinality(Caller)
    BY <1>1, Doing, EffectsCounted, WithinCounted
  <1> QED
    BY <1>2, <1>3, <1>4, <1>5, <1>6, <1>7 DEF Owed

LEMMA OwedStep ==
    ASSUME Inv, [Next]_vars, NEW k \in Key, Owed(k)
    PROVE  Owed(k)'
  <1>1. CASE UNCHANGED vars
    BY <1>1 DEF vars, Owed, Effects, Within, At
  <1>2. ASSUME NEW c \in Caller, NEW j \in Key, NEW b \in Backend,
               \/ Revert(c, j, b)
               \/ \E auth \in Authorization : Execute(c, j, b, auth)
        PROVE  Owed(k)'
    <2>1. /\ job[c].step = "idle" /\ job'[c].step \in {"read", "reread", "done"}
          /\ \A d \in Caller \ {c} : job'[d] = job[d]
          /\ UNCHANGED <<lines, record, failures>>
      BY <1>2 DEF Inv, TypeOK, Revert, Execute, At
    <2>2. /\ c \notin Within(k, "effect")' /\ c \notin Within(k, "record")
          /\ Effects(k)' = Effects(k)
      BY <2>1, SameLines DEF Within, At
    <2> QED
      BY <2>1, <2>2, OwedWithoutEffect
  <1>3. ASSUME NEW c \in Caller, Return(c) \/ Crash(c)
        PROVE  Owed(k)'
    <2>1. /\ job'[c] = NoJob
          /\ \A d \in Caller \ {c} : job'[d] = job[d]
          /\ UNCHANGED <<lines, record>>
          /\ \/ failures' = failures /\ job[c].step = "done"
             \/ failures' = failures + 1
      BY <1>3 DEF Inv, TypeOK, Return, Crash, At
    <2>2. /\ c \notin Within(k, "effect")' /\ Effects(k)' = Effects(k)
          /\ failures' = failures => c \notin Within(k, "record")
      BY <2>1, SameLines DEF Within, At, NoJob, Inv, TypeOK
    <2> QED
      BY <2>1, <2>2, OwedWithoutEffect
  <1>4. ASSUME NEW c \in Caller, ReadForExecute(c)
        PROVE  Owed(k)'
    <2>0. job[c].step = "read" /\ UNCHANGED <<lines, record, failures>>
      BY <1>4 DEF ReadForExecute, At
    <2>1. /\ \A d \in Caller \ {c} : job'[d] = job[d]
          /\ \/ job'[c].step = "done"
             \/ job'[c].key = job[c].key /\ record[job[c].key] = NoRecord
      <3>1. CASE record[job[c].key] # NoRecord
        <4>1. Finish(c, "REPLAYED")
          BY <1>4, <3>1 DEF ReadForExecute
        <4> QED
          BY <2>0, <4>1, Finishing DEF Outcome
      <3>2. CASE record[job[c].key] = NoRecord
        BY <1>4, <2>0, <3>2, Doing DEF ReadForExecute, Job
      <3> QED
        BY <3>1, <3>2
    <2>2. /\ c \in Within(k, "effect")' => record[k] = NoRecord
          /\ c \notin Within(k, "record") /\ Effects(k)' = Effects(k)
      BY <2>0, <2>1, SameLines DEF Within, At
    <2> QED
      BY <2>0, <2>1, <2>2, OwedWithoutEffect
  <1>5. ASSUME NEW c \in Caller, GithubRefuses(c)
        PROVE  Owed(k)'
    <2>1. /\ job[c].step = "effect" /\ job'[c].step = "done"
          /\ \A d \in Caller \ {c} : job'[d] = job[d]
          /\ UNCHANGED <<lines, record, failures>>
      BY <1>5, Finishing DEF GithubRefuses, At, Outcome
    <2>2. /\ c \notin Within(k, "effect")' /\ c \notin Within(k, "record")
          /\ Effects(k)' = Effects(k)
      BY <2>1, SameLines DEF Within, At
    <2> QED
      BY <2>1, <2>2, OwedWithoutEffect
  <1>6. ASSUME NEW c \in Caller, Undoing(c)
        PROVE  Owed(k)'
    <2>1. /\ job[c].step \in {"reread", "append", "mark"}
          /\ job'[c].step \in {"append", "mark", "done"}
          /\ \A d \in Caller \ {c} : job'[d] = job[d]
          /\ failures' = failures
      <3>1. CASE ReadForRevert(c)
        BY <3>1, Finishing, Doing DEF ReadForRevert, At, Outcome, Job
      <3>2. CASE AppendReversal(c)
        BY <3>2, Doing DEF AppendReversal, At, Job
      <3>3. CASE MarkReverted(c)
        BY <3>3, Finishing DEF MarkReverted, At, Outcome
      <3> QED
        BY <1>6, <3>1, <3>2, <3>3 DEF Undoing
    <2>2. Effects(k)' = Effects(k)
      <3>1. CASE UNCHANGED lines
        BY <3>1, SameLines
      <3>2. CASE AppendReversal(c)
        <4> DEFINE l == [kind |-> "REVERSAL", key |-> job[c].key,
                         backend |-> "sandbox_file", of |-> job[c].line]
        <4>1. l \in Line /\ lines' = Append(lines, l) /\ lines \in Seq(Line)
          BY <2>1, <3>2, Doing DEF Line, AppendReversal
        <4> QED
          BY <4>1, AppendedEffect
      <3> QED
        BY <1>6, <3>1, <3>2 DEF Undoing, ReadForRevert, MarkReverted
    <2>3. record'[k] = NoRecord <=> record[k] = NoRecord
      <3>1. CASE UNCHANGED record
        BY <3>1
      <3>2. CASE MarkReverted(c)
        <4>1. record[job[c].key] # NoRecord
          BY <3>2, Doing DEF MarkReverted, At, JobSound
        <4>2. record[k] # NoRecord => record'[k] # NoRecord
          BY <3>2, <2>1, Doing DEF MarkReverted, Record, NoRecord
        <4>3. job[c].key # k => record'[k] = record[k]
          BY <3>2, <2>1, Doing DEF MarkReverted
        <4> QED
          BY <4>1, <4>2, <4>3
      <3> QED
        BY <1>6, <3>1, <3>2 DEF Undoing, ReadForRevert, AppendReversal
    <2>4. c \notin Within(k, "effect")' /\ c \notin Within(k, "record")
      BY <2>1 DEF Within, At
    <2> QED
      BY <2>1, <2>2, <2>3, <2>4, OwedWithoutEffect
  <1> QED
    BY <1>1, <1>2, <1>3, <1>4, <1>5, <1>6, OwedByEffect, OwedByRecord DEF Next, Proceed

\* Repeated effects of a correction are bounded by who could race for its first
\* record and by what failed, for any number of callers, keys and calls
\* (execute_action: read, perform, then record).
THEOREM RepeatsBounded == Spec => []RepeatsAreOwed
  <1> DEFINE OwedAll == \A k \in Key : Owed(k)
  <1>1. Init => OwedAll
    <2>1. Init => /\ failures = 0
                  /\ \A k \in Key : record[k] = NoRecord /\ Effects(k) = {}
      BY DEF Init, Effects
    <2>2. \A k : Cardinality(Within(k, "record")) \in Nat
      BY WithinCounted
    <2> QED
      BY <2>1, <2>2, FS_EmptySet DEF Owed
  <1>2. Inv /\ OwedAll /\ [Next]_vars => OwedAll'
    BY OwedStep
  <1>3. Inv /\ OwedAll => RepeatsAreOwed
    <2> SUFFICES ASSUME Inv, NEW k \in Key, Owed(k)
                 PROVE  Cardinality(Effects(k)) <= Cardinality(Caller) + failures
      BY DEF RepeatsAreOwed
    <2>1. /\ Cardinality(Effects(k)) \in Nat /\ failures \in Nat
          /\ Cardinality(Within(k, "effect")) \in Nat
          /\ Cardinality(Within(k, "record")) \in Nat
          /\ Cardinality(Caller) \in Nat
          /\ Cardinality(Within(k, "effect")) + Cardinality(Within(k, "record"))
                <= Cardinality(Caller)
      BY EffectsCounted, WithinCounted DEF Inv, TypeOK
    <2> QED
      BY <2>1 DEF Owed
  <1> HIDE DEF OwedAll
  <1> QED
    BY <1>1, <1>2, <1>3, InvHolds, PTL DEF Spec
=============================================================================
