--------------------------- MODULE ExternalAction ---------------------------
(***************************************************************************)
(* The one module that changes something outside the process               *)
(* (command_os/external.py).  A correction has an idempotency key; the     *)
(* durable record of the key is what makes a second execution a replay.    *)
(*                                                                         *)
(* The record is read, the effect is performed and the record is written   *)
(* in three separate steps, by callers in different API instances: the     *)
(* transaction the module's docstring speaks of is not there.              *)
(***************************************************************************)
EXTENDS Naturals, Sequences, FiniteSets

CONSTANTS
    Caller,         \* concurrent callers of execute_action and revert_action
    Key,            \* idempotency keys
    Backend,        \* backends configured: "sandbox_file", "github"
    MaxLines,       \* bound: effects and reversals written
    MaxFailures     \* bound: crashes and lost GitHub answers

ASSUME ExternalAssumption ==
    /\ IsFiniteSet(Caller)
    /\ Backend \subseteq {"sandbox_file", "github"}
    /\ MaxLines \in Nat
    /\ MaxFailures \in Nat

VARIABLES
    lines,          \* what the outside world holds, in the order it arrived
    record,         \* command_os_external_actions: the durable records
    job,            \* the call each caller is in
    failures        \* crashes and lost answers so far

vars == <<lines, record, job, failures>>

-----------------------------------------------------------------------------
\* A line's external_id is its position; `of` is the line a REVERSAL names.
Line == [kind : {"APPLY", "REVERSAL"}, key : Key, backend : Backend \cup {"sandbox_file"},
         of : Nat]

Record == [status : {"APPLIED", "REVERTED"}, line : Nat, backend : Backend]
NoRecord == [status |-> "NONE", line |-> 0]

Outcome == {"none", "APPLIED", "REPLAYED", "REFUSED"}
CallStep == {"read", "effect", "record", "reread", "append", "mark", "done"}
Job == [step : CallStep, key : Key, backend : Backend, line : Nat, outcome : Outcome]
NoJob == [step |-> "idle", outcome |-> "none"]

\* ExternalActionAuthorization, as far as assert_valid_for looks at it.
Authorization == [key : Key, allowed : BOOLEAN, disagreed : BOOLEAN]

AssertValidFor(auth, k) == auth.allowed /\ ~auth.disagreed /\ auth.key = k

Init ==
    /\ lines = <<>>
    /\ record = [k \in Key |-> NoRecord]
    /\ job = [c \in Caller |-> NoJob]
    /\ failures = 0

At(c, step) == job[c].step = step

Finish(c, outcome) ==
    job' = [job EXCEPT ![c].step = "done", ![c].outcome = outcome]

\* The bound leaves every call already started the line it may write.
Room == Len(lines) + Cardinality({c \in Caller : job[c].step # "idle"}) < MaxLines

(* execute_action                                                          *)

Execute(c, k, b, auth) ==
    /\ At(c, "idle") /\ Room
    /\ job' = [job EXCEPT ![c] =
                 [step |-> IF AssertValidFor(auth, k) THEN "read" ELSE "done",
                  key |-> k, backend |-> b, line |-> 0,
                  outcome |-> IF AssertValidFor(auth, k) THEN "none" ELSE "REFUSED"]]
    /\ UNCHANGED <<lines, record, failures>>

\* Only a correction still in force is taken for done.
ReadForExecuteIfInForce(c) ==
    /\ At(c, "read")
    /\ IF record[job[c].key].status = "APPLIED"
       THEN Finish(c, "REPLAYED")
       ELSE job' = [job EXCEPT ![c].step = "effect"]
    /\ UNCHANGED <<lines, record, failures>>

ReadForExecute(c) ==
    /\ At(c, "read")
    /\ IF record[job[c].key] # NoRecord
       THEN Finish(c, "REPLAYED")
       ELSE job' = [job EXCEPT ![c].step = "effect"]
    /\ UNCHANGED <<lines, record, failures>>

Written(c) == [kind |-> "APPLY", key |-> job[c].key, backend |-> job[c].backend, of |-> 0]

\* _sandbox_append, or an issue that GitHub creates and reports.
PerformEffect(c) ==
    /\ At(c, "effect")
    /\ lines' = Append(lines, Written(c))
    /\ job' = [job EXCEPT ![c].step = "record", ![c].line = Len(lines) + 1]
    /\ UNCHANGED <<record, failures>>

\* No token, or a request GitHub never accepted.
GithubRefuses(c) ==
    /\ At(c, "effect") /\ job[c].backend = "github"
    /\ Finish(c, "REFUSED")
    /\ UNCHANGED <<lines, record, failures>>

\* The issue exists, the answer is an error: URLError, so "creation failed".
GithubAnswerLost(c) ==
    /\ At(c, "effect") /\ job[c].backend = "github"
    /\ failures < MaxFailures
    /\ lines' = Append(lines, Written(c))
    /\ Finish(c, "REFUSED")
    /\ failures' = failures + 1
    /\ UNCHANGED record

\* The newest line is taken for the one just written.
RecordNewestEffect(c) ==
    /\ At(c, "record")
    /\ record' = [record EXCEPT ![job[c].key] =
                    [status |-> "APPLIED", line |-> Len(lines), backend |-> job[c].backend]]
    /\ Finish(c, "APPLIED")
    /\ UNCHANGED <<lines, failures>>

\* set() replaces whatever the document holds by now.
RecordEffect(c) ==
    /\ At(c, "record")
    /\ record' = [record EXCEPT ![job[c].key] =
                    [status |-> "APPLIED", line |-> job[c].line, backend |-> job[c].backend]]
    /\ Finish(c, "APPLIED")
    /\ UNCHANGED <<lines, failures>>

(* revert_action                                                           *)

Revert(c, k, b) ==
    /\ At(c, "idle") /\ Room
    /\ job' = [job EXCEPT ![c] = [step |-> "reread", key |-> k, backend |-> b,
                                  line |-> 0, outcome |-> "none"]]
    /\ UNCHANGED <<lines, record, failures>>

\* A record is reverted again.
ReadForRevertAlways(c) ==
    /\ At(c, "reread")
    /\ IF record[job[c].key] = NoRecord
       THEN Finish(c, "REFUSED")
       ELSE job' = [job EXCEPT ![c].step = "append", ![c].line = record[job[c].key].line]
    /\ UNCHANGED <<lines, record, failures>>

ReadForRevert(c) ==
    /\ At(c, "reread")
    /\ CASE record[job[c].key] = NoRecord -> Finish(c, "REFUSED")
         [] record[job[c].key].status = "REVERTED" -> Finish(c, "REPLAYED")
         [] OTHER -> job' = [job EXCEPT ![c].step = "append",
                                        ![c].line = record[job[c].key].line]
    /\ UNCHANGED <<lines, record, failures>>

\* Whatever backend the record names, the sandbox takes the compensation.
AppendReversal(c) ==
    /\ At(c, "append")
    /\ lines' = Append(lines, [kind |-> "REVERSAL", key |-> job[c].key,
                               backend |-> "sandbox_file", of |-> job[c].line])
    /\ job' = [job EXCEPT ![c].step = "mark"]
    /\ UNCHANGED <<record, failures>>

\* update() leaves the other fields as it finds them.
MarkReverted(c) ==
    /\ At(c, "mark")
    /\ record' = [record EXCEPT ![job[c].key].status = "REVERTED"]
    /\ Finish(c, "APPLIED")
    /\ UNCHANGED <<lines, failures>>

Return(c) ==
    /\ At(c, "done")
    /\ job' = [job EXCEPT ![c] = NoJob]
    /\ UNCHANGED <<lines, record, failures>>

\* The instance dies, or Firestore or the socket raises, inside a call.
Crash(c) ==
    /\ job[c].step \notin {"idle", "done"}
    /\ failures < MaxFailures
    /\ job' = [job EXCEPT ![c] = NoJob]
    /\ failures' = failures + 1
    /\ UNCHANGED <<lines, record>>

\* The steps of a call that has begun.
Proceed(c) ==
    \/ ReadForExecute(c)
    \/ PerformEffect(c)
    \/ GithubRefuses(c)
    \/ GithubAnswerLost(c)
    \/ RecordEffect(c)

Undoing(c) ==
    \/ ReadForRevert(c)
    \/ AppendReversal(c)
    \/ MarkReverted(c)

Next ==
    \E c \in Caller :
        \/ \E k \in Key, b \in Backend, auth \in Authorization : Execute(c, k, b, auth)
        \/ \E k \in Key, b \in Backend : Revert(c, k, b)
        \/ Proceed(c)
        \/ Undoing(c)
        \/ Return(c)
        \/ Crash(c)

Spec == Init /\ [][Next]_vars

-----------------------------------------------------------------------------
(* Properties.                                                             *)

\* Every variable keeps its type; a call that has not begun holds nothing.
TypeOK ==
    /\ lines \in Seq(Line)
    /\ record \in [Key -> Record \cup {NoRecord}]
    /\ job \in [Caller -> Job \cup {NoJob}]
    /\ failures \in Nat

Effects(k) == {i \in DOMAIN lines : lines[i].kind = "APPLY" /\ lines[i].key = k}
Reversals(k) == {i \in DOMAIN lines : lines[i].kind = "REVERSAL" /\ lines[i].key = k}

\* The record of a correction names an effect that really reached the
\* outside world, of its own key and in its own backend, whoever wrote it and
\* whatever else was appended meanwhile (execute_action, verify_action reads
\* it back); every reversal names such an effect too (revert_action).
RecordsNameEffects ==
    /\ \A k \in Key :
          record[k] # NoRecord
              => /\ record[k].line \in Effects(k)
                 /\ lines[record[k].line].backend = record[k].backend
    /\ \A k \in Key : \A i \in Reversals(k) :
          lines[i].of \in Effects(k) /\ lines[i].of < i

\* Executors that read "no record" and have not yet written theirs.
Racing(k) == {c \in Caller : job[c].step \in {"effect", "record"} /\ job[c].key = k}

\* Recorded, and nobody who missed the record is still at work.
IsSettled(k) == record[k] # NoRecord /\ Racing(k) = {}

\* A settled correction stays settled and never takes effect again: not on a
\* replay, not after a reversal, not after a crash (execute_action's step 2
\* before step 3).
SettledOnce ==
    [][\A k \in Key : IsSettled(k) => IsSettled(k)' /\ Effects(k)' = Effects(k)]_vars

\* What a key can cost in repeated effects: one for each caller that may read
\* before the first record is written, and one for each failure after an
\* effect and before its record.
RepeatsAreOwed ==
    \A k \in Key : Cardinality(Effects(k)) <= Cardinality(Caller) + failures

-----------------------------------------------------------------------------
(* What the docstring says, and TLC refutes.                               *)

\* The compensation goes where the effect went ("revert_action performs it").
ReversedWhereApplied ==
    \A k \in Key : \A i \in Reversals(k) :
        lines[i].backend = lines[lines[i].of].backend

\* "It refuses to run twice for the same idempotency key."
AtMostOneEffect == \A k \in Key : Cardinality(Effects(k)) <= 1

\* "Created inside a transaction with a create-if-absent precondition."
CreatedIfAbsent ==
    [][\A k \in Key : record[k] # NoRecord => record'[k].line = record[k].line]_vars

-----------------------------------------------------------------------------
(* What the callers get of it.                                             *)

StateOf(k) ==
    CASE record[k] = NoRecord -> "new"
      [] record[k].status = "APPLIED" -> "applied"
      [] OTHER -> "reverted"

Within(k, step) == {c \in Caller : At(c, step) /\ job[c].key = k}

Retried == INSTANCE RetriedEffect WITH
    state   <- [k \in Key |-> StateOf(k)],
    effects <- [k \in Key |-> Effects(k)],
    undone  <- [k \in Key |-> Reversals(k)],
    trying  <- [k \in Key |-> Within(k, "effect")],
    undoing <- [k \in Key |-> Within(k, "append")]

\* Whatever interleaves, fails or is retried, execute_action and revert_action
\* do nothing outside but by an attempt admitted while the correction was new,
\* or to undo it while it was in force.
ImplementsRetried == Retried!Spec
=============================================================================
