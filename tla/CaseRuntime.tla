---------------------------- MODULE CaseRuntime ----------------------------
(* The long-running cases of tower/runtime.py.  A case is one Firestore      *)
(* document; every operation but open_case reads it, checks what it read     *)
(* against the status machine, and writes the whole document back.  The      *)
(* callers are requests and tools of different processes: nothing orders     *)
(* one caller's read before another's write, and any of them may die in      *)
(* between.  Time stamps are left out.                                       *)
EXTENDS Integers

CONSTANTS
    Case, Caller,
    Step,       \* what a case may be working on
    Data,       \* its step_state; Nothing is the argument None
    Nothing,
    MaxOps      \* bound: operations begun

VARIABLES
    record,     \* record[c]: the document of case c, or NoCase
    job,        \* job[p]: what caller p has read and is about to write
    writes,     \* writes[c]: how often the document was written
    ops

vars == <<record, job, writes, ops>>

CaseStatus == {"open", "paused", "awaiting_human", "resumed", "closed"}
CaseRecord == [status : CaseStatus, step : Step, data : Data]
NoCase == [status |-> "none"]

\* _VALID_FROM
ValidFrom(s) ==
    CASE s = "open" -> {"paused", "awaiting_human", "closed"}
      [] s = "paused" -> {"resumed", "closed"}
      [] s = "awaiting_human" -> {"resumed", "closed"}
      [] s = "resumed" -> {"paused", "awaiting_human", "closed", "open"}
      [] OTHER -> {}

Idle == [at |-> "idle"]
Pending(c, new) == [at |-> "put", case |-> c, new |-> new, seen |-> writes[c]]

Begin == ops < MaxOps /\ ops' = ops + 1

\* _put: set() of the whole document.
Write(c, new) ==
    /\ record' = [record EXCEPT ![c] = new]
    /\ writes' = [writes EXCEPT ![c] = @ + 1]

----------------------------------------------------------------------------
Init ==
    /\ record = [c \in Case |-> NoCase]
    /\ job = [p \in Caller |-> Idle]
    /\ writes = [c \in Case |-> 0]
    /\ ops = 0

\* open_case asks nothing of a document that may be there.
OpenCase(c, step, data) ==
    /\ Begin
    /\ Write(c, [status |-> "open", step |-> step, data |-> data])
    /\ UNCHANGED job

\* _require: an operation goes on only on a case that exists.
Require(p, c) == job[p].at = "idle" /\ record[c] # NoCase /\ Begin

Prepare(p, c, new) ==
    /\ job' = [job EXCEPT ![p] = Pending(c, new)]
    /\ UNCHANGED <<record, writes>>

\* advance_step: a new step, the same status; None keeps the state.
AdvanceStep(p, c, step, data) ==
    /\ Require(p, c)
    /\ record[c].status # "closed"
    /\ Prepare(p, c, [status |-> record[c].status, step |-> step,
                      data |-> IF data = Nothing THEN record[c].data ELSE data])

\* The operations that only change the status.
Transition(p, c, to) ==
    /\ Require(p, c)
    /\ to \in ValidFrom(record[c].status)
    /\ Prepare(p, c, [status |-> to, step |-> record[c].step, data |-> record[c].data])

PauseCase(p, c)  == Transition(p, c, "paused")
AwaitHuman(p, c) == Transition(p, c, "awaiting_human")
ResumeCase(p, c) == Transition(p, c, "resumed")
CloseCase(p, c)  == Transition(p, c, "closed")

\* The long-running tool an agent calls: await_human, and a pending answer.
PauseCaseForHuman(p, c) == AwaitHuman(p, c)

Put(p) ==
    /\ job[p].at = "put"
    /\ Write(job[p].case, job[p].new)
    /\ job' = [job EXCEPT ![p] = Idle]
    /\ UNCHANGED ops

Crash(p) ==
    /\ job[p].at = "put"
    /\ job' = [job EXCEPT ![p] = Idle]
    /\ UNCHANGED <<record, writes, ops>>

Next ==
    \/ \E c \in Case, step \in Step, data \in Data : OpenCase(c, step, data)
    \/ \E p \in Caller, c \in Case :
         \/ \E step \in Step, data \in Data \cup {Nothing} : AdvanceStep(p, c, step, data)
         \/ PauseCase(p, c) \/ AwaitHuman(p, c) \/ PauseCaseForHuman(p, c)
         \/ ResumeCase(p, c) \/ CloseCase(p, c)
    \/ \E p \in Caller : Put(p) \/ Crash(p)

Spec == Init /\ [][Next]_vars

----------------------------------------------------------------------------
\* Every document is a case, every pending write a whole case.
TypeOK ==
    /\ record \in [Case -> CaseRecord \cup {NoCase}]
    /\ job \in [Caller -> {Idle} \cup [at : {"put"}, case : Case, new : CaseRecord, seen : Nat]]
    /\ writes \in [Case -> Nat]
    /\ ops \in Nat

\* What one operation may make of a case: another step in the same status of
\* a case that is not closed, or another status of the table in the same step.
LegalMove(old, new) ==
    \/ old.status # "closed" /\ new.status = old.status
    \/ new.status \in ValidFrom(old.status) /\ new.step = old.step /\ new.data = old.data

\* This write is made by a caller whose reading somebody has overwritten.
Overtaken(c) ==
    \E p \in Caller : /\ job[p].at = "put" /\ job[p].case = c /\ job'[p] = Idle
                      /\ job[p].seen # writes[c]

Opened(c) == \E step \in Step, data \in Data : OpenCase(c, step, data)

\* A case changes by a legal move from what it was, so that a resumed case
\* goes on from its stored step -- unless it is opened anew, or written by
\* somebody who read an older version: the two ways round the status machine
\* (tower/runtime.py, InvalidCaseTransitionError and resume_case).
MovesAreLegal ==
    [][\A c \in Case : record'[c] # record[c]
          => Opened(c) \/ Overtaken(c) \/ LegalMove(record[c], record'[c])]_vars

\* "closed -> (terminal, nothing)" (InvalidCaseTransitionError): a closed case
\* stays as it is, as long as nobody opens it anew.
ClosedIsTerminal ==
    [][\A c \in Case :
         record[c].status = "closed" /\ record'[c] # record[c] => Opened(c)]_vars
=============================================================================
