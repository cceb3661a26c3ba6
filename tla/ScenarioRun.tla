---------------------------- MODULE ScenarioRun ----------------------------
(***************************************************************************)
(* One run of a scenario: the engine's goroutine, the operator's controls, *)
(* and the commands that the engine pretends to carry out.                 *)
(*                                                                         *)
(* The engine takes the next action of its timeline, waits until virtual   *)
(* time reaches it and executes it.  A command issued to one of the run's  *)
(* assets, by the script or by an operator, adds actions to the timeline,  *)
(* from the goroutine of whoever issued it.  Stop, restart and shutdown    *)
(* end the run from outside; the run's row is written under a lock of its  *)
(* own, its actions' rows are not.  The process may crash: the rows stay,   *)
(* and the run is a ghost until it is restarted.                           *)
(*                                                                         *)
(* Abstracted: what actions other than commands do (they call the          *)
(* application services and succeed or fail); time goes by in units, at    *)
(* any speed, only as long as an action is due; validation, the overflow   *)
(* of timestamps and the reading of a run; the channel that wakes a paused *)
(* goroutine (its buffer of one never loses a wake-up).  Setting up a run  *)
(* is over when the behaviour begins.  What a crashed process had in       *)
(* memory keeps its last value, which nothing reads.                       *)
(***************************************************************************)
EXTENDS Integers, FiniteSets

CONSTANTS
  Static,         \* e.static: the built timeline, numbered in its sorted order
  Commands,       \* commands to assets of the run
  NoCommand,
  Behaviors,      \* the command_simulation of scenarios
  AckDelay,
  CompleteDelay,
  MaxActions,     \* maxScheduledActions; 20000 in the code
  MoveTargets,    \* the states that operators move commands to
  MaxControls,    \* bounds: controls of the run in one behaviour, and moves of
  MaxMishaps      \* commands by operators and failed statements taken together

N == Cardinality(DOMAIN Static)
Seqs == 1..MaxActions

\* The commands that the script issues; operators issue the others.
Scripted == {Static[i].issues : i \in 1..N} \ {NoCommand}

ASSUME TimelineAssumption ==
  /\ N \in Nat /\ N <= MaxActions
  /\ Static \in [1..N -> [at : Nat, issues : Commands \cup {NoCommand}]]
  /\ \A i, j \in 1..N : i < j =>
       /\ Static[i].at <= Static[j].at
       /\ Static[i].issues = Static[j].issues => Static[i].issues = NoCommand

ASSUME CommandAssumption ==
  /\ IsFiniteSet(Commands) /\ NoCommand \notin Commands
  /\ Behaviors \subseteq {"normal", "reject", "fail", "timeout"}
  /\ AckDelay \in Nat /\ CompleteDelay \in Nat
  /\ MoveTargets \subseteq {"ACKNOWLEDGED", "COMPLETED", "REJECTED", "FAILED", "TIMED_OUT", "CANCELLED"}

ASSUME BoundAssumption ==
  MaxActions \in Nat /\ MaxControls \in Nat /\ MaxMishaps \in Nat

VARIABLES
  status,     \* scenario_runs.status
  rows,       \* scenario_run_events.status, by sequence number
  command,    \* commands.state
  head,       \* e.nextStatic
  pending,    \* e.pending
  states,     \* e.eventStates
  reserved,   \* e.reserved
  nextSeq,    \* e.nextSeq
  tracked,    \* e.pendingCommands
  gate,       \* e.paused, e.stopped, e.finished, and the cancelling of the run's context
  clock,      \* the virtual time
  lastAt,     \* e.lastActionAt
  registered, \* the engine is in s.engines
  behavior,   \* the command simulation of the scenario
  runner,     \* the engine's goroutine
  todo,       \* the commands failPendingCommands still has to fail
  job,        \* the handling of command.issued, by command
  control,    \* the request that holds lifecycleMu
  closed,     \* s.closed
  ended,      \* history: how often scenario.run.ended was published
  loose,      \* history: commands of which the engine's transition failed
  slips,      \* history: actions begun since the run was paused
  spent       \* what is used up of each bound

timeline == <<head, pending, states, reserved, nextSeq, tracked>>
time == <<clock, lastAt>>
run == <<status, rows, ended>>
service == <<registered, behavior, control, closed>>
vars == <<status, rows, command, head, pending, states, reserved, nextSeq, tracked, gate,
          clock, lastAt, registered, behavior, runner, todo, job, control, closed,
          ended, loose, slips, spent>>

-----------------------------------------------------------------------------
(* Commands                                                                *)

CommandStates == {"none", "SENT", "ACKNOWLEDGED", "COMPLETED", "REJECTED", "FAILED",
                  "TIMED_OUT", "CANCELLED"}

\* IsTerminal
Settled == {"COMPLETED", "REJECTED", "FAILED", "TIMED_OUT", "CANCELLED"}

\* A command is issued as SENT.
CanTransition(from, to) ==
  \/ from = "SENT" /\ to \in {"ACKNOWLEDGED", "REJECTED", "FAILED", "TIMED_OUT", "CANCELLED"}
  \/ from = "ACKNOWLEDGED" /\ to \in {"COMPLETED", "FAILED", "CANCELLED"}

\* What a simulated action does to its command.
Outcome ==
  [acknowledge |-> "ACKNOWLEDGED", complete |-> "COMPLETED", reject |-> "REJECTED",
   fail |-> "FAILED", timeout |-> "TIMED_OUT"]

Kinds == {"emit", "issue"} \cup DOMAIN Outcome

Actions == [at : Nat, seq : Nat, kind : Kinds, cmd : Commands \cup {NoCommand}]

StaticAction(i) ==
  [at |-> Static[i].at, seq |-> i,
   kind |-> IF Static[i].issues = NoCommand THEN "emit" ELSE "issue", cmd |-> Static[i].issues]

\* How many actions simulateCommand adds for a command.
Planned == IF behavior = "normal" THEN 2 ELSE 1

\* Those actions, counted from a time and numbered from a number on.
Plan(c, base, seq) ==
  LET act(kind, delay, n) == [at |-> base + delay, seq |-> seq + n, kind |-> kind, cmd |-> c] IN
  CASE behavior = "normal"  -> {act("acknowledge", AckDelay, 1), act("complete", CompleteDelay, 2)}
    [] behavior = "reject"  -> {act("reject", AckDelay, 1)}
    [] behavior = "fail"    -> {act("fail", AckDelay, 1)}
    [] behavior = "timeout" -> {act("timeout", CompleteDelay, 1)}

BySequence(a, b) == a.seq < b.seq

\* actionBefore
Before(a, b) == a.at < b.at \/ (a.at = b.at /\ a.seq < b.seq)

\* An action is the first of some in time.
IsFirst(a, actions) == a \in actions /\ \A b \in actions : b = a \/ Before(a, b)

-----------------------------------------------------------------------------
(* Rows and marks of actions                                               *)

Marks == {"none", "pending", "running", "completed", "failed", "skipped"}

Unfinished == {"pending", "running"}

\* SkipPendingEvents, and its counterpart in memory.
Swept(marks) == [s \in Seqs |-> IF marks[s] \in Unfinished THEN "skipped" ELSE marks[s]]

Mark(marks, actions, m) == [s \in Seqs |-> IF \E a \in actions : a.seq = s THEN m ELSE marks[s]]

\* A statement fails.
Fault ==
  /\ spent.faults + spent.moves < MaxMishaps
  /\ spent' = [spent EXCEPT !.faults = spent.faults + 1]

\* The statements of an action also fail when the run's context is cancelled.
Blocked == Fault \/ (gate.cancelled /\ UNCHANGED spent)

-----------------------------------------------------------------------------
(* The engine's goroutine: engine.run                                      *)

\* What is next: the head of the static timeline and of the dynamic one.
Candidates == (IF head <= N THEN {StaticAction(head)} ELSE {}) \cup pending

\* peekNext
Peek ==
  /\ runner.pc = "peek"
  /\ IF Candidates = {}
     THEN /\ gate' = [gate EXCEPT !.finished = TRUE]
          /\ runner' = [runner EXCEPT !.pc = "ended"]
     ELSE /\ \E a \in Candidates :
               IsFirst(a, Candidates) /\ runner' = [runner EXCEPT !.pc = "wait", !.cur = a]
          /\ UNCHANGED gate
  /\ UNCHANGED <<run, command, timeline, time, service, todo, job, loose, slips, spent>>

IgnorePause == ~gate.stopped /\ clock >= runner.cur.at

Due == ~gate.stopped /\ ~gate.paused /\ clock >= runner.cur.at

\* waitUntil returns true.
WaitOver ==
  /\ runner.pc = "wait"
  /\ Due
  /\ runner' = [runner EXCEPT !.pc = "pop"]
  /\ UNCHANGED <<run, command, timeline, time, gate, service, todo, job, loose, slips, spent>>

\* waitUntil returns false: a stop, or a context that is done.
WaitEnds ==
  /\ runner.pc = "wait"
  /\ gate.stopped \/ (gate.cancelled /\ ~Due)
  /\ gate' = [gate EXCEPT !.finished = TRUE]
  /\ runner' = [runner EXCEPT !.pc = "skip", !.err = gate.cancelled /\ ~gate.stopped]
  /\ UNCHANGED <<run, command, timeline, time, service, todo, job, loose, slips, spent>>

\* The static head goes first if it was waited for, whatever was inserted meanwhile.
PopsStatic == head <= N /\ StaticAction(head) = runner.cur

PopsByHead == ~PopsStatic /\ IsFirst(runner.cur, pending) /\ runner.cur.seq = head

PopsDynamic == ~PopsStatic /\ IsFirst(runner.cur, pending)

\* popNext finds another action before the one waited for.
Reselect ==
  /\ runner.pc = "pop"
  /\ ~PopsStatic /\ ~PopsDynamic
  /\ runner' = [runner EXCEPT !.pc = "peek"]
  /\ UNCHANGED <<run, command, timeline, time, gate, service, todo, job, loose, slips, spent>>

\* popNext; virtual time is set to the action's, and its start is recorded.
Begin ==
  /\ runner.pc = "pop"
  /\ \/ PopsStatic /\ head' = head + 1 /\ UNCHANGED pending
     \/ PopsDynamic /\ pending' = pending \ {runner.cur} /\ UNCHANGED head
  /\ clock' = runner.cur.at
  /\ lastAt' = runner.cur.at
  /\ states' = Mark(states, {runner.cur}, "running")
  /\ slips' = slips + (IF gate.paused THEN 1 ELSE 0)
  /\ \/ /\ rows' = Mark(rows, {runner.cur}, "running")
        /\ runner' = [runner EXCEPT !.pc = "act"]
        /\ UNCHANGED <<gate, spent>>
     \/ /\ Fault
        /\ gate' = [gate EXCEPT !.finished = TRUE]
        /\ runner' = [runner EXCEPT !.pc = "skip", !.err = TRUE]
        /\ UNCHANGED rows
  /\ UNCHANGED <<status, ended, command, reserved, nextSeq, tracked, service, todo, job, loose>>

\* An action of the script that is not a command; a missing dependency is fatal.
Emit ==
  /\ runner.pc = "act" /\ runner.cur.kind = "emit"
  /\ \/ runner' = [runner EXCEPT !.pc = "record", !.result = "ok"] /\ UNCHANGED spent
     \/ runner' = [runner EXCEPT !.pc = "record", !.result = "failed"] /\ Blocked
     \/ runner' = [runner EXCEPT !.pc = "record", !.result = "fatal"] /\ Fault
  /\ UNCHANGED <<run, command, timeline, time, gate, service, todo, job, loose, slips>>

\* emitCommand, up to the publishing of command.issued.  The row is inserted and
\* stamped by two statements: a failure between them leaves a command nobody hears of.
IssueScripted ==
  /\ runner.pc = "act" /\ runner.cur.kind = "issue"
  /\ \/ /\ command' = [command EXCEPT ![runner.cur.cmd] = "SENT"]
        /\ job' = [job EXCEPT ![runner.cur.cmd].pc = "published"]
        /\ runner' = [runner EXCEPT !.pc = "issuing"]
        /\ UNCHANGED spent
     \/ /\ Blocked
        /\ command' \in {command, [command EXCEPT ![runner.cur.cmd] = "SENT"]}
        /\ runner' = [runner EXCEPT !.pc = "record", !.result = "failed"]
        /\ UNCHANGED job
  /\ UNCHANGED <<run, timeline, time, gate, service, todo, loose, slips>>

\* The event's handlers have returned.
IssueReturns ==
  /\ runner.pc = "issuing" /\ job[runner.cur.cmd].pc \in {"ignored", "done"}
  /\ runner' = [runner EXCEPT !.pc = "record", !.result = "ok"]
  /\ UNCHANGED <<run, command, timeline, time, gate, service, todo, job, loose, slips, spent>>

\* An acknowledgement leaves its command tracked, for the completion to come.
GiveUp(failed) ==
  tracked' = IF failed \/ runner.cur.kind # "acknowledge" THEN tracked \ {runner.cur.cmd} ELSE tracked

\* A simulated action reads its command.
Simulate ==
  /\ runner.pc = "act" /\ runner.cur.kind \in DOMAIN Outcome
  /\ IF CanTransition(command[runner.cur.cmd], Outcome[runner.cur.kind])
     THEN \/ /\ runner' = [runner EXCEPT !.pc = "cas", !.from = command[runner.cur.cmd]]
             /\ UNCHANGED <<tracked, loose, spent>>
          \/ /\ Blocked
             /\ runner' = [runner EXCEPT !.pc = "record", !.result = "failed"]
             /\ GiveUp(TRUE) /\ loose' = loose \cup {runner.cur.cmd}
     ELSE /\ runner' = [runner EXCEPT !.pc = "record", !.result = "failed"]
          /\ GiveUp(TRUE) /\ loose' = loose \cup {runner.cur.cmd}
          /\ UNCHANGED spent
  /\ UNCHANGED <<run, command, head, pending, states, reserved, nextSeq, time, gate, service,
                 todo, job, slips>>

\* It moves the command, if that is as it was read.
SimulateCas ==
  LET c == runner.cur.cmd IN
  /\ runner.pc = "cas"
  /\ \/ /\ command[c] = runner.from
        /\ command' = [command EXCEPT ![c] = Outcome[runner.cur.kind]]
        /\ runner' = [runner EXCEPT !.pc = "record", !.result = "ok"]
        /\ GiveUp(FALSE)
        /\ UNCHANGED <<loose, spent>>
     \/ /\ (command[c] # runner.from /\ UNCHANGED spent) \/ Blocked
        /\ runner' = [runner EXCEPT !.pc = "record", !.result = "failed"]
        /\ GiveUp(TRUE) /\ loose' = loose \cup {c}
        /\ UNCHANGED command
  /\ UNCHANGED <<run, head, pending, states, reserved, nextSeq, time, gate, service,
                 todo, job, slips>>

\* The action's end and the cursor are recorded.
Record ==
  LET m == IF runner.result = "ok" THEN "completed" ELSE "failed" IN
  /\ runner.pc = "record"
  /\ states' = Mark(states, {runner.cur}, m)
  /\ \/ /\ rows' = Mark(rows, {runner.cur}, m)
        /\ IF runner.result = "fatal"
           THEN /\ runner' = [runner EXCEPT !.pc = "skip", !.err = TRUE]
                /\ gate' = [gate EXCEPT !.finished = TRUE]
           ELSE runner' = [runner EXCEPT !.pc = "peek"] /\ UNCHANGED gate
        /\ UNCHANGED spent
     \/ /\ Fault
        /\ rows' \in {rows, Mark(rows, {runner.cur}, m)}
        /\ gate' = [gate EXCEPT !.finished = TRUE]
        /\ runner' = [runner EXCEPT !.pc = "skip", !.err = TRUE]
  /\ UNCHANGED <<status, ended, command, head, pending, reserved, nextSeq, tracked, time, service,
                 todo, job, loose, slips>>

NothingToFail == {}

AfterSkip == tracked

\* skipPending, and failPendingCommands up to its first command.
Skip ==
  /\ runner.pc = "skip"
  /\ states' = Swept(states)
  /\ (rows' = Swept(rows) /\ UNCHANGED spent) \/ (UNCHANGED rows /\ Fault)
  /\ todo' = AfterSkip
  /\ tracked' = {}
  /\ runner' = [runner EXCEPT !.pc = "drain"]
  /\ UNCHANGED <<status, ended, command, head, pending, reserved, nextSeq, time, gate, service,
                 job, loose, slips>>

\* failPendingCommands reads a command.
Drain(c) ==
  /\ runner.pc = "drain" /\ c \in todo
  /\ todo' = todo \ {c}
  /\ IF CanTransition(command[c], "FAILED")
     THEN \/ /\ runner' = [runner EXCEPT !.pc = "drainCas", !.from = command[c], !.failing = c]
             /\ UNCHANGED <<loose, spent>>
          \/ Fault /\ loose' = loose \cup {c} /\ UNCHANGED runner
     ELSE UNCHANGED <<runner, loose, spent>>
  /\ UNCHANGED <<run, command, timeline, time, gate, service, job, slips>>

DrainCas ==
  LET c == runner.failing IN
  /\ runner.pc = "drainCas"
  /\ runner' = [runner EXCEPT !.pc = "drain"]
  /\ \/ /\ command[c] = runner.from
        /\ command' = [command EXCEPT ![c] = "FAILED"]
        /\ UNCHANGED <<loose, spent>>
     \/ /\ (command[c] # runner.from /\ UNCHANGED spent) \/ Fault
        /\ loose' = loose \cup {c}
        /\ UNCHANGED command
  /\ UNCHANGED <<run, timeline, time, gate, service, todo, job, slips>>

Drained ==
  /\ runner.pc = "drain" /\ todo = {}
  /\ runner' = [runner EXCEPT !.pc = "ended"]
  /\ UNCHANGED <<run, command, timeline, time, gate, service, todo, job, loose, slips, spent>>

-----------------------------------------------------------------------------
(* The end of a run: Service.finalizeRunLocked                             *)

Ended == {"COMPLETED", "STOPPED", "FAILED"}

AlwaysEnds(st) == status' = st /\ ended' = ended + 1

\* A run that has ended is only swept again.
End(st) ==
  IF status \in Ended THEN UNCHANGED <<status, ended>> ELSE status' = st /\ ended' = ended + 1

FinalizeLocked(st) ==
  \/ rows' = Swept(rows) /\ End(st) /\ UNCHANGED spent
  \/ Fault /\ rows' \in {rows, Swept(rows)} /\ UNCHANGED <<status, ended>>

LockFreeOfClose == control.pc = "idle"

\* Pause, Resume, Stop and Restart hold the run's lock while they are at work.
LockFree == control.pc \in {"idle", "closing", "closed"}

\* The runner decides how its run has ended, and then waits for the run's lock.
Conclude ==
  /\ runner.pc = "ended"
  /\ runner' = [runner EXCEPT !.pc = "final", !.result =
                  IF gate.stopped THEN "STOPPED" ELSE IF runner.err THEN "FAILED" ELSE "COMPLETED"]
  /\ UNCHANGED <<run, command, timeline, time, gate, service, todo, job, loose, slips, spent>>

Finalize ==
  /\ runner.pc = "final"
  /\ LockFree
  /\ FinalizeLocked(runner.result)
  /\ runner' = [runner EXCEPT !.pc = "release"]
  /\ UNCHANGED <<command, timeline, time, gate, service, todo, job, loose, slips>>

\* It forgets the engine.
Release ==
  /\ runner.pc = "release"
  /\ registered' = FALSE
  /\ runner' = [runner EXCEPT !.pc = "done"]
  /\ UNCHANGED <<run, command, timeline, time, gate, behavior, control, closed, todo, job,
                 loose, slips, spent>>

-----------------------------------------------------------------------------
(* Controls, one at a time: lifecycleMu                                    *)

Request(pc, op) ==
  /\ control.pc = "idle"
  /\ spent.controls < MaxControls
  /\ spent' = [spent EXCEPT !.controls = spent.controls + 1]
  /\ control' = [pc |-> pc, op |-> op]

Registered == registered

\* The engine is there and the run has not ended.
Active == registered /\ status \notin Ended

\* Pause and Resume write the row, and then tell the engine.
Switch(op, st) ==
  /\ Active
  /\ Request("switch", op)
  /\ status' = st
  /\ UNCHANGED <<rows, ended, command, timeline, time, gate, registered, behavior, closed, runner,
                 todo, job, loose, slips>>

Pause == Switch("pause", "PAUSED")

Resume == Switch("resume", "RUNNING")

Switched ==
  /\ control.pc = "switch"
  /\ control' = [control EXCEPT !.pc = "idle"]
  /\ IF gate.stopped \/ gate.finished \/ gate.paused = (control.op = "pause")
     THEN UNCHANGED <<gate, slips>>
     ELSE gate' = [gate EXCEPT !.paused = ~gate.paused] /\ slips' = 0
  /\ UNCHANGED <<run, command, timeline, time, registered, behavior, closed, runner, todo, job,
                 loose, spent>>

\* Stop, and the first half of Restart, which also ends a run without an engine.
Stop ==
  /\ Active /\ Request("stop", "stop")
  /\ gate' = [gate EXCEPT !.stopped = TRUE]
  /\ UNCHANGED <<run, command, timeline, time, registered, behavior, closed, runner, todo, job,
                 loose, slips>>

Restart ==
  /\ ~closed
  /\ \/ registered /\ Request("stop", "restart") /\ gate' = [gate EXCEPT !.stopped = TRUE]
     \/ ~registered /\ status \notin Ended /\ Request("finalize", "restart") /\ UNCHANGED gate
  /\ UNCHANGED <<run, command, timeline, time, registered, behavior, closed, runner, todo, job,
                 loose, slips>>

Cancel(next) ==
  /\ gate' = [gate EXCEPT !.cancelled = TRUE]
  /\ control' = [control EXCEPT !.pc = next]
  /\ UNCHANGED <<run, command, timeline, time, registered, behavior, closed, runner, todo, job,
                 loose, slips, spent>>

StopCancels == control.pc = "stop" /\ Cancel("finalize")

StopFinalizes ==
  /\ control.pc = "finalize"
  /\ FinalizeLocked("STOPPED")
  /\ control' = [control EXCEPT !.pc = "idle"]
  /\ UNCHANGED <<command, timeline, time, gate, registered, behavior, closed, runner, todo, job,
                 loose, slips>>

StoppedFirst == [gate EXCEPT !.stopped = TRUE]

\* The service is closed when the process shuts down; engines are marked as
\* stopped before their contexts are cancelled.
Close ==
  /\ ~closed
  /\ control.pc = "idle"
  /\ closed' = TRUE
  /\ control' = [pc |-> "closing", op |-> "close"]
  /\ gate' = IF registered THEN StoppedFirst ELSE gate
  /\ UNCHANGED <<run, command, timeline, time, registered, behavior, runner, todo, job,
                 loose, slips, spent>>

CloseCancels == control.pc = "closing" /\ Cancel("closed")

\* The runners have ended.
CloseReturns ==
  /\ control.pc = "closed" /\ runner.pc \in {"done", "gone"}
  /\ control' = [control EXCEPT !.pc = "idle"]
  /\ UNCHANGED <<run, command, timeline, time, gate, registered, behavior, closed, runner, todo, job,
                 loose, slips, spent>>

-----------------------------------------------------------------------------
(* A command's simulation is scheduled, in the goroutine that issued it    *)

\* An operator issues a command.
Issue(c) ==
  /\ c \notin Scripted /\ command[c] = "none"
  /\ command' = [command EXCEPT ![c] = "SENT"]
  /\ \/ job' = [job EXCEPT ![c].pc = "published"] /\ UNCHANGED spent
     \/ job' = [job EXCEPT ![c].pc = "ignored"] /\ Fault
  /\ UNCHANGED <<run, timeline, time, gate, service, runner, todo, loose, slips>>

\* handleCommandIssued looks for the engine that owns the asset.
Deliver(c) ==
  /\ job[c].pc = "published"
  /\ job' = [job EXCEPT ![c].pc = IF registered THEN "found" ELSE "ignored"]
  /\ UNCHANGED <<run, command, timeline, time, gate, service, runner, todo, loose, slips, spent>>

Known == {s \in Seqs : states[s] # "none"}

FitsNow == Cardinality(Known) + Planned <= MaxActions

Fits == Cardinality(Known) + reserved + Planned <= MaxActions

Accepting == ~gate.stopped /\ ~gate.finished

\* A script's command counts from the action that issued it, another's from now.
Base(c) == IF c \in Scripted THEN lastAt ELSE clock

\* trackCommand, and scheduleAfterMany up to its first unlock.
Reserve(c) ==
  /\ job[c].pc = "found"
  /\ tracked' = tracked \cup {c}
  /\ IF Accepting /\ Fits
     THEN /\ reserved' = reserved + Planned
          /\ nextSeq' = nextSeq + Planned
          /\ job' = [job EXCEPT ![c] = [pc |-> "store", base |-> Base(c), seq |-> nextSeq, from |-> "none"]]
     ELSE /\ job' = [job EXCEPT ![c].pc = "refused"]
          /\ UNCHANGED <<reserved, nextSeq>>
  /\ UNCHANGED <<run, command, head, pending, states, time, gate, service, runner, todo,
                 loose, slips, spent>>

Items(c) == Plan(c, job[c].base, job[c].seq)

\* The actions are stored, without the engine's lock; if one cannot be, those that
\* were are skipped.
Store(c) ==
  /\ job[c].pc = "store"
  /\ \/ /\ rows' = Mark(rows, Items(c), "pending")
        /\ job' = [job EXCEPT ![c].pc = "insert"]
        /\ UNCHANGED <<states, reserved, spent>>
     \/ /\ Fault
        /\ \E stored \in SUBSET Items(c) :
             /\ \A a \in stored, b \in Items(c) \ stored : a.seq < b.seq
             /\ rows' = Mark(rows, stored, "skipped")
        /\ reserved' = reserved - Planned
        /\ states' = Mark(states, Items(c), "skipped")
        /\ job' = [job EXCEPT ![c].pc = "refused"]
  /\ UNCHANGED <<status, ended, command, head, pending, nextSeq, tracked, time, gate, service, runner,
                 todo, loose, slips>>

AcceptLate == TRUE

AcceptNow == Accepting

\* They are inserted, unless the run has ended in between.
Insert(c) ==
  /\ job[c].pc = "insert"
  /\ reserved' = reserved - Planned
  /\ IF AcceptNow
     THEN /\ pending' = pending \cup Items(c)
          /\ states' = Mark(states, Items(c), "pending")
          /\ job' = [job EXCEPT ![c].pc = "done"]
     ELSE /\ states' = Mark(states, Items(c), "skipped")
          /\ job' = [job EXCEPT ![c].pc = "unstore"]
          /\ UNCHANGED pending
  /\ UNCHANGED <<run, command, head, nextSeq, tracked, time, gate, service, runner, todo,
                 loose, slips, spent>>

\* Their rows are skipped; a failure of that is ignored.
Unstore(c) ==
  /\ job[c].pc = "unstore"
  /\ (rows' = Mark(rows, Items(c), "skipped") /\ UNCHANGED spent) \/ (UNCHANGED rows /\ Fault)
  /\ job' = [job EXCEPT ![c].pc = "refused"]
  /\ UNCHANGED <<status, ended, command, timeline, time, gate, service, runner, todo, loose, slips>>

\* failCapacity
Refuse(c) ==
  /\ job[c].pc = "refused"
  /\ tracked' = tracked \ {c}
  /\ IF CanTransition(command[c], "FAILED")
     THEN \/ /\ job' = [job EXCEPT ![c].pc = "cas", ![c].from = command[c]]
             /\ UNCHANGED <<loose, spent>>
          \/ Fault /\ job' = [job EXCEPT ![c].pc = "done"] /\ loose' = loose \cup {c}
     ELSE job' = [job EXCEPT ![c].pc = "done"] /\ UNCHANGED <<loose, spent>>
  /\ UNCHANGED <<run, command, head, pending, states, reserved, nextSeq, time, gate, service, runner,
                 todo, slips>>

RefuseCas(c) ==
  /\ job[c].pc = "cas"
  /\ job' = [job EXCEPT ![c].pc = "done"]
  /\ \/ /\ command[c] = job[c].from
        /\ command' = [command EXCEPT ![c] = "FAILED"]
        /\ UNCHANGED <<loose, spent>>
     \/ /\ (command[c] # job[c].from /\ UNCHANGED spent) \/ Fault
        /\ loose' = loose \cup {c}
        /\ UNCHANGED command
  /\ UNCHANGED <<run, timeline, time, gate, service, runner, todo, slips>>

-----------------------------------------------------------------------------
(* The process crashes, and another one takes its place                    *)

\* The status that whoever ends the run is about to give it.
Ending ==
  (IF runner.pc = "final" /\ LockFree THEN {runner.result} ELSE {})
    \cup (IF control.pc = "finalize" THEN {"STOPPED"} ELSE {})

\* A sequence of statements is cut short: an end that is written is not published,
\* and actions are stored that nobody will insert.
CutShort ==
  \/ UNCHANGED <<status, rows>>
  \/ /\ Ending # {} /\ rows' = Swept(rows)
     /\ status' \in {status} \cup (IF status \in Ended THEN {} ELSE Ending)
  \/ \E c \in Commands : \E stored \in SUBSET Items(c) :
       /\ job[c].pc = "store"
       /\ \A a \in stored, b \in Items(c) \ stored : a.seq < b.seq
       /\ rows' = Mark(rows, stored, "pending")
       /\ UNCHANGED status

\* Nothing but the rows is left, and no row makes the new process resume the run.
Crash ==
  /\ runner.pc # "gone"
  /\ Fault
  /\ CutShort
  /\ runner' = [runner EXCEPT !.pc = "gone"]
  /\ job' = [c \in Commands |->
               IF job[c].pc = "none" THEN job[c] ELSE [job[c] EXCEPT !.pc = "ignored"]]
  /\ control' = [pc |-> "idle", op |-> "none"]
  /\ registered' = FALSE /\ closed' = FALSE
  /\ UNCHANGED <<ended, command, timeline, time, gate, behavior, todo, loose, slips>>

-----------------------------------------------------------------------------
(* Operators, and time                                                     *)

\* An operator's request moves a command.  It reads and compares too, but has no
\* effect unless the command is as it was read.
Move(c, to) ==
  /\ spent.faults + spent.moves < MaxMishaps
  /\ CanTransition(command[c], to)
  /\ spent' = [spent EXCEPT !.moves = spent.moves + 1]
  /\ command' = [command EXCEPT ![c] = to]
  /\ UNCHANGED <<run, timeline, time, gate, service, runner, todo, job, loose, slips>>

\* What is still to come, the actions being stored included.
Future ==
  pending \cup {StaticAction(i) : i \in {j \in 1..N : j >= head}}
          \cup UNION {Items(c) : c \in {d \in Commands : job[d].pc \in {"store", "insert"}}}

Tick ==
  /\ runner.pc # "gone" /\ ~gate.paused /\ ~gate.stopped
  /\ \E a \in Future : clock < a.at
  /\ clock' = clock + 1
  /\ UNCHANGED <<run, command, timeline, lastAt, gate, service, runner, todo, job, loose, slips, spent>>

-----------------------------------------------------------------------------
NoAction == [at |-> 0, seq |-> 0, kind |-> "emit", cmd |-> NoCommand]

\* startLocked has registered the engine and started its goroutine.
Init ==
  /\ status = "RUNNING"
  /\ rows = [s \in Seqs |-> IF s <= N THEN "pending" ELSE "none"]
  /\ command = [c \in Commands |-> "none"]
  /\ head = 1
  /\ pending = {}
  /\ states = [s \in Seqs |-> IF s <= N THEN "pending" ELSE "none"]
  /\ reserved = 0
  /\ nextSeq = N
  /\ tracked = {}
  /\ gate = [paused |-> FALSE, stopped |-> FALSE, finished |-> FALSE, cancelled |-> FALSE]
  /\ clock = 0
  /\ lastAt = 0
  /\ registered = TRUE
  /\ behavior \in Behaviors
  /\ runner = [pc |-> "peek", cur |-> NoAction, from |-> "none", failing |-> NoCommand,
               result |-> "ok", err |-> FALSE]
  /\ todo = {}
  /\ job = [c \in Commands |-> [pc |-> "none", base |-> 0, seq |-> 0, from |-> "none"]]
  /\ control = [pc |-> "idle", op |-> "none"]
  /\ closed = FALSE
  /\ ended = 0
  /\ loose = {}
  /\ slips = 0
  /\ spent = [controls |-> 0, moves |-> 0, faults |-> 0]

Run ==
  \/ Peek \/ WaitOver \/ WaitEnds \/ Reselect \/ Begin
  \/ Emit \/ IssueScripted \/ IssueReturns \/ Simulate \/ SimulateCas \/ Record
  \/ Skip \/ (\E c \in Commands : Drain(c)) \/ DrainCas \/ Drained \/ Conclude \/ Finalize \/ Release

Schedule(c) ==
  Deliver(c) \/ Reserve(c) \/ Store(c) \/ Insert(c) \/ Unstore(c) \/ Refuse(c) \/ RefuseCas(c)

\* The rest of a control that has begun.
Carry == Switched \/ StopCancels \/ StopFinalizes \/ CloseCancels \/ CloseReturns

Next ==
  \/ Run
  \/ Pause \/ Resume \/ Stop \/ Restart \/ Close \/ Carry
  \/ \E c \in Commands : Issue(c) \/ Schedule(c) \/ \E to \in MoveTargets : Move(c, to)
  \/ Tick
  \/ Crash

Spec == Init /\ [][Next]_vars

\* Goroutines run, statements return and time goes by.
FairSpec ==
  Spec /\ WF_vars(Run) /\ WF_vars(Carry) /\ WF_vars(Tick) /\ \A c \in Commands : WF_vars(Schedule(c))

-----------------------------------------------------------------------------
(* Properties                                                              *)

Pcs == {"peek", "wait", "pop", "act", "issuing", "cas", "record", "skip", "drain", "drainCas",
        "ended", "final", "release", "done", "gone"}

Results == {"ok", "failed", "fatal"} \cup Ended

Runner == [pc : Pcs, cur : Actions, from : CommandStates, failing : Commands \cup {NoCommand},
           result : Results, err : BOOLEAN]

JobPcs == {"none", "published", "found", "ignored", "store", "insert", "unstore", "refused",
           "cas", "done"}

Job == [pc : JobPcs, base : Nat, seq : Nat, from : CommandStates]

Gate == [paused : BOOLEAN, stopped : BOOLEAN, finished : BOOLEAN, cancelled : BOOLEAN]

Control == [pc : {"idle", "switch", "stop", "finalize", "closing", "closed"},
            op : {"none", "pause", "resume", "stop", "restart", "close"}]

Spent == [controls : 0..MaxControls, moves : 0..MaxMishaps, faults : 0..MaxMishaps]

TypeOK ==
  /\ status \in {"RUNNING", "PAUSED"} \cup Ended
  /\ rows \in [Seqs -> Marks] /\ states \in [Seqs -> Marks]
  /\ command \in [Commands -> CommandStates]
  /\ head \in 1..(N + 1)
  /\ pending \subseteq Actions
  /\ reserved \in Int /\ nextSeq \in N..MaxActions
  /\ tracked \subseteq Commands /\ todo \subseteq Commands /\ loose \subseteq Commands
  /\ gate \in Gate
  /\ clock \in Nat /\ lastAt \in Nat /\ ended \in Nat /\ slips \in Nat
  /\ registered \in BOOLEAN /\ closed \in BOOLEAN
  /\ behavior \in Behaviors
  /\ runner \in Runner
  /\ job \in [Commands -> Job]
  /\ control \in Control
  /\ spent \in Spent

\* service.go finalizeRunLocked; TestScenarioRestartUsesFreshNamespaceAndCloseFinalizesOnce:
\* whoever ends a run - its goroutine, a stop, a restart, a shutdown, a restart in the
\* next process - its end is published once, and exactly when its row says so; a crash
\* between the two statements may keep it from being published, never repeat it.
EndedOnce ==
  /\ ended = 1 => status \in Ended
  /\ ended = 0 \/ ended = 1
  /\ status \in Ended => ended = 1 \/ runner.pc = "gone"

\* The lock of the run: no pause, resume or second end changes how a run has ended.
EndIsFinal == [][(status \in Ended) => UNCHANGED status]_vars

\* service.go:672-677: a run that was stopped or shut down has not failed; only a
\* failing statement or action makes a run fail.
FailureHasCause == status = "FAILED" => spent.faults > 0

\* service.go Restart, "so restart never leaves a ghost active run behind": a run whose
\* process crashed is ended, and so are all its actions, when it has been restarted and
\* no statement of the restart failed, wherever the crash cut the old process short.
GhostIsLaid ==
  runner.pc = "gone" /\ control = [pc |-> "idle", op |-> "restart"] /\ spent.faults = 1 =>
    status \in Ended /\ \A s \in Seqs : rows[s] \notin Unfinished

\* How a run ended is told once, truly and of all its actions, whoever ended it and
\* wherever it crashed.
EndIsTold == EndedOnce /\ FailureHasCause /\ GhostIsLaid

\* engine.go Pause, "freezes virtual time": at most the action whose wait was over
\* when the run was paused begins while it is paused.
PauseHolds == gate.paused => slips <= 1

\* No request is at work on the run any more.
AtRest ==
  /\ runner.pc = "done" /\ control.pc = "idle"
  /\ \A c \in Commands : job[c].pc \in {"none", "ignored", "done"}

\* service.go finalizeRunLocked, engine.go scheduleAfterMany: although the rows of
\* actions are written without a lock by the goroutine, by those that schedule and by
\* those that end the run, in the end they are what the engine knew, none unfinished.
RowsAgree ==
  AtRest /\ spent.faults = 0 => rows = states /\ \A s \in Seqs : rows[s] \notin Unfinished

\* engine.go scheduleAfterMany: what is known and what is reserved are within the
\* capacity, and no two actions have one number, whoever schedules at the same time.
WithinCapacity ==
  /\ nextSeq = Cardinality(Known) + reserved
  /\ \A c, d \in Commands : c # d /\ {job[c].pc, job[d].pc} \subseteq {"store", "insert"} =>
       job[c].seq + Planned <= job[d].seq \/ job[d].seq + Planned <= job[c].seq

\* engine.go skipPending, failCapacity: when the run is over, a command that its
\* engine took on has an outcome, unless the engine's own transition of it failed.
CommandsSettle ==
  AtRest => \A c \in Commands :
    job[c].pc = "done" /\ command[c] \notin Settled => c \in loose

\* engine.go scheduleAfterMany, "same-seed replays deterministic": what the script
\* does is in the order of virtual time, whatever commands operators issue.
ScriptInOrder == [][lastAt' < lastAt => runner'.cur.cmd \in Commands \ Scripted]_vars

\* A run ends unless it is left paused or its process crashes.
RunEnds == <>(runner.pc \in {"done", "gone"} \/ [](gate.paused))

\* service.go Close: a shutdown is not kept waiting by a run, paused or not.
CloseDrains ==
  closed ~> (runner.pc \in {"done", "gone"} /\ (status \in Ended \/ spent.faults > 0))
=============================================================================
