------------------------- MODULE ScenarioRunProofs -------------------------
(* Safety of ScenarioRun, for every timeline, every set of commands and    *)
(* every bound.                                                            *)
EXTENDS ScenarioRun, FiniteSetTheorems, TLAPS

Reserving == {"store", "insert"}

\* The numbers that a command has reserved.
Slots(c) == (job[c].seq + 1)..(job[c].seq + Planned)

\* Numbers are known, reserved, or not yet given.
SlotInv ==
  /\ WithinCapacity
  /\ \A s \in Seqs : s <= N => states[s] # "none"
  /\ \A s \in Seqs : states[s] # "none" => s <= nextSeq
  /\ \A c \in Commands : job[c].pc \in Reserving =>
       /\ job[c].seq + Planned <= nextSeq
       /\ \A s \in Slots(c) : states[s] = "none"

\* Actions that are to be executed are known, and have a command unless they emit.
ActionInv ==
  /\ \A a \in pending : a.seq \in Known /\ a.cmd \in Commands
  /\ runner.pc \in {"wait", "pop", "act", "issuing", "cas", "record"} => runner.cur.seq \in Known
  /\ runner.cur.kind # "emit" => runner.cur.cmd \in Commands
  /\ runner.pc = "cas" => runner.cur.kind \in DOMAIN Outcome
  /\ runner.pc = "drainCas" => runner.failing \in Commands

Faulty == spent.faults > 0

\* A context is cancelled only when the engine is stopped; all else that makes a run
\* fail is a fault.
EndInv ==
  /\ EndedOnce
  /\ registered <=> runner.pc \notin {"done", "gone"}
  /\ runner.pc = "final" => runner.result \in Ended
  /\ gate.cancelled \/ control.pc \in {"stop", "closing"} => gate.stopped \/ runner.pc \in {"done", "gone"}
  /\ runner.err \/ runner.result \in {"fatal", "FAILED"} \/ status = "FAILED" => Faulty

\* An action that begins while the run is paused was about to when the run was paused.
PauseInv == gate.paused => slips = 0 \/ (slips = 1 /\ runner.pc # "pop")

IInv == TypeOK /\ SlotInv /\ ActionInv /\ EndInv /\ PauseInv

\* No command reserves numbers that it had not.
JobsKept ==
  \A c \in Commands : job'[c].pc \in Reserving => job[c].pc \in Reserving /\ job'[c].seq = job[c].seq

GateKept ==
  /\ gate' \in Gate
  /\ gate'.paused = gate.paused /\ gate'.stopped = gate.stopped /\ gate'.cancelled = gate.cancelled

-----------------------------------------------------------------------------
(* What the operators of the model yield                                   *)

\* A failed statement is within the bound, and counts.
LEMMA FaultSpent ==
  ASSUME spent \in Spent, Fault \/ UNCHANGED spent
  PROVE  spent' \in Spent /\ (Faulty => Faulty') /\ (Fault => Faulty')
BY BoundAssumption DEF Spent, Fault, Faulty

\* Marking actions keeps a map of marks.
LEMMA MarkType ==
  ASSUME NEW marks \in [Seqs -> Marks], NEW actions, NEW m \in Marks
  PROVE  Mark(marks, actions, m) \in [Seqs -> Marks]
BY DEF Mark

\* A sweep makes no number known, and forgets none (SkipPendingEvents).
LEMMA SweptOK ==
  ASSUME NEW marks \in [Seqs -> Marks]
  PROVE  /\ Swept(marks) \in [Seqs -> Marks]
         /\ \A s \in Seqs : Swept(marks)[s] = "none" <=> marks[s] = "none"
BY DEF Swept, Marks, Unfinished

\* Every simulated action has an outcome, and is no emission.
LEMMA OutcomeOK ==
  ASSUME NEW kind \in DOMAIN Outcome
  PROVE  Outcome[kind] \in CommandStates /\ kind # "emit"
BY DEF Outcome, CommandStates

\* What peekNext may choose is a known action, with its command.
LEMMA CandidatesOK ==
  ASSUME TypeOK, SlotInv, ActionInv, NEW a \in Candidates
  PROVE  a \in Actions /\ a.seq \in Known /\ (a.kind # "emit" => a.cmd \in Commands)
<1>1. CASE a \in pending
  BY <1>1 DEF TypeOK, ActionInv
<1>2. CASE head <= N /\ a = StaticAction(head)
  <2>1. head \in 1..N /\ head \in Seqs
    BY <1>2, TimelineAssumption, BoundAssumption DEF TypeOK, Seqs
  <2>2. Static[head].at \in Nat /\ Static[head].issues \in Commands \cup {NoCommand}
    BY <2>1, TimelineAssumption
  <2>3. states[head] # "none"
    BY <2>1 DEF SlotInv
  <2>4. QED
    BY <1>2, <2>1, <2>2, <2>3 DEF StaticAction, Actions, Kinds, Known
<1>3. QED
  BY <1>1, <1>2 DEF Candidates

\* finalizeRunLocked keeps the count of ends and the row together.
LEMMA FinalizeOK ==
  ASSUME TypeOK, EndedOnce, NEW st \in Ended, FinalizeLocked(st),
         runner.pc = "gone" => runner'.pc = "gone"
  PROVE  /\ rows' \in [Seqs -> Marks] /\ ended' \in Nat
         /\ status' \in {"RUNNING", "PAUSED"} \cup Ended
         /\ EndedOnce'
         /\ status' = "FAILED" => status = "FAILED" \/ st = "FAILED"
<1>1. rows' \in [Seqs -> Marks]
  BY SweptOK DEF TypeOK, FinalizeLocked
<1>2. End(st) \/ UNCHANGED <<status, ended>>
  BY DEF FinalizeLocked
<1>3. QED
  BY <1>1, <1>2 DEF TypeOK, End, EndedOnce, Ended

\* A command's work moves on.
LEMMA JobPc ==
  ASSUME NEW p \in JobPcs, NEW c \in Commands, job \in [Commands -> Job]
  PROVE  /\ [job EXCEPT ![c].pc = p] \in [Commands -> Job]
         /\ [job EXCEPT ![c].pc = p][c].pc = p
         /\ \A d \in Commands \ {c} : [job EXCEPT ![c].pc = p][d] = job[d]
BY DEF Job

\* Work that moves on, other than into a reservation, reserves nothing.
LEMMA JobStep ==
  ASSUME TypeOK, NEW c \in Commands, NEW p \in JobPcs \ Reserving, job' = [job EXCEPT ![c].pc = p]
  PROVE  /\ job' \in [Commands -> Job]
         /\ JobsKept
BY JobPc DEF TypeOK, JobsKept

\* A command schedules one or two actions.
LEMMA PlannedOK == Planned \in 1..2
BY DEF Planned

\* Reserved numbers are within the capacity.
LEMMA SlotsInSeqs ==
  ASSUME TypeOK, SlotInv, NEW c \in Commands, job[c].pc \in Reserving
  PROVE  job[c].seq \in Nat /\ Slots(c) \subseteq Seqs
BY PlannedOK, TimelineAssumption, BoundAssumption DEF TypeOK, Job, SlotInv, Slots, Seqs

\* The numbers that are known can be counted.
LEMMA KnownFinite == IsFiniteSet(Known) /\ Cardinality(Known) \in Nat
<1>1. IsFiniteSet(Seqs)
  BY FS_Interval, BoundAssumption DEF Seqs
<1>2. QED
  BY <1>1, FS_Subset, FS_CardinalityType DEF Known

\* A step that makes no number known and reserves none keeps SlotInv.
LEMMA SlotFrame ==
  ASSUME TypeOK, SlotInv, UNCHANGED <<reserved, nextSeq, behavior>>, JobsKept,
         \A s \in Seqs : states'[s] = "none" <=> states[s] = "none"
  PROVE  SlotInv'
<1>1. Known' = Known /\ Planned' = Planned
  BY DEF Known, Planned
<1>2. nextSeq' = Cardinality(Known') + reserved'
  BY <1>1 DEF SlotInv, WithinCapacity
<1>3. ASSUME NEW c \in Commands, NEW d \in Commands, c # d,
             {job'[c].pc, job'[d].pc} \subseteq {"store", "insert"}
      PROVE  job'[c].seq + Planned' <= job'[d].seq \/ job'[d].seq + Planned' <= job'[c].seq
  <2>1. /\ {job[c].pc, job[d].pc} \subseteq {"store", "insert"}
        /\ job'[c].seq = job[c].seq /\ job'[d].seq = job[d].seq
    BY <1>3 DEF JobsKept, Reserving
  <2>2. QED
    BY <1>1, <1>3, <2>1 DEF SlotInv, WithinCapacity
<1>4. ASSUME NEW c \in Commands, job'[c].pc \in Reserving
      PROVE  job'[c].seq + Planned' <= nextSeq' /\ \A s \in Slots(c)' : states'[s] = "none"
  <2>1. job[c].pc \in Reserving /\ job'[c].seq = job[c].seq
    BY <1>4 DEF JobsKept
  <2>2. Slots(c)' = Slots(c)
    BY <1>1, <2>1 DEF Slots
  <2>3. job'[c].seq + Planned' <= nextSeq'
    BY <1>1, <2>1 DEF SlotInv
  <2>4. Slots(c) \subseteq Seqs /\ \A s \in Slots(c) : states[s] = "none"
    BY <2>1, SlotsInSeqs DEF SlotInv
  <2>5. QED
    BY <2>2, <2>3, <2>4
<1>5. QED
  BY <1>2, <1>3, <1>4 DEF SlotInv, WithinCapacity

\* A command's actions are as many as the numbers that it reserved, and have those.
LEMMA ItemsOK ==
  ASSUME TypeOK, NEW c \in Commands
  PROVE  /\ Items(c) \subseteq Actions
         /\ \A a \in Items(c) : a.cmd = c /\ a.seq \in Slots(c)
         /\ \A s \in Slots(c) : \E a \in Items(c) : a.seq = s
<1> DEFINE base == job[c].base
           seq == job[c].seq
           act(kind, delay, n) == [at |-> base + delay, seq |-> seq + n, kind |-> kind, cmd |-> c]
<1>1. base \in Nat /\ seq \in Nat
  BY DEF TypeOK, Job
<1>2. \A kind \in Kinds, delay \in Nat, n \in 1..2 : act(kind, delay, n) \in Actions
  BY <1>1 DEF Actions
<1>kinds. /\ {"acknowledge", "complete", "reject", "fail", "timeout"} \subseteq Kinds
          /\ {1, 2} \subseteq 1..2
  BY DEF Kinds, Outcome
<1>3. behavior \in {"normal", "reject", "fail", "timeout"}
  BY CommandAssumption DEF TypeOK
<1>4. CASE behavior = "normal"
  <2>1. Items(c) = {act("acknowledge", AckDelay, 1), act("complete", CompleteDelay, 2)}
    BY <1>4 DEF Items, Plan
  <2>2. Slots(c) = {seq + 1, seq + 2}
    BY <1>1, <1>4 DEF Slots, Planned
  <2>3. /\ act("acknowledge", AckDelay, 1) \in Actions
        /\ act("complete", CompleteDelay, 2) \in Actions
    BY <1>2, <1>kinds, CommandAssumption
  <2>4. \A a \in Items(c) : a \in Actions /\ a.cmd = c /\ a.seq \in Slots(c)
    BY <2>1, <2>2, <2>3
  <2>5. act("acknowledge", AckDelay, 1).seq = seq + 1 /\ act("complete", CompleteDelay, 2).seq = seq + 2
    OBVIOUS
  <2>6. \A s \in Slots(c) : \E a \in Items(c) : a.seq = s
    BY <2>1, <2>2, <2>5
  <2>7. QED
    BY <2>4, <2>6
<1>5. CASE behavior # "normal"
  <2>1. PICK kind \in {"reject", "fail", "timeout"}, delay \in Nat : Items(c) = {act(kind, delay, 1)}
    BY <1>3, <1>5, CommandAssumption DEF Items, Plan
  <2>2. Slots(c) = {seq + 1}
    BY <1>1, <1>5 DEF Slots, Planned
  <2>3. act(kind, delay, 1) \in Actions
    BY <1>2, <1>kinds, <2>1
  <2>4. \A a \in Items(c) : a \in Actions /\ a.cmd = c /\ a.seq \in Slots(c)
    BY <2>1, <2>2, <2>3
  <2>5. act(kind, delay, 1).seq = seq + 1
    OBVIOUS
  <2>6. \A s \in Slots(c) : \E a \in Items(c) : a.seq = s
    BY <2>1, <2>2, <2>5
  <2>7. QED
    BY <2>4, <2>6
<1>6. QED
  BY <1>4, <1>5

\* A command's numbers become known, and are no longer reserved.
LEMMA Placed ==
  ASSUME TypeOK, SlotInv, NEW c \in Commands, job[c].pc \in Reserving,
         NEW m \in Marks \ {"none"}, states' = Mark(states, Items(c), m),
         reserved' = reserved - Planned, UNCHANGED <<nextSeq, behavior>>,
         JobsKept, job'[c].pc \notin Reserving
  PROVE  SlotInv' /\ states' \in [Seqs -> Marks] /\ Known' = Known \cup Slots(c)
<1>1. /\ job[c].seq \in Nat /\ Slots(c) \subseteq Seqs
      /\ job[c].seq + Planned <= nextSeq
      /\ \A s \in Slots(c) : states[s] = "none"
  BY SlotsInSeqs DEF SlotInv
<1>2. \A s \in Seqs : states'[s] = IF s \in Slots(c) THEN m ELSE states[s]
  BY ItemsOK DEF Mark
<1>3. states' \in [Seqs -> Marks]
  BY MarkType DEF TypeOK
<1>4. Known' = Known \cup Slots(c) /\ Known \cap Slots(c) = {}
  BY <1>1, <1>2 DEF Known
<1>5. Planned \in 1..2 /\ Planned' = Planned
  BY DEF Planned
<1>6. IsFiniteSet(Slots(c)) /\ Cardinality(Slots(c)) = Planned
  BY SMTT(30), <1>1, <1>5, FS_Interval DEF Slots
<1>7. Cardinality(Known') = Cardinality(Known) + Planned
  <2>1. Cardinality(Known \cup Slots(c)) =
          Cardinality(Known) + Cardinality(Slots(c)) - Cardinality(Known \cap Slots(c))
    BY <1>6, KnownFinite, FS_Union
  <2>2. Cardinality(Known \cap Slots(c)) = 0
    BY <1>4, FS_EmptySet
  <2>3. QED
    BY <1>4, <1>5, <1>6, <2>1, <2>2, KnownFinite
<1>8. nextSeq' = Cardinality(Known') + reserved'
  BY <1>5, <1>7, KnownFinite DEF SlotInv, WithinCapacity, TypeOK
<1>9. ASSUME NEW d \in Commands, job'[d].pc \in Reserving
      PROVE  d # c /\ job[d].pc \in Reserving /\ job'[d].seq = job[d].seq
  BY <1>9 DEF JobsKept
<1>10. ASSUME NEW d \in Commands, NEW e \in Commands, d # e,
             {job'[d].pc, job'[e].pc} \subseteq {"store", "insert"}
       PROVE  job'[d].seq + Planned' <= job'[e].seq \/ job'[e].seq + Planned' <= job'[d].seq
  <2>1. /\ {job[d].pc, job[e].pc} \subseteq {"store", "insert"}
        /\ job'[d].seq = job[d].seq /\ job'[e].seq = job[e].seq
    BY <1>9, <1>10 DEF Reserving
  <2>2. QED
    BY <1>5, <1>10, <2>1 DEF SlotInv, WithinCapacity
<1>11. ASSUME NEW d \in Commands, job'[d].pc \in Reserving
       PROVE  job'[d].seq + Planned' <= nextSeq' /\ \A s \in Slots(d)' : states'[s] = "none"
  <2>1. d # c /\ job[d].pc \in Reserving /\ job'[d].seq = job[d].seq /\ Slots(d)' = Slots(d)
    BY <1>5, <1>9, <1>11 DEF Slots
  <2>2. job[d].seq \in Nat /\ Slots(d) \subseteq Seqs /\ \A s \in Slots(d) : states[s] = "none"
    BY <2>1, SlotsInSeqs DEF SlotInv
  <2>3. job[c].seq + Planned <= job[d].seq \/ job[d].seq + Planned <= job[c].seq
    BY <2>1 DEF SlotInv, WithinCapacity, Reserving
  <2>4. Slots(d) \cap Slots(c) = {}
    BY <1>1, <1>5, <2>2, <2>3 DEF Slots
  <2>5. job'[d].seq + Planned' <= nextSeq'
    BY <1>5, <2>1 DEF SlotInv
  <2>6. QED
    BY <1>2, <2>1, <2>2, <2>4, <2>5
<1>12. \A s \in Seqs : s <= N => states'[s] # "none"
  BY <1>2 DEF SlotInv
<1>13. \A s \in Seqs : states'[s] # "none" => s <= nextSeq'
  <2>1. ASSUME NEW s \in Slots(c) PROVE s <= nextSeq
    BY <1>1, <1>5 DEF Slots, TypeOK
  <2>2. QED
    BY <1>2, <2>1 DEF SlotInv
<1>14. QED
  BY <1>3, <1>4, <1>8, <1>10, <1>11, <1>12, <1>13 DEF SlotInv, WithinCapacity

-----------------------------------------------------------------------------
(* Every action preserves the invariant                                    *)

LEMMA PeekStep == ASSUME IInv, Peek PROVE IInv'
<1>1. UNCHANGED <<status, rows, command, head, pending, states, reserved, nextSeq, tracked, clock,
                  lastAt, registered, behavior, todo, job, control, closed, ended, loose, slips,
                  spent>>
  BY DEF Peek, run, timeline, time, service
<1>2. Faulty' = Faulty
  BY <1>1 DEF Faulty
<1>3. GateKept
  BY DEF IInv, TypeOK, Gate, GateKept, Peek
<1>4. \/ runner' = [runner EXCEPT !.pc = "ended"]
      \/ \E a \in Candidates : runner' = [runner EXCEPT !.pc = "wait", !.cur = a]
  BY DEF IsFirst, Peek
<1>5. /\ runner' \in Runner
      /\ runner'.pc \in {"ended", "wait"}
      /\ runner'.cur \in Candidates \/ (runner'.pc = "ended" /\ runner'.cur = runner.cur)
      /\ runner'.result = runner.result /\ runner'.err = runner.err
  BY <1>4, CandidatesOK DEF IInv, TypeOK, Runner, Pcs
<1>6. runner.pc = "peek"
  BY DEF Peek
<1>7. TypeOK'
  BY <1>1, <1>3, <1>4, <1>5 DEF IInv, TypeOK, GateKept
<1>8. SlotInv'
  BY <1>1, SlotFrame DEF IInv, JobsKept
<1>9. ActionInv'
  BY <1>1, <1>4, <1>5, <1>6, CandidatesOK DEF IInv, ActionInv, Known
<1>10. EndInv'
  BY <1>1, <1>2, <1>3, <1>4, <1>5, <1>6 DEF IInv, EndInv, EndedOnce, Ended, GateKept
<1>11. PauseInv'
  BY <1>1, <1>3, <1>4, <1>5, <1>6 DEF IInv, PauseInv, GateKept
<1>12. QED
  BY <1>7, <1>8, <1>9, <1>10, <1>11 DEF IInv

LEMMA WaitOverStep == ASSUME IInv, WaitOver PROVE IInv'
<1>1. UNCHANGED <<status, rows, command, head, pending, states, reserved, nextSeq, tracked, gate,
                  clock, lastAt, registered, behavior, todo, job, control, closed, ended, loose,
                  slips, spent>>
  BY DEF WaitOver, run, timeline, time, service
<1>2. Faulty' = Faulty
  BY <1>1 DEF Faulty
<1>3. /\ runner' \in Runner
      /\ runner'.pc = "pop" /\ runner.pc = "wait"
      /\ runner'.cur = runner.cur /\ runner'.result = runner.result /\ runner'.err = runner.err
      /\ ~gate.paused
  BY DEF IInv, TypeOK, Runner, Pcs, Due, WaitOver
<1>4. TypeOK'
  BY <1>1, <1>3 DEF IInv, TypeOK
<1>5. SlotInv'
  BY <1>1, SlotFrame DEF IInv, JobsKept
<1>6. ActionInv'
  BY <1>1, <1>3 DEF IInv, ActionInv, Known
<1>7. EndInv'
  BY <1>1, <1>2, <1>3 DEF IInv, EndInv, EndedOnce, Ended
<1>8. PauseInv'
  BY <1>1, <1>3 DEF IInv, PauseInv
<1>9. QED
  BY <1>4, <1>5, <1>6, <1>7, <1>8 DEF IInv

LEMMA WaitEndsStep == ASSUME IInv, WaitEnds PROVE IInv'
<1>1. UNCHANGED <<status, rows, command, head, pending, states, reserved, nextSeq, tracked, clock,
                  lastAt, registered, behavior, todo, job, control, closed, ended, loose, slips,
                  spent>>
  BY DEF WaitEnds, run, timeline, time, service
<1>2. Faulty' = Faulty
  BY <1>1 DEF Faulty
<1>3. GateKept
  BY DEF IInv, TypeOK, Gate, GateKept, WaitEnds
<1>4. /\ runner' \in Runner
      /\ runner'.pc = "skip" /\ runner.pc = "wait"
      /\ runner'.cur = runner.cur /\ runner'.result = runner.result
      /\ runner'.err => gate.cancelled /\ ~gate.stopped
  BY DEF IInv, TypeOK, Runner, Pcs, Gate, WaitEnds
<1>5. TypeOK'
  BY <1>1, <1>3, <1>4 DEF IInv, TypeOK, GateKept
<1>6. SlotInv'
  BY <1>1, SlotFrame DEF IInv, JobsKept
<1>7. ActionInv'
  BY <1>1, <1>4 DEF IInv, ActionInv, Known
<1>8. EndInv'
  BY <1>1, <1>2, <1>3, <1>4 DEF IInv, EndInv, EndedOnce, Ended, GateKept
<1>9. PauseInv'
  BY <1>1, <1>3, <1>4 DEF IInv, PauseInv, GateKept
<1>10. QED
  BY <1>5, <1>6, <1>7, <1>8, <1>9 DEF IInv

LEMMA ReselectStep == ASSUME IInv, Reselect PROVE IInv'
<1>1. UNCHANGED <<status, rows, command, head, pending, states, reserved, nextSeq, tracked, gate,
                  clock, lastAt, registered, behavior, todo, job, control, closed, ended, loose,
                  slips, spent>>
  BY DEF Reselect, run, timeline, time, service
<1>2. Faulty' = Faulty
  BY <1>1 DEF Faulty
<1>3. /\ runner' \in Runner
      /\ runner'.pc = "peek" /\ runner.pc = "pop"
      /\ runner'.cur = runner.cur /\ runner'.result = runner.result /\ runner'.err = runner.err
  BY DEF IInv, TypeOK, ActionInv, Runner, Results, Ended, Pcs, Reselect
<1>4. TypeOK'
  BY <1>1, <1>3 DEF IInv, TypeOK
<1>5. SlotInv'
  BY <1>1, SlotFrame DEF IInv, JobsKept
<1>6. ActionInv'
  BY <1>1, <1>3 DEF IInv, ActionInv, Known
<1>7. EndInv'
  BY <1>1, <1>2, <1>3 DEF IInv, EndInv, EndedOnce, Ended
<1>8. PauseInv'
  BY <1>1, <1>3 DEF IInv, PauseInv
<1>9. QED
  BY <1>4, <1>5, <1>6, <1>7, <1>8 DEF IInv

LEMMA BeginStep == ASSUME IInv, Begin PROVE IInv'
<1>1. UNCHANGED <<status, command, reserved, nextSeq, tracked, registered, behavior, todo, job,
                  control, closed, ended, loose>>
  BY DEF Begin, run, timeline, time, service
<1>2. Fault \/ UNCHANGED spent
  BY DEF Begin, Blocked
<1>3. /\ spent' \in Spent
      /\ Faulty => Faulty'
      /\ Fault => Faulty'
  BY <1>2, FaultSpent DEF IInv, TypeOK
<1>4. GateKept
  BY DEF IInv, TypeOK, Gate, GateKept, Begin
<1>5. /\ runner' \in Runner
      /\ runner.pc = "pop" /\ runner'.pc \in {"act", "skip"}
      /\ runner'.cur = runner.cur /\ runner'.result = runner.result
      /\ runner'.err => runner.err \/ Faulty'
  BY <1>4, FaultSpent DEF IInv, TypeOK, Runner, Pcs, Begin
<1>6. runner.cur \in Actions /\ runner.cur.seq \in Known
  BY DEF IInv, TypeOK, Runner, ActionInv, Begin
<1>7. states' = Mark(states, {runner.cur}, "running")
  BY DEF Begin
<1>8. /\ states' \in [Seqs -> Marks]
      /\ \A s \in Seqs : states'[s] = "none" <=> states[s] = "none"
  BY <1>6, <1>7 DEF IInv, TypeOK, Marks, Mark, Known
<1>9. rows' \in [Seqs -> Marks]
  BY MarkType DEF IInv, TypeOK, Marks, Begin
<1>10. /\ clock' \in Nat /\ lastAt' \in Nat
       /\ slips' \in Nat /\ slips' = slips + (IF gate.paused THEN 1 ELSE 0)
  BY <1>6 DEF IInv, TypeOK, Actions, Begin
<1>11. /\ head' \in 1..(N + 1)
       /\ pending' \subseteq pending
  BY TimelineAssumption DEF IInv, TypeOK, PopsStatic, Begin
<1>12. TypeOK'
  BY <1>1, <1>3, <1>4, <1>5, <1>8, <1>9, <1>10, <1>11 DEF IInv, TypeOK, GateKept
<1>13. SlotInv'
  BY <1>1, <1>6, <1>8, SlotFrame DEF IInv, JobsKept
<1>14. ActionInv'
  BY <1>1, <1>5, <1>6, <1>8, <1>11 DEF IInv, ActionInv, Known
<1>15. EndInv'
  BY <1>1, <1>3, <1>4, <1>5, <1>6, <1>10 DEF IInv, EndInv, EndedOnce, Ended, GateKept
<1>16. PauseInv'
  BY <1>4, <1>5, <1>10 DEF IInv, PauseInv, GateKept, TypeOK
<1>17. QED
  BY <1>12, <1>13, <1>14, <1>15, <1>16 DEF IInv

LEMMA EmitStep == ASSUME IInv, Emit PROVE IInv'
<1>1. UNCHANGED <<status, rows, command, head, pending, states, reserved, nextSeq, tracked, gate,
                  clock, lastAt, registered, behavior, todo, job, control, closed, ended, loose,
                  slips>>
  BY DEF Emit, run, timeline, time, service
<1>2. Fault \/ UNCHANGED spent
  BY DEF Emit, Blocked
<1>3. /\ spent' \in Spent
      /\ Faulty => Faulty'
      /\ Fault => Faulty'
  BY <1>2, FaultSpent DEF IInv, TypeOK
<1>4. /\ runner' \in Runner
      /\ runner'.pc = "record" /\ runner.pc = "act"
      /\ runner'.cur = runner.cur /\ runner'.err = runner.err
      /\ runner'.result \in {"ok", "failed"} \/ Faulty'
  BY <1>3 DEF IInv, TypeOK, Runner, Results, Pcs, Emit
<1>5. TypeOK'
  BY <1>1, <1>3, <1>4 DEF IInv, TypeOK
<1>6. SlotInv'
  BY <1>1, SlotFrame DEF IInv, JobsKept
<1>7. ActionInv'
  BY <1>1, <1>4 DEF IInv, ActionInv, Known
<1>8. EndInv'
  BY <1>1, <1>3, <1>4 DEF IInv, EndInv, EndedOnce, Ended
<1>9. PauseInv'
  BY <1>1, <1>4 DEF IInv, PauseInv
<1>10. QED
  BY <1>5, <1>6, <1>7, <1>8, <1>9 DEF IInv

LEMMA IssueScriptedStep == ASSUME IInv, IssueScripted PROVE IInv'
<1>1. UNCHANGED <<status, rows, head, pending, states, reserved, nextSeq, tracked, gate, clock,
                  lastAt, registered, behavior, todo, control, closed, ended, loose, slips>>
  BY DEF IssueScripted, run, timeline, time, service
<1>2. Fault \/ UNCHANGED spent
  BY DEF IssueScripted, Blocked
<1>3. /\ spent' \in Spent
      /\ Faulty => Faulty'
      /\ Fault => Faulty'
  BY <1>2, FaultSpent DEF IInv, TypeOK
<1>4. /\ runner' \in Runner
      /\ runner'.pc \in {"issuing", "record"} /\ runner.pc = "act"
      /\ runner'.cur = runner.cur /\ runner'.err = runner.err
      /\ runner'.result \in {runner.result, "failed"}
  BY DEF IInv, TypeOK, Runner, Results, Pcs, IssueScripted
<1>5. command' \in [Commands -> CommandStates]
  BY DEF IInv, TypeOK, CommandStates, IssueScripted
<1>6. runner.cur.cmd \in Commands
  BY DEF IInv, ActionInv, IssueScripted
<1>7. job' = job \/ job' = [job EXCEPT ![runner.cur.cmd].pc = "published"]
  BY DEF IssueScripted
<1>8. /\ job' \in [Commands -> Job]
      /\ JobsKept
  <2>1. CASE job' = job
    BY <2>1 DEF IInv, TypeOK, JobsKept
  <2>2. CASE job' = [job EXCEPT ![runner.cur.cmd].pc = "published"]
    BY <1>6, <2>2, JobStep DEF IInv, JobPcs, Reserving
  <2>3. QED
    BY <1>7, <2>1, <2>2
<1>9. TypeOK'
  BY <1>1, <1>3, <1>4, <1>5, <1>8 DEF IInv, TypeOK
<1>10. SlotInv'
  BY <1>1, <1>7, <1>8, SlotFrame DEF IInv
<1>11. ActionInv'
  BY <1>1, <1>4, <1>6, <1>7 DEF IInv, ActionInv, Known
<1>12. EndInv'
  BY <1>1, <1>3, <1>4, <1>6, <1>7 DEF IInv, EndInv, EndedOnce, Ended
<1>13. PauseInv'
  BY <1>1, <1>4, <1>6, <1>7 DEF IInv, PauseInv
<1>14. QED
  BY <1>9, <1>10, <1>11, <1>12, <1>13 DEF IInv

LEMMA IssueReturnsStep == ASSUME IInv, IssueReturns PROVE IInv'
<1>1. UNCHANGED <<status, rows, command, head, pending, states, reserved, nextSeq, tracked, gate,
                  clock, lastAt, registered, behavior, todo, job, control, closed, ended, loose,
                  slips, spent>>
  BY DEF IssueReturns, run, timeline, time, service
<1>2. Faulty' = Faulty
  BY <1>1 DEF Faulty
<1>3. /\ runner' \in Runner
      /\ runner'.pc = "record" /\ runner.pc = "issuing"
      /\ runner'.cur = runner.cur /\ runner'.err = runner.err
      /\ runner'.result = "ok"
  BY DEF IInv, TypeOK, ActionInv, Runner, Results, Ended, Pcs, IssueReturns
<1>4. TypeOK'
  BY <1>1, <1>3 DEF IInv, TypeOK
<1>5. SlotInv'
  BY <1>1, SlotFrame DEF IInv, JobsKept
<1>6. ActionInv'
  BY <1>1, <1>3 DEF IInv, ActionInv, Known
<1>7. EndInv'
  BY <1>1, <1>2, <1>3 DEF IInv, EndInv, EndedOnce, Ended
<1>8. PauseInv'
  BY <1>1, <1>3 DEF IInv, PauseInv
<1>9. QED
  BY <1>4, <1>5, <1>6, <1>7, <1>8 DEF IInv

LEMMA SimulateStep == ASSUME IInv, Simulate PROVE IInv'
<1>1. UNCHANGED <<status, rows, command, head, pending, states, reserved, nextSeq, gate, clock,
                  lastAt, registered, behavior, todo, job, control, closed, ended, slips>>
  BY DEF Simulate, run, timeline, time, service
<1>2. Fault \/ UNCHANGED spent
  BY DEF Simulate, Blocked
<1>3. /\ spent' \in Spent
      /\ Faulty => Faulty'
      /\ Fault => Faulty'
  BY <1>2, FaultSpent DEF IInv, TypeOK
<1>4. runner.cur.cmd \in Commands
  BY OutcomeOK DEF IInv, ActionInv, TypeOK, Runner, Actions, Simulate
<1>5. tracked' \subseteq Commands /\ loose' \subseteq Commands
  BY <1>4 DEF IInv, TypeOK, GiveUp, Simulate
<1>6. \/ runner' = [runner EXCEPT !.pc = "cas", !.from = command[runner.cur.cmd]]
      \/ runner' = [runner EXCEPT !.pc = "record", !.result = "failed"]
  BY DEF Simulate
<1>7. command[runner.cur.cmd] \in CommandStates
  BY <1>4 DEF IInv, TypeOK
<1>8. /\ runner' \in Runner
      /\ runner'.pc \in {"cas", "record"}
      /\ runner'.cur = runner.cur /\ runner'.err = runner.err
      /\ runner'.result \in {runner.result, "failed"}
  BY <1>6, <1>7 DEF IInv, TypeOK, Runner, Results, Pcs
<1>9. runner.pc = "act" /\ runner.cur.kind \in DOMAIN Outcome
  BY DEF Simulate
<1>10. TypeOK'
  BY <1>1, <1>3, <1>5, <1>6, <1>8 DEF IInv, TypeOK
<1>11. SlotInv'
  BY <1>1, SlotFrame DEF IInv, JobsKept
<1>12. ActionInv'
  BY <1>1, <1>4, <1>6, <1>7, <1>8, <1>9 DEF IInv, ActionInv, Known
<1>13. EndInv'
  BY <1>1, <1>3, <1>4, <1>6, <1>7, <1>8, <1>9 DEF IInv, EndInv, EndedOnce, Ended
<1>14. PauseInv'
  BY <1>1, <1>4, <1>6, <1>7, <1>8, <1>9 DEF IInv, PauseInv
<1>15. QED
  BY <1>10, <1>11, <1>12, <1>13, <1>14 DEF IInv

LEMMA SimulateCasStep == ASSUME IInv, SimulateCas PROVE IInv'
<1>1. UNCHANGED <<status, rows, head, pending, states, reserved, nextSeq, gate, clock, lastAt,
                  registered, behavior, todo, job, control, closed, ended, slips>>
  BY DEF SimulateCas, run, timeline, time, service
<1>2. Fault \/ UNCHANGED spent
  BY DEF SimulateCas, Blocked
<1>3. /\ spent' \in Spent
      /\ Faulty => Faulty'
      /\ Fault => Faulty'
  BY <1>2, FaultSpent DEF IInv, TypeOK
<1>4. runner.cur.cmd \in Commands /\ Outcome[runner.cur.kind] \in CommandStates
  BY OutcomeOK DEF IInv, ActionInv, TypeOK, Runner, Actions, SimulateCas
<1>5. tracked' \subseteq Commands /\ loose' \subseteq Commands
  BY <1>4 DEF IInv, TypeOK, GiveUp, SimulateCas
<1>6. command' \in [Commands -> CommandStates]
  BY <1>4 DEF IInv, TypeOK, SimulateCas
<1>7. /\ runner' \in Runner
      /\ runner'.pc = "record" /\ runner.pc = "cas"
      /\ runner'.cur = runner.cur /\ runner'.err = runner.err
      /\ runner'.result \in {"ok", "failed"}
  BY DEF IInv, TypeOK, Runner, Results, Pcs, SimulateCas
<1>8. TypeOK'
  BY <1>1, <1>3, <1>5, <1>6, <1>7 DEF IInv, TypeOK
<1>9. SlotInv'
  BY <1>1, SlotFrame DEF IInv, JobsKept
<1>10. ActionInv'
  BY <1>1, <1>4, <1>7 DEF IInv, ActionInv, Known
<1>11. EndInv'
  BY <1>1, <1>3, <1>4, <1>7 DEF IInv, EndInv, EndedOnce, Ended
<1>12. PauseInv'
  BY <1>1, <1>4, <1>7 DEF IInv, PauseInv
<1>13. QED
  BY <1>8, <1>9, <1>10, <1>11, <1>12 DEF IInv

LEMMA RecordStep == ASSUME IInv, Record PROVE IInv'
<1>1. UNCHANGED <<status, command, head, pending, reserved, nextSeq, tracked, clock, lastAt,
                  registered, behavior, todo, job, control, closed, ended, loose, slips>>
  BY DEF Record, run, timeline, time, service
<1>2. Fault \/ UNCHANGED spent
  BY DEF Record, Blocked
<1>3. /\ spent' \in Spent
      /\ Faulty => Faulty'
      /\ Fault => Faulty'
  BY <1>2, FaultSpent DEF IInv, TypeOK
<1>4. GateKept
  BY DEF IInv, TypeOK, Gate, GateKept, Record
<1>5. /\ runner' \in Runner
      /\ runner.pc = "record" /\ runner'.pc \in {"skip", "peek"}
      /\ runner'.cur = runner.cur /\ runner'.result = runner.result
      /\ runner'.err => runner.err \/ runner.result = "fatal" \/ Faulty'
  <2>1. runner \in Runner /\ runner.pc = "record"
    BY DEF IInv, TypeOK, Record
  <2>2. \/ /\ runner' = [runner EXCEPT !.pc = "skip", !.err = TRUE]
           /\ runner.result = "fatal" \/ Fault
        \/ runner' = [runner EXCEPT !.pc = "peek"]
    BY DEF Record
  <2>3. QED
    BY <1>3, <2>1, <2>2 DEF Runner, Pcs
<1>6. runner.cur.seq \in Known
  BY DEF IInv, ActionInv, Record
<1>7. \E m \in {"completed", "failed"} : states' = Mark(states, {runner.cur}, m)
  BY DEF Record
<1>8. /\ states' \in [Seqs -> Marks]
      /\ \A s \in Seqs : states'[s] = "none" <=> states[s] = "none"
  BY <1>6, <1>7 DEF IInv, TypeOK, Marks, Mark, Known
<1>9. rows' \in [Seqs -> Marks]
  BY MarkType DEF IInv, TypeOK, Marks, Record
<1>10. TypeOK'
  BY <1>1, <1>3, <1>4, <1>5, <1>8, <1>9 DEF IInv, TypeOK, GateKept
<1>11. SlotInv'
  BY <1>1, <1>6, <1>7, <1>8, SlotFrame DEF IInv, JobsKept
<1>12. ActionInv'
  BY <1>1, <1>5, <1>6, <1>7, <1>8 DEF IInv, ActionInv, Known
<1>13. EndInv'
  BY <1>1, <1>3, <1>4, <1>5, <1>6, <1>7 DEF IInv, EndInv, EndedOnce, Ended, GateKept
<1>14. PauseInv'
  BY <1>1, <1>4, <1>5, <1>6, <1>7 DEF IInv, PauseInv, GateKept
<1>15. QED
  BY <1>10, <1>11, <1>12, <1>13, <1>14 DEF IInv

LEMMA SkipStep == ASSUME IInv, Skip PROVE IInv'
<1>1. UNCHANGED <<status, command, head, pending, reserved, nextSeq, gate, clock, lastAt,
                  registered, behavior, job, control, closed, ended, loose, slips>>
  BY DEF Skip, run, timeline, time, service
<1>2. Fault \/ UNCHANGED spent
  BY DEF Skip, Blocked
<1>3. /\ spent' \in Spent
      /\ Faulty => Faulty'
      /\ Fault => Faulty'
  BY <1>2, FaultSpent DEF IInv, TypeOK
<1>4. /\ runner' \in Runner
      /\ runner.pc = "skip" /\ runner'.pc = "drain"
      /\ runner'.cur = runner.cur /\ runner'.result = runner.result /\ runner'.err = runner.err
  BY DEF IInv, TypeOK, ActionInv, Runner, Results, Ended, Pcs, Skip
<1>5. /\ states' \in [Seqs -> Marks] /\ rows' \in [Seqs -> Marks]
      /\ \A s \in Seqs : states'[s] = "none" <=> states[s] = "none"
  BY SweptOK DEF IInv, TypeOK, Skip
<1>6. todo' \subseteq Commands /\ tracked' \subseteq Commands
  BY DEF IInv, TypeOK, AfterSkip, Skip
<1>7. TypeOK'
  BY <1>1, <1>3, <1>4, <1>5, <1>6 DEF IInv, TypeOK
<1>8. SlotInv'
  BY <1>1, <1>5, SlotFrame DEF IInv, JobsKept
<1>9. ActionInv'
  BY <1>1, <1>4, <1>5 DEF IInv, ActionInv, Known
<1>10. EndInv'
  BY <1>1, <1>3, <1>4 DEF IInv, EndInv, EndedOnce, Ended
<1>11. PauseInv'
  BY <1>1, <1>4 DEF IInv, PauseInv
<1>12. QED
  BY <1>7, <1>8, <1>9, <1>10, <1>11 DEF IInv

LEMMA DrainStep == ASSUME IInv, NEW c \in Commands, Drain(c) PROVE IInv'
<1>1. UNCHANGED <<status, rows, command, head, pending, states, reserved, nextSeq, tracked, gate,
                  clock, lastAt, registered, behavior, job, control, closed, ended, slips>>
  BY DEF Drain, run, timeline, time, service
<1>2. Fault \/ UNCHANGED spent
  BY DEF Drain, Blocked
<1>3. /\ spent' \in Spent
      /\ Faulty => Faulty'
      /\ Fault => Faulty'
  BY <1>2, FaultSpent DEF IInv, TypeOK
<1>4. /\ runner' \in Runner
      /\ runner.pc = "drain" /\ runner'.pc \in {"drain", "drainCas"}
      /\ runner'.cur = runner.cur /\ runner'.result = runner.result /\ runner'.err = runner.err
      /\ runner'.pc = "drainCas" => runner'.failing = c
  BY ZenonT(30) DEF IInv, TypeOK, Runner, Pcs, Drain
<1>5. todo' \subseteq Commands /\ loose' \subseteq Commands
  BY DEF IInv, TypeOK, Drain
<1>6. TypeOK'
  BY <1>1, <1>3, <1>4, <1>5 DEF IInv, TypeOK
<1>7. SlotInv'
  BY <1>1, SlotFrame DEF IInv, JobsKept
<1>8. ActionInv'
  BY <1>1, <1>4 DEF IInv, ActionInv, Known
<1>9. EndInv'
  BY <1>1, <1>3, <1>4 DEF IInv, EndInv, EndedOnce, Ended
<1>10. PauseInv'
  BY <1>1, <1>4 DEF IInv, PauseInv
<1>11. QED
  BY <1>6, <1>7, <1>8, <1>9, <1>10 DEF IInv

LEMMA DrainCasStep == ASSUME IInv, DrainCas PROVE IInv'
<1>1. UNCHANGED <<status, rows, head, pending, states, reserved, nextSeq, tracked, gate, clock,
                  lastAt, registered, behavior, todo, job, control, closed, ended, slips>>
  BY DEF DrainCas, run, timeline, time, service
<1>2. Fault \/ UNCHANGED spent
  BY DEF DrainCas, Blocked
<1>3. /\ spent' \in Spent
      /\ Faulty => Faulty'
      /\ Fault => Faulty'
  BY <1>2, FaultSpent DEF IInv, TypeOK
<1>4. /\ runner' \in Runner
      /\ runner.pc = "drainCas" /\ runner'.pc = "drain"
      /\ runner'.cur = runner.cur /\ runner'.result = runner.result /\ runner'.err = runner.err
      /\ runner.failing \in Commands
  BY DEF IInv, TypeOK, ActionInv, Runner, Pcs, DrainCas
<1>5. command' \in [Commands -> CommandStates] /\ loose' \subseteq Commands
  BY <1>4 DEF IInv, TypeOK, CommandStates, DrainCas
<1>6. TypeOK'
  BY <1>1, <1>3, <1>4, <1>5 DEF IInv, TypeOK
<1>7. SlotInv'
  BY <1>1, SlotFrame DEF IInv, JobsKept
<1>8. ActionInv'
  BY <1>1, <1>4 DEF IInv, ActionInv, Known
<1>9. EndInv'
  BY <1>1, <1>3, <1>4 DEF IInv, EndInv, EndedOnce, Ended
<1>10. PauseInv'
  BY <1>1, <1>4 DEF IInv, PauseInv
<1>11. QED
  BY <1>6, <1>7, <1>8, <1>9, <1>10 DEF IInv

LEMMA DrainedStep == ASSUME IInv, Drained PROVE IInv'
<1>1. UNCHANGED <<status, rows, command, head, pending, states, reserved, nextSeq, tracked, gate,
                  clock, lastAt, registered, behavior, todo, job, control, closed, ended, loose,
                  slips, spent>>
  BY DEF Drained, run, timeline, time, service
<1>2. Faulty' = Faulty
  BY <1>1 DEF Faulty
<1>3. /\ runner' \in Runner
      /\ runner.pc = "drain" /\ runner'.pc = "ended"
      /\ runner'.cur = runner.cur /\ runner'.result = runner.result /\ runner'.err = runner.err
  BY DEF IInv, TypeOK, ActionInv, Runner, Results, Ended, Pcs, Drained
<1>4. TypeOK'
  BY <1>1, <1>3 DEF IInv, TypeOK
<1>5. SlotInv'
  BY <1>1, SlotFrame DEF IInv, JobsKept
<1>6. ActionInv'
  BY <1>1, <1>3 DEF IInv, ActionInv, Known
<1>7. EndInv'
  BY <1>1, <1>2, <1>3 DEF IInv, EndInv, EndedOnce, Ended
<1>8. PauseInv'
  BY <1>1, <1>3 DEF IInv, PauseInv
<1>9. QED
  BY <1>4, <1>5, <1>6, <1>7, <1>8 DEF IInv

LEMMA ConcludeStep == ASSUME IInv, Conclude PROVE IInv'
<1>1. UNCHANGED <<status, rows, command, head, pending, states, reserved, nextSeq, tracked, gate,
                  clock, lastAt, registered, behavior, todo, job, control, closed, ended, loose,
                  slips, spent>>
  BY DEF Conclude, run, timeline, time, service
<1>2. Faulty' = Faulty
  BY <1>1 DEF Faulty
<1>3. /\ runner' \in Runner
      /\ runner.pc = "ended" /\ runner'.pc = "final"
      /\ runner'.cur = runner.cur /\ runner'.err = runner.err
      /\ runner'.result \in Ended
      /\ runner'.result = "FAILED" => runner.err
  BY DEF IInv, TypeOK, ActionInv, Runner, Results, Ended, Pcs, Conclude
<1>4. TypeOK'
  BY <1>1, <1>3 DEF IInv, TypeOK
<1>5. SlotInv'
  BY <1>1, SlotFrame DEF IInv, JobsKept
<1>6. ActionInv'
  BY <1>1, <1>3 DEF IInv, ActionInv, Known
<1>7. EndInv'
  BY <1>1, <1>2, <1>3 DEF IInv, EndInv, EndedOnce, Ended
<1>8. PauseInv'
  BY <1>1, <1>3 DEF IInv, PauseInv
<1>9. QED
  BY <1>4, <1>5, <1>6, <1>7, <1>8 DEF IInv

LEMMA FinalizeStep == ASSUME IInv, Finalize PROVE IInv'
<1>1. UNCHANGED <<command, head, pending, states, reserved, nextSeq, tracked, gate, clock, lastAt,
                  registered, behavior, todo, job, control, closed, loose, slips>>
  BY DEF Finalize, run, timeline, time, service
<1>2. Fault \/ UNCHANGED spent
  BY DEF FinalizeLocked, Finalize
<1>3. /\ spent' \in Spent
      /\ Faulty => Faulty'
      /\ Fault => Faulty'
  BY <1>2, FaultSpent DEF IInv, TypeOK
<1>4. /\ runner' \in Runner
      /\ runner.pc = "final" /\ runner'.pc = "release"
      /\ runner'.cur = runner.cur /\ runner'.result = runner.result /\ runner'.err = runner.err
  BY DEF IInv, TypeOK, ActionInv, Runner, Results, Ended, Pcs, Finalize
<1>5. runner.result \in Ended /\ FinalizeLocked(runner.result)
  BY DEF IInv, EndInv, Finalize
<1>6. /\ rows' \in [Seqs -> Marks] /\ ended' \in Nat
      /\ status' \in {"RUNNING", "PAUSED"} \cup Ended
      /\ EndedOnce'
      /\ status' = "FAILED" => status = "FAILED" \/ runner.result = "FAILED"
  BY <1>4, <1>5, FinalizeOK DEF IInv, EndInv
<1>7. TypeOK'
  BY <1>1, <1>3, <1>4, <1>6 DEF IInv, TypeOK
<1>8. SlotInv'
  BY <1>1, SlotFrame DEF IInv, JobsKept
<1>9. ActionInv'
  BY <1>1, <1>4, <1>5, <1>6 DEF IInv, ActionInv, Known
<1>10. EndInv'
  BY <1>1, <1>3, <1>4, <1>5, <1>6 DEF IInv, EndInv, EndedOnce, Ended
<1>11. PauseInv'
  BY <1>1, <1>4, <1>5, <1>6 DEF IInv, PauseInv
<1>12. QED
  BY <1>7, <1>8, <1>9, <1>10, <1>11 DEF IInv

LEMMA ReleaseStep == ASSUME IInv, Release PROVE IInv'
<1>1. UNCHANGED <<status, rows, command, head, pending, states, reserved, nextSeq, tracked, gate,
                  clock, lastAt, behavior, todo, job, control, closed, ended, loose, slips,
                  spent>>
  BY DEF Release, run, timeline, time, service
<1>2. Faulty' = Faulty
  BY <1>1 DEF Faulty
<1>3. /\ runner' \in Runner
      /\ runner.pc = "release" /\ runner'.pc = "done"
      /\ runner'.cur = runner.cur /\ runner'.result = runner.result /\ runner'.err = runner.err
  BY DEF IInv, TypeOK, ActionInv, Runner, Results, Ended, Pcs, Release
<1>4. registered' = FALSE
  BY DEF Release
<1>5. TypeOK'
  BY <1>1, <1>2, <1>3, <1>4 DEF IInv, TypeOK, GateKept
<1>6. SlotInv'
  BY <1>1, SlotFrame DEF IInv, JobsKept
<1>7. ActionInv'
  BY <1>1, <1>3 DEF IInv, ActionInv, Known
<1>8. EndInv'
  BY <1>1, <1>2, <1>3, <1>4 DEF IInv, EndInv, EndedOnce, Ended
<1>9. PauseInv'
  BY <1>1, <1>3 DEF IInv, PauseInv
<1>10. QED
  BY <1>5, <1>6, <1>7, <1>8, <1>9 DEF IInv

LEMMA PauseStep == ASSUME IInv, Pause PROVE IInv'
<1>1. UNCHANGED <<rows, command, head, pending, states, reserved, nextSeq, tracked, gate, clock,
                  lastAt, registered, behavior, runner, todo, job, closed, ended, loose, slips>>
  BY DEF Pause, Switch, run, timeline, time, service
<1>2. /\ spent' \in Spent
      /\ Faulty => Faulty'
  BY BoundAssumption DEF IInv, TypeOK, Spent, Faulty, Request, Pause, Switch
<1>3. control' \in Control /\ control'.pc = "switch"
  BY DEF IInv, TypeOK, Control, Request, Pause, Switch
<1>4. status' = "PAUSED" /\ status \notin Ended
  BY DEF Switch, Active, Pause, Switch
<1>5. TypeOK'
  BY <1>1, <1>2, <1>3, <1>4 DEF IInv, TypeOK, GateKept
<1>6. SlotInv'
  BY <1>1, SlotFrame DEF IInv, JobsKept
<1>7. ActionInv'
  BY <1>1 DEF IInv, ActionInv, Known
<1>8. EndInv'
  BY <1>1, <1>2, <1>3, <1>4 DEF IInv, EndInv, EndedOnce, Ended
<1>9. PauseInv'
  BY <1>1 DEF IInv, PauseInv
<1>10. QED
  BY <1>5, <1>6, <1>7, <1>8, <1>9 DEF IInv

LEMMA ResumeStep == ASSUME IInv, Resume PROVE IInv'
<1>1. UNCHANGED <<rows, command, head, pending, states, reserved, nextSeq, tracked, gate, clock,
                  lastAt, registered, behavior, runner, todo, job, closed, ended, loose, slips>>
  BY DEF Resume, Switch, run, timeline, time, service
<1>2. /\ spent' \in Spent
      /\ Faulty => Faulty'
  BY BoundAssumption DEF IInv, TypeOK, Spent, Faulty, Request, Resume, Switch
<1>3. control' \in Control /\ control'.pc = "switch"
  BY DEF IInv, TypeOK, Control, Request, Resume, Switch
<1>4. status' = "RUNNING" /\ status \notin Ended
  BY DEF Switch, Active, Resume, Switch
<1>5. TypeOK'
  BY <1>1, <1>2, <1>3, <1>4 DEF IInv, TypeOK, GateKept
<1>6. SlotInv'
  BY <1>1, SlotFrame DEF IInv, JobsKept
<1>7. ActionInv'
  BY <1>1 DEF IInv, ActionInv, Known
<1>8. EndInv'
  BY <1>1, <1>2, <1>3, <1>4 DEF IInv, EndInv, EndedOnce, Ended
<1>9. PauseInv'
  BY <1>1 DEF IInv, PauseInv
<1>10. QED
  BY <1>5, <1>6, <1>7, <1>8, <1>9 DEF IInv

LEMMA SwitchedStep == ASSUME IInv, Switched PROVE IInv'
<1>1. UNCHANGED <<status, rows, command, head, pending, states, reserved, nextSeq, tracked, clock,
                  lastAt, registered, behavior, runner, todo, job, closed, ended, loose, spent>>
  BY DEF Switched, run, timeline, time, service
<1>2. Faulty' = Faulty
  BY <1>1 DEF Faulty
<1>3. control' \in Control /\ control'.pc = "idle"
  BY DEF IInv, TypeOK, Control, Request, Switched
<1>4. gate' \in Gate /\ gate'.stopped = gate.stopped /\ gate'.cancelled = gate.cancelled
  BY DEF IInv, TypeOK, Gate, Switched
<1>5. slips' = 0 \/ (slips' = slips /\ gate' = gate)
  BY DEF Switched
<1>6. TypeOK'
  BY <1>1, <1>2, <1>3, <1>4, <1>5 DEF IInv, TypeOK, GateKept
<1>7. SlotInv'
  BY <1>1, SlotFrame DEF IInv, JobsKept
<1>8. ActionInv'
  BY <1>1 DEF IInv, ActionInv, Known
<1>9. EndInv'
  BY <1>1, <1>2, <1>3, <1>4, <1>5 DEF IInv, EndInv, EndedOnce, Ended
<1>10. PauseInv'
  BY <1>1, <1>4, <1>5 DEF IInv, PauseInv
<1>11. QED
  BY <1>6, <1>7, <1>8, <1>9, <1>10 DEF IInv

LEMMA StopStep == ASSUME IInv, Stop PROVE IInv'
<1>1. UNCHANGED <<status, rows, command, head, pending, states, reserved, nextSeq, tracked, clock,
                  lastAt, registered, behavior, runner, todo, job, closed, ended, loose, slips>>
  BY DEF Stop, run, timeline, time, service
<1>2. /\ spent' \in Spent
      /\ Faulty => Faulty'
  BY BoundAssumption DEF IInv, TypeOK, Spent, Faulty, Request, Stop
<1>3. control' \in Control /\ control'.pc = "stop"
  BY DEF IInv, TypeOK, Control, Request, Stop
<1>4. gate' \in Gate /\ gate'.stopped /\ gate'.paused = gate.paused
  BY DEF IInv, TypeOK, Gate, Stop
<1>5. TypeOK'
  BY <1>1, <1>2, <1>3, <1>4 DEF IInv, TypeOK
<1>6. SlotInv'
  BY <1>1, SlotFrame DEF IInv, JobsKept
<1>7. ActionInv'
  BY <1>1 DEF IInv, ActionInv, Known
<1>8. EndInv'
  BY <1>1, <1>2, <1>3, <1>4 DEF IInv, EndInv, EndedOnce, Ended
<1>9. PauseInv'
  BY <1>1, <1>4 DEF IInv, PauseInv
<1>10. QED
  BY <1>5, <1>6, <1>7, <1>8, <1>9 DEF IInv

LEMMA RestartStep == ASSUME IInv, Restart PROVE IInv'
<1>1. UNCHANGED <<status, rows, command, head, pending, states, reserved, nextSeq, tracked, clock,
                  lastAt, registered, behavior, runner, todo, job, closed, ended, loose, slips>>
  BY DEF Restart, run, timeline, time, service
<1>2. /\ spent' \in Spent
      /\ Faulty => Faulty'
  BY BoundAssumption DEF IInv, TypeOK, Spent, Faulty, Request, Restart
<1>3. \E pc \in {"stop", "finalize"} :
        /\ control' = [pc |-> pc, op |-> "restart"]
        /\ pc = "finalize" => gate' = gate
        /\ pc = "stop" => gate' = [gate EXCEPT !.stopped = TRUE]
  BY DEF Request, Restart
<1>4. gate' \in Gate /\ gate'.paused = gate.paused /\ (gate' = gate \/ gate'.stopped)
  BY <1>3 DEF IInv, TypeOK, Gate
<1>5. control' \in Control
  BY <1>3 DEF Control
<1>6. (control'.pc = "stop" /\ gate'.stopped) \/ (control'.pc = "finalize" /\ gate' = gate)
  BY <1>3 DEF IInv, TypeOK, Gate
<1>7. TypeOK'
  BY <1>1, <1>2, <1>4, <1>5 DEF IInv, TypeOK
<1>8. SlotInv'
  BY <1>1, SlotFrame DEF IInv, JobsKept
<1>9. ActionInv'
  BY <1>1 DEF IInv, ActionInv, Known
<1>10. EndInv'
  BY <1>1, <1>2, <1>3, <1>4, <1>5, <1>6 DEF IInv, EndInv, EndedOnce, Ended
<1>11. PauseInv'
  BY <1>1, <1>3, <1>4, <1>6 DEF IInv, PauseInv
<1>12. QED
  BY <1>7, <1>8, <1>9, <1>10, <1>11 DEF IInv

LEMMA StopCancelsStep == ASSUME IInv, StopCancels PROVE IInv'
<1>1. UNCHANGED <<status, rows, command, head, pending, states, reserved, nextSeq, tracked, clock,
                  lastAt, registered, behavior, runner, todo, job, closed, ended, loose, slips,
                  spent>>
  BY DEF StopCancels, Cancel, run, timeline, time, service
<1>2. Faulty' = Faulty
  BY <1>1 DEF Faulty
<1>3. control' \in Control /\ control'.pc = "finalize" /\ control.pc = "stop"
  BY DEF IInv, TypeOK, Control, Request, StopCancels, Cancel
<1>4. gate' \in Gate /\ gate'.stopped = gate.stopped /\ gate'.paused = gate.paused
  BY DEF IInv, TypeOK, Gate, StopCancels, Cancel
<1>5. TypeOK'
  BY <1>1, <1>3, <1>4 DEF IInv, TypeOK
<1>6. SlotInv'
  BY <1>1, SlotFrame DEF IInv, JobsKept
<1>7. ActionInv'
  BY <1>1 DEF IInv, ActionInv, Known
<1>8. EndInv'
  BY <1>1, <1>2, <1>3, <1>4 DEF IInv, EndInv, EndedOnce, Ended
<1>9. PauseInv'
  BY <1>1, <1>4 DEF IInv, PauseInv
<1>10. QED
  BY <1>5, <1>6, <1>7, <1>8, <1>9 DEF IInv

LEMMA StopFinalizesStep == ASSUME IInv, StopFinalizes PROVE IInv'
<1>1. UNCHANGED <<command, head, pending, states, reserved, nextSeq, tracked, gate, clock, lastAt,
                  registered, behavior, runner, todo, job, closed, loose, slips>>
  BY DEF StopFinalizes, run, timeline, time, service
<1>2. Fault \/ UNCHANGED spent
  BY DEF FinalizeLocked, StopFinalizes
<1>3. /\ spent' \in Spent
      /\ Faulty => Faulty'
      /\ Fault => Faulty'
  BY <1>2, FaultSpent DEF IInv, TypeOK
<1>4. control' \in Control /\ control'.pc = "idle"
  BY DEF IInv, TypeOK, Control, Request, StopFinalizes
<1>5. /\ rows' \in [Seqs -> Marks] /\ ended' \in Nat
      /\ status' \in {"RUNNING", "PAUSED"} \cup Ended
      /\ EndedOnce'
      /\ status' = "FAILED" => status = "FAILED" \/ "STOPPED" = "FAILED"
  BY <1>1, FinalizeOK DEF IInv, EndInv, Ended, StopFinalizes
<1>6. TypeOK'
  BY <1>1, <1>3, <1>4, <1>5 DEF IInv, TypeOK
<1>7. SlotInv'
  BY <1>1, SlotFrame DEF IInv, JobsKept
<1>8. ActionInv'
  BY <1>1 DEF IInv, ActionInv, Known
<1>9. EndInv'
  BY <1>1, <1>3, <1>4, <1>5 DEF IInv, EndInv, EndedOnce, Ended
<1>10. PauseInv'
  BY <1>1 DEF IInv, PauseInv
<1>11. QED
  BY <1>6, <1>7, <1>8, <1>9, <1>10 DEF IInv

LEMMA CloseStep == ASSUME IInv, Close PROVE IInv'
<1>1. UNCHANGED <<status, rows, command, head, pending, states, reserved, nextSeq, tracked, clock,
                  lastAt, registered, behavior, runner, todo, job, ended, loose, slips, spent>>
  BY DEF Close, run, timeline, time, service
<1>2. Faulty' = Faulty
  BY <1>1 DEF Faulty
<1>3. control' \in Control /\ control'.pc = "closing"
  BY DEF IInv, TypeOK, Control, Request, Close
<1>4. /\ gate' \in Gate /\ gate'.paused = gate.paused
      /\ IF registered THEN gate'.stopped ELSE gate' = gate
  BY DEF IInv, TypeOK, Gate, StoppedFirst, Close
<1>5. closed' \in BOOLEAN
  BY DEF Close
<1>6. TypeOK'
  BY <1>1, <1>3, <1>4, <1>5 DEF IInv, TypeOK
<1>7. SlotInv'
  BY <1>1, SlotFrame DEF IInv, JobsKept
<1>8. ActionInv'
  BY <1>1 DEF IInv, ActionInv, Known
<1>9. EndInv'
  BY <1>1, <1>2, <1>3, <1>4 DEF IInv, EndInv, EndedOnce, Ended
<1>10. PauseInv'
  BY <1>1, <1>4 DEF IInv, PauseInv
<1>11. QED
  BY <1>6, <1>7, <1>8, <1>9, <1>10 DEF IInv

LEMMA CloseCancelsStep == ASSUME IInv, CloseCancels PROVE IInv'
<1>1. UNCHANGED <<status, rows, command, head, pending, states, reserved, nextSeq, tracked, clock,
                  lastAt, registered, behavior, runner, todo, job, closed, ended, loose, slips,
                  spent>>
  BY DEF CloseCancels, Cancel, run, timeline, time, service
<1>2. Faulty' = Faulty
  BY <1>1 DEF Faulty
<1>3. control' \in Control /\ control'.pc = "closed" /\ control.pc = "closing"
  BY DEF IInv, TypeOK, Control, Request, CloseCancels, Cancel
<1>4. gate' \in Gate /\ gate'.stopped = gate.stopped /\ gate'.paused = gate.paused
  BY DEF IInv, TypeOK, Gate, CloseCancels, Cancel
<1>5. TypeOK'
  BY <1>1, <1>3, <1>4 DEF IInv, TypeOK
<1>6. SlotInv'
  BY <1>1, SlotFrame DEF IInv, JobsKept
<1>7. ActionInv'
  BY <1>1 DEF IInv, ActionInv, Known
<1>8. EndInv'
  BY <1>1, <1>2, <1>3, <1>4 DEF IInv, EndInv, EndedOnce, Ended
<1>9. PauseInv'
  BY <1>1, <1>4 DEF IInv, PauseInv
<1>10. QED
  BY <1>5, <1>6, <1>7, <1>8, <1>9 DEF IInv

LEMMA CloseReturnsStep == ASSUME IInv, CloseReturns PROVE IInv'
<1>1. UNCHANGED <<status, rows, command, head, pending, states, reserved, nextSeq, tracked, gate,
                  clock, lastAt, registered, behavior, runner, todo, job, closed, ended, loose,
                  slips, spent>>
  BY DEF CloseReturns, run, timeline, time, service
<1>2. Faulty' = Faulty
  BY <1>1 DEF Faulty
<1>3. control' \in Control /\ control'.pc = "idle"
  BY DEF IInv, TypeOK, Control, Request, CloseReturns
<1>4. TypeOK'
  BY <1>1, <1>3 DEF IInv, TypeOK
<1>5. SlotInv'
  BY <1>1, SlotFrame DEF IInv, JobsKept
<1>6. ActionInv'
  BY <1>1 DEF IInv, ActionInv, Known
<1>7. EndInv'
  BY <1>1, <1>2, <1>3 DEF IInv, EndInv, EndedOnce, Ended
<1>8. PauseInv'
  BY <1>1 DEF IInv, PauseInv
<1>9. QED
  BY <1>4, <1>5, <1>6, <1>7, <1>8 DEF IInv

LEMMA IssueStep == ASSUME IInv, NEW c \in Commands, Issue(c) PROVE IInv'
<1>1. UNCHANGED <<status, rows, head, pending, states, reserved, nextSeq, tracked, gate, clock,
                  lastAt, registered, behavior, runner, todo, control, closed, ended, loose,
                  slips>>
  BY DEF Issue, run, timeline, time, service
<1>2. Fault \/ UNCHANGED spent
  BY DEF Issue, Blocked
<1>3. /\ spent' \in Spent
      /\ Faulty => Faulty'
      /\ Fault => Faulty'
  BY <1>2, FaultSpent DEF IInv, TypeOK
<1>4. command' \in [Commands -> CommandStates]
  BY CommandAssumption DEF IInv, TypeOK, CommandStates, Issue
<1>5. job' = [job EXCEPT ![c].pc = "published"] \/ job' = [job EXCEPT ![c].pc = "ignored"]
  BY DEF Issue
<1>6. /\ job' \in [Commands -> Job]
      /\ JobsKept
  BY <1>5, JobStep DEF IInv, JobPcs, Reserving
<1>7. TypeOK'
  BY <1>1, <1>3, <1>4, <1>6 DEF IInv, TypeOK
<1>8. SlotInv'
  BY <1>1, <1>5, <1>6, SlotFrame DEF IInv
<1>9. ActionInv'
  BY <1>1 DEF IInv, ActionInv, Known
<1>10. EndInv'
  BY <1>1, <1>3 DEF IInv, EndInv, EndedOnce, Ended
<1>11. PauseInv'
  BY <1>1 DEF IInv, PauseInv
<1>12. QED
  BY <1>7, <1>8, <1>9, <1>10, <1>11 DEF IInv

LEMMA DeliverStep == ASSUME IInv, NEW c \in Commands, Deliver(c) PROVE IInv'
<1>1. UNCHANGED <<status, rows, command, head, pending, states, reserved, nextSeq, tracked, gate,
                  clock, lastAt, registered, behavior, runner, todo, control, closed, ended,
                  loose, slips, spent>>
  BY DEF Deliver, run, timeline, time, service
<1>2. Faulty' = Faulty
  BY <1>1 DEF Faulty
<1>3. /\ job' \in [Commands -> Job]
      /\ JobsKept
  BY JobStep DEF IInv, JobPcs, Reserving, Deliver
<1>4. TypeOK'
  BY <1>1, <1>3 DEF IInv, TypeOK
<1>5. SlotInv'
  BY <1>1, <1>3, SlotFrame DEF IInv
<1>6. ActionInv'
  BY <1>1 DEF IInv, ActionInv, Known
<1>7. EndInv'
  BY <1>1, <1>2 DEF IInv, EndInv, EndedOnce, Ended
<1>8. PauseInv'
  BY <1>1 DEF IInv, PauseInv
<1>9. QED
  BY <1>4, <1>5, <1>6, <1>7, <1>8 DEF IInv

LEMMA ReserveStep == ASSUME IInv, NEW c \in Commands, Reserve(c) PROVE IInv'
<1>1. UNCHANGED <<status, rows, command, head, pending, states, gate, clock, lastAt, registered,
                  behavior, runner, todo, control, closed, ended, loose, slips, spent>>
  BY DEF Reserve, run, time, service
<1>2. Faulty' = Faulty /\ Planned' = Planned /\ Known' = Known
  BY <1>1 DEF Faulty, Planned, Known
<1>3. tracked' \subseteq Commands
  BY DEF IInv, TypeOK, Reserve
<1>4. nextSeq \in Nat /\ reserved \in Int /\ Cardinality(Known) \in Nat /\ Planned \in 1..2
  BY KnownFinite, PlannedOK, TimelineAssumption DEF IInv, TypeOK
<1>5. CASE UNCHANGED <<reserved, nextSeq>> /\ job' = [job EXCEPT ![c].pc = "refused"]
  <2>1. job' \in [Commands -> Job] /\ JobsKept
    BY <1>5, JobStep DEF IInv, JobPcs, Reserving
  <2>2. TypeOK'
    BY <1>1, <1>3, <1>5, <2>1 DEF IInv, TypeOK
  <2>3. SlotInv'
    BY <1>1, <1>5, <2>1, SlotFrame DEF IInv
  <2>4. QED
    BY <1>1, <1>2, <2>2, <2>3 DEF IInv, ActionInv, EndInv, EndedOnce, PauseInv
<1>6. CASE /\ Fits
           /\ reserved' = reserved + Planned
           /\ nextSeq' = nextSeq + Planned
           /\ job' = [job EXCEPT ![c] = [pc |-> "store", base |-> Base(c), seq |-> nextSeq, from |-> "none"]]
  <2>1. Base(c) \in Nat
    BY DEF IInv, TypeOK, Base
  <2>2. /\ job' \in [Commands -> Job]
        /\ job'[c].pc = "store" /\ job'[c].seq = nextSeq
        /\ \A d \in Commands \ {c} : job'[d] = job[d]
    BY <1>4, <1>6, <2>1 DEF IInv, TypeOK, Job, JobPcs, CommandStates
  <2>3. nextSeq + Planned <= MaxActions
    BY <1>4, <1>6 DEF IInv, SlotInv, WithinCapacity, Fits
  <2>4. TypeOK'
    <3>1. nextSeq' \in N..MaxActions /\ reserved' \in Int
      BY <1>4, <1>6, <2>3, TimelineAssumption, BoundAssumption DEF IInv, TypeOK
    <3>2. QED
      BY <1>1, <1>3, <2>2, <3>1 DEF IInv, TypeOK
  <2>5. nextSeq' = Cardinality(Known') + reserved'
    BY <1>2, <1>4, <1>6 DEF IInv, SlotInv, WithinCapacity
  <2>6. ASSUME NEW d \in Commands, d # c, job'[d].pc \in Reserving
        PROVE  /\ job[d].pc \in Reserving /\ job'[d].seq = job[d].seq /\ job[d].seq \in Nat
               /\ job[d].seq + Planned <= nextSeq
    BY <2>2, <2>6, SlotsInSeqs DEF IInv, SlotInv
  <2>7. ASSUME NEW d \in Commands, NEW e \in Commands, d # e,
               {job'[d].pc, job'[e].pc} \subseteq {"store", "insert"}
        PROVE  job'[d].seq + Planned' <= job'[e].seq \/ job'[e].seq + Planned' <= job'[d].seq
    <3>1. CASE d = c
      BY <1>2, <2>2, <2>6, <2>7, <3>1 DEF Reserving
    <3>2. CASE e = c
      BY <1>2, <2>2, <2>6, <2>7, <3>2 DEF Reserving
    <3>3. CASE d # c /\ e # c
      <4>1. /\ {job[d].pc, job[e].pc} \subseteq {"store", "insert"}
            /\ job'[d].seq = job[d].seq /\ job'[e].seq = job[e].seq
        BY <2>6, <2>7, <3>3 DEF Reserving
      <4>2. QED
        BY <1>2, <2>7, <4>1 DEF IInv, SlotInv, WithinCapacity
    <3>4. QED
      BY <3>1, <3>2, <3>3
  <2>8. \A s \in Seqs : states'[s] # "none" => s <= nextSeq /\ s <= nextSeq'
    BY <1>1, <1>4, <1>6 DEF IInv, SlotInv, Seqs
  <2>9. ASSUME NEW d \in Commands, job'[d].pc \in Reserving
        PROVE  job'[d].seq + Planned' <= nextSeq' /\ \A s \in Slots(d)' : states'[s] = "none"
    <3>1. CASE d = c
      <4>1. Slots(c)' = (nextSeq + 1)..(nextSeq + Planned)
        BY <1>2, <2>2 DEF Slots
      <4>2. \A s \in Slots(c)' : s \in Seqs /\ ~(s <= nextSeq)
        BY <1>4, <2>3, <4>1, BoundAssumption DEF Seqs
      <4>3. job'[c].seq + Planned' <= nextSeq'
        BY <1>2, <1>4, <1>6, <2>2
      <4>4. QED
        BY <2>8, <3>1, <4>2, <4>3
    <3>2. CASE d # c
      <4>1. Slots(d)' = Slots(d) /\ job[d].pc \in Reserving
        BY <1>2, <2>6, <2>9, <3>2 DEF Slots
      <4>2. \A s \in Slots(d) : states[s] = "none"
        BY <4>1 DEF IInv, SlotInv
      <4>3. job'[d].seq + Planned' <= nextSeq'
        BY <1>2, <1>4, <1>6, <2>6, <2>9, <3>2
      <4>4. QED
        BY <1>1, <4>1, <4>2, <4>3
    <3>3. QED
      BY <3>1, <3>2
  <2>10. SlotInv'
    BY <1>1, <2>5, <2>7, <2>8, <2>9 DEF IInv, SlotInv, WithinCapacity
  <2>11. QED
    BY <1>1, <1>2, <2>4, <2>10 DEF IInv, ActionInv, EndInv, EndedOnce, PauseInv
<1>7. QED
  BY <1>5, <1>6 DEF Reserve

LEMMA StoreStep == ASSUME IInv, NEW c \in Commands, Store(c) PROVE IInv'
<1>1. UNCHANGED <<status, ended, command, head, pending, nextSeq, tracked, gate, clock, lastAt,
                  registered, behavior, control, closed, runner, todo, loose, slips>>
  BY DEF Store, time, service
<1>2. Fault \/ UNCHANGED spent
  BY DEF Store
<1>3. spent' \in Spent /\ (Faulty => Faulty')
  BY <1>2, FaultSpent DEF IInv, TypeOK
<1>4. rows' \in [Seqs -> Marks]
  BY MarkType DEF IInv, TypeOK, Marks, Store
<1>5. job[c].pc = "store"
  BY DEF Store
<1>6. /\ job' \in [Commands -> Job] /\ JobsKept
      /\ states' \in [Seqs -> Marks] /\ SlotInv' /\ reserved' \in Int
      /\ Known \subseteq Known'
  <2>1. CASE job' = [job EXCEPT ![c].pc = "insert"] /\ UNCHANGED <<states, reserved>>
    <3>1. job' \in [Commands -> Job] /\ JobsKept
      BY <1>5, <2>1 DEF IInv, TypeOK, Job, JobPcs, JobsKept, Reserving
    <3>2. SlotInv'
      BY <1>1, <2>1, <3>1, SlotFrame DEF IInv
    <3>3. QED
      BY <2>1, <3>1, <3>2 DEF IInv, TypeOK, Known
  <2>2. CASE /\ job' = [job EXCEPT ![c].pc = "refused"]
             /\ reserved' = reserved - Planned
             /\ states' = Mark(states, Items(c), "skipped")
    <3>1. job' \in [Commands -> Job] /\ JobsKept /\ job'[c].pc = "refused"
      BY <2>2, JobStep, JobPc DEF IInv, TypeOK, JobPcs, Reserving
    <3>2. SlotInv' /\ states' \in [Seqs -> Marks] /\ Known' = Known \cup Slots(c)
      BY <1>1, <1>5, <2>2, <3>1, Placed DEF IInv, Marks, Reserving
    <3>3. reserved' \in Int
      BY <2>2, PlannedOK DEF IInv, TypeOK
    <3>4. QED
      BY <3>1, <3>2, <3>3
  <2>3. QED
    BY <2>1, <2>2 DEF Store
<1>7. TypeOK'
  BY <1>1, <1>3, <1>4, <1>6 DEF IInv, TypeOK
<1>8. QED
  BY <1>1, <1>3, <1>6, <1>7 DEF IInv, ActionInv, EndInv, EndedOnce, PauseInv

LEMMA InsertStep == ASSUME IInv, NEW c \in Commands, Insert(c) PROVE IInv'
<1>1. UNCHANGED <<status, rows, ended, command, head, nextSeq, tracked, gate, clock, lastAt,
                  registered, behavior, control, closed, runner, todo, loose, slips, spent>>
  BY DEF Insert, run, time, service
<1>2. Faulty' = Faulty
  BY <1>1 DEF Faulty
<1>3. job[c].pc = "insert" /\ reserved' = reserved - Planned
  BY DEF Insert
<1>4. PICK m \in {"pending", "skipped"}, p \in {"done", "unstore"} :
        states' = Mark(states, Items(c), m) /\ job' = [job EXCEPT ![c].pc = p]
  BY DEF Insert
<1>5. job' \in [Commands -> Job] /\ JobsKept /\ job'[c].pc = p
  <2>1. p \in JobPcs \ Reserving
    BY DEF JobPcs, Reserving
  <2>2. QED
    BY <1>4, <2>1, JobStep, JobPc DEF IInv, TypeOK
<1>6. SlotInv' /\ states' \in [Seqs -> Marks] /\ Known' = Known \cup Slots(c)
  BY <1>1, <1>3, <1>4, <1>5, Placed DEF IInv, Marks, Reserving
<1>7. reserved' \in Int
  BY <1>3, PlannedOK DEF IInv, TypeOK
<1>8. pending' \subseteq pending \cup Items(c)
  BY DEF Insert
<1>9. \A a \in Items(c) : a \in Actions /\ a.seq \in Known' /\ a.cmd \in Commands
  BY <1>6, ItemsOK DEF IInv
<1>10. TypeOK'
  BY <1>1, <1>5, <1>6, <1>7, <1>8, <1>9 DEF IInv, TypeOK
<1>11. ActionInv'
  BY <1>1, <1>6, <1>8, <1>9 DEF IInv, ActionInv
<1>12. QED
  BY <1>1, <1>2, <1>6, <1>10, <1>11 DEF IInv, EndInv, EndedOnce, PauseInv

LEMMA UnstoreStep == ASSUME IInv, NEW c \in Commands, Unstore(c) PROVE IInv'
<1>1. UNCHANGED <<status, command, head, pending, states, reserved, nextSeq, tracked, gate, clock,
                  lastAt, registered, behavior, runner, todo, control, closed, ended, loose,
                  slips>>
  BY DEF Unstore, run, timeline, time, service
<1>2. Fault \/ UNCHANGED spent
  BY DEF Unstore, Blocked
<1>3. /\ spent' \in Spent
      /\ Faulty => Faulty'
      /\ Fault => Faulty'
  BY <1>2, FaultSpent DEF IInv, TypeOK
<1>4. rows' \in [Seqs -> Marks]
  BY MarkType DEF IInv, TypeOK, Marks, Unstore
<1>5. /\ job' \in [Commands -> Job]
      /\ JobsKept
  BY JobStep DEF IInv, JobPcs, Reserving, Unstore
<1>6. TypeOK'
  BY <1>1, <1>3, <1>4, <1>5 DEF IInv, TypeOK
<1>7. SlotInv'
  BY <1>1, <1>5, SlotFrame DEF IInv
<1>8. ActionInv'
  BY <1>1 DEF IInv, ActionInv, Known
<1>9. EndInv'
  BY <1>1, <1>3 DEF IInv, EndInv, EndedOnce, Ended
<1>10. PauseInv'
  BY <1>1 DEF IInv, PauseInv
<1>11. QED
  BY <1>6, <1>7, <1>8, <1>9, <1>10 DEF IInv

LEMMA RefuseStep == ASSUME IInv, NEW c \in Commands, Refuse(c) PROVE IInv'
<1>1. UNCHANGED <<status, rows, command, head, pending, states, reserved, nextSeq, gate, clock,
                  lastAt, registered, behavior, runner, todo, control, closed, ended, slips>>
  BY DEF Refuse, run, timeline, time, service
<1>2. Fault \/ UNCHANGED spent
  BY DEF Refuse, Blocked
<1>3. /\ spent' \in Spent
      /\ Faulty => Faulty'
      /\ Fault => Faulty'
  BY <1>2, FaultSpent DEF IInv, TypeOK
<1>4. loose' \subseteq Commands
  BY DEF IInv, TypeOK, Refuse
<1>5. tracked' \subseteq Commands
  BY DEF IInv, TypeOK, Refuse
<1>6. /\ job' \in [Commands -> Job]
      /\ JobsKept
  BY JobStep DEF IInv, JobPcs, Reserving, Refuse
<1>7. TypeOK'
  BY <1>1, <1>3, <1>4, <1>5, <1>6 DEF IInv, TypeOK
<1>8. SlotInv'
  BY <1>1, <1>6, SlotFrame DEF IInv
<1>9. ActionInv'
  BY <1>1 DEF IInv, ActionInv, Known
<1>10. EndInv'
  BY <1>1, <1>3 DEF IInv, EndInv, EndedOnce, Ended
<1>11. PauseInv'
  BY <1>1 DEF IInv, PauseInv
<1>12. QED
  BY <1>7, <1>8, <1>9, <1>10, <1>11 DEF IInv

LEMMA RefuseCasStep == ASSUME IInv, NEW c \in Commands, RefuseCas(c) PROVE IInv'
<1>1. UNCHANGED <<status, rows, head, pending, states, reserved, nextSeq, tracked, gate, clock,
                  lastAt, registered, behavior, runner, todo, control, closed, ended, slips>>
  BY DEF RefuseCas, run, timeline, time, service
<1>2. Fault \/ UNCHANGED spent
  BY DEF RefuseCas, Blocked
<1>3. /\ spent' \in Spent
      /\ Faulty => Faulty'
      /\ Fault => Faulty'
  BY <1>2, FaultSpent DEF IInv, TypeOK
<1>4. loose' \subseteq Commands
  BY DEF IInv, TypeOK, RefuseCas
<1>5. command' \in [Commands -> CommandStates]
  BY CommandAssumption DEF IInv, TypeOK, CommandStates, RefuseCas
<1>6. /\ job' \in [Commands -> Job]
      /\ JobsKept
  BY JobStep DEF IInv, JobPcs, Reserving, RefuseCas
<1>7. TypeOK'
  BY <1>1, <1>3, <1>4, <1>5, <1>6 DEF IInv, TypeOK
<1>8. SlotInv'
  BY <1>1, <1>6, SlotFrame DEF IInv
<1>9. ActionInv'
  BY <1>1 DEF IInv, ActionInv, Known
<1>10. EndInv'
  BY <1>1, <1>3 DEF IInv, EndInv, EndedOnce, Ended
<1>11. PauseInv'
  BY <1>1 DEF IInv, PauseInv
<1>12. QED
  BY <1>7, <1>8, <1>9, <1>10, <1>11 DEF IInv

LEMMA MoveStep == ASSUME IInv, NEW c \in Commands, NEW to \in MoveTargets, Move(c, to) PROVE IInv'
<1>1. UNCHANGED <<status, rows, head, pending, states, reserved, nextSeq, tracked, gate, clock,
                  lastAt, registered, behavior, runner, todo, job, control, closed, ended, loose,
                  slips>>
  BY DEF Move, run, timeline, time, service
<1>2. /\ spent' \in Spent
      /\ Faulty => Faulty'
  BY BoundAssumption DEF IInv, TypeOK, Spent, Faulty, Request, Move
<1>3. command' \in [Commands -> CommandStates]
  BY CommandAssumption DEF IInv, TypeOK, CommandStates, Move
<1>4. TypeOK'
  BY <1>1, <1>2, <1>3 DEF IInv, TypeOK
<1>5. SlotInv'
  BY <1>1, SlotFrame DEF IInv, JobsKept
<1>6. ActionInv'
  BY <1>1 DEF IInv, ActionInv, Known
<1>7. EndInv'
  BY <1>1, <1>2 DEF IInv, EndInv, EndedOnce, Ended
<1>8. PauseInv'
  BY <1>1 DEF IInv, PauseInv
<1>9. QED
  BY <1>4, <1>5, <1>6, <1>7, <1>8 DEF IInv

LEMMA TickStep == ASSUME IInv, Tick PROVE IInv'
<1>1. UNCHANGED <<status, rows, command, head, pending, states, reserved, nextSeq, tracked, gate,
                  lastAt, registered, behavior, runner, todo, job, control, closed, ended, loose,
                  slips, spent>>
  BY DEF Tick, run, timeline, time, service
<1>2. Faulty' = Faulty
  BY <1>1 DEF Faulty
<1>3. clock' \in Nat
  BY DEF IInv, TypeOK, Tick
<1>4. TypeOK'
  BY <1>1, <1>3 DEF IInv, TypeOK
<1>5. SlotInv'
  BY <1>1, SlotFrame DEF IInv, JobsKept
<1>6. ActionInv'
  BY <1>1 DEF IInv, ActionInv, Known
<1>7. EndInv'
  BY <1>1, <1>2 DEF IInv, EndInv, EndedOnce, Ended
<1>8. PauseInv'
  BY <1>1 DEF IInv, PauseInv
<1>9. QED
  BY <1>4, <1>5, <1>6, <1>7, <1>8 DEF IInv

LEMMA CrashStep == ASSUME IInv, Crash PROVE IInv'
<1>1. UNCHANGED <<command, head, pending, states, reserved, nextSeq, tracked, gate, clock, lastAt,
                  behavior, todo, ended, loose, slips>>
  BY DEF Crash, timeline, time
<1>2. spent' \in Spent /\ Faulty'
  BY FaultSpent DEF IInv, TypeOK, Crash
<1>3. /\ runner' \in Runner /\ runner'.pc = "gone"
      /\ runner'.cur = runner.cur /\ runner'.result = runner.result /\ runner'.err = runner.err
  BY DEF IInv, TypeOK, Runner, Pcs, Crash
<1>4. /\ job' \in [Commands -> Job]
      /\ \A c \in Commands : job'[c].pc \in {"none", "ignored"}
  BY DEF IInv, TypeOK, Job, JobPcs, Crash
<1>5. /\ control' \in Control /\ control'.pc = "idle"
      /\ registered' = FALSE /\ closed' = FALSE
  BY DEF Control, Crash
<1>6. rows' \in [Seqs -> Marks]
  BY MarkType, SweptOK DEF IInv, TypeOK, Marks, Crash, CutShort
<1>7. /\ status' \in {"RUNNING", "PAUSED"} \cup Ended
      /\ status \in Ended => status' = status
  <2>1. Ending \subseteq Ended
    BY DEF IInv, EndInv, Ending, Ended
  <2>2. QED
    BY <2>1 DEF IInv, TypeOK, Crash, CutShort
<1>8. TypeOK'
  BY <1>1, <1>2, <1>3, <1>4, <1>5, <1>6, <1>7 DEF IInv, TypeOK
<1>9. SlotInv'
  BY <1>1, <1>4, SlotFrame DEF IInv, JobsKept, Reserving
<1>10. ActionInv'
  BY <1>1, <1>3 DEF IInv, ActionInv, Known
<1>11. EndInv'
  BY <1>1, <1>2, <1>3, <1>5, <1>7 DEF IInv, EndInv, EndedOnce
<1>12. PauseInv'
  BY <1>1, <1>3 DEF IInv, PauseInv
<1>13. QED
  BY <1>8, <1>9, <1>10, <1>11, <1>12 DEF IInv

-----------------------------------------------------------------------------
(* The theorems                                                            *)

\* A run that has just been started.
LEMMA InitInv == ASSUME Init PROVE IInv
<1>1. N \in Nat /\ MaxActions \in Nat /\ N <= MaxActions /\ MaxControls \in Nat /\ MaxMishaps \in Nat
  BY TimelineAssumption, BoundAssumption
<1>2. runner \in Runner /\ runner.pc = "peek" /\ runner.cur.kind = "emit" /\ runner.result = "ok"
      /\ runner.err = FALSE
  BY DEF Init, Runner, Pcs, Actions, Kinds, NoAction, CommandStates, Results
<1>3. /\ job \in [Commands -> Job]
      /\ \A c \in Commands : job[c].pc = "none"
  BY DEF Init, Job, JobPcs, CommandStates
<1>4. rows \in [Seqs -> Marks] /\ states \in [Seqs -> Marks]
  BY DEF Init, Marks
<1>5. gate \in Gate /\ control \in Control /\ spent \in Spent
  BY <1>1 DEF Init, Gate, Control, Spent
<1>6. TypeOK
  <2>1. /\ status = "RUNNING" /\ command \in [Commands -> CommandStates]
        /\ pending = {} /\ tracked = {} /\ todo = {} /\ loose = {}
        /\ registered \in BOOLEAN /\ closed \in BOOLEAN /\ behavior \in Behaviors
    BY DEF Init, CommandStates
  <2>2. /\ head \in 1..(N + 1) /\ reserved \in Int /\ nextSeq \in N..MaxActions
        /\ clock \in Nat /\ lastAt \in Nat /\ ended \in Nat /\ slips \in Nat
    BY <1>1 DEF Init
  <2>3. QED
    BY <1>2, <1>3, <1>4, <1>5, <2>1, <2>2 DEF TypeOK
<1>7. Known = 1..N
  BY <1>1 DEF Init, Known, Seqs
<1>8. Cardinality(Known) = N
  BY <1>1, <1>7, FS_Interval
<1>9. SlotInv
  BY <1>1, <1>3, <1>8 DEF Init, SlotInv, WithinCapacity, Reserving, Seqs
<1>10. ActionInv /\ EndInv /\ PauseInv
  BY <1>2 DEF Init, ActionInv, EndInv, EndedOnce, Ended, PauseInv
<1>11. QED
  BY <1>6, <1>9, <1>10 DEF IInv

\* A step of something else.
LEMMA Stutter == ASSUME IInv, UNCHANGED vars PROVE IInv'
BY DEF vars, IInv, TypeOK, SlotInv, WithinCapacity, Known, Slots, Planned, ActionInv, EndInv,
       EndedOnce, Faulty, PauseInv

\* One case for each action.
LEMMA NextInv == ASSUME IInv, [Next]_vars PROVE IInv'
<1>1. CASE UNCHANGED vars
  BY <1>1, Stutter
<1>2. CASE Run
  BY <1>2, PeekStep, WaitOverStep, WaitEndsStep, ReselectStep, BeginStep, EmitStep, IssueScriptedStep,
     IssueReturnsStep, SimulateStep, SimulateCasStep, RecordStep, SkipStep, DrainStep, DrainCasStep,
     DrainedStep, ConcludeStep, FinalizeStep, ReleaseStep DEF Run
<1>3. CASE Carry
  BY <1>3, SwitchedStep, StopCancelsStep, StopFinalizesStep, CloseCancelsStep, CloseReturnsStep DEF Carry
<1>4. CASE Pause \/ Resume \/ Stop \/ Restart \/ Close \/ Tick \/ Crash
  BY <1>4, PauseStep, ResumeStep, StopStep, RestartStep, CloseStep, TickStep, CrashStep
<1>5. ASSUME NEW c \in Commands, Issue(c) \/ Schedule(c) PROVE IInv'
  BY <1>5, IssueStep, DeliverStep, ReserveStep, StoreStep, InsertStep, UnstoreStep, RefuseStep,
     RefuseCasStep DEF Schedule
<1>6. ASSUME NEW c \in Commands, NEW to \in MoveTargets, Move(c, to) PROVE IInv'
  BY <1>6, MoveStep
<1>7. QED
  BY <1>1, <1>2, <1>3, <1>4, <1>5, <1>6 DEF Next

\* The strengthened invariant, of every run of a scenario (engine.go, service.go).
THEOREM Invariance == Spec => []IInv
<1>1. Init => IInv
  BY InitInv
<1>2. IInv /\ [Next]_vars => IInv'
  BY NextInv
<1>3. QED
  BY <1>1, <1>2, PTL DEF Spec

\* The engine's counters, timeline and marks, the run's row, the commands and the work in
\* progress keep their types; in particular no sequence number exceeds maxScheduledActions.
THEOREM TypeCorrect == Spec => []TypeOK
<1>1. IInv => TypeOK
  BY DEF IInv
<1>2. QED
  BY <1>1, Invariance, PTL

\* engine.go scheduleAfterMany: the check of the capacity, the reservation and the insertion are
\* in separate critical sections, and still the timeline never outgrows its capacity and no two
\* commands are given one sequence number.
THEOREM CapacityCorrect == Spec => []WithinCapacity
<1>1. IInv => WithinCapacity
  BY DEF IInv, SlotInv
<1>2. QED
  BY <1>1, Invariance, PTL

\* engine.go Pause, waitUntil, popNext: however the pause and the goroutine interleave, at most one
\* action begins while the run is paused.
THEOREM PauseCorrect == Spec => []PauseHolds
<1>1. IInv => PauseHolds
  BY DEF IInv, PauseInv, PauseHolds, TypeOK
<1>2. QED
  BY <1>1, Invariance, PTL

\* service.go PauseRun, ResumeRun, StopRun, finalizeRunLocked: no step changes the status of a run
\* that has ended.
THEOREM EndFinal == Spec => EndIsFinal
<1>1. ASSUME Next, status \in Ended PROVE UNCHANGED status
  <2>1. CASE Finalize \/ StopFinalizes
    BY <1>1, <2>1 DEF Finalize, StopFinalizes, FinalizeLocked, End
  <2>2. CASE Pause \/ Resume
    BY <1>1, <2>2 DEF Pause, Resume, Switch, Active
  <2>3. CASE Run /\ ~Finalize
    BY <2>3 DEF Run, run, Peek, WaitOver, WaitEnds, Reselect, Begin, Emit, IssueScripted,
                IssueReturns, Simulate, SimulateCas, Record, Skip, Drain, DrainCas, Drained, Conclude,
                Release
  <2>4. CASE Stop \/ Restart \/ Close \/ Tick \/ (Carry /\ ~StopFinalizes)
    BY <2>4 DEF run, Stop, Restart, Close, Tick, Carry, Switched, StopCancels, CloseCancels, Cancel,
                CloseReturns
  <2>5. ASSUME NEW c \in Commands, Issue(c) \/ Schedule(c) \/ \E to \in MoveTargets : Move(c, to)
        PROVE  UNCHANGED status
    BY <2>5 DEF run, Issue, Schedule, Deliver, Reserve, Store, Insert, Unstore, Refuse, RefuseCas, Move
  <2>6. CASE Crash
    BY <1>1, <2>6 DEF Crash, CutShort
  <2>7. QED
    BY <1>1, <2>1, <2>2, <2>3, <2>4, <2>5, <2>6 DEF Next
<1>2. [Next]_vars => [(status \in Ended) => UNCHANGED status]_vars
  BY <1>1
<1>3. QED
  BY <1>2, PTL DEF Spec, EndIsFinal

-----------------------------------------------------------------------------
(* The ghost of a run whose process has crashed                            *)

\* The new process works on no action of the run; a restart of it is about to end it, has
\* ended it, or has met a failed statement.
GhostInv ==
  runner.pc = "gone" =>
    /\ spent.faults > 0
    /\ \A c \in Commands : job[c].pc \in {"none", "published", "ignored"}
    /\ control.pc \notin {"stop", "switch"}
    /\ control.op = "restart" =>
         control.pc = "finalize" \/ (control.pc = "idle" /\ GhostIsLaid)

\* The steps of the engine's goroutine are not the new process's.
LEMMA RunIsAlive == ASSUME IInv, Run PROVE runner'.pc # "gone"
<1>1. runner \in Runner
  BY DEF IInv, TypeOK
<1>2. CASE Peek \/ WaitOver \/ WaitEnds \/ Reselect
  BY <1>1, <1>2 DEF Peek, WaitOver, WaitEnds, Reselect, Runner
<1>3. CASE Begin \/ Emit \/ IssueScripted \/ IssueReturns
  BY <1>1, <1>3 DEF Begin, Emit, IssueScripted, IssueReturns, Runner
<1>4. CASE Simulate \/ SimulateCas \/ Record
  BY <1>1, <1>4 DEF Simulate, SimulateCas, Record, Runner
<1>5. CASE Skip \/ (\E c \in Commands : Drain(c)) \/ DrainCas \/ Drained
  BY <1>1, <1>5 DEF Skip, Drain, DrainCas, Drained, Runner
<1>6. CASE Conclude \/ Finalize \/ Release
  BY <1>1, <1>6 DEF Conclude, Finalize, Release, Runner
<1>7. QED
  BY <1>2, <1>3, <1>4, <1>5, <1>6 DEF Run

\* What a restart sweeps is finished.
LEMMA SweptFinished ==
  ASSUME NEW marks, NEW s \in Seqs
  PROVE  Swept(marks)[s] \notin Unfinished
BY DEF Swept, Unfinished

\* The controls of the new process.
LEMMA GhostControls ==
  ASSUME IInv, GhostInv, Pause \/ Resume \/ Stop \/ Restart \/ Close \/ Carry
  PROVE  GhostInv'
<1> SUFFICES ASSUME runner'.pc = "gone" PROVE GhostInv'
  BY DEF GhostInv
<1>1. UNCHANGED <<runner, job>>
  BY DEF Pause, Resume, Switch, Stop, Restart, Close, Carry, Switched, StopCancels, CloseCancels, Cancel,
     StopFinalizes, CloseReturns
<1>2. /\ ~registered /\ spent.faults > 0 /\ spent \in Spent /\ control \in Control
      /\ \A c \in Commands : job[c].pc \in {"none", "published", "ignored"}
      /\ control.pc \notin {"stop", "switch"}
      /\ control.op = "restart" =>
           control.pc = "finalize" \/ (control.pc = "idle" /\ GhostIsLaid)
  BY <1>1 DEF IInv, TypeOK, EndInv, GhostInv
<1>3. CASE Restart
  <2>1. control' = [pc |-> "finalize", op |-> "restart"] /\ spent'.faults = spent.faults
    BY <1>2, <1>3 DEF Restart, Request, Spent
  <2>2. QED
    BY <1>1, <1>2, <2>1 DEF GhostInv
<1>4. CASE Close
  BY <1>1, <1>2, <1>4 DEF Close, GhostInv
<1>5. CASE StopFinalizes
  <2>1. control.pc = "finalize" /\ control'.pc = "idle" /\ control'.op = control.op
    BY <1>2, <1>5 DEF StopFinalizes, Control
  <2>2. CASE Fault
    <3>1. spent'.faults = spent.faults + 1 /\ spent.faults \in Nat
      BY <1>2, <2>2 DEF Fault, Spent
    <3>2. spent'.faults > 0 /\ spent'.faults # 1
      BY <1>2, <3>1
    <3>3. GhostIsLaid'
      BY <3>2 DEF GhostIsLaid
    <3>4. QED
      BY <1>1, <1>2, <2>1, <3>2, <3>3 DEF GhostInv
  <2>3. CASE rows' = Swept(rows) /\ End("STOPPED") /\ UNCHANGED spent
    <3>1. status' \in Ended
      BY <2>3 DEF End, Ended
    <3>2. \A s \in Seqs : rows'[s] \notin Unfinished
      BY <2>3, SweptFinished
    <3>3. QED
      BY <1>1, <1>2, <2>1, <2>3, <3>1, <3>2 DEF GhostInv, GhostIsLaid
  <2>4. QED
    BY <1>5, <2>2, <2>3 DEF StopFinalizes, FinalizeLocked
<1>6. CASE CloseCancels \/ CloseReturns
  <2>1. control.op # "restart" /\ control'.op = control.op /\ control'.pc \in {"closed", "idle"}
        /\ spent' = spent
    BY <1>2, <1>6 DEF CloseCancels, Cancel, CloseReturns, Control
  <2>2. QED
    BY <1>1, <1>2, <2>1 DEF GhostInv
<1>7. ~(Pause \/ Resume \/ Stop \/ StopCancels \/ Switched)
  BY <1>2 DEF Pause, Resume, Switch, Stop, Active, StopCancels, Switched
<1>8. QED
  BY <1>3, <1>4, <1>5, <1>6, <1>7 DEF Carry

\* What an operator issues in the new process belongs to no engine.
LEMMA GhostCommands ==
  ASSUME IInv, GhostInv, NEW c \in Commands,
         Issue(c) \/ Schedule(c) \/ \E to \in MoveTargets : Move(c, to)
  PROVE  GhostInv'
<1> SUFFICES ASSUME runner'.pc = "gone" PROVE GhostInv'
  BY DEF GhostInv
<1>1. UNCHANGED <<runner, control, status>>
  BY DEF Issue, Schedule, Deliver, Reserve, Store, Insert, Unstore, Refuse, RefuseCas, Move, run, service
<1>2. /\ ~registered /\ spent.faults > 0 /\ spent \in Spent /\ job \in [Commands -> Job]
      /\ \A d \in Commands : job[d].pc \in {"none", "published", "ignored"}
  BY <1>1 DEF IInv, TypeOK, EndInv, GhostInv
<1>3. ~(Reserve(c) \/ Store(c) \/ Insert(c) \/ Unstore(c) \/ Refuse(c) \/ RefuseCas(c))
  BY <1>2 DEF Reserve, Store, Insert, Unstore, Refuse, RefuseCas
<1>4. UNCHANGED rows
  BY <1>3 DEF Issue, Schedule, Deliver, Move, run
<1>5. spent'.faults \in Nat /\ spent'.faults >= spent.faults
  BY <1>2, <1>3 DEF Issue, Schedule, Deliver, Move, Fault, Spent
<1>6. \A d \in Commands : job'[d].pc \in {"none", "published", "ignored"}
  BY <1>2, <1>3 DEF Issue, Schedule, Deliver, Move, Job
<1>7. GhostIsLaid => GhostIsLaid'
  BY <1>1, <1>2, <1>4, <1>5 DEF GhostIsLaid, Spent
<1>8. spent'.faults > 0
  BY <1>2, <1>5 DEF Spent
<1>9. QED
  BY <1>1, <1>6, <1>7, <1>8 DEF GhostInv

\* service.go Restart: a run whose process crashed, at whatever point of whoever was ending it or
\* scheduling actions of it, is ended and its actions with it once a restart of it has returned.
THEOREM GhostsAreLaid == Spec => []GhostIsLaid
<1>1. ASSUME Init PROVE GhostInv
  BY <1>1 DEF Init, GhostInv
<1>2. ASSUME IInv, GhostInv, [Next]_vars PROVE GhostInv'
  <2>1. CASE UNCHANGED vars
    BY <1>2, <2>1 DEF vars, GhostInv, GhostIsLaid
  <2>2. CASE Run
    BY <1>2, <2>2, RunIsAlive DEF GhostInv
  <2>3. CASE Crash
    <3>1. spent'.faults > 0
      BY <1>2, <2>3 DEF IInv, TypeOK, Spent, Crash, Fault
    <3>2. QED
      BY <2>3, <3>1 DEF GhostInv, Crash
  <2>4. CASE Tick
    BY <2>4 DEF Tick, GhostInv
  <2>5. CASE Pause \/ Resume \/ Stop \/ Restart \/ Close \/ Carry
    BY <1>2, <2>5, GhostControls
  <2>6. ASSUME NEW c \in Commands, Issue(c) \/ Schedule(c) \/ \E to \in MoveTargets : Move(c, to)
        PROVE  GhostInv'
    BY <1>2, <2>6, GhostCommands
  <2>7. QED
    BY <1>2, <2>1, <2>2, <2>3, <2>4, <2>5, <2>6 DEF Next
<1>3. IInv /\ GhostInv => GhostIsLaid
  BY DEF GhostInv, GhostIsLaid
<1>4. QED
  BY <1>1, <1>2, <1>3, Invariance, PTL DEF Spec

\* service.go finalizeRunLocked, runEngine, Restart: scenario.run.ended is published once, by
\* whichever of the runner, a stop, a restart and a shutdown comes first, and only a crash in
\* between keeps it from being published; a run fails only where a statement or an action did -
\* neither a stop nor a shutdown, which cancel its context, makes it fail - and a run that crashed
\* is ended with all its actions by a restart.
THEOREM EndsOnce == Spec => []EndIsTold
<1>1. IInv => EndedOnce /\ FailureHasCause
  BY DEF IInv, EndInv, Faulty, FailureHasCause
<1>2. QED
  BY <1>1, Invariance, GhostsAreLaid, PTL DEF EndIsTold

-----------------------------------------------------------------------------
(* The timeline: what is waiting, what is executed, and what is over        *)

Executing == {"act", "issuing", "cas", "record"}

Alive == {"peek", "wait", "pop"} \cup Executing

Over == {"drain", "drainCas", "ended", "final", "release", "done"}

\* An action is still to be executed.
Waiting(s) == s \in head..N \/ \E a \in pending : a.seq = s

\* While the goroutine is at work, an action is marked as pending exactly when it is on one of the
\* two timelines, and as running exactly when it is the goroutine's; afterwards none is either.
TimelineInv ==
  /\ \A a \in pending : a.seq > N /\ a.kind \in DOMAIN Outcome
  /\ \A a, b \in pending : a.seq = b.seq => a = b
  /\ runner.pc \in Alive => \A s \in Seqs :
       /\ states[s] = "pending" <=> Waiting(s)
       /\ states[s] = "running" <=> runner.pc \in Executing /\ s = runner.cur.seq
  /\ runner.pc \in {"wait", "pop"} => runner.cur \in Candidates
  /\ runner.pc \in Over => \A s \in Seqs : states[s] \notin Unfinished
  /\ runner.pc \in Over \cup {"skip"} => gate.finished

\* A simulated action settles its command.
Final(a) == a.kind \in DOMAIN Outcome \ {"acknowledge"}

\* What simulateCommand plans for a command: numbered one by one, not before its base, and one
\* of them settles it.
LEMMA PlanOK ==
  ASSUME TypeOK, NEW c \in Commands
  PROVE  /\ \A a \in Items(c) : a.kind \in DOMAIN Outcome /\ a.cmd = c /\ a.at >= job[c].base
         /\ \A a, b \in Items(c) : a.seq = b.seq => a = b
         /\ \E a \in Items(c) : Final(a)
<1> DEFINE base == job[c].base
           seq == job[c].seq
           act(kind, delay, n) == [at |-> base + delay, seq |-> seq + n, kind |-> kind, cmd |-> c]
<1>1. base \in Nat /\ seq \in Nat /\ AckDelay \in Nat /\ CompleteDelay \in Nat
  BY CommandAssumption DEF TypeOK, Job
<1>2. DOMAIN Outcome = {"acknowledge", "complete", "reject", "fail", "timeout"}
  BY DEF Outcome
<1>3. behavior \in {"normal", "reject", "fail", "timeout"}
  BY CommandAssumption DEF TypeOK
<1>4. CASE behavior = "normal"
  <2> DEFINE a1 == act("acknowledge", AckDelay, 1)
             a2 == act("complete", CompleteDelay, 2)
  <2>1. Items(c) = {a1, a2}
    BY <1>4 DEF Items, Plan
  <2>2. /\ a1.kind = "acknowledge" /\ a1.cmd = c /\ a1.at = base + AckDelay /\ a1.seq = seq + 1
        /\ a2.kind = "complete" /\ a2.cmd = c /\ a2.at = base + CompleteDelay /\ a2.seq = seq + 2
    OBVIOUS
  <2> HIDE DEF a1, a2
  <2>3. Final(a2) /\ a1.kind \in DOMAIN Outcome /\ a2.kind \in DOMAIN Outcome
    BY <1>2, <2>2 DEF Final
  <2>4. a1.seq # a2.seq
    BY <1>1, <2>2
  <2>5. a1.at >= base /\ a2.at >= base
    BY <1>1, <2>2
  <2>6. QED
    BY <2>1, <2>2, <2>3, <2>4, <2>5
<1>5. CASE behavior # "normal"
  <2>1. PICK kind \in {"reject", "fail", "timeout"}, delay \in Nat : Items(c) = {act(kind, delay, 1)}
    BY <1>3, <1>5, CommandAssumption DEF Items, Plan
  <2> DEFINE a1 == act(kind, delay, 1)
  <2>2. a1.kind = kind /\ a1.cmd = c /\ a1.at = base + delay
    OBVIOUS
  <2>3. Items(c) = {a1}
    BY <2>1
  <2> HIDE DEF a1
  <2>4. Final(a1) /\ a1.kind \in DOMAIN Outcome
    BY <1>2, <2>2 DEF Final
  <2>5. a1.at >= base
    BY <1>1, <2>2
  <2>6. QED
    BY <2>2, <2>3, <2>4, <2>5
<1>6. QED
  BY <1>4, <1>5

\* Reserved numbers are after the static timeline, and unknown.
LEMMA SlotsFree ==
  ASSUME TypeOK, SlotInv, NEW c \in Commands, job[c].pc \in Reserving
  PROVE  \A s \in Slots(c) : s \in Seqs /\ s > N /\ states[s] = "none"
<1>1. Slots(c) \subseteq Seqs /\ N \in Nat
  BY SlotsInSeqs, TimelineAssumption
<1>2. QED
  BY <1>1, BoundAssumption DEF SlotInv, Seqs

\* Marking a command's actions marks its numbers.
LEMMA MarkItems ==
  ASSUME TypeOK, NEW c \in Commands, NEW marks, NEW m
  PROVE  \A s \in Seqs : Mark(marks, Items(c), m)[s] = IF s \in Slots(c) THEN m ELSE marks[s]
BY ItemsOK DEF Mark

\* The next static action's number is its place.
LEMMA NextStatic ==
  ASSUME TypeOK, head <= N
  PROVE  /\ StaticAction(head).seq = head /\ head \in head..N /\ head \in Seqs
         /\ StaticAction(head).kind \in {"emit", "issue"}
         /\ StaticAction(head).kind \notin DOMAIN Outcome
BY TimelineAssumption, BoundAssumption DEF TypeOK, StaticAction, Seqs, Outcome

\* The goroutine goes on with the same action, or stops.
LEMMA TimelineMove ==
  ASSUME TypeOK, TimelineInv, UNCHANGED <<head, pending, states>>, runner'.cur = runner.cur,
         gate.finished \/ runner'.pc \in Over \cup {"skip"} => gate'.finished,
         runner'.pc \in Alive => runner.pc \in Alive /\ (runner'.pc \in Executing <=> runner.pc \in Executing),
         runner'.pc \in {"wait", "pop"} => runner.pc \in {"wait", "pop"},
         runner'.pc \in Over => runner.pc \in Over
  PROVE  TimelineInv'
<1>1. /\ \A a \in pending' : a.seq > N /\ a.kind \in DOMAIN Outcome
      /\ \A a, b \in pending' : a.seq = b.seq => a = b
  BY DEF TimelineInv
<1>2. \A s : Waiting(s)' <=> Waiting(s)
  BY DEF Waiting
<1>3. Candidates' = Candidates
  BY DEF Candidates
<1>4. runner'.pc \in Alive => \A s \in Seqs :
        /\ states'[s] = "pending" <=> Waiting(s)'
        /\ states'[s] = "running" <=> runner'.pc \in Executing /\ s = runner'.cur.seq
  BY <1>2 DEF TimelineInv
<1>5. runner'.pc \in {"wait", "pop"} => runner'.cur \in Candidates'
  BY <1>3 DEF TimelineInv
<1>6. runner'.pc \in Over => \A s \in Seqs : states'[s] \notin Unfinished
  BY DEF TimelineInv
<1>7. QED
  BY <1>1, <1>4, <1>5, <1>6 DEF TimelineInv

\* peekNext, waitUntil: the action waited for is on a timeline; when there is none, all is over.
LEMMA PeekTimeline == ASSUME IInv, TimelineInv, Peek PROVE TimelineInv'
<1>1. UNCHANGED <<head, pending, states>> /\ runner.pc = "peek" /\ runner \in Runner /\ gate \in Gate
  BY DEF IInv, TypeOK, Peek, timeline
<1>2. Candidates' = Candidates /\ \A s : Waiting(s)' <=> Waiting(s)
  BY <1>1 DEF Candidates, Waiting
<1>3. \A s \in Seqs : (states[s] = "pending" <=> Waiting(s)) /\ states[s] # "running"
  BY <1>1 DEF TimelineInv, Alive, Executing
<1>4. CASE Candidates = {}
  <2>1. runner'.pc = "ended" /\ gate'.finished
    BY <1>1, <1>4 DEF Peek, Runner, Gate
  <2>2. pending = {} /\ ~(head <= N)
    BY <1>4 DEF Candidates
  <2>3. \A s \in Seqs : ~Waiting(s)
    BY <2>2, TimelineAssumption, BoundAssumption DEF Waiting, IInv, TypeOK
  <2>4. \A s \in Seqs : states'[s] \notin Unfinished
    BY <1>1, <1>3, <2>3 DEF Unfinished
  <2>5. QED
    BY <1>1, <2>1, <2>4 DEF TimelineInv, Alive, Executing
<1>5. CASE Candidates # {}
  <2>1. runner'.pc = "wait" /\ runner'.cur \in Candidates
    BY <1>1, <1>5 DEF Peek, Runner, IsFirst
  <2>2. QED
    BY <1>1, <1>2, <1>3, <2>1 DEF TimelineInv, Alive, Executing, Over
<1>6. QED
  BY <1>4, <1>5

\* What popNext takes was waiting, and is on its timeline no more.
LEMMA Popped ==
  ASSUME IInv, TimelineInv, Begin
  PROVE  /\ runner.cur.seq \in Seqs /\ states[runner.cur.seq] = "pending"
         /\ \A s \in Seqs : Waiting(s)' <=> Waiting(s) /\ s # runner.cur.seq
<1>1. head \in 1..(N + 1) /\ N \in Nat /\ pending \subseteq Actions /\ runner.pc = "pop"
  BY TimelineAssumption DEF IInv, TypeOK, Begin
<1>2. runner.cur.seq \in Seqs
  BY <1>1 DEF IInv, ActionInv, Known
<1>3. CASE PopsStatic /\ head' = head + 1 /\ UNCHANGED pending
  <2>1. runner.cur.seq = head /\ head \in head..N
    BY <1>3, NextStatic DEF PopsStatic, IInv
  <2>2. states[runner.cur.seq] = "pending"
    BY <1>1, <1>2, <2>1 DEF TimelineInv, Alive, Waiting
  <2>3. \A a \in pending : a.seq # head
    BY <1>1, <2>1 DEF TimelineInv, Actions
  <2>4. \A s \in Seqs : s \in (head + 1)..N <=> s \in head..N /\ s # head
    BY <1>1, BoundAssumption DEF Seqs
  <2>5. QED
    BY <1>2, <1>3, <2>1, <2>2, <2>3, <2>4 DEF Waiting
<1>4. CASE PopsDynamic /\ pending' = pending \ {runner.cur} /\ UNCHANGED head
  <2>1. runner.cur \in pending /\ runner.cur.seq > N
    BY <1>4 DEF PopsDynamic, IsFirst, TimelineInv
  <2>2. states[runner.cur.seq] = "pending"
    BY <1>1, <1>2, <2>1 DEF TimelineInv, Alive, Waiting
  <2>3. \A a \in pending : a \in pending' <=> a.seq # runner.cur.seq
    BY <1>4, <2>1 DEF TimelineInv
  <2>4. runner.cur.seq \notin head..N
    BY <1>1, <1>2, <2>1, BoundAssumption DEF Seqs
  <2>5. QED
    BY <1>2, <1>4, <2>2, <2>3, <2>4 DEF Waiting
<1>5. QED
  BY <1>3, <1>4 DEF Begin

\* popNext: it becomes the goroutine's.
LEMMA BeginTimeline == ASSUME IInv, TimelineInv, Begin PROVE TimelineInv'
<1>1. runner.pc = "pop" /\ runner \in Runner /\ gate \in Gate /\ pending' \subseteq pending
  BY DEF IInv, TypeOK, Begin
<1>2. /\ runner'.pc \in {"act", "skip"} /\ runner'.cur = runner.cur
      /\ runner'.pc = "skip" => gate'.finished
  BY <1>1 DEF Begin, Runner, Gate
<1>3. \A s \in Seqs : states'[s] = IF s = runner.cur.seq THEN "running" ELSE states[s]
  BY DEF Begin, Mark
<1>4. \A s \in Seqs : (states[s] = "pending" <=> Waiting(s)) /\ states[s] # "running"
  BY <1>1 DEF TimelineInv, Alive, Executing
<1>5. \A s \in Seqs :
        /\ states'[s] = "pending" <=> Waiting(s)'
        /\ states'[s] = "running" <=> s = runner.cur.seq
  BY <1>3, <1>4, Popped
<1>6. QED
  BY <1>1, <1>2, <1>5 DEF TimelineInv, Alive, Executing, Over

\* The action's end.
LEMMA RecordTimeline == ASSUME IInv, TimelineInv, Record PROVE TimelineInv'
<1>1. /\ runner.pc = "record" /\ runner \in Runner /\ gate \in Gate
      /\ UNCHANGED <<head, pending>>
  BY DEF IInv, TypeOK, Record
<1>2. /\ runner'.pc \in {"peek", "skip"}
      /\ runner'.pc = "skip" => gate'.finished
  BY <1>1 DEF Record, Runner, Gate
<1>3. PICK m \in {"completed", "failed"} : \A s \in Seqs : states'[s] = IF s = runner.cur.seq THEN m ELSE states[s]
  BY DEF Record, Mark
<1>4. \A s \in Seqs :
        /\ states[s] = "pending" <=> Waiting(s)
        /\ states[s] = "running" <=> s = runner.cur.seq
  BY <1>1 DEF TimelineInv, Alive, Executing
<1>5. \A s \in Seqs : Waiting(s)' <=> Waiting(s)
  BY <1>1 DEF Waiting
<1>6. \A s \in Seqs : (states'[s] = "pending" <=> Waiting(s)') /\ states'[s] # "running"
  BY <1>3, <1>4, <1>5
<1>7. QED
  BY <1>1, <1>2, <1>6 DEF TimelineInv, Alive, Executing, Over

\* skipPending leaves nothing unfinished.
LEMMA SkipTimeline == ASSUME IInv, TimelineInv, Skip PROVE TimelineInv'
<1>1. /\ runner.pc = "skip" /\ runner' = [runner EXCEPT !.pc = "drain"] /\ runner \in Runner
      /\ UNCHANGED <<head, pending, gate>>
  BY DEF IInv, TypeOK, Skip
<1>2. runner'.pc = "drain" /\ gate.finished
  BY <1>1 DEF Runner, TimelineInv
<1>3. \A s \in Seqs : states'[s] \notin Unfinished
  BY DEF Skip, Swept, Unfinished
<1>4. QED
  BY <1>1, <1>2, <1>3 DEF TimelineInv, Alive, Executing, Over

\* Numbers that were unknown are skipped at once.
LEMMA SkipSlots ==
  ASSUME IInv, TimelineInv, NEW c \in Commands, job[c].pc \in Reserving,
         states' = Mark(states, Items(c), "skipped"),
         UNCHANGED <<head, pending, runner, gate>>
  PROVE  TimelineInv'
<1>1. \A s \in Seqs : states'[s] = IF s \in Slots(c) THEN "skipped" ELSE states[s]
  BY MarkItems DEF IInv
<1>2. \A s \in Seqs : s \in Slots(c) => states[s] = "none"
  BY SlotsFree DEF IInv
<1>3. \A s \in Seqs : /\ states'[s] = "pending" <=> states[s] = "pending"
                      /\ states'[s] = "running" <=> states[s] = "running"
  BY <1>1, <1>2
<1>4. (\A s : Waiting(s)' <=> Waiting(s)) /\ Candidates' = Candidates
  BY DEF Waiting, Candidates
<1>5. runner'.pc \in Alive => \A s \in Seqs :
        /\ states'[s] = "pending" <=> Waiting(s)'
        /\ states'[s] = "running" <=> runner'.pc \in Executing /\ s = runner'.cur.seq
  BY <1>3, <1>4 DEF TimelineInv
<1>6. runner'.pc \in Over => \A s \in Seqs : states'[s] \notin Unfinished
  BY <1>3 DEF TimelineInv, Unfinished
<1>7. QED
  BY <1>4, <1>5, <1>6 DEF TimelineInv

\* scheduleAfterMany: the actions are inserted only while the goroutine is at work.
LEMMA InsertTimeline == ASSUME IInv, TimelineInv, NEW c \in Commands, Insert(c) PROVE TimelineInv'
<1>1. job[c].pc \in Reserving /\ UNCHANGED <<head, runner, gate>> /\ N \in Nat
  BY TimelineAssumption DEF Insert, Reserving
<1>2. CASE ~AcceptNow
  BY <1>1, <1>2, SkipSlots DEF Insert
<1>3. CASE AcceptNow
  <2>1. pending' = pending \cup Items(c) /\ states' = Mark(states, Items(c), "pending")
    BY <1>3 DEF Insert
  <2>2. runner.pc \notin Over \cup {"skip"}
    BY <1>3 DEF TimelineInv, AcceptNow, Accepting
  <2>3. /\ \A a \in Items(c) : a.kind \in DOMAIN Outcome /\ a.seq \in Slots(c)
        /\ \A s \in Slots(c) : s \in Seqs /\ s > N /\ states[s] = "none"
    BY <1>1, PlanOK, ItemsOK, SlotsFree DEF IInv
  <2>4. \A a \in pending' : a.seq > N /\ a.kind \in DOMAIN Outcome
    BY <2>1, <2>3 DEF TimelineInv
  <2>5. \A a \in pending : states[a.seq] # "none"
    BY DEF IInv, ActionInv, Known
  <2>6. \A a, b \in pending' : a.seq = b.seq => a = b
    BY <2>1, <2>3, <2>5, PlanOK DEF TimelineInv, IInv
  <2>7. \A s \in Seqs : states'[s] = IF s \in Slots(c) THEN "pending" ELSE states[s]
    BY <2>1, MarkItems DEF IInv
  <2>8. \A s \in Seqs : Waiting(s)' <=> Waiting(s) \/ s \in Slots(c)
    BY <1>1, <2>1, <2>3, ItemsOK DEF Waiting, IInv
  <2>9. runner'.pc \in Alive => \A s \in Seqs :
          /\ states'[s] = "pending" <=> Waiting(s)'
          /\ states'[s] = "running" <=> runner'.pc \in Executing /\ s = runner'.cur.seq
    BY <1>1, <2>3, <2>7, <2>8 DEF TimelineInv
  <2>10. runner'.pc \in {"wait", "pop"} => runner'.cur \in Candidates'
    BY <1>1, <2>1 DEF TimelineInv, Candidates
  <2>11. QED
    BY <1>1, <2>2, <2>4, <2>6, <2>9, <2>10 DEF TimelineInv
<1>4. QED
  BY <1>2, <1>3

\* The other steps of the goroutine.
LEMMA RunTimeline == ASSUME IInv, TimelineInv, Run PROVE TimelineInv'
<1>1. runner \in Runner /\ gate \in Gate
  BY DEF IInv, TypeOK
<1>2. CASE WaitOver \/ Reselect
  <2>1. UNCHANGED <<head, pending, states, gate>> /\ runner'.cur = runner.cur
        /\ runner.pc \in {"wait", "pop"} /\ runner'.pc \in {"pop", "peek"}
    BY <1>1, <1>2 DEF WaitOver, Reselect, Runner, timeline
  <2>2. QED
    BY <2>1, TimelineMove DEF IInv, Alive, Executing, Over
<1>3. CASE WaitEnds
  <2>1. UNCHANGED <<head, pending, states>> /\ runner'.cur = runner.cur /\ runner'.pc = "skip" /\ gate'.finished
    BY <1>1, <1>3 DEF WaitEnds, Runner, Gate, timeline
  <2>2. QED
    BY <2>1, TimelineMove DEF IInv, Alive, Executing, Over
<1>4. CASE Emit \/ IssueScripted \/ IssueReturns \/ Simulate \/ SimulateCas
  <2>1. UNCHANGED <<head, pending, states, gate>> /\ runner'.cur = runner.cur
        /\ runner.pc \in Executing /\ runner'.pc \in Executing
    BY <1>1, <1>4 DEF Emit, IssueScripted, IssueReturns, Simulate, SimulateCas, Runner, timeline, Executing
  <2>2. QED
    BY <2>1, TimelineMove DEF IInv, Alive, Executing, Over
<1>5. CASE (\E c \in Commands : Drain(c)) \/ DrainCas \/ Drained
  <2>1. UNCHANGED <<head, pending, states, gate>> /\ runner'.cur = runner.cur
        /\ runner.pc \in Over /\ runner'.pc \in Over
    BY <1>1, <1>5, ZenonT(60) DEF Drain, DrainCas, Drained, Runner, timeline, Over
  <2>2. QED
    BY <2>1, TimelineMove DEF IInv, TimelineInv, Alive, Executing, Over
<1>6. CASE Conclude \/ Finalize \/ Release
  <2>1. UNCHANGED <<head, pending, states, gate>> /\ runner'.cur = runner.cur
        /\ runner.pc \in Over /\ runner'.pc \in Over
    BY <1>1, <1>6 DEF Conclude, Finalize, Release, Runner, timeline, Over
  <2>2. QED
    BY <2>1, TimelineMove DEF IInv, TimelineInv, Alive, Executing, Over
<1>7. QED
  BY <1>2, <1>3, <1>4, <1>5, <1>6, PeekTimeline, BeginTimeline, RecordTimeline, SkipTimeline DEF Run

\* Controls, commands and time leave the timeline alone.
LEMMA TimelineFrame ==
  ASSUME IInv, TimelineInv, UNCHANGED <<head, pending, states, runner>>, gate'.finished = gate.finished
  PROVE  TimelineInv'
BY TimelineMove DEF IInv, TimelineInv

LEMMA TimelineStep == ASSUME IInv, TimelineInv, [Next]_vars PROVE TimelineInv'
<1>1. gate \in Gate
  BY DEF IInv, TypeOK
<1>2. CASE UNCHANGED vars \/ Tick
  BY <1>2, TimelineFrame DEF vars, Tick, timeline
<1>3. CASE Pause \/ Resume \/ Stop \/ Restart \/ Close \/ Carry
  <2>1. UNCHANGED <<head, pending, states, runner>> /\ gate'.finished = gate.finished
    BY <1>1, <1>3 DEF Pause, Resume, Switch, Stop, Restart, Close, StoppedFirst, Carry, Switched,
       StopCancels, CloseCancels, Cancel, StopFinalizes, CloseReturns, timeline, Gate
  <2>2. QED
    BY <2>1, TimelineFrame
<1>4. ASSUME NEW c \in Commands,
             Issue(c) \/ Deliver(c) \/ Reserve(c) \/ Unstore(c) \/ Refuse(c) \/ RefuseCas(c)
               \/ \E to \in MoveTargets : Move(c, to)
      PROVE  TimelineInv'
  BY <1>4, TimelineFrame DEF Issue, Deliver, Reserve, Unstore, Refuse, RefuseCas, Move, timeline
<1>5. ASSUME NEW c \in Commands, Store(c) PROVE TimelineInv'
  <2>1. UNCHANGED <<head, pending, runner, gate>> /\ job[c].pc \in Reserving
        /\ (UNCHANGED states \/ states' = Mark(states, Items(c), "skipped"))
    BY <1>5 DEF Store, Reserving
  <2>2. QED
    BY <2>1, SkipSlots, TimelineFrame
<1>6. CASE Crash
  <2>1. UNCHANGED <<head, pending, states>> /\ runner'.pc = "gone"
    BY <1>6 DEF Crash, timeline, IInv, TypeOK, Runner
  <2>2. QED
    BY <2>1 DEF TimelineInv, Alive, Executing, Over
<1>7. QED
  BY <1>2, <1>3, <1>4, <1>5, <1>6, RunTimeline, InsertTimeline DEF Next, Schedule

-----------------------------------------------------------------------------
(* The commands: who has yet to schedule them, and who to settle them      *)

\* A command that anybody works on has been issued.
IssuedInv == \A c \in Commands : job[c].pc # "none" => command[c] # "none"

\* A command's state is never lost, and work on it begins when it has one.
LEMMA IssuedStep == ASSUME IInv, IssuedInv, [Next]_vars PROVE IssuedInv'
<1> DEFINE Held == \A c \in Commands : command[c] # "none" => command'[c] # "none"
           Begun == \A c \in Commands : job'[c].pc # "none" => job[c].pc # "none"
<1>0. command \in [Commands -> CommandStates] /\ job \in [Commands -> Job]
  BY DEF IInv, TypeOK
<1>1. Held /\ Begun => IssuedInv'
  BY DEF IssuedInv
<1>2. CASE UNCHANGED <<command, job>>
  BY <1>1, <1>2
<1>3. CASE IssueScripted
  <2>1. \A c \in Commands : command'[c] = command[c] \/ command'[c] = "SENT"
    BY <1>0, <1>3 DEF IssueScripted
  <2>2. \A c \in Commands : job'[c] = job[c] \/ (c = runner.cur.cmd /\ command'[c] = "SENT")
    BY <1>0, <1>3 DEF IssueScripted
  <2>3. QED
    BY <2>1, <2>2 DEF IssuedInv
<1>4. CASE SimulateCas
  <2>1. Outcome[runner.cur.kind] # "none"
    BY <1>4 DEF SimulateCas, IInv, ActionInv, Outcome
  <2>2. Held /\ Begun
    BY <1>0, <1>4, <2>1 DEF SimulateCas
  <2>3. QED
    BY <1>1, <2>2
<1>5. CASE DrainCas
  <2>1. Held /\ Begun
    BY <1>0, <1>5 DEF DrainCas
  <2>2. QED
    BY <1>1, <2>1
<1>6. ASSUME NEW c \in Commands, Issue(c) PROVE IssuedInv'
  <2>1. command'[c] = "SENT" /\ \A d \in Commands : d # c => job'[d] = job[d] /\ command'[d] = command[d]
    BY <1>0, <1>6 DEF Issue
  <2>2. QED
    BY <2>1 DEF IssuedInv
<1>7. ASSUME NEW c \in Commands, Schedule(c) PROVE IssuedInv'
  <2>1. \A d \in Commands : command'[d] = command[d] \/ command'[d] = "FAILED"
    BY <1>0, <1>7 DEF Schedule, Deliver, Reserve, Store, Insert, Unstore, Refuse, RefuseCas
  <2>2. job[c].pc # "none" /\ \A d \in Commands : d # c => job'[d] = job[d]
    BY <1>0, <1>7 DEF Schedule, Deliver, Reserve, Store, Insert, Unstore, Refuse, RefuseCas
  <2>3. Held /\ Begun
    BY <2>1, <2>2
  <2>4. QED
    BY <1>1, <2>3
<1>8. ASSUME NEW c \in Commands, NEW to \in MoveTargets, Move(c, to) PROVE IssuedInv'
  <2>1. to # "none"
    BY CommandAssumption
  <2>2. Held /\ Begun
    BY <1>0, <1>8, <2>1 DEF Move
  <2>3. QED
    BY <1>1, <2>2
<1>9. CASE Crash
  <2>1. command' = command /\ \A c \in Commands : job'[c].pc # "none" => job[c].pc # "none"
    BY <1>0, <1>9 DEF Crash, Job
  <2>2. QED
    BY <1>1, <2>1
<1>10. CASE UNCHANGED vars \/ Tick \/ Pause \/ Resume \/ Stop \/ Restart \/ Close \/ Carry
  BY <1>2, <1>10 DEF vars, Tick, Pause, Resume, Switch, Stop, Restart, Close, Carry, Switched,
     StopCancels, CloseCancels, Cancel, StopFinalizes, CloseReturns
<1>11. CASE Run
  <2>1. IssueScripted \/ SimulateCas \/ DrainCas \/ UNCHANGED <<command, job>>
    BY <1>11 DEF Run, Peek, WaitOver, WaitEnds, Reselect, Begin, Emit, IssueReturns, Simulate, Record, Skip,
       Drain, Drained, Conclude, Finalize, Release
  <2>2. QED
    BY <1>2, <1>3, <1>4, <1>5, <2>1
<1>12. QED
  BY <1>6, <1>7, <1>8, <1>9, <1>10, <1>11 DEF Next

\* While the engine lives, what is inserted belongs to a command whose handling has returned, and
\* the command of an action of the script that is still to be executed has not been issued.
JobInv ==
  /\ runner.pc # "gone" =>
       /\ \A a \in pending : job[a.cmd].pc = "done"
       /\ \A i \in head..N : Static[i].issues # NoCommand => job[Static[i].issues].pc = "none"
  /\ runner.pc \in {"act", "cas"} /\ runner.cur.kind \in DOMAIN Outcome => job[runner.cur.cmd].pc = "done"
  /\ runner.pc = "act" /\ runner.cur.kind = "issue" =>
       head > 1 /\ runner.cur = StaticAction(head - 1) /\ job[runner.cur.cmd].pc = "none"

\* What the static timeline issues is of the script, and is issued by one action of it.
LEMMA ScriptedOnce ==
  ASSUME TypeOK
  PROVE  /\ Scripted \subseteq Commands
         /\ \A i \in head..N : i \in 1..N
         /\ \A i \in 1..N : Static[i].issues # NoCommand => Static[i].issues \in Scripted
         /\ \A i, j \in 1..N : i # j /\ Static[i].issues # NoCommand => Static[i].issues # Static[j].issues
<1>1. ASSUME NEW i \in 1..N, NEW j \in 1..N, i # j, Static[i].issues # NoCommand
      PROVE  Static[i].issues # Static[j].issues
  <2>1. i < j \/ j < i
    BY <1>1
  <2>2. QED
    BY <1>1, <2>1, TimelineAssumption
<1>2. \A i \in head..N : i \in 1..N
  BY TimelineAssumption DEF TypeOK
<1>3. Scripted \subseteq Commands
  BY TimelineAssumption DEF Scripted
<1>4. QED
  BY <1>1, <1>2, <1>3 DEF Scripted

\* The goroutine's action when it has been popped from the static timeline.
LEMMA ScriptedCur ==
  ASSUME TypeOK, head > 1, runner.cur = StaticAction(head - 1), runner.cur.kind = "issue"
  PROVE  /\ head - 1 \in 1..N /\ runner.cur.cmd = Static[head - 1].issues
         /\ runner.cur.cmd # NoCommand /\ runner.cur.cmd \in Scripted
<1>1. head - 1 \in 1..N
  BY TimelineAssumption DEF TypeOK
<1>2. runner.cur.cmd = Static[head - 1].issues /\ runner.cur.cmd # NoCommand
  BY DEF StaticAction
<1>3. QED
  BY <1>1, <1>2, ScriptedOnce

\* Commands that are handled stay so, and none of the script is issued.
JobsHeld ==
  /\ \A c \in Commands : job[c].pc = "done" => job'[c].pc = "done"
  /\ \A c \in Scripted : job[c].pc = "none" => job'[c].pc = "none"

\* The timelines stay, and the goroutine takes no other action on.
LEMMA JobFrame ==
  ASSUME IInv, JobInv, UNCHANGED <<head, pending>>, JobsHeld,
         runner'.pc # "gone" => runner.pc # "gone",
         runner'.pc \in {"act", "cas"} => runner'.cur = runner.cur /\ runner.pc \in {"act", "cas"},
         runner'.pc = "act" => runner.pc = "act"
  PROVE  JobInv'
<1>1. \A a \in pending : a.cmd \in Commands
  BY DEF IInv, ActionInv
<1>2. runner.cur.kind # "emit" => runner.cur.cmd \in Commands
  BY DEF IInv, ActionInv
<1>3. runner'.pc # "gone" =>
        /\ \A a \in pending' : job'[a.cmd].pc = "done"
        /\ \A i \in head'..N : Static[i].issues # NoCommand => job'[Static[i].issues].pc = "none"
  BY <1>1, ScriptedOnce DEF JobInv, JobsHeld, IInv
<1>4. runner'.pc \in {"act", "cas"} /\ runner'.cur.kind \in DOMAIN Outcome => job'[runner'.cur.cmd].pc = "done"
  BY <1>2, OutcomeOK DEF JobInv, JobsHeld
<1>5. runner'.pc = "act" /\ runner'.cur.kind = "issue" =>
        head' > 1 /\ runner'.cur = StaticAction(head' - 1) /\ job'[runner'.cur.cmd].pc = "none"
  BY ScriptedCur DEF JobInv, JobsHeld, IInv
<1>6. QED
  BY <1>3, <1>4, <1>5 DEF JobInv

\* popNext: the head of the script, or what a command's handling inserted.
LEMMA BeginJobs == ASSUME IInv, TimelineInv, JobInv, Begin PROVE JobInv'
<1>1. /\ runner.pc = "pop" /\ runner'.pc \in {"act", "skip"} /\ runner'.cur = runner.cur /\ job' = job
      /\ pending' \subseteq pending /\ head \in 1..(N + 1) /\ N \in Nat
  BY TimelineAssumption DEF IInv, TypeOK, Runner, Begin
<1>2. CASE PopsStatic /\ head' = head + 1
  <2>1. head' > 1 /\ head' - 1 = head /\ head \in head..N /\ \A i \in head'..N : i \in head..N
    BY <1>1, <1>2, NextStatic DEF IInv, PopsStatic
  <2>2. runner.cur = StaticAction(head' - 1) /\ runner.cur.kind \notin DOMAIN Outcome
    BY <1>2, <2>1, NextStatic DEF IInv, PopsStatic
  <2>3. runner.cur.kind = "issue" => runner.cur.cmd = Static[head].issues /\ Static[head].issues # NoCommand
    BY <2>1, <2>2 DEF StaticAction
  <2>4. runner.cur.kind = "issue" => job[runner.cur.cmd].pc = "none"
    BY <1>1, <2>1, <2>3 DEF JobInv
  <2>5. QED
    BY <1>1, <2>1, <2>2, <2>4 DEF JobInv
<1>3. CASE PopsDynamic /\ UNCHANGED head
  <2>1. runner.cur \in pending
    BY <1>3 DEF PopsDynamic, IsFirst
  <2>2. runner.cur.kind # "issue"
    BY <2>1 DEF TimelineInv, Outcome
  <2>3. QED
    BY <1>1, <1>3, <2>1, <2>2 DEF JobInv
<1>4. QED
  BY <1>2, <1>3 DEF Begin

\* emitCommand
LEMMA IssueScriptedJobs == ASSUME IInv, JobInv, IssueScripted PROVE JobInv'
<1>1. /\ runner.pc = "act" /\ runner.cur.kind = "issue" /\ runner'.pc \in {"issuing", "record"}
      /\ UNCHANGED <<head, pending>>
  BY DEF IInv, TypeOK, Runner, IssueScripted, timeline
<1>2. head > 1 /\ runner.cur = StaticAction(head - 1) /\ job[runner.cur.cmd].pc = "none"
  BY <1>1 DEF JobInv
<1>3. head - 1 \in 1..N /\ runner.cur.cmd = Static[head - 1].issues /\ runner.cur.cmd # NoCommand
      /\ runner.cur.cmd \in Commands
  BY <1>1, <1>2, ScriptedCur DEF IInv, ActionInv
<1>4. \A c \in Commands : c # runner.cur.cmd => job'[c] = job[c]
  BY <1>3 DEF IInv, TypeOK, IssueScripted
<1>5. \A a \in pending : job'[a.cmd].pc = "done"
  BY <1>1, <1>2, <1>4 DEF JobInv, IInv, ActionInv
<1>6. ASSUME NEW i \in head..N, Static[i].issues # NoCommand PROVE job'[Static[i].issues].pc = "none"
  <2>1. i \in 1..N /\ i # head - 1
    BY <1>2 DEF IInv, TypeOK
  <2>2. Static[i].issues # runner.cur.cmd /\ Static[i].issues \in Commands
    BY <1>3, <1>6, <2>1, ScriptedOnce, TimelineAssumption DEF IInv
  <2>3. QED
    BY <1>1, <1>4, <1>6, <2>2 DEF JobInv
<1>7. QED
  BY <1>1, <1>5, <1>6 DEF JobInv

\* scheduleAfterMany: what it inserts is of the command whose handling ends with that.
LEMMA InsertJobs == ASSUME IInv, JobInv, NEW c \in Commands, Insert(c) PROVE JobInv'
<1>1. /\ job[c].pc = "insert" /\ UNCHANGED <<head, runner>>
      /\ \A d \in Commands : d # c => job'[d] = job[d]
      /\ pending' = pending \/ (pending' = pending \cup Items(c) /\ job'[c].pc = "done")
  BY DEF Insert, IInv, TypeOK, Job
<1>2. JobsHeld
  BY <1>1, ScriptedOnce DEF JobsHeld, IInv, TypeOK
<1>3. CASE pending' = pending
  BY <1>1, <1>2, <1>3, JobFrame
<1>4. CASE pending' = pending \cup Items(c) /\ job'[c].pc = "done"
  <2>1. \A a \in pending : a.cmd \in Commands
    BY DEF IInv, ActionInv
  <2>2. \A a \in Items(c) : a.cmd = c
    BY PlanOK DEF IInv
  <2>3. runner.pc # "gone" => \A a \in pending' : job'[a.cmd].pc = "done"
    BY <1>1, <1>4, <2>1, <2>2 DEF JobInv
  <2>4. runner.pc # "gone" =>
          \A i \in head..N : Static[i].issues # NoCommand => job'[Static[i].issues].pc = "none"
    BY <1>2, ScriptedOnce DEF JobInv, JobsHeld, IInv
  <2>5. runner.cur.kind # "emit" => runner.cur.cmd \in Commands
    BY DEF IInv, ActionInv
  <2>6. runner.pc \in {"act", "cas"} /\ runner.cur.kind \in DOMAIN Outcome => job'[runner.cur.cmd].pc = "done"
    BY <1>2, <2>5, OutcomeOK DEF JobInv, JobsHeld
  <2>7. runner.pc = "act" /\ runner.cur.kind = "issue" =>
          head > 1 /\ runner.cur = StaticAction(head - 1) /\ job'[runner.cur.cmd].pc = "none"
    BY <1>2, ScriptedCur DEF JobInv, JobsHeld, IInv
  <2>8. QED
    BY <1>1, <2>3, <2>4, <2>6, <2>7 DEF JobInv
<1>5. QED
  BY <1>1, <1>3, <1>4

\* The other steps of the goroutine.
LEMMA RunJobs == ASSUME IInv, TimelineInv, JobInv, Run PROVE JobInv'
<1>1. runner \in Runner
  BY DEF IInv, TypeOK
<1>2. CASE Peek \/ WaitOver \/ WaitEnds \/ Reselect \/ Record
  <2>1. /\ UNCHANGED <<head, pending, job>> /\ runner.pc # "gone"
        /\ runner'.pc \in {"wait", "ended", "pop", "skip", "peek"}
    BY <1>1, <1>2 DEF Peek, WaitOver, WaitEnds, Reselect, Record, Runner, timeline
  <2>2. QED
    BY <2>1, JobFrame DEF JobsHeld
<1>3. CASE Emit \/ IssueReturns \/ Simulate \/ SimulateCas
  <2>1. /\ UNCHANGED <<head, pending, job>> /\ runner.pc # "gone" /\ runner'.cur = runner.cur
        /\ runner'.pc \in {"record", "cas"} /\ (runner'.pc = "cas" => runner.pc = "act")
    BY <1>1, <1>3 DEF Emit, IssueReturns, Simulate, SimulateCas, Runner, timeline
  <2>2. QED
    BY <2>1, JobFrame DEF JobsHeld
<1>4. CASE Skip \/ (\E c \in Commands : Drain(c)) \/ DrainCas \/ Drained
  <2>1. /\ UNCHANGED <<head, pending, job>> /\ runner.pc # "gone"
        /\ runner'.pc \in {"drain", "drainCas", "ended"}
    BY <1>1, <1>4, ZenonT(60) DEF Skip, Drain, DrainCas, Drained, Runner, timeline
  <2>2. QED
    BY <2>1, JobFrame DEF JobsHeld
<1>5. CASE Conclude \/ Finalize \/ Release
  <2>1. /\ UNCHANGED <<head, pending, job>> /\ runner.pc # "gone"
        /\ runner'.pc \in {"final", "release", "done"}
    BY <1>1, <1>5 DEF Conclude, Finalize, Release, Runner, timeline
  <2>2. QED
    BY <2>1, JobFrame DEF JobsHeld
<1>6. QED
  BY <1>2, <1>3, <1>4, <1>5, BeginJobs, IssueScriptedJobs DEF Run

LEMMA JobInvStep == ASSUME IInv, TimelineInv, IssuedInv, JobInv, [Next]_vars PROVE JobInv'
<1>1. CASE UNCHANGED vars \/ Tick
  BY <1>1, JobFrame DEF vars, Tick, timeline, JobsHeld
<1>2. CASE Pause \/ Resume \/ Stop \/ Restart \/ Close \/ Carry
  <2>1. UNCHANGED <<head, pending, job, runner>>
    BY <1>2 DEF Pause, Resume, Switch, Stop, Restart, Close, Carry, Switched, StopCancels, CloseCancels,
       Cancel, StopFinalizes, CloseReturns, timeline
  <2>2. QED
    BY <2>1, JobFrame DEF JobsHeld
<1>3. ASSUME NEW c \in Commands, Issue(c) PROVE JobInv'
  <2>1. /\ UNCHANGED <<head, pending, runner>> /\ c \notin Scripted /\ job[c].pc # "done"
        /\ \A d \in Commands : d # c => job'[d] = job[d]
    BY <1>3 DEF Issue, timeline, IssuedInv, IInv, TypeOK
  <2>2. JobsHeld
    BY <2>1, ScriptedOnce DEF JobsHeld, IInv
  <2>3. QED
    BY <2>1, <2>2, JobFrame
<1>4. ASSUME NEW c \in Commands,
             Deliver(c) \/ Reserve(c) \/ Store(c) \/ Unstore(c) \/ Refuse(c) \/ RefuseCas(c)
      PROVE  JobInv'
  <2>1. /\ UNCHANGED <<head, pending, runner>> /\ job[c].pc \notin {"none", "done"}
        /\ \A d \in Commands : d # c => job'[d] = job[d]
    BY <1>4 DEF Deliver, Reserve, Store, Unstore, Refuse, RefuseCas, timeline, IInv, TypeOK
  <2>2. JobsHeld
    BY <2>1, ScriptedOnce DEF JobsHeld, IInv
  <2>3. QED
    BY <2>1, <2>2, JobFrame
<1>5. ASSUME NEW c \in Commands, NEW to \in MoveTargets, Move(c, to) PROVE JobInv'
  BY <1>5, JobFrame DEF Move, timeline, JobsHeld
<1>6. CASE Crash
  <2>1. runner'.pc = "gone"
    BY <1>6 DEF Crash, IInv, TypeOK, Runner
  <2>2. QED
    BY <2>1 DEF JobInv
<1>7. QED
  BY <1>1, <1>2, <1>3, <1>4, <1>5, <1>6, RunJobs, InsertJobs DEF Next, Schedule

-----------------------------------------------------------------------------
(* The rows of actions                                                     *)

\* The rows of a command's actions are stored, their marks not yet made.
Placing == {"insert", "unstore"}

\* While no statement fails, a row differs from the mark only where a sweep came between the two,
\* or where the command's own goroutine has yet to make the mark or to skip the row.
RowsInv ==
  /\ \A s \in Seqs : \/ rows[s] = states[s]
                     \/ rows[s] = "skipped" /\ states[s] \in Unfinished
                     \/ \E c \in Commands : job[c].pc \in Placing /\ s \in Slots(c)
  /\ \A c \in Commands : job[c].pc \in Placing => \A s \in Slots(c) :
       /\ s \in Seqs /\ rows[s] \in {"pending", "skipped"}
       /\ job[c].pc = "unstore" => states[s] = "skipped"

\* The numbers of stored actions are neither waiting nor running.
LEMMA PlacedUnmarked ==
  ASSUME IInv, RowsInv, NEW c \in Commands, job[c].pc \in Placing
  PROVE  \A s \in Slots(c) : states[s] \in {"none", "skipped"}
BY SlotsFree DEF IInv, RowsInv, Placing, Reserving

\* No command's actions become stored, inserted or skipped.
JobsPlaced ==
  \A c \in Commands : /\ job'[c].pc \in Placing <=> job[c].pc \in Placing
                      /\ job'[c].pc \in Placing => job'[c] = job[c]

\* A step that writes neither rows nor marks.
LEMMA RowsFrame ==
  ASSUME RowsInv, UNCHANGED <<rows, states, behavior>>, JobsPlaced
  PROVE  RowsInv'
<1>1. \A c \in Commands : job'[c].pc \in Placing => Slots(c)' = Slots(c)
  BY DEF JobsPlaced, Slots, Planned
<1>2. QED
  BY <1>1 DEF RowsInv, JobsPlaced

\* A sweep of the rows.
LEMMA RowsSwept ==
  ASSUME RowsInv, UNCHANGED <<states, behavior, job>>, rows' = Swept(rows)
  PROVE  RowsInv'
<1>1. \A c \in Commands : Slots(c)' = Slots(c)
  BY DEF Slots, Planned
<1>2. \A s \in Seqs : rows'[s] = IF rows[s] \in Unfinished THEN "skipped" ELSE rows[s]
  BY DEF Swept
<1>3. QED
  BY <1>1, <1>2 DEF RowsInv, Unfinished

\* Where the goroutine marks its action, it writes the row too.
LEMMA RowsMarked ==
  ASSUME IInv, RowsInv, UNCHANGED <<behavior, job>>, runner.cur.seq \in Seqs,
         states[runner.cur.seq] \in Unfinished, NEW m,
         states' = Mark(states, {runner.cur}, m), rows' = Mark(rows, {runner.cur}, m)
  PROVE  RowsInv'
<1>1. \A c \in Commands : Slots(c)' = Slots(c)
  BY DEF Slots, Planned
<1>2. \A s \in Seqs : /\ states'[s] = IF s = runner.cur.seq THEN m ELSE states[s]
                      /\ rows'[s] = IF s = runner.cur.seq THEN m ELSE rows[s]
  BY DEF Mark
<1>3. \A c \in Commands : job[c].pc \in Placing => runner.cur.seq \notin Slots(c)
  BY PlacedUnmarked DEF Unfinished
<1>4. \A s \in Seqs : \/ rows'[s] = states'[s]
                      \/ rows'[s] = "skipped" /\ states'[s] \in Unfinished
                      \/ \E c \in Commands : job'[c].pc \in Placing /\ s \in Slots(c)'
  BY <1>1, <1>2 DEF RowsInv
<1>5. ASSUME NEW c \in Commands, job'[c].pc \in Placing, NEW s \in Slots(c)'
      PROVE  /\ s \in Seqs /\ rows'[s] \in {"pending", "skipped"}
             /\ job'[c].pc = "unstore" => states'[s] = "skipped"
  <2>1. s \in Slots(c) /\ job[c].pc \in Placing /\ s # runner.cur.seq
    BY <1>1, <1>3, <1>5
  <2>2. QED
    BY <1>2, <2>1 DEF RowsInv
<1>6. QED
  BY <1>4, <1>5 DEF RowsInv

\* A command's goroutine goes on from one of its steps to the next.
LEMMA JobGoesOn ==
  ASSUME IInv, NEW c \in Commands, NEW p \in JobPcs, job' = [job EXCEPT ![c].pc = p], UNCHANGED behavior
  PROVE  /\ job'[c].pc = p /\ \A d \in Commands : d # c => job'[d] = job[d]
         /\ \A d \in Commands : Slots(d)' = Slots(d)
BY DEF IInv, TypeOK, Job, Slots, Planned

\* scheduleAfterMany: the rows are stored.
LEMMA StoreRows == ASSUME IInv, RowsInv, NEW c \in Commands, Store(c), ~Fault PROVE RowsInv'
<1>1. /\ job[c].pc = "store" /\ job' = [job EXCEPT ![c].pc = "insert"]
      /\ rows' = Mark(rows, Items(c), "pending") /\ UNCHANGED <<states, behavior>>
  BY DEF Store, service
<1>2. /\ job'[c].pc = "insert" /\ \A d \in Commands : d # c => job'[d] = job[d]
      /\ \A d \in Commands : Slots(d)' = Slots(d)
  BY <1>1, JobGoesOn DEF JobPcs
<1>3. \A s \in Seqs : rows'[s] = IF s \in Slots(c) THEN "pending" ELSE rows[s]
  BY <1>1, MarkItems DEF IInv
<1>4. \A s \in Slots(c) : s \in Seqs
  BY <1>1, SlotsFree DEF IInv, Reserving
<1>5. \A s \in Seqs : \/ rows'[s] = states'[s]
                      \/ rows'[s] = "skipped" /\ states'[s] \in Unfinished
                      \/ \E d \in Commands : job'[d].pc \in Placing /\ s \in Slots(d)'
  BY <1>1, <1>2, <1>3 DEF RowsInv, Placing
<1>6. ASSUME NEW d \in Commands, job'[d].pc \in Placing, NEW s \in Slots(d)'
      PROVE  /\ s \in Seqs /\ rows'[s] \in {"pending", "skipped"}
             /\ job'[d].pc = "unstore" => states'[s] = "skipped"
  BY <1>1, <1>2, <1>3, <1>4, <1>6 DEF RowsInv, Placing
<1>7. QED
  BY <1>5, <1>6 DEF RowsInv

\* They are marked as pending, or skipped.
LEMMA InsertRows == ASSUME IInv, RowsInv, NEW c \in Commands, Insert(c) PROVE RowsInv'
<1>1. PICK m \in {"pending", "skipped"}, p \in {"done", "unstore"} :
        /\ job' = [job EXCEPT ![c].pc = p] /\ states' = Mark(states, Items(c), m)
        /\ p = "unstore" => m = "skipped"
        /\ m = "skipped" => p = "unstore"
  BY DEF Insert
<1>2. job[c].pc = "insert" /\ UNCHANGED <<rows, behavior>>
  BY DEF Insert, run, service
<1>3. /\ job'[c].pc = p /\ \A d \in Commands : d # c => job'[d] = job[d]
      /\ \A d \in Commands : Slots(d)' = Slots(d)
  BY <1>1, <1>2, JobGoesOn DEF JobPcs
<1>4. \A s \in Seqs : states'[s] = IF s \in Slots(c) THEN m ELSE states[s]
  BY <1>1, MarkItems DEF IInv
<1>5. \A s \in Slots(c) : s \in Seqs /\ states[s] = "none" /\ rows[s] \in {"pending", "skipped"}
  BY <1>2, SlotsFree DEF IInv, RowsInv, Reserving, Placing
<1>6. ASSUME NEW s \in Seqs
      PROVE  \/ rows'[s] = states'[s]
             \/ rows'[s] = "skipped" /\ states'[s] \in Unfinished
             \/ \E d \in Commands : job'[d].pc \in Placing /\ s \in Slots(d)'
  <2>1. CASE s \in Slots(c)
    BY <1>1, <1>2, <1>3, <1>4, <1>5, <2>1 DEF Placing, Unfinished
  <2>2. CASE s \notin Slots(c)
    BY <1>2, <1>3, <1>4, <2>2 DEF RowsInv
  <2>3. QED
    BY <2>1, <2>2
<1>7. ASSUME NEW d \in Commands, job'[d].pc \in Placing, NEW s \in Slots(d)'
      PROVE  /\ s \in Seqs /\ rows'[s] \in {"pending", "skipped"}
             /\ job'[d].pc = "unstore" => states'[s] = "skipped"
  <2>1. CASE d = c
    BY <1>1, <1>2, <1>3, <1>4, <1>5, <1>7, <2>1 DEF Placing
  <2>2. CASE d # c
    BY <1>2, <1>3, <1>4, <1>5, <1>7, <2>2 DEF RowsInv
  <2>3. QED
    BY <2>1, <2>2
<1>8. QED
  BY <1>6, <1>7 DEF RowsInv

\* The rows of those that were not inserted are skipped.
LEMMA UnstoreRows == ASSUME IInv, RowsInv, NEW c \in Commands, Unstore(c), ~Fault PROVE RowsInv'
<1>1. /\ job[c].pc = "unstore" /\ job' = [job EXCEPT ![c].pc = "refused"]
      /\ rows' = Mark(rows, Items(c), "skipped") /\ UNCHANGED <<states, behavior>>
  BY DEF Unstore, timeline, service
<1>2. /\ job'[c].pc = "refused" /\ \A d \in Commands : d # c => job'[d] = job[d]
      /\ \A d \in Commands : Slots(d)' = Slots(d)
  BY <1>1, JobGoesOn DEF JobPcs
<1>3. \A s \in Seqs : rows'[s] = IF s \in Slots(c) THEN "skipped" ELSE rows[s]
  BY <1>1, MarkItems DEF IInv
<1>4. \A s \in Slots(c) : states[s] = "skipped"
  BY <1>1 DEF RowsInv, Placing
<1>5. ASSUME NEW s \in Seqs
      PROVE  \/ rows'[s] = states'[s]
             \/ rows'[s] = "skipped" /\ states'[s] \in Unfinished
             \/ \E d \in Commands : job'[d].pc \in Placing /\ s \in Slots(d)'
  BY <1>1, <1>2, <1>3, <1>4 DEF RowsInv
<1>6. ASSUME NEW d \in Commands, job'[d].pc \in Placing, NEW s \in Slots(d)'
      PROVE  /\ s \in Seqs /\ rows'[s] \in {"pending", "skipped"}
             /\ job'[d].pc = "unstore" => states'[s] = "skipped"
  BY <1>1, <1>2, <1>3, <1>6 DEF RowsInv, Placing
<1>7. QED
  BY <1>5, <1>6 DEF RowsInv

\* skipPending sweeps the rows and the marks.
LEMMA SkipRows == ASSUME IInv, RowsInv, Skip, ~Fault PROVE RowsInv'
<1>1. rows' = Swept(rows) /\ states' = Swept(states) /\ UNCHANGED <<behavior, job>>
  BY DEF Skip, service
<1>2. \A s \in Seqs : /\ rows'[s] = IF rows[s] \in Unfinished THEN "skipped" ELSE rows[s]
                      /\ states'[s] = IF states[s] \in Unfinished THEN "skipped" ELSE states[s]
  BY <1>1 DEF Swept
<1>3. \A c \in Commands : Slots(c)' = Slots(c)
  BY <1>1 DEF Slots, Planned
<1>4. QED
  BY <1>1, <1>2, <1>3 DEF RowsInv, Unfinished

\* The steps of the goroutine.
LEMMA RunRows == ASSUME IInv, TimelineInv, JobInv, RowsInv, Run, ~Fault PROVE RowsInv'
<1>1. CASE Begin
  <2>1. /\ rows' = Mark(rows, {runner.cur}, "running") /\ states' = Mark(states, {runner.cur}, "running")
        /\ UNCHANGED <<behavior, job>>
    BY <1>1 DEF Begin, service
  <2>2. QED
    BY <1>1, <2>1, Popped, RowsMarked DEF Unfinished
<1>2. CASE Record
  <2>1. PICK m \in Marks : rows' = Mark(rows, {runner.cur}, m) /\ states' = Mark(states, {runner.cur}, m)
    BY <1>2 DEF Record, Marks
  <2>2. UNCHANGED <<behavior, job>>
    BY <1>2 DEF Record, service
  <2>3. runner.cur.seq \in Seqs /\ states[runner.cur.seq] = "running"
    BY <1>2 DEF Record, IInv, ActionInv, Known, TimelineInv, Alive, Executing
  <2>4. QED
    BY <2>1, <2>2, <2>3, RowsMarked DEF Unfinished
<1>3. CASE Finalize
  BY <1>3, RowsSwept DEF Finalize, FinalizeLocked, timeline, service
<1>4. CASE IssueScripted
  <2>1. /\ UNCHANGED <<rows, states, behavior>> /\ job[runner.cur.cmd].pc = "none"
        /\ runner.cur.cmd \in Commands
        /\ job' = job \/ job' = [job EXCEPT ![runner.cur.cmd].pc = "published"]
    BY <1>4 DEF IssueScripted, JobInv, IInv, ActionInv, run, timeline, service
  <2>2. JobsPlaced
    BY <2>1 DEF JobsPlaced, Placing, IInv, TypeOK, Job
  <2>3. QED
    BY <2>1, <2>2, RowsFrame
<1>5. CASE Peek \/ WaitOver \/ WaitEnds \/ Reselect \/ Emit \/ IssueReturns \/ Simulate \/ SimulateCas
             \/ (\E c \in Commands : Drain(c)) \/ DrainCas \/ Drained \/ Conclude \/ Release
  <2>1. UNCHANGED <<rows, states, behavior, job>>
    BY <1>5 DEF Peek, WaitOver, WaitEnds, Reselect, Emit, IssueReturns, Simulate, SimulateCas, Drain,
       DrainCas, Drained, Conclude, Release, run, timeline, service
  <2>2. QED
    BY <2>1, RowsFrame DEF JobsPlaced
<1>6. QED
  BY <1>1, <1>2, <1>3, <1>4, <1>5, SkipRows DEF Run

LEMMA RowsStep ==
  ASSUME IInv, TimelineInv, IssuedInv, JobInv, RowsInv, [Next]_vars, ~Fault
  PROVE  RowsInv'
<1>1. CASE UNCHANGED vars \/ Tick
  BY <1>1, RowsFrame DEF vars, Tick, run, timeline, service, JobsPlaced
<1>2. CASE StopFinalizes
  BY <1>2, RowsSwept DEF StopFinalizes, FinalizeLocked, timeline
<1>3. CASE Pause \/ Resume \/ Stop \/ Restart \/ Close \/ Switched \/ StopCancels \/ CloseCancels \/ CloseReturns
  <2>1. UNCHANGED <<rows, states, behavior, job>>
    BY <1>3 DEF Pause, Resume, Switch, Stop, Restart, Close, Switched, StopCancels, CloseCancels,
       Cancel, CloseReturns, run, timeline
  <2>2. QED
    BY <2>1, RowsFrame DEF JobsPlaced
<1>4. ASSUME NEW c \in Commands, Issue(c) \/ Deliver(c) \/ Reserve(c) \/ Refuse(c) \/ RefuseCas(c)
      PROVE  RowsInv'
  <2>1. /\ UNCHANGED <<rows, states, behavior>> /\ \A d \in Commands : d # c => job'[d] = job[d]
        /\ job[c].pc \notin Placing /\ job'[c].pc \notin Placing
    BY <1>4 DEF Issue, Deliver, Reserve, Refuse, RefuseCas, run, timeline, service, IssuedInv, IInv, TypeOK,
       Job, Placing
  <2>2. QED
    BY <2>1, RowsFrame DEF JobsPlaced
<1>5. ASSUME NEW c \in Commands, NEW to \in MoveTargets, Move(c, to) PROVE RowsInv'
  BY <1>5, RowsFrame DEF Move, run, timeline, service, JobsPlaced
<1>6. ~Crash
  BY DEF Crash
<1>7. QED
  BY <1>1, <1>2, <1>3, <1>4, <1>5, <1>6, RunRows, StoreRows, InsertRows, UnstoreRows DEF Next, Schedule, Carry

-----------------------------------------------------------------------------
(* The commands that the engine has taken on                               *)

\* An action is still to come that settles the command.
AwaitedBy(c) ==
  \/ \E a \in pending : a.cmd = c /\ Final(a)
  \/ runner.pc \in {"act", "cas"} /\ runner.cur.cmd = c /\ Final(runner.cur)

\* The engine has taken the command on, and it has no outcome yet.
Open(c) == job[c].pc = "done" /\ command[c] \notin Settled /\ c \notin loose

\* Where the goroutine is, and what it will do about the command from there.
Served(c) ==
  /\ runner.pc \in Alive => c \in tracked /\ AwaitedBy(c)
  /\ runner.pc = "skip" => c \in tracked
  /\ runner.pc = "drain" => c \in todo
  /\ runner.pc = "drainCas" => c \in todo \cup {runner.failing}
  /\ runner.pc \notin {"ended", "final", "release", "done"}

OpenInv ==
  /\ runner.pc = "cas" => CanTransition(runner.from, Outcome[runner.cur.kind])
  /\ \A c \in Commands : /\ runner.pc \in Alive /\ job[c].pc \in Reserving => c \in tracked
                         /\ Open(c) => Served(c)

\* Only an acknowledgement leaves its command without an outcome.
LEMMA FinalSettles ==
  ASSUME NEW a, a.kind \in DOMAIN Outcome
  PROVE  Outcome[a.kind] \in Settled <=> Final(a)
BY DEF Outcome, Settled, Final

\* A command whose state may change has no outcome.
LEMMA TransitionOpen ==
  ASSUME NEW from, NEW to, CanTransition(from, to)
  PROVE  from \notin Settled
BY DEF CanTransition, Settled

\* A command that cannot be failed has an outcome, or was never issued.
LEMMA CannotFail ==
  ASSUME NEW st \in CommandStates, ~CanTransition(st, "FAILED"), st # "none"
  PROVE  st \in Settled
BY DEF CanTransition, Settled, CommandStates

\* The steps of others: no command is opened, and none of the open ones is forgotten.
LEMMA OpenFrame ==
  ASSUME OpenInv, UNCHANGED <<pending, runner, todo>>,
         \A c \in Commands : Open(c)' => Open(c) /\ (c \in tracked => c \in tracked'),
         \A c \in Commands : job'[c].pc \in Reserving =>
           c \in tracked' \/ (job[c].pc \in Reserving /\ (c \in tracked => c \in tracked'))
  PROVE  OpenInv'
<1>1. \A c : AwaitedBy(c)' <=> AwaitedBy(c)
  BY DEF AwaitedBy
<1>2. \A c \in Commands : Open(c)' => Served(c)'
  BY <1>1 DEF OpenInv, Served
<1>3. QED
  BY <1>2 DEF OpenInv

\* The goroutine waits, or takes the next action; when there is none, no command is open.
LEMMA WaitOpen == ASSUME IInv, OpenInv, Peek \/ WaitOver \/ WaitEnds \/ Reselect PROVE OpenInv'
<1>1. /\ runner \in Runner /\ runner.pc \in {"peek", "wait", "pop"}
      /\ UNCHANGED <<pending, tracked, command, job, loose>>
      /\ runner'.pc \in {"wait", "pop", "peek", "skip", "ended"}
      /\ runner'.pc = "ended" => pending = {}
  <2>1. /\ runner \in Runner /\ runner.pc \in {"peek", "wait", "pop"}
        /\ UNCHANGED <<pending, tracked, command, job, loose>>
    BY DEF IInv, TypeOK, Peek, WaitOver, WaitEnds, Reselect, timeline
  <2>2. CASE Peek
    BY <2>1, <2>2 DEF Peek, Runner, Candidates
  <2>3. CASE WaitOver \/ WaitEnds \/ Reselect
    BY <2>1, <2>3 DEF WaitOver, WaitEnds, Reselect, Runner
  <2>4. QED
    BY <2>1, <2>2, <2>3
<1>2. ASSUME NEW c \in Commands, Open(c)' PROVE Served(c)'
  <2>1. c \in tracked /\ \E a \in pending : a.cmd = c /\ Final(a)
    BY <1>1, <1>2 DEF OpenInv, Open, Served, Alive, AwaitedBy
  <2>2. \E a \in pending' : (a.cmd = c /\ Final(a))'
    BY <1>1, <2>1 DEF Final
  <2>3. QED
    BY <1>1, <2>1, <2>2 DEF Served, AwaitedBy
<1>3. QED
  BY <1>1, <1>2 DEF OpenInv, Alive, Executing

\* popNext: what a command waits for is taken from the timeline to the goroutine.
LEMMA BeginOpen == ASSUME IInv, OpenInv, Begin PROVE OpenInv'
<1>1. /\ runner \in Runner /\ runner.pc = "pop" /\ runner'.pc \in {"act", "skip"} /\ runner'.cur = runner.cur
      /\ UNCHANGED <<tracked, command, job, loose>>
      /\ \A a \in pending : a = runner.cur \/ a \in pending'
  BY DEF IInv, TypeOK, Runner, Begin
<1>2. ASSUME NEW c \in Commands, Open(c)' PROVE Served(c)'
  <2>1. c \in tracked /\ \E a \in pending : a.cmd = c /\ Final(a)
    BY <1>1, <1>2 DEF OpenInv, Open, Served, Alive, AwaitedBy
  <2>2. runner'.pc = "act" => AwaitedBy(c)'
    BY <1>1, <2>1 DEF AwaitedBy, Final
  <2>3. QED
    BY <1>1, <2>1, <2>2 DEF Served, Alive, Executing
<1>3. QED
  BY <1>1, <1>2 DEF OpenInv, Alive, Executing

\* An action that settles no command, or the recording of one.
LEMMA ActOpen ==
  ASSUME IInv, JobInv, OpenInv, Emit \/ IssueScripted \/ IssueReturns \/ Record
  PROVE  OpenInv'
<1>1. /\ runner \in Runner /\ runner.pc \in {"act", "issuing", "record"}
      /\ runner'.pc \in {"record", "issuing", "peek", "skip"}
      /\ UNCHANGED <<pending, tracked, loose>>
  BY DEF IInv, TypeOK, Runner, Emit, IssueScripted, IssueReturns, Record, timeline
<1>2. runner.pc = "act" => ~Final(runner.cur)
  BY <1>1 DEF Emit, IssueScripted, IssueReturns, Record, Final, Outcome
<1>3. \A c \in Commands : /\ Open(c)' => Open(c)
                          /\ job'[c].pc \in Reserving => job[c].pc \in Reserving
  <2>1. CASE IssueScripted
    <3>1. \A c \in Commands : c # runner.cur.cmd => job'[c] = job[c] /\ command'[c] = command[c]
      BY <2>1 DEF IssueScripted, IInv, TypeOK
    <3>2. job'[runner.cur.cmd].pc \in {"none", "published"} \/ runner.cur.cmd \notin Commands
      BY <2>1 DEF IssueScripted, IInv, TypeOK, JobInv, Job
    <3>3. QED
      BY <1>1, <3>1, <3>2 DEF Open, Reserving
  <2>2. CASE UNCHANGED <<command, job>>
    BY <1>1, <2>2 DEF Open
  <2>3. QED
    BY <2>1, <2>2 DEF Emit, IssueReturns, Record
<1>4. ASSUME NEW c \in Commands, Open(c)' PROVE Served(c)'
  <2>1. c \in tracked /\ \E a \in pending : a.cmd = c /\ Final(a)
    BY <1>1, <1>2, <1>3, <1>4 DEF OpenInv, Served, Alive, Executing, AwaitedBy
  <2>2. AwaitedBy(c)'
    BY <1>1, <2>1 DEF AwaitedBy, Final
  <2>3. QED
    BY <1>1, <2>1, <2>2 DEF Served
<1>5. QED
  BY <1>1, <1>3, <1>4 DEF OpenInv, Alive, Executing

\* A simulated action reads its command; if it gives up, that is the engine's failure.
LEMMA SimulateOpen == ASSUME IInv, JobInv, OpenInv, Simulate PROVE OpenInv'
<1> DEFINE e == runner.cur.cmd
<1>1. /\ runner \in Runner /\ runner.pc = "act" /\ runner.cur.kind \in DOMAIN Outcome
      /\ UNCHANGED <<pending, command, job>> /\ job[e].pc = "done"
  BY DEF IInv, TypeOK, Simulate, JobInv
<1>2. CASE runner' = [runner EXCEPT !.pc = "cas", !.from = command[e]] /\ UNCHANGED <<tracked, loose>>
  <2>1. runner'.pc = "cas" /\ runner'.cur = runner.cur /\ runner'.from = command[e]
    BY <1>1, <1>2 DEF Runner
  <2>2. CanTransition(command[e], Outcome[runner.cur.kind])
    BY <1>1, <1>2, <2>1 DEF Simulate, Runner
  <2>3. \A c : AwaitedBy(c)' <=> AwaitedBy(c)
    BY <1>1, <2>1 DEF AwaitedBy, Final
  <2>4. QED
    BY <1>1, <1>2, <2>1, <2>2, <2>3 DEF OpenInv, Open, Served, Alive, Executing
<1>3. CASE runner' = [runner EXCEPT !.pc = "record", !.result = "failed"] /\ GiveUp(TRUE)
           /\ loose' = loose \cup {e}
  <2>1. runner'.pc = "record" /\ tracked' = tracked \ {e}
    BY <1>1, <1>3 DEF Runner, GiveUp
  <2>2. ASSUME NEW c \in Commands, Open(c)' PROVE Served(c)'
    <3>1. Open(c) /\ c # e
      BY <1>1, <1>3, <2>2 DEF Open
    <3>2. c \in tracked /\ \E a \in pending : a.cmd = c /\ Final(a)
      BY <1>1, <3>1 DEF OpenInv, Served, Alive, Executing, AwaitedBy
    <3>3. AwaitedBy(c)'
      BY <1>1, <3>2 DEF AwaitedBy, Final
    <3>4. QED
      BY <2>1, <3>1, <3>2, <3>3 DEF Served
  <2>3. QED
    BY <1>1, <2>1, <2>2 DEF OpenInv, Alive, Executing, Reserving
<1>4. QED
  BY <1>2, <1>3 DEF Simulate

\* It settles its command, or acknowledges it and leaves the rest to the completion.
LEMMA SimulateCasOpen == ASSUME IInv, JobInv, OpenInv, SimulateCas PROVE OpenInv'
<1> DEFINE e == runner.cur.cmd
<1>1. /\ runner \in Runner /\ runner.pc = "cas" /\ runner.cur.kind \in DOMAIN Outcome
      /\ UNCHANGED <<pending, job>> /\ job[e].pc = "done" /\ e \in Commands
      /\ runner'.pc = "record"
  BY OutcomeOK DEF IInv, TypeOK, ActionInv, Runner, SimulateCas, JobInv
<1>2. ASSUME NEW c \in Commands, Open(c)'
      PROVE  Open(c) /\ c \in tracked' /\ \E a \in pending : a.cmd = c /\ Final(a)
  <2>1. CASE c # e
    <3>1. command'[c] = command[c] /\ (c \in tracked => c \in tracked') /\ (c \in loose => c \in loose')
      BY <1>1, <2>1 DEF SimulateCas, GiveUp, IInv, TypeOK
    <3>2. Open(c)
      BY <1>1, <1>2, <3>1 DEF Open
    <3>3. QED
      BY <1>1, <2>1, <3>1, <3>2 DEF OpenInv, Served, Alive, Executing, AwaitedBy
  <2>2. CASE c = e
    <3>1. e \notin loose'
      BY <1>2, <2>2 DEF Open
    <3>2. /\ command[e] = runner.from /\ command'[e] = Outcome[runner.cur.kind]
          /\ GiveUp(FALSE) /\ loose' = loose
      BY <1>1, <3>1 DEF SimulateCas, IInv, TypeOK
    <3>3. ~Final(runner.cur)
      BY <1>1, <1>2, <2>2, <3>2, FinalSettles DEF Open
    <3>4. tracked' = tracked
      BY <1>1, <3>2, <3>3 DEF GiveUp, Final
    <3>5. Open(c)
      BY <1>1, <2>2, <3>1, <3>2, TransitionOpen DEF OpenInv, Open
    <3>6. QED
      BY <1>1, <3>3, <3>4, <3>5 DEF OpenInv, Served, Alive, Executing, AwaitedBy
  <2>3. QED
    BY <2>1, <2>2
<1>3. ASSUME NEW c \in Commands, Open(c)' PROVE Served(c)'
  <2>1. c \in tracked' /\ AwaitedBy(c)'
    BY <1>1, <1>2, <1>3 DEF AwaitedBy, Final
  <2>2. QED
    BY <1>1, <2>1 DEF Served
<1>4. \A c \in Commands : c # e /\ c \in tracked => c \in tracked'
  BY DEF SimulateCas, GiveUp
<1>5. QED
  BY <1>1, <1>3, <1>4 DEF OpenInv, Alive, Executing, Reserving

\* failPendingCommands fails every command that is tracked when the run ends, or finds it settled.
LEMMA DrainOpen ==
  ASSUME IInv, IssuedInv, OpenInv, Skip \/ (\E c \in Commands : Drain(c)) \/ DrainCas \/ Drained
  PROVE  OpenInv'
<1>0. runner \in Runner /\ command \in [Commands -> CommandStates] /\ UNCHANGED job
  BY DEF IInv, TypeOK, Skip, Drain, DrainCas, Drained
<1>1. CASE Skip
  <2>1. runner.pc = "skip" /\ runner'.pc = "drain" /\ todo' = tracked /\ UNCHANGED <<command, loose>>
    BY <1>0, <1>1 DEF Skip, AfterSkip, Runner
  <2>2. QED
    BY <1>0, <2>1 DEF OpenInv, Open, Served, Alive, Executing
<1>2. ASSUME NEW c \in Commands, Drain(c) PROVE OpenInv'
  <2>1. /\ runner.pc = "drain" /\ runner'.pc \in {"drain", "drainCas"} /\ todo' = todo \ {c}
        /\ UNCHANGED command /\ loose \subseteq loose'
        /\ \/ runner'.pc = "drainCas" /\ runner'.failing = c
           \/ runner'.pc = "drain" /\ (c \in loose' \/ ~CanTransition(command[c], "FAILED"))
    BY <1>0, <1>2, ZenonT(60) DEF Drain, Runner
  <2>2. ASSUME NEW d \in Commands, Open(d)' PROVE Served(d)'
    <3>1. Open(d) /\ d \in todo
      BY <1>0, <2>1, <2>2 DEF OpenInv, Open, Served
    <3>2. d = c => runner'.pc = "drainCas"
      BY <1>0, <2>1, <2>2, <3>1, CannotFail DEF Open, IssuedInv
    <3>3. QED
      BY <2>1, <3>1, <3>2 DEF Served, Alive, Executing
  <2>3. QED
    BY <2>1, <2>2 DEF OpenInv, Alive, Executing
<1>3. CASE DrainCas
  <2>1. /\ runner.pc = "drainCas" /\ runner'.pc = "drain" /\ UNCHANGED todo
        /\ loose \subseteq loose'
        /\ \A c \in Commands : c # runner.failing => command'[c] = command[c]
        /\ runner.failing \in loose' \/ command'[runner.failing] = "FAILED"
    BY <1>0, <1>3 DEF DrainCas, IInv, ActionInv, Runner
  <2>2. ASSUME NEW d \in Commands, Open(d)' PROVE Served(d)'
    <3>1. d # runner.failing
      BY <2>1, <2>2 DEF Open, Settled
    <3>2. Open(d)
      BY <1>0, <2>1, <2>2, <3>1 DEF Open
    <3>3. QED
      BY <2>1, <3>1, <3>2 DEF OpenInv, Served, Alive, Executing
  <2>3. QED
    BY <2>1, <2>2 DEF OpenInv, Alive, Executing
<1>4. CASE Drained
  <2>1. runner.pc = "drain" /\ runner'.pc = "ended" /\ todo = {} /\ UNCHANGED <<command, loose>>
    BY <1>0, <1>4 DEF Drained, Runner
  <2>2. QED
    BY <1>0, <2>1 DEF OpenInv, Open, Served, Alive, Executing
<1>5. QED
  BY <1>1, <1>2, <1>3, <1>4

LEMMA RunOpen == ASSUME IInv, IssuedInv, JobInv, OpenInv, Run PROVE OpenInv'
<1>1. CASE Conclude \/ Finalize \/ Release
  <2>1. /\ runner.pc \in {"ended", "final", "release"} /\ runner'.pc \in {"final", "release", "done"}
        /\ UNCHANGED <<command, job, loose>>
    BY <1>1 DEF Conclude, Finalize, Release, IInv, TypeOK, Runner
  <2>2. QED
    BY <2>1 DEF OpenInv, Open, Served, Alive, Executing
<1>2. QED
  BY <1>1, WaitOpen, BeginOpen, ActOpen, SimulateOpen, SimulateCasOpen, DrainOpen DEF Run

\* scheduleAfterMany: a command whose actions are inserted is tracked, and one of them settles it.
LEMMA InsertOpen == ASSUME IInv, TimelineInv, OpenInv, NEW c \in Commands, Insert(c) PROVE OpenInv'
<1>1. /\ job[c].pc = "insert" /\ job'[c].pc \in {"done", "unstore"}
      /\ \A d \in Commands : d # c => job'[d] = job[d]
      /\ UNCHANGED <<runner, todo, tracked, command, loose>>
  BY DEF Insert, IInv, TypeOK, Job, run
<1>2. CASE ~AcceptNow
  <2>1. job'[c].pc = "unstore" /\ pending' = pending
    BY <1>2 DEF Insert, IInv, TypeOK, Job
  <2>2. \A d \in Commands : /\ Open(d)' => Open(d)
                            /\ job'[d].pc \in Reserving => job[d].pc \in Reserving
    BY <1>1, <2>1 DEF Open, Reserving
  <2>3. QED
    BY <1>1, <2>1, <2>2, OpenFrame
<1>3. CASE AcceptNow
  <2>1. pending' = pending \cup Items(c)
    BY <1>3 DEF Insert
  <2>2. runner.pc \notin Over \cup {"skip"}
    BY <1>3 DEF TimelineInv, AcceptNow, Accepting
  <2>3. \A d : AwaitedBy(d) => AwaitedBy(d)'
    BY <1>1, <2>1 DEF AwaitedBy, Final
  <2>4. AwaitedBy(c)'
    BY <2>1, PlanOK DEF AwaitedBy, Final, IInv
  <2>5. ASSUME NEW d \in Commands, Open(d)' PROVE Served(d)'
    <3>1. CASE d = c
      BY <1>1, <2>2, <2>4, <3>1 DEF OpenInv, Served, Reserving, Over
    <3>2. CASE d # c
      BY <1>1, <2>3, <2>5, <3>2 DEF OpenInv, Served, Open
    <3>3. QED
      BY <3>1, <3>2
  <2>6. QED
    BY <1>1, <2>5 DEF OpenInv, Reserving
<1>4. QED
  BY <1>2, <1>3

\* handleCommandIssued and failCapacity, up to that and after it.
LEMMA ScheduleOpen ==
  ASSUME IInv, IssuedInv, OpenInv, NEW c \in Commands,
         Deliver(c) \/ Reserve(c) \/ Store(c) \/ Unstore(c) \/ Refuse(c) \/ RefuseCas(c)
  PROVE  OpenInv'
<1>1. /\ UNCHANGED <<pending, runner, todo>> /\ job \in [Commands -> Job]
      /\ command \in [Commands -> CommandStates]
      /\ loose \subseteq loose' /\ job[c].pc # "none"
      /\ \A d \in Commands : d # c => job'[d] = job[d] /\ command'[d] = command[d]
      /\ \A d \in Commands : d # c /\ d \in tracked => d \in tracked'
  BY DEF IInv, TypeOK, Deliver, Reserve, Store, Unstore, Refuse, RefuseCas, timeline
<1>2. ~Open(c)'
  <2>1. CASE Deliver(c) \/ Reserve(c) \/ Store(c) \/ Unstore(c)
    <3>1. job'[c].pc \in {"found", "ignored", "store", "refused", "insert"}
      BY <1>1, <2>1 DEF Deliver, Reserve, Store, Unstore, Job
    <3>2. QED
      BY <3>1 DEF Open
  <2>2. CASE Refuse(c)
    <3>1. \/ job'[c].pc = "cas" \/ c \in loose'
          \/ ~CanTransition(command[c], "FAILED") /\ command' = command
      BY <1>1, <2>2 DEF Refuse, Job
    <3>2. QED
      BY <1>1, <3>1, CannotFail DEF Open, IssuedInv
  <2>3. CASE RefuseCas(c)
    <3>1. c \in loose' \/ command'[c] = "FAILED"
      BY <1>1, <2>3 DEF RefuseCas
    <3>2. QED
      BY <3>1 DEF Open, Settled
  <2>4. QED
    BY <2>1, <2>2, <2>3
<1>3. \A d \in Commands : Open(d)' => Open(d) /\ (d \in tracked => d \in tracked')
  BY <1>1, <1>2 DEF Open
<1>4. job'[c].pc \in Reserving => Reserve(c) \/ Store(c)
  BY <1>1 DEF Reserving, Deliver, Reserve, Store, Unstore, Refuse, RefuseCas, Job
<1>5. job'[c].pc \in Reserving => c \in tracked' \/ (job[c].pc \in Reserving /\ tracked' = tracked)
  BY <1>4 DEF Reserve, Store, Reserving
<1>6. \A d \in Commands : job'[d].pc \in Reserving =>
        d \in tracked' \/ (job[d].pc \in Reserving /\ (d \in tracked => d \in tracked'))
  BY <1>1, <1>5
<1>7. QED
  BY <1>1, <1>3, <1>6, OpenFrame

LEMMA OpenStep ==
  ASSUME IInv, TimelineInv, IssuedInv, JobInv, OpenInv, [Next]_vars
  PROVE  OpenInv'
<1>1. CASE UNCHANGED vars \/ Tick
  <2>1. UNCHANGED <<pending, runner, todo, tracked, command, job, loose>>
    BY <1>1 DEF vars, Tick, timeline
  <2>2. QED
    BY <2>1, OpenFrame DEF Open
<1>2. CASE Pause \/ Resume \/ Stop \/ Restart \/ Close \/ Carry
  <2>1. UNCHANGED <<pending, runner, todo, tracked, command, job, loose>>
    BY <1>2 DEF Pause, Resume, Switch, Stop, Restart, Close, Carry, Switched, StopCancels, CloseCancels,
       Cancel, StopFinalizes, CloseReturns, timeline
  <2>2. QED
    BY <2>1, OpenFrame DEF Open
<1>3. ASSUME NEW c \in Commands, Issue(c) PROVE OpenInv'
  <2>1. /\ UNCHANGED <<pending, runner, todo, tracked, loose>> /\ job'[c].pc \in {"published", "ignored"}
        /\ \A d \in Commands : d # c => job'[d] = job[d] /\ command'[d] = command[d]
    BY <1>3 DEF Issue, timeline, IInv, TypeOK, Job
  <2>2. \A d \in Commands : /\ Open(d)' => Open(d)
                            /\ job'[d].pc \in Reserving => job[d].pc \in Reserving
    BY <2>1 DEF Open, Reserving
  <2>3. QED
    BY <2>1, <2>2, OpenFrame
<1>4. ASSUME NEW c \in Commands, NEW to \in MoveTargets, Move(c, to) PROVE OpenInv'
  <2>1. UNCHANGED <<pending, runner, todo, tracked, job, loose>> /\ command[c] \notin Settled
        /\ \A d \in Commands : d # c => command'[d] = command[d]
    BY <1>4, TransitionOpen DEF Move, timeline, IInv, TypeOK
  <2>2. \A d \in Commands : Open(d)' => Open(d)
    BY <2>1 DEF Open
  <2>3. QED
    BY <2>1, <2>2, OpenFrame
<1>5. CASE Crash
  <2>1. runner'.pc = "gone"
    BY <1>5 DEF Crash, IInv, TypeOK, Runner
  <2>2. QED
    BY <2>1 DEF OpenInv, Served, Alive, Executing
<1>6. QED
  BY <1>1, <1>2, <1>3, <1>4, <1>5, RunOpen, InsertOpen, ScheduleOpen DEF Next, Schedule

-----------------------------------------------------------------------------
(* The order of the script                                                 *)

\* What the script has still to do, directly and through the commands that it has issued.
ScriptActions == {StaticAction(i) : i \in head..N} \cup {a \in pending : a.cmd \in Scripted}

\* A command of the script is being handled.
Handled(c) == job[c].pc \notin {"none", "ignored", "done"}

\* None of it is due before what was last executed, or before what is waited for; and only while
\* the goroutine issues a command of the script is that scheduled, from the time of its issue on.
OrderInv ==
  /\ \A a \in ScriptActions : a.at >= lastAt
  /\ runner.pc \in {"wait", "pop"} => \A a \in ScriptActions : a.at >= runner.cur.at
  /\ \A c \in Scripted : Handled(c) =>
       /\ runner.pc = "issuing" /\ runner.cur.cmd = c
       /\ job[c].pc \in Reserving => job[c].base >= lastAt

\* The script stays as it was, and what of it is handled.
LEMMA OrderFrame ==
  ASSUME OrderInv, UNCHANGED <<head, pending, lastAt>>,
         runner'.pc \in {"wait", "pop"} => runner.pc \in {"wait", "pop"} /\ runner'.cur = runner.cur,
         \A c \in Scripted : Handled(c)' =>
           /\ Handled(c) /\ (runner.pc = "issuing" => UNCHANGED runner)
           /\ job'[c].pc \in Reserving => job[c].pc \in Reserving /\ job'[c].base = job[c].base
  PROVE  OrderInv'
<1>1. ScriptActions' = ScriptActions
  BY DEF ScriptActions
<1>2. \A c \in Scripted : Handled(c)' =>
        /\ runner'.pc = "issuing" /\ runner'.cur.cmd = c
        /\ job'[c].pc \in Reserving => job'[c].base >= lastAt'
  BY DEF OrderInv
<1>3. QED
  BY <1>1, <1>2 DEF OrderInv

\* peekNext waits for nothing that is due after an action of the script.
LEMMA PeekOrder == ASSUME IInv, OrderInv, Peek PROVE OrderInv'
<1>1. /\ runner \in Runner /\ runner.pc = "peek" /\ UNCHANGED <<head, pending, lastAt, job>>
      /\ head \in 1..(N + 1) /\ N \in Nat /\ pending \subseteq Actions
  BY TimelineAssumption DEF IInv, TypeOK, Peek, timeline, time
<1>2. ScriptActions' = ScriptActions /\ \A c \in Scripted : Handled(c)' <=> Handled(c)
  BY <1>1 DEF ScriptActions, Handled
<1>3. CASE Candidates = {}
  <2>1. runner'.pc = "ended"
    BY <1>1, <1>3 DEF Peek, Runner
  <2>2. QED
    BY <1>1, <1>2, <2>1 DEF OrderInv
<1>4. CASE Candidates # {}
  <2>1. runner'.pc = "wait" /\ IsFirst(runner'.cur, Candidates)
    BY <1>1, <1>4 DEF Peek, Runner
  <2>2. \A a \in Candidates : a \in Actions
    BY CandidatesOK DEF IInv
  <2>3. \A a \in Candidates : a.at >= runner'.cur.at
    BY <2>1, <2>2 DEF IsFirst, Before, Actions
  <2>4. ASSUME NEW i \in head..N PROVE StaticAction(i).at >= runner'.cur.at
    <3>1. head \in 1..N /\ i \in 1..N /\ (i = head \/ head < i)
      BY <1>1
    <3>2. Static[head].at <= Static[i].at /\ Static[head].at \in Nat /\ Static[i].at \in Nat
      BY <3>1, TimelineAssumption
    <3>3. StaticAction(head) \in Candidates
      BY <3>1 DEF Candidates
    <3>4. StaticAction(head).at >= runner'.cur.at /\ runner'.cur.at \in Nat
      BY <2>1, <2>2, <2>3, <3>3 DEF IsFirst, Actions
    <3>5. StaticAction(head).at = Static[head].at /\ StaticAction(i).at = Static[i].at
      BY DEF StaticAction
    <3>6. QED
      BY <3>2, <3>4, <3>5
  <2>5. \A a \in ScriptActions : a.at >= runner'.cur.at
    BY <2>3, <2>4 DEF ScriptActions, Candidates
  <2>6. QED
    BY <1>1, <1>2, <2>1, <2>5 DEF OrderInv
<1>5. QED
  BY <1>3, <1>4

\* popNext: virtual time comes to the action waited for.
LEMMA BeginOrder == ASSUME IInv, OrderInv, Begin PROVE OrderInv'
<1>1. /\ runner.pc = "pop" /\ runner'.pc \in {"act", "skip"} /\ lastAt' = runner.cur.at /\ job' = job
      /\ pending' \subseteq pending /\ head \in 1..(N + 1) /\ N \in Nat
      /\ head' \in {head, head + 1}
  BY TimelineAssumption DEF IInv, TypeOK, Runner, Begin
<1>2. ScriptActions' \subseteq ScriptActions
  BY <1>1 DEF ScriptActions, StaticAction
<1>3. \A c \in Scripted : ~Handled(c)
  BY <1>1 DEF OrderInv
<1>4. QED
  BY <1>1, <1>2, <1>3 DEF OrderInv, Handled

\* emitCommand: the handling of a command of the script begins.
LEMMA IssueOrder == ASSUME IInv, OrderInv, IssueScripted PROVE OrderInv'
<1>1. /\ runner.pc = "act" /\ runner'.pc \in {"issuing", "record"} /\ runner'.cur = runner.cur
      /\ UNCHANGED <<head, pending, lastAt>> /\ runner.cur.cmd \in Commands
      /\ job' = job \/ runner'.pc = "issuing"
  BY DEF IInv, TypeOK, Runner, ActionInv, IssueScripted, timeline, time
<1>2. \A c \in Scripted : ~Handled(c)
  BY <1>1 DEF OrderInv
<1>3. /\ \A c \in Commands : c # runner.cur.cmd => job'[c] = job[c]
      /\ job' = job \/ job'[runner.cur.cmd].pc = "published"
  BY <1>1 DEF IssueScripted, IInv, TypeOK, Job
<1>4. ScriptActions' = ScriptActions
  BY <1>1 DEF ScriptActions
<1>5. ASSUME NEW c \in Scripted, Handled(c)'
      PROVE  runner'.pc = "issuing" /\ runner'.cur.cmd = c /\ job'[c].pc \notin Reserving
  BY <1>1, <1>2, <1>3, <1>5, ScriptedOnce DEF Handled, Reserving, IInv
<1>6. QED
  BY <1>1, <1>4, <1>5 DEF OrderInv

\* The publishing of command.issued returns when the command's handlers have.
LEMMA ReturnOrder == ASSUME IInv, OrderInv, IssueReturns PROVE OrderInv'
<1>1. /\ runner.pc = "issuing" /\ runner'.pc = "record" /\ ~Handled(runner.cur.cmd)
      /\ UNCHANGED <<head, pending, lastAt, job>>
  BY DEF IInv, TypeOK, Runner, IssueReturns, timeline, time, Handled
<1>2. \A c \in Scripted : ~Handled(c)
  BY <1>1 DEF OrderInv
<1>3. QED
  BY <1>1, <1>2, OrderFrame DEF Handled

\* The goroutine's other steps.
LEMMA RunOrder == ASSUME IInv, OrderInv, Run PROVE OrderInv'
<1>1. runner \in Runner
  BY DEF IInv, TypeOK
<1>2. CASE WaitOver \/ WaitEnds \/ Reselect \/ Emit \/ Simulate \/ SimulateCas \/ Record
  <2>1. /\ UNCHANGED <<head, pending, lastAt, job>> /\ runner.pc # "issuing" /\ runner'.pc # "wait"
        /\ runner'.pc = "pop" => runner.pc = "wait" /\ runner'.cur = runner.cur
    BY <1>1, <1>2 DEF WaitOver, WaitEnds, Reselect, Emit, Simulate, SimulateCas, Record, Runner, timeline, time
  <2>2. QED
    BY <2>1, OrderFrame DEF Handled
<1>3. CASE Skip \/ (\E c \in Commands : Drain(c)) \/ DrainCas \/ Drained
  <2>1. /\ UNCHANGED <<head, pending, lastAt, job>> /\ runner.pc # "issuing"
        /\ runner'.pc \in {"drain", "drainCas", "ended"}
    BY <1>1, <1>3, ZenonT(60) DEF Skip, Drain, DrainCas, Drained, Runner, timeline, time
  <2>2. QED
    BY <2>1, OrderFrame DEF Handled
<1>4. CASE Conclude \/ Finalize \/ Release
  <2>1. /\ UNCHANGED <<head, pending, lastAt, job>> /\ runner.pc # "issuing"
        /\ runner'.pc \in {"final", "release", "done"}
    BY <1>1, <1>4 DEF Conclude, Finalize, Release, Runner, timeline, time
  <2>2. QED
    BY <2>1, OrderFrame DEF Handled
<1>5. QED
  BY <1>2, <1>3, <1>4, PeekOrder, BeginOrder, IssueOrder, ReturnOrder DEF Run

\* scheduleAfterMany counts from the action that issued the command of the script.
LEMMA InsertOrder == ASSUME IInv, OrderInv, NEW c \in Commands, Insert(c) PROVE OrderInv'
<1>1. /\ job[c].pc = "insert" /\ UNCHANGED <<head, runner, lastAt>>
      /\ \A d \in Commands : d # c => job'[d] = job[d]
      /\ job'[c].pc \in {"done", "unstore"}
      /\ pending' \subseteq pending \cup Items(c)
      /\ lastAt \in Nat /\ job[c].base \in Nat
  BY DEF Insert, time, IInv, TypeOK, Job
<1>2. Handled(c)
  BY <1>1 DEF Handled
<1>3. \A a \in Items(c) : a.cmd = c /\ a \in Actions /\ a.at >= job[c].base
  BY PlanOK, ItemsOK DEF IInv
<1>4. ASSUME NEW a \in ScriptActions', a \notin ScriptActions
      PROVE  runner.pc = "issuing" /\ a.at >= lastAt
  <2>1. a \in Items(c) /\ c \in Scripted
    BY <1>1, <1>3, <1>4 DEF ScriptActions, StaticAction
  <2>2. QED
    BY <1>1, <1>2, <1>3, <2>1 DEF OrderInv, Reserving, Actions
<1>5. \A d \in Scripted : Handled(d)' =>
        /\ runner'.pc = "issuing" /\ runner'.cur.cmd = d
        /\ job'[d].pc \in Reserving => job'[d].base >= lastAt'
  BY <1>1, <1>2, ScriptedOnce DEF OrderInv, Handled, Reserving, IInv
<1>6. QED
  BY <1>1, <1>4, <1>5 DEF OrderInv

\* handleCommandIssued and failCapacity.
LEMMA ScheduleOrder ==
  ASSUME IInv, OrderInv, NEW c \in Commands,
         Deliver(c) \/ Reserve(c) \/ Store(c) \/ Unstore(c) \/ Refuse(c) \/ RefuseCas(c)
  PROVE  OrderInv'
<1>1. /\ UNCHANGED <<head, pending, runner, lastAt>> /\ Handled(c)
      /\ \A d \in Commands : d # c => job'[d] = job[d]
      /\ lastAt \in Nat
  BY DEF IInv, TypeOK, Deliver, Reserve, Store, Unstore, Refuse, RefuseCas, timeline, time, Handled
<1>2. c \in Scripted => (job'[c].pc \in Reserving => job'[c].base >= lastAt)
  <2>1. CASE Reserve(c)
    BY <1>1, <2>1 DEF Reserve, Base, Reserving, IInv, TypeOK, Job
  <2>2. CASE Store(c)
    BY <1>1, <2>2 DEF Store, OrderInv, Reserving, IInv, TypeOK, Job
  <2>3. CASE Deliver(c) \/ Unstore(c) \/ Refuse(c) \/ RefuseCas(c)
    BY <2>3 DEF Deliver, Unstore, Refuse, RefuseCas, Reserving, IInv, TypeOK, Job
  <2>4. QED
    BY <2>1, <2>2, <2>3
<1>3. ScriptActions' = ScriptActions
  BY <1>1 DEF ScriptActions
<1>4. \A d \in Scripted : Handled(d)' =>
        /\ runner'.pc = "issuing" /\ runner'.cur.cmd = d
        /\ job'[d].pc \in Reserving => job'[d].base >= lastAt'
  BY <1>1, <1>2, ScriptedOnce DEF OrderInv, Handled, IInv
<1>5. QED
  BY <1>1, <1>3, <1>4 DEF OrderInv

LEMMA OrderStep == ASSUME IInv, OrderInv, [Next]_vars PROVE OrderInv'
<1>1. CASE UNCHANGED vars \/ Tick
  BY <1>1, OrderFrame DEF vars, Tick, timeline, Handled
<1>2. CASE Pause \/ Resume \/ Stop \/ Restart \/ Close \/ Carry
  <2>1. UNCHANGED <<head, pending, lastAt, runner, job>>
    BY <1>2 DEF Pause, Resume, Switch, Stop, Restart, Close, Carry, Switched, StopCancels, CloseCancels,
       Cancel, StopFinalizes, CloseReturns, timeline, time
  <2>2. QED
    BY <2>1, OrderFrame DEF Handled
<1>3. ASSUME NEW c \in Commands, Issue(c) PROVE OrderInv'
  <2>1. /\ UNCHANGED <<head, pending, lastAt, runner>> /\ c \notin Scripted
        /\ \A d \in Commands : d # c => job'[d] = job[d]
    BY <1>3 DEF Issue, timeline, time, IInv, TypeOK
  <2>2. \A d \in Scripted : job'[d] = job[d]
    BY <2>1, ScriptedOnce DEF IInv
  <2>3. QED
    BY <2>1, <2>2, OrderFrame DEF Handled
<1>4. ASSUME NEW c \in Commands, NEW to \in MoveTargets, Move(c, to) PROVE OrderInv'
  BY <1>4, OrderFrame DEF Move, timeline, time, Handled
<1>5. CASE Crash
  <2>1. UNCHANGED <<head, pending, lastAt>> /\ runner'.pc = "gone"
        /\ \A c \in Commands : job'[c].pc \in {"none", "ignored"}
    BY <1>5 DEF Crash, timeline, time, IInv, TypeOK, Runner, Job
  <2>2. QED
    BY <2>1, OrderFrame, ScriptedOnce DEF Handled, IInv
<1>6. QED
  BY <1>1, <1>2, <1>3, <1>4, <1>5, RunOrder, InsertOrder, ScheduleOrder DEF Next, Schedule

-----------------------------------------------------------------------------
(* The rows, the commands and the order of the script, in every behaviour  *)

\* What does not depend on whether a statement failed.
WorkInv == TimelineInv /\ IssuedInv /\ JobInv /\ OpenInv /\ OrderInv

LEMMA InitWork == ASSUME Init PROVE WorkInv /\ RowsInv
<1>1. /\ N \in Nat /\ head = 1 /\ pending = {} /\ runner.pc = "peek" /\ lastAt = 0 /\ N <= MaxActions
      /\ MaxActions \in Nat
      /\ \A c \in Commands : job[c].pc = "none"
      /\ \A s \in Seqs : states[s] = rows[s] /\ states[s] = IF s <= N THEN "pending" ELSE "none"
  BY TimelineAssumption, BoundAssumption DEF Init
<1>2. TimelineInv
  BY <1>1 DEF TimelineInv, Waiting, Seqs, Alive, Executing, Over
<1>3. IssuedInv
  BY <1>1 DEF IssuedInv
<1>4. JobInv
  <2>1. \A i \in 1..N : Static[i].issues # NoCommand => Static[i].issues \in Commands
    BY TimelineAssumption
  <2>2. QED
    BY <1>1, <2>1 DEF JobInv
<1>5. OpenInv
  BY <1>1 DEF OpenInv, Open, Reserving
<1>6. OrderInv
  <2>1. \A i \in 1..N : StaticAction(i).at \in Nat
    BY TimelineAssumption DEF StaticAction
  <2>2. Scripted \subseteq Commands
    BY TimelineAssumption DEF Scripted
  <2>3. QED
    BY <1>1, <2>1, <2>2 DEF OrderInv, ScriptActions, Handled
<1>7. RowsInv
  BY <1>1 DEF RowsInv, Placing
<1>8. QED
  BY <1>2, <1>3, <1>4, <1>5, <1>6, <1>7 DEF WorkInv

LEMMA Working == Spec => []WorkInv
<1>1. Init => WorkInv
  BY InitWork
<1>2. IInv /\ WorkInv /\ [Next]_vars => WorkInv'
  BY TimelineStep, IssuedStep, JobInvStep, OpenStep, OrderStep DEF WorkInv
<1>3. QED
  BY <1>1, <1>2, Invariance, PTL DEF Spec

\* A statement that has failed is counted for good.
LEMMA FaultsCount ==
  ASSUME IInv, [Next]_vars
  PROVE  Faulty \/ Fault => Faulty'
<1>1. spent \in Spent
  BY DEF IInv, TypeOK
<1>2. Fault => Faulty'
  BY <1>1, FaultSpent
<1>3. spent' = spent \/ Fault \/ spent'.faults = spent.faults
  <2>1. CASE Run
    BY <2>1 DEF Run, Peek, WaitOver, WaitEnds, Reselect, Begin, Emit, IssueScripted, IssueReturns, Simulate,
       SimulateCas, Record, Skip, Drain, DrainCas, Drained, Conclude, Finalize, FinalizeLocked, Release, Blocked
  <2>2. CASE Pause \/ Resume \/ Stop \/ Restart \/ Close \/ Carry
    BY <1>1, <2>2 DEF Pause, Resume, Switch, Stop, Restart, Close, Carry, Switched, StopCancels, CloseCancels,
       Cancel, StopFinalizes, FinalizeLocked, CloseReturns, Request, Spent
  <2>3. ASSUME NEW c \in Commands, Issue(c) \/ Schedule(c) PROVE spent' = spent \/ Fault
    BY <2>3 DEF Issue, Schedule, Deliver, Reserve, Store, Insert, Unstore, Refuse, RefuseCas
  <2>4. ASSUME NEW c \in Commands, NEW to \in MoveTargets, Move(c, to) PROVE spent'.faults = spent.faults
    BY <1>1, <2>4 DEF Move, Spent
  <2>5. CASE UNCHANGED vars \/ Tick \/ Crash
    BY <2>5 DEF vars, Tick, Crash
  <2>6. QED
    BY <2>1, <2>2, <2>3, <2>4, <2>5 DEF Next
<1>4. QED
  BY <1>2, <1>3 DEF Faulty

\* engine.go popNext, scheduleAfterMany, skipPending; service.go finalizeRunLocked: the rows of
\* actions are written without a lock by three parties, whose writes do not commute with the
\* engine's marks; when everything has come to rest and no statement failed, they agree all the same.
THEOREM RowsCorrect == Spec => []RowsAgree
<1> DEFINE CleanRows == ~Faulty => RowsInv
<1>1. Init => CleanRows
  BY InitWork
<1>2. IInv /\ WorkInv /\ CleanRows /\ [Next]_vars => CleanRows'
  BY FaultsCount, RowsStep DEF WorkInv
<1>3. IInv /\ WorkInv /\ CleanRows => RowsAgree
  <2> SUFFICES ASSUME IInv, WorkInv, CleanRows, AtRest, spent.faults = 0
               PROVE  rows = states /\ \A s \in Seqs : rows[s] \notin Unfinished
    BY DEF RowsAgree
  <2>1. RowsInv /\ rows \in [Seqs -> Marks] /\ states \in [Seqs -> Marks]
    BY DEF Faulty, IInv, TypeOK
  <2>2. \A s \in Seqs : states[s] \notin Unfinished
    BY DEF WorkInv, TimelineInv, AtRest, Over
  <2>3. \A c \in Commands : job[c].pc \notin Placing
    BY DEF AtRest, Placing
  <2>4. \A s \in Seqs : rows[s] = states[s]
    BY <2>1, <2>2, <2>3 DEF RowsInv
  <2>5. QED
    BY <2>1, <2>2, <2>4
<1>4. QED
  BY <1>1, <1>2, <1>3, Invariance, Working, PTL DEF Spec

\* engine.go skipPending, failPendingCommands, service.go simulateCommand, failCapacity: when
\* everything has come to rest, no command that the engine took on is left without an outcome, unless
\* the engine tried to move it and failed.
THEOREM CommandsCorrect == Spec => []CommandsSettle
<1>1. WorkInv => CommandsSettle
  BY DEF WorkInv, OpenInv, Open, Served, CommandsSettle, AtRest
<1>2. QED
  BY <1>1, Working, PTL

\* engine.go scheduleAfterMany, popNext: virtual time never goes back to an action of the script, be
\* it of the timeline or of the simulation of a command that the script issued.
THEOREM ScriptOrdered == Spec => ScriptInOrder
<1>1. ASSUME IInv, WorkInv, [Next]_vars, lastAt' < lastAt PROVE runner'.cur.cmd \in Commands \ Scripted
  <2>1. lastAt \in Nat /\ ~(lastAt < lastAt) /\ runner \in Runner
    BY <1>1 DEF IInv, TypeOK
  <2>2. Begin
    <3>1. lastAt' # lastAt
      BY <1>1, <2>1
    <3>2. ~UNCHANGED vars /\ ~Tick /\ ~Crash
      BY <3>1 DEF vars, Tick, Crash, time
    <3>3. ~(Pause \/ Resume \/ Stop \/ Restart \/ Close \/ Carry)
      BY <3>1 DEF Pause, Resume, Switch, Stop, Restart, Close, Carry, Switched, StopCancels, CloseCancels,
         Cancel, StopFinalizes, CloseReturns, time
    <3>4. \A c \in Commands : ~(Issue(c) \/ Schedule(c) \/ \E to \in MoveTargets : Move(c, to))
      BY <3>1 DEF Issue, Schedule, Deliver, Reserve, Store, Insert, Unstore, Refuse, RefuseCas, Move, time
    <3>5. Run => Begin
      BY <3>1 DEF Run, Peek, WaitOver, WaitEnds, Reselect, Emit, IssueScripted, IssueReturns, Simulate,
         SimulateCas, Record, Skip, Drain, DrainCas, Drained, Conclude, Finalize, Release, time
    <3>6. QED
      BY <1>1, <3>2, <3>3, <3>4, <3>5 DEF Next
  <2>3. lastAt' = runner.cur.at /\ runner'.cur = runner.cur /\ (PopsStatic \/ PopsDynamic)
    BY <2>1, <2>2 DEF Begin, Runner
  <2>4. runner.cur \notin ScriptActions
    <3>1. \A a \in ScriptActions : a.at >= lastAt
      BY <1>1 DEF WorkInv, OrderInv
    <3>2. runner.cur.at \in Nat /\ runner.cur.at < lastAt
      BY <1>1, <2>1, <2>3 DEF Runner, Actions
    <3>3. QED
      BY <2>1, <3>1, <3>2
  <2>5. ~PopsStatic
    BY <1>1, <2>4, NextStatic DEF PopsStatic, ScriptActions, IInv
  <2>6. runner.cur \in pending
    BY <2>3, <2>5 DEF PopsDynamic, IsFirst
  <2>7. QED
    BY <1>1, <2>3, <2>4, <2>6 DEF ScriptActions, IInv, ActionInv
<1>2. IInv /\ WorkInv /\ [Next]_vars => [lastAt' < lastAt => runner'.cur.cmd \in Commands \ Scripted]_vars
  BY <1>1
<1>3. QED
  BY <1>2, Invariance, Working, PTL DEF Spec, ScriptInOrder
=============================================================================
