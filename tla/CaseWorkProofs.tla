--------------------------- MODULE CaseWorkProofs ---------------------------
(* Safety of CaseWork, for every set of cases, requests and desks, and every bound. *)
EXTENDS CaseWork, TLAPS

Witnesses == {req[r] : r \in Requests} \cup dropped

Moving == {"start", "commit"}
Entry  == {"OPEN", "PLANNED"}

Entered(c, s) == s \in Entry \/ \E x \in moves[c] : x[2] = s

\* What a handler knows at each of its calls.
RequestInv(q) ==
  /\ q.pc # "idle" => q.case \in Cases /\ Exists(q.case)
  /\ q.pc \notin {"idle", "created", "assets", "tasks"} => q.seen \in Statuses
  /\ q.pc \notin {"commit", "updated"} => q.at = 0
  /\ q.pc \in Moving => CanTransition(q.case, q.seen, q.to) /\ Entered(q.case, q.seen)
  /\ q.pc = "commit" => q.at \in 1..clock
  /\ q.pc = "updated" /\ q.at # 0 => q.to \in Statuses
  /\ q.pc = "write" => q.case \in Incidents /\ \A f \in Fields \ q.names : q.fields[f] = q.read[f]
  /\ q.pc = "relate" => q.case \in Incidents /\ q.item \in Alerts \cup Others
  /\ q.pc = "point" => q.case \in Incidents /\ q.item \in Alerts /\ <<q.case, q.item>> \in relations
  /\ q.pc \in {"assets", "tasks", "assign", "newTask", "task"} => q.case \in Missions
  /\ q.pc = "assign" => q.item \in Assets
  /\ q.pc \in {"newTask", "task"} => q.item \in Tasks
  /\ q.pc = "task" => q.to \in TaskStatuses
  /\ q.pc \in {"tasks", "created"} /\ q.case \in Missions => wanted[q.case].assets \subseteq crew[q.case]
  /\ q.pc = "created" /\ q.case \in Missions =>
       \A t \in wanted[q.case].tasks : tasks[q.case][t] # "none"

\* What the time of a statement says: unless the case came back to the status that was
\* read, or if it is a mission, the statement started after every change it follows.
TimelyInv(q) ==
  /\ q.pc = "commit" => \A c \in Cases : \A x \in moves[c] : x[1] # q.at
  /\ q.pc = "commit" /\ Straight(q.case) /\ status[q.case] = q.seen =>
       \A x \in moves[q.case] : x[1] < q.at
  /\ q.pc \in Moving /\ q.case \in Missions /\ q.seen = "ACTIVE" => began[q.case] # 0
  /\ q.pc = "commit" /\ q.case \in Missions /\ q.seen = "ACTIVE" => began[q.case] < q.at

HistoryInv ==
  /\ \A c \in Cases : \A x \in moves[c] : x[1] \in 1..clock /\ x[2] \notin Entry
  /\ \A c \in Cases : status[c] = "none" \/ Entered(c, status[c])
  /\ \A c \in Cases : status[c] \in Entry \cup {"none"} => began[c] = 0
  /\ \A i \in Incidents : began[i] # 0 => <<began[i], "RESOLVED">> \in moves[i]
  /\ \A i \in Incidents : status[i] \notin MissionStatuses
  /\ \A m \in Missions : status[m] \notin IncidentStatuses

OneTime ==
  \A r, s \in Requests : At(r, "commit") /\ At(s, "commit") /\ req[r].at = req[s].at => r = s

\* A change that is not announced has a request of its own that is about to tell it.
ToldInv ==
  \A c \in Cases : \A x \in moves[c] :
    \/ x \in announced[c]
    \/ \E q \in Witnesses : q.pc = "updated" /\ q.case = c /\ <<q.at, q.to>> = x

MissionInv == MissionWhole /\ \A c \in created : Exists(c)

TimesInv == HistoryInv /\ OneTime /\ (\A r \in Requests : TimelyInv(req[r])) /\ StampsTellHistory

IInv ==
  /\ TypeOK
  /\ \A r \in Requests : RequestInv(req[r])
  /\ TimesInv
  /\ PointerAgrees
  /\ ToldInv
  /\ MissionInv

-----------------------------------------------------------------------------
(* The lifecycles, and the records                                         *)

Terminal == {"CLOSED", "COMPLETED", "ABORTED"}

\* Both lifecycles leave a case that has ended alone, and never enter their first status.
LEMMA MovesAreLegal ==
  ASSUME NEW c \in Cases, NEW from, NEW to, CanTransition(c, from, to)
  PROVE  /\ from \in Statuses \ Terminal /\ to \in Statuses \ Entry /\ from # to
         /\ c \in Incidents => from \in IncidentStatuses /\ to \in IncidentStatuses
         /\ c \in Missions =>
              /\ from = "PLANNED" => to \in {"ACTIVE", "ABORTED"}
              /\ from \in {"PLANNED", "ACTIVE"}
              /\ from = "ACTIVE" => to \in {"COMPLETED", "ABORTED"}
  <1>1. CASE c \in Incidents
    <2>1. to \in IncidentMoves(from) /\ c \notin Missions
      BY <1>1, CaseAssumption DEF CanTransition
    <2>2. /\ from \in {"OPEN", "ACKNOWLEDGED", "INVESTIGATING", "RESPONDING", "RESOLVED"}
          /\ to \in {"ACKNOWLEDGED", "INVESTIGATING", "RESPONDING", "RESOLVED", "CLOSED"}
          /\ from # to
      BY <2>1 DEF IncidentMoves
    <2> QED
      BY <2>1, <2>2 DEF Statuses, IncidentStatuses, MissionStatuses, Terminal, Entry
  <1>2. CASE c \in Missions
    <2>1. to \in MissionMoves(from) /\ c \notin Incidents
      BY <1>2, CaseAssumption DEF CanTransition
    <2>2. \/ from = "PLANNED" /\ to \in {"ACTIVE", "ABORTED"}
          \/ from = "ACTIVE" /\ to \in {"COMPLETED", "ABORTED"}
      BY <2>1 DEF MissionMoves
    <2> QED
      BY <2>1, <2>2 DEF Statuses, IncidentStatuses, MissionStatuses, Terminal, Entry
  <1> QED
    BY <1>1, <1>2 DEF Cases

\* The record of no request.
LEMMA IdleType == Idle \in Request
  BY CaseAssumption DEF Idle, Request, Blank

\* What a handler holds after its read.
LEMMA SeenType ==
  ASSUME TypeOK, NEW c \in Cases, Exists(c), NEW label \in {"start", "write", "relate", "assign",
         "newTask", "task"}
  PROVE  /\ Seen(c, label) \in Request
         /\ Seen(c, label).pc = label /\ Seen(c, label).case = c /\ Seen(c, label).at = 0
         /\ Seen(c, label).seen = status[c] /\ status[c] \in Statuses
  BY IdleType DEF Seen, Idle, Request, TypeOK, Exists

\* A step of r that moves its record to q.
Moved(r, q) ==
  /\ q \in Request
  /\ req' \in [Requests -> Request]
  /\ req'[r] = q
  /\ \A o \in Requests \ {r} : req'[o] = req[o]

\* Replacing the record of one request leaves the others alone.
LEMMA MovedTo ==
  ASSUME TypeOK, NEW r \in Requests, NEW q \in Request, req' = [req EXCEPT ![r] = q]
  PROVE  Moved(r, q)
  BY DEF TypeOK, Moved

\* The record of r with another label.
LEMMA Relabelled ==
  ASSUME TypeOK, NEW r \in Requests, NEW label \in {"commit", "point", "tasks", "created",
         "updated"}, Goto(r, label)
  PROVE  LET q == [req[r] EXCEPT !.pc = label] IN
         Moved(r, q) /\ q.pc = label /\ q.case = req[r].case /\ q.seen = req[r].seen
           /\ q.at = req[r].at /\ q.to = req[r].to /\ q.item = req[r].item
  <1> DEFINE q == [req[r] EXCEPT !.pc = label]
  <1>1. req[r] \in Request
    BY DEF TypeOK
  <1>2. /\ q \in Request /\ q.pc = label /\ q.case = req[r].case /\ q.seen = req[r].seen
        /\ q.at = req[r].at /\ q.to = req[r].to /\ q.item = req[r].item
    BY <1>1 DEF Request
  <1>3. req' = [req EXCEPT ![r] = q]
    BY <1>1 DEF Goto, Request
  <1>4. Moved(r, q)
    BY <1>2, <1>3, MovedTo
  <1> QED
    BY <1>2, <1>4

\* The handler has answered.
LEMMA Returned ==
  ASSUME TypeOK, NEW r \in Requests, Return(r)
  PROVE  Moved(r, Idle) /\ Idle.pc = "idle"
  BY MovedTo, IdleType DEF Return, Idle

-----------------------------------------------------------------------------
(* What no step undoes                                                     *)

Grows ==
  /\ \A c \in Cases : (Exists(c) => Exists(c)') /\ moves[c] \subseteq moves'[c]
  /\ clock \in Nat /\ clock' \in Nat /\ clock <= clock'
  /\ relations \subseteq relations'
  /\ \A m \in Missions : Exists(m) => wanted'[m] = wanted[m]
  /\ \A m \in Missions : crew[m] \subseteq crew'[m]
  /\ \A m \in Missions, t \in Tasks : tasks[m][t] # "none" => tasks'[m][t] # "none"

\* What a handler knows stays true while history, relations and plans only grow.
LEMMA RequestKept ==
  ASSUME TypeOK, Grows, NEW q \in Request, RequestInv(q)
  PROVE  RequestInv(q)'
  <1>1. q.pc # "idle" => q.case \in Cases /\ Exists(q.case)'
    BY DEF RequestInv, Grows
  <1>2. q.pc \in Moving => CanTransition(q.case, q.seen, q.to) /\ Entered(q.case, q.seen)'
    BY <1>1 DEF RequestInv, Grows, Entered, Moving
  <1>3. q.pc = "commit" => q.at \in 1..clock'
    BY DEF RequestInv, Grows, Request
  <1>4. q.pc = "point" => <<q.case, q.item>> \in relations'
    BY DEF RequestInv, Grows
  <1>5. q.pc \in {"tasks", "created"} /\ q.case \in Missions =>
          wanted'[q.case].assets \subseteq crew'[q.case]
    BY DEF RequestInv, Grows
  <1>6. q.pc = "created" /\ q.case \in Missions =>
          \A t \in wanted'[q.case].tasks : tasks'[q.case][t] # "none"
    <2> SUFFICES ASSUME q.pc = "created", q.case \in Missions, NEW t \in wanted'[q.case].tasks
                 PROVE  tasks'[q.case][t] # "none"
      OBVIOUS
    <2>1. wanted'[q.case] = wanted[q.case]
      BY DEF RequestInv, Grows
    <2>2. t \in Tasks /\ tasks[q.case][t] # "none"
      BY <2>1 DEF RequestInv, TypeOK
    <2> QED
      BY <2>2 DEF Grows
  <1> QED
    BY <1>1, <1>2, <1>3, <1>4, <1>5, <1>6 DEF RequestInv

\* A step of r loses no request, live or dead, but the one it replaces.
LEMMA WitnessKept ==
  ASSUME NEW r \in Requests, NEW q, Moved(r, q), dropped \subseteq dropped',
         NEW w \in Witnesses, w # req[r] \/ w \in dropped'
  PROVE  w \in Witnesses'
  <1>1. CASE w \in dropped'
    BY <1>1 DEF Witnesses
  <1>2. CASE w \notin dropped'
    <2>1. PICK s \in Requests : w = req[s]
      BY <1>2 DEF Witnesses
    <2>2. s # r /\ req'[s] = w
      BY <1>2, <2>1 DEF Moved
    <2> QED
      BY <2>2 DEF Witnesses
  <1> QED
    BY <1>1, <1>2

\* A step that changes no status and starts none keeps the history.
LEMMA TimesKept ==
  ASSUME TimesInv, NEW r \in Requests, NEW q, Moved(r, q), q.pc \notin Moving,
         UNCHANGED <<lifecycle, clock>>
  PROVE  TimesInv'
  <1>1. HistoryInv'
    BY DEF TimesInv, HistoryInv, Entered, lifecycle
  <1>2. OneTime'
    BY DEF TimesInv, OneTime, Moved, At, Moving
  <1>3. ASSUME NEW s \in Requests PROVE TimelyInv(req[s])'
    <2>1. CASE s = r
      BY <2>1 DEF TimelyInv, Moved, Moving
    <2>2. CASE s # r
      <3>1. TimelyInv(req[s]) /\ req'[s] = req[s]
        BY <2>2 DEF TimesInv, Moved
      <3> QED
        BY <3>1 DEF TimelyInv, Straight, lifecycle
    <2> QED
      BY <2>1, <2>2
  <1>4. StampsTellHistory'
    BY DEF TimesInv, StampsTellHistory, Straight, lifecycle
  <1> QED
    BY <1>1, <1>2, <1>3, <1>4 DEF TimesInv

\* A step keeps the pointers if it changes none and loses no request that would.
LEMMA PointerKept ==
  ASSUME PointerAgrees, NEW r \in Requests, NEW q, Moved(r, q), dropped \subseteq dropped',
         UNCHANGED links, req[r].pc = "point" => req[r] \in dropped'
  PROVE  PointerAgrees'
  <1>1. ASSUME NEW a \in Alerts, NEW i \in Incidents, pointer'[a] = None, <<i, a>> \in relations'
        PROVE  \E w \in Witnesses' : w.pc = "point" /\ w.case = i /\ w.item = a
    <2>1. PICK w \in Witnesses : w.pc = "point" /\ w.case = i /\ w.item = a
      BY <1>1 DEF PointerAgrees, Witnesses, links
    <2>2. w \in Witnesses'
      BY <2>1, WitnessKept
    <2> QED
      BY <2>1, <2>2
  <1>2. \A a \in Alerts : pointer'[a] # None => <<pointer'[a], a>> \in relations'
    BY DEF PointerAgrees, links
  <1> QED
    BY <1>1, <1>2 DEF PointerAgrees, Witnesses

\* A step keeps what is to be told if the change its request was to tell is told.
LEMMA ToldKept ==
  ASSUME ToldInv, HistoryInv, NEW r \in Requests, NEW q, Moved(r, q), dropped \subseteq dropped',
         moves' = moves, \A c \in Cases : announced[c] \subseteq announced'[c],
         req[r].pc = "updated" => \/ req[r].at = 0
                                  \/ req[r] \in dropped'
                                  \/ <<req[r].at, req[r].to>> \in announced'[req[r].case]
  PROVE  ToldInv'
  <1> SUFFICES ASSUME NEW c \in Cases, NEW x \in moves[c], x \notin announced'[c]
               PROVE  \E w \in Witnesses' : w.pc = "updated" /\ w.case = c /\ <<w.at, w.to>> = x
    BY DEF ToldInv
  <1>1. PICK w \in Witnesses : w.pc = "updated" /\ w.case = c /\ <<w.at, w.to>> = x
    BY DEF ToldInv
  <1>2. w.at # 0
    BY <1>1 DEF HistoryInv
  <1>3. w \in Witnesses'
    BY <1>1, <1>2, WitnessKept
  <1> QED
    BY <1>1, <1>3

Planning == {"assets", "tasks", "created"}

\* A step keeps the missions whole if its request goes on planning.
LEMMA MissionKept ==
  ASSUME TypeOK, Grows, MissionInv, NEW r \in Requests, NEW q, Moved(r, q),
         dropped \subseteq dropped', created' = created, wanted' = wanted,
         \A m \in Missions : Exists(m)' => Exists(m),
         req[r].pc \in Planning /\ req[r].case \in Missions =>
           req[r] \in dropped' \/ (q.case = req[r].case /\ q.pc \in Planning)
  PROVE  MissionInv'
  <1>1. \A c \in created' : Exists(c)'
    BY DEF MissionInv, Grows, TypeOK
  <1>2. ASSUME NEW m \in Missions, m \in created'
        PROVE  /\ wanted'[m].assets \subseteq crew'[m]
               /\ \A t \in wanted'[m].tasks : tasks'[m][t] # "none"
    <2>1. wanted'[m].tasks \subseteq Tasks
      BY DEF TypeOK
    <2>2. wanted[m].assets \subseteq crew[m] /\ \A t \in wanted[m].tasks : tasks[m][t] # "none"
      BY <1>2 DEF MissionInv, MissionWhole
    <2> QED
      BY <2>1, <2>2 DEF Grows
  <1>3. ASSUME NEW m \in Missions, Exists(m)', m \notin created'
        PROVE  \E w \in Witnesses' : w.case = m /\ w.pc \in Planning
    <2>1. PICK w \in Witnesses : w.case = m /\ w.pc \in Planning
      BY <1>3 DEF MissionInv, MissionWhole, Witnesses, Planning
    <2>2. CASE w # req[r] \/ w \in dropped'
      BY <2>1, <2>2, WitnessKept
    <2>3. CASE w = req[r] /\ w \notin dropped'
      <3>1. q.case = m /\ q.pc \in Planning
        BY <2>1, <2>3
      <3>2. q \in Witnesses'
        BY DEF Moved, Witnesses
      <3> QED
        BY <3>1, <3>2
    <2> QED
      BY <2>2, <2>3
  <1> QED
    BY <1>1, <1>2, <1>3 DEF MissionInv, MissionWhole, Witnesses, Planning

-----------------------------------------------------------------------------
(* One lemma per action                                                    *)

\* The conjuncts of the invariant, and what r knows.
LEMMA Parts ==
  ASSUME IInv, NEW r \in Requests
  PROVE  /\ TypeOK /\ TimesInv /\ HistoryInv /\ PointerAgrees /\ ToldInv /\ MissionInv
         /\ req[r] \in Request /\ RequestInv(req[r])
         /\ req[r].pc # "idle" => req[r].case \in Cases /\ Exists(req[r].case)
  BY DEF IInv, TimesInv, TypeOK, RequestInv

\* What is left to show of a step of r; the other handlers know what they knew.
LEMMA AnyStep ==
  ASSUME IInv, NEW r \in Requests, NEW q, Moved(r, q), TypeOK', Grows, RequestInv(req[r])', TimesInv',
         PointerAgrees', ToldInv', MissionInv'
  PROVE  IInv'
  <1>1. TypeOK
    BY Parts
  <1>2. ASSUME NEW s \in Requests, s # r PROVE RequestInv(req[s])'
    <2> DEFINE w == req[s]
    <2>1. w \in Request /\ RequestInv(w) /\ req'[s] = w
      BY <1>2 DEF IInv, Moved, TypeOK
    <2> HIDE DEF w
    <2> QED
      BY <1>1, <2>1, RequestKept DEF RequestInv
  <1> QED
    BY <1>2 DEF IInv

\* A step that leaves the lifecycles alone.
LEMMA QuietStep ==
  ASSUME IInv, NEW r \in Requests, NEW q, Moved(r, q), TypeOK', Grows, RequestInv(req[r])',
         q.pc \notin Moving, UNCHANGED <<lifecycle, clock>>,
         PointerAgrees', ToldInv', MissionInv'
  PROVE  IInv'
  <1>1. TimesInv'
    BY Parts, TimesKept
  <1> QED
    BY <1>1, AnyStep

\* Nothing but the record of r changes.
Alone == UNCHANGED <<desk, lifecycle, fields, links, plan, events, clock, dropped, faults>>

\* A read undoes nothing.
LEMMA AloneGrows == ASSUME TypeOK, Alone PROVE Grows
  BY DEF TypeOK, Alone, Grows, lifecycle, links, plan, Exists

\* A read keeps the types.
LEMMA AloneType ==
  ASSUME TypeOK, Alone, NEW r \in Requests, NEW q, Moved(r, q) PROVE TypeOK'
  BY DEF TypeOK, Alone, Moved, lifecycle, links, plan, events

\* A handler has read, and will write.
LEMMA ReadStep ==
  ASSUME IInv, NEW r \in Requests, NEW q, Moved(r, q), At(r, "idle"), Alone, q.pc \notin Moving,
         RequestInv(req[r])'
  PROVE  IInv'
  <1>1. TypeOK /\ HistoryInv /\ PointerAgrees /\ ToldInv /\ MissionInv
    BY Parts
  <1>2. TypeOK' /\ Grows
    BY <1>1, AloneGrows, AloneType
  <1>3. PointerAgrees'
    BY <1>1, PointerKept DEF At, Alone
  <1>4. ToldInv'
    BY <1>1, ToldKept DEF At, Alone, lifecycle, events
  <1>5. MissionInv'
    BY <1>1, <1>2, MissionKept DEF At, Alone, Planning, plan, events, lifecycle, Exists
  <1> QED
    BY <1>2, <1>3, <1>4, <1>5, QuietStep DEF Alone

\* An edit overlays what it read.
LEMMA EditIncidentStep ==
  ASSUME IInv, NEW r \in Requests, NEW i \in Incidents, NEW names \in SUBSET Fields,
         NEW v \in Values, EditIncident(r, i, names, v)
  PROVE  IInv'
  <1> DEFINE q == [Seen(i, "write") EXCEPT !.names = names, !.read = fields[i],
                                           !.fields = Overlay(names, v, fields[i])]
  <1>1. TypeOK /\ i \in Cases /\ Exists(i) /\ At(r, "idle") /\ Alone
    BY Parts DEF EditIncident, Read, Alone, Cases
  <1>2. /\ Seen(i, "write") \in Request /\ Seen(i, "write").pc = "write"
        /\ Seen(i, "write").case = i /\ Seen(i, "write").at = 0
        /\ Seen(i, "write").seen \in Statuses
    BY <1>1, SeenType
  <1>3. fields[i] \in [Fields -> Values] /\ Overlay(names, v, fields[i]) \in [Fields -> Values]
    BY <1>1 DEF TypeOK, Overlay
  <1>4. /\ q \in Request /\ q.pc = "write" /\ q.case = i /\ q.at = 0 /\ q.seen \in Statuses
        /\ q.names = names /\ q.read = fields[i] /\ q.fields = Overlay(names, v, fields[i])
    BY <1>2, <1>3 DEF Request
  <1>5. Moved(r, q)
    BY <1>1, <1>4, MovedTo DEF EditIncident
  <1>6. RequestInv(req[r])'
    <2>1. req'[r] = q
      BY <1>5 DEF Moved
    <2> HIDE DEF q
    <2> QED
      BY <1>1, <1>3, <1>4, <2>1 DEF RequestInv, Overlay, Alone, lifecycle, Exists, Moving
  <1> HIDE DEF q
  <1> QED
    BY <1>1, <1>4, <1>5, <1>6, ReadStep DEF Moving

\* A relation is asked for.
LEMMA AttachStep ==
  ASSUME IInv, NEW r \in Requests, NEW i \in Incidents, NEW x \in Alerts \cup Others, Attach(r, i, x)
  PROVE  IInv'
  <1> DEFINE q == [Seen(i, "relate") EXCEPT !.item = x]
  <1>1. TypeOK /\ i \in Cases /\ Exists(i) /\ At(r, "idle") /\ Alone
    BY Parts DEF Attach, Read, Alone, Cases
  <1>2. /\ Seen(i, "relate") \in Request /\ Seen(i, "relate").pc = "relate"
        /\ Seen(i, "relate").case = i /\ Seen(i, "relate").at = 0
        /\ Seen(i, "relate").seen \in Statuses
    BY <1>1, SeenType
  <1>3. q \in Request /\ q.pc = "relate" /\ q.case = i /\ q.at = 0 /\ q.seen \in Statuses /\ q.item = x
    BY <1>2 DEF Request
  <1>4. Moved(r, q)
    BY <1>1, <1>3, MovedTo DEF Attach
  <1>5. RequestInv(req[r])'
    <2>1. req'[r] = q
      BY <1>4 DEF Moved
    <2> HIDE DEF q
    <2> QED
      BY <1>1, <1>3, <2>1 DEF RequestInv, Alone, lifecycle, Exists, Moving
  <1> HIDE DEF q
  <1> QED
    BY <1>1, <1>3, <1>4, <1>5, ReadStep DEF Moving

\* An asset is assigned.
LEMMA AssignAssetStep ==
  ASSUME IInv, NEW r \in Requests, NEW m \in Missions, NEW a \in Assets, AssignAsset(r, m, a)
  PROVE  IInv'
  <1> DEFINE q == [Seen(m, "assign") EXCEPT !.item = a]
  <1>1. TypeOK /\ m \in Cases /\ Exists(m) /\ At(r, "idle") /\ Alone
    BY Parts DEF AssignAsset, Read, Alone, Cases
  <1>2. /\ Seen(m, "assign") \in Request /\ Seen(m, "assign").pc = "assign"
        /\ Seen(m, "assign").case = m /\ Seen(m, "assign").at = 0
        /\ Seen(m, "assign").seen \in Statuses
    BY <1>1, SeenType
  <1>3. q \in Request /\ q.pc = "assign" /\ q.case = m /\ q.at = 0 /\ q.seen \in Statuses /\ q.item = a
    BY <1>2 DEF Request
  <1>4. Moved(r, q)
    BY <1>1, <1>3, MovedTo DEF AssignAsset
  <1>5. RequestInv(req[r])'
    <2>1. req'[r] = q
      BY <1>4 DEF Moved
    <2> HIDE DEF q
    <2> QED
      BY <1>1, <1>3, <2>1 DEF RequestInv, Alone, lifecycle, Exists, Moving
  <1> HIDE DEF q
  <1> QED
    BY <1>1, <1>3, <1>4, <1>5, ReadStep DEF Moving

\* A task is added.
LEMMA AddTaskStep ==
  ASSUME IInv, NEW r \in Requests, NEW m \in Missions, NEW t \in Tasks, AddTask(r, m, t)
  PROVE  IInv'
  <1> DEFINE q == [Seen(m, "newTask") EXCEPT !.item = t]
  <1>1. TypeOK /\ m \in Cases /\ Exists(m) /\ At(r, "idle") /\ Alone
    BY Parts DEF AddTask, Read, Alone, Cases
  <1>2. /\ Seen(m, "newTask") \in Request /\ Seen(m, "newTask").pc = "newTask"
        /\ Seen(m, "newTask").case = m /\ Seen(m, "newTask").at = 0
        /\ Seen(m, "newTask").seen \in Statuses
    BY <1>1, SeenType
  <1>3. q \in Request /\ q.pc = "newTask" /\ q.case = m /\ q.at = 0 /\ q.seen \in Statuses /\ q.item = t
    BY <1>2 DEF Request
  <1>4. Moved(r, q)
    BY <1>1, <1>3, MovedTo DEF AddTask
  <1>5. RequestInv(req[r])'
    <2>1. req'[r] = q
      BY <1>4 DEF Moved
    <2> HIDE DEF q
    <2> QED
      BY <1>1, <1>3, <2>1 DEF RequestInv, Alone, lifecycle, Exists, Moving
  <1> HIDE DEF q
  <1> QED
    BY <1>1, <1>3, <1>4, <1>5, ReadStep DEF Moving

\* The status of a task is to change.
LEMMA UpdateTaskStatusStep ==
  ASSUME IInv, NEW r \in Requests, NEW m \in Missions, NEW t \in Tasks, NEW to \in TaskStatuses,
         UpdateTaskStatus(r, m, t, to)
  PROVE  IInv'
  <1> DEFINE q == [Seen(m, "task") EXCEPT !.item = t, !.to = to]
  <1>1. TypeOK /\ m \in Cases /\ Exists(m) /\ At(r, "idle") /\ Alone
    BY Parts DEF UpdateTaskStatus, Read, Alone, Cases
  <1>2. /\ Seen(m, "task") \in Request /\ Seen(m, "task").pc = "task"
        /\ Seen(m, "task").case = m /\ Seen(m, "task").at = 0
        /\ Seen(m, "task").seen \in Statuses
    BY <1>1, SeenType
  <1>3. /\ q \in Request /\ q.pc = "task" /\ q.case = m /\ q.at = 0 /\ q.seen \in Statuses
        /\ q.item = t /\ q.to = to
    BY <1>2 DEF Request
  <1>4. Moved(r, q)
    BY <1>1, <1>3, MovedTo DEF UpdateTaskStatus
  <1>5. RequestInv(req[r])'
    <2>1. req'[r] = q
      BY <1>4 DEF Moved
    <2> HIDE DEF q
    <2> QED
      BY <1>1, <1>3, <2>1 DEF RequestInv, Alone, lifecycle, Exists, Moving
  <1> HIDE DEF q
  <1> QED
    BY <1>1, <1>3, <1>4, <1>5, ReadStep DEF Moving

\* The edit is written.
LEMMA UpdateIncidentStep ==
  ASSUME IInv, NEW r \in Requests, UpdateIncident(r) PROVE IInv'
  <1> DEFINE q == [req[r] EXCEPT !.pc = "updated", !.seen = status[req[r].case]]
  <1>1. /\ TypeOK /\ HistoryInv /\ PointerAgrees /\ ToldInv /\ MissionInv
        /\ req[r] \in Request /\ req[r].pc = "write" /\ req[r].at = 0 /\ req[r].case \in Incidents
        /\ req[r].case \in Cases /\ Exists(req[r].case) /\ status[req[r].case] \in Statuses
    BY ZenonT(40), Parts DEF UpdateIncident, At, RequestInv, TypeOK, Exists, Moving, Cases
  <1>2. UNCHANGED <<desk, lifecycle, links, plan, events, clock, dropped, faults>>
    BY DEF UpdateIncident
  <1>3. q \in Request /\ q.pc = "updated" /\ q.case = req[r].case /\ q.at = 0 /\ q.seen \in Statuses
    BY <1>1 DEF Request
  <1>4. req' = [req EXCEPT ![r] = q]
    BY <1>1 DEF UpdateIncident, Request
  <1>5. Moved(r, q) /\ req'[r] = q
    BY <1>1, <1>3, <1>4, MovedTo DEF Moved
  <1>6. fields' \in [Incidents -> [Fields -> Values]]
    BY <1>1 DEF UpdateIncident, Set, TypeOK, Request
  <1> HIDE DEF q
  <1>7. TypeOK' /\ Grows
    BY <1>1, <1>2, <1>5, <1>6 DEF TypeOK, Moved, Grows, Exists, lifecycle, links, plan, events
  <1>8. RequestInv(req[r])'
    BY <1>1, <1>2, <1>3, <1>5 DEF RequestInv, lifecycle, Exists, Moving
  <1>9. PointerAgrees'
    BY <1>1, <1>2, <1>5, PointerKept
  <1>10. ToldInv'
    BY <1>1, <1>2, <1>5, ToldKept DEF lifecycle, events
  <1>11. MissionInv'
    BY <1>1, <1>2, <1>5, <1>7, MissionKept DEF Planning, plan, events, lifecycle, Exists
  <1> QED
    BY <1>2, <1>3, <1>5, <1>7, <1>8, <1>9, <1>10, <1>11, QuietStep DEF Moving

\* The relation is inserted; an alert's pointer is still to come.
LEMMA AddRelationStep ==
  ASSUME IInv, NEW r \in Requests, AddRelation(r) PROVE IInv'
  <1>1. /\ TypeOK /\ HistoryInv /\ PointerAgrees /\ ToldInv /\ MissionInv
        /\ req[r].pc = "relate" /\ req[r].at = 0 /\ req[r].case \in Incidents
        /\ req[r].item \in Alerts \cup Others /\ req[r].seen \in Statuses
        /\ req[r].case \in Cases /\ Exists(req[r].case)
    BY Parts DEF AddRelation, At, RequestInv, Moving, Cases
  <1>2. /\ UNCHANGED <<desk, lifecycle, fields, pointer, plan, events, clock, dropped, faults>>
        /\ relations' = relations \cup {<<req[r].case, req[r].item>>}
        /\ Goto(r, IF req[r].item \in Alerts THEN "point" ELSE "updated")
    BY DEF AddRelation
  <1>3. PICK label \in {"point", "updated"} :
          Goto(r, label) /\ (label = "point" <=> req[r].item \in Alerts)
    BY <1>2
  <1> DEFINE q == [req[r] EXCEPT !.pc = label]
  <1>4. /\ Moved(r, q) /\ q.pc = label /\ q.case = req[r].case /\ q.seen = req[r].seen
        /\ q.at = req[r].at /\ q.item = req[r].item
    <2>1. TypeOK /\ Goto(r, label) /\ label \in {"commit", "point", "tasks", "created", "updated"}
      BY <1>1, <1>3
    <2> QED
      BY <2>1, Relabelled
  <1>5. req'[r] = q
    BY <1>4 DEF Moved
  <1> HIDE DEF q
  <1>6. TypeOK' /\ Grows
    BY <1>1, <1>2, <1>4 DEF TypeOK, Moved, Grows, Exists, lifecycle, plan, events
  <1>7. RequestInv(req[r])'
    BY <1>1, <1>2, <1>3, <1>4, <1>5 DEF RequestInv, lifecycle, Exists, Moving
  <1>8. PointerAgrees'
    <2>1. \A a \in Alerts : pointer'[a] # None => <<pointer'[a], a>> \in relations'
      BY <1>1, <1>2 DEF PointerAgrees
    <2>2. ASSUME NEW a \in Alerts, NEW i \in Incidents, pointer'[a] = None, <<i, a>> \in relations'
          PROVE  \E w \in Witnesses' : w.pc = "point" /\ w.case = i /\ w.item = a
      <3>1. CASE <<i, a>> \in relations
        <4>1. PICK w \in Witnesses : w.pc = "point" /\ w.case = i /\ w.item = a
          <5>1. PointerAgrees /\ pointer[a] = None
            BY <1>1, <1>2, <2>2
          <5> QED
            BY <3>1, <5>1 DEF PointerAgrees, Witnesses
        <4>2. w \in Witnesses'
          BY <1>1, <1>2, <1>4, <4>1, WitnessKept
        <4> QED
          BY <4>1, <4>2
      <3>2. CASE <<i, a>> \notin relations
        <4>1. i = req[r].case /\ a = req[r].item
          BY <1>2, <2>2, <3>2
        <4>2. req'[r] \in Witnesses'
          BY DEF Witnesses
        <4> QED
          BY <1>3, <1>4, <1>5, <4>1, <4>2
      <3> QED
        BY <3>1, <3>2
    <2> QED
      BY <2>1, <2>2 DEF PointerAgrees, Witnesses
  <1>9. ToldInv'
    BY <1>1, <1>2, <1>4, ToldKept DEF lifecycle, events
  <1>10. MissionInv'
    BY <1>1, <1>2, <1>4, <1>6, MissionKept DEF Planning, plan, events, lifecycle, Exists
  <1> QED
    BY <1>2, <1>3, <1>4, <1>6, <1>7, <1>8, <1>9, <1>10, QuietStep DEF Moving

\* The pointer follows the relation.
LEMMA SetAlertIncidentStep ==
  ASSUME IInv, NEW r \in Requests, SetAlertIncident(r) PROVE IInv'
  <1> DEFINE q == [req[r] EXCEPT !.pc = "updated"]
  <1>1. /\ TypeOK /\ HistoryInv /\ PointerAgrees /\ ToldInv /\ MissionInv
        /\ req[r].pc = "point" /\ req[r].at = 0 /\ req[r].case \in Incidents
        /\ req[r].item \in Alerts /\ <<req[r].case, req[r].item>> \in relations
        /\ req[r].seen \in Statuses
        /\ req[r].case \in Cases /\ Exists(req[r].case)
    BY Parts DEF SetAlertIncident, At, RequestInv, Moving, Cases
  <1>2. /\ UNCHANGED <<desk, lifecycle, fields, relations, plan, events, clock, dropped, faults>>
        /\ pointer' = [pointer EXCEPT ![req[r].item] = req[r].case]
        /\ Goto(r, "updated")
    BY DEF SetAlertIncident, Set
  <1>3. /\ Moved(r, q) /\ q.pc = "updated" /\ q.case = req[r].case /\ q.seen = req[r].seen
        /\ q.at = req[r].at
    BY <1>1, <1>2, Relabelled
  <1>4. req'[r] = q
    BY <1>3 DEF Moved
  <1> HIDE DEF q
  <1>5. TypeOK' /\ Grows
    BY <1>1, <1>2, <1>3 DEF TypeOK, Moved, Grows, Exists, lifecycle, plan, events
  <1>6. RequestInv(req[r])'
    BY <1>1, <1>2, <1>3, <1>4 DEF RequestInv, lifecycle, Exists, Moving
  <1>7. PointerAgrees'
    <2>1. ASSUME NEW a \in Alerts, pointer'[a] # None PROVE <<pointer'[a], a>> \in relations'
      <3>1. pointer'[a] = IF a = req[r].item THEN req[r].case ELSE pointer[a]
        BY <1>1, <1>2 DEF TypeOK
      <3>2. pointer[a] # None => <<pointer[a], a>> \in relations
        BY <1>1 DEF PointerAgrees
      <3> QED
        BY <1>1, <1>2, <2>1, <3>1, <3>2
    <2>2. ASSUME NEW a \in Alerts, NEW i \in Incidents, pointer'[a] = None, <<i, a>> \in relations'
          PROVE  \E w \in Witnesses' : w.pc = "point" /\ w.case = i /\ w.item = a
      <3>1. a # req[r].item /\ pointer[a] = None
        BY <1>1, <1>2, <2>2, CaseAssumption DEF TypeOK
      <3>2. PICK w \in Witnesses : w.pc = "point" /\ w.case = i /\ w.item = a
        BY <1>1, <1>2, <2>2, <3>1 DEF PointerAgrees, Witnesses
      <3>3. w \in Witnesses'
        BY <1>2, <1>3, <3>1, <3>2, WitnessKept
      <3> QED
        BY <3>2, <3>3
    <2> QED
      BY <2>1, <2>2 DEF PointerAgrees, Witnesses
  <1>8. ToldInv'
    BY <1>1, <1>2, <1>3, ToldKept DEF lifecycle, events
  <1>9. MissionInv'
    BY <1>1, <1>2, <1>3, <1>5, MissionKept DEF Planning, plan, events, lifecycle, Exists
  <1> QED
    BY <1>2, <1>3, <1>5, <1>6, <1>7, <1>8, <1>9, QuietStep DEF Moving

\* A statement of a plan: the handler stays at its label, or goes on to the next.
LEMMA PlanStep ==
  ASSUME IInv, NEW r \in Requests, At(r, "assets") \/ At(r, "tasks"),
         NEW q, Moved(r, q), q.pc \in Planning, q.case = req[r].case, q.at = 0,
         UNCHANGED <<desk, lifecycle, fields, links, wanted, events, clock, dropped, faults>>,
         crew' \in [Missions -> SUBSET Assets],
         tasks' \in [Missions -> [Tasks -> TaskStatuses \cup {"none"}]],
         \A m \in Missions : crew[m] \subseteq crew'[m],
         \A m \in Missions, t \in Tasks : tasks[m][t] # "none" => tasks'[m][t] # "none",
         q.pc # "assets" => wanted[q.case].assets \subseteq crew'[q.case],
         q.pc = "created" => \A t \in wanted[q.case].tasks : tasks'[q.case][t] # "none"
  PROVE  IInv'
  <1>1. /\ TypeOK /\ HistoryInv /\ PointerAgrees /\ ToldInv /\ MissionInv
        /\ req[r].pc \in {"assets", "tasks"} /\ req[r].case \in Missions
        /\ req[r].case \in Cases /\ Exists(req[r].case)
    BY Parts DEF At, RequestInv, Cases
  <1>2. req'[r] = q
    BY DEF Moved
  <1>3. TypeOK' /\ Grows
    BY <1>1 DEF TypeOK, Moved, Grows, Exists, lifecycle, links, events
  <1>4. RequestInv(req[r])'
    BY <1>1, <1>2 DEF RequestInv, lifecycle, Exists, Moving, Planning
  <1>5. PointerAgrees'
    BY <1>1, PointerKept
  <1>6. ToldInv'
    BY <1>1, ToldKept DEF lifecycle, events
  <1>7. MissionInv'
    BY <1>1, <1>3, MissionKept DEF Planning, events, lifecycle, Exists
  <1> QED
    BY <1>3, <1>4, <1>5, <1>6, <1>7, QuietStep DEF Moving, Planning

\* One of the planned assets, or none is left.
LEMMA PlanAssetStep ==
  ASSUME IInv, NEW r \in Requests, PlanAsset(r) PROVE IInv'
  <1> DEFINE m == req[r].case
  <1>1. /\ TypeOK /\ req[r] \in Request /\ At(r, "assets") /\ req[r].at = 0 /\ m \in Missions
        /\ wanted[m].assets \subseteq Assets
    BY Parts DEF PlanAsset, At, RequestInv, TypeOK
  <1>2. UNCHANGED <<desk, lifecycle, fields, links, tasks, wanted, events, clock, dropped, faults>>
    BY DEF PlanAsset
  <1>3. tasks' \in [Missions -> [Tasks -> TaskStatuses \cup {"none"}]]
    BY <1>1, <1>2 DEF TypeOK
  <1>4. CASE req' = req /\ \E a \in wanted[m].assets \ crew[m] : crew' = Set(crew, m, crew[m] \cup {a})
    <2>1. PICK a \in wanted[m].assets : crew' = [crew EXCEPT ![m] = crew[m] \cup {a}]
      BY <1>4 DEF Set
    <2>2. crew' \in [Missions -> SUBSET Assets] /\ \A k \in Missions : crew[k] \subseteq crew'[k]
      BY <1>1, <2>1 DEF TypeOK
    <2>3. Moved(r, req[r])
      BY <1>1, <1>4 DEF Moved, TypeOK
    <2> QED
      BY <1>1, <1>2, <1>3, <2>2, <2>3, PlanStep DEF At, Planning
  <1>5. CASE Goto(r, "tasks") /\ crew' = crew /\ wanted[m].assets \subseteq crew[m]
    <2> DEFINE q == [req[r] EXCEPT !.pc = "tasks"]
    <2>1. Moved(r, q) /\ q.pc = "tasks" /\ q.case = m /\ q.at = 0
      BY <1>1, <1>5, Relabelled
    <2>2. crew' \in [Missions -> SUBSET Assets]
      BY <1>1, <1>5 DEF TypeOK
    <2> HIDE DEF q
    <2> QED
      BY <1>1, <1>2, <1>3, <1>5, <2>1, <2>2, PlanStep DEF Planning
  <1> QED
    BY <1>4, <1>5 DEF PlanAsset

\* One of the planned tasks, or none is left.
LEMMA PlanTaskStep ==
  ASSUME IInv, NEW r \in Requests, PlanTask(r) PROVE IInv'
  <1> DEFINE m == req[r].case
  <1>1. /\ TypeOK /\ req[r] \in Request /\ At(r, "tasks") /\ req[r].at = 0 /\ m \in Missions
        /\ wanted[m].tasks \subseteq Tasks /\ wanted[m].assets \subseteq crew[m]
    BY Parts DEF PlanTask, At, RequestInv, TypeOK
  <1>2. UNCHANGED <<desk, lifecycle, fields, links, crew, wanted, events, clock, dropped, faults>>
    BY DEF PlanTask
  <1>3. crew' \in [Missions -> SUBSET Assets]
    BY <1>1, <1>2 DEF TypeOK
  <1>4. CASE req' = req /\ \E t \in wanted[m].tasks : CreateTask(m, t)
    <2>1. PICK t \in wanted[m].tasks : tasks' = [tasks EXCEPT ![m][t] = "PENDING"]
      BY <1>4 DEF CreateTask
    <2>2. /\ tasks' \in [Missions -> [Tasks -> TaskStatuses \cup {"none"}]]
          /\ \A k \in Missions, u \in Tasks : tasks[k][u] # "none" => tasks'[k][u] # "none"
      BY <1>1, <2>1 DEF TypeOK, TaskStatuses
    <2>3. Moved(r, req[r])
      BY <1>1, <1>4 DEF Moved, TypeOK
    <2> QED
      BY <1>1, <1>2, <1>3, <2>2, <2>3, PlanStep DEF At, Planning
  <1>5. CASE /\ Goto(r, "created") /\ tasks' = tasks
             /\ \A t \in wanted[m].tasks : tasks[m][t] # "none"
    <2> DEFINE q == [req[r] EXCEPT !.pc = "created"]
    <2>1. Moved(r, q) /\ q.pc = "created" /\ q.case = m /\ q.at = 0
      BY <1>1, <1>5, Relabelled
    <2>2. tasks' \in [Missions -> [Tasks -> TaskStatuses \cup {"none"}]]
      BY <1>1, <1>5 DEF TypeOK
    <2> HIDE DEF q
    <2> QED
      BY <1>1, <1>2, <1>3, <1>5, <2>1, <2>2, PlanStep DEF Planning
  <1> QED
    BY <1>4, <1>5 DEF PlanTask

\* A statement of a handler that works on a mission, before it publishes.
LEMMA WorkStep ==
  ASSUME IInv, NEW r \in Requests, At(r, "assign") \/ At(r, "newTask") \/ At(r, "task"),
         NEW q, Moved(r, q), q.pc = "idle" \/ (q.pc = "updated" /\ q.case = req[r].case /\ q.seen = req[r].seen),
         q.at = 0,
         UNCHANGED <<desk, lifecycle, fields, links, wanted, events, clock, dropped, faults>>,
         crew' \in [Missions -> SUBSET Assets],
         tasks' \in [Missions -> [Tasks -> TaskStatuses \cup {"none"}]],
         \A m \in Missions : crew[m] \subseteq crew'[m],
         \A m \in Missions, t \in Tasks : tasks[m][t] # "none" => tasks'[m][t] # "none"
  PROVE  IInv'
  <1>1. /\ TypeOK /\ HistoryInv /\ PointerAgrees /\ ToldInv /\ MissionInv
        /\ req[r].pc \in {"assign", "newTask", "task"} /\ req[r].seen \in Statuses
        /\ req[r].case \in Cases /\ Exists(req[r].case)
    BY Parts DEF At, RequestInv
  <1>2. req'[r] = q
    BY DEF Moved
  <1>3. TypeOK' /\ Grows
    BY <1>1 DEF TypeOK, Moved, Grows, Exists, lifecycle, links, events
  <1>4. RequestInv(req[r])'
    BY <1>1, <1>2 DEF RequestInv, lifecycle, Exists, Moving
  <1>5. PointerAgrees'
    BY <1>1, PointerKept
  <1>6. ToldInv'
    BY <1>1, ToldKept DEF lifecycle, events
  <1>7. MissionInv'
    BY <1>1, <1>3, MissionKept DEF Planning, events, lifecycle, Exists
  <1> QED
    BY <1>3, <1>4, <1>5, <1>6, <1>7, QuietStep DEF Moving

\* The asset joins the crew.
LEMMA AssignAssetToMissionStep ==
  ASSUME IInv, NEW r \in Requests, AssignAssetToMission(r) PROVE IInv'
  <1> DEFINE q == [req[r] EXCEPT !.pc = "updated"]
  <1>1. /\ TypeOK /\ At(r, "assign") /\ req[r].at = 0 /\ req[r].case \in Missions
        /\ req[r].item \in Assets
    BY Parts DEF AssignAssetToMission, At, RequestInv, Moving
  <1>2. /\ UNCHANGED <<desk, lifecycle, fields, links, tasks, wanted, events, clock, dropped, faults>>
        /\ crew' = [crew EXCEPT ![req[r].case] = crew[req[r].case] \cup {req[r].item}]
        /\ Goto(r, "updated")
    BY DEF AssignAssetToMission, Set
  <1>3. /\ Moved(r, q) /\ q.pc = "updated" /\ q.case = req[r].case /\ q.seen = req[r].seen
        /\ q.at = req[r].at
    BY <1>1, <1>2, Relabelled
  <1>4. /\ crew' \in [Missions -> SUBSET Assets]
        /\ tasks' \in [Missions -> [Tasks -> TaskStatuses \cup {"none"}]]
        /\ \A m \in Missions : crew[m] \subseteq crew'[m]
    BY <1>1, <1>2 DEF TypeOK
  <1> HIDE DEF q
  <1> QED
    BY <1>1, <1>2, <1>3, <1>4, WorkStep

\* The task is inserted.
LEMMA CreateMissionTaskStep ==
  ASSUME IInv, NEW r \in Requests, CreateMissionTask(r) PROVE IInv'
  <1> DEFINE q == [req[r] EXCEPT !.pc = "updated"]
  <1>1. /\ TypeOK /\ At(r, "newTask") /\ req[r].at = 0 /\ req[r].case \in Missions
        /\ req[r].item \in Tasks
    BY Parts DEF CreateMissionTask, At, RequestInv, Moving
  <1>2. /\ UNCHANGED <<desk, lifecycle, fields, links, crew, wanted, events, clock, dropped, faults>>
        /\ tasks' = [tasks EXCEPT ![req[r].case][req[r].item] = "PENDING"]
        /\ Goto(r, "updated")
    BY DEF CreateMissionTask, CreateTask
  <1>3. /\ Moved(r, q) /\ q.pc = "updated" /\ q.case = req[r].case /\ q.seen = req[r].seen
        /\ q.at = req[r].at
    BY <1>1, <1>2, Relabelled
  <1>4. /\ crew' \in [Missions -> SUBSET Assets]
        /\ tasks' \in [Missions -> [Tasks -> TaskStatuses \cup {"none"}]]
        /\ \A m \in Missions, t \in Tasks : tasks[m][t] # "none" => tasks'[m][t] # "none"
    BY <1>1, <1>2 DEF TypeOK, TaskStatuses
  <1> HIDE DEF q
  <1> QED
    BY <1>1, <1>2, <1>3, <1>4, WorkStep

\* The task changes, or is not found.
LEMMA UpdateMissionTaskStatusStep ==
  ASSUME IInv, NEW r \in Requests, UpdateMissionTaskStatus(r) PROVE IInv'
  <1>1. /\ TypeOK /\ At(r, "task") /\ req[r].at = 0 /\ req[r].case \in Missions
        /\ req[r].item \in Tasks /\ req[r].to \in TaskStatuses
    BY Parts DEF UpdateMissionTaskStatus, At, RequestInv, Moving
  <1>2. UNCHANGED <<desk, lifecycle, fields, links, crew, wanted, events, clock, dropped, faults>>
    BY DEF UpdateMissionTaskStatus
  <1>3. crew' \in [Missions -> SUBSET Assets]
    BY <1>1, <1>2 DEF TypeOK
  <1>4. CASE tasks' = [tasks EXCEPT ![req[r].case][req[r].item] = req[r].to] /\ Goto(r, "updated")
    <2> DEFINE q == [req[r] EXCEPT !.pc = "updated"]
    <2>1. /\ Moved(r, q) /\ q.pc = "updated" /\ q.case = req[r].case /\ q.seen = req[r].seen
          /\ q.at = req[r].at
      BY <1>1, <1>4, Relabelled
    <2>2. /\ tasks' \in [Missions -> [Tasks -> TaskStatuses \cup {"none"}]]
          /\ \A m \in Missions, t \in Tasks : tasks[m][t] # "none" => tasks'[m][t] # "none"
      BY <1>1, <1>4 DEF TypeOK, TaskStatuses
    <2> HIDE DEF q
    <2> QED
      BY <1>1, <1>2, <1>3, <2>1, <2>2, WorkStep
  <1>5. CASE Return(r) /\ tasks' = tasks
    <2>1. Moved(r, Idle) /\ Idle.pc = "idle" /\ Idle.at = 0
      BY <1>1, <1>5, Returned DEF Idle
    <2>2. tasks' \in [Missions -> [Tasks -> TaskStatuses \cup {"none"}]]
      BY <1>1, <1>5 DEF TypeOK
    <2> QED
      BY <1>1, <1>2, <1>3, <1>5, <2>1, <2>2, WorkStep
  <1> QED
    BY <1>4, <1>5 DEF UpdateMissionTaskStatus

\* incident.created or mission.created is published.
LEMMA PublishCreatedStep ==
  ASSUME IInv, NEW r \in Requests, PublishCreated(r) PROVE IInv'
  <1>1. /\ TypeOK /\ HistoryInv /\ PointerAgrees /\ ToldInv /\ MissionInv
        /\ req[r].pc = "created" /\ req[r].case \in Cases /\ Exists(req[r].case)
        /\ RequestInv(req[r])
    BY Parts DEF PublishCreated, At
  <1>2. /\ UNCHANGED <<desk, lifecycle, fields, links, plan, announced, clock, dropped, faults>>
        /\ created' = created \cup {req[r].case}
        /\ Return(r)
    BY DEF PublishCreated
  <1>3. Moved(r, Idle) /\ Idle.pc = "idle" /\ req'[r] = Idle
    BY <1>1, <1>2, Returned DEF Moved
  <1>4. TypeOK' /\ Grows
    BY <1>1, <1>2, <1>3 DEF TypeOK, Moved, Grows, Exists, lifecycle, links, plan
  <1>5. RequestInv(req[r])'
    BY <1>3 DEF RequestInv, Moving, Idle
  <1>6. PointerAgrees'
    BY <1>1, <1>2, <1>3, PointerKept
  <1>7. ToldInv'
    BY <1>1, <1>2, <1>3, ToldKept DEF lifecycle
  <1>8. MissionInv'
    <2>1. \A c \in created' : Exists(c)'
      BY <1>1, <1>2 DEF MissionInv, lifecycle, Exists
    <2>2. ASSUME NEW m \in Missions, m \in created'
          PROVE  /\ wanted'[m].assets \subseteq crew'[m]
                 /\ \A t \in wanted'[m].tasks : tasks'[m][t] # "none"
      <3>1. CASE m = req[r].case
        BY <1>1, <1>2, <3>1 DEF RequestInv, plan
      <3>2. CASE m # req[r].case
        BY <1>1, <1>2, <2>2, <3>2 DEF MissionInv, MissionWhole, plan
      <3> QED
        BY <3>1, <3>2
    <2>3. ASSUME NEW m \in Missions, Exists(m)', m \notin created'
          PROVE  \E w \in Witnesses' : w.case = m /\ w.pc \in Planning
      <3>1. Exists(m) /\ m \notin created /\ m # req[r].case
        BY <1>2, <2>3 DEF lifecycle, Exists
      <3>2. PICK w \in Witnesses : w.case = m /\ w.pc \in Planning
        BY <1>1, <3>1 DEF MissionInv, MissionWhole, Witnesses, Planning
      <3>3. w \in Witnesses'
        BY <1>2, <1>3, <3>1, <3>2, WitnessKept
      <3> QED
        BY <3>2, <3>3
    <2> QED
      BY <2>1, <2>2, <2>3 DEF MissionInv, MissionWhole, Witnesses, Planning
  <1> QED
    BY <1>2, <1>3, <1>4, <1>5, <1>6, <1>7, <1>8, QuietStep DEF Moving

\* An .updated event is published.
LEMMA PublishUpdatedStep ==
  ASSUME IInv, NEW r \in Requests, PublishUpdated(r) PROVE IInv'
  <1>1. /\ TypeOK /\ HistoryInv /\ PointerAgrees /\ ToldInv /\ MissionInv
        /\ req[r].pc = "updated" /\ req[r].case \in Cases /\ req[r].seen \in Statuses
        /\ req[r].at \in Nat /\ (req[r].at # 0 => req[r].to \in Statuses)
    BY Parts DEF PublishUpdated, At, RequestInv, Request
  <1>2. /\ UNCHANGED <<desk, lifecycle, fields, links, plan, created, clock, dropped, faults>>
        /\ announced' = [announced EXCEPT ![req[r].case] = @ \cup {<<req[r].at, Tell(req[r])>>}]
        /\ Return(r)
    BY DEF PublishUpdated
  <1>3. Moved(r, Idle) /\ Idle.pc = "idle" /\ req'[r] = Idle
    BY <1>1, <1>2, Returned DEF Moved
  <1>4. Tell(req[r]) \in Statuses /\ (req[r].at # 0 => Tell(req[r]) = req[r].to)
    BY <1>1 DEF Tell
  <1>5. /\ announced' \in [Cases -> SUBSET (Nat \X Statuses)]
        /\ \A c \in Cases : announced[c] \subseteq announced'[c]
        /\ <<req[r].at, Tell(req[r])>> \in announced'[req[r].case]
    BY <1>1, <1>2, <1>4 DEF TypeOK
  <1>6. TypeOK' /\ Grows
    BY <1>1, <1>2, <1>3, <1>5 DEF TypeOK, Moved, Grows, Exists, lifecycle, links, plan
  <1>7. RequestInv(req[r])'
    BY <1>3 DEF RequestInv, Moving, Idle
  <1>8. PointerAgrees'
    BY <1>1, <1>2, <1>3, PointerKept
  <1>9. ToldInv'
    <2>1. req[r].at = 0 \/ <<req[r].at, req[r].to>> \in announced'[req[r].case]
      BY <1>4, <1>5
    <2> QED
      BY <1>1, <1>2, <1>3, <1>5, <2>1, ToldKept DEF lifecycle
  <1>10. MissionInv'
    BY <1>1, <1>2, <1>3, <1>6, MissionKept DEF Planning, plan, lifecycle, Exists
  <1> QED
    BY <1>2, <1>3, <1>6, <1>7, <1>8, <1>9, <1>10, QuietStep DEF Moving

\* A request dies, and is remembered.
LEMMA AbortStep ==
  ASSUME IInv, NEW r \in Requests, Abort(r) PROVE IInv'
  <1>1. TypeOK /\ HistoryInv /\ PointerAgrees /\ ToldInv /\ MissionInv /\ req[r] \in Request
    BY Parts
  <1>2. /\ UNCHANGED <<desk, lifecycle, fields, links, plan, events, clock>>
        /\ dropped' = dropped \cup {req[r]}
        /\ faults' = faults + 1 /\ faults < MaxFaults
        /\ Return(r)
    BY DEF Abort
  <1>3. Moved(r, Idle) /\ Idle.pc = "idle" /\ req'[r] = Idle
    BY <1>1, <1>2, Returned DEF Moved
  <1>4. TypeOK' /\ Grows
    BY <1>1, <1>2, <1>3, CaseAssumption DEF TypeOK, Moved, Grows, Exists, lifecycle, links, plan, events
  <1>5. RequestInv(req[r])'
    BY <1>3 DEF RequestInv, Moving, Idle
  <1>6. dropped \subseteq dropped' /\ req[r] \in dropped'
    BY <1>2
  <1>7. PointerAgrees'
    BY <1>1, <1>2, <1>3, <1>6, PointerKept
  <1>8. ToldInv'
    BY <1>1, <1>2, <1>3, <1>6, ToldKept DEF lifecycle, events
  <1>9. MissionInv'
    BY <1>1, <1>2, <1>3, <1>4, <1>6, MissionKept DEF Planning, plan, events, lifecycle, Exists
  <1> QED
    BY <1>2, <1>3, <1>4, <1>5, <1>7, <1>8, <1>9, QuietStep DEF Moving

-----------------------------------------------------------------------------
(* The lifecycles                                                          *)

\* UpdateStatus has read the status of the case.
LEMMA MoveStep ==
  ASSUME IInv, NEW r \in Requests, NEW c \in Cases, NEW to \in Statuses, At(r, "idle"), Exists(c),
         CanTransition(c, status[c], to), Alone,
         req' = [req EXCEPT ![r] = [Seen(c, "start") EXCEPT !.to = to]]
  PROVE  IInv'
  <1> DEFINE q == [Seen(c, "start") EXCEPT !.to = to]
  <1>1. TypeOK /\ TimesInv /\ HistoryInv /\ PointerAgrees /\ ToldInv /\ MissionInv
    BY Parts
  <1>2. /\ Seen(c, "start") \in Request /\ Seen(c, "start").pc = "start"
        /\ Seen(c, "start").case = c /\ Seen(c, "start").at = 0
        /\ Seen(c, "start").seen = status[c] /\ status[c] \in Statuses
    BY <1>1, SeenType
  <1>3. q \in Request /\ q.pc = "start" /\ q.case = c /\ q.at = 0 /\ q.seen = status[c] /\ q.to = to
    BY <1>2 DEF Request
  <1>4. Moved(r, q) /\ req'[r] = q
    BY <1>1, <1>3, MovedTo DEF Moved
  <1> HIDE DEF q
  <1>5. TypeOK' /\ Grows
    BY <1>1, <1>4, AloneGrows, AloneType
  <1>6. Entered(c, status[c]) /\ Exists(c)
    BY <1>1 DEF HistoryInv, Exists
  <1>7. RequestInv(req[r])'
    BY <1>2, <1>3, <1>4, <1>6 DEF RequestInv, Alone, lifecycle, Exists, Moving, Entered
  <1>8. TimesInv'
    <2>1. HistoryInv' /\ StampsTellHistory'
      BY <1>1 DEF TimesInv, HistoryInv, Entered, StampsTellHistory, Straight, Alone, lifecycle
    <2>2. OneTime'
      BY <1>1, <1>3, <1>4 DEF TimesInv, OneTime, Moved, At
    <2>3. ASSUME NEW s \in Requests PROVE TimelyInv(req[s])'
      <3>1. CASE s = r
        <4>1. c \in Missions /\ status[c] = "ACTIVE" => began[c] # 0
          BY <1>1 DEF TimesInv, StampsTellHistory
        <4> QED
          BY <1>3, <1>4, <3>1, <4>1 DEF TimelyInv, Alone, lifecycle
      <3>2. CASE s # r
        <4>1. TimelyInv(req[s]) /\ req'[s] = req[s]
          BY <1>1, <1>4, <3>2 DEF TimesInv, Moved
        <4> QED
          BY <4>1 DEF TimelyInv, Straight, Alone, lifecycle
      <3> QED
        BY <3>1, <3>2
    <2> QED
      BY <2>1, <2>2, <2>3 DEF TimesInv
  <1>9. PointerAgrees'
    BY <1>1, <1>4, PointerKept DEF At, Alone
  <1>10. ToldInv'
    BY <1>1, <1>4, ToldKept DEF At, Alone, lifecycle, events
  <1>11. MissionInv'
    BY <1>1, <1>4, <1>5, MissionKept DEF At, Alone, Planning, plan, events, lifecycle, Exists
  <1> QED
    BY <1>4, <1>5, <1>7, <1>8, <1>9, <1>10, <1>11, AnyStep

\* An incident's change of status is judged.
LEMMA MoveIncidentStep ==
  ASSUME IInv, NEW r \in Requests, NEW i \in Incidents, NEW to \in IncidentStatuses,
         MoveIncident(r, i, to)
  PROVE  IInv'
  BY MoveStep DEF MoveIncident, Read, Alone, Cases, Statuses

\* A mission's change of status is judged.
LEMMA MoveMissionStep ==
  ASSUME IInv, NEW r \in Requests, NEW m \in Missions, NEW to \in MissionStatuses,
         MoveMission(r, m, to)
  PROVE  IInv'
  BY MoveStep DEF MoveMission, Read, Alone, Cases, Statuses

\* The statement takes its time: later than every change it follows.
LEMMA StartStep ==
  ASSUME IInv, NEW r \in Requests, Start(r) PROVE IInv'
  <1> DEFINE q == [req[r] EXCEPT !.pc = "commit", !.at = clock + 1]
  <1>1. /\ TypeOK /\ TimesInv /\ HistoryInv /\ PointerAgrees /\ ToldInv /\ MissionInv
        /\ req[r] \in Request /\ req[r].pc = "start" /\ clock \in Nat
        /\ RequestInv(req[r]) /\ req[r].case \in Cases /\ Exists(req[r].case)
    BY Parts, CaseAssumption DEF Start, At, TypeOK
  <1>2. /\ UNCHANGED <<desk, lifecycle, fields, links, plan, events, dropped, faults>>
        /\ clock' = clock + 1 /\ clock < MaxClock
    BY DEF Start
  <1>3. /\ q \in Request /\ q.pc = "commit" /\ q.at = clock + 1 /\ q.case = req[r].case
        /\ q.seen = req[r].seen /\ q.to = req[r].to
    <2>1. clock + 1 \in Nat
      BY <1>1
    <2> QED
      BY <1>1, <2>1 DEF Request
  <1>4. req' = [req EXCEPT ![r] = q]
    BY <1>1 DEF Start, Request
  <1>5. Moved(r, q) /\ req'[r] = q
    BY <1>1, <1>3, <1>4, MovedTo DEF Moved
  <1> HIDE DEF q
  <1>6. TypeOK' /\ Grows
    BY <1>1, <1>2, <1>5, CaseAssumption
    DEF TypeOK, Moved, Grows, Exists, lifecycle, links, plan, events
  <1>7. RequestInv(req[r])'
    BY <1>1, <1>2, <1>3, <1>5 DEF RequestInv, lifecycle, Exists, Moving, Entered
  <1>8. HistoryInv'
    <2>1. \A k \in Nat : k \in 1..clock => k \in 1..clock' /\ k < clock + 1
      BY <1>1, <1>2
    <2>2. \A c \in Cases : \A x \in moves[c] : x[1] \in 1..clock' /\ x[2] \notin Entry
      BY <1>1, <2>1 DEF HistoryInv
    <2> QED
      BY <1>1, <1>2, <2>2 DEF HistoryInv, Entered, lifecycle
  <1>9. OneTime'
    <2>1. ASSUME NEW s \in Requests, s # r, At(s, "commit")' PROVE req'[s].at # req'[r].at
      <3>1. req'[s] = req[s] /\ req[s].at \in 1..clock
        BY <1>5, <2>1 DEF IInv, RequestInv, Moved, At
      <3> QED
        BY <1>1, <1>3, <1>5, <3>1
    <2>2. \A s, o \in Requests \ {r} : At(s, "commit")' /\ At(o, "commit")' /\ req'[s].at = req'[o].at => s = o
      BY <1>1, <1>5 DEF TimesInv, OneTime, Moved, At
    <2> QED
      BY <2>1, <2>2 DEF OneTime
  <1>10. ASSUME NEW s \in Requests PROVE TimelyInv(req[s])'
    <2>1. CASE s = r
      <3>1. \A c \in Cases : \A x \in moves[c] : x[1] < clock + 1 /\ x[1] # clock + 1
        BY <1>1 DEF HistoryInv
      <3>2. q.case \in Missions /\ q.seen = "ACTIVE" => began[q.case] # 0 /\ began[q.case] < q.at
        <4> SUFFICES ASSUME q.case \in Missions, q.seen = "ACTIVE"
                     PROVE  began[q.case] # 0 /\ began[q.case] < q.at
          OBVIOUS
        <4>1. began[q.case] # 0
          BY <1>1, <1>3 DEF TimesInv, TimelyInv, Moving
        <4>2. <<began[q.case], "ACTIVE">> \in moves[q.case]
          BY <1>1, <4>1 DEF TimesInv, StampsTellHistory
        <4> QED
          BY <1>1, <1>3, <3>1, <4>1, <4>2
      <3> QED
        BY <1>1, <1>2, <1>3, <1>5, <2>1, <3>1, <3>2 DEF TimelyInv, lifecycle
    <2>2. CASE s # r
      <3>1. TimelyInv(req[s]) /\ req'[s] = req[s]
        BY <1>1, <1>5, <2>2 DEF TimesInv, Moved
      <3> QED
        BY <1>2, <3>1 DEF TimelyInv, Straight, lifecycle
    <2> QED
      BY <2>1, <2>2
  <1>11. StampsTellHistory'
    BY <1>1, <1>2 DEF TimesInv, StampsTellHistory, Straight, lifecycle
  <1>12. PointerAgrees'
    BY <1>1, <1>2, <1>5, PointerKept
  <1>13. ToldInv'
    BY <1>1, <1>2, <1>5, ToldKept DEF lifecycle, events
  <1>14. MissionInv'
    BY <1>1, <1>2, <1>5, <1>6, MissionKept DEF Planning, plan, events, lifecycle, Exists
  <1> QED
    BY <1>5, <1>6, <1>7, <1>8, <1>9, <1>10, <1>11, <1>12, <1>13, <1>14, AnyStep DEF TimesInv

\* A case that did not exist has no history, and no request is about it.
LEMMA NewCase ==
  ASSUME IInv, NEW r \in Requests, NEW q, Moved(r, q), q.pc \notin Moving, At(r, "idle"),
         NEW c \in Cases, ~Exists(c), NEW s \in Entry,
         s = "OPEN" <=> c \in Incidents,
         status' = [status EXCEPT ![c] = s], UNCHANGED <<began, ended, moves, clock>>
  PROVE  TimesInv'
  <1>1. TypeOK /\ TimesInv /\ status[c] = "none"
    BY Parts DEF Exists
  <1>2. status'[c] = s /\ \A d \in Cases \ {c} : status'[d] = status[d]
    BY <1>1 DEF TypeOK
  <1>3. HistoryInv'
    <2>1. c \in Incidents => s \notin MissionStatuses
      BY DEF Entry, MissionStatuses
    <2>2. c \in Missions => s \notin IncidentStatuses
      BY CaseAssumption DEF Entry, IncidentStatuses
    <2> QED
      BY <1>1, <1>2, <2>1, <2>2 DEF TimesInv, HistoryInv, Entered, Cases
  <1>4. OneTime'
    BY <1>1 DEF TimesInv, OneTime, Moved, At, Moving
  <1>5. ASSUME NEW o \in Requests PROVE TimelyInv(req[o])'
    <2>1. CASE o = r
      BY <2>1 DEF TimelyInv, Moved, Moving
    <2>2. CASE o # r
      <3>1. TimelyInv(req[o]) /\ req'[o] = req[o] /\ RequestInv(req[o])
        BY <1>1, <2>2 DEF TimesInv, Moved, IInv
      <3>2. req[o].pc = "commit" => req[o].case \in Cases \ {c}
        BY <1>1, <3>1 DEF RequestInv, Exists
      <3> QED
        BY <1>2, <3>1, <3>2 DEF TimelyInv, Straight
    <2> QED
      BY <2>1, <2>2
  <1>6. StampsTellHistory'
    <2>1. s \notin Terminal \cup {"RESOLVED", "ACTIVE"}
      BY DEF Entry, Terminal
    <2>2. ended[c] = 0
      BY <1>1 DEF TimesInv, StampsTellHistory
    <2> QED
      BY <1>1, <1>2, <2>1, <2>2 DEF TimesInv, StampsTellHistory, Straight, Terminal, Cases
  <1> QED
    BY <1>3, <1>4, <1>5, <1>6 DEF TimesInv

\* An incident is opened with its relations and pointers at once.
LEMMA OpenIncidentStep ==
  ASSUME IInv, NEW r \in Requests, NEW i \in Incidents, NEW items \in SUBSET (Alerts \cup Others),
         OpenIncident(r, i, items)
  PROVE  IInv'
  <1> DEFINE q == [Idle EXCEPT !.pc = "created", !.case = i]
  <1>1. /\ TypeOK /\ HistoryInv /\ PointerAgrees /\ ToldInv /\ MissionInv
        /\ i \in Cases /\ i \notin Missions /\ At(r, "idle") /\ ~Exists(i)
    BY Parts, CaseAssumption DEF OpenIncident, Cases
  <1>2. /\ UNCHANGED <<desk, began, ended, moves, fields, plan, events, clock, dropped, faults>>
        /\ status' = [status EXCEPT ![i] = "OPEN"]
        /\ relations' = relations \cup {<<i, x>> : x \in items}
        /\ pointer' = [a \in Alerts |-> IF a \in items THEN i ELSE pointer[a]]
        /\ req' = [req EXCEPT ![r] = q]
    BY DEF OpenIncident, Set
  <1>3. q \in Request /\ q.pc = "created" /\ q.case = i /\ q.at = 0
    BY <1>1, IdleType DEF Request, Idle
  <1>4. Moved(r, q) /\ req'[r] = q
    BY <1>1, <1>2, <1>3, MovedTo DEF Moved
  <1> HIDE DEF q
  <1>5. /\ status' \in [Cases -> Statuses \cup {"none"}]
        /\ status'[i] # "none" /\ \A c \in Cases : status[c] # "none" => status'[c] # "none"
        /\ \A m \in Missions : status'[m] = status[m]
    BY <1>1, <1>2 DEF TypeOK, Statuses, IncidentStatuses, Cases
  <1>6. /\ relations' \subseteq Incidents \X (Alerts \cup Others) /\ relations \subseteq relations'
        /\ pointer' \in [Alerts -> Incidents \cup {None}]
    BY <1>1, <1>2 DEF TypeOK
  <1>7. TypeOK' /\ Grows
    BY <1>1, <1>2, <1>4, <1>5, <1>6 DEF TypeOK, Moved, Grows, Exists, plan, events
  <1>8. RequestInv(req[r])'
    BY <1>1, <1>3, <1>4, <1>5 DEF RequestInv, Exists, Moving
  <1>9. TimesInv'
    <2>1. q.pc \notin Moving /\ "OPEN" \in Entry
      BY <1>3 DEF Moving, Entry
    <2> QED
      BY <1>1, <1>2, <1>4, <2>1, NewCase
  <1>10. PointerAgrees'
    <2>1. ASSUME NEW a \in Alerts, pointer'[a] # None PROVE <<pointer'[a], a>> \in relations'
      BY <1>1, <1>2, <2>1 DEF PointerAgrees
    <2>2. ASSUME NEW a \in Alerts, NEW j \in Incidents, pointer'[a] = None, <<j, a>> \in relations'
          PROVE  \E w \in Witnesses' : w.pc = "point" /\ w.case = j /\ w.item = a
      <3>1. a \notin items /\ pointer[a] = None
        BY <1>1, <1>2, <2>2, CaseAssumption
      <3>2. <<j, a>> \in relations
        BY <1>2, <2>2, <3>1
      <3>3. PICK w \in Witnesses : w.pc = "point" /\ w.case = j /\ w.item = a
        BY <1>1, <3>1, <3>2 DEF PointerAgrees, Witnesses
      <3>4. w \in Witnesses'
        BY <1>1, <1>2, <1>4, <3>3, WitnessKept DEF At
      <3> QED
        BY <3>3, <3>4
    <2> QED
      BY <2>1, <2>2 DEF PointerAgrees, Witnesses
  <1>11. ToldInv'
    BY <1>1, <1>2, <1>4, ToldKept DEF At, events
  <1>12. MissionInv'
    BY <1>1, <1>2, <1>4, <1>5, <1>7, MissionKept DEF At, Planning, plan, events, Exists
  <1> QED
    BY <1>4, <1>7, <1>8, <1>9, <1>10, <1>11, <1>12, AnyStep

\* The mission exists; its crew and tasks are still to come.
LEMMA PlanMissionStep ==
  ASSUME IInv, NEW r \in Requests, NEW m \in Missions, NEW team \in SUBSET Assets,
         NEW work \in SUBSET Tasks, PlanMission(r, m, team, work)
  PROVE  IInv'
  <1> DEFINE q == [Idle EXCEPT !.pc = "assets", !.case = m]
  <1>1. /\ TypeOK /\ HistoryInv /\ PointerAgrees /\ ToldInv /\ MissionInv
        /\ m \in Cases /\ m \notin Incidents /\ At(r, "idle") /\ ~Exists(m)
    BY Parts, CaseAssumption DEF PlanMission, Cases
  <1>2. /\ UNCHANGED <<desk, began, ended, moves, fields, links, crew, tasks, events, clock,
                       dropped, faults>>
        /\ status' = [status EXCEPT ![m] = "PLANNED"]
        /\ wanted' = [wanted EXCEPT ![m] = [assets |-> team, tasks |-> work]]
        /\ req' = [req EXCEPT ![r] = q]
    BY DEF PlanMission, Set
  <1>3. q \in Request /\ q.pc = "assets" /\ q.case = m /\ q.at = 0
    BY <1>1, IdleType DEF Request, Idle
  <1>4. Moved(r, q) /\ req'[r] = q
    BY <1>1, <1>2, <1>3, MovedTo DEF Moved
  <1> HIDE DEF q
  <1>5. /\ status' \in [Cases -> Statuses \cup {"none"}]
        /\ status'[m] # "none" /\ \A c \in Cases : status[c] # "none" => status'[c] # "none"
        /\ \A k \in Missions \ {m} : status'[k] = status[k] /\ wanted'[k] = wanted[k]
        /\ wanted' \in [Missions -> [assets : SUBSET Assets, tasks : SUBSET Tasks]]
    BY <1>1, <1>2 DEF TypeOK, Statuses, MissionStatuses, Cases
  <1>6. TypeOK'
    BY <1>1, <1>2, <1>4, <1>5 DEF TypeOK, Moved, links, events
  <1>7. Grows
    BY <1>1, <1>2, <1>5 DEF TypeOK, Grows, Exists, links
  <1>8. RequestInv(req[r])'
    BY <1>1, <1>3, <1>4, <1>5 DEF RequestInv, Exists, Moving
  <1>9. TimesInv'
    <2>1. q.pc \notin Moving /\ "PLANNED" \in Entry
      BY <1>3 DEF Moving, Entry
    <2> QED
      BY <1>1, <1>2, <1>4, <2>1, NewCase
  <1>10. PointerAgrees'
    BY <1>1, <1>2, <1>4, PointerKept DEF At
  <1>11. ToldInv'
    BY <1>1, <1>2, <1>4, ToldKept DEF At, events
  <1>12. MissionInv'
    <2>1. \A c \in created' : Exists(c)'
      BY <1>1, <1>2, <1>5 DEF MissionInv, Exists, events, TypeOK
    <2>2. m \notin created
      BY <1>1 DEF MissionInv
    <2>3. ASSUME NEW k \in Missions, k \in created'
          PROVE  /\ wanted'[k].assets \subseteq crew'[k]
                 /\ \A t \in wanted'[k].tasks : tasks'[k][t] # "none"
      <3>1. k \in created /\ k # m
        BY <1>2, <2>2, <2>3 DEF events
      <3> QED
        BY <1>1, <1>2, <1>5, <3>1 DEF MissionInv, MissionWhole
    <2>4. ASSUME NEW k \in Missions, Exists(k)', k \notin created'
          PROVE  \E w \in Witnesses' : w.case = k /\ w.pc \in Planning
      <3>1. CASE k = m
        <4>1. req'[r] \in Witnesses'
          BY DEF Witnesses
        <4> QED
          BY <1>3, <1>4, <3>1, <4>1 DEF Planning
      <3>2. CASE k # m
        <4>1. Exists(k) /\ k \notin created
          BY <1>2, <1>5, <2>4, <3>2 DEF Exists, events
        <4>2. PICK w \in Witnesses : w.case = k /\ w.pc \in Planning
          BY <1>1, <4>1 DEF MissionInv, MissionWhole, Witnesses, Planning
        <4>3. w \in Witnesses'
          BY <1>1, <1>2, <1>4, <4>2, WitnessKept DEF At, Planning
        <4> QED
          BY <4>2, <4>3
      <3> QED
        BY <3>1, <3>2
    <2> QED
      BY <2>1, <2>3, <2>4 DEF MissionInv, MissionWhole, Witnesses, Planning
  <1> QED
    BY <1>4, <1>6, <1>7, <1>8, <1>9, <1>10, <1>11, <1>12, AnyStep

\* The compare-and-set succeeds: what it says of the case it moves.
Committed(r) ==
  LET q == req[r] IN
  /\ At(r, "commit") /\ Expected(q.case, q.seen)
  /\ status' = Set(status, q.case, q.to)
  /\ moves' = [moves EXCEPT ![q.case] = @ \cup {<<q.at, q.to>>}]
  /\ \/ q.case \in Incidents /\ UpdateIncidentStatus(q.case, q.to, q.at)
     \/ q.case \in Missions /\ UpdateMissionStatus(q.case, q.to, q.at)
  /\ Goto(r, "updated")
  /\ UNCHANGED <<desk, fields, links, plan, events, clock, dropped, faults>>

\* A compare-and-set that succeeds is a legal change of one case, at a time of its own.
LEMMA CommitFacts ==
  ASSUME IInv, NEW r \in Requests, Committed(r)
  PROVE  LET c  == req[r].case
             at == req[r].at
             to == req[r].to IN
         /\ c \in Cases /\ at \in 1..clock /\ at \in Nat /\ at # 0
         /\ to \in Statuses \ Entry /\ status[c] \in Statuses \ Terminal /\ to # status[c]
         /\ CanTransition(c, status[c], to) /\ Entered(c, status[c])
         /\ status' \in [Cases -> Statuses \cup {"none"}] /\ status'[c] = to
         /\ moves' \in [Cases -> SUBSET (Nat \X Statuses)]
         /\ moves'[c] = moves[c] \cup {<<at, to>>}
         /\ began' \in [Cases -> Nat] /\ ended' \in [Cases -> Nat]
         /\ \A d \in Cases \ {c} : /\ status'[d] = status[d] /\ moves'[d] = moves[d]
                                   /\ began'[d] = began[d] /\ ended'[d] = ended[d]
         /\ c \in Incidents => /\ c \notin Missions
                               /\ began'[c] = IF to = "RESOLVED" THEN at ELSE began[c]
                               /\ ended'[c] = IF to = "CLOSED" THEN at ELSE ended[c]
         /\ c \in Missions => /\ c \notin Incidents
                              /\ began'[c] = IF to = "ACTIVE" /\ began[c] = 0 THEN at ELSE began[c]
                              /\ ended'[c] = IF to \in {"COMPLETED", "ABORTED"} THEN at ELSE ended[c]
  <1> DEFINE c  == req[r].case
             at == req[r].at
             to == req[r].to
  <1>1. /\ TypeOK /\ RequestInv(req[r]) /\ req[r] \in Request /\ req[r].pc = "commit"
        /\ status[c] = req[r].seen /\ clock \in Nat
    BY Parts, CaseAssumption DEF Committed, At, Expected, TypeOK
  <1>2. /\ c \in Cases /\ at \in 1..clock /\ CanTransition(c, status[c], to)
        /\ Entered(c, status[c])
    BY <1>1 DEF RequestInv, Moving
  <1>3. to \in Statuses \ Entry /\ status[c] \in Statuses \ Terminal /\ to # status[c]
    BY <1>2, MovesAreLegal
  <1>4. at \in Nat /\ at # 0
    BY <1>1, <1>2
  <1>5. /\ status' = [status EXCEPT ![c] = to]
        /\ moves' = [moves EXCEPT ![c] = @ \cup {<<at, to>>}]
        /\ \/ c \in Incidents /\ UpdateIncidentStatus(c, to, at)
           \/ c \in Missions /\ UpdateMissionStatus(c, to, at)
    BY DEF Committed, Set
  <1> HIDE DEF c, at, to
  <1>6. /\ status' \in [Cases -> Statuses \cup {"none"}] /\ status'[c] = to
        /\ moves' \in [Cases -> SUBSET (Nat \X Statuses)]
        /\ moves'[c] = moves[c] \cup {<<at, to>>}
        /\ \A d \in Cases \ {c} : status'[d] = status[d] /\ moves'[d] = moves[d]
    BY <1>1, <1>2, <1>3, <1>4, <1>5 DEF TypeOK
  <1>7. CASE c \in Incidents
    <2>1. c \notin Missions /\ UpdateIncidentStatus(c, to, at)
      BY <1>5, <1>7, CaseAssumption
    <2>2. /\ began' = IF to = "RESOLVED" THEN [began EXCEPT ![c] = at] ELSE began
          /\ ended' = IF to = "CLOSED" THEN [ended EXCEPT ![c] = at] ELSE ended
      BY <2>1 DEF UpdateIncidentStatus, Set
    <2>3. /\ began' \in [Cases -> Nat] /\ ended' \in [Cases -> Nat]
          /\ \A d \in Cases \ {c} : began'[d] = began[d] /\ ended'[d] = ended[d]
          /\ began'[c] = IF to = "RESOLVED" THEN at ELSE began[c]
          /\ ended'[c] = IF to = "CLOSED" THEN at ELSE ended[c]
      BY <1>1, <1>2, <1>4, <2>2 DEF TypeOK
    <2> QED
      BY <1>2, <1>3, <1>4, <1>6, <1>7, <2>1, <2>3 DEF c, at, to
  <1>8. CASE c \in Missions
    <2>1. c \notin Incidents /\ UpdateMissionStatus(c, to, at)
      BY <1>5, <1>8, CaseAssumption
    <2>2. /\ began' = IF to = "ACTIVE" /\ began[c] = 0 THEN [began EXCEPT ![c] = at] ELSE began
          /\ ended' = IF to \in {"COMPLETED", "ABORTED"} THEN [ended EXCEPT ![c] = at] ELSE ended
      BY <2>1 DEF UpdateMissionStatus, Set
    <2>3. /\ began' \in [Cases -> Nat] /\ ended' \in [Cases -> Nat]
          /\ \A d \in Cases \ {c} : began'[d] = began[d] /\ ended'[d] = ended[d]
          /\ began'[c] = IF to = "ACTIVE" /\ began[c] = 0 THEN at ELSE began[c]
          /\ ended'[c] = IF to \in {"COMPLETED", "ABORTED"} THEN at ELSE ended[c]
      BY <1>1, <1>2, <1>4, <2>2 DEF TypeOK
    <2> QED
      BY <1>2, <1>3, <1>4, <1>6, <1>8, <2>1, <2>3 DEF c, at, to
  <1> QED
    BY <1>5, <1>7, <1>8

\* The change is told of the right history: see StampsTellHistory.
LEMMA CommitTimes ==
  ASSUME IInv, NEW r \in Requests, Committed(r), NEW n, Moved(r, n), n.pc = "updated"
  PROVE  TimesInv'
  <1> SUFFICES ASSUME NEW c, NEW at, NEW to,
                      c = req[r].case, at = req[r].at, to = req[r].to
               PROVE  TimesInv'
    OBVIOUS
  <1>1. /\ c \in Cases /\ at \in 1..clock /\ at \in Nat /\ at # 0
        /\ to \in Statuses \ Entry /\ status[c] \in Statuses \ Terminal /\ to # status[c]
        /\ CanTransition(c, status[c], to) /\ Entered(c, status[c])
        /\ status'[c] = to
        /\ moves'[c] = moves[c] \cup {<<at, to>>}
    BY CommitFacts
  <1>2. \A d \in Cases \ {c} : /\ status'[d] = status[d] /\ moves'[d] = moves[d]
                               /\ began'[d] = began[d] /\ ended'[d] = ended[d]
    BY CommitFacts
  <1>3. c \in Incidents => /\ c \notin Missions
                           /\ began'[c] = IF to = "RESOLVED" THEN at ELSE began[c]
                           /\ ended'[c] = IF to = "CLOSED" THEN at ELSE ended[c]
    BY CommitFacts
  <1>4. c \in Missions => /\ c \notin Incidents
                          /\ began'[c] = IF to = "ACTIVE" /\ began[c] = 0 THEN at ELSE began[c]
                          /\ ended'[c] = IF to \in {"COMPLETED", "ABORTED"} THEN at ELSE ended[c]
    BY CommitFacts
  <1>5. /\ TypeOK /\ TimesInv /\ HistoryInv /\ OneTime /\ StampsTellHistory /\ clock' = clock
        /\ \A o \in Requests : TimelyInv(req[o])
    BY Parts DEF TimesInv, Committed
  <1>6. /\ \A d \in Cases : \A x \in moves[d] : x[1] # at
        /\ Straight(c) => \A x \in moves[c] : x[1] < at
        /\ c \in Missions /\ status[c] = "ACTIVE" => began[c] # 0 /\ began[c] < at
    BY <1>1, <1>5 DEF TimelyInv, Committed, At, Expected, Moving
  <1>7. /\ c \in Incidents => status[c] \in IncidentStatuses /\ to \in IncidentStatuses
        /\ c \in Missions =>
              /\ status[c] = "PLANNED" => to \in {"ACTIVE", "ABORTED"}
              /\ status[c] \in {"PLANNED", "ACTIVE"}
              /\ status[c] = "ACTIVE" => to \in {"COMPLETED", "ABORTED"}
    BY <1>1, MovesAreLegal
  <1>8. /\ \A d \in Cases : began[d] \in Nat /\ ended[d] \in Nat
        /\ \A d \in Cases : \A x \in moves[d] : x[1] \in Nat
    BY <1>5 DEF TypeOK
  <1>9. \A o \in Requests : At(o, "commit")' => o # r /\ At(o, "commit") /\ req'[o] = req[o]
    BY DEF Moved, At
  <1>10. ASSUME NEW o \in Requests, o # r
         PROVE  req'[o] = req[o] /\ RequestInv(req[o]) /\ TimelyInv(req[o])
    BY <1>5, <1>10 DEF Moved, IInv
  <1>11. At(r, "commit")
    BY DEF Committed
  <1>12. HistoryInv'
    <2>1. ASSUME NEW d \in Cases
          PROVE  /\ \A x \in moves'[d] : x[1] \in 1..clock /\ x[2] \notin Entry
                 /\ status'[d] = "none" \/ Entered(d, status[d])'
                 /\ status'[d] \in Entry \cup {"none"} => began'[d] = 0
      <3>1. CASE d = c
        <4>1. to # "none"
          BY <1>1 DEF Statuses, IncidentStatuses, MissionStatuses
        <4>2. <<at, to>> \in moves'[c] /\ <<at, to>>[2] = to
          BY <1>1
        <4>3. \A x \in moves[c] : x[1] \in 1..clock /\ x[2] \notin Entry
          BY <1>1, <1>5 DEF HistoryInv
        <4>4. \A x \in moves'[c] : x[1] \in 1..clock /\ x[2] \notin Entry
          BY <1>1, <4>3
        <4> QED
          BY <1>1, <1>5, <3>1, <4>1, <4>2, <4>4 DEF Entered
      <3>2. CASE d # c
        BY <1>2, <1>5, <3>2 DEF HistoryInv, Entered
      <3> QED
        BY <3>1, <3>2
    <2>2. ASSUME NEW i \in Incidents
          PROVE  /\ began'[i] # 0 => <<began'[i], "RESOLVED">> \in moves'[i]
                 /\ status'[i] \notin MissionStatuses
      <3>1. CASE i = c
        BY <1>1, <1>3, <1>5, <1>7, <3>1 DEF HistoryInv, IncidentStatuses, MissionStatuses
      <3>2. CASE i # c
        BY <1>2, <1>5, <3>2 DEF HistoryInv, Cases
      <3> QED
        BY <3>1, <3>2
    <2>3. ASSUME NEW m \in Missions PROVE status'[m] \notin IncidentStatuses
      <3>1. CASE m = c
        BY <1>1, <1>7, <3>1 DEF IncidentStatuses
      <3>2. CASE m # c
        BY <1>2, <1>5, <3>2 DEF HistoryInv, Cases
      <3> QED
        BY <3>1, <3>2
    <2> QED
      BY <1>5, <2>1, <2>2, <2>3 DEF HistoryInv
  <1>13. OneTime'
    BY <1>5, <1>9 DEF OneTime
  <1>14. Straight(c)' => Straight(c)
    BY <1>1 DEF Straight
  <1>15. ASSUME NEW o \in Requests PROVE TimelyInv(req[o])'
    <2>1. CASE o = r
      BY <2>1 DEF TimelyInv, Moved, Moving
    <2>2. CASE o # r
      <3>1. PICK q \in Request : q = req[o] /\ req'[o] = q /\ RequestInv(q) /\ TimelyInv(q)
        BY <1>5, <1>10, <2>2 DEF TypeOK
      <3>2. q.pc = "commit" => q.at # at
        BY <1>5, <1>11, <2>2, <3>1 DEF OneTime, At
      <3>3. q.pc = "commit" => \A d \in Cases : \A x \in moves'[d] : x[1] # q.at
        BY <1>1, <1>2, <3>1, <3>2 DEF TimelyInv
      <3>4. ASSUME q.pc = "commit", Straight(q.case)', status'[q.case] = q.seen, NEW x \in moves'[q.case]
            PROVE  x[1] < q.at
        <4>1. q.case \in Cases
          BY <3>1, <3>4 DEF RequestInv
        <4>2. CASE q.case = c
          <5>1. q.seen = to /\ Entered(c, to)
            BY <1>1, <3>1, <3>4, <4>2 DEF RequestInv, Moving
          <5>2. PICK y \in moves[c] : y[2] = to
            BY <1>1, <5>1 DEF Entered
          <5>3. y \in moves'[c] /\ <<at, to>> \in moves'[c] /\ y[1] # at
            BY <1>1, <1>6
          <5>4. y = <<at, to>>
            BY <3>4, <4>2, <5>2, <5>3 DEF Straight
          <5> QED
            BY <5>3, <5>4
        <4>3. CASE q.case # c
          BY <1>2, <3>1, <3>4, <4>1, <4>3 DEF TimelyInv, Straight
        <4> QED
          BY <4>2, <4>3
      <3>5. ASSUME q.pc \in Moving, q.case \in Missions, q.seen = "ACTIVE"
            PROVE  began'[q.case] # 0 /\ (q.pc = "commit" => began'[q.case] < q.at)
        <4>1. began[q.case] # 0 /\ (q.pc = "commit" => began[q.case] < q.at)
          BY <3>1, <3>5 DEF TimelyInv
        <4>2. began'[q.case] = began[q.case]
          BY <1>2, <1>4, <3>5, <4>1 DEF Cases
        <4> QED
          BY <4>1, <4>2
      <3>6. TimelyInv(q)'
        BY <3>3, <3>4, <3>5 DEF TimelyInv, Moving
      <3> QED
        BY <3>1, <3>6 DEF TimelyInv
    <2> QED
      BY <2>1, <2>2
  <1>16. StampsTellHistory'
    <2>1. ASSUME NEW d \in Cases
          PROVE  /\ ended'[d] # 0 <=> status'[d] \in Terminal
                 /\ ended'[d] # 0 /\ (d \in Missions \/ Straight(d)') => began'[d] < ended'[d]
      <3>1. CASE d # c
        BY <1>2, <1>5, <3>1 DEF StampsTellHistory, Straight, Terminal
      <3>2. CASE d = c /\ c \in Incidents
        <4>1. ended[c] = 0 /\ (to \in Terminal <=> to = "CLOSED")
          BY <1>1, <1>5, <1>7, <3>2 DEF StampsTellHistory, Terminal, IncidentStatuses
        <4>2. ASSUME Straight(c) PROVE began[c] < at
          <5>1. CASE began[c] = 0
            BY <1>1, <5>1
          <5>2. CASE began[c] # 0
            BY <1>5, <1>6, <3>2, <4>2, <5>2 DEF HistoryInv
          <5> QED
            BY <5>1, <5>2
        <4> QED
          BY <1>1, <1>3, <1>14, <3>2, <4>1, <4>2
      <3>3. CASE d = c /\ c \in Missions
        <4>1. ended[c] = 0 /\ (to \in Terminal <=> to \in {"COMPLETED", "ABORTED"})
          BY <1>1, <1>5, <1>7, <3>3 DEF StampsTellHistory, Terminal
        <4>2. status[c] = "PLANNED" => began[c] = 0
          BY <1>1, <1>5 DEF HistoryInv, Entry
        <4>3. began[c] < at
          BY <1>1, <1>6, <1>7, <3>3, <4>2
        <4> QED
          BY <1>1, <1>4, <3>3, <4>1, <4>3
      <3> QED
        BY <1>1, <3>1, <3>2, <3>3 DEF Cases
    <2>2. ASSUME NEW i \in Incidents, status'[i] = "RESOLVED", Straight(i)', NEW x \in moves'[i]
          PROVE  x[1] <= began'[i]
      <3>1. CASE i # c
        BY <1>2, <1>5, <2>2, <3>1 DEF StampsTellHistory, Straight, Cases
      <3>2. CASE i = c
        <4>1. began'[c] = at /\ Straight(c)
          BY <1>1, <1>3, <1>14, <2>2, <3>2
        <4>2. x = <<at, to>> \/ (x[1] < at /\ x[1] \in Nat)
          BY <1>1, <1>6, <1>8, <2>2, <3>2, <4>1
        <4> QED
          BY <1>1, <3>2, <4>1, <4>2
      <3> QED
        BY <3>1, <3>2
    <2>3. ASSUME NEW m \in Missions
          PROVE  /\ status'[m] \in {"ACTIVE", "COMPLETED"} => began'[m] # 0
                 /\ began'[m] # 0 => <<began'[m], "ACTIVE">> \in moves'[m]
      <3>1. CASE m # c
        BY <1>2, <1>5, <3>1 DEF StampsTellHistory, Cases
      <3>2. CASE m = c
        <4>1. began[c] # 0 => <<began[c], "ACTIVE">> \in moves[c]
          BY <1>5, <3>2 DEF StampsTellHistory
        <4> QED
          BY <1>1, <1>4, <1>6, <1>7, <3>2, <4>1
      <3> QED
        BY <3>1, <3>2
    <2> QED
      BY <2>1, <2>2, <2>3 DEF StampsTellHistory, Terminal
  <1> QED
    BY <1>12, <1>13, <1>15, <1>16 DEF TimesInv

\* A status change that succeeds.
LEMMA CommittedStep ==
  ASSUME IInv, NEW r \in Requests, Committed(r) PROVE IInv'
  <1> DEFINE n == [req[r] EXCEPT !.pc = "updated"]
  <1>1. /\ TypeOK /\ HistoryInv /\ PointerAgrees /\ ToldInv /\ MissionInv
        /\ req[r].pc = "commit" /\ Exists(req[r].case)
    BY Parts DEF Committed, At
  <1>2. UNCHANGED <<desk, fields, links, plan, events, clock, dropped, faults>>
    BY DEF Committed
  <1>3. /\ Moved(r, n) /\ n.pc = "updated" /\ n.case = req[r].case /\ n.seen = req[r].seen
        /\ n.at = req[r].at /\ n.to = req[r].to
    BY <1>1, Relabelled DEF Committed
  <1> HIDE DEF n
  <1>4. /\ req[r].case \in Cases /\ req[r].to \in Statuses /\ status[req[r].case] \in Statuses
        /\ req[r].seen = status[req[r].case]
        /\ status' \in [Cases -> Statuses \cup {"none"}] /\ status'[req[r].case] = req[r].to
        /\ moves' \in [Cases -> SUBSET (Nat \X Statuses)]
        /\ moves'[req[r].case] = moves[req[r].case] \cup {<<req[r].at, req[r].to>>}
        /\ began' \in [Cases -> Nat] /\ ended' \in [Cases -> Nat]
        /\ \A d \in Cases \ {req[r].case} : status'[d] = status[d] /\ moves'[d] = moves[d]
    BY CommitFacts DEF Committed, Expected
  <1>5. "none" \notin Statuses
    BY DEF Statuses, IncidentStatuses, MissionStatuses
  <1>6. \A d \in Cases : moves[d] \subseteq moves'[d] /\ (Exists(d)' <=> Exists(d))
    BY <1>1, <1>4, <1>5 DEF Exists
  <1>7. TypeOK'
    BY <1>1, <1>2, <1>3, <1>4 DEF TypeOK, Moved, links, plan, events
  <1>8. Grows
    BY <1>1, <1>2, <1>6, CaseAssumption DEF TypeOK, Grows, links, plan
  <1>9. RequestInv(req[r])'
    <2>1. req'[r] = n /\ status'[n.case] # "none"
      BY <1>3, <1>4, <1>5 DEF Moved
    <2> QED
      BY <1>3, <1>4, <2>1 DEF RequestInv, Moving, Exists
  <1>10. TimesInv'
    BY <1>3, CommitTimes
  <1>11. PointerAgrees'
    BY <1>1, <1>2, <1>3, PointerKept
  <1>12. ToldInv'
    <2> SUFFICES ASSUME NEW c \in Cases, NEW x \in moves'[c], x \notin announced'[c]
                 PROVE  \E w \in Witnesses' : w.pc = "updated" /\ w.case = c /\ <<w.at, w.to>> = x
      BY DEF ToldInv
    <2>1. CASE x \in moves[c]
      <3>1. PICK w \in Witnesses : w.pc = "updated" /\ w.case = c /\ <<w.at, w.to>> = x
        BY <1>1, <1>2, <2>1 DEF ToldInv, events
      <3>2. w \in Witnesses'
        BY <1>1, <1>2, <1>3, <3>1, WitnessKept
      <3> QED
        BY <3>1, <3>2
    <2>2. CASE x \notin moves[c]
      <3>1. c = req[r].case /\ x = <<req[r].at, req[r].to>>
        BY <1>4, <2>2
      <3>2. n \in Witnesses'
        BY <1>3 DEF Moved, Witnesses
      <3> QED
        BY <1>3, <3>1, <3>2
    <2> QED
      BY <2>1, <2>2
  <1>13. MissionInv'
    BY <1>1, <1>2, <1>3, <1>6, <1>8, MissionKept DEF Planning, plan, events, Cases
  <1> QED
    BY <1>3, <1>7, <1>8, <1>9, <1>10, <1>11, <1>12, <1>13, AnyStep

\* A status change that succeeds or finds another status than it read.
LEMMA CommitStep ==
  ASSUME IInv, NEW r \in Requests, Commit(r) PROVE IInv'
  <1>1. CASE Committed(r)
    BY <1>1, CommittedStep
  <1>2. CASE At(r, "commit") /\ Return(r) /\ Alone
    <2>1. TypeOK /\ HistoryInv /\ PointerAgrees /\ ToldInv /\ MissionInv /\ req[r].pc = "commit"
      BY <1>2, Parts DEF At
    <2>2. Moved(r, Idle) /\ Idle.pc = "idle" /\ req'[r] = Idle
      BY <1>2, <2>1, Returned DEF Moved
    <2>3. TypeOK' /\ Grows
      BY <1>2, <2>1, <2>2, AloneGrows, AloneType
    <2>4. RequestInv(req[r])'
      BY <2>2 DEF RequestInv, Moving, Idle
    <2>5. PointerAgrees'
      BY <1>2, <2>1, <2>2, PointerKept DEF Alone
    <2>6. ToldInv'
      BY <1>2, <2>1, <2>2, ToldKept DEF Alone, lifecycle, events
    <2>7. MissionInv'
      BY <1>2, <2>1, <2>2, <2>3, MissionKept DEF Alone, Planning, plan, events, lifecycle, Exists
    <2> QED
      BY <1>2, <2>2, <2>3, <2>4, <2>5, <2>6, <2>7, QuietStep DEF Alone, Moving
  <1> QED
    BY <1>1, <1>2 DEF Commit, Committed, Alone

-----------------------------------------------------------------------------
(* The theorems                                                            *)

\* Nothing has been opened, planned or read.
LEMMA InvInit == Init => IInv
  <1> SUFFICES ASSUME Init PROVE IInv
    OBVIOUS
  <1>1. \A r \in Requests : req[r] = Idle /\ req[r].pc = "idle" /\ req[r].at = 0
    BY DEF Init, Idle
  <1>2. TypeOK
    BY IdleType, CaseAssumption DEF Init, TypeOK, Blank, Idle, Statuses
  <1>3. \A r \in Requests : RequestInv(req[r])
    BY <1>1 DEF RequestInv, Moving
  <1>4. TimesInv
    <2>1. HistoryInv
      BY CaseAssumption DEF Init, HistoryInv, Cases, IncidentStatuses, MissionStatuses
    <2>2. OneTime
      BY <1>1 DEF OneTime, At
    <2>3. \A r \in Requests : TimelyInv(req[r])
      BY <1>1 DEF TimelyInv, Moving
    <2>4. StampsTellHistory
      BY DEF Init, StampsTellHistory, Cases
    <2> QED
      BY <2>1, <2>2, <2>3, <2>4 DEF TimesInv
  <1>5. PointerAgrees
    BY DEF Init, PointerAgrees
  <1>6. ToldInv /\ MissionInv
    BY DEF Init, ToldInv, MissionInv, MissionWhole, Exists, Cases
  <1> QED
    BY <1>2, <1>3, <1>4, <1>5, <1>6 DEF IInv

\* Every step of every handler preserves the invariant.
LEMMA InvStep == IInv /\ [Next]_vars => IInv'
  <1> SUFFICES ASSUME IInv, [Next]_vars PROVE IInv'
    OBVIOUS
  <1>1. ASSUME NEW r \in Requests, NEW i \in Incidents, IncidentRequest(r, i) PROVE IInv'
    <2>1. ASSUME NEW items \in SUBSET (Alerts \cup Others), OpenIncident(r, i, items) PROVE IInv'
      BY <2>1, OpenIncidentStep
    <2>2. ASSUME NEW to \in IncidentStatuses, MoveIncident(r, i, to) PROVE IInv'
      BY <2>2, MoveIncidentStep
    <2>3. ASSUME NEW names \in SUBSET Fields, NEW v \in Values, EditIncident(r, i, names, v)
          PROVE  IInv'
      BY <2>3, EditIncidentStep
    <2>4. ASSUME NEW x \in Alerts \cup Others, Attach(r, i, x) PROVE IInv'
      BY <2>4, AttachStep
    <2> QED
      BY <1>1, <2>1, <2>2, <2>3, <2>4 DEF IncidentRequest
  <1>2. ASSUME NEW r \in Requests, NEW m \in Missions, MissionRequest(r, m) PROVE IInv'
    <2>1. ASSUME NEW team \in SUBSET Assets, NEW work \in SUBSET Tasks,
                 PlanMission(r, m, team, work)
          PROVE  IInv'
      BY <2>1, PlanMissionStep
    <2>2. ASSUME NEW to \in MissionStatuses, MoveMission(r, m, to) PROVE IInv'
      BY <2>2, MoveMissionStep
    <2>3. ASSUME NEW a \in Assets, AssignAsset(r, m, a) PROVE IInv'
      BY <2>3, AssignAssetStep
    <2>4. ASSUME NEW t \in Tasks, AddTask(r, m, t) PROVE IInv'
      BY <2>4, AddTaskStep
    <2>5. ASSUME NEW t \in Tasks, NEW to \in TaskStatuses, UpdateTaskStatus(r, m, t, to) PROVE IInv'
      BY <2>5, UpdateTaskStatusStep
    <2> QED
      BY <1>2, <2>1, <2>2, <2>3, <2>4, <2>5 DEF MissionRequest
  <1>3. ASSUME NEW r \in Requests, Step(r) PROVE IInv'
    BY <1>3, StartStep, CommitStep, UpdateIncidentStep, AddRelationStep, SetAlertIncidentStep,
       PlanAssetStep, PlanTaskStep, AssignAssetToMissionStep, CreateMissionTaskStep,
       UpdateMissionTaskStatusStep, PublishCreatedStep, PublishUpdatedStep DEF Step
  <1>4. ASSUME NEW r \in Requests, Abort(r) PROVE IInv'
    BY <1>4, AbortStep
  <1>5. CASE UNCHANGED vars
    <2>1. UNCHANGED <<desk, lifecycle, fields, links, plan, events, req, clock, dropped, faults>>
      BY <1>5 DEF vars
    <2>2. TypeOK' /\ (\A r \in Requests : RequestInv(req[r])')
      BY <2>1 DEF IInv, TypeOK, RequestInv, Exists, Entered, lifecycle, links, plan, events
    <2>3. TimesInv'
      BY <2>1 DEF IInv, TimesInv, HistoryInv, Entered, OneTime, At, TimelyInv, StampsTellHistory,
                  Straight, lifecycle
    <2>4. PointerAgrees' /\ ToldInv' /\ MissionInv'
      BY <2>1 DEF IInv, PointerAgrees, ToldInv, Witnesses, MissionInv, MissionWhole, Exists,
                  lifecycle, links, plan, events
    <2> QED
      BY <2>2, <2>3, <2>4 DEF IInv
  <1> QED
    BY <1>1, <1>2, <1>3, <1>4, <1>5 DEF Next

\* Whatever the operators do at once, and whatever request dies, the invariant holds:
\* what a handler knows at each of its calls, and what the records and events tell.
THEOREM Invariance == Spec => []IInv
  BY InvInit, InvStep, PTL DEF Spec

\* Every record keeps its type.
THEOREM TypeCorrect == Spec => []TypeOK
  <1>1. IInv => TypeOK
    BY DEF IInv
  <1> QED
    BY <1>1, Invariance, PTL

\* incidents.sql:20-29, missions.sql UpdateMissionStatus: the stamps that the status
\* changes set tell the history of the case.
THEOREM StampsCorrect == Spec => []StampsTellHistory
  <1>1. IInv => StampsTellHistory
    BY DEF IInv, TimesInv
  <1> QED
    BY <1>1, Invariance, PTL

\* An alert points at an incident that lists it, although attaching it takes two
\* statements.
THEOREM PointerCorrect == Spec => []PointerAgrees
  <1>1. IInv => PointerAgrees
    BY DEF IInv
  <1> QED
    BY <1>1, Invariance, PTL

\* The .updated events tell every status change, and a mission is announced whole.
THEOREM EventsCorrect == Spec => []EventsAreTrue
  <1>1. IInv => EventsAreTrue
    BY DEF IInv, ToldInv, Witnesses, MissionInv, EventsAreTrue, MovesAnnounced
  <1> QED
    BY <1>1, Invariance, PTL

\* The calls of a handler that change no status.
LEMMA StatusKept ==
  ASSUME Next
  PROVE  \/ UNCHANGED status
         \/ \E r \in Requests : Committed(r)
         \/ \E r \in Requests, i \in Incidents, items \in SUBSET (Alerts \cup Others) :
              OpenIncident(r, i, items)
         \/ \E r \in Requests, m \in Missions, team \in SUBSET Assets, work \in SUBSET Tasks :
              PlanMission(r, m, team, work)
  <1>1. ASSUME NEW r \in Requests, Commit(r) PROVE UNCHANGED status \/ Committed(r)
    BY <1>1 DEF Commit, Committed, lifecycle
  <1>2. ASSUME NEW r \in Requests, Step(r) PROVE UNCHANGED status \/ Committed(r)
    BY <1>1, <1>2 DEF Step, Start, UpdateIncident, AddRelation, SetAlertIncident, PlanAsset, PlanTask,
       AssignAssetToMission, CreateMissionTask, UpdateMissionTaskStatus, PublishCreated,
       PublishUpdated, lifecycle
  <1>3. ASSUME NEW r \in Requests, NEW i \in Incidents, IncidentRequest(r, i)
        PROVE  \/ UNCHANGED status
               \/ \E items \in SUBSET (Alerts \cup Others) : OpenIncident(r, i, items)
    BY <1>3 DEF IncidentRequest, MoveIncident, EditIncident, Attach, Read, lifecycle
  <1>4. ASSUME NEW r \in Requests, NEW m \in Missions, MissionRequest(r, m)
        PROVE  \/ UNCHANGED status
               \/ \E team \in SUBSET Assets, work \in SUBSET Tasks : PlanMission(r, m, team, work)
    BY <1>4 DEF MissionRequest, MoveMission, AssignAsset, AddTask, UpdateTaskStatus, Read, lifecycle
  <1>5. ASSUME NEW r \in Requests, Abort(r) PROVE UNCHANGED status
    BY <1>5 DEF Abort, lifecycle
  <1> QED
    BY <1>2, <1>3, <1>4, <1>5 DEF Next

\* A case moves only along its lifecycle, whatever two operators decide at once.
THEOREM Lifecycle == Spec => LifecycleRespected
  <1> DEFINE A == \A c \in Cases : status'[c] # status[c] =>
                    \/ status[c] = "none" /\ status'[c] \in {"OPEN", "PLANNED"}
                    \/ CanTransition(c, status[c], status'[c])
  <1>1. IInv /\ [Next]_vars => [A]_vars
    <2> SUFFICES ASSUME IInv, Next, NEW c \in Cases, status'[c] # status[c]
                 PROVE  \/ status[c] = "none" /\ status'[c] \in {"OPEN", "PLANNED"}
                        \/ CanTransition(c, status[c], status'[c])
      OBVIOUS
    <2>1. TypeOK
      BY DEF IInv
    <2>2. ASSUME NEW r \in Requests, Committed(r)
          PROVE  c = req[r].case /\ CanTransition(c, status[c], status'[c])
      BY <2>2, CommitFacts
    <2>3. ASSUME NEW r \in Requests, NEW i \in Incidents, NEW items \in SUBSET (Alerts \cup Others),
                 OpenIncident(r, i, items)
          PROVE  status[c] = "none" /\ status'[c] = "OPEN"
      BY <2>1, <2>3 DEF OpenIncident, Set, Exists, TypeOK
    <2>4. ASSUME NEW r \in Requests, NEW m \in Missions, NEW team \in SUBSET Assets,
                 NEW work \in SUBSET Tasks, PlanMission(r, m, team, work)
          PROVE  status[c] = "none" /\ status'[c] = "PLANNED"
      BY <2>1, <2>4 DEF PlanMission, Set, Exists, TypeOK
    <2> QED
      BY <2>2, <2>3, <2>4, StatusKept
  <1> QED
    BY <1>1, Invariance, PTL DEF Spec, LifecycleRespected

\* Only the write of an edit changes the metadata of an incident.
LEMMA FieldsKept ==
  ASSUME Next PROVE UNCHANGED fields \/ \E r \in Requests : UpdateIncident(r)
  <1>1. ASSUME NEW r \in Requests, Step(r) PROVE UNCHANGED fields \/ UpdateIncident(r)
    BY <1>1 DEF Step, Start, Commit, AddRelation, SetAlertIncident, PlanAsset, PlanTask,
       AssignAssetToMission, CreateMissionTask, UpdateMissionTaskStatus, PublishCreated,
       PublishUpdated
  <1>2. ASSUME NEW r \in Requests, NEW i \in Incidents, IncidentRequest(r, i) PROVE UNCHANGED fields
    BY <1>2 DEF IncidentRequest, OpenIncident, MoveIncident, EditIncident, Attach, Read
  <1>3. ASSUME NEW r \in Requests, NEW m \in Missions, MissionRequest(r, m) PROVE UNCHANGED fields
    BY <1>3 DEF MissionRequest, PlanMission, MoveMission, AssignAsset, AddTask, UpdateTaskStatus, Read
  <1>4. ASSUME NEW r \in Requests, Abort(r) PROVE UNCHANGED fields
    BY <1>4 DEF Abort
  <1> QED
    BY <1>1, <1>2, <1>3, <1>4 DEF Next

\* An edit loses another's only when that one came between its read and its write.
THEOREM Edits == Spec => EditsOverlap
  <1> DEFINE A == \A i \in Incidents, f \in Fields : fields'[i][f] # fields[i][f] =>
                    \E r \in Requests :
                      /\ req[r].case = i
                      /\ f \in req[r].names \/ fields[i][f] # req[r].read[f]
  <1>1. IInv /\ [Next]_vars => [A]_vars
    <2> SUFFICES ASSUME IInv, Next, NEW i \in Incidents, NEW f \in Fields,
                        fields'[i][f] # fields[i][f]
                 PROVE  \E r \in Requests :
                          /\ req[r].case = i
                          /\ f \in req[r].names \/ fields[i][f] # req[r].read[f]
      OBVIOUS
    <2>1. PICK r \in Requests : UpdateIncident(r)
      BY FieldsKept
    <2>2. /\ TypeOK /\ req[r].case \in Incidents /\ fields' = [fields EXCEPT ![req[r].case] = req[r].fields]
          /\ \A g \in Fields \ req[r].names : req[r].fields[g] = req[r].read[g]
      BY <2>1, Parts DEF UpdateIncident, At, RequestInv, Set
    <2>3. req[r].case = i /\ fields'[i] = req[r].fields
      BY <2>2 DEF TypeOK
    <2> QED
      BY <2>2, <2>3
  <1> QED
    BY <1>1, Invariance, PTL DEF Spec, EditsOverlap
=============================================================================
