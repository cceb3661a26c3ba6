------------------------------ MODULE CaseWork ------------------------------
(***************************************************************************)
(* Incidents and missions: the operators' own records.                     *)
(*                                                                         *)
(* Every handler reads the record, decides by what it read, and writes in  *)
(* one or more later statements, while the handlers of other operators do  *)
(* the same.  Only the lifecycle is guarded by a compare-and-set; an edit  *)
(* writes back what it read, a relation and the pointer of an alert are    *)
(* two statements, and planning a mission is one statement for each asset  *)
(* and task.  Titles and texts are values, priorities and targets are left *)
(* out, and input that fails validation never reaches these steps.         *)
(***************************************************************************)
EXTENDS Integers, FiniteSets

CONSTANTS
  Incidents, Missions,
  Alerts,
  Others,           \* tracks, assets, observations and assessments
  Assets, Tasks,
  Fields, Values,   \* the metadata of an incident; its first value is Initial
  Initial,
  Requests,         \* handlers that may run at once
  None,
  Desks,            \* the kinds of handlers, and the cases, of one behaviour
  MaxClock,         \* bounds of the model: lifecycle statements started,
  MaxFaults         \* and requests that die

Cases == Incidents \cup Missions

IncidentStatuses == {"OPEN", "ACKNOWLEDGED", "INVESTIGATING", "RESPONDING", "RESOLVED", "CLOSED"}
MissionStatuses  == {"PLANNED", "ACTIVE", "COMPLETED", "ABORTED"}
TaskStatuses     == {"PENDING", "ACTIVE", "COMPLETED", "FAILED", "CANCELLED"}
Statuses == IncidentStatuses \cup MissionStatuses
Kinds    == {"open", "moveIncident", "edit", "attach", "plan", "moveMission", "assign", "task"}

ASSUME CaseAssumption ==
  /\ Incidents \cap Missions = {}
  /\ None \notin Cases \cup Alerts \cup Others \cup Assets \cup Tasks
  /\ Alerts \cap Others = {}
  /\ Initial \in Values
  /\ Desks \subseteq [kinds : SUBSET Kinds, cases : SUBSET Cases]
  /\ MaxClock \in Nat /\ MaxFaults \in Nat

VARIABLES
  desk,
  status,      \* incidents.status and missions.status
  began,       \* resolved_at of an incident, started_at of a mission; 0 is NULL
  ended,       \* closed_at, ended_at
  fields,      \* the metadata of an incident
  relations,   \* incident_alerts and the other relation tables
  pointer,     \* alerts.incident_id
  crew,        \* mission_assets
  tasks,       \* mission_tasks
  wanted,      \* the assets and tasks a mission was planned with
  moves,       \* the lifecycle changes of a case, and the time of each
  created,     \* the cases whose .created event was published
  announced,   \* the status, and the time of the change, each .updated event told
  req, clock,
  dropped,     \* the requests that died
  faults

lifecycle == <<status, began, ended, moves>>
links     == <<relations, pointer>>
plan      == <<crew, tasks, wanted>>
events    == <<created, announced>>
vars == <<desk, lifecycle, fields, links, plan, events, req, clock, dropped, faults>>

Request ==
  [pc     : {"idle", "start", "commit", "write", "relate", "point", "assets", "tasks",
             "assign", "newTask", "task", "created", "updated"},
   case   : Cases \cup {None},
   seen   : Statuses \cup {"none"},       \* current.Status
   fields : [Fields -> Values],           \* current, overlaid by the edit
   names  : SUBSET Fields,                \* what the edit names
   read   : [Fields -> Values],
   to     : Statuses \cup TaskStatuses \cup {"none"},
   item   : Alerts \cup Others \cup Assets \cup Tasks \cup {None},
   at     : Nat]                          \* now() of the statement

Blank == [f \in Fields |-> Initial]

Idle == [pc |-> "idle", case |-> None, seen |-> "none", fields |-> Blank, names |-> {},
         read |-> Blank, to |-> "none", item |-> None, at |-> 0]

At(r, label)   == req[r].pc = label
Goto(r, label) == req' = [req EXCEPT ![r].pc = label]
Return(r)      == req' = [req EXCEPT ![r] = Idle]

Exists(c) == status[c] # "none"

\* Get: the handler goes on with what it read.
Read(r, kind, c) ==
  /\ At(r, "idle") /\ kind \in desk.kinds /\ Exists(c)
  /\ UNCHANGED <<desk, lifecycle, fields, links, plan, events, clock, dropped, faults>>

Seen(c, label) == [Idle EXCEPT !.pc = label, !.case = c, !.seen = status[c]]

\* ids.New: nobody else has the id.
Fresh(t) == \A m \in Missions : tasks[m][t] = "none" /\ t \notin wanted[m].tasks

-----------------------------------------------------------------------------
(* The lifecycles                                                          *)

IncidentMoves(from) ==
  CASE from = "OPEN"          -> {"ACKNOWLEDGED", "INVESTIGATING", "CLOSED"}
    [] from = "ACKNOWLEDGED"  -> {"INVESTIGATING", "RESPONDING", "CLOSED"}
    [] from = "INVESTIGATING" -> {"RESPONDING", "RESOLVED", "CLOSED"}
    [] from = "RESPONDING"    -> {"INVESTIGATING", "RESOLVED", "CLOSED"}
    [] from = "RESOLVED"      -> {"INVESTIGATING", "CLOSED"}
    [] OTHER                  -> {}

MissionMoves(from) ==
  CASE from = "PLANNED" -> {"ACTIVE", "ABORTED"}
    [] from = "ACTIVE"  -> {"COMPLETED", "ABORTED"}
    [] OTHER            -> {}

CanTransition(c, from, to) ==
  to \in IF c \in Incidents THEN IncidentMoves(from) ELSE MissionMoves(from)

\* UpdateStatus: the transition is judged by the status that was read.
MoveIncident(r, i, to) ==
  /\ Read(r, "moveIncident", i)
  /\ CanTransition(i, status[i], to)
  /\ req' = [req EXCEPT ![r] = [Seen(i, "start") EXCEPT !.to = to]]

MoveMission(r, m, to) ==
  /\ Read(r, "moveMission", m)
  /\ CanTransition(m, status[m], to)
  /\ req' = [req EXCEPT ![r] = [Seen(m, "start") EXCEPT !.to = to]]

\* now() is the start of the statement, which may have to wait for the row.
Start(r) ==
  /\ At(r, "start")
  /\ clock < MaxClock
  /\ clock' = clock + 1
  /\ req' = [req EXCEPT ![r].pc = "commit", ![r].at = clock + 1]
  /\ UNCHANGED <<desk, lifecycle, fields, links, plan, events, dropped, faults>>

Set(f, c, v) == [f EXCEPT ![c] = v]

UpdateIncidentStatus(i, to, at) ==
  /\ began' = IF to = "RESOLVED" THEN Set(began, i, at) ELSE began
  /\ ended' = IF to = "CLOSED" THEN Set(ended, i, at) ELSE ended

StartAgain(m, to, at) ==
  /\ began' = IF to \in {"ACTIVE", "COMPLETED"} THEN Set(began, m, at) ELSE began
  /\ ended' = IF to \in {"COMPLETED", "ABORTED"} THEN Set(ended, m, at) ELSE ended

UpdateMissionStatus(m, to, at) ==
  /\ began' = IF to = "ACTIVE" /\ began[m] = 0 THEN Set(began, m, at) ELSE began
  /\ ended' = IF to \in {"COMPLETED", "ABORTED"} THEN Set(ended, m, at) ELSE ended

AnyStatus(c, expected) == Exists(c)

\* AND status = expected
Expected(c, expected) == status[c] = expected

\* The UPDATE; the loser of a race answers with a conflict.
Commit(r) ==
  LET q == req[r] IN
  /\ At(r, "commit")
  /\ \/ /\ Expected(q.case, q.seen)
        /\ status' = Set(status, q.case, q.to)
        /\ moves' = [moves EXCEPT ![q.case] = @ \cup {<<q.at, q.to>>}]
        /\ \/ q.case \in Incidents /\ UpdateIncidentStatus(q.case, q.to, q.at)
           \/ q.case \in Missions /\ UpdateMissionStatus(q.case, q.to, q.at)
        /\ Goto(r, "updated")
     \/ ~Expected(q.case, q.seen) /\ Return(r) /\ UNCHANGED lifecycle
  /\ UNCHANGED <<desk, fields, links, plan, events, clock, dropped, faults>>

-----------------------------------------------------------------------------
(* Incidents                                                               *)

\* CreateWithRelations: one transaction, and incident.created.
OpenIncident(r, i, items) ==
  /\ At(r, "idle") /\ "open" \in desk.kinds /\ i \in desk.cases /\ ~Exists(i)
  /\ status' = Set(status, i, "OPEN")
  /\ relations' = relations \cup {<<i, x>> : x \in items}
  /\ pointer' = [a \in Alerts |-> IF a \in items THEN i ELSE pointer[a]]
  /\ req' = [req EXCEPT ![r] = [Idle EXCEPT !.pc = "created", !.case = i]]
  /\ UNCHANGED <<desk, began, ended, moves, fields, plan, events, clock, dropped, faults>>

OverlayAll(names, v, read) == [f \in Fields |-> IF f \in names THEN v ELSE Initial]

\* Only what the edit names is replaced.
Overlay(names, v, read) == [f \in Fields |-> IF f \in names THEN v ELSE read[f]]

EditIncident(r, i, names, v) ==
  /\ Read(r, "edit", i)
  /\ req' = [req EXCEPT ![r] = [Seen(i, "write") EXCEPT !.names = names, !.read = fields[i],
                                  !.fields = Overlay(names, v, fields[i])]]

\* UpdateIncident writes every field, and returns the row.
UpdateIncident(r) ==
  LET q == req[r] IN
  /\ At(r, "write")
  /\ fields' = Set(fields, q.case, q.fields)
  /\ req' = [req EXCEPT ![r].pc = "updated", ![r].seen = status[q.case]]
  /\ UNCHANGED <<desk, lifecycle, links, plan, events, clock, dropped, faults>>

Attach(r, i, x) ==
  /\ Read(r, "attach", i)
  /\ req' = [req EXCEPT ![r] = [Seen(i, "relate") EXCEPT !.item = x]]

PointFirst(r) ==
  LET q == req[r] IN
  /\ At(r, "relate")
  /\ pointer' = IF q.item \in Alerts THEN Set(pointer, q.item, q.case) ELSE pointer
  /\ Goto(r, "updated")
  /\ UNCHANGED <<desk, lifecycle, fields, relations, plan, events, clock, dropped, faults>>

\* AddIncidentAlert and its like: ON CONFLICT DO NOTHING.
AddRelation(r) ==
  LET q == req[r] IN
  /\ At(r, "relate")
  /\ relations' = relations \cup {<<q.case, q.item>>}
  /\ Goto(r, IF q.item \in Alerts THEN "point" ELSE "updated")
  /\ UNCHANGED <<desk, lifecycle, fields, pointer, plan, events, clock, dropped, faults>>

SetAlertIncident(r) ==
  LET q == req[r] IN
  /\ At(r, "point")
  /\ pointer' = Set(pointer, q.item, q.case)
  /\ Goto(r, "updated")
  /\ UNCHANGED <<desk, lifecycle, fields, relations, plan, events, clock, dropped, faults>>

-----------------------------------------------------------------------------
(* Missions                                                                *)

\* CreateMission; the assets were looked up before.
PlanMission(r, m, team, work) ==
  /\ At(r, "idle") /\ "plan" \in desk.kinds /\ m \in desk.cases /\ ~Exists(m)
  /\ \A t \in work : Fresh(t)
  /\ status' = Set(status, m, "PLANNED")
  /\ wanted' = Set(wanted, m, [assets |-> team, tasks |-> work])
  /\ req' = [req EXCEPT ![r] = [Idle EXCEPT !.pc = "assets", !.case = m]]
  /\ UNCHANGED <<desk, began, ended, moves, fields, links, crew, tasks, events, clock,
                 dropped, faults>>

PlanAssetOnly(r) ==
  LET m == req[r].case IN
  /\ At(r, "assets")
  /\ \/ \E a \in wanted[m].assets \ crew[m] :
          crew' = Set(crew, m, crew[m] \cup {a}) /\ UNCHANGED req
     \/ wanted[m].assets \subseteq crew[m] /\ Goto(r, "created") /\ UNCHANGED crew
  /\ UNCHANGED <<desk, lifecycle, fields, links, tasks, wanted, events, clock, dropped, faults>>

PlanAsset(r) ==
  LET m == req[r].case IN
  /\ At(r, "assets")
  /\ \/ \E a \in wanted[m].assets \ crew[m] :
          crew' = Set(crew, m, crew[m] \cup {a}) /\ UNCHANGED req
     \/ wanted[m].assets \subseteq crew[m] /\ Goto(r, "tasks") /\ UNCHANGED crew
  /\ UNCHANGED <<desk, lifecycle, fields, links, tasks, wanted, events, clock, dropped, faults>>

CreateTask(m, t) == tasks' = [tasks EXCEPT ![m][t] = "PENDING"]

PlanTask(r) ==
  LET m    == req[r].case
      left == {t \in wanted[m].tasks : tasks[m][t] = "none"} IN
  /\ At(r, "tasks")
  /\ \/ \E t \in left : CreateTask(m, t) /\ UNCHANGED req
     \/ left = {} /\ Goto(r, "created") /\ UNCHANGED tasks
  /\ UNCHANGED <<desk, lifecycle, fields, links, crew, wanted, events, clock, dropped, faults>>

\* AssignAsset, AddTask and UpdateTaskStatus ask nothing of the mission's status.
AssignAsset(r, m, a) ==
  /\ Read(r, "assign", m)
  /\ req' = [req EXCEPT ![r] = [Seen(m, "assign") EXCEPT !.item = a]]

AssignAssetToMission(r) ==
  LET q == req[r] IN
  /\ At(r, "assign")
  /\ crew' = Set(crew, q.case, crew[q.case] \cup {q.item})
  /\ Goto(r, "updated")
  /\ UNCHANGED <<desk, lifecycle, fields, links, tasks, wanted, events, clock, dropped, faults>>

AddTask(r, m, t) ==
  /\ Read(r, "task", m)
  /\ Fresh(t)
  /\ req' = [req EXCEPT ![r] = [Seen(m, "newTask") EXCEPT !.item = t]]

CreateMissionTask(r) ==
  LET q == req[r] IN
  /\ At(r, "newTask")
  /\ Fresh(q.item)
  /\ CreateTask(q.case, q.item)
  /\ Goto(r, "updated")
  /\ UNCHANGED <<desk, lifecycle, fields, links, crew, wanted, events, clock, dropped, faults>>

UpdateTaskStatus(r, m, t, to) ==
  /\ Read(r, "task", m)
  /\ req' = [req EXCEPT ![r] = [Seen(m, "task") EXCEPT !.item = t, !.to = to]]

\* A task of another mission is not found.
UpdateMissionTaskStatus(r) ==
  LET q == req[r] IN
  /\ At(r, "task")
  /\ \/ /\ tasks[q.case][q.item] # "none"
        /\ tasks' = [tasks EXCEPT ![q.case][q.item] = q.to]
        /\ Goto(r, "updated")
     \/ tasks[q.case][q.item] = "none" /\ Return(r) /\ UNCHANGED tasks
  /\ UNCHANGED <<desk, lifecycle, fields, links, crew, wanted, events, clock, dropped, faults>>

-----------------------------------------------------------------------------
(* Events and faults                                                       *)

PublishCreated(r) ==
  /\ At(r, "created")
  /\ created' = created \cup {req[r].case}
  /\ Return(r)
  /\ UNCHANGED <<desk, lifecycle, fields, links, plan, announced, clock, dropped, faults>>

\* A lifecycle change and an edit publish the row they wrote; every other handler the
\* status it read before it wrote.
Tell(q) == IF q.at = 0 THEN q.seen ELSE q.to

PublishUpdated(r) ==
  LET q == req[r] IN
  /\ At(r, "updated")
  /\ announced' = [announced EXCEPT ![q.case] = @ \cup {<<q.at, Tell(q)>>}]
  /\ Return(r)
  /\ UNCHANGED <<desk, lifecycle, fields, links, plan, created, clock, dropped, faults>>

\* The request dies, or a statement fails, between two of its steps.
Abort(r) ==
  /\ ~At(r, "idle") /\ faults < MaxFaults
  /\ faults' = faults + 1
  /\ dropped' = dropped \cup {req[r]}
  /\ Return(r)
  /\ UNCHANGED <<desk, lifecycle, fields, links, plan, events, clock>>

-----------------------------------------------------------------------------
Init ==
  /\ desk \in Desks
  /\ status = [c \in Cases |-> "none"]
  /\ began = [c \in Cases |-> 0] /\ ended = [c \in Cases |-> 0]
  /\ fields = [i \in Incidents |-> Blank]
  /\ relations = {}
  /\ pointer = [a \in Alerts |-> None]
  /\ crew = [m \in Missions |-> {}]
  /\ tasks = [m \in Missions |-> [t \in Tasks |-> "none"]]
  /\ wanted = [m \in Missions |-> [assets |-> {}, tasks |-> {}]]
  /\ moves = [c \in Cases |-> {}]
  /\ created = {}
  /\ announced = [c \in Cases |-> {}]
  /\ req = [r \in Requests |-> Idle]
  /\ clock = 0 /\ dropped = {} /\ faults = 0

IncidentRequest(r, i) ==
  \/ \E items \in SUBSET (Alerts \cup Others) : OpenIncident(r, i, items)
  \/ \E to \in IncidentStatuses : MoveIncident(r, i, to)
  \/ \E names \in SUBSET Fields \ {{}}, v \in Values : EditIncident(r, i, names, v)
  \/ \E x \in Alerts \cup Others : Attach(r, i, x)

MissionRequest(r, m) ==
  \/ \E team \in SUBSET Assets, work \in SUBSET Tasks : PlanMission(r, m, team, work)
  \/ \E to \in MissionStatuses : MoveMission(r, m, to)
  \/ \E a \in Assets : AssignAsset(r, m, a)
  \/ \E t \in Tasks : AddTask(r, m, t)
  \/ \E t \in Tasks, to \in TaskStatuses : UpdateTaskStatus(r, m, t, to)

\* The handler's own next call.
Step(r) ==
  \/ Start(r) \/ Commit(r) \/ UpdateIncident(r) \/ AddRelation(r) \/ SetAlertIncident(r)
  \/ PlanAsset(r) \/ PlanTask(r) \/ AssignAssetToMission(r) \/ CreateMissionTask(r)
  \/ UpdateMissionTaskStatus(r) \/ PublishCreated(r) \/ PublishUpdated(r)

Next ==
  \E r \in Requests :
    \/ \E i \in Incidents : IncidentRequest(r, i)
    \/ \E m \in Missions : MissionRequest(r, m)
    \/ Step(r)
    \/ Abort(r)

Spec == Init /\ [][Next]_vars

-----------------------------------------------------------------------------
(* Properties                                                              *)

TypeOK ==
  /\ desk \in Desks
  /\ status \in [Cases -> Statuses \cup {"none"}]
  /\ began \in [Cases -> Nat] /\ ended \in [Cases -> Nat]
  /\ fields \in [Incidents -> [Fields -> Values]]
  /\ relations \subseteq Incidents \X (Alerts \cup Others)
  /\ pointer \in [Alerts -> Incidents \cup {None}]
  /\ crew \in [Missions -> SUBSET Assets]
  /\ tasks \in [Missions -> [Tasks -> TaskStatuses \cup {"none"}]]
  /\ wanted \in [Missions -> [assets : SUBSET Assets, tasks : SUBSET Tasks]]
  /\ moves \in [Cases -> SUBSET (Nat \X Statuses)]
  /\ created \subseteq Cases
  /\ announced \in [Cases -> SUBSET (Nat \X Statuses)]
  /\ req \in [Requests -> Request]
  /\ clock \in 0..MaxClock
  /\ dropped \subseteq Request
  /\ faults \in 0..MaxFaults

\* incidents/service.go:93-113, missions/service.go:99-121: whatever two operators do at
\* once, a case moves only along its lifecycle: what is closed, completed or aborted
\* stays so.
LifecycleRespected ==
  [][\A c \in Cases : status'[c] # status[c] =>
       \/ status[c] = "none" /\ status'[c] \in {"OPEN", "PLANNED"}
       \/ CanTransition(c, status[c], status'[c])]_vars

\* No status was entered twice.
Straight(c) == \A x, y \in moves[c] : x[2] = y[2] => x = y

\* The stamps of a case tell its history, although each is the time at which a
\* statement started that may have waited for another: an end is stamped exactly when
\* the case has ended, a mission under way or completed has begun, no mission ends
\* before it began and no incident is closed before it was resolved, and a resolved
\* incident shows its last resolution.  The last two fail for an incident that came
\* back to a status: a compare-and-set on the status lets a change through that was
\* decided, and stamped, before it left.
StampsTellHistory ==
  /\ \A c \in Cases :
       /\ ended[c] # 0 <=> status[c] \in {"CLOSED", "COMPLETED", "ABORTED"}
       /\ ended[c] # 0 /\ (c \in Missions \/ Straight(c)) => began[c] < ended[c]
  /\ \A i \in Incidents :
       status[i] = "RESOLVED" /\ Straight(i) => \A x \in moves[i] : x[1] <= began[i]
  /\ \A m \in Missions :
       /\ status[m] \in {"ACTIVE", "COMPLETED"} => began[m] # 0
       /\ began[m] # 0 => <<began[m], "ACTIVE">> \in moves[m]

\* Every lifecycle change is told to the clients and the audit log as it was committed,
\* or its request is about to tell it, or died.
MovesAnnounced ==
  \A c \in Cases : \A x \in moves[c] :
    \/ x \in announced[c]
    \/ \E q \in {req[r] : r \in Requests} \cup dropped : q.case = c /\ <<q.at, q.to>> = x

\* incidents/service.go:115-144: an edit replaces what it does not name only by what it
\* read, and so only if another edit came in between.
EditsOverlap ==
  [][\A i \in Incidents, f \in Fields : fields'[i][f] # fields[i][f] =>
       \E r \in Requests :
         /\ req[r].case = i
         /\ f \in req[r].names \/ fields[i][f] # req[r].read[f]]_vars

\* incidents/postgres_repository.go:236-253: an alert points at an incident only if the
\* incident lists it; an alert that incidents list points at one of them, unless a
\* request is about to set the pointer or died before it did.
PointerAgrees ==
  \A a \in Alerts :
    /\ pointer[a] # None => <<pointer[a], a>> \in relations
    /\ pointer[a] = None => \A i \in Incidents : <<i, a>> \in relations =>
         \E q \in {req[r] : r \in Requests} \cup dropped :
           q.pc = "point" /\ q.case = i /\ q.item = a

\* missions/service.go:34-92: a mission is announced only when all that it was planned
\* with is there, although others may work on it before; a mission that is not
\* announced and that no handler is planning was left behind by one that died.
MissionWhole ==
  \A m \in Missions :
    /\ m \in created =>
         /\ wanted[m].assets \subseteq crew[m]
         /\ \A t \in wanted[m].tasks : tasks[m][t] # "none"
    /\ Exists(m) /\ m \notin created =>
         \E q \in {req[r] : r \in Requests} \cup dropped :
           q.case = m /\ q.pc \in {"assets", "tasks", "created"}

\* What the clients and the audit log are told of cases is true: a change of status is
\* told as it was committed, and a mission when all of it is there.
EventsAreTrue == MovesAnnounced /\ MissionWhole
=============================================================================
