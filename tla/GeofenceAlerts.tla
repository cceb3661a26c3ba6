--------------------------- MODULE GeofenceAlerts ---------------------------
(***************************************************************************)
(* From a projected position, or from a hazard footprint, to an alert an   *)
(* operator works on.                                                      *)
(*                                                                         *)
(* The goroutine that committed a projection runs                          *)
(* geospatial.HandleTrackUpdated: it asks which active zones contain the   *)
(* position, reconciles the track's containment rows in one statement, and *)
(* then, holding no lock, publishes one by one a breach for every zone the *)
(* track entered and an exit for every zone it left.  The goroutine that   *)
(* stored an area observation runs arearule's handler: it asks which       *)
(* active zones the footprint meets and publishes an overlap for each.     *)
(* Breaches and overlaps end in the alerts service, which looks for an     *)
(* unresolved alert of the pair and inserts one when there is none.  Requests interleave at    *)
(* their database calls and may die between any two of them; operators     *)
(* acknowledge and resolve alerts and switch zones on and off meanwhile.   *)
(*                                                                         *)
(* Abstracted: geometry (a position is the set of zones that contain it),  *)
(* severity, wording, and the scope of scenario runs.  A track is projected *)
(* as MayApply of TrackPipeline allows: once by each observation, and to a  *)
(* later time.  Breaches and exits of one request are published in any      *)
(* order, which covers the order of the zones' identifiers.                *)
(***************************************************************************)
EXTENDS Integers, Sequences

CONSTANTS
  Zones,        \* geofences
  Tracks,
  Updates,      \* positions observed of tracks, as track.updated carries them
  TrackOf,      \* [Updates -> Tracks]
  ObservedAt,   \* [Updates -> Nat \ {0}]
  Containing,   \* [Updates -> SUBSET Zones]: the polygons around the position
  Positionless, \* the updates that carry no position
  Areas,        \* area observations
  Overlapping,  \* [Areas -> SUBSET Zones]: the polygons the footprint meets
  Nothing,      \* the item of an idle request
  Requests,
  MaxFaults,    \* bound: crashes and database errors in one behaviour
  MaxReplays,   \* bound: repeated submissions of area observations
  MaxResolves,  \* bound: alerts the operators resolve
  MaxToggles    \* bound: times a zone is switched on or off

ASSUME DataAssumption ==
  /\ Zones # {}
  /\ TrackOf \in [Updates -> Tracks]
  /\ ObservedAt \in [Updates -> Nat \ {0}]
  /\ Containing \in [Updates -> SUBSET Zones]
  /\ Positionless \subseteq Updates
  /\ Overlapping \in [Areas -> SUBSET Zones]
  /\ Tracks \cap Areas = {} /\ Updates \cap Areas = {}
  /\ Nothing \notin Updates \cup Areas

ASSUME BoundAssumption ==
  MaxFaults \in Nat /\ MaxReplays \in Nat /\ MaxResolves \in Nat /\ MaxToggles \in Nat

VARIABLES
  active,     \* the zones in force
  projected,  \* the updates whose projection was committed
  lastSeen,   \* tracks.last_seen_at
  inside,     \* geofence_states: absent, in or out, by track and zone
  stored,     \* the area observations that are recorded
  alerts,     \* the alert rows, oldest first
  entries,    \* history: the entries committed and overlaps found, by subject and zone
  exits,      \* history: the exits committed, by track and zone
  published,  \* history: the breaches, overlaps and exits published
  req,        \* the state of each request goroutine
  spent       \* how much of each bound is used

vars == <<active, projected, lastSeen, inside, stored, alerts, entries, exits, published, req, spent>>

Subjects == Tracks \cup Areas

PCs == {"idle", "contain", "reconcile", "locked", "intersect", "publish", "create"}

Rows == {"absent", "in", "out"}

Request ==
  [pc       : PCs,
   item     : Updates \cup Areas \cup {Nothing},
   zones    : SUBSET Zones,        \* the zones that contain the position
   eligible : BOOLEAN,             \* the statement's snapshot: the item is not older than its track
   seen     : [Zones -> Rows],     \* the statement's snapshot of geofence_states
   pending  : SUBSET Zones,        \* breaches or overlaps still to be published or handled
   leaving  : SUBSET Zones,        \* exits still to be published
   zone     : Zones,               \* the breach or overlap being handled
   cause    : [Zones -> Nat]]      \* history: which entry, overlap or exit each of them is

AnyZone == CHOOSE z \in Zones : TRUE

Idle == [pc |-> "idle", item |-> Nothing, zones |-> {}, eligible |-> FALSE,
         seen |-> [z \in Zones |-> "absent"], pending |-> {}, leaving |-> {},
         zone |-> AnyZone, cause |-> [z \in Zones |-> 0]]

Budget == [faults : 0..MaxFaults, replays : 0..MaxReplays,
           resolves : 0..MaxResolves, toggles : 0..MaxToggles]

-----------------------------------------------------------------------------
At(r, label) == req[r].pc = label

\* What an alert is about: the track that moved, or the area observation.
Subject(item) == IF item \in Updates THEN TrackOf[item] ELSE item

Unresolved(i) == alerts[i].state # "RESOLVED"

Standing(z, s) ==
  \E i \in 1..Len(alerts) : alerts[i].zone = z /\ alerts[i].subject = s /\ Unresolved(i)

-----------------------------------------------------------------------------
(* Projections, and geospatial.HandleTrackUpdated                          *)

\* A projection commits and its request publishes track.updated, to which a
\* handler that sees no position does not react.
Project(r, u) ==
  LET t == TrackOf[u] IN
  /\ At(r, "idle")
  /\ u \notin projected
  /\ lastSeen[t] < ObservedAt[u]
  /\ projected' = projected \cup {u}
  /\ lastSeen' = [lastSeen EXCEPT ![t] = ObservedAt[u]]
  /\ req' = IF u \in Positionless THEN req
            ELSE [req EXCEPT ![r] = [Idle EXCEPT !.item = u, !.pc = "contain"]]
  /\ UNCHANGED <<active, inside, stored, alerts, entries, exits, published, spent>>

\* ListActiveGeofencesContainingPoint.
Contain(r) ==
  /\ At(r, "contain")
  /\ req' = [req EXCEPT ![r] =
               [@ EXCEPT !.zones = Containing[req[r].item] \cap active, !.pc = "reconcile"]]
  /\ UNCHANGED <<active, projected, lastSeen, inside, stored, alerts, entries, exits, published, spent>>

\* ReconcileGeofenceStates is one statement, so its snapshot is taken before it
\* waits for the advisory lock that it asks for itself.
BeginReconcile(r) ==
  LET t == TrackOf[req[r].item] IN
  /\ At(r, "reconcile")
  /\ req' = [req EXCEPT ![r] =
               [@ EXCEPT !.eligible = (lastSeen[t] <= ObservedAt[req[r].item]),
                         !.seen = inside[t],
                         !.pc = "locked"]]
  /\ UNCHANGED <<active, projected, lastSeen, inside, stored, alerts, entries, exits, published, spent>>

Reentered(q, t) == IF q.eligible THEN q.zones ELSE {}

\* INSERT ... ON CONFLICT DO UPDATE WHERE inside IS DISTINCT FROM: the conflicting
\* row is read as it is now, not as the snapshot had it.
Entered(q, t) == {z \in q.zones : q.eligible /\ inside[t][z] # "in"}

ExitedBySnapshot(q, t) == {z \in Zones \ q.zones : q.eligible /\ q.seen[z] = "in"}
\* SELECT ... FOR UPDATE finds the rows of the snapshot and reads their current
\* version; a row inserted after the snapshot is not found.
Exited(q, t) ==
  {z \in Zones \ q.zones : q.eligible /\ q.seen[z] # "absent" /\ inside[t][z] = "in"}

\* The transitions of one statement, all still to be published.
Report(r, breaches, left, number) ==
  req' = [req EXCEPT ![r] =
            IF breaches \cup left = {} THEN Idle
            ELSE [@ EXCEPT !.pending = breaches, !.leaving = left, !.cause = number,
                           !.pc = "publish"]]

\* The locked part of the statement, up to its commit.
Reconcile(r) ==
  LET q == req[r]
      t == TrackOf[q.item] IN
  /\ At(r, "locked")
  /\ inside' = [inside EXCEPT ![t] =
       [z \in Zones |-> IF z \in Entered(q, t) THEN "in"
                        ELSE IF z \in Exited(q, t) THEN "out" ELSE inside[t][z]]]
  /\ entries' = [entries EXCEPT ![t] =
       [z \in Zones |-> IF z \in Entered(q, t) THEN entries[t][z] + 1 ELSE entries[t][z]]]
  /\ exits' = [exits EXCEPT ![t] =
       [z \in Zones |-> IF z \in Exited(q, t) THEN exits[t][z] + 1 ELSE exits[t][z]]]
  /\ Report(r, Entered(q, t), Exited(q, t),
            [z \in Zones |-> IF z \in Exited(q, t) THEN exits'[t][z] ELSE entries'[t][z]])
  /\ UNCHANGED <<active, projected, lastSeen, stored, alerts, published, spent>>

-----------------------------------------------------------------------------
(* Area observations, and arearule.HandleObservationReceived               *)

\* No module marks an area observation processed, so Ingest replays every repeated
\* submission of it as a retry.
ReplayHandled(a) == spent.replays < MaxReplays

\* Ingest of an area observation, new or repeated.
Submit(r, a) ==
  /\ At(r, "idle")
  /\ \/ /\ a \notin stored
        /\ stored' = stored \cup {a}
        /\ UNCHANGED spent
     \/ /\ a \in stored
        /\ ReplayHandled(a)
        /\ spent' = [spent EXCEPT !.replays = @ + 1]
        /\ UNCHANGED stored
  /\ req' = [req EXCEPT ![r] = [Idle EXCEPT !.item = a, !.pc = "intersect"]]
  /\ UNCHANGED <<active, projected, lastSeen, inside, alerts, entries, exits, published>>

\* GeofencesIntersectingArea: an overlap is to be published for each zone.
Intersect(r) ==
  LET a     == req[r].item
      zones == Overlapping[a] \cap active IN
  /\ At(r, "intersect")
  /\ entries' = [entries EXCEPT ![a] =
       [z \in Zones |-> IF z \in zones THEN entries[a][z] + 1 ELSE entries[a][z]]]
  /\ Report(r, zones, {}, entries'[a])
  /\ UNCHANGED <<active, projected, lastSeen, inside, stored, alerts, exits, published, spent>>

-----------------------------------------------------------------------------
(* Publication, alerts.HandleGeofenceBreached, HandleAreaGeofenceOverlapped *)

Event == [kind : {"entered", "exited"}, subject : Subjects, zone : Zones, number : Nat]

EventOf(q, kind, z) ==
  [kind |-> kind, subject |-> Subject(q.item), zone |-> z, number |-> q.cause[z]]

LastEvent(r, z) == req' = [req EXCEPT ![r] = Idle]

\* The handler of zone z returns, and its caller publishes the next event.
Handled(r, z) ==
  req' = [req EXCEPT ![r] =
            IF @.pending = {z} /\ @.leaving = {} THEN Idle
            ELSE [@ EXCEPT !.pending = req[r].pending \ {z}, !.pc = "publish"]]

\* The exit of zone z is published; no module acts on it.
PublishExit(r, z) ==
  /\ At(r, "publish")
  /\ z \in req[r].leaving
  /\ published' = published \cup {EventOf(req[r], "exited", z)}
  /\ req' = [req EXCEPT ![r] =
               IF @.leaving = {z} /\ @.pending = {} THEN Idle
               ELSE [@ EXCEPT !.leaving = req[r].leaving \ {z}]]
  /\ UNCHANGED <<active, projected, lastSeen, inside, stored, alerts, entries, exits, spent>>

EverRaised(z, s) == \E i \in 1..Len(alerts) : alerts[i].zone = z /\ alerts[i].subject = s

\* FindUnresolvedAlertForGeofenceTrack / ...ForObservationGeofence.
Found(z, s) == Standing(z, s)

\* A breach or overlap is published, and its handler looks for an alert.
Find(r) ==
  /\ At(r, "publish")
  /\ \E z \in req[r].pending :
       /\ published' = published \cup {EventOf(req[r], "entered", z)}
       /\ IF Found(z, Subject(req[r].item))
          THEN Handled(r, z)
          ELSE req' = [req EXCEPT ![r] = [@ EXCEPT !.zone = z, !.pc = "create"]]
  /\ UNCHANGED <<active, projected, lastSeen, inside, stored, alerts, entries, exits, spent>>

NoIndex(z, s) == FALSE

\* The partial unique indexes over unresolved alerts.
Clash(z, s) == Standing(z, s)

Insert(r) ==
  LET z == req[r].zone
      s == Subject(req[r].item) IN
  IF Clash(z, s)
  THEN UNCHANGED alerts
  ELSE alerts' = Append(alerts, [zone |-> z, subject |-> s, state |-> "ACTIVE",
                                 cause |-> req[r].cause[z]])

\* CreateAlert.  The handler is done whether the insert succeeds or clashes.
Create(r) ==
  /\ At(r, "create")
  /\ Insert(r)
  /\ Handled(r, req[r].zone)
  /\ UNCHANGED <<active, projected, lastSeen, inside, stored, entries, exits, published, spent>>

-----------------------------------------------------------------------------
(* Operators                                                               *)

Acknowledge(i) ==
  /\ alerts[i].state = "ACTIVE"
  /\ alerts' = [alerts EXCEPT ![i] = [@ EXCEPT !.state = "ACKNOWLEDGED"]]
  /\ UNCHANGED <<active, projected, lastSeen, inside, stored, entries, exits, published, req, spent>>

Resolve(i) ==
  /\ alerts[i].state \in {"ACTIVE", "ACKNOWLEDGED"}
  /\ spent.resolves < MaxResolves
  /\ spent' = [spent EXCEPT !.resolves = @ + 1]
  /\ alerts' = [alerts EXCEPT ![i] = [@ EXCEPT !.state = "RESOLVED"]]
  /\ UNCHANGED <<active, projected, lastSeen, inside, stored, entries, exits, published, req>>

\* UpdateGeofenceActive; a zone that is not created yet is one not yet in force.
SetActive(z) ==
  /\ spent.toggles < MaxToggles
  /\ spent' = [spent EXCEPT !.toggles = @ + 1]
  /\ active' = IF z \in active THEN active \ {z} ELSE active \cup {z}
  /\ UNCHANGED <<projected, lastSeen, inside, stored, alerts, entries, exits, published, req>>

-----------------------------------------------------------------------------
(* Faults                                                                  *)

\* A crash, or an error of a query before the first event is published.  What a
\* crashed request had not published yet is lost.
Abort(r) ==
  /\ ~At(r, "idle")
  /\ req' = [req EXCEPT ![r] = Idle]
  /\ UNCHANGED <<alerts, published>>

\* The alert handler only logs the error of its query: the alert is lost and the
\* next event is published.
FindFails(r) ==
  /\ At(r, "publish")
  /\ \E z \in req[r].pending :
       /\ published' = published \cup {EventOf(req[r], "entered", z)}
       /\ Handled(r, z)
  /\ UNCHANGED alerts

\* The insert fails, or commits without an answer.
CreateFails(r) ==
  /\ At(r, "create")
  /\ Insert(r) \/ UNCHANGED alerts
  /\ Handled(r, req[r].zone)
  /\ UNCHANGED published

Fault(r) ==
  /\ spent.faults < MaxFaults
  /\ spent' = [spent EXCEPT !.faults = @ + 1]
  /\ Abort(r) \/ FindFails(r) \/ CreateFails(r)
  /\ UNCHANGED <<active, projected, lastSeen, inside, stored, entries, exits>>

-----------------------------------------------------------------------------
Init ==
  /\ active = Zones
  /\ projected = {}
  /\ lastSeen = [t \in Tracks |-> 0]
  /\ inside = [t \in Tracks |-> [z \in Zones |-> "absent"]]
  /\ stored = {}
  /\ alerts = <<>>
  /\ entries = [s \in Subjects |-> [z \in Zones |-> 0]]
  /\ exits = [t \in Tracks |-> [z \in Zones |-> 0]]
  /\ published = {}
  /\ req = [r \in Requests |-> Idle]
  /\ spent = [faults |-> 0, replays |-> 0, resolves |-> 0, toggles |-> 0]

\* The next call of a request.
Step(r) ==
  \/ Contain(r) \/ BeginReconcile(r) \/ Reconcile(r) \/ Intersect(r)
  \/ Find(r) \/ Create(r)
  \/ \E z \in Zones : PublishExit(r, z)

Next ==
  \/ \E r \in Requests :
       \/ \E u \in Updates : Project(r, u)
       \/ \E a \in Areas : Submit(r, a)
       \/ Step(r)
       \/ Fault(r)
  \/ \E i \in 1..Len(alerts) : Acknowledge(i) \/ Resolve(i)
  \/ \E z \in Zones : SetActive(z)

Spec == Init /\ [][Next]_vars

\* The scheduler runs every request and the database answers it; a source submits
\* its area observation again while the bound allows.
FairSpec ==
  /\ Spec
  /\ \A r \in Requests : WF_vars(Step(r))
  /\ \A a \in Areas : SF_vars(\E r \in Requests : Submit(r, a))

-----------------------------------------------------------------------------
(* Properties                                                              *)

Alert == [zone : Zones, subject : Subjects, cause : Nat,
          state : {"ACTIVE", "ACKNOWLEDGED", "RESOLVED"}]

TypeOK ==
  /\ active \subseteq Zones
  /\ projected \subseteq Updates
  /\ lastSeen \in [Tracks -> Nat]
  /\ inside \in [Tracks -> [Zones -> Rows]]
  /\ stored \subseteq Areas
  /\ alerts \in Seq(Alert)
  /\ entries \in [Subjects -> [Zones -> Nat]]
  /\ exits \in [Tracks -> [Zones -> Nat]]
  /\ published \subseteq Event
  /\ req \in [Requests -> Request]
  /\ spent \in Budget

\* An operator never has two unresolved alerts of one zone for the same track or
\* the same area observation, although the handler reads before it writes.
OneUnresolved ==
  \A i, j \in 1..Len(alerts) :
    /\ alerts[i].zone = alerts[j].zone
    /\ alerts[i].subject = alerts[j].subject
    /\ Unresolved(i) /\ Unresolved(j)
    => i = j

\* geospatial/postgres_repository.go:149-151: the statement "returns only state
\* transitions, so concurrent evaluations cannot duplicate breach or exit events".
\* For every pair, the entries and exits that the statements commit and return
\* alternate, and the row tells which is next.  The goroutines publish what they were
\* returned later and without the lock, so the events themselves may come in another
\* order.
TransitionsAlternate ==
  \A t \in Tracks, z \in Zones :
    entries[t][z] = exits[t][z] + IF inside[t][z] = "in" THEN 1 ELSE 0

\* What a request has still to publish; the one its handler works on is published.
Unpublished(q) ==
  {EventOf(q, "entered", z) : z \in IF q.pc = "create" THEN q.pending \ {q.zone} ELSE q.pending}
  \cup {EventOf(q, "exited", z) : z \in q.leaving}

Numbers(kind, s, z) ==
  IF kind = "entered" THEN 1..entries[s][z]
  ELSE IF s \in Tracks THEN 1..exits[s][z] ELSE {}

\* Every transition that a statement committed, and every overlap that was found, is
\* published at most once and by one request, none is published that did not happen,
\* and while nothing fails none is forgotten, although requests interleave between
\* the commit and each publication and handlers find or miss their alert.
EachPublishedOnce ==
  /\ \A r \in Requests : Unpublished(req[r]) \cap published = {}
  /\ \A r, o \in Requests : r # o => Unpublished(req[r]) \cap Unpublished(req[o]) = {}
  /\ \A e \in published \cup UNION {Unpublished(req[r]) : r \in Requests} :
       e.number \in Numbers(e.kind, e.subject, e.zone)
  /\ spent.faults = 0 =>
       \A kind \in {"entered", "exited"}, s \in Subjects, z \in Zones :
         \A n \in Numbers(kind, s, z) :
           [kind |-> kind, subject |-> s, zone |-> z, number |-> n]
             \in published \cup UNION {Unpublished(req[r]) : r \in Requests}

\* No breach or overlap raises two alerts, and no alert is raised without one: an
\* alert the operator resolved comes back only with a new event.
OneAlertPerEvent ==
  \A i \in 1..Len(alerts) :
    LET a == alerts[i] IN
    /\ a.cause \in 1..entries[a.subject][a.zone]
    /\ \A j \in 1..Len(alerts) :
         /\ alerts[j].zone = a.zone
         /\ alerts[j].subject = a.subject
         /\ alerts[j].cause = a.cause
         => i = j

\* Every event has at most one alert, and no two alerts stand for one zone and subject,
\* however handlers, retries and operators interleave.
AlertsAreUnique == OneUnresolved /\ OneAlertPerEvent

\* With every request finished and none lost, the row of a pair says whether the
\* newest position of the track is inside the zone.
AtRest == \A r \in Requests : At(r, "idle")
Newest(t, u) ==
  /\ u \in projected \ Positionless
  /\ TrackOf[u] = t
  /\ \A v \in projected \ Positionless : TrackOf[v] = t => ObservedAt[v] <= ObservedAt[u]
LatestDecides ==
  AtRest /\ spent.faults = 0 =>
    \A t \in Tracks, z \in Zones, u \in Updates :
      Newest(t, u) => (inside[t][z] = "in" <=> z \in Containing[u])

\* Unless something fails, a breach or overlap to be published reaches an
\* unresolved alert: the one its handler raises, or the one that already stands.
EventIsAlerted ==
  \A r \in Requests, z \in Zones, s \in Subjects :
    (z \in req[r].pending /\ Subject(req[r].item) = s) ~> (Standing(z, s) \/ spent.faults > 0)

\* A recorded footprint is alerted in every zone it meets, although a request may
\* die at any call, as long as its source submits it again.
AreaIsAlerted ==
  \A a \in Areas : \A z \in Overlapping[a] : a \in stored ~> EverRaised(z, a)

\* What happens in a zone reaches the operator: an event while nothing fails,
\* a recorded footprint whatever dies.
ZonesAreAlerted == EventIsAlerted /\ AreaIsAlerted
=============================================================================
