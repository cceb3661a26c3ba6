----------------------- MODULE GeofenceAlertsProofs -----------------------
(***************************************************************************)
(* Proofs about GeofenceAlerts, for every set of zones, tracks, positions, *)
(* footprints and requests, and any number of faults, replays, resolved    *)
(* alerts and switched zones.                                              *)
(***************************************************************************)
EXTENDS GeofenceAlerts, TLAPS

-----------------------------------------------------------------------------
(* Types                                                                   *)

LEMMA IdleType == Idle \in Request
  BY DataAssumption DEF Idle, Request, PCs, Rows, AnyZone

LEMMA SubjectType ==
  ASSUME NEW i \in Updates \cup Areas
  PROVE  Subject(i) \in Subjects
  BY DataAssumption DEF Subject, Subjects

\* What a request is working on fits the call it is at.
ItemFits(q) ==
  /\ q.pc \in {"contain", "reconcile", "locked"} => q.item \in Updates
  /\ q.pc = "intersect" => q.item \in Areas
  /\ q.pc # "idle" => q.item \in Updates \cup Areas
  /\ q.pending \cup q.leaving # {} => q.pc \in {"publish", "create"}
  /\ q.pc = "create" => q.zone \in q.pending

WellFormed == \A r \in Requests : ItemFits(req[r])

LEMMA IdleFits == ItemFits(Idle)
  BY DEF Idle, ItemFits

\* A step of one request: its record moves to q.
Moved(r, q) ==
  /\ req' = [req EXCEPT ![r] = q]
  /\ q \in Request
  /\ ItemFits(q)

LEMMA MovedType ==
  ASSUME req \in [Requests -> Request], WellFormed,
         NEW r \in Requests, NEW q, Moved(r, q)
  PROVE  /\ req' \in [Requests -> Request]
         /\ WellFormed'
         /\ req'[r] = q
         /\ \A o \in Requests : o # r => req'[o] = req[o]
  BY DEF Moved, WellFormed, ItemFits

LEMMA AppendAlert ==
  ASSUME alerts \in Seq(Alert), NEW a \in Alert, alerts' = Append(alerts, a)
  PROVE  /\ alerts' \in Seq(Alert)
         /\ Len(alerts') = Len(alerts) + 1
         /\ \A i \in 1..Len(alerts) : alerts'[i] = alerts[i]
         /\ alerts'[Len(alerts) + 1] = a
  OBVIOUS

\* The moves of Handled: the handled zone is no longer pending.
Rest(r, z) ==
  IF req[r].pending = {z} /\ req[r].leaving = {} THEN Idle
  ELSE [req[r] EXCEPT !.pending = req[r].pending \ {z}, !.pc = "publish"]

LEMMA HandledMove ==
  ASSUME TypeOK, WellFormed, NEW r \in Requests, NEW z \in req[r].pending, Handled(r, z)
  PROVE  /\ Moved(r, Rest(r, z))
         /\ Rest(r, z).pending = req[r].pending \ {z}
  <1> DEFINE q == Rest(r, z)
  <1>1. req[r] \in Request /\ ItemFits(req[r])
    BY DEF TypeOK, WellFormed
  <1>2. req' = [req EXCEPT ![r] = q]
    BY DEF Handled, Rest
  <1>3. CASE req[r].pending = {z} /\ req[r].leaving = {}
    <2>1. q = Idle
      BY <1>3 DEF Rest
    <2> QED
      BY <1>2, <1>3, <2>1, IdleType, IdleFits DEF Moved, Idle
  <1>4. CASE ~(req[r].pending = {z} /\ req[r].leaving = {})
    <2>1. q = [req[r] EXCEPT !.pending = req[r].pending \ {z}, !.pc = "publish"]
      BY <1>4 DEF Rest
    <2>2. q \in Request
      BY <1>1, <2>1 DEF Request, PCs
    <2>3. ItemFits(q)
      BY <1>1, <1>4, <2>1 DEF Request, ItemFits
    <2> QED
      BY <1>1, <1>2, <2>1, <2>2, <2>3 DEF Moved, Request
  <1> QED
    BY <1>3, <1>4

\* The move of Report: the transitions of one statement are to be published.
Reporting(r, S, L, number) ==
  IF S \cup L = {} THEN Idle
  ELSE [req[r] EXCEPT !.pending = S, !.leaving = L, !.cause = number, !.pc = "publish"]

LEMMA ReportMove ==
  ASSUME TypeOK, WellFormed, NEW r \in Requests, req[r].item \in Updates \cup Areas,
         NEW S \in SUBSET Zones, NEW L \in SUBSET Zones, NEW number \in [Zones -> Nat],
         Report(r, S, L, number)
  PROVE  /\ Moved(r, Reporting(r, S, L, number))
         /\ Reporting(r, S, L, number).pending = S
         /\ Reporting(r, S, L, number).leaving = L
         /\ S \cup L # {} => /\ Reporting(r, S, L, number).item = req[r].item
                            /\ Reporting(r, S, L, number).cause = number
                            /\ Reporting(r, S, L, number).pc = "publish"
  <1> DEFINE q == Reporting(r, S, L, number)
  <1>1. req[r] \in Request /\ ItemFits(req[r])
    BY DEF TypeOK, WellFormed
  <1>2. req' = [req EXCEPT ![r] = q]
    BY DEF Report, Reporting
  <1>3. CASE S \cup L = {}
    <2>1. q = Idle /\ S = {} /\ L = {}
      BY <1>3 DEF Reporting
    <2> QED
      BY <1>2, <1>3, <2>1, IdleType, IdleFits DEF Moved, Idle
  <1>4. CASE S \cup L # {}
    <2>1. q = [req[r] EXCEPT !.pending = S, !.leaving = L, !.cause = number, !.pc = "publish"]
      BY <1>4 DEF Reporting
    <2>2. q \in Request
      BY <1>1, <2>1 DEF Request, PCs
    <2>3. /\ q.item = req[r].item /\ q.pc = "publish"
          /\ q.pending = S /\ q.leaving = L /\ q.cause = number
      BY <1>1, <2>1 DEF Request
    <2>4. ItemFits(q)
      BY <2>3 DEF ItemFits
    <2> QED
      BY <1>2, <2>2, <2>3, <2>4 DEF Moved
  <1> QED
    BY <1>3, <1>4

\* The moves that start or follow a call and report nothing: whatever was pending
\* stays so.
Keeps(q, p) ==
  /\ q.pending \subseteq p.pending
  /\ q.pending # {} => q.item = p.item /\ q.cause = p.cause

LEMMA RestKeeps ==
  ASSUME TypeOK, NEW r \in Requests, NEW z \in req[r].pending
  PROVE  Keeps(Rest(r, z), req[r])
  <1>1. req[r] \in Request
    BY DEF TypeOK
  <1> QED
    BY <1>1 DEF Rest, Keeps, Idle, Request

\* A request that starts: it has an item and nothing pending.
LEMMA StartMove ==
  ASSUME TypeOK, WellFormed, NEW r \in Requests, NEW i \in Updates \cup Areas, NEW l \in PCs,
         \/ l = "contain" /\ i \in Updates
         \/ l = "intersect" /\ i \in Areas,
         req' = [req EXCEPT ![r] = [Idle EXCEPT !.item = i, !.pc = l]]
  PROVE  \E q : Moved(r, q) /\ Keeps(q, req[r])
  <1> DEFINE q == [Idle EXCEPT !.item = i, !.pc = l]
  <1>1. q \in Request
    BY IdleType DEF Request
  <1>2. q.pending = {} /\ ItemFits(q)
    BY DEF Idle, ItemFits
  <1> QED
    BY <1>1, <1>2 DEF Moved, Keeps

LEMMA ContainMove ==
  ASSUME TypeOK, WellFormed, NEW r \in Requests, Contain(r)
  PROVE  \E q : Moved(r, q) /\ Keeps(q, req[r])
  <1> DEFINE q == [req[r] EXCEPT !.zones = Containing[req[r].item] \cap active, !.pc = "reconcile"]
  <1>1. req[r] \in Request /\ ItemFits(req[r]) /\ req[r].pc = "contain"
    BY DEF TypeOK, WellFormed, Contain, At
  <1>2. q \in Request
    BY <1>1, DataAssumption DEF TypeOK, Request, PCs, ItemFits
  <1>3. ItemFits(q)
    BY <1>1 DEF Request, ItemFits
  <1>4. req' = [req EXCEPT ![r] = q]
    BY DEF Contain
  <1>5. Moved(r, q) /\ Keeps(q, req[r])
    BY <1>1, <1>2, <1>3, <1>4 DEF Moved, Keeps, Request
  <1> QED
    BY <1>5

LEMMA BeginReconcileMove ==
  ASSUME TypeOK, WellFormed, NEW r \in Requests, BeginReconcile(r)
  PROVE  \E q : Moved(r, q) /\ Keeps(q, req[r])
  <1> DEFINE t == TrackOf[req[r].item]
             q == [req[r] EXCEPT !.eligible = (lastSeen[t] <= ObservedAt[req[r].item]),
                                 !.seen = inside[t], !.pc = "locked"]
  <1>1. req[r] \in Request /\ ItemFits(req[r]) /\ req[r].pc = "reconcile"
    BY DEF TypeOK, WellFormed, BeginReconcile, At
  <1>2. t \in Tracks
    BY <1>1, DataAssumption DEF ItemFits
  <1>3. /\ inside[t] \in [Zones -> Rows]
        /\ (lastSeen[t] <= ObservedAt[req[r].item]) \in BOOLEAN
    BY <1>2 DEF TypeOK
  <1>4. q \in Request
    <2>1. "locked" \in PCs
      BY DEF PCs
    <2> QED
      BY <1>1, <1>3, <2>1 DEF Request
  <1>5. ItemFits(q)
    BY <1>1 DEF Request, ItemFits
  <1>6. req' = [req EXCEPT ![r] = q]
    BY DEF BeginReconcile
  <1>7. Moved(r, q) /\ Keeps(q, req[r])
    BY <1>1, <1>4, <1>5, <1>6 DEF Moved, Keeps, Request
  <1> QED
    BY <1>7

LEMMA FindMove ==
  ASSUME TypeOK, WellFormed, NEW r \in Requests, Find(r)
  PROVE  \E q : Moved(r, q) /\ Keeps(q, req[r])
  <1>1. PICK z \in req[r].pending :
          /\ published' = published \cup {EventOf(req[r], "entered", z)}
          /\ IF Found(z, Subject(req[r].item)) THEN Handled(r, z)
             ELSE req' = [req EXCEPT ![r] = [@ EXCEPT !.zone = z, !.pc = "create"]]
    BY Zenon DEF Find
  <1>2. CASE Found(z, Subject(req[r].item))
    <2>1. Handled(r, z)
      BY <1>1, <1>2
    <2>2. Moved(r, Rest(r, z)) /\ Keeps(Rest(r, z), req[r])
      BY <2>1, HandledMove, RestKeeps
    <2> QED
      BY <2>2
  <1>3. CASE ~Found(z, Subject(req[r].item))
    <2> DEFINE q == [req[r] EXCEPT !.zone = z, !.pc = "create"]
    <2>1. req[r] \in Request /\ ItemFits(req[r]) /\ req[r].pc = "publish"
      BY DEF TypeOK, WellFormed, Find, At
    <2>2. z \in Zones
      BY <1>1, <2>1 DEF Request
    <2>3. q \in Request
      BY <2>1, <2>2 DEF Request, PCs
    <2>4. ItemFits(q)
      BY <1>1, <2>1 DEF Request, ItemFits
    <2>5. req' = [req EXCEPT ![r] = q]
      BY <1>1, <1>3
    <2>6. Moved(r, q) /\ Keeps(q, req[r])
      BY <2>1, <2>3, <2>4, <2>5 DEF Moved, Keeps, Request
    <2> QED
      BY <2>6
  <1> QED
    BY <1>2, <1>3

\* Every step of a request that reports nothing new and raises nothing.
LEMMA AbortMove ==
  ASSUME TypeOK, WellFormed, NEW r \in Requests, Abort(r)
  PROVE  \E q : Moved(r, q) /\ Keeps(q, req[r])
  <1>1. Moved(r, Idle) /\ Keeps(Idle, req[r])
    BY IdleType, IdleFits DEF Abort, Moved, Keeps, Idle
  <1> QED
    BY <1>1

LEMMA FindFailsMove ==
  ASSUME TypeOK, WellFormed, NEW r \in Requests, FindFails(r)
  PROVE  \E q : Moved(r, q) /\ Keeps(q, req[r])
  <1>1. PICK z \in req[r].pending : Handled(r, z)
    BY DEF FindFails
  <1>2. Moved(r, Rest(r, z)) /\ Keeps(Rest(r, z), req[r])
    BY <1>1, HandledMove, RestKeeps
  <1> QED
    BY <1>2

LEMMA PublishExitMove ==
  ASSUME TypeOK, WellFormed, NEW r \in Requests, NEW z \in Zones, PublishExit(r, z)
  PROVE  \E q : Moved(r, q) /\ Keeps(q, req[r])
  <1> DEFINE q == IF req[r].leaving = {z} /\ req[r].pending = {} THEN Idle
                  ELSE [req[r] EXCEPT !.leaving = req[r].leaving \ {z}]
  <1>1. req[r] \in Request /\ ItemFits(req[r]) /\ req[r].pc = "publish"
    BY DEF TypeOK, WellFormed, PublishExit, At
  <1>2. req' = [req EXCEPT ![r] = q]
    BY DEF PublishExit
  <1>3. q \in Request
    BY <1>1, IdleType DEF Request
  <1>4. ItemFits(q) /\ Keeps(q, req[r])
    <2>1. CASE q = Idle
      BY <2>1, IdleFits DEF Keeps, Idle
    <2>2. CASE q = [req[r] EXCEPT !.leaving = req[r].leaving \ {z}]
      BY <1>1, <2>2 DEF Request, ItemFits, Keeps
    <2> QED
      BY <2>1, <2>2
  <1> QED
    BY <1>2, <1>3, <1>4 DEF Moved

-----------------------------------------------------------------------------
(* Events and alerts                                                       *)

\* Every breach or overlap on its way was reported, is on one way only, and has
\* raised no alert yet.
Events ==
  /\ \A r \in Requests : \A z \in req[r].pending :
       req[r].cause[z] \in 1..entries[Subject(req[r].item)][z]
  /\ \A r, q \in Requests : \A z \in req[r].pending \cap req[q].pending :
       /\ Subject(req[r].item) = Subject(req[q].item)
       /\ req[r].cause[z] = req[q].cause[z]
       => r = q
  /\ \A r \in Requests, i \in 1..Len(alerts) :
       /\ alerts[i].zone \in req[r].pending
       /\ alerts[i].subject = Subject(req[r].item)
       => alerts[i].cause # req[r].cause[alerts[i].zone]

\* Alerts of the same things, whatever became of them.
SameAlerts ==
  /\ Len(alerts') = Len(alerts)
  /\ \A i \in 1..Len(alerts) :
       /\ alerts'[i].zone = alerts[i].zone
       /\ alerts'[i].subject = alerts[i].subject
       /\ alerts'[i].cause = alerts[i].cause

LEMMA KeepEvents ==
  ASSUME TypeOK, WellFormed, Events, OneAlertPerEvent,
         NEW r \in Requests, NEW q, Moved(r, q), Keeps(q, req[r]),
         SameAlerts, UNCHANGED entries
  PROVE  Events' /\ OneAlertPerEvent'
  <1>1. /\ req'[r] = q
        /\ \A o \in Requests : o # r => req'[o] = req[o]
    BY MovedType DEF TypeOK
  <1>2. \A o \in Requests : Keeps(req'[o], req[o])
    BY <1>1 DEF Keeps
  <1>3. Events'
    BY <1>2 DEF Events, Keeps, SameAlerts
  <1>4. OneAlertPerEvent'
    BY DEF OneAlertPerEvent, SameAlerts
  <1> QED
    BY <1>3, <1>4

\* Pending events are of known subjects and zones.
LEMMA PendingType ==
  ASSUME TypeOK, WellFormed, NEW r \in Requests, NEW z \in req[r].pending
  PROVE  /\ z \in Zones
         /\ Subject(req[r].item) \in Subjects
         /\ req[r].cause[z] \in Nat
         /\ entries[Subject(req[r].item)][z] \in Nat
  <1>1. req[r] \in Request /\ ItemFits(req[r])
    BY DEF TypeOK, WellFormed
  <1>2. z \in Zones /\ req[r].cause[z] \in Nat
    BY <1>1 DEF Request
  <1>3. req[r].item \in Updates \cup Areas
    BY <1>1 DEF ItemFits
  <1>4. Subject(req[r].item) \in Subjects
    BY <1>3, SubjectType
  <1> QED
    BY <1>2, <1>4 DEF TypeOK

\* New events of subject s in the zones of S.
Counted(s, S) ==
  entries' = [entries EXCEPT ![s] =
                [z \in Zones |-> IF z \in S THEN entries[s][z] + 1 ELSE entries[s][z]]]

LEMMA CountedType ==
  ASSUME TypeOK, NEW s \in Subjects, NEW S \in SUBSET Zones, Counted(s, S)
  PROVE  /\ entries' \in [Subjects -> [Zones -> Nat]]
         /\ \A z \in S : entries'[s][z] = entries[s][z] + 1
         /\ \A z \in Zones \ S : entries'[s][z] = entries[s][z]
         /\ \A u \in Subjects : u # s => entries'[u] = entries[u]
         /\ \A u \in Subjects, z \in Zones :
              entries[u][z] \in Nat /\ entries'[u][z] \in Nat /\ entries[u][z] <= entries'[u][z]
  <1> DEFINE row == [z \in Zones |-> IF z \in S THEN entries[s][z] + 1 ELSE entries[s][z]]
  <1>1. entries \in [Subjects -> [Zones -> Nat]]
    BY DEF TypeOK
  <1>2. \A z \in Zones : entries[s][z] \in Nat
    BY <1>1
  <1>3. row \in [Zones -> Nat]
    BY <1>2
  <1>4. entries' = [entries EXCEPT ![s] = row]
    BY DEF Counted
  <1>5. entries' \in [Subjects -> [Zones -> Nat]]
    BY <1>1, <1>3, <1>4
  <1>6. entries'[s] = row /\ \A u \in Subjects : u # s => entries'[u] = entries[u]
    BY <1>1, <1>4
  <1>7. /\ \A z \in S : entries'[s][z] = entries[s][z] + 1
        /\ \A z \in Zones \ S : entries'[s][z] = entries[s][z]
    BY <1>6
  <1>8. ASSUME NEW u \in Subjects, NEW z \in Zones
        PROVE  entries[u][z] \in Nat /\ entries'[u][z] \in Nat /\ entries[u][z] <= entries'[u][z]
    <2>1. entries[u][z] \in Nat /\ entries'[u][z] \in Nat
      BY <1>1, <1>5
    <2>2. entries'[u][z] = entries[u][z] \/ entries'[u][z] = entries[u][z] + 1
      BY <1>6, <1>7
    <2> QED
      BY <2>1, <2>2
  <1> QED
    BY <1>5, <1>6, <1>7, <1>8

LEMMA ReportEvents ==
  ASSUME TypeOK, WellFormed, Events, OneAlertPerEvent,
         NEW r \in Requests, req[r].item \in Updates \cup Areas,
         NEW S \in SUBSET Zones, NEW L \in SUBSET Zones, NEW number \in [Zones -> Nat],
         Counted(Subject(req[r].item), S),
         \A z \in S : number[z] = entries'[Subject(req[r].item)][z],
         Report(r, S, L, number), UNCHANGED alerts
  PROVE  Events' /\ OneAlertPerEvent'
  <1> DEFINE s == Subject(req[r].item)
             q == Reporting(r, S, L, number)
  <1>1. s \in Subjects
    BY SubjectType
  <1>2. /\ entries' \in [Subjects -> [Zones -> Nat]]
        /\ \A z \in S : entries'[s][z] = entries[s][z] + 1
        /\ \A u \in Subjects, z \in Zones :
             entries[u][z] \in Nat /\ entries'[u][z] \in Nat /\ entries[u][z] <= entries'[u][z]
    BY <1>1, CountedType
  <1>4. /\ Moved(r, q)
        /\ q.pending = S
        /\ S # {} => q.item = req[r].item /\ q.cause = number
    BY ReportMove
  <1>5. /\ req'[r] = q
        /\ \A o \in Requests : o # r => req'[o] = req[o]
    BY <1>4, MovedType DEF TypeOK
  <1>6. \A z \in S : Subject(q.item) = s /\ q.cause[z] = entries[s][z] + 1
    BY <1>2, <1>4
  <1>7. ASSUME NEW o \in Requests, NEW z \in req[o].pending
        PROVE  /\ req[o].cause[z] \in Nat
               /\ 1 <= req[o].cause[z]
               /\ req[o].cause[z] <= entries[Subject(req[o].item)][z]
               /\ req[o].cause[z] <= entries'[Subject(req[o].item)][z]
               /\ entries'[Subject(req[o].item)][z] \in Nat
    <2>1. /\ z \in Zones /\ Subject(req[o].item) \in Subjects /\ req[o].cause[z] \in Nat
          /\ entries[Subject(req[o].item)][z] \in Nat
      BY <1>7, PendingType
    <2>2. req[o].cause[z] \in 1..entries[Subject(req[o].item)][z]
      BY <1>7 DEF Events
    <2>3. /\ entries'[Subject(req[o].item)][z] \in Nat
          /\ entries[Subject(req[o].item)][z] <= entries'[Subject(req[o].item)][z]
      BY <1>2, <2>1
    <2> QED
      BY <2>1, <2>2, <2>3
  <1>8. ASSUME NEW o \in Requests, NEW z \in req'[o].pending
        PROVE  req'[o].cause[z] \in 1..entries'[Subject(req'[o].item)][z]
    <2>1. CASE o = r
      <3>1. z \in S /\ z \in Zones
        BY <1>4, <1>5, <2>1
      <3>2. /\ Subject(req'[o].item) = s
            /\ req'[o].cause[z] = entries[s][z] + 1
            /\ entries'[s][z] = entries[s][z] + 1
            /\ entries[s][z] \in Nat
        BY <1>1, <1>2, <1>5, <1>6, <2>1, <3>1
      <3> QED
        BY <3>2
    <2>2. CASE o # r
      BY <1>5, <1>7, <2>2
    <2> QED
      BY <2>1, <2>2
  <1>9. ASSUME NEW o \in Requests, o # r, NEW z \in S, z \in req[o].pending,
               Subject(req[o].item) = s
        PROVE  req[o].cause[z] # q.cause[z]
    <2>1. req[o].cause[z] \in Nat /\ req[o].cause[z] <= entries[s][z]
      BY <1>7, <1>9
    <2>2. q.cause[z] = entries[s][z] + 1 /\ entries[s][z] \in Nat
      BY <1>1, <1>2, <1>6
    <2> QED
      BY <2>1, <2>2
  <1>10. ASSUME NEW o \in Requests, NEW p \in Requests,
                NEW z \in req'[o].pending \cap req'[p].pending,
                Subject(req'[o].item) = Subject(req'[p].item), req'[o].cause[z] = req'[p].cause[z]
         PROVE  o = p
    <2>1. CASE o # r /\ p # r
      BY <1>5, <1>10, <2>1 DEF Events
    <2>2. CASE o = r /\ p # r
      BY <1>4, <1>5, <1>6, <1>9, <1>10, <2>2
    <2>3. CASE o # r /\ p = r
      BY <1>4, <1>5, <1>6, <1>9, <1>10, <2>3
    <2> QED
      BY <2>1, <2>2, <2>3
  <1>11. ASSUME NEW o \in Requests, NEW i \in 1..Len(alerts'),
                alerts'[i].zone \in req'[o].pending, alerts'[i].subject = Subject(req'[o].item)
         PROVE  alerts'[i].cause # req'[o].cause[alerts'[i].zone]
    <2>1. CASE o = r
      <3>1. alerts[i].zone \in S /\ alerts[i].subject = s
        BY <1>4, <1>5, <1>6, <1>11, <2>1
      <3>2. alerts[i].cause \in 1..entries[s][alerts[i].zone]
        BY <1>11, <3>1 DEF OneAlertPerEvent
      <3>3. q.cause[alerts[i].zone] = entries[s][alerts[i].zone] + 1
        BY <1>6, <3>1
      <3>4. entries[s][alerts[i].zone] \in Nat
        BY <1>1, <1>2, <3>1
      <3> QED
        BY <1>5, <2>1, <3>2, <3>3, <3>4
    <2>2. CASE o # r
      BY <1>5, <1>11, <2>2 DEF Events
    <2> QED
      BY <2>1, <2>2
  <1>12. ASSUME NEW i \in 1..Len(alerts')
         PROVE  alerts'[i].cause \in 1..entries'[alerts'[i].subject][alerts'[i].zone]
    <2>1. alerts[i] \in Alert
      BY <1>12 DEF TypeOK
    <2>2. alerts[i].cause \in 1..entries[alerts[i].subject][alerts[i].zone]
      BY <1>12 DEF OneAlertPerEvent
    <2>3. /\ entries[alerts[i].subject][alerts[i].zone] \in Nat
          /\ entries'[alerts[i].subject][alerts[i].zone] \in Nat
          /\ entries[alerts[i].subject][alerts[i].zone] <= entries'[alerts[i].subject][alerts[i].zone]
      BY <1>2, <2>1 DEF Alert
    <2> QED
      BY <2>2, <2>3
  <1>13. Events'
    BY <1>8, <1>10, <1>11 DEF Events
  <1>14. OneAlertPerEvent'
    BY <1>12 DEF OneAlertPerEvent
  <1> QED
    BY <1>13, <1>14

\* The insert of a request at "create" changes the alerts by one that is not there.
LEMMA InsertStep ==
  ASSUME TypeOK, WellFormed, NEW r \in Requests, At(r, "create"), Insert(r)
  PROVE  \/ UNCHANGED alerts
         \/ LET z == req[r].zone
                a == [zone |-> z, subject |-> Subject(req[r].item), state |-> "ACTIVE",
                      cause |-> req[r].cause[z]]
            IN /\ a \in Alert
               /\ alerts' = Append(alerts, a)
               /\ ~Standing(z, Subject(req[r].item))
  <1>1. req[r].zone \in req[r].pending
    BY DEF WellFormed, ItemFits, At
  <1>2. /\ req[r].zone \in Zones
        /\ Subject(req[r].item) \in Subjects
        /\ req[r].cause[req[r].zone] \in Nat
    BY <1>1, PendingType
  <1>3. [zone |-> req[r].zone, subject |-> Subject(req[r].item), state |-> "ACTIVE",
         cause |-> req[r].cause[req[r].zone]] \in Alert
    BY <1>2 DEF Alert
  <1> QED
    BY <1>3 DEF Insert, Clash

LEMMA RaiseEvents ==
  ASSUME TypeOK, WellFormed, Events, OneAlertPerEvent, OneUnresolved,
         NEW r \in Requests, At(r, "create"), Insert(r) \/ UNCHANGED alerts,
         Handled(r, req[r].zone), UNCHANGED entries
  PROVE  /\ Events' /\ OneAlertPerEvent' /\ OneUnresolved'
         /\ alerts' \in Seq(Alert)
         /\ \E q : Moved(r, q)
  <1> DEFINE z == req[r].zone
             s == Subject(req[r].item)
             q == Rest(r, z)
             a == [zone |-> z, subject |-> s, state |-> "ACTIVE", cause |-> req[r].cause[z]]
             n == Len(alerts)
  <1>1. z \in req[r].pending
    BY DEF WellFormed, ItemFits, At
  <1>2. Moved(r, q) /\ q.pending = req[r].pending \ {z} /\ Keeps(q, req[r])
    BY <1>1, HandledMove, RestKeeps
  <1>3. CASE UNCHANGED alerts
    <2>1. SameAlerts
      BY <1>3 DEF SameAlerts
    <2>2. Events' /\ OneAlertPerEvent'
      BY <1>2, <2>1, KeepEvents
    <2>3. OneUnresolved'
      BY <1>3 DEF OneUnresolved, Unresolved
    <2> QED
      BY <1>2, <1>3, <2>2, <2>3 DEF TypeOK
  <1>4. CASE a \in Alert /\ alerts' = Append(alerts, a) /\ ~Standing(z, s)
    <2>1. /\ alerts' \in Seq(Alert)
          /\ Len(alerts') = n + 1
          /\ \A i \in 1..n : alerts'[i] = alerts[i]
          /\ alerts'[n + 1] = a
      BY <1>4, AppendAlert DEF TypeOK
    <2>2. n \in Nat
      BY DEF TypeOK
    <2>3. \A i \in 1..Len(alerts') : i \in 1..n \/ i = n + 1
      BY <2>1, <2>2
    <2>4. /\ req'[r] = q
          /\ \A o \in Requests : o # r => req'[o] = req[o]
      BY <1>2, MovedType DEF TypeOK
    <2>5. \A o \in Requests : Keeps(req'[o], req[o])
      BY <1>2, <2>4 DEF Keeps
    <2>6. \A i \in 1..n : ~(/\ alerts[i].zone = z
                            /\ alerts[i].subject = s
                            /\ alerts[i].cause = req[r].cause[z])
      BY <1>1 DEF Events
    <2>7. a.zone = z /\ a.subject = s /\ a.cause = req[r].cause[z]
      OBVIOUS
    <2>8. ASSUME NEW o \in Requests, z \in req'[o].pending, Subject(req'[o].item) = s
          PROVE  req'[o].cause[z] # req[r].cause[z]
      <3>1. o # r
        BY <1>2, <2>4, <2>8
      <3>2. req'[o] = req[o]
        BY <2>4, <3>1
      <3> QED
        BY <1>1, <2>8, <3>1, <3>2 DEF Events
    <2>9. Events'
      <3>1. \A o \in Requests : \A y \in req'[o].pending :
              req'[o].cause[y] \in 1..entries'[Subject(req'[o].item)][y]
        BY <2>5 DEF Events, Keeps
      <3>2. \A o, p \in Requests : \A y \in req'[o].pending \cap req'[p].pending :
              /\ Subject(req'[o].item) = Subject(req'[p].item)
              /\ req'[o].cause[y] = req'[p].cause[y]
              => o = p
        BY <2>5 DEF Events, Keeps
      <3>3. ASSUME NEW o \in Requests, NEW i \in 1..Len(alerts'),
                   alerts'[i].zone \in req'[o].pending,
                   alerts'[i].subject = Subject(req'[o].item)
            PROVE  alerts'[i].cause # req'[o].cause[alerts'[i].zone]
        <4>1. CASE i = n + 1
          BY <2>1, <2>7, <2>8, <3>3, <4>1
        <4>2. CASE i \in 1..n
          BY <2>1, <2>5, <3>3, <4>2 DEF Events, Keeps
        <4> QED
          BY <2>3, <4>1, <4>2
      <3> QED
        BY <3>1, <3>2, <3>3 DEF Events
    <2>10. OneAlertPerEvent'
      <3>1. req[r].cause[z] \in 1..entries[s][z]
        BY <1>1 DEF Events
      <3>2. \A i \in 1..Len(alerts') :
              alerts'[i].cause \in 1..entries'[alerts'[i].subject][alerts'[i].zone]
        BY <2>1, <2>3, <2>7, <3>1 DEF OneAlertPerEvent
      <3>3. ASSUME NEW i \in 1..Len(alerts'), NEW j \in 1..Len(alerts'),
                   alerts'[j].zone = alerts'[i].zone,
                   alerts'[j].subject = alerts'[i].subject,
                   alerts'[j].cause = alerts'[i].cause
            PROVE  i = j
        <4>1. CASE i \in 1..n /\ j \in 1..n
          BY <2>1, <3>3, <4>1 DEF OneAlertPerEvent
        <4>2. CASE i = n + 1 /\ j \in 1..n
          BY <2>1, <2>6, <2>7, <3>3, <4>2
        <4>3. CASE i \in 1..n /\ j = n + 1
          BY <2>1, <2>6, <2>7, <3>3, <4>3
        <4> QED
          BY <2>3, <4>1, <4>2, <4>3
      <3> QED
        BY <3>2, <3>3 DEF OneAlertPerEvent
    <2>11. OneUnresolved'
      <3>1. \A i \in 1..n : alerts[i].zone = z /\ alerts[i].subject = s => ~Unresolved(i)
        BY <1>4 DEF Standing
      <3>2. ASSUME NEW i \in 1..Len(alerts'), NEW j \in 1..Len(alerts'),
                   alerts'[i].zone = alerts'[j].zone,
                   alerts'[i].subject = alerts'[j].subject,
                   alerts'[i].state # "RESOLVED", alerts'[j].state # "RESOLVED"
            PROVE  i = j
        <4>1. CASE i \in 1..n /\ j \in 1..n
          BY <2>1, <3>2, <4>1 DEF OneUnresolved, Unresolved
        <4>2. CASE i = n + 1 /\ j \in 1..n
          BY <2>1, <2>7, <3>1, <3>2, <4>2 DEF Unresolved
        <4>3. CASE i \in 1..n /\ j = n + 1
          BY <2>1, <2>7, <3>1, <3>2, <4>3 DEF Unresolved
        <4> QED
          BY <2>3, <4>1, <4>2, <4>3
      <3> QED
        BY <3>2 DEF OneUnresolved, Unresolved
    <2> QED
      BY <1>2, <2>1, <2>9, <2>10, <2>11
  <1> QED
    BY <1>3, <1>4, InsertStep

\* An operator changes the state of one alert.
Marked(i, x) == alerts' = [alerts EXCEPT ![i] = [@ EXCEPT !.state = x]]

LEMMA MarkedAlerts ==
  ASSUME alerts \in Seq(Alert), NEW i \in 1..Len(alerts),
         NEW x \in {"ACTIVE", "ACKNOWLEDGED", "RESOLVED"}, Marked(i, x)
  PROVE  /\ alerts' \in Seq(Alert)
         /\ SameAlerts
         /\ \A j \in 1..Len(alerts) : j # i => alerts'[j] = alerts[j]
         /\ alerts'[i].state = x
  <1>1. alerts[i] \in Alert
    OBVIOUS
  <1>2. [alerts[i] EXCEPT !.state = x] \in Alert
    BY <1>1 DEF Alert
  <1>3. alerts' = [alerts EXCEPT ![i] = [alerts[i] EXCEPT !.state = x]]
    BY DEF Marked
  <1>4. /\ alerts' \in Seq(Alert)
        /\ Len(alerts') = Len(alerts)
        /\ \A j \in 1..Len(alerts) : j # i => alerts'[j] = alerts[j]
        /\ alerts'[i] = [alerts[i] EXCEPT !.state = x]
    BY <1>2, <1>3
  <1>5. SameAlerts
    BY <1>1, <1>4 DEF SameAlerts, Alert
  <1> QED
    BY <1>1, <1>4, <1>5 DEF Alert

LEMMA MarkedEvents ==
  ASSUME TypeOK, Events, OneAlertPerEvent, OneUnresolved,
         NEW i \in 1..Len(alerts), Unresolved(i),
         NEW x \in {"ACKNOWLEDGED", "RESOLVED"}, Marked(i, x), UNCHANGED <<req, entries>>
  PROVE  Events' /\ OneAlertPerEvent' /\ OneUnresolved' /\ alerts' \in Seq(Alert)
  <1>1. /\ alerts' \in Seq(Alert)
        /\ SameAlerts
        /\ \A j \in 1..Len(alerts) : j # i => alerts'[j] = alerts[j]
        /\ alerts'[i].state = x
    BY MarkedAlerts DEF TypeOK
  <1>2. Events'
    BY <1>1 DEF Events, SameAlerts
  <1>3. OneAlertPerEvent'
    BY <1>1 DEF OneAlertPerEvent, SameAlerts
  <1>4. \A j \in 1..Len(alerts) : alerts'[j].state # "RESOLVED" => Unresolved(j)
    BY <1>1 DEF Unresolved
  <1>5. OneUnresolved'
    BY <1>1, <1>4 DEF OneUnresolved, Unresolved, SameAlerts
  <1> QED
    BY <1>1, <1>2, <1>3, <1>5

-----------------------------------------------------------------------------
(* Publication                                                             *)

\* The breaches and overlaps of a request that are still to be published.
Announcing(q) == IF q.pc = "create" THEN q.pending \ {q.zone} ELSE q.pending

LEMMA UnpublishedIs ==
  ASSUME NEW q
  PROVE  Unpublished(q) = {EventOf(q, "entered", z) : z \in Announcing(q)}
                          \cup {EventOf(q, "exited", z) : z \in q.leaving}
  BY DEF Unpublished, Announcing

LEMMA NothingUnpublished ==
  ASSUME NEW q, ItemFits(q), q.pc \notin {"publish", "create"}
  PROVE  Unpublished(q) = {}
  <1>1. q.pending = {} /\ q.leaving = {}
    BY DEF ItemFits
  <1> QED
    BY <1>1, UnpublishedIs DEF Announcing

LEMMA UnpublishedType ==
  ASSUME NEW q \in Request, ItemFits(q)
  PROVE  Unpublished(q) \subseteq Event
  <1>1. CASE q.pc \in {"publish", "create"}
    <2>1. Subject(q.item) \in Subjects
      BY <1>1, SubjectType DEF ItemFits
    <2>2. /\ q.pending \subseteq Zones /\ q.leaving \subseteq Zones
          /\ \A z \in Zones : q.cause[z] \in Nat
      BY DEF Request
    <2> QED
      BY <2>1, <2>2 DEF Unpublished, EventOf, Event
  <1>2. CASE q.pc \notin {"publish", "create"}
    BY <1>2, NothingUnpublished
  <1> QED
    BY <1>1, <1>2

\* A step that publishes the events of E, which request r held: what r holds of the
\* others it keeps, or loses to a fault.
Sends(r, E) ==
  /\ E \subseteq Unpublished(req[r])
  /\ published' = published \cup E
  /\ Unpublished(req'[r]) \subseteq Unpublished(req[r]) \ E
  /\ spent'.faults = 0 =>
       spent.faults = 0 /\ Unpublished(req'[r]) = Unpublished(req[r]) \ E
  /\ \A o \in Requests : o # r => req'[o] = req[o]
  /\ UNCHANGED <<entries, exits>>

LEMMA SendsOnce ==
  ASSUME TypeOK, WellFormed, EachPublishedOnce, NEW r \in Requests, NEW E, Sends(r, E)
  PROVE  EachPublishedOnce' /\ published' \subseteq Event
  <1> DEFINE Held  == UNION {Unpublished(req[o]) : o \in Requests}
             HeldN == UNION {Unpublished(req'[o]) : o \in Requests}
  <1>1. /\ E \subseteq Unpublished(req[r])
        /\ published' = published \cup E
        /\ Unpublished(req'[r]) \subseteq Unpublished(req[r]) \ E
        /\ \A o \in Requests : o # r => Unpublished(req'[o]) = Unpublished(req[o])
    BY DEF Sends
  <1>2. /\ \A o \in Requests : Unpublished(req[o]) \cap published = {}
        /\ \A o, p \in Requests : o # p => Unpublished(req[o]) \cap Unpublished(req[p]) = {}
        /\ \A e \in published \cup Held : e.number \in Numbers(e.kind, e.subject, e.zone)
    BY DEF EachPublishedOnce
  <1>3. \A k, s, z : Numbers(k, s, z)' = Numbers(k, s, z)
    BY DEF Sends, Numbers
  <1>4. published' \subseteq Event
    <2>1. req[r] \in Request /\ ItemFits(req[r])
      BY DEF TypeOK, WellFormed
    <2>2. Unpublished(req[r]) \subseteq Event
      BY <2>1, UnpublishedType
    <2> QED
      BY <1>1, <2>2 DEF TypeOK
  <1>5. \A o \in Requests : Unpublished(req'[o]) \cap published' = {}
    <2> TAKE o \in Requests
    <2>1. CASE o = r
      BY <1>1, <1>2, <2>1
    <2>2. CASE o # r
      BY <1>1, <1>2, <2>2
    <2> QED
      BY <2>1, <2>2
  <1>6. \A o \in Requests : Unpublished(req'[o]) \subseteq Unpublished(req[o])
    BY <1>1
  <1>7. \A o, p \in Requests : o # p => Unpublished(req'[o]) \cap Unpublished(req'[p]) = {}
    BY <1>2, <1>6
  <1>8. published' \cup HeldN \subseteq published \cup Held
    BY <1>1, <1>6
  <1>9. \A e \in published' \cup HeldN : e.number \in Numbers(e.kind, e.subject, e.zone)'
    BY <1>2, <1>3, <1>8
  <1>10. ASSUME spent'.faults = 0
         PROVE  /\ spent.faults = 0
                /\ published \cup Held \subseteq published' \cup HeldN
    <2>1. spent.faults = 0 /\ Unpublished(req'[r]) = Unpublished(req[r]) \ E
      BY <1>10 DEF Sends
    <2>2. \A o \in Requests : Unpublished(req[o]) \subseteq published' \cup HeldN
      BY <1>1, <2>1
    <2> QED
      BY <1>1, <2>1, <2>2
  <1>11. spent'.faults = 0 =>
           \A k \in {"entered", "exited"}, s \in Subjects, z \in Zones :
             \A n \in Numbers(k, s, z)' :
               [kind |-> k, subject |-> s, zone |-> z, number |-> n] \in published' \cup HeldN
    <2> SUFFICES ASSUME spent'.faults = 0,
                        NEW k \in {"entered", "exited"}, NEW s \in Subjects, NEW z \in Zones,
                        NEW n \in Numbers(k, s, z)
                 PROVE  [kind |-> k, subject |-> s, zone |-> z, number |-> n]
                          \in published' \cup HeldN
      BY <1>3
    <2>1. [kind |-> k, subject |-> s, zone |-> z, number |-> n] \in published \cup Held
      BY <1>10 DEF EachPublishedOnce
    <2> QED
      BY <1>10, <2>1
  <1> QED
    BY <1>4, <1>5, <1>7, <1>9, <1>11 DEF EachPublishedOnce

\* A statement commits transitions, which its request holds from then on.
Commits(r) ==
  /\ Unpublished(req[r]) = {}
  /\ \A k \in {"entered", "exited"}, s \in Subjects, z \in Zones :
       /\ Numbers(k, s, z) \subseteq Numbers(k, s, z)'
       /\ \A n \in Numbers(k, s, z)' \ Numbers(k, s, z) :
            [kind |-> k, subject |-> s, zone |-> z, number |-> n] \in Unpublished(req'[r])
  /\ \A e \in Unpublished(req'[r]) :
       e.number \in Numbers(e.kind, e.subject, e.zone)' \ Numbers(e.kind, e.subject, e.zone)
  /\ \A o \in Requests : o # r => req'[o] = req[o]
  /\ UNCHANGED <<published, spent>>

LEMMA CommitsOnce ==
  ASSUME TypeOK, WellFormed, EachPublishedOnce, NEW r \in Requests, Commits(r)
  PROVE  EachPublishedOnce'
  <1> DEFINE Held  == UNION {Unpublished(req[o]) : o \in Requests}
             HeldN == UNION {Unpublished(req'[o]) : o \in Requests}
  <1>1. /\ Unpublished(req[r]) = {}
        /\ published' = published /\ spent' = spent
        /\ \A o \in Requests : o # r => Unpublished(req'[o]) = Unpublished(req[o])
    BY DEF Commits
  <1>2. /\ \A o \in Requests : Unpublished(req[o]) \cap published = {}
        /\ \A o, p \in Requests : o # p => Unpublished(req[o]) \cap Unpublished(req[p]) = {}
        /\ \A e \in published \cup Held : e.number \in Numbers(e.kind, e.subject, e.zone)
    BY DEF EachPublishedOnce
  <1>3. published \cup Held \subseteq Event
    <2>1. \A o \in Requests : req[o] \in Request /\ ItemFits(req[o])
      BY DEF TypeOK, WellFormed
    <2>2. \A o \in Requests : Unpublished(req[o]) \subseteq Event
      BY <2>1, UnpublishedType
    <2> QED
      BY <2>2 DEF TypeOK
  <1>4. \A e \in Unpublished(req'[r]) : e \notin published \cup Held
    BY <1>2 DEF Commits
  <1>5. \A o \in Requests : Unpublished(req'[o]) \cap published' = {}
    <2> TAKE o \in Requests
    <2>1. CASE o = r
      BY <1>1, <1>4, <2>1
    <2>2. CASE o # r
      BY <1>1, <1>2, <2>2
    <2> QED
      BY <2>1, <2>2
  <1>6. ASSUME NEW o \in Requests, NEW p \in Requests, o # p
        PROVE  Unpublished(req'[o]) \cap Unpublished(req'[p]) = {}
    <2>1. CASE o = r
      BY <1>1, <1>4, <1>6, <2>1
    <2>2. CASE p = r
      BY <1>1, <1>4, <1>6, <2>2
    <2>3. CASE o # r /\ p # r
      BY <1>1, <1>2, <1>6, <2>3
    <2> QED
      BY <2>1, <2>2, <2>3
  <1>7. \A e \in published' \cup HeldN : e.number \in Numbers(e.kind, e.subject, e.zone)'
    <2> TAKE e \in published' \cup HeldN
    <2>1. CASE e \in Unpublished(req'[r])
      BY <2>1 DEF Commits
    <2>2. CASE e \notin Unpublished(req'[r])
      <3>1. e \in published \cup Held
        BY <1>1, <2>2
      <3>2. e.kind \in {"entered", "exited"} /\ e.subject \in Subjects /\ e.zone \in Zones
        BY <1>3, <3>1 DEF Event
      <3> QED
        BY <1>2, <3>1, <3>2 DEF Commits
    <2> QED
      BY <2>1, <2>2
  <1>8. \A o \in Requests : Unpublished(req[o]) \subseteq Unpublished(req'[o])
    BY <1>1
  <1>9. spent'.faults = 0 =>
          \A k \in {"entered", "exited"}, s \in Subjects, z \in Zones :
            \A n \in Numbers(k, s, z)' :
              [kind |-> k, subject |-> s, zone |-> z, number |-> n] \in published' \cup HeldN
    <2> SUFFICES ASSUME spent'.faults = 0,
                        NEW k \in {"entered", "exited"}, NEW s \in Subjects, NEW z \in Zones,
                        NEW n \in Numbers(k, s, z)'
                 PROVE  [kind |-> k, subject |-> s, zone |-> z, number |-> n]
                          \in published' \cup HeldN
      OBVIOUS
    <2>1. CASE n \in Numbers(k, s, z)
      <3>1. [kind |-> k, subject |-> s, zone |-> z, number |-> n] \in published \cup Held
        BY <1>1, <2>1 DEF EachPublishedOnce
      <3> QED
        BY <1>1, <1>8, <3>1
    <2>2. CASE n \notin Numbers(k, s, z)
      BY <2>2 DEF Commits
    <2> QED
      BY <2>1, <2>2
  <1> QED
    BY <1>5, <1>6, <1>7, <1>9 DEF EachPublishedOnce

\* The step of a request that publishes nothing and is told of nothing.
LEMMA SilentSends ==
  ASSUME NEW r \in Requests, NEW q, req \in [Requests -> Request],
         req' = [req EXCEPT ![r] = q], Unpublished(q) = Unpublished(req[r]),
         spent'.faults = spent.faults, UNCHANGED <<published, entries, exits>>
  PROVE  Sends(r, {})
  BY DEF Sends

LEMMA HandledSends ==
  ASSUME TypeOK, WellFormed, NEW r \in Requests, NEW z \in req[r].pending, Handled(r, z)
  PROVE  /\ At(r, "publish") =>
              /\ EventOf(req[r], "entered", z) \in Unpublished(req[r])
              /\ Unpublished(req'[r]) = Unpublished(req[r]) \ {EventOf(req[r], "entered", z)}
         /\ At(r, "create") /\ z = req[r].zone => Unpublished(req'[r]) = Unpublished(req[r])
         /\ \A o \in Requests : o # r => req'[o] = req[o]
  <1> DEFINE p == req[r]
             q == Rest(r, z)
  <1>1. req[r] \in Request /\ req \in [Requests -> Request]
    BY DEF TypeOK
  <1>2. req' = [req EXCEPT ![r] = q]
    BY DEF Handled, Rest
  <1>3. req'[r] = q /\ \A o \in Requests : o # r => req'[o] = req[o]
    BY <1>1, <1>2
  <1>4. Announcing(q) = p.pending \ {z} /\ q.leaving = p.leaving
    <2>1. CASE p.pending = {z} /\ p.leaving = {}
      BY <2>1 DEF Rest, Idle, Announcing
    <2>2. CASE ~(p.pending = {z} /\ p.leaving = {})
      <3>1. q = [p EXCEPT !.pending = p.pending \ {z}, !.pc = "publish"]
        BY <2>2 DEF Rest
      <3> QED
        BY <1>1, <3>1 DEF Request, Announcing
    <2> QED
      BY <2>1, <2>2
  <1>5. \A y \in (p.pending \ {z}) \cup p.leaving : \A k : EventOf(q, k, y) = EventOf(p, k, y)
    <2>1. CASE p.pending = {z} /\ p.leaving = {}
      BY <2>1
    <2>2. CASE ~(p.pending = {z} /\ p.leaving = {})
      <3>1. q = [p EXCEPT !.pending = p.pending \ {z}, !.pc = "publish"]
        BY <2>2 DEF Rest
      <3>2. q.item = p.item /\ q.cause = p.cause
        BY <1>1, <3>1 DEF Request
      <3> QED
        BY <3>2 DEF EventOf
    <2> QED
      BY <2>1, <2>2
  <1>6. Unpublished(q) = {EventOf(p, "entered", y) : y \in p.pending \ {z}}
                         \cup {EventOf(p, "exited", y) : y \in p.leaving}
    BY <1>4, <1>5, UnpublishedIs
  <1>7. ASSUME At(r, "publish")
        PROVE  /\ EventOf(p, "entered", z) \in Unpublished(p)
               /\ Unpublished(q) = Unpublished(p) \ {EventOf(p, "entered", z)}
    <2>1. Announcing(p) = p.pending
      BY <1>7 DEF At, Announcing
    <2>2. Unpublished(p) = {EventOf(p, "entered", y) : y \in p.pending}
                           \cup {EventOf(p, "exited", y) : y \in p.leaving}
      BY <2>1, UnpublishedIs
    <2>3. /\ \A y \in p.pending : y # z => EventOf(p, "entered", y) # EventOf(p, "entered", z)
          /\ \A y \in p.leaving : EventOf(p, "exited", y) # EventOf(p, "entered", z)
      BY DEF EventOf
    <2> QED
      BY <1>6, <2>2, <2>3
  <1>8. ASSUME At(r, "create"), z = req[r].zone
        PROVE  Unpublished(q) = Unpublished(p)
    <2>1. Announcing(p) = p.pending \ {z}
      BY <1>8 DEF At, Announcing
    <2> QED
      BY <1>6, <2>1, UnpublishedIs
  <1> QED
    BY <1>3, <1>7, <1>8

-----------------------------------------------------------------------------
(* The inductive invariant                                                 *)

IInv ==
  /\ TypeOK
  /\ WellFormed
  /\ Events
  /\ OneAlertPerEvent
  /\ OneUnresolved
  /\ TransitionsAlternate
  /\ EachPublishedOnce

OtherTypes ==
  /\ active \subseteq Zones
  /\ projected \subseteq Updates
  /\ lastSeen \in [Tracks -> Nat]
  /\ stored \subseteq Areas
  /\ spent \in Budget

LEMMA SpentType ==
  ASSUME spent \in Budget
  PROVE  /\ spent.replays < MaxReplays => [spent EXCEPT !.replays = @ + 1] \in Budget
         /\ spent.resolves < MaxResolves => [spent EXCEPT !.resolves = @ + 1] \in Budget
         /\ spent.toggles < MaxToggles => [spent EXCEPT !.toggles = @ + 1] \in Budget
         /\ spent.faults < MaxFaults => [spent EXCEPT !.faults = @ + 1] \in Budget
  BY BoundAssumption DEF Budget

LEMMA InitIInv == Init => IInv
  <1> SUFFICES ASSUME Init PROVE IInv
    OBVIOUS
  <1>1. alerts \in Seq(Alert) /\ Len(alerts) = 0
    BY DEF Init
  <1>2. /\ spent \in Budget
        /\ req \in [Requests -> Request]
        /\ \A r \in Requests : req[r] = Idle
    BY IdleType, BoundAssumption DEF Init, Budget
  <1>3. TypeOK
    BY <1>1, <1>2 DEF Init, TypeOK, Rows
  <1>4. WellFormed
    BY <1>2, IdleFits DEF WellFormed
  <1>5. Events /\ OneAlertPerEvent /\ OneUnresolved
    BY <1>1, <1>2 DEF Events, OneAlertPerEvent, OneUnresolved, Idle
  <1>6. TransitionsAlternate
    BY DEF Init, TransitionsAlternate, Subjects
  <1>7. EachPublishedOnce
    <2>1. \A r \in Requests : Unpublished(req[r]) = {}
      BY <1>2, IdleFits, NothingUnpublished DEF Idle
    <2>2. \A k, z : \A s \in Subjects : z \in Zones => Numbers(k, s, z) = {}
      BY DEF Init, Numbers
    <2>3. published = {}
      BY DEF Init
    <2> QED
      BY <2>1, <2>2, <2>3 DEF EachPublishedOnce
  <1> QED
    BY <1>3, <1>4, <1>5, <1>6, <1>7 DEF IInv

\* A step of a request that reports nothing and raises nothing.
LEMMA Quiet ==
  ASSUME IInv, NEW r \in Requests, \E q : Moved(r, q) /\ Keeps(q, req[r]),
         UNCHANGED <<inside, alerts, entries, exits>>, OtherTypes',
         \E E : Sends(r, E)
  PROVE  IInv'
  <1>1. PICK q : Moved(r, q) /\ Keeps(q, req[r])
    OBVIOUS
  <1>2. req' \in [Requests -> Request] /\ WellFormed'
    BY <1>1, MovedType DEF IInv, TypeOK
  <1>7. EachPublishedOnce' /\ published' \subseteq Event
    BY SendsOnce DEF IInv
  <1>3. TypeOK'
    BY <1>2, <1>7 DEF IInv, TypeOK, OtherTypes
  <1>4. SameAlerts
    BY DEF SameAlerts
  <1>5. Events' /\ OneAlertPerEvent'
    BY <1>1, <1>4, KeepEvents DEF IInv
  <1>6. OneUnresolved' /\ TransitionsAlternate'
    BY DEF IInv, OneUnresolved, Unresolved, TransitionsAlternate
  <1> QED
    BY <1>2, <1>3, <1>5, <1>6, <1>7 DEF IInv

\* What each step of a request sends.
LEMMA StartSends ==
  ASSUME TypeOK, WellFormed, NEW r \in Requests, At(r, "idle"), NEW i,
         NEW l \in {"contain", "intersect"},
         req' = [req EXCEPT ![r] = [Idle EXCEPT !.item = i, !.pc = l]],
         spent'.faults = spent.faults, UNCHANGED <<published, entries, exits>>
  PROVE  Sends(r, {})
  <1> DEFINE q == [Idle EXCEPT !.item = i, !.pc = l]
  <1>1. Unpublished(req[r]) = {}
    BY NothingUnpublished DEF WellFormed, At
  <1>2. q.pending = {} /\ q.leaving = {}
    BY DEF Idle
  <1>3. Unpublished(q) = {}
    BY <1>2, UnpublishedIs DEF Announcing
  <1>4. req \in [Requests -> Request]
    BY DEF TypeOK
  <1> HIDE DEF q
  <1> QED
    BY <1>1, <1>3, <1>4, SilentSends DEF q

LEMMA ReadSends ==
  ASSUME TypeOK, WellFormed, NEW r \in Requests, Contain(r) \/ BeginReconcile(r)
  PROVE  Sends(r, {})
  <1>1. /\ req \in [Requests -> Request]
        /\ req[r] \in Request /\ ItemFits(req[r])
        /\ req[r].pc \in {"contain", "reconcile"}
    BY DEF TypeOK, WellFormed, Contain, BeginReconcile, At
  <1>2. PICK q : /\ req' = [req EXCEPT ![r] = q]
                 /\ q.pc \in {"reconcile", "locked"}
                 /\ q.pending = req[r].pending /\ q.leaving = req[r].leaving
    <2>1. CASE Contain(r)
      <3> DEFINE q == [req[r] EXCEPT !.zones = Containing[req[r].item] \cap active,
                                     !.pc = "reconcile"]
      <3>1. req' = [req EXCEPT ![r] = q]
        BY <2>1 DEF Contain
      <3>2. /\ q.pc \in {"reconcile", "locked"}
            /\ q.pending = req[r].pending /\ q.leaving = req[r].leaving
        BY <1>1 DEF Request
      <3> QED
        BY <3>1, <3>2
    <2>2. CASE BeginReconcile(r)
      <3> DEFINE t == TrackOf[req[r].item]
                 q == [req[r] EXCEPT !.eligible = (lastSeen[t] <= ObservedAt[req[r].item]),
                                     !.seen = inside[t], !.pc = "locked"]
      <3>1. req' = [req EXCEPT ![r] = q]
        BY <2>2 DEF BeginReconcile
      <3>2. /\ q.pc \in {"reconcile", "locked"}
            /\ q.pending = req[r].pending /\ q.leaving = req[r].leaving
        BY <1>1 DEF Request
      <3> QED
        BY <3>1, <3>2
    <2> QED
      BY <2>1, <2>2
  <1>3. Unpublished(req[r]) = {}
    BY <1>1, NothingUnpublished
  <1>4. Unpublished(q) = {}
    <2>1. q.pending = {} /\ q.leaving = {}
      BY <1>1, <1>2 DEF ItemFits
    <2> QED
      BY <2>1, UnpublishedIs DEF Announcing
  <1>5. spent'.faults = spent.faults /\ UNCHANGED <<published, entries, exits>>
    BY DEF Contain, BeginReconcile
  <1> QED
    BY <1>1, <1>2, <1>3, <1>4, <1>5, SilentSends

LEMMA FindSends ==
  ASSUME TypeOK, WellFormed, NEW r \in Requests, Find(r)
  PROVE  \E E : Sends(r, E)
  <1>1. PICK z \in req[r].pending :
          /\ published' = published \cup {EventOf(req[r], "entered", z)}
          /\ IF Found(z, Subject(req[r].item)) THEN Handled(r, z)
             ELSE req' = [req EXCEPT ![r] = [@ EXCEPT !.zone = z, !.pc = "create"]]
    BY Zenon DEF Find
  <1> DEFINE E == {EventOf(req[r], "entered", z)}
  <1>2. At(r, "publish") /\ spent' = spent /\ UNCHANGED <<entries, exits>>
    BY DEF Find
  <1>3. /\ E \subseteq Unpublished(req[r])
        /\ Unpublished(req'[r]) = Unpublished(req[r]) \ E
        /\ \A o \in Requests : o # r => req'[o] = req[o]
    <2>1. CASE Found(z, Subject(req[r].item))
      BY <1>1, <1>2, <2>1, HandledSends
    <2>2. CASE ~Found(z, Subject(req[r].item))
      <3> DEFINE q == [req[r] EXCEPT !.zone = z, !.pc = "create"]
      <3>1. req \in [Requests -> Request] /\ req[r] \in Request
        BY DEF TypeOK
      <3>2. req'[r] = q /\ \A o \in Requests : o # r => req'[o] = req[o]
        BY <1>1, <2>2, <3>1
      <3>3. /\ q.item = req[r].item /\ q.cause = req[r].cause
            /\ Announcing(q) = req[r].pending \ {z} /\ q.leaving = req[r].leaving
        BY <3>1 DEF Request, Announcing
      <3>4. Announcing(req[r]) = req[r].pending
        BY <1>2 DEF At, Announcing
      <3>5. \A k, y : EventOf(q, k, y) = EventOf(req[r], k, y)
        BY <3>3 DEF EventOf
      <3>6. Unpublished(q) = {EventOf(req[r], "entered", y) : y \in req[r].pending \ {z}}
                             \cup {EventOf(req[r], "exited", y) : y \in req[r].leaving}
        BY <3>3, <3>5, UnpublishedIs
      <3>7. Unpublished(req[r]) = {EventOf(req[r], "entered", y) : y \in req[r].pending}
                                  \cup {EventOf(req[r], "exited", y) : y \in req[r].leaving}
        BY <3>4, UnpublishedIs
      <3>8. /\ \A y \in req[r].pending :
                 y # z => EventOf(req[r], "entered", y) # EventOf(req[r], "entered", z)
            /\ \A y \in req[r].leaving :
                 EventOf(req[r], "exited", y) # EventOf(req[r], "entered", z)
        BY DEF EventOf
      <3> QED
        BY <3>2, <3>6, <3>7, <3>8
    <2> QED
      BY <2>1, <2>2
  <1>4. Sends(r, E)
    BY <1>1, <1>2, <1>3 DEF Sends
  <1> QED
    BY <1>4

LEMMA PublishExitSends ==
  ASSUME TypeOK, WellFormed, NEW r \in Requests, NEW z \in Zones, PublishExit(r, z)
  PROVE  \E E : Sends(r, E)
  <1> DEFINE p == req[r]
             q == IF p.leaving = {z} /\ p.pending = {} THEN Idle
                  ELSE [p EXCEPT !.leaving = p.leaving \ {z}]
             E == {EventOf(p, "exited", z)}
  <1>1. /\ req \in [Requests -> Request] /\ p \in Request
        /\ p.pc = "publish" /\ z \in p.leaving
        /\ published' = published \cup E
        /\ req' = [req EXCEPT ![r] = q]
        /\ spent' = spent /\ UNCHANGED <<entries, exits>>
    BY DEF TypeOK, PublishExit, At
  <1>2. Announcing(q) = p.pending /\ q.leaving = p.leaving \ {z}
    <2>1. CASE p.leaving = {z} /\ p.pending = {}
      BY <2>1 DEF Idle, Announcing
    <2>2. CASE ~(p.leaving = {z} /\ p.pending = {})
      BY <1>1, <2>2 DEF Request, Announcing
    <2> QED
      BY <2>1, <2>2
  <1>3. \A y \in p.pending \cup (p.leaving \ {z}) : \A k : EventOf(q, k, y) = EventOf(p, k, y)
    <2>1. CASE p.leaving = {z} /\ p.pending = {}
      BY <2>1
    <2>2. CASE ~(p.leaving = {z} /\ p.pending = {})
      <3>1. q.item = p.item /\ q.cause = p.cause
        BY <1>1, <2>2 DEF Request
      <3> HIDE DEF q
      <3> QED
        BY <3>1 DEF EventOf
    <2> QED
      BY <2>1, <2>2
  <1>4. Unpublished(q) = {EventOf(p, "entered", y) : y \in p.pending}
                         \cup {EventOf(p, "exited", y) : y \in p.leaving \ {z}}
    <2> HIDE DEF q
    <2> QED
      BY <1>2, <1>3, UnpublishedIs
  <1>5. Unpublished(p) = {EventOf(p, "entered", y) : y \in p.pending}
                         \cup {EventOf(p, "exited", y) : y \in p.leaving}
    BY <1>1, UnpublishedIs DEF Announcing
  <1>6. /\ \A y \in p.leaving : y # z => EventOf(p, "exited", y) # EventOf(p, "exited", z)
        /\ \A y \in p.pending : EventOf(p, "entered", y) # EventOf(p, "exited", z)
    BY DEF EventOf
  <1>7. E \subseteq Unpublished(p) /\ Unpublished(q) = Unpublished(p) \ E
    <2> HIDE DEF q
    <2> QED
      BY <1>1, <1>4, <1>5, <1>6
  <1>8. req'[r] = q /\ \A o \in Requests : o # r => req'[o] = req[o]
    BY <1>1
  <1>9. Sends(r, E)
    <2> HIDE DEF q, E
    <2> QED
      BY <1>1, <1>7, <1>8 DEF Sends
  <1> QED
    BY <1>9

\* The handler of the breach that a request is working on is done.
LEMMA CreateSends ==
  ASSUME TypeOK, WellFormed, NEW r \in Requests, At(r, "create"), Handled(r, req[r].zone),
         spent'.faults = 0 => spent.faults = 0, UNCHANGED <<published, entries, exits>>
  PROVE  Sends(r, {})
  <1>1. req[r].zone \in req[r].pending
    BY DEF WellFormed, ItemFits, At
  <1>2. /\ Unpublished(req'[r]) = Unpublished(req[r])
        /\ \A o \in Requests : o # r => req'[o] = req[o]
    BY <1>1, HandledSends
  <1> QED
    BY <1>2 DEF Sends

\* A request that dies forgets what it held.
LEMMA AbortSends ==
  ASSUME TypeOK, NEW r \in Requests, Abort(r), spent'.faults # 0, UNCHANGED <<entries, exits>>
  PROVE  Sends(r, {})
  <1>1. Unpublished(Idle) = {}
    BY UnpublishedIs DEF Idle, Announcing
  <1>2. /\ req'[r] = Idle /\ \A o \in Requests : o # r => req'[o] = req[o]
        /\ published' = published
    BY DEF Abort, TypeOK
  <1> QED
    BY <1>1, <1>2 DEF Sends

LEMMA FindFailsSends ==
  ASSUME TypeOK, WellFormed, NEW r \in Requests, FindFails(r), spent'.faults # 0,
         UNCHANGED <<entries, exits>>
  PROVE  \E E : Sends(r, E)
  <1>1. PICK z \in req[r].pending :
          /\ published' = published \cup {EventOf(req[r], "entered", z)}
          /\ Handled(r, z)
    BY DEF FindFails
  <1>2. Sends(r, {EventOf(req[r], "entered", z)})
    BY <1>1, HandledSends DEF FindFails, Sends
  <1> QED
    BY <1>2

LEMMA ProjectStep ==
  ASSUME IInv, NEW r \in Requests, NEW u \in Updates, Project(r, u)
  PROVE  IInv'
  <1>1. OtherTypes' /\ UNCHANGED <<inside, alerts, entries, exits>>
    <2>1. TrackOf[u] \in Tracks /\ ObservedAt[u] \in Nat
      BY DataAssumption
    <2> QED
      BY <2>1 DEF Project, IInv, TypeOK, OtherTypes
  <1>2. CASE u \in Positionless
    <2>1. UNCHANGED req
      BY <1>2 DEF Project
    <2>2. TypeOK' /\ WellFormed'
      BY <1>1, <2>1 DEF Project, IInv, TypeOK, OtherTypes, WellFormed, ItemFits
    <2>3. Events' /\ OneAlertPerEvent' /\ OneUnresolved' /\ TransitionsAlternate'
      BY <1>1, <2>1 DEF IInv, Events, OneAlertPerEvent, OneUnresolved, Unresolved, TransitionsAlternate
    <2>4. EachPublishedOnce'
      BY <1>1, <2>1 DEF Project, IInv, EachPublishedOnce, Numbers
    <2> QED
      BY <2>2, <2>3, <2>4 DEF IInv
  <1>3. CASE u \notin Positionless
    <2>1. req' = [req EXCEPT ![r] = [Idle EXCEPT !.item = u, !.pc = "contain"]]
      BY <1>3 DEF Project
    <2>2. \E q : Moved(r, q) /\ Keeps(q, req[r])
      BY <2>1, StartMove DEF IInv, PCs
    <2>3. Sends(r, {})
      BY <2>1, StartSends DEF Project, IInv
    <2> QED
      BY <1>1, <2>2, <2>3, Quiet
  <1> QED
    BY <1>2, <1>3

LEMMA SubmitStep ==
  ASSUME IInv, NEW r \in Requests, NEW a \in Areas, Submit(r, a)
  PROVE  IInv'
  <1>1. spent' \in Budget
    BY SpentType DEF Submit, ReplayHandled, IInv, TypeOK
  <1>2. OtherTypes' /\ UNCHANGED <<inside, alerts, entries, exits>>
    BY <1>1 DEF Submit, IInv, TypeOK, OtherTypes
  <1>3. req' = [req EXCEPT ![r] = [Idle EXCEPT !.item = a, !.pc = "intersect"]]
    BY DEF Submit
  <1>4. \E q : Moved(r, q) /\ Keeps(q, req[r])
    BY <1>3, StartMove DEF IInv, PCs
  <1>5. spent'.faults = spent.faults
    BY DEF Submit, IInv, TypeOK, Budget
  <1>6. Sends(r, {})
    BY <1>3, <1>5, StartSends DEF Submit, IInv
  <1> QED
    BY <1>2, <1>4, <1>6, Quiet

LEMMA OneMore ==
  ASSUME NEW n \in Nat
  PROVE  1..n \subseteq 1..(n + 1) /\ (1..(n + 1)) \ (1..n) = {n + 1}
  OBVIOUS

\* New exits of subject s from the zones of L; only tracks leave.
Left(s, L) ==
  /\ \A u \in Tracks : u # s => exits'[u] = exits[u]
  /\ s \in Tracks => \A z \in Zones :
       exits'[s][z] = IF z \in L THEN exits[s][z] + 1 ELSE exits[s][z]
  /\ s \notin Tracks => L = {}

\* The request of a statement holds exactly what the statement committed.
LEMMA ReportCommits ==
  ASSUME TypeOK, WellFormed, NEW r \in Requests, req[r].item \in Updates \cup Areas,
         req[r].pc \notin {"publish", "create"},
         NEW S \in SUBSET Zones, NEW L \in SUBSET Zones, NEW number \in [Zones -> Nat],
         NEW s, s = Subject(req[r].item), Counted(s, S), Left(s, L),
         \A z \in S : number[z] = entries'[s][z],
         \A z \in L : number[z] = exits'[s][z],
         Report(r, S, L, number), UNCHANGED <<published, spent>>
  PROVE  Commits(r)
  <1> DEFINE q == Reporting(r, S, L, number)
             E(k, u, z, n) == [kind |-> k, subject |-> u, zone |-> z, number |-> n]
  <1>1. s \in Subjects
    BY SubjectType
  <1>2. /\ \A z \in S : entries'[s][z] = entries[s][z] + 1
        /\ \A z \in Zones \ S : entries'[s][z] = entries[s][z]
        /\ \A u \in Subjects : u # s => entries'[u] = entries[u]
    BY <1>1, CountedType
  <1>3. /\ Moved(r, q) /\ q.pending = S /\ q.leaving = L
        /\ S \cup L # {} => q.item = req[r].item /\ q.cause = number /\ q.pc = "publish"
    BY ReportMove
  <1>4. req'[r] = q /\ \A o \in Requests : o # r => req'[o] = req[o]
    BY <1>3, MovedType DEF TypeOK
  <1>5. Unpublished(req[r]) = {}
    BY NothingUnpublished DEF WellFormed
  <1>6. Unpublished(q) = {E("entered", s, z, number[z]) : z \in S}
                         \cup {E("exited", s, z, number[z]) : z \in L}
    <2>1. Announcing(q) = S
      <3>1. CASE S \cup L = {}
        BY <1>3, <3>1 DEF Announcing
      <3>2. CASE S \cup L # {}
        BY <1>3, <3>2 DEF Announcing
      <3> QED
        BY <3>1, <3>2
    <2>2. \A z \in S \cup L : \A k : EventOf(q, k, z) = E(k, s, z, number[z])
      <3> HIDE DEF q
      <3> QED
        BY <1>3 DEF EventOf
    <2> HIDE DEF q, E
    <2> QED
      BY <1>3, <2>1, <2>2, UnpublishedIs
  <1>7. \A z \in S : /\ Numbers("entered", s, z) \subseteq Numbers("entered", s, z)'
                     /\ Numbers("entered", s, z)' \ Numbers("entered", s, z) = {number[z]}
    <2> TAKE z \in S
    <2>1. entries[s][z] \in Nat /\ entries'[s][z] = entries[s][z] + 1 /\ number[z] = entries'[s][z]
      BY <1>1, <1>2 DEF TypeOK
    <2>2. /\ Numbers("entered", s, z) = 1..entries[s][z]
          /\ Numbers("entered", s, z)' = 1..entries'[s][z]
      BY DEF Numbers
    <2>9. /\ 1..entries[s][z] \subseteq 1..(entries[s][z] + 1)
          /\ (1..(entries[s][z] + 1)) \ (1..entries[s][z]) = {entries[s][z] + 1}
      BY <2>1, OneMore
    <2> QED
      BY <2>1, <2>2, <2>9
  <1>8. \A z \in L : /\ Numbers("exited", s, z) \subseteq Numbers("exited", s, z)'
                     /\ Numbers("exited", s, z)' \ Numbers("exited", s, z) = {number[z]}
    <2> TAKE z \in L
    <2>1. s \in Tracks
      BY DEF Left
    <2>2. exits[s][z] \in Nat /\ exits'[s][z] = exits[s][z] + 1 /\ number[z] = exits'[s][z]
      BY <2>1 DEF TypeOK, Left
    <2>3. /\ Numbers("exited", s, z) = 1..exits[s][z]
          /\ Numbers("exited", s, z)' = 1..exits'[s][z]
      BY <2>1 DEF Numbers
    <2>9. /\ 1..exits[s][z] \subseteq 1..(exits[s][z] + 1)
          /\ (1..(exits[s][z] + 1)) \ (1..exits[s][z]) = {exits[s][z] + 1}
      BY <2>2, OneMore
    <2> QED
      BY <2>2, <2>3, <2>9
  <1>9. ASSUME NEW k \in {"entered", "exited"}, NEW u \in Subjects, NEW z \in Zones,
               ~(u = s /\ k = "entered" /\ z \in S), ~(u = s /\ k = "exited" /\ z \in L)
        PROVE  Numbers(k, u, z)' = Numbers(k, u, z)
    <2>1. CASE k = "entered"
      <3>1. entries'[u][z] = entries[u][z]
        BY <1>2, <1>9, <2>1
      <3> QED
        BY <2>1, <3>1 DEF Numbers
    <2>2. CASE k = "exited" /\ u \in Tracks
      <3>1. exits'[u][z] = exits[u][z]
        BY <1>9, <2>2 DEF Left
      <3> QED
        BY <2>2, <3>1 DEF Numbers
    <2>3. CASE k = "exited" /\ u \notin Tracks
      BY <2>3 DEF Numbers
    <2> QED
      BY <2>1, <2>2, <2>3
  <1>10. ASSUME NEW k \in {"entered", "exited"}, NEW u \in Subjects, NEW z \in Zones
         PROVE  /\ Numbers(k, u, z) \subseteq Numbers(k, u, z)'
                /\ \A n \in Numbers(k, u, z)' \ Numbers(k, u, z) : E(k, u, z, n) \in Unpublished(q)
    <2>1. CASE u = s /\ k = "entered" /\ z \in S
      <3> HIDE DEF E, q
      <3> QED
        BY <1>6, <1>7, <2>1
    <2>2. CASE u = s /\ k = "exited" /\ z \in L
      <3> HIDE DEF E, q
      <3> QED
        BY <1>6, <1>8, <2>2
    <2>3. CASE ~(u = s /\ k = "entered" /\ z \in S) /\ ~(u = s /\ k = "exited" /\ z \in L)
      BY <1>9, <2>3
    <2> QED
      BY <2>1, <2>2, <2>3
  <1>11. ASSUME NEW e \in Unpublished(q)
         PROVE  e.number \in Numbers(e.kind, e.subject, e.zone)' \ Numbers(e.kind, e.subject, e.zone)
    <2>1. CASE \E z \in S : e = E("entered", s, z, number[z])
      <3>1. PICK z \in S : e = E("entered", s, z, number[z])
        BY <2>1
      <3>2. e.kind = "entered" /\ e.subject = s /\ e.zone = z /\ e.number = number[z]
        BY <3>1
      <3> QED
        BY <1>7, <3>2
    <2>2. CASE \E z \in L : e = E("exited", s, z, number[z])
      <3>1. PICK z \in L : e = E("exited", s, z, number[z])
        BY <2>2
      <3>2. e.kind = "exited" /\ e.subject = s /\ e.zone = z /\ e.number = number[z]
        BY <3>1
      <3> QED
        BY <1>8, <3>2
    <2> HIDE DEF q, E
    <2> QED
      BY <1>6, <1>11, <2>1, <2>2
  <1> QED
    BY <1>4, <1>5, <1>10, <1>11 DEF Commits

LEMMA ReconcileStep ==
  ASSUME IInv, NEW r \in Requests, Reconcile(r)
  PROVE  IInv'
  <1> DEFINE q == req[r]
             t == TrackOf[q.item]
             In == Entered(q, t)
             Out == Exited(q, t)
  <1>1. q \in Request /\ ItemFits(q) /\ q.pc = "locked"
    BY DEF IInv, TypeOK, WellFormed, Reconcile, At
  <1>2. /\ q.item \in Updates
        /\ t \in Tracks /\ t \in Subjects
        /\ Subject(q.item) = t
    BY <1>1, DataAssumption DEF ItemFits, Subject, Subjects
  <1>3. /\ In \in SUBSET Zones
        /\ Out \in SUBSET Zones
        /\ \A z \in In : z \notin Out /\ inside[t][z] # "in"
        /\ \A z \in Out : inside[t][z] = "in"
    BY <1>1 DEF Request, Entered, Exited
  <1>4. Counted(t, In)
    BY DEF Reconcile, Counted
  <1>5. /\ entries' \in [Subjects -> [Zones -> Nat]]
        /\ \A z \in In : entries'[t][z] = entries[t][z] + 1
        /\ \A z \in Zones \ In : entries'[t][z] = entries[t][z]
        /\ \A u \in Subjects : u # t => entries'[u] = entries[u]
    BY <1>2, <1>3, <1>4, CountedType DEF IInv
  <1>10. /\ inside' \in [Tracks -> [Zones -> Rows]]
         /\ \A u \in Tracks : u # t => inside'[u] = inside[u]
         /\ \A z \in Zones : inside'[t][z] = IF z \in In THEN "in"
                                             ELSE IF z \in Out THEN "out" ELSE inside[t][z]
    <2>1. inside' = [inside EXCEPT ![t] =
            [z \in Zones |-> IF z \in In THEN "in"
                             ELSE IF z \in Out THEN "out" ELSE inside[t][z]]]
      BY DEF Reconcile
    <2>2. inside \in [Tracks -> [Zones -> Rows]]
      BY DEF IInv, TypeOK
    <2>3. [z \in Zones |-> IF z \in In THEN "in"
                           ELSE IF z \in Out THEN "out" ELSE inside[t][z]] \in [Zones -> Rows]
      BY <1>2, <2>2 DEF Rows
    <2> QED
      BY <1>2, <2>1, <2>2, <2>3
  <1>11. /\ exits' \in [Tracks -> [Zones -> Nat]]
         /\ \A u \in Tracks : u # t => exits'[u] = exits[u]
         /\ \A z \in Zones : exits'[t][z] = IF z \in Out THEN exits[t][z] + 1 ELSE exits[t][z]
    <2>1. exits' = [exits EXCEPT ![t] =
            [z \in Zones |-> IF z \in Out THEN exits[t][z] + 1 ELSE exits[t][z]]]
      BY DEF Reconcile
    <2>2. exits \in [Tracks -> [Zones -> Nat]]
      BY DEF IInv, TypeOK
    <2>3. [z \in Zones |-> IF z \in Out THEN exits[t][z] + 1 ELSE exits[t][z]] \in [Zones -> Nat]
      BY <1>2, <2>2
    <2> QED
      BY <1>2, <2>1, <2>2, <2>3
  <1> DEFINE number == [z \in Zones |-> IF z \in Out THEN exits'[t][z] ELSE entries'[t][z]]
  <1>6. Report(r, In, Out, number) /\ UNCHANGED <<alerts, published, spent>>
    BY DEF Reconcile
  <1>8. /\ number \in [Zones -> Nat]
        /\ \A z \in In : number[z] = entries'[t][z]
        /\ \A z \in Out : number[z] = exits'[t][z]
    <2>1. \A z \in Zones : entries'[t][z] \in Nat /\ exits'[t][z] \in Nat
      BY <1>2, <1>5, <1>11
    <2> QED
      BY <1>3, <2>1
  <1>7. Events' /\ OneAlertPerEvent'
    <2> HIDE DEF number, In, Out
    <2> QED
      BY <1>1, <1>2, <1>3, <1>4, <1>6, <1>8, ReportEvents DEF IInv
  <1>9. req' \in [Requests -> Request] /\ WellFormed'
    <2> HIDE DEF number, In, Out
    <2>1. Moved(r, Reporting(r, In, Out, number))
      BY <1>2, <1>3, <1>6, <1>8, ReportMove DEF IInv
    <2> QED
      BY <2>1, MovedType DEF IInv, TypeOK
  <1>16. EachPublishedOnce'
    <2> HIDE DEF number, In, Out
    <2>1. Left(t, Out)
      BY <1>2, <1>11 DEF Left
    <2>2. Commits(r)
      BY <1>1, <1>2, <1>3, <1>4, <1>6, <1>8, <2>1, ReportCommits DEF IInv
    <2> QED
      BY <2>2, CommitsOnce DEF IInv
  <1>12. TypeOK'
    BY <1>5, <1>9, <1>10, <1>11 DEF Reconcile, IInv, TypeOK
  <1>13. OneUnresolved'
    BY <1>6 DEF IInv, OneUnresolved, Unresolved
  <1>14. ASSUME NEW u \in Tracks, NEW z \in Zones
         PROVE  entries'[u][z] = exits'[u][z] + IF inside'[u][z] = "in" THEN 1 ELSE 0
    <2>1. /\ entries[u][z] = exits[u][z] + IF inside[u][z] = "in" THEN 1 ELSE 0
          /\ exits[u][z] \in Nat
      BY DEF IInv, TypeOK, TransitionsAlternate
    <2>2. CASE u # t
      <3>1. entries'[u] = entries[u]
        BY <1>5, <2>2 DEF Subjects
      <3> QED
        BY <1>10, <1>11, <2>1, <2>2, <3>1
    <2>3. CASE u = t /\ z \in In
      <3>1. z \notin Out /\ inside[t][z] # "in"
        BY <1>3, <2>3
      <3>2. entries'[t][z] = entries[t][z] + 1 /\ inside'[t][z] = "in" /\ exits'[t][z] = exits[t][z]
        BY <1>5, <1>10, <1>11, <2>3, <3>1
      <3> HIDE DEF t, In, Out
      <3> QED
        BY <2>1, <2>3, <3>1, <3>2
    <2>4. CASE u = t /\ z \notin In /\ z \in Out
      <3>1. inside[t][z] = "in" /\ z \in Zones \ In
        BY <1>3, <2>4
      <3>2. entries'[t][z] = entries[t][z] /\ inside'[t][z] = "out" /\ exits'[t][z] = exits[t][z] + 1
        BY <1>5, <1>10, <1>11, <2>4, <3>1
      <3> HIDE DEF t, In, Out
      <3> QED
        BY <2>1, <2>4, <3>1, <3>2
    <2>5. CASE u = t /\ z \notin In /\ z \notin Out
      BY <1>3, <1>5, <1>10, <1>11, <2>1, <2>5
    <2> QED
      BY <2>2, <2>3, <2>4, <2>5
  <1>15. TransitionsAlternate'
    BY <1>14 DEF TransitionsAlternate
  <1> QED
    BY <1>7, <1>9, <1>12, <1>13, <1>15, <1>16 DEF IInv

LEMMA IntersectStep ==
  ASSUME IInv, NEW r \in Requests, Intersect(r)
  PROVE  IInv'
  <1> DEFINE a == req[r].item
             zones == Overlapping[a] \cap active
  <1>1. a \in Areas
    BY DEF IInv, WellFormed, ItemFits, Intersect, At
  <1>2. a \in Subjects /\ a \notin Tracks /\ Subject(a) = a /\ zones \in SUBSET Zones
    BY <1>1, DataAssumption DEF Subject, Subjects
  <1>3. Counted(a, zones) /\ Report(r, zones, {}, entries'[a])
    BY DEF Intersect, Counted
  <1>4. UNCHANGED <<active, projected, lastSeen, inside, stored, alerts, exits, published, spent>>
    BY DEF Intersect
  <1>5. /\ entries' \in [Subjects -> [Zones -> Nat]]
        /\ \A u \in Subjects : u # a => entries'[u] = entries[u]
    BY <1>2, <1>3, CountedType DEF IInv
  <1>12. entries'[a] \in [Zones -> Nat]
    BY <1>2, <1>5
  <1>6. Events' /\ OneAlertPerEvent'
    <2> HIDE DEF zones
    <2> QED
      BY <1>1, <1>2, <1>3, <1>4, <1>12, ReportEvents DEF IInv
  <1>7. req' \in [Requests -> Request] /\ WellFormed'
    <2>1. Moved(r, Reporting(r, zones, {}, entries'[a]))
      BY <1>1, <1>2, <1>3, <1>12, ReportMove DEF IInv
    <2> QED
      BY <2>1, MovedType DEF IInv, TypeOK
  <1>13. EachPublishedOnce'
    <2> HIDE DEF zones
    <2>1. Left(a, {})
      BY <1>2, <1>4 DEF Left
    <2>2. req[r].pc \notin {"publish", "create"}
      BY DEF Intersect, At
    <2>3. Commits(r)
      BY <1>1, <1>2, <1>3, <1>4, <1>12, <2>1, <2>2, ReportCommits DEF IInv
    <2> QED
      BY <2>3, CommitsOnce DEF IInv
  <1>8. TypeOK'
    BY <1>4, <1>5, <1>7 DEF IInv, TypeOK
  <1>9. OneUnresolved'
    BY <1>4 DEF IInv, OneUnresolved, Unresolved
  <1>10. \A t \in Tracks : entries'[t] = entries[t]
    BY <1>2, <1>5 DEF Subjects
  <1>11. TransitionsAlternate'
    BY <1>4, <1>10 DEF IInv, TransitionsAlternate
  <1> QED
    BY <1>6, <1>7, <1>8, <1>9, <1>11, <1>13 DEF IInv

\* The insert of an alert, made, refused, failed or unanswered.
LEMMA RaiseStep ==
  ASSUME IInv, NEW r \in Requests, At(r, "create"), Insert(r) \/ UNCHANGED alerts,
         Handled(r, req[r].zone), UNCHANGED <<inside, entries, exits, published>>, OtherTypes',
         spent'.faults = 0 => spent.faults = 0
  PROVE  IInv'
  <1>1. /\ Events' /\ OneAlertPerEvent' /\ OneUnresolved'
        /\ alerts' \in Seq(Alert)
        /\ \E q : Moved(r, q)
    BY RaiseEvents DEF IInv
  <1>2. req' \in [Requests -> Request] /\ WellFormed'
    BY <1>1, MovedType DEF IInv, TypeOK
  <1>3. TypeOK'
    BY <1>1, <1>2 DEF IInv, TypeOK, OtherTypes
  <1>4. TransitionsAlternate'
    BY DEF IInv, TransitionsAlternate
  <1>5. Sends(r, {})
    BY CreateSends DEF IInv
  <1>6. EachPublishedOnce'
    BY <1>5, SendsOnce DEF IInv
  <1> QED
    BY <1>1, <1>2, <1>3, <1>4, <1>6 DEF IInv

LEMMA FaultStep ==
  ASSUME IInv, NEW r \in Requests, Fault(r)
  PROVE  IInv'
  <1>1. spent' \in Budget
    BY SpentType DEF Fault, IInv, TypeOK
  <1>2. OtherTypes' /\ UNCHANGED <<inside, entries, exits>>
    BY <1>1 DEF Fault, IInv, TypeOK, OtherTypes
  <1>6. spent'.faults # 0
    BY DEF Fault, IInv, TypeOK, Budget
  <1>3. CASE Abort(r)
    <2>1. (\E q : Moved(r, q) /\ Keeps(q, req[r])) /\ UNCHANGED alerts
      BY <1>3, AbortMove DEF IInv, Abort
    <2>2. Sends(r, {})
      BY <1>2, <1>3, <1>6, AbortSends DEF IInv
    <2> QED
      BY <1>2, <2>1, <2>2, Quiet
  <1>4. CASE FindFails(r)
    <2>1. (\E q : Moved(r, q) /\ Keeps(q, req[r])) /\ UNCHANGED alerts
      BY <1>4, FindFailsMove DEF IInv, FindFails
    <2>2. \E E : Sends(r, E)
      BY <1>2, <1>4, <1>6, FindFailsSends DEF IInv
    <2> QED
      BY <1>2, <2>1, <2>2, Quiet
  <1>5. CASE CreateFails(r)
    BY <1>2, <1>5, <1>6, RaiseStep DEF CreateFails
  <1> QED
    BY <1>3, <1>4, <1>5 DEF Fault

LEMMA StaysOnce ==
  ASSUME EachPublishedOnce, UNCHANGED <<req, published, entries, exits>>,
         spent'.faults = spent.faults
  PROVE  EachPublishedOnce'
  BY DEF EachPublishedOnce, Numbers

LEMMA OperatorStep ==
  ASSUME IInv, NEW i \in 1..Len(alerts), Acknowledge(i) \/ Resolve(i)
  PROVE  IInv'
  <1>1. /\ Unresolved(i)
        /\ Marked(i, "ACKNOWLEDGED") \/ Marked(i, "RESOLVED")
        /\ UNCHANGED <<active, projected, lastSeen, inside, stored, entries, exits, published, req>>
    BY DEF Acknowledge, Resolve, Marked, Unresolved
  <1>2. spent' \in Budget
    BY SpentType DEF Acknowledge, Resolve, IInv, TypeOK
  <1>3. Events' /\ OneAlertPerEvent' /\ OneUnresolved' /\ alerts' \in Seq(Alert)
    BY <1>1, MarkedEvents DEF IInv
  <1>4. TypeOK'
    BY <1>1, <1>2, <1>3 DEF IInv, TypeOK
  <1>5. WellFormed'
    BY <1>1 DEF IInv, WellFormed
  <1>6. TransitionsAlternate'
    BY <1>1 DEF IInv, TransitionsAlternate
  <1>7. spent'.faults = spent.faults
    BY DEF Acknowledge, Resolve, IInv, TypeOK, Budget
  <1>8. EachPublishedOnce'
    BY <1>1, <1>7, StaysOnce DEF IInv
  <1> QED
    BY <1>3, <1>4, <1>5, <1>6, <1>8 DEF IInv

LEMMA SetActiveStep ==
  ASSUME IInv, NEW z \in Zones, SetActive(z)
  PROVE  IInv'
  <1>1. spent' \in Budget
    BY SpentType DEF SetActive, IInv, TypeOK
  <1>2. UNCHANGED <<projected, lastSeen, inside, stored, alerts, entries, exits, published, req>>
    BY DEF SetActive
  <1>3. active' \subseteq Zones
    BY DEF SetActive, IInv, TypeOK
  <1>4. TypeOK'
    BY <1>1, <1>2, <1>3 DEF IInv, TypeOK
  <1>5. WellFormed' /\ Events'
    BY <1>2 DEF IInv, WellFormed, Events
  <1>6. OneAlertPerEvent' /\ OneUnresolved' /\ TransitionsAlternate'
    BY <1>2 DEF IInv, OneAlertPerEvent, OneUnresolved, Unresolved, TransitionsAlternate
  <1>7. spent'.faults = spent.faults
    BY DEF SetActive, IInv, TypeOK, Budget
  <1>8. EachPublishedOnce'
    BY <1>2, <1>7, StaysOnce DEF IInv
  <1> QED
    BY <1>4, <1>5, <1>6, <1>8 DEF IInv

LEMMA RequestStep ==
  ASSUME IInv, NEW r \in Requests, Step(r)
  PROVE  IInv'
  <1>1. CASE Contain(r)
    <2>1. OtherTypes' /\ UNCHANGED <<inside, alerts, entries, exits>>
      BY <1>1 DEF Contain, IInv, TypeOK, OtherTypes
    <2> QED
      BY <1>1, <2>1, ContainMove, ReadSends, Quiet DEF IInv
  <1>2. CASE BeginReconcile(r)
    <2>1. OtherTypes' /\ UNCHANGED <<inside, alerts, entries, exits>>
      BY <1>2 DEF BeginReconcile, IInv, TypeOK, OtherTypes
    <2> QED
      BY <1>2, <2>1, BeginReconcileMove, ReadSends, Quiet DEF IInv
  <1>3. CASE Reconcile(r)
    BY <1>3, ReconcileStep
  <1>4. CASE Intersect(r)
    BY <1>4, IntersectStep
  <1>5. CASE Find(r)
    <2>1. OtherTypes' /\ UNCHANGED <<inside, alerts, entries, exits>>
      BY <1>5 DEF Find, IInv, TypeOK, OtherTypes
    <2> QED
      BY <1>5, <2>1, FindMove, FindSends, Quiet DEF IInv
  <1>6. CASE Create(r)
    <2>1. OtherTypes' /\ UNCHANGED <<inside, entries, exits, published, spent>>
      BY <1>6 DEF Create, IInv, TypeOK, OtherTypes
    <2> QED
      BY <1>6, <2>1, RaiseStep DEF Create
  <1>7. CASE \E z \in Zones : PublishExit(r, z)
    <2>1. PICK z \in Zones : PublishExit(r, z)
      BY <1>7
    <2>2. OtherTypes' /\ UNCHANGED <<inside, alerts, entries, exits>>
      BY <2>1 DEF PublishExit, IInv, TypeOK, OtherTypes
    <2> QED
      BY <2>1, <2>2, PublishExitMove, PublishExitSends, Quiet DEF IInv
  <1> QED
    BY <1>1, <1>2, <1>3, <1>4, <1>5, <1>6, <1>7 DEF Step

LEMMA StutterStep ==
  ASSUME IInv, UNCHANGED vars
  PROVE  IInv'
  <1>1. TypeOK' /\ WellFormed' /\ Events'
    BY DEF vars, IInv, TypeOK, WellFormed, Events
  <1>2. OneAlertPerEvent' /\ OneUnresolved' /\ TransitionsAlternate'
    BY DEF vars, IInv, OneAlertPerEvent, OneUnresolved, Unresolved, TransitionsAlternate
  <1>3. EachPublishedOnce'
    BY StaysOnce DEF vars, IInv
  <1> QED
    BY <1>1, <1>2, <1>3 DEF IInv

LEMMA NextStep ==
  ASSUME IInv, [Next]_vars
  PROVE  IInv'
  <1>1. CASE \E r \in Requests, u \in Updates : Project(r, u)
    BY <1>1, ProjectStep
  <1>2. CASE \E r \in Requests, a \in Areas : Submit(r, a)
    BY <1>2, SubmitStep
  <1>3. CASE \E r \in Requests : Step(r)
    BY <1>3, RequestStep
  <1>4. CASE \E r \in Requests : Fault(r)
    BY <1>4, FaultStep
  <1>5. CASE \E i \in 1..Len(alerts) : Acknowledge(i) \/ Resolve(i)
    BY <1>5, OperatorStep
  <1>6. CASE \E z \in Zones : SetActive(z)
    BY <1>6, SetActiveStep
  <1>7. CASE UNCHANGED vars
    BY <1>7, StutterStep
  <1> QED
    BY <1>1, <1>2, <1>3, <1>4, <1>5, <1>6, <1>7 DEF Next

-----------------------------------------------------------------------------
(* Theorems                                                                *)

\* The invariant behind the others: every transition and overlap on its way to its
\* publication or to the alerts service was committed or found, travels with one
\* request, is published once and has raised nothing.
THEOREM Invariance == Spec => []IInv
  <1>1. Init => IInv
    BY InitIInv
  <1>2. IInv /\ [Next]_vars => IInv'
    BY NextStep
  <1> QED
    BY <1>1, <1>2, PTL DEF Spec

\* Every variable keeps its type: alerts have only the three states of their table,
\* and no bound is exceeded.
THEOREM TypeCorrect == Spec => []TypeOK
  <1>1. IInv => TypeOK
    BY DEF IInv
  <1> QED
    BY <1>1, Invariance, PTL

\* No two unresolved alerts of one zone and subject, by the read of the handlers and
\* the partial unique indexes behind it; no alert without an event of its own, and no
\* event with two alerts, although CreateAlert may commit without an answer.
THEOREM AlertsUnique == Spec => []AlertsAreUnique
  <1>1. IInv => AlertsAreUnique
    BY DEF IInv, AlertsAreUnique
  <1> QED
    BY <1>1, Invariance, PTL

\* The entries and exits of a track and zone that reconciliations commit and return
\* alternate, although ReconcileGeofenceStates decides on stale snapshots.  Nothing is
\* said of the order in which they are published afterwards.
THEOREM Alternation == Spec => []TransitionsAlternate
  <1>1. IInv => TransitionsAlternate
    BY DEF IInv
  <1> QED
    BY <1>1, Invariance, PTL

\* What HandleTrackUpdated and arearule's handler publish after the commit: no
\* transition twice or by two requests, none that was not committed, and without a
\* fault each of them.
THEOREM Publication == Spec => []EachPublishedOnce
  <1>1. IInv => EachPublishedOnce
    BY DEF IInv
  <1> QED
    BY <1>1, Invariance, PTL

=============================================================================
