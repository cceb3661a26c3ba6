------------------------------- MODULE Gateway -------------------------------
(***************************************************************************)
(* The way of a request through the server: the middleware that finds out  *)
(* who asks and whether the role may, the handler that commits and         *)
(* publishes, and the dispatcher that calls the subscribers of an event,   *)
(* one after the other, in the request that published it; an event a       *)
(* subscriber publishes is dispatched inside it.  Runs of scenarios and    *)
(* the freshness monitor publish without a request.                        *)
(*                                                                         *)
(* The tables of routes are AccessPolicy's.  What a domain handler does    *)
(* to its rows is the other modules' subject: here it is refused, or it    *)
(* commits and publishes.                                                  *)
(***************************************************************************)
EXTENDS AccessPolicy, Listing

CONSTANTS
  Operators, DefaultOperator, Tokens, None,
  Settings,      \* configurations somebody may write
  Given,         \* the operators table at the start: roles by id
  Desks,
  Shifts,        \* the desks that are busy in one behaviour; with none, a list is read
  Calls,         \* the calls a desk may make
  Background,    \* the desks that publish without a request
  Evidence,      \* what an assessment may cite
  MaxFaults      \* bound of the model: failed statements, panics

Scenario == "scenario:run"
Actors == Operators \cup {None, Scenario}

\* The ids of operators are those that do not begin like a run's. The code does not check
\* it: an operator registered as one would be journalled as a scenario.
ASSUME GatewayAssumption ==
  /\ DefaultOperator \in Operators
  /\ None \notin Operators \cup Tokens /\ Scenario \notin Operators
  /\ \E S \in SUBSET Operators : Given \in [S -> Roles]
  /\ Shifts \subseteq SUBSET Desks
  /\ MaxFaults \in Nat

\* What a call is made of; whoever registers an operator names one.
ASSUME CallAssumption ==
  /\ Calls \in [Desks -> SUBSET
       [token : Tokens \cup {None}, header : Operators \cup {None}, method : STRING, path : Seq(STRING),
        newcomer : Operators \cup {None}, role : Roles, evidence : SUBSET Evidence]]
  /\ \A d \in Desks : \A call \in Calls[d] :
       call.path = <<"operators">> /\ call.method = "POST" => call.newcomer \in Operators

-----------------------------------------------------------------------------
(* Configuration                                                           *)

Environments == {"development", "test", "staging", "production"}
Relaxed == {"development", "test"}

Valid(s) ==
  /\ s.environment \in Environments
  /\ s.environment \notin Relaxed => s.required /\ DOMAIN s.tokens # {}

\* Ensure: the default operator exists, whatever its role was before.
Ensure(table0) ==
  IF DefaultOperator \in DOMAIN table0 THEN table0
  ELSE [o \in DOMAIN table0 \cup {DefaultOperator} |->
          IF o = DefaultOperator THEN "operator" ELSE table0[o]]

-----------------------------------------------------------------------------
(* The bus                                                                 *)

AllTopics ==
  {"source.created", "source.updated", "observation.received", "observation.rejected",
   "asset.created", "asset.updated", "asset.position.updated", "asset.connection.changed",
   "telemetry.received", "entity.freshness.changed", "area.geofence.overlapped",
   "track.created", "track.updated", "track.closed", "classification.created",
   "geofence.created", "geofence.breached", "geofence.exited", "alert.created",
   "alert.acknowledged", "alert.resolved", "incident.created", "incident.updated",
   "mission.created", "mission.updated", "command.issued", "command.status.changed",
   "assessment.created", "scenario.run.started", "scenario.run.updated", "scenario.run.ended"}

RunTopics == {"scenario.run.started", "scenario.run.updated", "scenario.run.ended"}

\* The topics audit.SubscribeAll names.
Audited == AllTopics \ {"entity.freshness.changed", "area.geofence.overlapped"}

DomainSubscribers(topic) ==
  CASE topic = "observation.received" -> <<"tracks", "arearule">>
    [] topic = "track.updated"        -> <<"geospatial">>
    [] topic \in {"geofence.breached", "area.geofence.overlapped"} -> <<"alerts">>
    [] OTHER                          -> <<>>

HubFirst(topic) ==
  <<"metrics">> \o (IF topic \in Audited THEN <<"audit">> ELSE <<>>)
    \o <<"hub">> \o DomainSubscribers(topic)
    \o (IF topic = "command.issued" THEN <<"scenarios">> ELSE <<>>)

\* app.New subscribes in this order.
Subscribers(topic) ==
  <<"metrics">> \o (IF topic \in Audited THEN <<"audit">> ELSE <<>>)
    \o DomainSubscribers(topic) \o <<"hub">>
    \o (IF topic = "command.issued" THEN <<"scenarios">> ELSE <<>>)

\* The events a subscriber may publish about one event.
Publishes(subscriber, topic) ==
  CASE subscriber = "tracks"     -> {<<>>, <<"track.updated">>, <<"track.created">>,
                                     <<"track.created", "track.updated">>}
    [] subscriber = "arearule"   -> {<<>>, <<"area.geofence.overlapped">>}
    [] subscriber = "geospatial" -> {<<>>, <<"geofence.breached">>, <<"geofence.exited">>,
                                     <<"geofence.exited", "geofence.breached">>}
    [] subscriber = "alerts"     -> {<<>>, <<"alert.created">>}
    [] OTHER                     -> {<<>>}

\* The events that carry the operator who acted.
Attributed == {"alert.acknowledged", "alert.resolved", "incident.created", "incident.updated",
               "mission.created", "mission.updated", "command.issued", "command.status.changed"}

\* The events a handler publishes once it has committed; an observation that cannot be
\* stored is published as rejected. Whoever stops or restarts a run publishes its end,
\* unless somebody has; a restart may end the old run and fail to start the new one.
Announces(call) ==
  LET p == call.path
      verb == p[Len(p)]
      Either(made, changed) == {IF Len(p) = 1 THEN <<made>> ELSE <<changed>>} IN
  CASE call.method = "GET" -> {<<>>}
    [] call.method # "GET" /\ p[1] = "observations" ->
         {<<"observation.received">>, <<"observation.rejected">>, <<>>}
    [] call.method # "GET" /\ p[1] = "telemetry" ->
         {<<"telemetry.received">>, <<"asset.position.updated", "telemetry.received">>,
          <<"asset.connection.changed", "telemetry.received">>,
          <<"asset.position.updated", "asset.connection.changed", "telemetry.received">>}
    [] call.method # "GET" /\ p[1] = "alerts" ->
         {IF verb = "resolve" THEN <<"alert.resolved">> ELSE <<"alert.acknowledged">>}
    [] call.method # "GET" /\ p[1] = "commands"  -> Either("command.issued", "command.status.changed")
    [] call.method # "GET" /\ p[1] = "incidents" -> Either("incident.created", "incident.updated")
    [] call.method # "GET" /\ p[1] = "missions"  -> Either("mission.created", "mission.updated")
    [] call.method # "GET" /\ p[1] = "sources"   -> Either("source.created", "source.updated")
    [] call.method # "GET" /\ p[1] = "assets"    -> Either("asset.created", "asset.updated")
    [] call.method # "GET" /\ p = <<"geofences">> -> {<<"geofence.created">>}
    [] call.method # "GET" /\ p[1] = "classifications" -> {<<"classification.created">>}
    [] call.method # "GET" /\ p[1] = "assessments" -> {<<"assessment.created">>}
    [] call.method # "GET" /\ p[1] = "scenarios" ->
         CASE verb = "start"                       -> {<<"scenario.run.started">>}
           [] verb = "restart" ->
                {<<"scenario.run.started">>, <<"scenario.run.ended">>,
                 <<"scenario.run.ended", "scenario.run.started">>}
           [] verb = "stop"                        -> {<<"scenario.run.ended">>, <<>>}
           [] verb \in {"pause", "resume", "speed"} -> {<<"scenario.run.updated">>}
           [] OTHER                                -> {<<>>}
    [] OTHER -> {<<>>}

-----------------------------------------------------------------------------
VARIABLES
  settings, shift,
  registered,    \* the operators table
  cited,         \* assessment_evidence, by the desk that created the assessment
  desk,
  faults

gateway == <<settings, shift, registered, cited, desk, faults>>
vars == <<gateway, listing>>

NoCall == [token |-> None, header |-> None, method |-> "GET", path |-> <<>>, newcomer |-> None,
           role |-> "operator", evidence |-> {}]

\* One request, or one publication of the background: who acts, what is left to publish,
\* the dispatches under way (innermost last), and what has come of it.
Idle == [pc |-> "idle", call |-> NoCall, operator |-> None, role |-> "none", status |-> 0,
         plan |-> <<>>, stack |-> <<>>, published |-> <<>>, invoked |-> <<>>,
         journal |-> <<>>, sent |-> <<>>]

At(d, label) == desk[d].pc = label
Turn(d, s) == desk' = [desk EXCEPT ![d] = s]
Answer(d, status) == Turn(d, [desk[d] EXCEPT !.pc = "done", !.status = status])

\* A statement fails, or a handler panics.
Fail == faults < MaxFaults /\ faults' = faults + 1

-----------------------------------------------------------------------------
(* The middleware                                                          *)

Receive(d, call) ==
  /\ At(d, "idle") /\ d \notin Background
  /\ Turn(d, [Idle EXCEPT !.pc = "authenticate", !.call = call])
  /\ UNCHANGED <<settings, shift, registered, cited, faults>>

HeaderFirst(call) ==
  IF call.header # None THEN call.header
  ELSE IF call.token \in DOMAIN settings.tokens THEN settings.tokens[call.token]
  ELSE IF settings.required THEN None ELSE DefaultOperator

\* bearerSubject; the header and the default only without Required.
Subject(call) ==
  CASE call.token \in DOMAIN settings.tokens -> settings.tokens[call.token]
    [] call.token \notin DOMAIN settings.tokens /\ ~settings.required ->
         IF call.header # None THEN call.header ELSE DefaultOperator
    [] OTHER -> None

\* The subject is looked up in the operators table; a failed lookup is a 401 too.
Authenticate(d) ==
  LET who == Subject(desk[d].call) IN
  /\ At(d, "authenticate")
  /\ \/ /\ who \in DOMAIN registered
        /\ Turn(d, [desk[d] EXCEPT !.pc = "authorize", !.operator = who, !.role = registered[who]])
        /\ UNCHANGED faults
     \/ who \notin DOMAIN registered /\ Answer(d, 401) /\ UNCHANGED faults
     \/ who # None /\ Fail /\ Answer(d, 401)
  /\ UNCHANGED <<settings, shift, registered, cited>>

Granted(role, call) ==
  LET policy == PolicyFor(call.method, call.path) IN
  policy # Unknown /\ (policy = Open \/ Allows(role, policy))

Authorize(d) ==
  LET q == desk[d] IN
  /\ At(d, "authorize")
  /\ \/ ~Granted(q.role, q.call) /\ Answer(d, 403)
     \/ /\ Granted(q.role, q.call)
        /\ IF Routed(q.call.method, q.call.path) THEN Turn(d, [q EXCEPT !.pc = "handle"])
           ELSE Answer(d, 404)
  /\ UNCHANGED <<settings, shift, registered, cited, faults>>

-----------------------------------------------------------------------------
(* The handlers                                                            *)

\* Invalid input, a missing row, a conflict; or a statement fails.
Refuse(d) ==
  /\ At(d, "handle")
  /\ \/ Answer(d, 400) /\ UNCHANGED faults
     \/ Fail /\ Answer(d, 500)
  /\ UNCHANGED <<settings, shift, registered, cited>>

PostsTo(call, name) == call.method = "POST" /\ call.path = <<name>>

CreateOperator(d) ==
  LET call == desk[d].call IN
  /\ At(d, "handle") /\ PostsTo(call, "operators")
  /\ \/ /\ call.newcomer \notin DOMAIN registered
        /\ registered' = [o \in DOMAIN registered \cup {call.newcomer} |->
                            IF o = call.newcomer THEN call.role ELSE registered[o]]
        /\ Answer(d, 201)
     \/ call.newcomer \in DOMAIN registered /\ Answer(d, 409) /\ UNCHANGED registered
  /\ UNCHANGED <<settings, shift, cited, faults>>

\* The assessment's row, and then a statement for each citation.
CreateAssessment(d) ==
  /\ At(d, "handle") /\ PostsTo(desk[d].call, "assessments")
  /\ Turn(d, [desk[d] EXCEPT !.pc = "cite"])
  /\ UNCHANGED <<settings, shift, registered, cited, faults>>

CiteNothing(d) ==
  /\ At(d, "cite")
  /\ Turn(d, [desk[d] EXCEPT !.pc = "publish", !.plan = <<"assessment.created">>])
  /\ UNCHANGED <<settings, shift, registered, cited, faults>>

AddEvidence(d) ==
  LET rest == desk[d].call.evidence \ cited[d] IN
  /\ At(d, "cite")
  /\ \/ /\ rest = {}
        /\ Turn(d, [desk[d] EXCEPT !.pc = "publish", !.plan = <<"assessment.created">>])
        /\ UNCHANGED <<cited, faults>>
     \/ \E e \in rest : cited' = [cited EXCEPT ![d] = @ \cup {e}] /\ UNCHANGED <<desk, faults>>
     \/ rest # {} /\ Fail /\ Answer(d, 500) /\ UNCHANGED cited
  /\ UNCHANGED <<settings, shift, registered>>

\* Every other handler: what it commits is not this module's.
Commit(d) ==
  LET call == desk[d].call IN
  /\ At(d, "handle") /\ ~PostsTo(call, "operators") /\ ~PostsTo(call, "assessments")
  /\ \E topics \in Announces(call) :
       Turn(d, [desk[d] EXCEPT !.pc = "publish", !.plan = topics])
  /\ UNCHANGED <<settings, shift, registered, cited, faults>>

\* A run of a scenario acts under its own name, the freshness monitor under none.
Start(d, actor, topics) ==
  /\ At(d, "idle") /\ d \in Background
  /\ Turn(d, [Idle EXCEPT !.pc = "publish", !.operator = actor, !.plan = topics])
  /\ UNCHANGED <<settings, shift, registered, cited, faults>>

-----------------------------------------------------------------------------
(* Publish                                                                 *)

Top(d) == desk[d].stack[Len(desk[d].stack)]
Busy(d) == desk[d].stack # <<>>

\* A frame: the event, the handlers still to call, and the events the running one still
\* publishes.
Frame(event, topic) == [event |-> event, todo |-> Subscribers(topic), plan |-> <<>>]

\* Publish(topic), by the handler that runs in the innermost frame, about an event, or by
\* the request.  History: the events that led to each.
Dispatch(q, topic, causes) ==
  LET n == Len(q.published) + 1 IN
  [q EXCEPT !.published = Append(@, [topic |-> topic, causes |-> causes]),
            !.invoked = Append(@, <<>>),
            !.stack = Append(@, Frame(n, topic))]

PublishNext(d) ==
  LET q == desk[d] IN
  /\ At(d, "publish") /\ ~Busy(d)
  /\ IF q.plan = <<>> THEN Turn(d, [q EXCEPT !.pc = "done", !.status = 200])
     ELSE Turn(d, Dispatch([q EXCEPT !.plan = Tail(@)], Head(q.plan), {}))
  /\ UNCHANGED <<settings, shift, registered, cited, faults>>

\* entryFromEvent, setOperator, and the scope of a run.
Actor(q, topic) ==
  CASE topic \in RunTopics                          -> <<"scenario", Scenario>>
    [] topic \notin RunTopics /\ topic \in Attributed /\ q.operator \in Operators
                                                    -> <<"operator", q.operator>>
    [] topic \notin RunTopics /\ q.operator = Scenario -> <<"scenario", Scenario>>
    [] OTHER                                        -> <<"system", None>>

\* The state of the desk when subscriber s, the next of the innermost frame, has begun.
Called(q, s) ==
  LET n == Len(q.stack) IN
  [q EXCEPT !.stack[n].todo = Tail(@), !.invoked[q.stack[n].event] = Append(@, s)]

\* One subscriber.  The audit entry may fail to be stored, and is then lost.
Invoke(d) ==
  LET q == desk[d]
      f == Top(d)
      s == Head(f.todo)
      topic == q.published[f.event].topic IN
  /\ Busy(d) /\ f.plan = <<>> /\ f.todo # <<>>
  /\ \/ /\ s \in {"metrics", "scenarios"}
        /\ Turn(d, Called(q, s)) /\ UNCHANGED faults
     \/ /\ s = "audit"
        /\ Turn(d, [Called(q, s) EXCEPT !.journal = Append(@, <<f.event, Actor(q, topic)>>)])
        /\ UNCHANGED faults
     \/ s = "audit" /\ Fail /\ Turn(d, Called(q, s))
     \/ /\ s = "hub"
        /\ Turn(d, [Called(q, s) EXCEPT !.sent = Append(@, f.event)]) /\ UNCHANGED faults
     \/ /\ s \notin {"metrics", "scenarios", "audit", "hub"}
        /\ \E plan \in Publishes(s, topic) :
             Turn(d, [Called(q, s) EXCEPT !.stack[Len(q.stack)].plan = plan])
        /\ UNCHANGED faults
  /\ UNCHANGED <<settings, shift, registered, cited>>

\* The handler that runs publishes its next event.
Nest(d) ==
  LET q == desk[d]
      n == Len(q.stack)
      e == Top(d).event IN
  /\ Busy(d) /\ Top(d).plan # <<>>
  /\ Turn(d, Dispatch([q EXCEPT !.stack[n].plan = Tail(@)], Head(Top(d).plan),
                      q.published[e].causes \cup {e}))
  /\ UNCHANGED <<settings, shift, registered, cited, faults>>

Return(d) ==
  /\ Busy(d) /\ Top(d).plan = <<>> /\ Top(d).todo = <<>>
  /\ Turn(d, [desk[d] EXCEPT !.stack = SubSeq(@, 1, Len(@) - 1)])
  /\ UNCHANGED <<settings, shift, registered, cited, faults>>

PanicUnwinds(d) ==
  /\ Busy(d) /\ Fail
  /\ Turn(d, [desk[d] EXCEPT !.stack = <<>>, !.pc = "done", !.status = 500])
  /\ UNCHANGED <<settings, shift, registered, cited>>

\* A handler panics before it does anything, or between two events: the dispatcher
\* recovers and calls the next one.
Panic(d) ==
  LET q == desk[d]
      n == Len(q.stack) IN
  /\ Busy(d) /\ Fail
  /\ \/ Top(d).plan # <<>> /\ Turn(d, [q EXCEPT !.stack[n].plan = <<>>])
     \/ /\ Top(d).plan = <<>> /\ Top(d).todo # <<>>
        /\ Turn(d, Called(q, Head(Top(d).todo)))
  /\ UNCHANGED <<settings, shift, registered, cited>>

-----------------------------------------------------------------------------
Init ==
  /\ settings \in {s \in Settings : Valid(s)}
  /\ shift \in Shifts
  /\ registered = Ensure(Given)
  /\ cited = [d \in Desks |-> {}]
  /\ desk = [d \in Desks |-> Idle]
  /\ faults = 0
  /\ ListingInit

Step(d) ==
  \/ \E call \in Calls[d] : Receive(d, call)
  \/ Authenticate(d) \/ Authorize(d)
  \/ Refuse(d) \/ CreateOperator(d) \/ CreateAssessment(d) \/ AddEvidence(d) \/ Commit(d)
  \/ Start(d, Scenario, <<"observation.received">>) \/ Start(d, Scenario, <<"command.issued">>)
  \/ Start(d, None, <<"entity.freshness.changed">>)
  \/ PublishNext(d) \/ Invoke(d) \/ Nest(d) \/ Return(d) \/ Panic(d)

\* Requests and a walk through a list do not meet.
Next ==
  \/ \E d \in shift : Step(d) /\ UNCHANGED listing
  \/ shift = {} /\ ListingNext /\ UNCHANGED gateway

Spec == Init /\ [][Next]_vars

-----------------------------------------------------------------------------
(* Properties                                                              *)

Frames(d) == {desk[d].stack[i] : i \in 1..Len(desk[d].stack)}

TypeOK ==
  /\ settings \in {s \in Settings : Valid(s)} /\ shift \in Shifts
  /\ DOMAIN registered \subseteq Operators
  /\ \A o \in DOMAIN registered : registered[o] \in Roles
  /\ cited \in [Desks -> SUBSET Evidence]
  /\ faults \in 0..MaxFaults
  /\ \A d \in Desks :
       /\ desk[d].pc \in {"idle", "authenticate", "authorize", "handle", "cite", "publish", "done"}
       /\ desk[d].operator \in Actors
       /\ Len(desk[d].invoked) = Len(desk[d].published)
       /\ \A f \in Frames(d) : f.event \in 1..Len(desk[d].published)

\* httpx/middleware.go Authenticate and Authorization, audit/service.go setOperator,
\* config.go Validate: an operator the journal names is registered, has a role that may do
\* what the journal says, and showed the token that is his unless authentication is
\* optional, which it is nowhere but in development and tests. The other way round, an
\* event that carries who acted (Attributed: what is done to alerts, incidents, missions and
\* commands) is never put down to the system when a request published it.
Accountable ==
  \A d \in Desks : \A i \in 1..Len(desk[d].journal) :
    LET topic == desk[d].published[desk[d].journal[i][1]].topic
        actor == desk[d].journal[i][2]
        call  == desk[d].call IN
    /\ actor[1] = "operator" =>
         /\ actor[2] \in DOMAIN registered
         /\ PolicyFor(call.method, call.path) \in PermissionsForRole(registered[actor[2]])
         /\ settings.required \/ settings.environment \notin Relaxed =>
              call.token \in DOMAIN settings.tokens /\ settings.tokens[call.token] = actor[2]
    /\ topic \in Attributed /\ d \notin Background => actor[1] = "operator"
    /\ d \in Background => actor[1] # "operator"

\* What a label may be made of.
Words == {"unmatched"} \cup UNION {{route[2][i] : i \in 1..Len(route[2])} : route \in Mounted}

\* The tables of http.go Mount, middleware.go PolicyFor and Allows, and metrics.go
\* boundedRoute: a request that is let through finds its handler and has a permission
\* that /auth/me tells its role, but for /auth/me itself, which is all that is open to
\* anybody; an administrator reaches every handler; and no segment that names a resource
\* becomes a label.
TablesAgree ==
  \A d \in Desks \ Background :
    LET q == desk[d]
        policy == PolicyFor(q.call.method, q.call.path) IN
    /\ q.status # 404
    /\ q.pc \in {"handle", "cite", "publish"} =>
         \/ policy \in PermissionsForRole(q.role)
         \/ policy = Open /\ <<q.call.method, q.call.path>> \in SessionRoutes
    /\ q.status = 403 /\ Routed(q.call.method, q.call.path) =>
         q.role # "administrator" /\ policy \in Permissions \ PermissionsForRole(q.role)
    /\ \A i \in 1..Len(BoundedRoute(q.call.path)) : BoundedRoute(q.call.path)[i] \in Words

\* app.go New ("Infrastructure modules first", "Realtime is registered after domain
\* subscribers"), events.go Publish: the journal tells a cause before what it led to, and
\* the stream an event only after everything it led to, however deep the subscribers
\* publish and whichever of them panics.
CauseFirst ==
  \A d \in Desks :
    LET q == desk[d]
        causes(e) == q.published[e].causes IN
    /\ \A i, j \in 1..Len(q.journal) : i < j => q.journal[j][1] \notin causes(q.journal[i][1])
    /\ \A i, j \in 1..Len(q.sent) : i < j => q.sent[i] \notin causes(q.sent[j])

\* events.go Publish ("A panicking handler cannot take down the publisher or block other
\* handlers"): when Publish has returned, every subscriber was called once, in order, and
\* a request answers success only when nothing is left to publish.
Delivered ==
  \A d \in Desks :
    /\ \A e \in 1..Len(desk[d].published) :
         (\A f \in Frames(d) : f.event # e) =>
           desk[d].invoked[e] = Subscribers(desk[d].published[e].topic)
    /\ desk[d].status # 0 => ~Busy(d) /\ desk[d].plan = <<>>

\* assessments/postgres_repository.go Create: a statement stores each citation, and one of
\* them may fail; an assessment that was announced has all of them.
AnnouncedIsCited ==
  \A d \in Desks : \A e \in 1..Len(desk[d].published) :
    desk[d].published[e].topic = "assessment.created" => desk[d].call.evidence \subseteq cited[d]
=============================================================================
