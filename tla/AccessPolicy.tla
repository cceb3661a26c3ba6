---------------------------- MODULE AccessPolicy ----------------------------
(***************************************************************************)
(* The three tables of routes that are kept by hand: the routes the        *)
(* modules mount, the permission the middleware asks for a path, and the   *)
(* label under which the metrics count it; and the matrix of roles.        *)
(*                                                                         *)
(* A path is the sequence of its segments after /api/v1; a permission      *)
(* "alerts.read" is <<"alerts", "read">>.  Empty segments and a trailing   *)
(* slash are left out.                                                     *)
(***************************************************************************)
EXTENDS Integers, Sequences

Roles == {"operator", "supervisor", "administrator", "analyst"}

-----------------------------------------------------------------------------
(* The mounted routes; Param is a path parameter.                            *)

Param == "{}"

Get(path)  == <<"GET", path>>
Post(path) == <<"POST", path>>

Listed(name)   == {Get(<<name>>), Get(<<name, Param>>)}
Resource(name) == Listed(name) \cup {Post(<<name>>)}
Verb(name, action) == {Post(<<name, Param, action>>)}

SessionRoutes        == {Get(<<"auth", "me">>)}
SourceRoutes         == Resource("sources") \cup Verb("sources", "status")
ObservationRoutes    == Resource("observations")
AssetRoutes          == Resource("assets") \cup Verb("assets", "status")
TelemetryRoutes      == {Post(<<"telemetry">>), Get(<<"assets", Param, "telemetry">>)}
TrackRoutes          == Listed("tracks") \cup {Get(<<"tracks", Param, "history">>)}
ClassificationRoutes == {Post(<<"classifications">>), Get(<<"classifications", Param>>),
                         Get(<<"tracks", Param, "classifications">>)}
GeospatialRoutes     == Resource("geofences") \cup Verb("geofences", "active") \cup
                        {Get(<<"geospatial", "geofences-containing">>),
                         Get(<<"geospatial", "assets-within">>),
                         Get(<<"geospatial", "nearest-assets">>)}
AlertRoutes          == Listed("alerts") \cup Verb("alerts", "acknowledge") \cup
                        Verb("alerts", "resolve")
IncidentRoutes       == Resource("incidents") \cup Verb("incidents", "status") \cup
                        Verb("incidents", "relations") \cup {<<"PATCH", <<"incidents", Param>>>>}
MissionRoutes        == Resource("missions") \cup Verb("missions", "status") \cup
                        Verb("missions", "assets") \cup Verb("missions", "tasks") \cup
                        {Post(<<"missions", Param, "tasks", Param, "status">>)}
CommandRoutes        == Resource("commands") \cup Verb("commands", "transition")
AssessmentRoutes     == Resource("assessments")
AuditRoutes          == {Get(<<"audit">>)}
OperatorRoutes       == Resource("operators")
RunVerbs             == {"pause", "resume", "stop", "restart", "speed"}
ScenarioRoutes       == Listed("scenarios") \cup Verb("scenarios", "start") \cup
                        {Get(<<"scenarios", "runs">>), Get(<<"scenarios", "runs", Param>>),
                         Get(<<"scenarios", "runs", Param, "events">>),
                         Post(<<"scenarios", "definitions", Param, "start">>)} \cup
                        {Post(<<"scenarios", "runs", Param, v>>) : v \in RunVerbs}
PictureRoutes        == {Get(<<"picture">>), Get(<<"picture", "window">>)}
RealtimeRoutes       == {Get(<<"realtime">>)}

Mounted ==
  SessionRoutes \cup SourceRoutes \cup ObservationRoutes \cup AssetRoutes \cup TelemetryRoutes
  \cup TrackRoutes \cup ClassificationRoutes \cup GeospatialRoutes \cup AlertRoutes
  \cup IncidentRoutes \cup MissionRoutes \cup CommandRoutes \cup AssessmentRoutes
  \cup AuditRoutes \cup OperatorRoutes \cup ScenarioRoutes \cup PictureRoutes
  \cup RealtimeRoutes

Matches(path, pattern) ==
  /\ Len(path) = Len(pattern)
  /\ \A i \in 1..Len(path) : pattern[i] \in {path[i], Param}

\* The router finds a handler.
Routed(method, path) == \E route \in Mounted : route[1] = method /\ Matches(path, route[2])

-----------------------------------------------------------------------------
(* PolicyFor                                                               *)

Unknown == <<"unknown", "">>   \* Known: false
Open    == <<"", "">>          \* known without a permission

Readable == {"sources", "observations", "geofences", "alerts", "incidents", "missions",
             "commands", "assessments"}

ValidGeospatialGet(p) ==
  Len(p) = 2 /\ p[2] \in {"geofences-containing", "assets-within", "nearest-assets"}

ValidPictureGet(p) == Len(p) = 1 \/ (Len(p) = 2 /\ p[2] = "window")

ValidScenarioGet(p) ==
  \/ Len(p) \in 1..2
  \/ Len(p) = 3 /\ p[2] = "runs"
  \/ Len(p) = 4 /\ p[2] = "runs" /\ p[4] = "events"

OnlyStart(p) ==
  \/ Len(p) = 3 /\ p[3] = "start"
  \/ Len(p) = 4 /\ p[2] = "definitions" /\ p[4] = "start"

ValidScenarioPost(p) ==
  \/ Len(p) = 3 /\ p[3] = "start"
  \/ Len(p) = 4 /\ p[2] = "definitions" /\ p[4] = "start"
  \/ Len(p) = 4 /\ p[2] = "runs" /\ p[4] \in RunVerbs

GetPolicy(p) ==
  LET r == p[1] IN
  CASE r = "audit" /\ Len(p) = 1                    -> <<"audit", "read">>
    [] r = "geospatial" /\ ValidGeospatialGet(p)    -> <<"geospatial", "read">>
    [] r = "operators" /\ Len(p) \in 1..2           -> <<"operators", "read">>
    [] r = "picture" /\ ValidPictureGet(p)          -> <<"operational", "read">>
    [] r = "scenarios" /\ ValidScenarioGet(p)       -> <<"scenarios", "read">>
    [] r = "assets" /\ Len(p) \in 1..2              -> <<"assets", "read">>
    [] r = "assets" /\ Len(p) = 3 /\ p[3] = "telemetry" -> <<"telemetry", "read">>
    [] r = "tracks" /\ Len(p) \in 1..2              -> <<"tracks", "read">>
    [] r = "tracks" /\ Len(p) = 3 /\ p[3] \in {"history", "classifications"}
                                                    -> <<"tracks", "read">>
    [] r \in Readable /\ Len(p) \in 1..2            -> <<r, "read">>
    [] r = "classifications" /\ Len(p) = 2          -> <<r, "read">>
    [] OTHER                                        -> Unknown

\* POST: the actions of a resource's own path, of /{id}/verb, and of the deeper ones.
PostPolicy(p) ==
  LET r == p[1]
      Is(verbs) == Len(p) = 3 /\ p[3] \in verbs IN
  CASE r \in {"incidents", "missions", "assessments", "classifications"} /\ Len(p) = 1
                                                    -> <<r, "create">>
    [] r \in {"observations", "telemetry"} /\ Len(p) = 1 -> <<r, "ingest">>
    [] r \in {"sources", "assets", "geofences"} /\ Len(p) = 1 -> <<r, "manage">>
    [] r = "operators" /\ Len(p) = 1                -> <<"admin", "manage">>
    [] r = "commands" /\ Len(p) = 1                 -> <<r, "issue">>
    [] r = "commands" /\ Is({"transition"})         -> <<r, "transition">>
    [] r = "incidents" /\ Is({"status", "relations"}) -> <<r, "update">>
    [] r = "missions" /\ Is({"status", "assets", "tasks"}) -> <<r, "update">>
    [] r = "missions" /\ Len(p) = 5 /\ p[3] = "tasks" /\ p[5] = "status" -> <<r, "update">>
    [] r = "alerts" /\ Is({"acknowledge", "resolve"}) -> <<r, p[3]>>
    [] r \in {"sources", "assets"} /\ Is({"status"}) -> <<r, "manage">>
    [] r = "geofences" /\ Is({"active"})            -> <<r, "manage">>
    [] r = "scenarios" /\ ValidScenarioPost(p)      -> <<r, "control">>
    [] OTHER                                        -> Unknown

PolicyFor(method, p) ==
  CASE p = <<>>                                     -> Unknown
    [] p = <<"auth", "me">>                         -> IF method = "GET" THEN Open ELSE Unknown
    [] p = <<"realtime">>  -> IF method = "GET" THEN <<"operational", "read">> ELSE Unknown
    [] p # <<>> /\ p \notin {<<"auth", "me">>, <<"realtime">>} ->
         CASE method = "GET"  -> GetPolicy(p)
           [] method = "POST" -> PostPolicy(p)
           [] method = "PATCH" /\ Len(p) = 2 /\ p[1] = "incidents" -> <<"incidents", "update">>
           [] OTHER           -> Unknown

-----------------------------------------------------------------------------
(* Roles                                                                   *)

Allows(role, permission) ==
  CASE role = "administrator"               -> TRUE
    [] role # "administrator" /\ permission = <<"operators", "read">> -> role = "supervisor"
    [] role = "analyst" /\ permission # <<"operators", "read">> ->
         \/ permission[2] = "read"
         \/ permission \in {<<"assessments", "create">>, <<"classifications", "create">>}
    [] role \in {"operator", "supervisor"} /\ permission # <<"operators", "read">> ->
         \/ permission[2] = "read"
         \/ permission \in {<<"alerts", "acknowledge">>, <<"alerts", "resolve">>,
                            <<"incidents", "create">>, <<"incidents", "update">>,
                            <<"missions", "create">>, <<"missions", "update">>,
                            <<"commands", "issue">>, <<"commands", "transition">>,
                            <<"scenarios", "control">>}
         \/ /\ role = "supervisor"
            /\ permission \in {<<"observations", "ingest">>, <<"telemetry", "ingest">>,
                               <<"sources", "manage">>, <<"assets", "manage">>,
                               <<"geofences", "manage">>, <<"assessments", "create">>,
                               <<"classifications", "create">>}
    [] OTHER                                -> FALSE

Permissions ==
  {<<r, "read">> : r \in Readable \cup {"operational", "assets", "telemetry", "tracks",
                          "classifications", "geospatial", "audit", "scenarios", "operators"}}
  \cup {<<r, "manage">> : r \in {"sources", "assets", "geofences", "admin"}}
  \cup {<<r, "ingest">> : r \in {"observations", "telemetry"}}
  \cup {<<r, "create">> : r \in {"incidents", "missions", "assessments", "classifications"}}
  \cup {<<r, "update">> : r \in {"incidents", "missions"}}
  \cup {<<"alerts", "acknowledge">>, <<"alerts", "resolve">>, <<"commands", "issue">>,
        <<"commands", "transition">>, <<"scenarios", "control">>}

\* What /auth/me tells a session it may do.
PermissionsForRole(role) == {permission \in Permissions : Allows(role, permission)}

-----------------------------------------------------------------------------
(* The labels of the metrics                                               *)

KnownMetricRoot ==
  {"auth", "sources", "observations", "assets", "telemetry", "tracks", "classifications",
   "geofences", "geospatial", "alerts", "incidents", "missions", "commands", "assessments",
   "audit", "operators", "scenarios", "realtime"}

BoundedResourceAction(root) ==
  CASE root = "sources"   -> {"status"}
    [] root = "assets"    -> {"status", "telemetry"}
    [] root = "tracks"    -> {"history", "classifications"}
    [] root = "geofences" -> {"active"}
    [] root = "alerts"    -> {"acknowledge", "resolve"}
    [] root = "incidents" -> {"status", "relations"}
    [] root = "missions"  -> {"status", "assets", "tasks"}
    [] root = "commands"  -> {"transition"}
    [] OTHER              -> {}

Unmatched == <<"unmatched">>

BoundedScenarioRoute(p) ==
  CASE p = <<"scenarios", "runs">>                  -> p
    [] Len(p) = 2 /\ p[2] # "runs"                  -> <<"scenarios", Param>>
    [] Len(p) = 3 /\ p[2] = "runs"                  -> <<"scenarios", "runs", Param>>
    [] Len(p) = 4 /\ p[2] = "runs" /\ p[4] \in RunVerbs \cup {"events"}
                                                    -> <<"scenarios", "runs", Param, p[4]>>
    [] Len(p) = 4 /\ p[2] = "definitions" /\ p[4] = "start"
                                                    -> <<"scenarios", "definitions", Param, "start">>
    [] OTHER                                        -> Unmatched

BoundedRoute(p) ==
  CASE p = <<>> \/ p[1] \notin KnownMetricRoot      -> Unmatched
    [] p = <<"auth", "me">>                         -> p
    [] Len(p) = 1 /\ p[1] \in KnownMetricRoot       -> p
    [] Len(p) > 1 /\ p[1] = "geospatial"   -> IF ValidGeospatialGet(p) THEN p ELSE Unmatched
    [] Len(p) > 1 /\ p[1] = "realtime"              -> Unmatched
    [] Len(p) > 1 /\ p[1] = "scenarios"             -> BoundedScenarioRoute(p)
    [] Len(p) = 2 /\ p[1] \in KnownMetricRoot \ {"geospatial", "realtime", "scenarios"}
                                                    -> <<p[1], Param>>
    [] Len(p) = 3 /\ p[3] \in BoundedResourceAction(p[1]) -> <<p[1], Param, p[3]>>
    [] Len(p) \in {4, 5} /\ p[1] = "missions" /\ p[3] = "tasks" ->
         CASE Len(p) = 4                 -> <<"missions", Param, "tasks", Param>>
           [] Len(p) = 5 /\ p[5] = "status" -> <<"missions", Param, "tasks", Param, "status">>
           [] OTHER                      -> Unmatched
    [] OTHER                                        -> Unmatched
=============================================================================
