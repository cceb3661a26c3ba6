# Verification of the C4ISR platform

TLA+ models of the Go server under `src/internal` - the flow of evidence into tracks and
alerts, what operators are told and when, their own records, the scenario engine, and the way
of a request through the server - and of the part of the operator's browser that decides
whether the picture on the screen is the present, the TLC configurations that check them, and
TLAPS proofs of what matters most. Every module names the code it models; every action is a
database statement, a transaction, a critical section, an event handler or a callback of that
code.

1. [The system](#1-the-system)
2. [The modules](#2-the-modules)
3. [The runs](#3-the-runs)
4. [Fairness](#4-fairness)
5. [The proofs](#5-the-proofs)
6. [Where code and documentation disagree](#6-where-code-and-documentation-disagree)
7. [What is not modelled](#7-what-is-not-modelled)
8. [Plan](#8-plan)

## 1. The system

One Go process serves HTTP requests, keeps its state in PostgreSQL, and connects its
domain services by an in-process event dispatcher. `Publish` calls the subscribed handlers
one after the other in the publisher's goroutine: an event is not queued, stored or
repeated. A request is therefore a long chain of calls - store an observation, correlate
it with a track, project the track, evaluate the zones, raise alerts, push to the browsers -
that interleaves with other requests at each database call and ends, half done, when the
process dies, the client goes away or a statement fails. Few operations span a transaction;
the rest rely on unique indexes, `ON CONFLICT`, guarded updates and compare-and-set.

| part | state | operations | talks to |
| --- | --- | --- | --- |
| observations | `observations` rows with `processed_at` | ingest with replay by dedup key, mark processed | publishes `observation.received` |
| tracks | `tracks` with the watermark `last_seen_at`, `track_observations`, `track_state`, history | correlate, create, attach, project with three attempts | handles `observation.received`; publishes `track.updated` |
| geospatial | `geofences`, `geofence_states` | contain, reconcile, publish breach or exit | handles `track.updated` |
| arearule | recorded evaluation of a footprint | intersect, publish overlaps, replay | handles `observation.received` |
| alerts | `alerts` with partial unique indexes over unresolved ones | raise, acknowledge, resolve, link | handles breaches and overlaps |
| telemetry | `asset_telemetry`, `asset_state` | ingest a sample, derive motion, compare-and-set | publishes position, connection, received |
| freshness monitor | the last reported states, in memory | reconcile at each tick | reads assets and tracks; publishes `entity.freshness.changed`, sets a gauge |
| picture | none | compose the picture of an instant in four reads | reads tracks, telemetry, alerts, zones |
| realtime hub | clients with bounded buffers | register, publish, close the slow | every event; the browser's socket |
| operator UI | query cache, socket, replay switch | invalidate, refetch, reconnect, scrub | the hub and the read API |
| commands | `commands.state` | issue, transition by read, check and compare-and-set | publishes `command.issued` |
| scenarios | `scenario_runs`, `scenario_run_events`, an engine with a goroutine per run | start, pause, resume, stop, restart, close; schedule simulated responses | handles `command.issued`, drives all services |
| incidents, missions | rows, relations, assignments, tasks | open, edit, move, link, plan, assign | publish their changes; `alerts.incident_id` |
| assessments, classifications, sources, operators, assets | rows | one statement, or one and one for each citation | publish their changes |
| audit | `audit_log` | append an entry for an event | handles nearly every event |
| platform/httpx, operators, config | the request's context | authenticate, authorize, map errors | every handler |
| events | subscribers by topic | publish, inside a publication too; survive a panic | every service |

What is hard, and what makes each part correct:

* **observations and tracks.** Two deliveries of one target, or of one observation, race
  from the first row to the last; a request may die after any statement and its source
  submits the observation again. Correct: one track per target, evidence attached once and
  to that track, `processed_at` only after that, a watermark that never goes back, and the
  newest evidence not dropped unless others won every attempt.
* **geospatial, arearule, alerts.** Evaluations of one track overtake each other, and a
  snapshot is taken before the lock is granted; alerts are read, then inserted; a footprint
  is evaluated again on replay; transitions are published one by one after their commit.
  Correct: committed entries and exits alternate, each is published once and by the request
  that committed it, a published event meets one alert, one unresolved alert per zone and
  subject, the newest position decides.
* **telemetry.** The sample is stored before the state is replaced; motion and the change
  of connection are computed from a row read earlier. Correct: the row is the merge of its
  samples in the order of their observation, the derived motion belongs to the row replaced,
  a connection change is announced exactly when it happened, "stale" is true when said.
* **realtime and the operator's picture.** Events carry no data and are lost with a slow or
  broken connection; a refetch may have been answered before the change. Correct: what is
  out of date has a refresh coming.
* **commands and scenarios.** The engine's goroutine, the operator's controls, the shutdown
  and every request that issues a command share one timeline, partly under locks, partly
  in rows. Correct: a run ends once and for good, its rows are what the engine knew, no
  action is executed while paused but the one that had been released, virtual time is
  ordered, and every command the engine took on has an outcome.
* **freshness monitor, freshness, picture.** A map of reported states is swapped before its
  transitions are published one by one, while telemetry clears gauges, reads fail and the
  process restarts; a picture is read in four statements while evidence arrives. Correct:
  thresholds are in order once repaired; a contact is known to the clients by a state it was
  recently in; a picture of the past shows all that was known and nothing later.
* **incidents and missions.** Read, decide, write: only the status is compared and set.
  Correct: lifecycles are respected, stamps tell the history, an edit replaces only what it
  names or what another edit changed under it, an alert points where it is listed, events
  tell what was committed and a mission only when it is whole.
* **the request and the bus.** Three tables of routes are kept by hand; who acts is decided
  by a token, a header or a default; subscribers publish inside a publication and may panic;
  pages are cut out of lists that change. Correct: the tables agree, the journal names who
  acted, causes come before effects, nobody is skipped.

`PROJECT.json` lists each hazard at its line, with the properties that would show it going
wrong.

## 2. The modules

| module | models | instances | proofs |
| --- | --- | --- | --- |
| `EvidenceLedger` | what the observation pipeline promises, without requests | - | - |
| `TrackPipeline` | `observations.Ingest`, `tracks.HandleObservationReceived` and their SQL | `MCTrackPipeline` | `TrackPipelineProofs` |
| `GeofenceAlerts` | `geospatial.HandleTrackUpdated`, `arearule`, raising, acknowledging and resolving in `alerts` | `MCGeofenceAlerts` | `GeofenceAlertsProofs` |
| `AssetTelemetry` | `telemetry.Ingest` and the projection of one asset | `MCAssetTelemetry` | `AssetTelemetryProofs` |
| `RealtimeStream` | the hub, the browser's socket, query cache and replay switch | `MCRealtimeStream` | `RealtimeStreamProofs` |
| `ScenarioRun` | one run: engine, controls, shutdown, command simulation | `MCScenarioRun` | `ScenarioRunProofs` |
| `Freshness` | `platform/freshness`: the policy, its repair, the classification (operators only) | - | - |
| `OperatorPicture` | `FreshnessMonitor`, its ticker and gauge, `picture.Service.Snapshot`; extends `Freshness` | `MCOperatorPicture` | `OperatorPictureProofs` |
| `CaseWork` | `incidents.Service`, `missions.Service` and their SQL | `MCCaseWork` | `CaseWorkProofs` |
| `AccessPolicy` | mounted routes, `PolicyFor`, `Allows`, `boundedRoute` (operators only) | - | - |
| `Listing` | every list query and a client that walks through the pages of one | - | - |
| `Gateway` | middleware, handlers up to their publication, the dispatcher, audit; extends `AccessPolicy`, `Listing` | `MCGateway` | `GatewayProofs` |

**TrackPipeline.** A request is a record in `req` with the call it is about to make and the
values it has read (`trk`, `expected`, `attempt`, `hadState`). `Ingest` is the insert with
its dedup key, followed by `findOwner`, `findRef`, `create`, `resolve...` (correlation),
`attach`, `apply`/`update` (the UPDATE guarded by the watermark, whose `NOT EXISTS
(track_state)` is answered from the statement's snapshot), `reload`, `mark`, `publish`.
`Fault(r)` ends a request between any two calls. `Ledger == INSTANCE EvidenceLedger`
maps the watermark of a track that does not exist to -1; every step of the pipeline is a
step of the ledger or leaves it unchanged.

**GeofenceAlerts.** A position is the set of zones that contain it. `Reconcile` is split
into the fixing of the snapshot and the statement that runs once the advisory lock is
granted, because that is what READ COMMITTED does. `entries` and `exits` count the
transitions that were committed and returned; a request then publishes them one by one,
outside the lock, and `published` is the set of events that were. A fault loses what a
request still had to publish, and two requests may publish in the other order than they
committed; neither is claimed away. An alert's `cause` is the number of the entry it was
raised for.

**AssetTelemetry.** Motion is the pair of samples it was derived from and the watermark it
was divided by, which is all that the properties need; the compare-and-set on
`last_seen_at` is one action, the events follow one by one.

**RealtimeStream.** A view's content is the number of changes it shows. The hub's buffer,
the accepted but unregistered socket, the client whose writer returned on a failed ping and
which stays registered (`Silence`, until its buffer is full or the socket is lost), the retry
of the browser, and React Query's "invalidate during a first load joins it" are kept;
`missed` records through which of five holes an event was lost (`load`, `gap`, `mute`,
`replay`, `unmapped`).

**ScenarioRun.** `runner` is the engine's goroutine (`peek`, `wait`, `pop`, `act`, ...),
`job[c]` the handling of `command.issued` for a command in the goroutine that issued it
(`scheduleAfterMany` is `Reserve`, `Store`, `Insert`, `Unstore`, for it takes and gives up
the engine's lock twice), `control` the request that holds `lifecycleMu`. `rows` are the
stored statuses of actions and `states` those in memory. `Conclude` decides how a run
ended before `Finalize` waits for the run's lock, as `runEngine` does. Virtual time
advances by `Tick`, at any speed, while something is due. `Crash` leaves nothing but the
rows, cut short in the middle of a finalization or of a loop of inserts (`CutShort`); the
next process has no engine for the run (`gone`), so that stop and pause refuse it and only
`Restart` ends it, as its comment says.

**Freshness.** Durations are integers of a fixed width (`Wrap`), as Go's are; `Normalized`
repairs a policy in the order of the code, `Band` classifies an age, `ForAsset` and
`ForTrack` let a declaration win over the age.

**OperatorPicture.** The monitor is a record `mon`: `BeginReconcile` reads the assets,
`Replace` reads the tracks, classifies and swaps `previous`, `ReportOne` publishes one
transition in any order (Go's map order), `ReadFails` ends a tick before the swap,
`Restart` forgets all. The first reconciliation precedes the ticker (`ticking`). A replay
is a record `snap` that goes through the window, the tracks, the assets and the alerts, one
statement each; `base` and `begun` remember what was there when it was asked for. One
action stands for a commit of telemetry or of a projection, whose own races are the
subject of `AssetTelemetry` and `TrackPipeline`; a sample may be recorded and not
projected, as there. Time advances by `Tick`, which a due monitor does not let pass.

**CaseWork.** A handler is a record in `req` with what it has read and the call it is about
to make; `Start` begins the status statement (`now()` is its start), `Commit` is its effect
once it holds the row, `UpdateIncident` writes back all fields, `AddRelation` and
`SetAlertIncident` are the two statements of a link, `PlanAsset` and `PlanTask` those of a
plan. `Abort` ends a request between any two. `moves` is the history the stamps are
compared with.

**AccessPolicy, Listing, Gateway.** A path is the sequence of its segments. `Mounted` are
the routes of every `Mount`, `PolicyFor` the permissions, `BoundedRoute` the labels, each
translated from its own file. A desk is one request or one publication of the background:
`Authenticate`, `Authorize`, a handler that refuses or commits and has events to publish,
and a stack of dispatches under way. `Invoke` calls the next subscriber, `Nest` dispatches
what it publishes inside, `Panic` unwinds it, `Return` ends a dispatch. Each event keeps
the events it was published inside of (`causes`), a history that no step reads. A list is its
filter, its order and whether it is counted (`Lists`); rows are inserted, move or leave
between the statements of a client's walk.

Each component module ends with its properties. Definitions that stand before another and
vary it (`NoIndex`, `AcceptLate`, `BySequence`, ...) are wrong versions of that definition;
with one in place of the right one the corresponding property fails.

The modules do not share variables: the parts share only events that a handler receives in
the publisher's goroutine, and each module takes the events of the part before it in every
order that part can produce (`GeofenceAlerts!Project` allows each observation once and only
to a later time, as the watermark of `TrackPipeline` does). What they share is in `Gateway`:
the order of the subscribers and the nesting of their publications.

## 3. The runs

| run | instance and bounds | shows |
| --- | --- | --- |
| `track_races` | 4 observations of one track at 4 times, or 2 of them and an unhinted one, 2 track ids, 2 requests, 2 attempts, 1 fault; requests are symmetric | `OneOwner`, `EvidenceIsSound`, `WatermarkIsEvidence`, `LossNeedsContention`, and the refinement of `EvidenceLedger` |
| `track_live` | 2 observations of one time, 2 requests, 3 attempts, 1 fault | `StoredIsProcessed`: whatever dies on the way, evidence is settled as long as its source submits it again |
| `geofence_races` | a track enters two zones, leaves both, is heard of without a position, enters one again; 2 requests, 1 fault, 1 resolve, 1 zone switched off or on | `AlertsAreUnique`, `TransitionsAlternate`, `EachPublishedOnce` |
| `geofence_live` | a footprint over two zones, submitted twice, and a moving track; 2 requests, 1 fault, 1 resolve | `ZonesAreAlerted`, for breaches and for overlaps |
| `geofence_snapshot` | 3 positions, 2 requests, no fault | a counterexample to `LatestDecides` (section 6) |
| `telemetry` | 5 samples, two at one time, with and without position and reported motion; 2 requests, 3 attempts, 1 fault | `StateIsProjection`, `AnswersAreTrue`, `MotionFromPredecessor`, `SampleCounts` |
| `realtime` | 2 changes, a buffer of 1, 1 lost or silent connection, 1 replay, 1 failed query, a topic that is mapped well and one that is not | `StaleIsExplained`, `ChangeIsShown` |
| `scenario_races` | a scripted command and a later action, an operator's command; capacity for one command and a half; 1 control and the shutdown, 1 failed statement, crash or moved command | `EndIsTold`, `EndIsFinal`, `PauseHolds`, `RowsAgree`, `WithinCapacity`, `CommandsSettle`, `ScriptInOrder` |
| `scenario_live` | the same script with rejected commands, 1 control and the shutdown | `RunEnds`, `CloseDrains` |
| `picture` | an asset and a track with one id, 2 policies (one out of order and left so), either the monitor with 5 instants, 3 updates and 1 failed read or restart, or a replay with 3 instants and 4 updates; clocks 1 ahead | `Reported`, `PublishedInTime`, `HonestReplay`, `ReplayIsStable` |
| `casework` | 2 incidents, 1 alert, 1 other relation, 1 mission with 1 asset and 1 task; 5 pairs of handlers that meet, 4 status statements, 1 dead request; requests are symmetric | `LifecycleRespected`, `StampsTellHistory`, `EventsAreTrue`, `PointerAgrees`, `EditsOverlap` |
| `gateway` | 4 configurations of which one is not valid; one desk asks for every mounted path and its neighbours with every method as every role, or one works while another hires, or the background publishes, or a client walks a list of 3 rows; 2 faults | `TablesAgree`, `Accountable`, `CauseFirst`, `Delivered`, `AnnouncedIsCited`, `Paging` |

Why these bounds are enough to be interesting. Two requests are enough for every race in
the code, which always is between what one goroutine read and what another wrote since;
where the number of others matters (`MaxAttempts` lost attempts, `MaxActions` full), the
instance has as many items as it takes to lose every attempt or to fill the timeline. One
fault at any call of any request covers every partial failure of one operation together
with a retry; a second fault only repeats the first, except where the theorems of section 5
speak for any number. The monitor and the replay do not write
what the other reads, nor do the handlers of `casework` outside a pair, nor requests and
a walk through a list: each behaviour has the readers, the handlers or the desks that
meet, and `Init` chooses which. The instants take a contact through every band of the
narrow policy; under the other one the delayed band lies behind the stale one, which the
monitor has to live with. The first hinted observation opens the track, so that four are the
fewest for the newest to be overtaken in both of its attempts. Two configurations have a
`CONSTRAINT`, which cuts behaviours that combine what is checked apart: in `track_races` the
unhinted observation with the third and fourth (two requests have no more than two in their
hands), in `picture` a replay with the time that only the monitor needs. Five
samples the fewest to lose three attempts with a newest sample left. A buffer of one with
two changes overflows. Liveness runs use smaller instances and no symmetry.

Deadlock is checked in the runs of `TrackPipeline`, where a source can always submit again.
`CHECK_DEADLOCK` is off in
the others: every request can finish and all bounds can be used up, and then the models
stop, as the system does when nobody calls it. `RunEnds`, `CloseDrains` and the
other liveness properties say what must not get stuck.

## 4. Fairness

* **Requests, the runner, schedulers and controls** (`Step`, `Run`, `Schedule`, `Carry`):
  weak fairness; the Go scheduler runs a goroutine that can run, statements have timeouts,
  and the only locks are held for one action or across actions that are themselves fair.
* **Sources** (`Fairness` in `TrackPipeline`, `Submit` in `GeofenceAlerts`): a source
  submits an observation again until the platform has processed it. This is an assumption
  about the environment - the code itself never resumes anything - and it is strong
  fairness, because a request must be idle to take it. The number of faults is bounded, as
  it must be for anything to be promised.
* **Time** (`Tick`): weakly fair while an action is due and the run is neither paused nor
  stopped, which is how the engine computes its timer.
* **The browser** (`Connect`, `OnOpen`, `OnClose`, `OnMessage`, `Answer`, `Receive`): timers
  and callbacks run and the server answers. Losing a connection, scrubbing, returning to
  live and failing a query are not fair.
* **Operators** are never fair: nothing relies on a pause being resumed, so `RunEnds`
  excepts a run that stays paused, while `CloseDrains` does not.
* **The monitor** needs no fairness, for `PublishedInTime` bounds its delay instead: `Tick`
  lets no time pass while a tick of the monitor is due, that is, a reconciliation lasts at
  most an interval and the ticker is punctual. The bound of three intervals counts the
  first reconciliation, which precedes the ticker, and each tick that failed adds one.
* `CaseWork` and `Gateway` promise nothing that must eventually happen.

## 5. The proofs

Each `...Proofs` module proves `Spec => []IInv` for every value of the constants under the
named assumptions of the component's module (types of the given functions, `NoTrack` and
its like outside the sets they are added to, bounds that are natural numbers,
`MaxAttempts` positive). The layout is the same everywhere: lemmas about what helpers and
commits do, one lemma per action (or per group that changes the same thing) that the
invariant survives, and short theorems that draw the properties from it.

* **TrackPipeline.** The properties alone are not inductive: whether an attach, a
  projection or a mark is right depends on what the request read several calls ago.
  `RequestInv` says, for each call, what the request may rely on - that its track is the
  one the observation belongs to, that the expected watermark is not ahead of the row, and
  how often the track has moved on without it (`Contended`), from which `LossNeedsContention`
  follows. `RowInv` holds the unique indexes. `Refinement` shows that the pipeline
  implements `EvidenceLedger`, step by step.
* **GeofenceAlerts.** `IInv` ties every pending breach of a request to an entry that has
  been committed and that no alert has as its cause yet (`Events`), so that the unique index
  and the alternation survive although evaluations read stale snapshots. `Alternation` is
  about commits; `Publication` (`EachPublishedOnce`) about what is told of them: each
  transition is either published or still in the hands of one request that has not failed.
* **AssetTelemetry.** A request that has read a row knows all of it or that it moved on
  since (`RequestInv`); with the compare-and-set this gives the merge in time order, the
  motion from the replaced row, and the exact connection events.
* **RealtimeStream.** `StaleIsExplained` needs to know that an answer under way is no older
  than what it replaces (`AnswerIsPast`), and that a client falls silent with what its buffer
  holds counted as missed. `NeverBack`: what the operator sees of a view is
  only replaced by something at least as new.
* **ScenarioRun.** `SlotInv`: every sequence number is known, reserved by one command, or
  not given yet - `WithinCapacity` alone does not say that the numbers a command will insert
  are still free. `ActionInv`: what the runner holds is known. `EndInv`: a context is
  cancelled only after the engine was told to stop, which is why neither a stop nor a
  shutdown makes a run fail, and the runner's verdict, taken before it waits for the lock,
  carries its reason. `PauseInv`: while paused, either no action has begun or the one that
  had been released has. `GhostInv`, for the part
  `GhostIsLaid` of `EndIsTold`: after a crash no work on the run's commands is left, and
  a restart is about to end the run or has. `EndFinal` needs no invariant. The three
  properties of a run's work rest on `WorkInv`, proved on top of `IInv`. `TimelineInv`: an
  action is marked as pending exactly while it is on a timeline, as running exactly while
  the goroutine has it, and afterwards nothing is either. `RowsInv`, while no statement
  fails: a row differs from its mark only where a sweep came between the two or where the
  command's goroutine has yet to make the mark, which is why `RowsAgree` holds although
  rows are written outside the lock. `OpenInv`: for every command without an outcome there
  is an action still to come that gives it one, or the goroutine is about to fail it.
  `OrderInv`: nothing of the script is due before what was last executed; it also shows why
  the property is about the script only, since a command from outside may be scheduled at a
  time that has passed.
* **OperatorPicture.** Nothing is assumed of the policies a deployment configures. The repair
  is done once (`NormalizedOnce`), so that the invariant carries `Normal(policy)`, whether the
  result is in order or not. `RepairOrders` says when it is: exactly for the policies that are
  `Repairable`, among them all with a stale band of four units or more whose sixfold does not
  overflow. `MonitorInv` says that no contact the monitor remembers vanishes, not even between
  its two reads, so that what is pending is all that `Reported` may except; `SnapInv` says
  that what a replay found when it was asked for is still there when it reads.
  `ReplayIsStable` compares the picture shown with a history that goes on growing: it needs
  that a track was last seen when its newest evidence says (`HistoryIsPast`), whence what is
  projected later is later than the instant (`NewerIsLater`). `PublishedInTime` rests on
  `TimeInv`: what was published is good since `Held`, a time that each tick that fails moves
  back by the interval it costs (before the first reconciliation has succeeded no row is old
  enough to matter, because the process itself is not); what the monitor has read, and what it
  remembers while it reports, is good since its last tick. It is proved for every number of
  failed reads and every interval, which TLC cannot reach.
* **CaseWork.** Stamps are taken when a statement starts, while other statements commit.
  `TimelyInv` says what the time of a pending statement is worth: unless its case came back
  to the status that was read, or if the case is a mission, the statement started after
  every change it follows. `HistoryInv` ties stamps and statuses to the changes made
  (`moves`), and `RequestInv` says what each handler has done so far; what it left undone is
  looked for among the requests and those that died (`Witnesses`), so that `PointerAgrees`
  and `EventsAreTrue` hold wherever a request ends.
* **Gateway.** `BusInv` describes the stack of dispatches: the causes of an event are the
  dispatches below it, a dispatch has called the first of its subscribers in order and has
  the others left (`OnCourse`), the hub, which is last, is still to come while something is
  dispatched above or published inside, and the journal, which is first or second, has told
  nothing newer before an event's own entry. `Dispatching` says this of every place of the
  stack, and every step of the bus preserves it at any depth. `ActorInv` carries the
  decision of the middleware to the handlers and the journal; `Accountable` is one-sided for
  the topics whose events carry no actor, and it rests on the assumption that no operator's
  id begins like a run's, which the code does not enforce (section 6). `Tables` needs no run: the
  lemmas `RoutedIsKnown` and `KnownIsRouted` show that the policy and the routes agree for
  every path, and `Labels` that no segment of a path becomes a label unless it is a word of
  a route; TLC tries the paths next to the mounted ones.
* **Listing**, with the proofs of `Gateway`. `WalkInv`: every row that the client has missed
  so far, and whose place is decided, has at least `offset` rows before it. Inserts only
  move a row back, a page starts at `offset`, and an empty page is behind every row
  (`PageMisses`); so nothing is missed at the end.

Only model-checked: everything temporal with fairness (`StoredIsProcessed`,
`ZonesAreAlerted`, `SampleCounts`, `ChangeIsShown`, `RunEnds`, `CloseDrains`), which is out of
the prover's reach. Every other property of the passing runs is a theorem.

## 6. Where code and documentation disagree

* `geofence_snapshot`: `geospatial/postgres_repository.go:149` says that the advisory lock
  serializes the containment decisions of one track. It is requested inside the statement
  whose snapshot has been fixed, so a waiter decides on rows from before it waited, and a
  zone may stand as entered although the newest position is outside. Breaches and exits
  still alternate as they are committed (`TransitionsAlternate` is proved).

Seen while modelling, without a run of their own. The models do what the code does in each
of these; where a property had to be stated so as to hold, it says so.

* Thresholds. `freshness.go:103-105` says that `Normalized` returns strictly increasing
  thresholds. `config.go:78-82` accepts a stale threshold of one to three nanoseconds, which
  has no quarter; the delayed threshold becomes a second, behind it. One whose sixfold
  overflows is left without a higher unavailable threshold. `RepairOrders` is the exact
  condition.
* The journal. `audit/domain.go:1-2` says that operator-driven events are attributed to the
  acting operator, and `PRODUCT.md:888` that operator actions are audited. Only the events
  of alerts, incidents, missions and commands carry an actor (`Attributed`); what an operator
  does to assessments, classifications, sources, assets and zones is journalled as done by
  the system (`audit/service.go:146-308`). `Accountable` claims the attribution only for the
  former.
* Zones. Breaches and exits are published one by one after the commit and outside the lock
  (`geospatial/service.go:106-129`): a request that dies loses them, and those of two
  requests may be published in the other order. `EachPublishedOnce` excludes a second
  publication, and a loss only while nothing fails.
* Evidence. Two concurrent first projections with the same time are both applied, and the
  later commit wins (`tracks.sql:85`). A replayed area observation announces its overlaps
  again, so that an alert resolved meanwhile is raised anew (`arearule/service.go:157`).
  A command whose row is inserted and whose stamping fails stays sent with nobody told
  (`commands/postgres_repository.go:47`). `popNext` takes the static head it waited for
  although a dynamic action with an earlier time was inserted meanwhile (`engine.go:744`).
* The hub. A ping that fails ends the writer of a client and leaves it registered
  (`realtime/hub.go:181-186`): the operator sees a connection, on which nothing arrives until
  its buffer is full or the socket is lost.
* The browser. The return from a replay to the live picture refetches nothing, although
  events were dropped during the replay (`stores/scrub.ts:47`); the freshness transition of
  a track invalidates the queries of the assets (`handlers.ts:69`).
* Incidents. The compare-and-set on the status (`incidents.sql:29`) does not notice an
  incident that left a status and came back to it: a change that was decided and stamped
  before may still commit. The incident may then be closed before it was resolved by its
  stamps, and show a resolution that is not its last; `StampsTellHistory` asks for these
  two only of an incident that entered no status twice (`Straight`), and missions, which
  cannot come back, have no such gap. A resolved incident that is taken up again keeps its
  `resolved_at`.
* Missions. Tasks and assets may be added to a mission that has ended; the events of
  assigning carry the mission read before; a failed planning leaves a partial mission;
  `mission.created` may tell a status that was changed before it was published.
* The monitor. A comment speaks of entities that vanish from the reads
  (`freshness_monitor.go:117`), which no statement of the platform deletes. The metrics
  clear a gauge on `telemetry.received` by the bare id of the asset, under which it never
  is counted.
* The picture. A live picture is clamped to the newest evidence of a track, and so leaves
  out alerts raised after it; a replay shows the present status of assets and state of
  alerts; telemetry that arrives late changes the replay of an asset; a picture with
  exactly the limit of alerts says that it is truncated.
* A run of a scenario. Its end is published after it is written, and a run that has ended is
  never announced again: a crash between the two keeps `scenario.run.ended` from everybody.
  A crash while a command's actions are stored, after the run was ended, leaves them pending
  for ever, for a restart sweeps only a run that has not ended. Nothing looks for crashed
  runs at the start (`ListActiveScenarioRuns` has no caller), and the commands that a crashed
  engine had taken on are never settled (`CommandsSettle` is about runs whose process lived).
* The request. An operator whose id begins with `scenario:` is not refused, and would be
  journalled as a scenario. The audit comment says that it subscribes to every domain topic
  (`audit/service.go:28`) and leaves out two (`Audited`). An entry is stored under the
  context of the request, and lost with it. The metrics do not know `picture` nor the start
  of a scenario by name, and count both as unmatched. The request log and the duration are
  written after the handler, without `defer`, so that a panicking one has neither, and the
  log reads the operator from a context that never has it. The totals of operators and
  classifications are the size of the page. A client that asks for more rows than the
  limit is not told that it was clamped.

## 7. What is not modelled

* Geometry, speed and heading as numbers, severity, wording, validation, decoding: values
  are abstracted to what the properties tell apart.
* CORS, compression, the body limit, the request log, counters and histograms, the reading
  of the environment; the scanning of columns in generated code (its SQL is modelled).
* Of the registries (assets, sources, operators, assessments, classifications) the columns
  nobody decides by; the creation of zones and the spatial searches; the reads of the
  relations of an incident and of a mission.
* In `OperatorPicture`: positions, the scope prefix and the zones of a picture; tracks
  that are closed or lost by declaration.
* In `ScenarioRun`: the loading and the setup of a scenario, the speed setting, the motion of
  simulated assets, reading a run; the fresh run that a restart begins. Runs of different
  scenarios share only `lifecycleMu`.
* In `RealtimeStream`: several operators (their connections share nothing) and keep-alive
  timing (a ping may fail, and a lost connection be noticed, at any time).
* In `Gateway`: what a domain subscriber does to rows, which is the subject of the other
  modules; cancellation of a request while it publishes.
* The panels of the browser, the process's own start and signals, the deployment files.

## 8. Plan

Done, in this order, the most important behaviour first: `TrackPipeline` with
`EvidenceLedger`, `GeofenceAlerts`, `AssetTelemetry`, `RealtimeStream`, `ScenarioRun`,
`Freshness` and `OperatorPicture`, `CaseWork`, `Gateway` with `AccessPolicy` and `Listing`.

What would come next:

1. An abstract specification of a run (created, running, paused, ended once) refined by
   `ScenarioRun`.
2. The chain from an accepted observation to the screen: `TrackPipeline`, `GeofenceAlerts` and
   the hub composed through the dispatcher.
3. The setup of a scenario and the speed of its clock.
