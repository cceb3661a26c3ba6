--------------------------- MODULE OperatorPicture --------------------------
(***************************************************************************)
(* What an operator is told about the contacts: the freshness monitor, the *)
(* gauge of untrustworthy contacts, and the replay of the picture as it    *)
(* stood at an instant.                                                    *)
(*                                                                         *)
(* The rows change under all of them: assets report, tracks are observed,  *)
(* alerts are raised.  The monitor reads the rows in two statements, then  *)
(* publishes one transition after the other; a replay reads the window of  *)
(* the evidence, the tracks, the assets and the alerts in four.  How the   *)
(* rows are kept is the subject of AssetTelemetry and TrackPipeline: here  *)
(* one action stands for a projection that commits.  Scopes, positions and *)
(* zones are left out.                                                     *)
(***************************************************************************)
EXTENDS Freshness, FiniteSets, FiniteSetsExt, Sequences

CONSTANTS
  Assets, Tracks,   \* ids; an asset and a track may have the same one
  Configured,       \* the policies a deployment may configure
  Deployments,      \* sets of readers: neither reader writes what the other reads
  Limit,            \* alerts in one picture
  MaxSkew,          \* how far ahead of the server's a source's clock may be
  MaxTime,          \* bounds of the model: the time at which the run ends,
  MaxUpdates,       \* reports, observations, edits and alerts,
  MaxFaults         \* failed reads and restarts

ASSUME PictureAssumption ==
  /\ IsFiniteSet(Assets) /\ IsFiniteSet(Tracks)
  /\ Configured \subseteq Thresholds
  /\ Deployments \subseteq SUBSET {"monitor", "replay"}
  /\ Limit \in Nat \ {0}
  /\ {MaxSkew, MaxTime, MaxFaults} \subseteq Nat
  /\ MaxUpdates \in [Deployments -> Nat]

VARIABLES
  now,
  policy,      \* Config.FreshnessPolicy
  readers,     \* who reads the contacts
  status,      \* assets.status
  row,         \* asset_state: link and lastSeen
  telemetry,   \* asset_telemetry.observed_at
  lastSeen,    \* tracks.last_seen_at
  history,     \* track_history.observed_at
  alerts,      \* alerts.created_at, in that order
  mon,         \* the goroutine of the monitor
  previous,    \* FreshnessMonitor.previous
  stale,       \* Metrics.staleAssets
  published,   \* the last entity.freshness.changed of each contact
  touched,     \* when the row of a contact last changed
  snap,        \* a request for a picture
  updates, faults

setting  == <<policy, readers>>
contacts == <<status, row, telemetry, lastSeen, history, alerts>>
reported == <<mon, previous, stale, published>>
spent    == <<updates, faults>>
vars     == <<now, setting, contacts, reported, touched, snap, spent>>

EntityKey(kind, id) == [kind |-> kind, id |-> id]

AssetKey(a) == EntityKey("asset", a)
TrackKey(t) == EntityKey("track", t)
Keys == {AssetKey(a) : a \in Assets} \cup {TrackKey(t) : t \in Tracks}

Statuses == {"available", "unavailable"}
Links    == {"connected", "disconnected"}
None     == "none"       \* not in the map

FreshState == [link |-> "unknown", lastSeen |-> Never]   \* EnsureAssetState

ListAssetFreshnessSignals ==
  [a \in Assets |-> [status |-> status[a], link |-> row[a].link, lastSeen |-> row[a].lastSeen]]

ListTrackFreshnessSignals == lastSeen

\* The classification of every contact that has a row.
Classify(assetRows, trackRows, at) ==
  [k \in Keys |->
     IF \E a \in Assets : k = AssetKey(a)
     THEN LET s == assetRows[k.id] IN
          IF s.status = "absent" THEN None
          ELSE ForAsset(policy, s.status, s.link, s.lastSeen, at)
     ELSE IF trackRows[k.id] = Never THEN None
          ELSE ForTrack(policy, "active", trackRows[k.id], at)]

Interval == TickInterval(policy)

-----------------------------------------------------------------------------
(* The contacts                                                            *)

Spend == updates < MaxUpdates[readers] /\ updates' = updates + 1 /\ UNCHANGED faults

Touch(k) == touched' = [touched EXCEPT ![k] = now]

\* assets.Service.Create
CreateAsset(a, s) ==
  /\ status[a] = "absent"
  /\ status' = [status EXCEPT ![a] = s]
  /\ Touch(AssetKey(a))
  /\ Spend
  /\ UNCHANGED <<now, setting, row, telemetry, lastSeen, history, alerts, reported, snap>>

UpdateStatus(a, s) ==
  /\ status[a] \notin {"absent", s}
  /\ status' = [status EXCEPT ![a] = s]
  /\ Touch(AssetKey(a))
  /\ Spend
  /\ UNCHANGED <<now, setting, row, telemetry, lastSeen, history, alerts, reported, snap>>

\* A sample is recorded; the row takes it when it is newer and the request lives.
\* telemetry.received then clears the bare id from the gauge.
Report(a, at, link) ==
  /\ status[a] # "absent"
  /\ at <= now + MaxSkew
  /\ telemetry' = [telemetry EXCEPT ![a] = @ \cup {at}]
  /\ \/ /\ row[a].lastSeen < at
        /\ row' = [row EXCEPT ![a] = [link |-> link, lastSeen |-> at]]
        /\ stale' = stale \ {EntityKey("", a)}
        /\ Touch(AssetKey(a))
     \/ UNCHANGED <<row, stale, touched>>
  /\ Spend
  /\ UNCHANGED <<now, setting, status, lastSeen, history, alerts, mon, previous, published, snap>>

\* CreateTrack; the history follows in a transaction of its own.
OpenTrack(t, at) ==
  /\ lastSeen[t] = Never
  /\ at <= now + MaxSkew
  /\ lastSeen' = [lastSeen EXCEPT ![t] = at]
  /\ Touch(TrackKey(t))
  /\ Spend
  /\ UNCHANGED <<now, setting, status, row, telemetry, history, alerts, reported, snap>>

ApplyAnything(t, at) == lastSeen[t] # Never

\* Newer evidence, or the first.
ApplyTrackObservation(t, at) ==
  /\ lastSeen[t] # Never
  /\ lastSeen[t] < at \/ (history[t] = {} /\ lastSeen[t] = at)

\* ApplyObservationWithHistory
Project(t, at) ==
  /\ ApplyTrackObservation(t, at)
  /\ at <= now + MaxSkew
  /\ lastSeen' = [lastSeen EXCEPT ![t] = at]
  /\ history' = [history EXCEPT ![t] = @ \cup {at}]
  /\ Touch(TrackKey(t))
  /\ Spend
  /\ UNCHANGED <<now, setting, status, row, telemetry, alerts, reported, snap>>

RaiseAlert ==
  /\ alerts' = Append(alerts, now)
  /\ Spend
  /\ UNCHANGED <<now, setting, status, row, telemetry, lastSeen, history, reported, touched, snap>>

-----------------------------------------------------------------------------
(* The monitor: startFreshnessMonitor and Reconcile                        *)

NoReads == [a \in Assets |-> [status |-> "absent", link |-> "unknown", lastSeen |-> Never]]

\* The goroutine reconciles before its ticker exists.
Started(at) ==
  [pc |-> "waiting", due |-> at, ticking |-> FALSE, assets |-> NoReads, pending |-> {}, missed |-> 0]

\* The end of a reconciliation; the ticker is made after the first.
Ended(m, misses) ==
  [pc |-> "waiting", due |-> IF m.ticking THEN m.due ELSE now + Interval, ticking |-> TRUE,
   assets |-> NoReads, pending |-> {}, missed |-> misses]

BeginReconcile ==
  /\ mon.pc = "waiting" /\ mon.due = now
  /\ mon' = [mon EXCEPT !.pc = "tracks", !.due = now + Interval, !.assets = ListAssetFreshnessSignals]
  /\ UNCHANGED <<now, setting, contacts, previous, stale, published, touched, snap, spent>>

\* A failed read ends the reconciliation before anything is replaced.
ReadFails ==
  /\ faults < MaxFaults
  /\ \/ mon.pc = "tracks" /\ mon' = Ended(mon, mon.missed + 1)
     \/ /\ mon.pc = "waiting" /\ mon.due = now
        /\ mon' = Ended([mon EXCEPT !.due = now + Interval], mon.missed + 1)
  /\ faults' = faults + 1
  /\ UNCHANGED <<now, setting, contacts, previous, stale, published, touched, snap, updates>>

PendingTrust(current) ==
  {k \in Keys : Trustworthy(current[k]) # Trustworthy(previous[k])}

Transitions(current) == {k \in Keys : current[k] # previous[k]}

\* Every contact is classified, and the map replaced, before anything is published.
\* Tracks keep the rows they had when they were read: the read and the
\* classification are one step, since nothing between them is visible.
Replace ==
  LET current == Classify(mon.assets, ListTrackFreshnessSignals, now)
      changed == Transitions(current) IN
  /\ mon.pc = "tracks"
  /\ previous' = current
  /\ mon' = IF changed = {} THEN Ended(mon, 0)
            ELSE [mon EXCEPT !.pc = "report", !.assets = NoReads, !.pending = changed]
  /\ UNCHANGED <<now, setting, contacts, stale, published, touched, snap, spent>>

\* A contact that vanished is reported as unknown.
StateOf(k) == IF previous[k] = None THEN "unknown" ELSE previous[k]

ObserveOnlyStale(k, state) == IF Trustworthy(state) THEN stale ELSE stale \cup {k}

ObserveStaleEntity(k, state) == IF Trustworthy(state) THEN stale \ {k} ELSE stale \cup {k}

ReportOne(k) ==
  /\ mon.pc = "report" /\ k \in mon.pending
  /\ stale' = ObserveStaleEntity(k, StateOf(k))
  /\ published' = [published EXCEPT ![k] = StateOf(k)]
  /\ mon' = IF mon.pending = {k} THEN Ended(mon, 0) ELSE [mon EXCEPT !.pending = @ \ {k}]
  /\ UNCHANGED <<now, setting, contacts, previous, touched, snap, spent>>

\* A new process remembers nothing, and the clients connect and fetch again.
Restart ==
  /\ faults < MaxFaults
  /\ faults' = faults + 1
  /\ mon' = Started(now)
  /\ previous' = [k \in Keys |-> None]
  /\ published' = [k \in Keys |-> None]
  /\ stale' = {}
  /\ touched' = [k \in Keys |-> now]
  /\ UNCHANGED <<now, setting, contacts, snap, updates>>

\* A reconciliation lasts at most an interval and the ticker is punctual.
Tick ==
  /\ now < MaxTime
  /\ "monitor" \in readers => now < mon.due
  /\ now' = now + 1
  /\ UNCHANGED <<setting, contacts, reported, touched, snap, spent>>

-----------------------------------------------------------------------------
(* The replay: picture.Service.Snapshot                                    *)

Evidence == UNION {history[t] : t \in Tracks}

\* COALESCE(MIN, now), COALESCE(MAX, now).
TrackHistoryWindow ==
  IF Evidence = {} THEN [earliest |-> now, latest |-> now]
  ELSE [earliest |-> Min(Evidence), latest |-> Max(Evidence)]

ClampLatest(w, at) == IF at > w.latest THEN w.latest ELSE at

Clamp(w, at) ==
  IF at < w.earliest THEN w.earliest ELSE IF at > w.latest THEN w.latest ELSE at

\* The newest entry of a set of times at or before a cut.
LastBy(times, at) ==
  LET by == {u \in times : u <= at} IN IF by = {} THEN Never ELSE Max(by)

TracksAt(at) == [t \in Tracks |-> LastBy(history[t], at)]

AssetsAt(at) == [a \in Assets |-> LastBy(telemetry[a], at)]

\* The newest alerts raised by the cut, up to the limit.
AlertsAt(at) ==
  LET by == {i \in 1..Len(alerts) : alerts[i] <= at} IN
  {i \in by : Cardinality({j \in by : j > i}) < Limit}

NoPicture ==
  [pc |-> "idle", at |-> 0, base |-> [t \in Tracks |-> {}], begun |-> 0,
   tracks |-> [t \in Tracks |-> Never], states |-> [t \in Tracks |-> "unknown"],
   assets |-> [a \in Assets |-> Never], alerts |-> {}, truncated |-> FALSE]

\* The window, and the instant asked for: none, or one that is not a time, is now.
Window(asked) ==
  LET requested == IF asked = Never THEN now ELSE asked IN
  /\ snap.pc = "idle"
  /\ snap' = [NoPicture EXCEPT !.pc = "tracks", !.base = history, !.begun = Len(alerts),
                               !.at = Clamp(TrackHistoryWindow, requested)]
  /\ UNCHANGED <<now, setting, contacts, reported, touched, spent>>

FreshAt(at, seen) == ForTrack(policy, "active", seen, at)

\* Freshness is judged at the instant of the picture.
SnapshotTracks ==
  LET seen == TracksAt(snap.at) IN
  /\ snap.pc = "tracks"
  /\ snap' = [snap EXCEPT !.pc = "assets", !.tracks = seen,
                          !.states = [t \in Tracks |-> FreshAt(snap.at, seen[t])]]
  /\ UNCHANGED <<now, setting, contacts, reported, touched, spent>>

SnapshotAssets ==
  /\ snap.pc = "assets"
  /\ snap' = [snap EXCEPT !.pc = "alerts", !.assets = AssetsAt(snap.at)]
  /\ UNCHANGED <<now, setting, contacts, reported, touched, spent>>

SnapshotAlerts ==
  /\ snap.pc = "alerts"
  /\ snap' = [snap EXCEPT !.pc = "shown", !.alerts = AlertsAt(snap.at),
                          !.truncated = Cardinality(AlertsAt(snap.at)) >= Limit]
  /\ UNCHANGED <<now, setting, contacts, reported, touched, spent>>

\* The picture is left for another.
Leave ==
  /\ snap.pc = "shown"
  /\ snap' = NoPicture
  /\ UNCHANGED <<now, setting, contacts, reported, touched, spent>>

-----------------------------------------------------------------------------
Init ==
  /\ now = 0
  /\ readers \in Deployments
  /\ policy \in {Normalized(p) : p \in Configured}
  /\ status = [a \in Assets |-> "absent"]
  /\ row = [a \in Assets |-> FreshState]
  /\ telemetry = [a \in Assets |-> {}]
  /\ lastSeen = [t \in Tracks |-> Never]
  /\ history = [t \in Tracks |-> {}]
  /\ alerts = <<>>
  /\ mon = Started(0)
  /\ previous = [k \in Keys |-> None]
  /\ stale = {}
  /\ published = [k \in Keys |-> None]
  /\ touched = [k \in Keys |-> 0]
  /\ snap = NoPicture
  /\ updates = 0 /\ faults = 0

Times == 0..(MaxTime + MaxSkew)

Contact ==
  \/ \E a \in Assets, s \in Statuses : CreateAsset(a, s) \/ UpdateStatus(a, s)
  \/ \E a \in Assets, at \in Times, link \in Links : Report(a, at, link)
  \/ \E t \in Tracks, at \in Times : OpenTrack(t, at) \/ Project(t, at)
  \/ RaiseAlert

Monitor ==
  /\ "monitor" \in readers
  /\ BeginReconcile \/ Replace \/ (\E k \in Keys : ReportOne(k)) \/ ReadFails \/ Restart

Replay ==
  /\ "replay" \in readers
  /\ \/ \E asked \in Times \cup {Never} : Window(asked)
     \/ SnapshotTracks \/ SnapshotAssets \/ SnapshotAlerts \/ Leave

Next == Contact \/ Monitor \/ Replay \/ Tick

Spec == Init /\ [][Next]_vars

-----------------------------------------------------------------------------
(* Properties                                                              *)

Shown == snap.pc \in {"assets", "alerts", "shown"}

ContactState == {None} \cup States

SignalType == [status : Statuses \cup {"absent"}, link : Links \cup {"unknown"}, lastSeen : Int]

TypeOK ==
  /\ now \in Nat
  /\ policy \in Thresholds
  /\ readers \subseteq {"monitor", "replay"}
  /\ status \in [Assets -> Statuses \cup {"absent"}]
  /\ row \in [Assets -> [link : Links \cup {"unknown"}, lastSeen : Int]]
  /\ telemetry \in [Assets -> SUBSET Nat]
  /\ lastSeen \in [Tracks -> Int]
  /\ history \in [Tracks -> SUBSET Nat]
  /\ alerts \in Seq(Nat)
  /\ mon \in [pc : {"waiting", "tracks", "report"}, due : Nat, ticking : BOOLEAN,
               assets : [Assets -> SignalType], pending : SUBSET Keys, missed : Nat]
  /\ previous \in [Keys -> ContactState]
  /\ stale \subseteq Keys
  /\ published \in [Keys -> ContactState]
  /\ touched \in [Keys -> Nat]
  /\ snap \in [pc : {"idle", "tracks", "assets", "alerts", "shown"}, at : Int,
               base : [Tracks -> SUBSET Nat], begun : Nat, tracks : [Tracks -> Int],
               states : [Tracks -> States], assets : [Assets -> Int], alerts : SUBSET Nat,
               truncated : BOOLEAN]
  /\ updates \in Nat /\ faults \in 0..MaxFaults

\* freshness_monitor.go:105-115, metrics.go:270-301: whatever the order in which the
\* transitions of a reconciliation are reported, and whatever telemetry arrives
\* meanwhile, a contact whose transition is not about to be reported is known to the
\* clients by the state the monitor remembers, and is counted by the gauge exactly
\* when that state is not trustworthy: no later tick would correct it.
Reported ==
  \A k \in Keys \ mon.pending :
    /\ published[k] = previous[k]
    /\ k \in stale <=> previous[k] \notin {None} \cup {s \in States : Trustworthy(s)}

\* app.go:229-232: a client never holds a state that is older than three intervals of
\* the monitor (the first reconciliation precedes the ticker), and one for each tick
\* that failed in a row: a contact left alone for that long is known by a state it was
\* in during that time, whether it went quiet, came back, or was declared unavailable.
PublishedInTime ==
  LET lag == (3 + mon.missed) * Interval IN
  "monitor" \in readers => \A k \in Keys : now - touched[k] > lag =>
    \E u \in (now - lag)..now :
      published[k] = Classify(ListAssetFreshnessSignals, ListTrackFreshnessSignals, u)[k]

\* picture/domain.go:11-18: a picture shows each contact by evidence of its own that
\* is no newer than the instant, and by the newest of what was there when the picture
\* was asked for, although evidence arrives between its reads; it is blank only when
\* there is no evidence; and no alert raised by the instant is missing unless the
\* picture says so.
HonestReplay ==
  /\ Shown => \A t \in Tracks :
       /\ snap.tracks[t] # Never => snap.tracks[t] \in history[t] /\ snap.tracks[t] <= snap.at
       /\ LastBy(snap.base[t], snap.at) <= snap.tracks[t]
       /\ snap.states[t] = "live" => snap.at - snap.tracks[t] < policy.delayed
       /\ snap.base[t] # {} => \E u \in Tracks : snap.tracks[u] # Never
  /\ snap.pc = "shown" /\ ~snap.truncated =>
       \A i \in 1..snap.begun : alerts[i] <= snap.at => i \in snap.alerts

\* picture/domain.go:4-9: replay is deterministic for a track that had been seen at or
\* after the instant when the picture was asked for: it is shown as every later picture of
\* that instant will show it, whatever evidence arrives between the reads and afterwards.
\* (An asset's telemetry is recorded however late it arrives.)
ReplayIsStable ==
  Shown => \A t \in Tracks :
    (\E e \in snap.base[t] : snap.at <= e) => snap.tracks[t] = LastBy(history[t], snap.at)
=============================================================================
