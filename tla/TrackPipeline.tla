--------------------------- MODULE TrackPipeline ---------------------------
(***************************************************************************)
(* Observation intake and track projection of the C4ISR platform.          *)
(*                                                                         *)
(* A request goroutine runs observations.Service.Ingest, which stores the  *)
(* evidence row and publishes observation.received; the dispatcher calls   *)
(* tracks.Service.HandleObservationReceived synchronously in the same      *)
(* goroutine.  Any number of requests interleave at their database calls,  *)
(* the same observation may be submitted again at any time, and a request  *)
(* may die (process crash, cancelled context, database error) between any  *)
(* two calls.  One action is one database statement or transaction.        *)
(*                                                                         *)
(* Abstracted: payload, source, position and motion.  Area observations    *)
(* leave the handler at once (tracks/service.go:86) and are in no run      *)
(* here.  A projection below stands for one committed transaction of       *)
(* ApplyObservationWithHistory: the watermark, the track_state row and the *)
(* history point of a positioned observation.                              *)
(*                                                                         *)
(* The definitions NoIndex, BlindApply, ... that stand before the one they *)
(* vary are plausible wrong versions of it, used to show that a property   *)
(* depends on it.                                                          *)
(***************************************************************************)
EXTENDS Integers, Sequences

CONSTANTS
  Obs,          \* observation ids
  Hints,        \* external track references
  NoHint,       \* an observation without a trackHint
  ObservedAt,   \* [Obs -> Nat]: when each observation was made
  TrackHint,    \* [Obs -> Hints \cup {NoHint}]
  Tracks,       \* the track ids that may be allocated
  NoTrack,
  NoObs,
  Requests,     \* request goroutines
  MaxAttempts,  \* projection attempts of one request; 3 in the code
  MaxFaults     \* bound: crashes and database errors in one behaviour

ASSUME DataAssumption ==
  /\ ObservedAt \in [Obs -> Nat]
  /\ TrackHint \in [Obs -> Hints \cup {NoHint}]
  /\ NoHint \notin Hints
  /\ NoTrack \notin Tracks
  /\ NoObs \notin Obs

ASSUME BoundAssumption ==
  /\ MaxAttempts \in Nat \ {0}
  /\ MaxFaults \in Nat

VARIABLES
  status,       \* observations row: absent, stored, processed (processed_at set)
  owner,        \* track_observations: the track an observation is evidence of
  initial,      \* tracks.metadata.initialObservationId; NoObs: no such row
  lastSeen,     \* tracks.last_seen_at, the watermark
  projections,  \* committed projections of each track, oldest first
  announced,    \* the observations whose track.updated was published, by track
  req,          \* the state of each request goroutine
  faults        \* faults so far

rows == <<status, owner, initial, lastSeen, projections>>
vars == <<rows, announced, req, faults>>

\* The call a request is about to make.
PCs == {"idle", "load", "findOwner", "findRef", "create", "resolve",
        "resolveDuplicate", "resolveRef", "attach", "reOwner", "apply",
        "update", "reload", "mark", "markApplied", "publish"}

Request ==
  [pc       : PCs,
   obs      : Obs \cup {NoObs},       \* the observation it carries
   retry    : BOOLEAN,                \* the event is a replay (Duplicate, Retry)
   trk      : Tracks \cup {NoTrack},  \* the track it correlated to
   expected : Nat,                    \* the watermark it read with that track
   attempt  : 0..MaxAttempts,         \* projection attempts it has lost
   hadState : BOOLEAN]                \* its UPDATE's snapshot held a track_state row

Idle == [pc |-> "idle", obs |-> NoObs, retry |-> FALSE, trk |-> NoTrack,
         expected |-> 0, attempt |-> 0, hadState |-> FALSE]

-----------------------------------------------------------------------------
(* The rows, as the queries see them.                                      *)

Exists(t) == initial[t] # NoObs

\* Every track row is inserted with the hint of the observation that made it.
Ref(t) == TrackHint[initial[t]]

\* FindTrackByExternalRef.
TracksByRef(o) == {t \in Tracks : Exists(t) /\ TrackHint[o] # NoHint /\ Ref(t) = TrackHint[o]}

\* FindTrackByObservationID: the evidence link, or the initial observation.
TracksByObservation(o) == {t \in Tracks : Exists(t) /\ (owner[o] = t \/ initial[t] = o)}

\* The two unique indexes of tracks.
RefTaken(o)     == TracksByRef(o) # {}
NoIndex(o)      == FALSE
InitialTaken(o) == \E t \in Tracks : initial[t] = o

HasState(t) == projections[t] # <<>>

-----------------------------------------------------------------------------
(* Moves of a request.                                                     *)

At(r, label)   == req[r].pc = label
Goto(r, label) == req' = [req EXCEPT ![r].pc = label]
Return(r)      == req' = [req EXCEPT ![r] = Idle]

\* Continue at label with track t, read with watermark w.
WithTrack(r, t, w, label) ==
  req' = [req EXCEPT ![r] = [@ EXCEPT !.trk = t, !.expected = w, !.pc = label]]

\* correlate after the owner lookup: an unhinted observation makes its own track.
Correlate(o) == IF TrackHint[o] = NoHint THEN "create" ELSE "findRef"

\* The head of the projection loop: evidence older than the track is only settled.
LoopHead(o, w) == IF ObservedAt[o] < w THEN "mark" ELSE "apply"

-----------------------------------------------------------------------------
(* observations.Service.Ingest                                             *)

\* CreateObservation leaves processed_at unset.
StoreRow(o) == status' = [status EXCEPT ![o] = "stored"]

\* The evidence insert.  A new row publishes observation.received; a repeated
\* id loads the stored row instead.
Ingest(r, o) ==
  /\ At(r, "idle")
  /\ \/ /\ status[o] = "absent"
        /\ StoreRow(o)
        /\ req' = [req EXCEPT ![r] = [Idle EXCEPT !.obs = o, !.pc = Correlate(o)]]
     \/ /\ status[o] # "absent"
        /\ req' = [req EXCEPT ![r] = [Idle EXCEPT !.obs = o, !.pc = "load"]]
        /\ UNCHANGED status
  /\ UNCHANGED <<owner, initial, lastSeen, projections, announced, faults>>

NeverReplayed(o) == FALSE

\* An observation that was never marked processed is replayed.
Replayed(o) == status[o] # "processed"

\* repo.Get of a repeated id.
Load(r) ==
  /\ At(r, "load")
  /\ IF Replayed(req[r].obs)
     THEN req' = [req EXCEPT ![r] = [@ EXCEPT !.retry = TRUE, !.pc = "findOwner"]]
     ELSE Return(r)
  /\ UNCHANGED <<rows, announced, faults>>

-----------------------------------------------------------------------------
(* tracks.Service: correlate, createTrack, HandleObservationReceived       *)

\* A replay first looks for the track that already owns the evidence.
FindOwner(r) ==
  LET o == req[r].obs IN
  /\ At(r, "findOwner")
  /\ \/ \E t \in TracksByObservation(o) : WithTrack(r, t, lastSeen[t], "attach")
     \/ TracksByObservation(o) = {} /\ Goto(r, Correlate(o))
  /\ UNCHANGED <<rows, announced, faults>>

FindRef(r) ==
  LET o == req[r].obs IN
  /\ At(r, "findRef")
  /\ \/ \E t \in TracksByRef(o) : WithTrack(r, t, lastSeen[t], "attach")
     \/ TracksByRef(o) = {} /\ Goto(r, "create")
  /\ UNCHANGED <<rows, announced, faults>>

InsertTrack(t, o) ==
  /\ ~Exists(t)
  /\ ~RefTaken(o)
  /\ ~InitialTaken(o)
  /\ initial' = [initial EXCEPT ![t] = o]
  /\ lastSeen' = [lastSeen EXCEPT ![t] = ObservedAt[o]]
  /\ UNCHANGED <<status, owner, projections>>

\* The insert succeeds, or one of the unique indexes refuses it.
Create(r) ==
  LET o == req[r].obs IN
  /\ At(r, "create")
  /\ \/ \E t \in Tracks : InsertTrack(t, o) /\ WithTrack(r, t, ObservedAt[o], "attach")
     \/ RefTaken(o) /\ Goto(r, "resolveDuplicate") /\ UNCHANGED rows
     \/ InitialTaken(o) /\ ~RefTaken(o) /\ Goto(r, "resolve") /\ UNCHANGED rows
  /\ UNCHANGED <<announced, faults>>

\* After a refused insert: the durable owner, else the holder of the hint when
\* the hint was the clash, else the request fails.
Resolve(r) ==
  LET o == req[r].obs IN
  /\ req[r].pc \in {"resolve", "resolveDuplicate"}
  /\ \/ \E t \in TracksByObservation(o) : WithTrack(r, t, lastSeen[t], "attach")
     \/ /\ TracksByObservation(o) = {}
        /\ IF At(r, "resolveDuplicate") THEN Goto(r, "resolveRef") ELSE Return(r)
  /\ UNCHANGED <<rows, announced, faults>>

ResolveRef(r) ==
  LET o == req[r].obs IN
  /\ At(r, "resolveRef")
  /\ \/ \E t \in TracksByRef(o) : WithTrack(r, t, lastSeen[t], "attach")
     \/ TracksByRef(o) = {} /\ Return(r)
  /\ UNCHANGED <<rows, announced, faults>>

\* AttachObservation: INSERT ... ON CONFLICT (observation_id) DO NOTHING.  A
\* first delivery that finds the link taken stops, a replay goes on.
Attach(r) ==
  LET o == req[r].obs
      t == req[r].trk IN
  /\ At(r, "attach")
  /\ \/ /\ owner[o] = NoTrack
        /\ owner' = [owner EXCEPT ![o] = t]
        /\ Goto(r, LoopHead(o, req[r].expected))
     \/ /\ owner[o] # NoTrack
        /\ IF req[r].retry THEN Goto(r, "reOwner") ELSE Return(r)
        /\ UNCHANGED owner
  /\ UNCHANGED <<status, initial, lastSeen, projections, announced, faults>>

\* A replay continues with the durable owner.
ReOwner(r) ==
  LET o == req[r].obs IN
  /\ At(r, "reOwner")
  /\ \E t \in TracksByObservation(o) :
       WithTrack(r, t, lastSeen[t], LoopHead(o, lastSeen[t]))
  /\ UNCHANGED <<rows, announced, faults>>

-----------------------------------------------------------------------------
(* ApplyObservationWithHistory, at READ COMMITTED                          *)

\* The statement takes its snapshot: whether track_state holds a row for the
\* track is read here and is not read again if the UPDATE has to wait for the
\* row lock of a concurrent projection.
BeginUpdate(r) ==
  /\ At(r, "apply")
  /\ req' = [req EXCEPT ![r] = [@ EXCEPT !.hadState = HasState(req[r].trk), !.pc = "update"]]
  /\ UNCHANGED <<rows, announced, faults>>

BlindApply(o, t, expected, hadState) == lastSeen[t] < ObservedAt[o] \/ ~hadState

\* The WHERE clause, evaluated on the locked version of the tracks row.
MayApply(o, t, expected, hadState) ==
  /\ lastSeen[t] = expected
  /\ (lastSeen[t] < ObservedAt[o] \/ ~hadState)

CommitNoTouch(o, t) ==
  /\ projections' = [projections EXCEPT ![t] = Append(@, o)]
  /\ status' = [status EXCEPT ![o] = "processed"]
  /\ UNCHANGED lastSeen

\* The watermark, the projected state with its history point, and the process
\* marker commit together.
Commit(o, t) ==
  /\ lastSeen' = [lastSeen EXCEPT ![t] = ObservedAt[o]]
  /\ projections' = [projections EXCEPT ![t] = Append(@, o)]
  /\ status' = [status EXCEPT ![o] = "processed"]

\* The locked part of the transaction, up to its commit.
Update(r) ==
  LET o == req[r].obs
      t == req[r].trk IN
  /\ At(r, "update")
  /\ \/ /\ MayApply(o, t, req[r].expected, req[r].hadState)
        /\ Commit(o, t)
        /\ Goto(r, "markApplied")
     \/ /\ ~MayApply(o, t, req[r].expected, req[r].hadState)
        /\ Goto(r, "reload")
        /\ UNCHANGED <<status, lastSeen, projections>>
  /\ UNCHANGED <<owner, initial, announced, faults>>

AfterLossEarly(o, expected, fresh, attempts) ==
  IF (fresh <= expected /\ ObservedAt[o] <= fresh) \/ attempts = MaxAttempts - 1
  THEN "mark"
  ELSE LoopHead(o, fresh)

\* Where a request that lost goes with the watermark it reloaded.
AfterLoss(o, expected, fresh, attempts) ==
  IF (fresh <= expected /\ ObservedAt[o] <= fresh) \/ attempts = MaxAttempts
  THEN "mark"
  ELSE LoopHead(o, fresh)

Reload(r) ==
  LET o     == req[r].obs
      fresh == lastSeen[req[r].trk] IN
  /\ At(r, "reload")
  /\ req' = [req EXCEPT ![r] =
               [@ EXCEPT !.attempt = req[r].attempt + 1,
                         !.expected = fresh,
                         !.pc = AfterLoss(o, req[r].expected, fresh, req[r].attempt + 1)]]
  /\ UNCHANGED <<rows, announced, faults>>

MarkAndPublish(r) ==
  /\ req[r].pc \in {"mark", "markApplied"}
  /\ status' = [status EXCEPT ![req[r].obs] = "processed"]
  /\ Goto(r, "publish")
  /\ UNCHANGED <<owner, initial, lastSeen, projections, announced, faults>>

\* markProcessed: after a projection the handler publishes, otherwise it is done.
Mark(r) ==
  /\ req[r].pc \in {"mark", "markApplied"}
  /\ status' = [status EXCEPT ![req[r].obs] = "processed"]
  /\ IF At(r, "mark") THEN Return(r) ELSE Goto(r, "publish")
  /\ UNCHANGED <<owner, initial, lastSeen, projections, announced, faults>>

\* track.updated.
Publish(r) ==
  /\ At(r, "publish")
  /\ announced' = [announced EXCEPT ![req[r].trk] = @ \cup {req[r].obs}]
  /\ Return(r)
  /\ UNCHANGED <<rows, faults>>

-----------------------------------------------------------------------------
(* Faults                                                                  *)

\* The request ends: a crash, or a call whose error makes the handler return.
Abort(r) ==
  /\ ~At(r, "idle")
  /\ Return(r)
  /\ UNCHANGED <<rows, announced>>

\* createTrack looks for an owner after any error of the insert, and the insert
\* may have committed before its answer was lost.
CreateFails(r) ==
  /\ At(r, "create")
  /\ Goto(r, "resolve")
  /\ \/ \E t \in Tracks : InsertTrack(t, req[r].obs)
     \/ UNCHANGED rows
  /\ UNCHANGED announced

\* A failed owner lookup falls through to the lookup by hint.
ResolveFails(r) ==
  /\ At(r, "resolveDuplicate")
  /\ Goto(r, "resolveRef")
  /\ UNCHANGED <<rows, announced>>

\* markProcessed only logs its error.
MarkFails(r) ==
  /\ At(r, "markApplied")
  /\ Goto(r, "publish")
  /\ UNCHANGED <<rows, announced>>

Fault(r) ==
  /\ faults < MaxFaults
  /\ faults' = faults + 1
  /\ Abort(r) \/ CreateFails(r) \/ ResolveFails(r) \/ MarkFails(r)

-----------------------------------------------------------------------------
Init ==
  /\ status      = [o \in Obs |-> "absent"]
  /\ owner       = [o \in Obs |-> NoTrack]
  /\ initial     = [t \in Tracks |-> NoObs]
  /\ lastSeen    = [t \in Tracks |-> 0]
  /\ projections = [t \in Tracks |-> <<>>]
  /\ announced   = [t \in Tracks |-> {}]
  /\ req         = [r \in Requests |-> Idle]
  /\ faults      = 0

\* The handler's own next call.
Step(r) ==
  \/ Load(r) \/ FindOwner(r) \/ FindRef(r) \/ Create(r) \/ Resolve(r)
  \/ ResolveRef(r) \/ Attach(r) \/ ReOwner(r) \/ BeginUpdate(r) \/ Update(r)
  \/ Reload(r) \/ Mark(r) \/ Publish(r)

Next ==
  \E r \in Requests :
    \/ \E o \in Obs : Ingest(r, o)
    \/ Step(r)
    \/ Fault(r)

Spec == Init /\ [][Next]_vars

\* The Go scheduler runs every request, the database answers it, and a source
\* submits its observation again until the platform has processed it.
Fairness ==
  /\ \A r \in Requests : WF_vars(Step(r))
  /\ \A o \in Obs : SF_vars(\E r \in Requests : status[o] # "processed" /\ Ingest(r, o))

FairSpec == Spec /\ Fairness

-----------------------------------------------------------------------------
(* Properties                                                              *)

TypeOK ==
  /\ status \in [Obs -> {"absent", "stored", "processed"}]
  /\ owner \in [Obs -> Tracks \cup {NoTrack}]
  /\ initial \in [Tracks -> Obs \cup {NoObs}]
  /\ lastSeen \in [Tracks -> Nat]
  /\ projections \in [Tracks -> Seq(Obs)]
  /\ announced \in [Tracks -> SUBSET Obs]
  /\ req \in [Requests -> Request]
  /\ faults \in 0..MaxFaults

\* The track an observation belongs to: the one it opened when it carries no
\* hint, the one that holds its hint when it does.
Belongs(o, t) ==
  /\ Exists(t)
  /\ IF TrackHint[o] = NoHint THEN initial[t] = o ELSE Ref(t) = TrackHint[o]

\* Correlation is deterministic however deliveries, replays and lost inserts of
\* an observation interleave: every track that could claim it, by the evidence
\* link, by its initial observation or by its hint, is the same track, so the
\* owner lookup (ORDER BY ... LIMIT 1) never has two rows to choose from.
OneOwner ==
  \A o \in Obs, t, u \in Tracks :
    (t \in TracksByObservation(o) \/ Belongs(o, t)) /\
    (u \in TracksByObservation(o) \/ Belongs(o, u)) => t = u

\* Evidence is attached to the track it belongs to, by whichever request.
EvidenceBelongs ==
  \A o \in Obs : owner[o] # NoTrack => Belongs(o, owner[o])

\* processed_at is the promise that no replay is needed: the evidence is linked.
\* A replay is accepted only while this promise has not been made.
ProcessedIsAttached ==
  \A o \in Obs : status[o] = "processed" => owner[o] # NoTrack

\* The watermark is never without evidence: it is the time of the projection
\* that was committed last, or of the observation that opened the track, and
\* projections never go back in time even though the compare-and-swap lets a
\* first projection through at an equal or later time.
WatermarkIsEvidence ==
  \A t \in Tracks : Exists(t) =>
    LET p == projections[t] IN
    /\ lastSeen[t] = IF p = <<>> THEN ObservedAt[initial[t]] ELSE ObservedAt[p[Len(p)]]
    /\ ObservedAt[initial[t]] <= lastSeen[t]
    /\ \A i, j \in 1..Len(p) : i <= j => ObservedAt[p[i]] <= ObservedAt[p[j]]

\* Every projection of a track is of evidence attached to that track, and was
\* marked processed by the same transaction.
ProjectionIsAttached ==
  \A t \in Tracks : \A i \in 1..Len(projections[t]) :
    LET o == projections[t][i] IN owner[o] = t /\ status[o] = "processed"

\* An observation newer than its track is given up only after it lost its whole
\* retry budget to projections of that track: no smaller contention, no fault
\* and no replay can make the pipeline settle the newest evidence unprojected.
LossNeedsContention ==
  \A o \in Obs :
    status[o] = "processed" /\ lastSeen[owner[o]] < ObservedAt[o]
      => Len(projections[owner[o]]) >= MaxAttempts

\* A track.updated event is only ever published for a projection that is durable
\* and owned by that track.
AnnouncedIsProjected ==
  \A t \in Tracks : \A o \in announced[t] :
    \E i \in 1..Len(projections[t]) : projections[t][i] = o

\* The chain of custody, whoever carries an observation along it and wherever a
\* request dies: attached where it belongs before it counts as processed, attached and
\* processed where it is projected, and announced only when it is projected.
EvidenceIsSound ==
  EvidenceBelongs /\ ProcessedIsAttached /\ ProjectionIsAttached /\ AnnouncedIsProjected

\* A step never moves a watermark back, reassigns evidence, or unsettles an
\* observation: late and replayed deliveries do not regress what is recorded.
NeverRegresses ==
  [][/\ \A t \in Tracks : Exists(t) => lastSeen'[t] >= lastSeen[t]
     /\ \A o \in Obs : owner[o] # NoTrack => owner'[o] = owner[o]
     /\ \A o \in Obs : status[o] = "processed" => status'[o] = "processed"]_vars

\* Stored evidence is eventually settled, whatever request or call dies on the
\* way, as long as its source submits it again.
StoredIsProcessed ==
  \A o \in Obs : status[o] = "stored" ~> status[o] = "processed"

\* What the pipeline promises: the ledger of EvidenceLedger.
Ledger == INSTANCE EvidenceLedger WITH
  watermark <- [t \in Tracks |-> IF Exists(t) THEN lastSeen[t] ELSE -1]
ImplementsLedger == Ledger!Spec

-----------------------------------------------------------------------------
(* The inductive invariant: what the rows hold, and what a request knows   *)
(* at each of its calls.                                                   *)

\* The unique indexes, and the order of the inserts.
RowInv ==
  /\ \A t, u \in Tracks : Exists(t) /\ initial[t] = initial[u] => t = u
  /\ \A t, u \in Tracks :
       Exists(t) /\ Exists(u) /\ Ref(t) # NoHint /\ Ref(t) = Ref(u) => t = u
  /\ \A t \in Tracks : Exists(t) => status[initial[t]] # "absent"
  /\ \A t \in Tracks : ~Exists(t) => projections[t] = <<>>
  /\ \A o \in Obs : owner[o] # NoTrack => status[o] # "absent"

\* How often the track moved on without the request.
Contended(q) ==
  Len(projections[q.trk]) >= q.attempt + IF q.expected < lastSeen[q.trk] THEN 1 ELSE 0

Correlated == {"attach", "apply", "update", "reload", "mark", "markApplied", "publish"}
Projecting == {"apply", "update", "reload"}

RequestInv(q) ==
  /\ q.pc # "idle" => q.obs \in Obs /\ status[q.obs] # "absent"
  /\ q.pc \notin Correlated => q.attempt = 0
  /\ q.pc = "reOwner" => owner[q.obs] # NoTrack
  /\ q.pc \in Correlated =>
       /\ q.trk \in Tracks
       /\ Belongs(q.obs, q.trk)
  /\ q.pc = "attach" => q.attempt = 0
  /\ q.pc \in Correlated \ {"attach"} => owner[q.obs] = q.trk
  /\ q.pc \in Projecting \cup {"attach"} =>
       /\ q.attempt < MaxAttempts
       /\ q.expected <= lastSeen[q.trk]
       /\ Contended(q)
  /\ q.pc \in {"apply", "update"} => q.expected <= ObservedAt[q.obs]
  /\ q.pc = "update" /\ q.hadState => HasState(q.trk)
  /\ q.pc = "reload" =>
       q.expected < lastSeen[q.trk] \/ ObservedAt[q.obs] <= lastSeen[q.trk]
  /\ q.pc = "mark" =>
       \/ ObservedAt[q.obs] <= lastSeen[q.trk]
       \/ Len(projections[q.trk]) >= MaxAttempts
  /\ q.pc \in {"markApplied", "publish"} =>
       /\ status[q.obs] = "processed"
       /\ \E i \in 1..Len(projections[q.trk]) : projections[q.trk][i] = q.obs

IInv ==
  /\ TypeOK
  /\ RowInv
  /\ EvidenceBelongs
  /\ ProcessedIsAttached
  /\ WatermarkIsEvidence
  /\ ProjectionIsAttached
  /\ LossNeedsContention
  /\ AnnouncedIsProjected
  /\ \A r \in Requests : RequestInv(req[r])
=============================================================================
