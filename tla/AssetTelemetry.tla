--------------------------- MODULE AssetTelemetry ---------------------------
(***************************************************************************)
(* Telemetry intake and the state projection of one controlled asset.      *)
(*                                                                         *)
(* telemetry.Service.Ingest records a sample, then reads the asset's state *)
(* row, derives motion from it and replaces it by compare-and-set on       *)
(* last_seen_at, at most MaxAttempts times; it announces a new position, a *)
(* changed connection, and last that the sample was received and whether   *)
(* it was stale.  Requests interleave at their database calls and their    *)
(* events, and may die between any two of them.                            *)
(*                                                                         *)
(* Abstracted: payloads, and health, which is merged as motion is.  Speed  *)
(* and heading are one value, reported by a sample or derived for it.  The *)
(* rows of different assets share nothing.  A repeated message is answered *)
(* Duplicate and changes nothing, so it takes no step here.                *)
(***************************************************************************)
EXTENDS Integers, Sequences

CONSTANTS
  Samples,     \* telemetry samples, each with its own message id
  NoSample,
  ObservedAt,  \* [Samples -> Nat \ {0}]
  Positioned,  \* the samples that carry a position
  Measured,    \* the samples that carry speed and heading
  Connection,  \* [Samples -> connection states]; a sample that declares none is "connected"
  Requests,    \* request goroutines
  MaxAttempts, \* compare-and-sets of one request; 3 in the code
  MaxFaults    \* bound: crashes and database errors in one behaviour

States == {"connected", "degraded", "disconnected", "unknown"}

ASSUME DataAssumption ==
  /\ NoSample \notin Samples
  /\ ObservedAt \in [Samples -> Nat \ {0}]
  /\ Positioned \subseteq Samples
  /\ Measured \subseteq Samples
  /\ Connection \in [Samples -> States]

ASSUME BoundAssumption ==
  /\ MaxAttempts \in Nat \ {0}
  /\ MaxFaults \in Nat

VARIABLES
  stored,     \* asset_telemetry: the samples recorded
  state,      \* the asset_state row
  applied,    \* history: the samples that replaced the row, oldest first
  announced,  \* the samples for which asset.connection.changed was published
  verdict,    \* telemetry.received by sample: none, applied or stale
  dropped,    \* history: the samples whose request died
  req,        \* the state of each request goroutine
  faults      \* faults so far

vars == <<stored, state, applied, announced, verdict, dropped, req, faults>>

\* Speed and heading: reported by a sample (base is the sample itself), or the way
\* from base's position to that of the sample in the time since the row's watermark.
Motion == [of : Samples \cup {NoSample}, base : Samples \cup {NoSample}, since : Nat]
NoMotion == [of |-> NoSample, base |-> NoSample, since |-> 0]

Row == [lastSeen   : Nat,                      \* 0: no sample was applied yet
        position   : Samples \cup {NoSample},  \* the sample whose position it shows
        motion     : Motion,
        connection : States]

\* EnsureAssetState.
FreshRow == [lastSeen |-> 0, position |-> NoSample, motion |-> NoMotion, connection |-> "unknown"]

PCs == {"idle", "snapshot", "apply", "position", "connection", "received"}

Request == [pc : PCs, sample : Samples \cup {NoSample}, seen : Row, attempt : 0..MaxAttempts,
            stale : BOOLEAN]                     \* result.Stale

Idle == [pc |-> "idle", sample |-> NoSample, seen |-> FreshRow, attempt |-> 0, stale |-> FALSE]

At(r, label) == req[r].pc = label
Goto(r, label) == req' = [req EXCEPT ![r].pc = label]
Return(r) == req' = [req EXCEPT ![r] = Idle]

-----------------------------------------------------------------------------
(* Ingest                                                                  *)

Ingest(r, s) ==
  /\ At(r, "idle")
  /\ s \notin stored
  /\ stored' = stored \cup {s}
  /\ req' = [req EXCEPT ![r] = [Idle EXCEPT !.sample = s, !.pc = "snapshot"]]
  /\ UNCHANGED <<state, applied, announced, verdict, dropped, faults>>

OlderByOne(s, row) == ObservedAt[s] <= row.lastSeen + 1

\* A sample older than the row is only history.
Older(s, row) == ObservedAt[s] < row.lastSeen

\* StateSnapshot.
Snapshot(r) ==
  /\ At(r, "snapshot")
  /\ req' = [req EXCEPT ![r] =
               IF Older(req[r].sample, state)
               THEN [@ EXCEPT !.seen = state, !.stale = TRUE, !.pc = "received"]
               ELSE [@ EXCEPT !.seen = state, !.pc = "apply"]]
  /\ UNCHANGED <<stored, state, applied, announced, verdict, dropped, faults>>

\* deriveKinematics, and the COALESCE that keeps the row's motion when there is none.
MotionOf(s, seen, row) ==
  IF s \in Measured THEN [of |-> s, base |-> s, since |-> ObservedAt[s]]
  ELSE IF s \in Positioned /\ seen.position # NoSample /\ seen.lastSeen < ObservedAt[s]
  THEN [of |-> s, base |-> seen.position, since |-> seen.lastSeen]
  ELSE row.motion

MergeOverwriting(s, seen, row) ==
  [lastSeen   |-> ObservedAt[s],
   position   |-> IF s \in Positioned THEN s ELSE NoSample,
   motion     |-> MotionOf(s, seen, row),
   connection |-> Connection[s]]

\* The row after the UPDATE: what a sample lacks is kept.
Merge(s, seen, row) ==
  [lastSeen   |-> ObservedAt[s],
   position   |-> IF s \in Positioned THEN s ELSE row.position,
   motion     |-> MotionOf(s, seen, row),
   connection |-> Connection[s]]

IsNewest(s, seen, row) == row.lastSeen < ObservedAt[s]

\* The WHERE clause, evaluated on the locked row.
MayApply(s, seen, row) ==
  /\ row.lastSeen = seen.lastSeen
  /\ row.lastSeen < ObservedAt[s]

Commit(r) ==
  LET s == req[r].sample IN
  /\ MayApply(s, req[r].seen, state)
  /\ state' = Merge(s, req[r].seen, state)
  /\ applied' = Append(applied, s)

GiveUp(attempts) == attempts >= MaxAttempts

\* UpsertAssetState, and the loop around it.
Apply(r) ==
  /\ At(r, "apply")
  /\ \/ /\ Commit(r)
        /\ req' = [req EXCEPT ![r] = [@ EXCEPT !.stale = FALSE, !.pc = "position"]]
     \/ /\ ~MayApply(req[r].sample, req[r].seen, state)
        /\ req' = [req EXCEPT ![r] =
                     [@ EXCEPT !.attempt = req[r].attempt + 1,
                               !.stale = TRUE,
                               !.pc = IF GiveUp(req[r].attempt + 1) THEN "received" ELSE "snapshot"]]
        /\ UNCHANGED <<state, applied>>
  /\ UNCHANGED <<stored, announced, verdict, dropped, faults>>

\* asset.position.updated
PublishPosition(r) ==
  /\ At(r, "position")
  /\ Goto(r, "connection")
  /\ UNCHANGED <<stored, state, applied, announced, verdict, dropped, faults>>

ChangedFromDefault(s, seen) == Connection[s] # "connected"

Changed(s, seen) == seen.connection # Connection[s]

\* asset.connection.changed, when the row the request replaced showed another state.
PublishConnection(r) ==
  LET s == req[r].sample IN
  /\ At(r, "connection")
  /\ announced' = IF Changed(s, req[r].seen) THEN announced \cup {s} ELSE announced
  /\ Goto(r, "received")
  /\ UNCHANGED <<stored, state, applied, verdict, dropped, faults>>

\* telemetry.received, with the verdict of the loop.
PublishReceived(r) ==
  /\ At(r, "received")
  /\ verdict' = [verdict EXCEPT ![req[r].sample] = IF req[r].stale THEN "stale" ELSE "applied"]
  /\ Return(r)
  /\ UNCHANGED <<stored, state, applied, announced, dropped, faults>>

\* The request dies, or the error of a statement ends it; the UPDATE may have
\* committed before its answer was lost.
Fault(r) ==
  /\ ~At(r, "idle")
  /\ faults < MaxFaults
  /\ faults' = faults + 1
  /\ dropped' = dropped \cup {req[r].sample}
  /\ \/ UNCHANGED <<state, applied>>
     \/ At(r, "apply") /\ Commit(r)
  /\ Return(r)
  /\ UNCHANGED <<stored, announced, verdict>>

-----------------------------------------------------------------------------
Init ==
  /\ stored = {}
  /\ state = FreshRow
  /\ applied = <<>>
  /\ announced = {}
  /\ verdict = [s \in Samples |-> "none"]
  /\ dropped = {}
  /\ req = [r \in Requests |-> Idle]
  /\ faults = 0

Step(r) ==
  Snapshot(r) \/ Apply(r) \/ PublishPosition(r) \/ PublishConnection(r) \/ PublishReceived(r)

Next ==
  \E r \in Requests :
    \/ \E s \in Samples : Ingest(r, s)
    \/ Step(r)
    \/ Fault(r)

Spec == Init /\ [][Next]_vars

\* The scheduler runs every request and the database answers it.
FairSpec == Spec /\ \A r \in Requests : WF_vars(Step(r))

-----------------------------------------------------------------------------
(* Properties                                                              *)

TypeOK ==
  /\ stored \subseteq Samples
  /\ state \in Row
  /\ applied \in Seq(Samples)
  /\ announced \subseteq Samples
  /\ verdict \in [Samples -> {"none", "applied", "stale"}]
  /\ dropped \subseteq Samples
  /\ req \in [Requests -> Request]
  /\ faults \in 0..MaxFaults

\* The row is the merge of its samples in the order of their observation, whatever
\* the order of their arrival: time never goes back or stands still, and a sample
\* without a position neither hides nor revives an older one.
StateIsProjection ==
  LET n == Len(applied) IN
  /\ \A i, j \in 1..n : i < j => ObservedAt[applied[i]] < ObservedAt[applied[j]]
  /\ state.lastSeen = IF n = 0 THEN 0 ELSE ObservedAt[applied[n]]
  /\ \/ /\ state.position = NoSample
        /\ \A i \in 1..n : applied[i] \notin Positioned
     \/ \E i \in 1..n :
          /\ applied[i] = state.position
          /\ applied[i] \in Positioned
          /\ \A j \in (i + 1)..n : applied[j] \notin Positioned

\* telemetry/service.go:110-113: motion is never derived from a row that another
\* sample has replaced since it was read.
MotionFromPredecessor ==
  [][state'.motion # state.motion =>
       \/ state'.motion.base = state'.motion.of
       \/ /\ state'.motion.base = state.position
          /\ state'.motion.since = state.lastSeen]_vars

\* The state the asset was in after i samples.
ConnectionAfter(i) == IF i = 0 THEN "unknown" ELSE Connection[applied[i]]

ChangesConnection(s) ==
  \E i \in 1..Len(applied) : applied[i] = s /\ ConnectionAfter(i) # ConnectionAfter(i - 1)

\* asset.connection.changed is published for exactly the samples that changed the
\* asset's connection, although each request judges by a row it read before it
\* wrote: no change is announced that did not happen, and a change that happened is
\* announced, is about to be, or was lost with the request that made it.
ConnectionAnnounced ==
  \A s \in Samples :
    /\ s \in announced => ChangesConnection(s)
    /\ ChangesConnection(s) =>
         \/ s \in announced
         \/ s \in dropped
         \/ \E r \in Requests : req[r].sample = s /\ req[r].pc \in {"position", "connection"}

\* A source that is told its sample was stale can rely on it: the asset shows a state
\* at least as new, or the request lost every attempt to another sample's commit.
StaleNeedsReason ==
  \A s \in Samples : verdict[s] = "stale" =>
    ObservedAt[s] <= state.lastSeen \/ Len(applied) >= MaxAttempts

\* What the service tells of a sample is true: the subscribers about the connection, the
\* source about staleness.
AnswersAreTrue == ConnectionAnnounced /\ StaleNeedsReason

\* Unless its request dies, every recorded sample becomes part of the state or is
\* overtaken.
SampleCounts ==
  \A s \in Samples :
    s \in stored ~>
      (ObservedAt[s] <= state.lastSeen \/ Len(applied) >= MaxAttempts \/ s \in dropped)

-----------------------------------------------------------------------------
(* The inductive invariant.                                                *)

ConnectionIsLast == state.connection = ConnectionAfter(Len(applied))

\* A request that read a row knows all of the row, or that the row moved on; every
\* attempt it lost is a commit of another sample, unless it is no longer the newest.
RequestInv(q) ==
  /\ q.pc # "idle" => q.sample \in stored
  /\ q.pc \in {"snapshot", "apply"} =>
       /\ q.attempt < MaxAttempts
       /\ q.attempt <= Len(applied) \/ ObservedAt[q.sample] <= state.lastSeen
  /\ q.pc = "apply" =>
       /\ q.seen.lastSeen <= state.lastSeen
       /\ q.seen.lastSeen = state.lastSeen => q.seen = state
       /\ q.seen.lastSeen < state.lastSeen =>
            q.attempt < Len(applied) \/ ObservedAt[q.sample] <= state.lastSeen
  /\ q.pc \in {"position", "connection"} =>
       /\ ~q.stale
       /\ \E i \in 1..Len(applied) :
            applied[i] = q.sample /\ ConnectionAfter(i - 1) = q.seen.connection
  /\ q.pc = "received" /\ q.stale =>
       ObservedAt[q.sample] <= state.lastSeen \/ Len(applied) >= MaxAttempts

IInv ==
  /\ TypeOK
  /\ StateIsProjection
  /\ ConnectionIsLast
  /\ ConnectionAnnounced
  /\ StaleNeedsReason
  /\ \A r \in Requests : RequestInv(req[r])
=============================================================================
