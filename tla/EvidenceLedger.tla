--------------------------- MODULE EvidenceLedger ---------------------------
(***************************************************************************)
(* What the observation pipeline promises, with no requests and no         *)
(* interleaving: evidence is recorded once, becomes part of one track for  *)
(* good, and is settled once it is part of a track; a track shows the time *)
(* of evidence it holds and never an earlier one than it has shown.        *)
(***************************************************************************)
EXTENDS Integers

CONSTANTS Obs, Tracks, NoTrack, ObservedAt

VARIABLES
  status,     \* absent, stored, processed
  owner,      \* the track the evidence is part of
  watermark   \* the time a track shows; -1 before the track is opened

vars == <<status, owner, watermark>>

Record(o) ==
  /\ status[o] = "absent"
  /\ status' = [status EXCEPT ![o] = "stored"]
  /\ UNCHANGED <<owner, watermark>>

\* A track is opened for stored evidence and shows its time.
Open(t, o) ==
  /\ watermark[t] = -1
  /\ status[o] # "absent"
  /\ watermark' = [watermark EXCEPT ![t] = ObservedAt[o]]
  /\ UNCHANGED <<status, owner>>

Own(o, t) ==
  /\ status[o] # "absent"
  /\ owner[o] = NoTrack
  /\ watermark[t] # -1
  /\ owner' = [owner EXCEPT ![o] = t]
  /\ UNCHANGED <<status, watermark>>

\* A track shows evidence of its own that is no older than what it shows.
Project(o) ==
  /\ owner[o] # NoTrack
  /\ watermark[owner[o]] <= ObservedAt[o]
  /\ watermark' = [watermark EXCEPT ![owner[o]] = ObservedAt[o]]
  /\ status' = [status EXCEPT ![o] = "processed"]
  /\ UNCHANGED owner

\* Evidence may be settled without being shown.
Settle(o) ==
  /\ owner[o] # NoTrack
  /\ status' = [status EXCEPT ![o] = "processed"]
  /\ UNCHANGED <<owner, watermark>>

Init ==
  /\ status    = [o \in Obs |-> "absent"]
  /\ owner     = [o \in Obs |-> NoTrack]
  /\ watermark = [t \in Tracks |-> -1]

Next ==
  \E o \in Obs :
    \/ Record(o)
    \/ \E t \in Tracks : Open(t, o) \/ Own(o, t)
    \/ Project(o)
    \/ Settle(o)

Spec == Init /\ [][Next]_vars
=============================================================================
