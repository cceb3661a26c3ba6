-------------------------- MODULE MCTrackPipeline --------------------------
(* Finite instances of TrackPipeline.                                      *)
EXTENDS TrackPipeline, TLC

CONSTANTS o1, o2, o3, o4, o5, t1, t2, h1, r1, r2

RequestSymmetry == Permutations(Requests)

\* Four observations of one track in order, and an unhinted one: the first opens the
\* track, so that the newest can be overtaken twice.
RaceHint == (o1 :> h1) @@ (o2 :> h1) @@ (o3 :> h1) @@ (o4 :> h1) @@ (o5 :> NoHint)
RaceTime == (o1 :> 1) @@ (o2 :> 2) @@ (o3 :> 3) @@ (o4 :> 4) @@ (o5 :> 1)

\* The unhinted one arrives with the first two only: other behaviours are not followed
\* further.
FewArrive == status[o5] = "absent" \/ (status[o3] = "absent" /\ status[o4] = "absent")

\* Two observations made at the same moment.
TieHint == (o1 :> h1) @@ (o2 :> h1)
TieTime == (o1 :> 1) @@ (o2 :> 1)
=============================================================================
