-------------------------- MODULE MCGeofenceAlerts --------------------------
(* Finite instances of GeofenceAlerts.                                     *)
EXTENDS GeofenceAlerts, TLC

CONSTANTS t1, u1, u2, u3, u4, a1, r1, r2, z1, z2

RequestSymmetry == Permutations(Requests)

\* One track goes into both zones, out of both, and into one of them again; u4 is
\* an update without a position.
OneTrack == [u \in Updates |-> t1]
InOutIn  == [u \in Updates |-> CASE u = u1 -> {z1, z2} [] u = u3 -> {z1} [] OTHER -> {}]
InOrder  == [u \in Updates |-> CASE u = u1 -> 1 [] u = u2 -> 2 [] u = u4 -> 3 [] OTHER -> 4]
NoAreas  == << >>

\* One position inside one zone, and a footprint over both.
In1       == (u1 :> {z1})
InOrder1  == (u1 :> 1)
BothZones == (a1 :> {z1, z2})
=============================================================================
