-------------------------- MODULE MCAssetTelemetry --------------------------
(* Finite instances of AssetTelemetry.                                     *)
EXTENDS AssetTelemetry, TLC

CONSTANTS s1, s2, s3, s4, s5, r1, r2

\* Positioned samples, one without a position that finds the link down, and two
\* made at one moment, one of which reports its motion and finds the link up: a
\* request can lose three attempts, with the newest sample, to the others.
Times == (s1 :> 1) @@ (s2 :> 2) @@ (s3 :> 3) @@ (s4 :> 4) @@ (s5 :> 4)
Links == (s1 :> "connected") @@ (s2 :> "disconnected") @@ (s3 :> "disconnected")
         @@ (s4 :> "connected") @@ (s5 :> "degraded")
=============================================================================
