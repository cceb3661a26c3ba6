----------------------------- MODULE Freshness ------------------------------
(***************************************************************************)
(* How far an operator may trust a contact: platform/freshness.            *)
(*                                                                         *)
(* Everything that shows or reports a contact classifies it by one policy, *)
(* a pure function of the contact's row and the time.  Durations are Go's: *)
(* integers of a fixed width, which wrap around.  The documented defaults  *)
(* are parameters, so that TLC can use a coarser unit than a nanosecond.   *)
(***************************************************************************)
EXTENDS Integers

CONSTANTS
  HalfRange,      \* durations are in -HalfRange .. HalfRange - 1
  Second,
  Minute,
  DefaultPolicy   \* one minute, five minutes, half an hour

Positive(p) == p.delayed > 0 /\ p.stale > 0 /\ p.unavailable > 0
Increasing(p) == p.delayed < p.stale /\ p.stale < p.unavailable
Thresholds == [delayed : Int, stale : Int, unavailable : Int]

ASSUME FreshnessAssumption ==
  /\ HalfRange \in Nat /\ Second \in Nat \ {0} /\ Minute \in Nat /\ Second <= Minute
  /\ DefaultPolicy \in Thresholds
  /\ Positive(DefaultPolicy) /\ Increasing(DefaultPolicy)
  /\ 4 <= DefaultPolicy.stale
  /\ 6 * DefaultPolicy.stale < HalfRange

\* In increasing order of distrust.
AllStates == <<"live", "delayed", "stale", "unavailable", "unknown">>
States == {"live", "delayed", "stale", "unavailable", "unknown"}

Trustworthy(state) == state \in {"live", "delayed"}

\* The value of an overflowing product.
Wrap(d) == ((d + HalfRange) % (2 * HalfRange)) - HalfRange

Unset(p) == p.delayed <= 0 /\ p.stale <= 0 /\ p.unavailable <= 0

StaleAfter(p) == IF p.stale <= 0 THEN DefaultPolicy.stale ELSE p.stale

\* The delayed band before its last repair.
QuarterOf(p) ==
  IF p.delayed <= 0 \/ p.delayed >= StaleAfter(p) THEN StaleAfter(p) \div 4 ELSE p.delayed

\* A misconfigured policy is repaired, never refused. The repair does not look at the
\* order that it leaves: a second may exceed the stale band, and a product may wrap around.
Repaired(p) ==
  [delayed     |-> IF QuarterOf(p) <= 0 THEN Second ELSE QuarterOf(p),
   stale       |-> StaleAfter(p),
   unavailable |-> IF p.unavailable <= StaleAfter(p) THEN Wrap(6 * StaleAfter(p))
                   ELSE p.unavailable]

Normalized(p) == IF Unset(p) THEN DefaultPolicy ELSE Repaired(p)

\* The classification of an age by a normalized policy.
Band(p, age) ==
  IF age < 0 THEN "delayed"        \* the clocks disagree
  ELSE IF age >= p.unavailable THEN "unavailable"
  ELSE IF age >= p.stale THEN "stale"
  ELSE IF age >= p.delayed THEN "delayed"
  ELSE "live"

ForAge(p, age) == Band(Normalized(p), age)

Never == -1      \* the contact has not reported

\* What is declared of an asset wins over the age of its last report.
ForAsset(p, status, link, lastSeen, now) ==
  IF status \in {"unavailable", "offline"} \/ link = "disconnected" THEN "unavailable"
  ELSE IF lastSeen = Never THEN "unknown"
  ELSE ForAge(p, now - lastSeen)

\* A lost track is lost by declaration, whatever its age.
ForTrack(p, status, lastSeen, now) ==
  IF status = "lost" THEN "unavailable"
  ELSE IF lastSeen = Never THEN "unknown"
  ELSE ForAge(p, now - lastSeen)

\* startFreshnessMonitor: half of the tightest band, within bounds.
TickInterval(p) ==
  IF p.delayed \div 2 < Second THEN Second
  ELSE IF p.delayed \div 2 > Minute THEN Minute
  ELSE p.delayed \div 2
=============================================================================
