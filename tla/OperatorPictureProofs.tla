------------------------ MODULE OperatorPictureProofs -----------------------
(* What operators are told, for every set of contacts and alerts, and every bound. *)
EXTENDS OperatorPicture, FiniteSetTheorems, WellFoundedInduction, TLAPS

-----------------------------------------------------------------------------
(* The policy                                                              *)

\* What freshness.go:103-105 says of the result of the repair.
Ordered(p) == Positive(p) /\ Increasing(p)

\* What the repair leaves in order: a short stale band has a delayed band of its own, and
\* the band of the unavailable is configured, or six times the stale one without wrapping
\* around to something shorter.
Repairable(p) ==
  /\ p.stale \in 1..3 => p.delayed \in 1..(p.stale - 1)
  /\ p.stale <= 0 \/ p.stale < p.unavailable \/ p.stale < Wrap(6 * p.stale)

\* A policy that the repair does not change, in order or not.
Normal(p) == p \in Thresholds /\ Normalized(p) = p

\* A product that is a duration does not wrap around.
LEMMA WrapSmall ==
  ASSUME NEW d \in Nat, d < HalfRange PROVE Wrap(d) = d
  BY FreshnessAssumption DEF Wrap

\* Wrap makes an integer of any product.
LEMMA WrapType == ASSUME NEW d \in Int PROVE Wrap(d) \in Int
  BY FreshnessAssumption DEF Wrap, Thresholds

\* The default is in order, and so is what follows from its stale band.
LEMMA DefaultFacts ==
  /\ DefaultPolicy \in Thresholds /\ Ordered(DefaultPolicy)
  /\ DefaultPolicy.stale \in Nat /\ 4 <= DefaultPolicy.stale
  /\ Wrap(6 * DefaultPolicy.stale) = 6 * DefaultPolicy.stale
  <1>1. /\ DefaultPolicy \in Thresholds /\ Ordered(DefaultPolicy)
        /\ DefaultPolicy.stale \in Nat /\ 4 <= DefaultPolicy.stale
        /\ 6 * DefaultPolicy.stale < HalfRange /\ 6 * DefaultPolicy.stale \in Nat
    BY FreshnessAssumption DEF Ordered, Thresholds
  <1> QED
    BY <1>1, WrapSmall

\* The repair of a policy of which something is configured.
LEMMA RepairFacts ==
  ASSUME NEW p \in Thresholds, ~Unset(p), NEW q, q = Normalized(p)
  PROVE  /\ q \in Thresholds /\ q.delayed > 0 /\ q.stale = StaleAfter(p) /\ q.stale > 0
         /\ q.delayed = IF QuarterOf(p) <= 0 THEN Second ELSE QuarterOf(p)
         /\ q.unavailable = IF p.unavailable <= q.stale THEN Wrap(6 * q.stale) ELSE p.unavailable
  <1>1. /\ p.delayed \in Int /\ p.stale \in Int /\ p.unavailable \in Int
        /\ Second \in Nat /\ Second > 0
    BY FreshnessAssumption DEF Thresholds
  <1>2. StaleAfter(p) \in Nat /\ StaleAfter(p) > 0
    BY <1>1, DefaultFacts DEF StaleAfter
  <1>3. QuarterOf(p) \in Int
    BY <1>1, <1>2 DEF QuarterOf
  <1>4. Wrap(6 * StaleAfter(p)) \in Int
    BY <1>2, WrapType
  <1>5. q = [delayed     |-> IF QuarterOf(p) <= 0 THEN Second ELSE QuarterOf(p),
             stale       |-> StaleAfter(p),
             unavailable |-> IF p.unavailable <= StaleAfter(p) THEN Wrap(6 * StaleAfter(p))
                             ELSE p.unavailable]
    BY DEF Normalized, Repaired
  <1> QED
    BY <1>1, <1>2, <1>3, <1>4, <1>5 DEF Thresholds

\* The repair is done once: repairing its result changes nothing.
LEMMA NormalizedOnce == ASSUME NEW p \in Thresholds PROVE Normal(Normalized(p))
  <1> DEFINE q == Normalized(p)
             r == Normalized(q)
  <1>1. CASE Unset(p)
    <2>1. q = DefaultPolicy /\ q \in Thresholds
      BY <1>1, DefaultFacts DEF Normalized
    <2>2. /\ q.delayed \in Int /\ q.stale \in Int /\ q.unavailable \in Int
          /\ 0 < q.delayed /\ q.delayed < q.stale /\ q.stale < q.unavailable
      BY <2>1, DefaultFacts DEF Thresholds, Ordered, Positive, Increasing
    <2> HIDE DEF q
    <2>3. ~Unset(q) /\ StaleAfter(q) = q.stale /\ QuarterOf(q) = q.delayed
      BY <2>2 DEF Unset, StaleAfter, QuarterOf
    <2>4. r = [delayed |-> q.delayed, stale |-> q.stale, unavailable |-> q.unavailable]
      BY <2>2, <2>3 DEF Normalized, Repaired
    <2> QED
      BY <2>1, <2>4 DEF Normal, Thresholds, q
  <1>2. CASE ~Unset(p)
    <2>1. /\ q \in Thresholds /\ q.delayed > 0 /\ q.stale = StaleAfter(p) /\ q.stale > 0
          /\ q.delayed = IF QuarterOf(p) <= 0 THEN Second ELSE QuarterOf(p)
          /\ q.unavailable = IF p.unavailable <= q.stale THEN Wrap(6 * q.stale) ELSE p.unavailable
      BY <1>2, RepairFacts
    <2>2. /\ q.delayed \in Int /\ q.stale \in Int /\ q.unavailable \in Int
          /\ p.delayed \in Int /\ Second \in Nat
      BY <2>1, FreshnessAssumption DEF Thresholds
    <2> HIDE DEF q
    <2>3. ~Unset(q) /\ StaleAfter(q) = q.stale
      BY <2>1, <2>2 DEF Unset, StaleAfter
    <2>4. (IF QuarterOf(q) <= 0 THEN Second ELSE QuarterOf(q)) = q.delayed
      <3>1. CASE q.delayed < q.stale
        <4>1. QuarterOf(q) = q.delayed
          BY <2>1, <2>2, <2>3, <3>1 DEF QuarterOf
        <4> QED
          BY <2>1, <2>2, <4>1
      <3>2. CASE ~(q.delayed < q.stale)
        <4>1. QuarterOf(q) = q.stale \div 4
          BY <2>1, <2>2, <2>3, <3>2 DEF QuarterOf
        <4>2. QuarterOf(p) <= 0 \/ QuarterOf(p) < q.stale
          BY <2>1, <2>2 DEF QuarterOf
        <4>3. QuarterOf(p) <= 0 /\ q.delayed = Second
          BY <2>1, <2>2, <3>2, <4>2
        <4>4. QuarterOf(p) = q.stale \div 4
          BY <2>1, <2>2, <4>3 DEF QuarterOf
        <4> QED
          BY <4>1, <4>3, <4>4
      <3> QED
        BY <3>1, <3>2
    <2>5. (IF q.unavailable <= q.stale THEN Wrap(6 * q.stale) ELSE q.unavailable) = q.unavailable
      BY <2>1
    <2>6. r = [delayed |-> q.delayed, stale |-> q.stale, unavailable |-> q.unavailable]
      BY <2>3, <2>4, <2>5 DEF Normalized, Repaired
    <2> QED
      BY <2>1, <2>6 DEF Normal, Thresholds, q
  <1> QED
    BY <1>1, <1>2

\* freshness.go:103-127: the thresholds are increasing and not zero after the repair exactly
\* for the policies that are Repairable, so not for every policy that config.go:78-82 accepts;
\* they are for every policy with a stale band of four nanoseconds or more, six of which do
\* not overflow. (A second is more than four nanoseconds.)
THEOREM RepairOrders ==
  ASSUME 4 <= Second, NEW p \in Thresholds
  PROVE  /\ Ordered(Normalized(p)) <=> Repairable(p)
         /\ 4 <= p.stale /\ 6 * p.stale < HalfRange => Ordered(Normalized(p))
  <1> DEFINE q == Normalized(p)
  <1>1. p.delayed \in Int /\ p.stale \in Int /\ p.unavailable \in Int /\ Second \in Nat
    BY FreshnessAssumption DEF Thresholds
  <1>2. Ordered(q) <=> Repairable(p)
    <2>1. CASE Unset(p)
      BY <1>1, <2>1, DefaultFacts DEF Normalized, Unset, Repairable
    <2>2. CASE ~Unset(p)
      <3>1. /\ q \in Thresholds /\ q.delayed > 0 /\ q.stale = StaleAfter(p) /\ q.stale > 0
            /\ q.delayed = IF QuarterOf(p) <= 0 THEN Second ELSE QuarterOf(p)
            /\ q.unavailable = IF p.unavailable <= q.stale THEN Wrap(6 * q.stale) ELSE p.unavailable
        BY <2>2, RepairFacts
      <3>2. /\ q.delayed \in Int /\ q.stale \in Int /\ q.unavailable \in Int
        BY <3>1 DEF Thresholds
      <3> HIDE DEF q
      <3>3. q.delayed < q.stale <=> (p.stale \in 1..3 => p.delayed \in 1..(p.stale - 1))
        <4>1. CASE p.delayed \in 1..(q.stale - 1)
          <5>1. QuarterOf(p) = p.delayed /\ q.delayed = p.delayed
            BY <1>1, <3>1, <3>2, <4>1 DEF QuarterOf
          <5> QED
            BY <1>1, <3>1, <3>2, <4>1, <5>1, DefaultFacts DEF StaleAfter
        <4>2. CASE p.delayed \notin 1..(q.stale - 1)
          <5>1. QuarterOf(p) = q.stale \div 4
            BY <1>1, <3>1, <3>2, <4>2 DEF QuarterOf
          <5>2. CASE q.stale <= 3
            <6>1. q.delayed = Second /\ q.stale = p.stale
              BY <1>1, <3>1, <3>2, <5>1, <5>2, DefaultFacts DEF StaleAfter
            <6> QED
              BY <1>1, <3>1, <3>2, <4>2, <5>2, <6>1
          <5>3. CASE ~(q.stale <= 3)
            <6>1. q.delayed < q.stale
              BY <1>1, <3>1, <3>2, <5>1, <5>3
            <6>2. p.stale \notin 1..3
              BY <1>1, <3>1, <3>2, <5>3 DEF StaleAfter
            <6> QED
              BY <6>1, <6>2
          <5> QED
            BY <5>2, <5>3
        <4> QED
          BY <4>1, <4>2
      <3>4. q.stale < q.unavailable <=>
              p.stale <= 0 \/ p.stale < p.unavailable \/ p.stale < Wrap(6 * p.stale)
        <4>1. CASE p.stale <= 0
          <5>1. q.stale = DefaultPolicy.stale
            BY <3>1, <4>1 DEF StaleAfter
          <5>2. Wrap(6 * q.stale) = 6 * q.stale
            BY <5>1, DefaultFacts
          <5> QED
            BY <1>1, <3>1, <3>2, <4>1, <5>2
        <4>2. CASE ~(p.stale <= 0)
          <5>1. q.stale = p.stale
            BY <3>1, <4>2 DEF StaleAfter
          <5> QED
            BY <1>1, <3>1, <3>2, <4>2, <5>1
        <4> QED
          BY <4>1, <4>2
      <3> QED
        BY <3>1, <3>2, <3>3, <3>4 DEF Ordered, Positive, Increasing, Repairable
    <2> QED
      BY <2>1, <2>2
  <1>3. ASSUME 4 <= p.stale, 6 * p.stale < HalfRange PROVE Repairable(p)
    <2>1. 6 * p.stale \in Nat
      BY <1>1, <1>3
    <2>2. Wrap(6 * p.stale) = 6 * p.stale
      BY <1>3, <2>1, WrapSmall
    <2> QED
      BY <1>1, <1>3, <2>2 DEF Repairable
  <1> QED
    BY <1>2, <1>3

\* Every classification is one of the states.
LEMMA StatesType ==
  ASSUME NEW p, NEW s, NEW link, NEW seen, NEW at
  PROVE  ForAsset(p, s, link, seen, at) \in States /\ ForTrack(p, s, seen, at) \in States
  BY DEF ForAsset, ForTrack, ForAge, Band, States

-----------------------------------------------------------------------------
(* The newest and the oldest                                               *)

\* A set of naturals that is not empty has a least element.
LEMMA LeastExists ==
  ASSUME NEW S \in SUBSET Nat, S # {} PROVE \E x \in S : \A y \in S : x <= y
  <1> DEFINE R == {ss \in Nat \X Nat : ss[1] < ss[2]}
  <1>1. IsWellFoundedOn(R, Nat)
    BY NatLessThanWellFounded DEF OpToRel
  <1> HIDE DEF R
  <1>2. PICK x \in S : \A y \in S : <<y, x>> \notin R
    BY <1>1, WFMin
  <1>3. ASSUME NEW y \in S PROVE x <= y
    <2>1. x \in Nat /\ y \in Nat /\ <<y, x>> \notin R
      BY <1>2
    <2>2. ~(y < x)
      BY <2>1 DEF R
    <2> QED
      BY <2>1, <2>2
  <1> QED
    BY <1>3

\* Min is the least.
LEMMA MinIsLeast ==
  ASSUME NEW S \in SUBSET Nat, S # {} PROVE Min(S) \in S /\ \A y \in S : Min(S) <= y
  BY LeastExists DEF Min

\* Max is the greatest, when there is a bound.
LEMMA MaxIsGreatest ==
  ASSUME NEW S \in SUBSET Nat, S # {}, NEW n \in Nat, \A x \in S : x <= n
  PROVE  Max(S) \in S /\ \A y \in S : y <= Max(S)
  <1> DEFINE T == {n - x : x \in S}
  <1>1. T \in SUBSET Nat /\ T # {}
    <2>1. \A x \in S : n - x \in Nat
      OBVIOUS
    <2> QED
      BY <2>1
  <1>2. PICK d \in T : \A e \in T : d <= e
    BY <1>1, LeastExists
  <1>3. PICK x \in S : d = n - x
    BY <1>2
  <1>4. ASSUME NEW y \in S PROVE x >= y
    <2>1. n - x <= n - y
      BY <1>2, <1>3
    <2> QED
      BY <2>1
  <1>5. \E z \in S : \A y \in S : z >= y
    BY <1>4
  <1>6. Max(S) \in S /\ \A y \in S : Max(S) >= y
    BY <1>5 DEF Max
  <1> QED
    BY <1>6

\* The newest entry by a cut is an entry, and is no newer.
LEMMA LastByEntry ==
  ASSUME NEW S \in SUBSET Nat, NEW n \in Nat, \A x \in S : x <= n, NEW at \in Int
  PROVE  /\ LastBy(S, at) = Never \/ (LastBy(S, at) \in S /\ LastBy(S, at) <= at)
         /\ \A x \in S : x <= at => LastBy(S, at) # Never /\ x <= LastBy(S, at)
  <1> DEFINE by == {u \in S : u <= at}
  <1>1. CASE by = {}
    BY <1>1 DEF LastBy
  <1>2. CASE by # {}
    <2>1. Max(by) \in by /\ \A y \in by : y <= Max(by)
      BY <1>2, MaxIsGreatest
    <2>2. LastBy(S, at) = Max(by)
      BY <1>2 DEF LastBy
    <2> QED
      BY <2>1, <2>2 DEF Never
  <1> QED
    BY <1>1, <1>2

-----------------------------------------------------------------------------
(* The invariant                                                           *)

\* Everything that was reported is within the bounds of the model.
Bounded ==
  /\ \A t \in Tracks : history[t] \subseteq Times
  /\ \A a \in Assets : telemetry[a] \subseteq Times

HasRow(k) ==
  \/ \E a \in Assets : k = AssetKey(a) /\ status[a] # "absent"
  \/ \E t \in Tracks : k = TrackKey(t) /\ lastSeen[t] # Never

\* No contact that the monitor remembers vanishes, not even between its two reads.
MonitorInv ==
  /\ \A k \in Keys : previous[k] # None => HasRow(k)
  /\ mon.pc = "tracks" =>
       \A a \in Assets :
         /\ previous[AssetKey(a)] # None => mon.assets[a].status # "absent"
         /\ mon.assets[a].status # "absent" => status[a] # "absent"
  /\ mon.pc # "report" => mon.pending = {}
  /\ \A k \in mon.pending : previous[k] # None

\* What a replay has is still there, and some evidence precedes its instant.
SnapInv ==
  /\ \A t \in Tracks : snap.base[t] \subseteq history[t]
  /\ snap.begun <= Len(alerts)
  /\ snap.pc = "tracks" => \A t \in Tracks : snap.base[t] # {} =>
       \E u \in Tracks : \E e \in history[u] : e <= snap.at

IInv ==
  /\ TypeOK
  /\ Normal(policy)
  /\ Bounded
  /\ MonitorInv
  /\ Reported
  /\ SnapInv
  /\ HonestReplay

MonType == [pc : {"waiting", "tracks", "report"}, due : Nat, ticking : BOOLEAN,
            assets : [Assets -> SignalType], pending : SUBSET Keys, missed : Nat]

SnapType == [pc : {"idle", "tracks", "assets", "alerts", "shown"}, at : Int,
             base : [Tracks -> SUBSET Nat], begun : Nat, tracks : [Tracks -> Int],
             states : [Tracks -> States], assets : [Assets -> Int], alerts : SUBSET Nat,
             truncated : BOOLEAN]

\* A contact is an asset or a track, even if both have the same id.
LEMMA KeyCases ==
  ASSUME NEW k \in Keys
  PROVE  \/ \E a \in Assets : k = AssetKey(a) /\ k.id = a /\ \A t \in Tracks : k # TrackKey(t)
         \/ \E t \in Tracks : k = TrackKey(t) /\ k.id = t /\ \A a \in Assets : k # AssetKey(a)
  BY DEF Keys, AssetKey, TrackKey, EntityKey

\* A contact is classified exactly when it has a row.
LEMMA ClassifyFacts ==
  ASSUME NEW reads \in [Assets -> SignalType], NEW rows \in [Tracks -> Int], NEW at
  PROVE  /\ Classify(reads, rows, at) \in [Keys -> ContactState]
         /\ \A a \in Assets :
              Classify(reads, rows, at)[AssetKey(a)] # None <=> reads[a].status # "absent"
         /\ \A t \in Tracks : Classify(reads, rows, at)[TrackKey(t)] # None <=> rows[t] # Never
  <1>1. None \notin States
    BY DEF None, States
  <1>2. ASSUME NEW a \in Assets
        PROVE  /\ AssetKey(a) \in Keys
               /\ Classify(reads, rows, at)[AssetKey(a)] \in ContactState
               /\ Classify(reads, rows, at)[AssetKey(a)] # None <=> reads[a].status # "absent"
    <2>1. AssetKey(a) \in Keys /\ AssetKey(a).id = a
      BY DEF Keys, AssetKey, EntityKey
    <2>2. Classify(reads, rows, at)[AssetKey(a)] =
            IF reads[a].status = "absent" THEN None
            ELSE ForAsset(policy, reads[a].status, reads[a].link, reads[a].lastSeen, at)
      BY <2>1 DEF Classify
    <2> QED
      BY <1>1, <2>1, <2>2, StatesType DEF ContactState
  <1>3. ASSUME NEW t \in Tracks
        PROVE  /\ TrackKey(t) \in Keys
               /\ Classify(reads, rows, at)[TrackKey(t)] \in ContactState
               /\ Classify(reads, rows, at)[TrackKey(t)] # None <=> rows[t] # Never
    <2>1. TrackKey(t) \in Keys /\ TrackKey(t).id = t /\ \A a \in Assets : TrackKey(t) # AssetKey(a)
      BY DEF Keys, AssetKey, TrackKey, EntityKey
    <2>2. Classify(reads, rows, at)[TrackKey(t)] =
            IF rows[t] = Never THEN None ELSE ForTrack(policy, "active", rows[t], at)
      BY <2>1 DEF Classify
    <2> QED
      BY <1>1, <2>1, <2>2, StatesType DEF ContactState
  <1>4. ASSUME NEW k \in Keys PROVE Classify(reads, rows, at)[k] \in ContactState
    BY <1>2, <1>3, KeyCases
  <1>5. Classify(reads, rows, at) = [k \in Keys |-> Classify(reads, rows, at)[k]]
    BY DEF Classify
  <1>6. Classify(reads, rows, at) \in [Keys -> ContactState]
    <2>1. ASSUME NEW f, f = [k \in Keys |-> f[k]], \A k \in Keys : f[k] \in ContactState
          PROVE  f \in [Keys -> ContactState]
      BY <2>1
    <2> QED
      BY <1>4, <1>5, <2>1
  <1> QED
    BY <1>2, <1>3, <1>6

\* The monitor ticks after a time that is not negative.
LEMMA IntervalType == ASSUME Normal(policy) PROVE Interval \in Nat
  BY FreshnessAssumption DEF Normal, Thresholds, Interval, TickInterval

\* A reconciliation has ended.
LEMMA EndedType ==
  ASSUME NEW m \in MonType, NEW misses \in Nat, now \in Nat, Interval \in Nat
  PROVE  /\ Ended(m, misses) \in MonType
         /\ Ended(m, misses).pc = "waiting" /\ Ended(m, misses).pending = {}
  <1>1. NoReads \in [Assets -> SignalType]
    BY DEF NoReads, SignalType, Never
  <1>2. m.due \in Nat /\ m.ticking \in BOOLEAN
    BY DEF MonType
  <1>3. now + Interval \in Nat
    OBVIOUS
  <1>4. (IF m.ticking THEN m.due ELSE now + Interval) \in Nat
    BY <1>2, <1>3
  <1> QED
    BY <1>1, <1>4 DEF Ended, MonType

-----------------------------------------------------------------------------
(* The contacts                                                            *)

\* No contact vanishes, and what was recorded stays.
ContactsGrow ==
  /\ \A a \in Assets : status[a] # "absent" => status'[a] # "absent"
  /\ \A t \in Tracks : lastSeen[t] # Never => lastSeen'[t] # Never
  /\ \A t \in Tracks : history[t] \subseteq history'[t]
  /\ Len(alerts) \in Nat /\ Len(alerts') \in Nat /\ Len(alerts) <= Len(alerts')
  /\ \A i \in 1..Len(alerts) : alerts'[i] = alerts[i]

\* A replay under way stands when the contacts grow.
LEMMA SnapKept ==
  ASSUME TypeOK, SnapInv, HonestReplay, ContactsGrow, UNCHANGED <<snap, policy>>
  PROVE  SnapInv' /\ HonestReplay'
  <1>1. snap.begun \in Nat
    BY DEF TypeOK
  <1>2. SnapInv'
    BY <1>1 DEF SnapInv, ContactsGrow
  <1>3. Shown' => Shown
    BY DEF Shown
  <1>4. ASSUME Shown, NEW t \in Tracks
        PROVE  /\ snap.tracks[t] # Never => snap.tracks[t] \in history'[t] /\ snap.tracks[t] <= snap.at
               /\ LastBy(snap.base[t], snap.at) <= snap.tracks[t]
               /\ snap.states[t] = "live" => snap.at - snap.tracks[t] < policy.delayed
               /\ snap.base[t] # {} => \E u \in Tracks : snap.tracks[u] # Never
    BY <1>4 DEF HonestReplay, ContactsGrow
  <1>5. ASSUME snap.pc = "shown", ~snap.truncated, NEW i \in 1..snap.begun, alerts'[i] <= snap.at
        PROVE  i \in snap.alerts
    <2>1. i \in 1..Len(alerts)
      BY <1>1 DEF SnapInv, ContactsGrow
    <2> QED
      BY <1>5, <2>1 DEF HonestReplay, ContactsGrow
  <1> QED
    BY <1>2, <1>3, <1>4, <1>5 DEF HonestReplay

\* A contact that has a row keeps it.
LEMMA RowKept == ASSUME ContactsGrow, NEW k, HasRow(k) PROVE HasRow(k)'
  BY DEF ContactsGrow, HasRow

\* The contacts change under the monitor and the replay.
LEMMA ContactKept ==
  ASSUME IInv, TypeOK', Bounded', ContactsGrow, UNCHANGED <<setting, mon, previous, published, snap>>,
         \A k \in Keys : k \in stale' <=> k \in stale
  PROVE  IInv'
  <1>1. Normal(policy)'
    BY DEF IInv, setting
  <1>2. MonitorInv'
    BY RowKept DEF IInv, MonitorInv, ContactsGrow
  <1>3. Reported'
    BY DEF IInv, Reported
  <1>4. SnapInv' /\ HonestReplay'
    BY SnapKept DEF IInv, setting
  <1> QED
    BY <1>1, <1>2, <1>3, <1>4 DEF IInv

\* The times that are reported are naturals.
LEMMA TimesType == Times \subseteq Nat /\ MaxTime \in Nat /\ MaxSkew \in Nat
  BY PictureAssumption DEF Times

\* Updates are counted.
LEMMA Spent == ASSUME TypeOK, Spend PROVE updates' \in Nat /\ faults' = faults
  BY TimesType DEF TypeOK, Spend

\* The alerts are what they were.
LEMMA AlertsSame ==
  ASSUME TypeOK, alerts' = alerts
  PROVE  /\ Len(alerts) \in Nat /\ Len(alerts') \in Nat /\ Len(alerts) <= Len(alerts')
         /\ \A i \in 1..Len(alerts) : alerts'[i] = alerts[i]
  BY DEF TypeOK

\* A row of a contact changes its time.
LEMMA TouchType ==
  ASSUME TypeOK, NEW k, Touch(k) PROVE touched' \in [Keys -> Nat]
  BY DEF TypeOK, Touch

\* An asset is created.
LEMMA CreateAssetStep ==
  ASSUME IInv, NEW a \in Assets, NEW s \in Statuses, CreateAsset(a, s) PROVE IInv'
  <1>1. TypeOK /\ Bounded
    BY DEF IInv
  <1>2. /\ status' = [status EXCEPT ![a] = s] /\ Touch(AssetKey(a)) /\ Spend
        /\ UNCHANGED <<now, setting, row, telemetry, lastSeen, history, alerts, reported, snap>>
    BY DEF CreateAsset
  <1>3. updates' \in Nat /\ faults' = faults /\ touched' \in [Keys -> Nat]
    BY <1>1, <1>2, Spent, TouchType
  <1>4. TypeOK' /\ Bounded'
    BY <1>1, <1>2, <1>3 DEF TypeOK, Bounded, Times, setting, reported
  <1>5. ContactsGrow
    BY <1>1, <1>2, AlertsSame DEF ContactsGrow, TypeOK, Statuses
  <1> QED
    BY <1>2, <1>4, <1>5, ContactKept DEF reported

\* The status of an asset is declared.
LEMMA UpdateStatusStep ==
  ASSUME IInv, NEW a \in Assets, NEW s \in Statuses, UpdateStatus(a, s) PROVE IInv'
  <1>1. TypeOK /\ Bounded
    BY DEF IInv
  <1>2. /\ status' = [status EXCEPT ![a] = s] /\ Touch(AssetKey(a)) /\ Spend
        /\ UNCHANGED <<now, setting, row, telemetry, lastSeen, history, alerts, reported, snap>>
    BY DEF UpdateStatus
  <1>3. updates' \in Nat /\ faults' = faults /\ touched' \in [Keys -> Nat]
    BY <1>1, <1>2, Spent, TouchType
  <1>4. TypeOK' /\ Bounded'
    BY <1>1, <1>2, <1>3 DEF TypeOK, Bounded, Times, setting, reported
  <1>5. ContactsGrow
    BY <1>1, <1>2, AlertsSame DEF ContactsGrow, TypeOK, Statuses
  <1> QED
    BY <1>2, <1>4, <1>5, ContactKept DEF reported

\* Telemetry clears an id that is in no gauge.
LEMMA ReportStep ==
  ASSUME IInv, NEW a \in Assets, NEW at \in Times, NEW link \in Links, Report(a, at, link)
  PROVE  IInv'
  <1>1. TypeOK /\ Bounded /\ at \in Nat
    BY TimesType DEF IInv
  <1>2. /\ telemetry' = [telemetry EXCEPT ![a] = @ \cup {at}] /\ Spend
        /\ UNCHANGED <<now, setting, status, lastSeen, history, alerts, mon, previous, published, snap>>
    BY DEF Report
  <1>3. updates' \in Nat /\ faults' = faults
    BY <1>1, <1>2, Spent
  <1>4. EntityKey("", a) \notin Keys
    BY DEF Keys, AssetKey, TrackKey, EntityKey
  <1>5. /\ row' \in [Assets -> [link : Links \cup {"unknown"}, lastSeen : Int]]
        /\ touched' \in [Keys -> Nat]
        /\ stale' \subseteq Keys /\ \A k \in Keys : k \in stale' <=> k \in stale
    <2>1. CASE UNCHANGED <<row, stale, touched>>
      BY <1>1, <2>1 DEF TypeOK
    <2>2. CASE /\ row' = [row EXCEPT ![a] = [link |-> link, lastSeen |-> at]]
               /\ stale' = stale \ {EntityKey("", a)} /\ Touch(AssetKey(a))
      <3>1. touched' \in [Keys -> Nat]
        BY <1>1, <2>2, TouchType
      <3>2. row' \in [Assets -> [link : Links \cup {"unknown"}, lastSeen : Int]]
        <4>1. [link |-> link, lastSeen |-> at] \in [link : Links \cup {"unknown"}, lastSeen : Int]
          BY <1>1
        <4> QED
          BY <1>1, <2>2, <4>1 DEF TypeOK
      <3>3. stale' \subseteq Keys /\ \A k \in Keys : k \in stale' <=> k \in stale
        BY <1>1, <1>4, <2>2 DEF TypeOK
      <3> QED
        BY <3>1, <3>2, <3>3
    <2> QED
      BY <2>1, <2>2 DEF Report
  <1>6. telemetry' \in [Assets -> SUBSET Nat] /\ \A b \in Assets : telemetry'[b] \subseteq Times
    BY <1>1, <1>2 DEF TypeOK, Bounded
  <1>7. TypeOK' /\ Bounded'
    BY <1>1, <1>2, <1>3, <1>5, <1>6 DEF TypeOK, Bounded, Times, setting
  <1>8. ContactsGrow
    BY <1>1, <1>2, AlertsSame DEF ContactsGrow
  <1> QED
    BY <1>2, <1>5, <1>7, <1>8, ContactKept

\* A track is opened by its first evidence.
LEMMA OpenTrackStep ==
  ASSUME IInv, NEW t \in Tracks, NEW at \in Times, OpenTrack(t, at) PROVE IInv'
  <1>1. TypeOK /\ Bounded /\ at \in Nat
    BY TimesType DEF IInv
  <1>2. /\ lastSeen' = [lastSeen EXCEPT ![t] = at] /\ Touch(TrackKey(t)) /\ Spend
        /\ UNCHANGED <<now, setting, status, row, telemetry, history, alerts, reported, snap>>
    BY DEF OpenTrack
  <1>3. updates' \in Nat /\ faults' = faults /\ touched' \in [Keys -> Nat]
    BY <1>1, <1>2, Spent, TouchType
  <1>4. TypeOK' /\ Bounded'
    <2>1. TypeOK'
      BY SMTT(30), <1>1, <1>2, <1>3 DEF TypeOK, setting, reported
    <2>2. Bounded'
      BY <1>1, <1>2 DEF Bounded, Times
    <2> QED
      BY <2>1, <2>2
  <1>5. ContactsGrow
    <2>1. \A u \in Tracks : lastSeen[u] # Never => lastSeen'[u] # Never
      BY <1>1, <1>2 DEF TypeOK, Never
    <2>2. /\ Len(alerts) \in Nat /\ Len(alerts') \in Nat /\ Len(alerts) <= Len(alerts')
          /\ \A i \in 1..Len(alerts) : alerts'[i] = alerts[i]
      BY <1>1, <1>2, AlertsSame
    <2> QED
      BY <1>2, <2>1, <2>2 DEF ContactsGrow
  <1> QED
    BY <1>2, <1>4, <1>5, ContactKept DEF reported

\* A track follows newer evidence.
LEMMA ProjectStep ==
  ASSUME IInv, NEW t \in Tracks, NEW at \in Times, Project(t, at) PROVE IInv'
  <1>1. TypeOK /\ Bounded /\ at \in Nat
    BY TimesType DEF IInv
  <1>2. /\ lastSeen' = [lastSeen EXCEPT ![t] = at] /\ Touch(TrackKey(t)) /\ Spend
        /\ history' = [history EXCEPT ![t] = @ \cup {at}]
        /\ UNCHANGED <<now, setting, status, row, telemetry, alerts, reported, snap>>
    BY DEF Project
  <1>3. updates' \in Nat /\ faults' = faults /\ touched' \in [Keys -> Nat]
    BY <1>1, <1>2, Spent, TouchType
  <1>4. /\ history' \in [Tracks -> SUBSET Nat]
        /\ \A u \in Tracks : history'[u] \subseteq Times /\ history[u] \subseteq history'[u]
    BY <1>1, <1>2 DEF TypeOK, Bounded
  <1>5. TypeOK' /\ Bounded'
    <2>1. lastSeen' \in [Tracks -> Int]
      BY <1>1, <1>2 DEF TypeOK
    <2>2. TypeOK'
      BY <1>1, <1>2, <1>3, <1>4, <2>1 DEF TypeOK, setting, reported
    <2>3. Bounded'
      BY <1>1, <1>2, <1>4 DEF Bounded, Times
    <2> QED
      BY <2>2, <2>3
  <1>6. ContactsGrow
    <2>1. \A u \in Tracks : lastSeen[u] # Never => lastSeen'[u] # Never
      BY <1>1, <1>2 DEF TypeOK, Never
    <2>2. /\ Len(alerts) \in Nat /\ Len(alerts') \in Nat /\ Len(alerts) <= Len(alerts')
          /\ \A i \in 1..Len(alerts) : alerts'[i] = alerts[i]
      BY <1>1, <1>2, AlertsSame
    <2> QED
      BY <1>2, <1>4, <2>1, <2>2 DEF ContactsGrow
  <1> QED
    BY <1>2, <1>5, <1>6, ContactKept DEF reported

\* An alert is raised, after those there are.
LEMMA RaiseAlertStep ==
  ASSUME IInv, RaiseAlert PROVE IInv'
  <1>1. TypeOK /\ Bounded
    BY DEF IInv
  <1>2. /\ alerts' = Append(alerts, now) /\ Spend
        /\ UNCHANGED <<now, setting, status, row, telemetry, lastSeen, history, reported, touched, snap>>
    BY DEF RaiseAlert
  <1>3. updates' \in Nat /\ faults' = faults
    BY <1>1, <1>2, Spent
  <1>4. /\ alerts' \in Seq(Nat) /\ Len(alerts) \in Nat /\ Len(alerts') = Len(alerts) + 1
        /\ \A i \in 1..Len(alerts) : alerts'[i] = alerts[i]
    BY <1>1, <1>2 DEF TypeOK
  <1>5. TypeOK' /\ Bounded'
    <2>1. alerts' \in Seq(Nat)
      BY <1>4
    <2> QED
      BY <1>1, <1>2, <1>3, <2>1 DEF TypeOK, Bounded, Times, setting, reported
  <1>6. ContactsGrow
    BY <1>2, <1>4 DEF ContactsGrow
  <1> QED
    BY <1>2, <1>5, <1>6, ContactKept DEF reported

-----------------------------------------------------------------------------
(* The monitor                                                             *)

\* A step of the monitor touches no contact and no replay.
LEMMA MonitorKept ==
  ASSUME IInv, TypeOK', UNCHANGED <<setting, contacts, snap>>, MonitorInv', Reported'
  PROVE  IInv'
  <1>1. ContactsGrow
    BY AlertsSame DEF IInv, ContactsGrow, contacts
  <1>2. SnapInv' /\ HonestReplay' /\ Normal(policy)' /\ Bounded'
    BY <1>1, SnapKept DEF IInv, setting, contacts, Bounded, Times
  <1> QED
    BY <1>2 DEF IInv

\* A reconciliation begins: it reads the assets.
LEMMA BeginReconcileStep ==
  ASSUME IInv, BeginReconcile PROVE IInv'
  <1>1. /\ TypeOK /\ MonitorInv /\ Reported /\ Interval \in Nat /\ mon \in MonType
        /\ mon.pc = "waiting"
    BY IntervalType DEF IInv, TypeOK, MonType, BeginReconcile
  <1>2. /\ UNCHANGED <<now, setting, contacts, previous, stale, published, touched, snap, spent>>
        /\ mon' = [mon EXCEPT !.pc = "tracks", !.due = now + Interval, !.assets = ListAssetFreshnessSignals]
    BY DEF BeginReconcile
  <1>3. ListAssetFreshnessSignals \in [Assets -> SignalType]
    BY <1>1 DEF TypeOK, ListAssetFreshnessSignals, SignalType
  <1>4. now + Interval \in Nat
    BY <1>1 DEF TypeOK
  <1>5. /\ mon' \in MonType /\ mon'.pc = "tracks" /\ mon'.pending = {}
        /\ mon'.assets = ListAssetFreshnessSignals
    BY <1>1, <1>2, <1>3, <1>4 DEF MonType, MonitorInv
  <1>6. TypeOK'
    BY <1>1, <1>2, <1>5 DEF TypeOK, MonType, setting, contacts, spent
  <1>7. MonitorInv'
    <2>1. ASSUME NEW a \in Assets
          PROVE  /\ previous[AssetKey(a)] # None => mon'.assets[a].status # "absent"
                 /\ mon'.assets[a].status # "absent" => status[a] # "absent"
      <3>1. mon'.assets[a].status = status[a]
        BY <1>5 DEF ListAssetFreshnessSignals
      <3>2. previous[AssetKey(a)] # None => HasRow(AssetKey(a))
        BY <1>1 DEF MonitorInv, Keys
      <3>3. HasRow(AssetKey(a)) => status[a] # "absent"
        BY DEF HasRow, AssetKey, TrackKey, EntityKey
      <3> QED
        BY <3>1, <3>2, <3>3
    <2>2. \A k \in Keys : previous'[k] # None => HasRow(k)'
      BY <1>1, <1>2 DEF MonitorInv, HasRow, contacts
    <2> QED
      BY <1>2, <1>5, <2>1, <2>2 DEF MonitorInv, contacts
  <1>8. Reported'
    BY <1>1, <1>2, <1>5 DEF Reported, MonitorInv
  <1> QED
    BY <1>2, <1>6, <1>7, <1>8, MonitorKept

\* A read fails: nothing is replaced.
LEMMA ReadFailsStep ==
  ASSUME IInv, ReadFails PROVE IInv'
  <1>1. /\ TypeOK /\ MonitorInv /\ Reported /\ Interval \in Nat /\ mon \in MonType
        /\ mon.pc # "report" /\ now \in Nat
    BY IntervalType DEF IInv, TypeOK, MonType, ReadFails
  <1>2. /\ UNCHANGED <<now, setting, contacts, previous, stale, published, touched, snap, updates>>
        /\ faults < MaxFaults /\ faults' = faults + 1
    BY DEF ReadFails
  <1>3. mon.missed + 1 \in Nat /\ now + Interval \in Nat
    BY <1>1 DEF MonType
  <1>4. [mon EXCEPT !.due = now + Interval] \in MonType
    BY <1>1, <1>3 DEF MonType
  <1>5. PICK m \in MonType : mon' = Ended(m, mon.missed + 1)
    BY <1>1, <1>4 DEF ReadFails
  <1>6. mon' \in MonType /\ mon'.pc = "waiting" /\ mon'.pending = {}
    BY <1>1, <1>3, <1>5, EndedType
  <1>7. faults' \in 0..MaxFaults
    BY <1>1, <1>2, PictureAssumption DEF TypeOK
  <1>8. TypeOK'
    BY <1>1, <1>2, <1>6, <1>7 DEF TypeOK, MonType, setting, contacts
  <1>9. MonitorInv' /\ Reported'
    BY <1>1, <1>2, <1>6 DEF MonitorInv, Reported, HasRow, contacts
  <1> QED
    BY <1>2, <1>8, <1>9, MonitorKept

\* The contacts are classified, and what changed is to be reported: no contact that was
\* remembered has vanished.
LEMMA ReplaceStep ==
  ASSUME IInv, Replace PROVE IInv'
  <1> DEFINE current == Classify(mon.assets, ListTrackFreshnessSignals, now)
             changed == {k \in Keys : current[k] # previous[k]}
  <1>1. /\ TypeOK /\ MonitorInv /\ Reported /\ Interval \in Nat /\ mon \in MonType
        /\ mon.pc = "tracks" /\ mon.pending = {} /\ now \in Nat
        /\ mon.assets \in [Assets -> SignalType] /\ lastSeen \in [Tracks -> Int]
    BY IntervalType DEF IInv, TypeOK, MonType, Replace, MonitorInv
  <1>2. /\ UNCHANGED <<now, setting, contacts, stale, published, touched, snap, spent>>
        /\ previous' = current
        /\ mon' = IF changed = {} THEN Ended(mon, 0)
                  ELSE [mon EXCEPT !.pc = "report", !.assets = NoReads, !.pending = changed]
    BY DEF Replace, Transitions
  <1>3. /\ current \in [Keys -> ContactState]
        /\ \A a \in Assets : current[AssetKey(a)] # None <=> mon.assets[a].status # "absent"
        /\ \A t \in Tracks : current[TrackKey(t)] # None <=> lastSeen[t] # Never
    BY <1>1, ClassifyFacts DEF ListTrackFreshnessSignals
  <1> HIDE DEF current
  <1>4. \A k \in Keys : current[k] # None => HasRow(k)
    <2>1. ASSUME NEW a \in Assets, current[AssetKey(a)] # None PROVE HasRow(AssetKey(a))
      BY <1>1, <1>3, <2>1 DEF MonitorInv, HasRow
    <2>2. ASSUME NEW t \in Tracks, current[TrackKey(t)] # None PROVE HasRow(TrackKey(t))
      BY <1>3, <2>2 DEF HasRow
    <2> QED
      BY <2>1, <2>2, KeyCases
  <1>5. \A k \in Keys : previous[k] # None => current[k] # None
    <2>1. ASSUME NEW a \in Assets, previous[AssetKey(a)] # None PROVE current[AssetKey(a)] # None
      BY <1>1, <1>3, <2>1 DEF MonitorInv
    <2>2. ASSUME NEW t \in Tracks, previous[TrackKey(t)] # None PROVE current[TrackKey(t)] # None
      <3>1. HasRow(TrackKey(t))
        BY <1>1, <2>2 DEF MonitorInv, Keys
      <3>2. lastSeen[t] # Never
        BY <3>1 DEF HasRow, AssetKey, TrackKey, EntityKey
      <3> QED
        BY <1>3, <3>2
    <2> QED
      BY <2>1, <2>2, KeyCases
  <1>6. /\ mon' \in MonType /\ mon'.pc \in {"waiting", "report"} /\ mon'.pending = changed
        /\ mon'.pc = "waiting" => changed = {}
    <2>1. CASE changed = {}
      <3>1. mon' = Ended(mon, 0)
        BY <1>2, <2>1
      <3> QED
        BY <1>1, <2>1, <3>1, EndedType
    <2>2. CASE changed # {}
      <3>1. NoReads \in [Assets -> SignalType] /\ changed \subseteq Keys
        BY DEF NoReads, SignalType, Never
      <3>2. mon' = [mon EXCEPT !.pc = "report", !.assets = NoReads, !.pending = changed]
        BY <1>2, <2>2
      <3> HIDE DEF changed
      <3> QED
        BY <1>1, <2>2, <3>1, <3>2 DEF MonType
    <2> QED
      BY <2>1, <2>2
  <1>7. TypeOK'
    <2> HIDE DEF changed
    <2> QED
      BY <1>1, <1>2, <1>3, <1>6 DEF TypeOK, MonType, setting, contacts, spent
  <1>8. MonitorInv'
    <2>1. \A k \in Keys : previous'[k] # None => HasRow(k)'
      BY <1>2, <1>4 DEF HasRow, contacts
    <2>2. \A k \in changed : previous'[k] # None
      BY <1>2, <1>5
    <2> HIDE DEF changed
    <2> QED
      BY <1>6, <2>1, <2>2 DEF MonitorInv
  <1>9. Reported'
    <2>1. ASSUME NEW k \in Keys, k \notin changed PROVE previous'[k] = previous[k]
      BY <1>2, <2>1
    <2> HIDE DEF changed
    <2> QED
      BY <1>1, <1>2, <1>6, <2>1 DEF Reported
  <1> QED
    BY <1>2, <1>7, <1>8, <1>9, MonitorKept

\* One transition is published, and counted by the gauge.
LEMMA ReportOneStep ==
  ASSUME IInv, NEW k \in Keys, ReportOne(k) PROVE IInv'
  <1>1. /\ TypeOK /\ MonitorInv /\ Reported /\ Interval \in Nat /\ mon \in MonType
        /\ mon.pc = "report" /\ k \in mon.pending /\ now \in Nat
        /\ previous[k] # None /\ previous[k] \in ContactState
    BY IntervalType DEF IInv, TypeOK, MonType, ReportOne, MonitorInv
  <1>2. StateOf(k) = previous[k] /\ previous[k] \in States
    BY <1>1 DEF StateOf, ContactState
  <1>3. /\ UNCHANGED <<now, setting, contacts, previous, touched, snap, spent>>
        /\ stale' = IF Trustworthy(previous[k]) THEN stale \ {k} ELSE stale \cup {k}
        /\ published' = [published EXCEPT ![k] = previous[k]]
        /\ mon' = IF mon.pending = {k} THEN Ended(mon, 0) ELSE [mon EXCEPT !.pending = @ \ {k}]
    BY <1>2 DEF ReportOne, ObserveStaleEntity
  <1>4. mon' \in MonType /\ mon'.pending = mon.pending \ {k} /\ (mon'.pc # "report" => mon'.pending = {})
        /\ mon'.pc # "tracks"
    <2>1. CASE mon.pending = {k}
      <3>1. mon' = Ended(mon, 0)
        BY <1>3, <2>1
      <3> QED
        BY <1>1, <2>1, <3>1, EndedType
    <2>2. CASE mon.pending # {k}
      BY <1>1, <1>3, <2>2 DEF MonType
    <2> QED
      BY <2>1, <2>2
  <1>5. TypeOK'
    <2>1. stale' \subseteq Keys /\ published' \in [Keys -> ContactState]
      BY <1>1, <1>3 DEF TypeOK
    <2> QED
      BY <1>1, <1>3, <1>4, <2>1 DEF TypeOK, MonType, setting, contacts, spent
  <1>6. MonitorInv'
    BY <1>1, <1>3, <1>4 DEF MonitorInv, HasRow, contacts
  <1>7. Reported'
    <2> SUFFICES ASSUME NEW j \in Keys, j \notin mon.pending \ {k}
                 PROVE  /\ published'[j] = previous[j]
                        /\ j \in stale' <=> previous[j] \notin {None} \cup {s \in States : Trustworthy(s)}
      BY <1>3, <1>4 DEF Reported
    <2>1. CASE j = k
      BY <1>1, <1>2, <1>3, <2>1 DEF TypeOK
    <2>2. CASE j # k
      BY <1>1, <1>3, <2>2 DEF Reported, TypeOK
    <2> QED
      BY <2>1, <2>2
  <1> QED
    BY <1>3, <1>5, <1>6, <1>7, MonitorKept

\* A new process remembers nothing.
LEMMA RestartStep ==
  ASSUME IInv, Restart PROVE IInv'
  <1>1. TypeOK /\ now \in Nat
    BY DEF IInv, TypeOK
  <1>2. /\ UNCHANGED <<now, setting, contacts, snap, updates>>
        /\ faults < MaxFaults /\ faults' = faults + 1
        /\ mon' = Started(now) /\ stale' = {}
        /\ previous' = [k \in Keys |-> None] /\ published' = [k \in Keys |-> None]
        /\ touched' = [k \in Keys |-> now]
    BY DEF Restart
  <1>3. NoReads \in [Assets -> SignalType]
    BY DEF NoReads, SignalType, Never
  <1>4. mon' \in MonType /\ mon'.pc = "waiting" /\ mon'.pending = {}
    BY <1>1, <1>2, <1>3 DEF Started, MonType
  <1>5. faults' \in 0..MaxFaults
    BY <1>1, <1>2, PictureAssumption DEF TypeOK
  <1>6. TypeOK'
    BY <1>1, <1>2, <1>4, <1>5 DEF TypeOK, MonType, ContactState, setting, contacts
  <1>7. MonitorInv' /\ Reported'
    BY <1>2, <1>4 DEF MonitorInv, Reported
  <1> QED
    BY <1>2, <1>6, <1>7, MonitorKept

\* Time passes.
LEMMA TickStep ==
  ASSUME IInv, Tick PROVE IInv'
  <1>1. /\ now' = now + 1
        /\ UNCHANGED <<setting, contacts, reported, touched, snap, spent>>
    BY DEF Tick
  <1>2. TypeOK' /\ MonitorInv' /\ Reported'
    BY <1>1 DEF IInv, TypeOK, MonitorInv, Reported, HasRow, setting, contacts, reported, spent
  <1> QED
    BY <1>1, <1>2, MonitorKept

-----------------------------------------------------------------------------
(* The replay                                                              *)

\* A replay changes nothing but itself.
LEMMA ReplayKept ==
  ASSUME IInv, UNCHANGED <<now, setting, contacts, reported, touched, spent>>,
         snap' \in SnapType, SnapInv', HonestReplay'
  PROVE  IInv'
  <1>1. TypeOK'
    BY DEF IInv, TypeOK, SnapType, setting, contacts, reported, spent
  <1>2. Normal(policy)' /\ Bounded' /\ MonitorInv' /\ Reported'
    BY DEF IInv, Bounded, Times, MonitorInv, HasRow, Reported, setting, contacts, reported
  <1> QED
    BY <1>1, <1>2 DEF IInv

\* No picture.
LEMMA NoPictureType == NoPicture \in SnapType /\ NoPicture.pc = "idle"
  BY DEF NoPicture, SnapType, Never, States

\* The instant is clamped to the evidence: some of it is no newer.
LEMMA ClampFacts ==
  ASSUME TypeOK, Bounded, NEW at \in Int
  PROVE  /\ Clamp(TrackHistoryWindow, at) \in Int
         /\ Evidence # {} =>
              \E u \in Tracks : \E e \in history[u] : e <= Clamp(TrackHistoryWindow, at)
  <1>1. CASE Evidence = {}
    BY <1>1 DEF Clamp, TrackHistoryWindow, TypeOK
  <1>2. CASE Evidence # {}
    <2>1. Evidence \in SUBSET Nat /\ \A x \in Evidence : x <= MaxTime + MaxSkew
      BY TimesType DEF Evidence, Bounded, Times
    <2>2. Min(Evidence) \in Evidence
      BY <1>2, <2>1, MinIsLeast
    <2>3. Max(Evidence) \in Evidence /\ Min(Evidence) <= Max(Evidence)
      <3>1. MaxTime + MaxSkew \in Nat
        BY TimesType
      <3> QED
        BY <1>2, <2>1, <2>2, <3>1, MaxIsGreatest
    <2> DEFINE lo == Min(Evidence)
               hi == Max(Evidence)
    <2>4. Clamp(TrackHistoryWindow, at) = IF at < lo THEN lo ELSE IF at > hi THEN hi ELSE at
      BY <1>2 DEF Clamp, TrackHistoryWindow
    <2>5. lo \in Nat /\ hi \in Nat
      BY <2>1, <2>2, <2>3
    <2> HIDE DEF lo, hi
    <2>6. Clamp(TrackHistoryWindow, at) \in Int /\ lo <= Clamp(TrackHistoryWindow, at)
      BY <2>3, <2>4, <2>5 DEF lo, hi
    <2>7. PICK u \in Tracks : lo \in history[u]
      BY <2>2 DEF Evidence, lo
    <2> QED
      BY <2>6, <2>7
  <1> QED
    BY <1>1, <1>2

\* A replay begins.
LEMMA WindowStep ==
  ASSUME IInv, NEW asked \in Times \cup {Never}, Window(asked) PROVE IInv'
  <1> DEFINE requested == IF asked = Never THEN now ELSE asked
             at == Clamp(TrackHistoryWindow, requested)
  <1>1. TypeOK /\ Bounded /\ requested \in Int
    BY TimesType DEF IInv, TypeOK
  <1>2. /\ UNCHANGED <<now, setting, contacts, reported, touched, spent>>
        /\ snap' = [NoPicture EXCEPT !.pc = "tracks", !.base = history, !.begun = Len(alerts), !.at = at]
    BY DEF Window
  <1>3. at \in Int /\ (Evidence # {} => \E u \in Tracks : \E e \in history[u] : e <= at)
    BY <1>1, ClampFacts
  <1> HIDE DEF requested, at
  <1>4. history \in [Tracks -> SUBSET Nat] /\ Len(alerts) \in Nat
    BY <1>1 DEF TypeOK
  <1>5. /\ snap' \in SnapType /\ snap'.pc = "tracks" /\ snap'.base = history
        /\ snap'.begun = Len(alerts) /\ snap'.at = at
    BY <1>2, <1>3, <1>4, NoPictureType DEF SnapType
  <1>6. SnapInv'
    <2>1. \A t \in Tracks : history[t] # {} => Evidence # {}
      BY DEF Evidence
    <2> QED
      BY <1>2, <1>3, <1>4, <1>5, <2>1 DEF SnapInv, contacts
  <1>7. HonestReplay'
    BY <1>5 DEF HonestReplay, Shown
  <1> QED
    BY <1>2, <1>5, <1>6, <1>7, ReplayKept

\* The tracks are shown by their newest evidence at the instant.
LEMMA SnapshotTracksStep ==
  ASSUME IInv, SnapshotTracks PROVE IInv'
  <1> DEFINE seen == TracksAt(snap.at)
             fresh == [t \in Tracks |-> FreshAt(snap.at, seen[t])]
  <1>1. /\ TypeOK /\ Bounded /\ SnapInv /\ Normal(policy)
        /\ snap \in SnapType /\ snap.pc = "tracks" /\ snap.at \in Int
    BY DEF IInv, TypeOK, SnapType, SnapshotTracks
  <1>2. /\ UNCHANGED <<now, setting, contacts, reported, touched, spent>>
        /\ snap' = [snap EXCEPT !.pc = "assets", !.tracks = seen, !.states = fresh]
    BY DEF SnapshotTracks
  <1>3. ASSUME NEW t \in Tracks
        PROVE  /\ seen[t] = LastBy(history[t], snap.at)
               /\ seen[t] \in Int /\ seen[t] >= Never
               /\ seen[t] # Never => seen[t] \in history[t] /\ seen[t] <= snap.at
               /\ \A x \in history[t] : x <= snap.at => seen[t] # Never /\ x <= seen[t]
    <2>1. seen[t] = LastBy(history[t], snap.at)
      BY DEF TracksAt
    <2>2. /\ history[t] \in SUBSET Nat /\ MaxTime + MaxSkew \in Nat
          /\ \A x \in history[t] : x <= MaxTime + MaxSkew
      BY <1>1, TimesType DEF TypeOK, Bounded, Times
    <2> HIDE DEF seen
    <2>3. /\ \/ LastBy(history[t], snap.at) = Never
             \/ LastBy(history[t], snap.at) \in history[t] /\ LastBy(history[t], snap.at) <= snap.at
          /\ \A x \in history[t] : x <= snap.at =>
               LastBy(history[t], snap.at) # Never /\ x <= LastBy(history[t], snap.at)
      BY <1>1, <2>2, LastByEntry
    <2> QED
      BY <2>1, <2>2, <2>3 DEF Never
  <1>4. ASSUME NEW t \in Tracks PROVE LastBy(snap.base[t], snap.at) <= seen[t]
    <2>1. /\ snap.base[t] \subseteq history[t] /\ snap.base[t] \in SUBSET Nat
          /\ MaxTime + MaxSkew \in Nat /\ \A x \in snap.base[t] : x <= MaxTime + MaxSkew
      BY <1>1, TimesType DEF SnapInv, SnapType, Bounded, Times
    <2>2. LastBy(snap.base[t], snap.at) = Never
            \/ (LastBy(snap.base[t], snap.at) \in snap.base[t] /\ LastBy(snap.base[t], snap.at) <= snap.at)
      BY <1>1, <2>1, LastByEntry
    <2>3. /\ seen[t] \in Int /\ seen[t] >= Never
          /\ \A x \in snap.base[t] : x <= snap.at => x <= seen[t]
      BY <1>3, <2>1
    <2> HIDE DEF seen
    <2> QED
      BY <2>2, <2>3 DEF Never
  <1>5. ASSUME NEW t \in Tracks
        PROVE  /\ fresh[t] \in States
               /\ fresh[t] = "live" => snap.at - seen[t] < policy.delayed
    <2>1. fresh[t] = ForTrack(policy, "active", seen[t], snap.at)
      BY DEF FreshAt
    <2>2. /\ Normalized(policy) = policy /\ seen[t] \in Int
          /\ policy.delayed \in Int /\ policy.stale \in Int /\ policy.unavailable \in Int
      BY <1>1, <1>3 DEF Normal, Thresholds
    <2> HIDE DEF seen, fresh
    <2>3. fresh[t] = "live" => ~(snap.at - seen[t] >= policy.delayed)
      BY <2>1, <2>2 DEF ForTrack, ForAge, Band
    <2> QED
      BY <1>1, <2>1, <2>2, <2>3, StatesType
  <1>6. seen \in [Tracks -> Int] /\ fresh \in [Tracks -> States]
    BY <1>3, <1>5 DEF TracksAt
  <1> HIDE DEF seen, fresh
  <1>7. /\ snap' \in SnapType /\ snap'.pc = "assets" /\ snap'.tracks = seen /\ snap'.states = fresh
        /\ snap'.at = snap.at /\ snap'.base = snap.base /\ snap'.begun = snap.begun
    BY <1>1, <1>2, <1>6 DEF SnapType
  <1>8. SnapInv'
    BY <1>1, <1>2, <1>7 DEF SnapInv, contacts
  <1>9. \A t \in Tracks : snap.base[t] # {} => \E u \in Tracks : seen[u] # Never
    BY <1>1, <1>3 DEF SnapInv
  <1>10. HonestReplay'
    BY <1>2, <1>3, <1>4, <1>5, <1>7, <1>9 DEF HonestReplay, setting, contacts
  <1> QED
    BY <1>2, <1>7, <1>8, <1>10, ReplayKept

\* The assets follow.
LEMMA SnapshotAssetsStep ==
  ASSUME IInv, SnapshotAssets PROVE IInv'
  <1>1. /\ TypeOK /\ Bounded /\ SnapInv /\ HonestReplay
        /\ snap \in SnapType /\ snap.pc = "assets" /\ snap.at \in Int
    BY DEF IInv, TypeOK, SnapType, SnapshotAssets
  <1>2. /\ UNCHANGED <<now, setting, contacts, reported, touched, spent>>
        /\ snap' = [snap EXCEPT !.pc = "alerts", !.assets = AssetsAt(snap.at)]
    BY DEF SnapshotAssets
  <1>3. ASSUME NEW a \in Assets PROVE LastBy(telemetry[a], snap.at) \in Int
    <2>1. /\ telemetry[a] \in SUBSET Nat /\ MaxTime + MaxSkew \in Nat
          /\ \A x \in telemetry[a] : x <= MaxTime + MaxSkew
      BY <1>1, TimesType DEF TypeOK, Bounded, Times
    <2>2. LastBy(telemetry[a], snap.at) = Never \/ LastBy(telemetry[a], snap.at) \in telemetry[a]
      BY <1>1, <2>1, LastByEntry
    <2> QED
      BY <2>1, <2>2 DEF Never
  <1>4. AssetsAt(snap.at) \in [Assets -> Int]
    BY <1>3 DEF AssetsAt
  <1>5. /\ snap' \in SnapType /\ snap'.pc = "alerts" /\ snap'.tracks = snap.tracks
        /\ snap'.states = snap.states /\ snap'.at = snap.at /\ snap'.base = snap.base
        /\ snap'.begun = snap.begun
    BY <1>1, <1>2, <1>4 DEF SnapType
  <1>6. SnapInv' /\ HonestReplay'
    BY <1>1, <1>2, <1>5 DEF SnapInv, HonestReplay, Shown, setting, contacts
  <1> QED
    BY <1>2, <1>5, <1>6, ReplayKept

\* A picture that is not full lacks no alert: the newest one it lacked would have fewer
\* than Limit above it.
LEMMA AlertsComplete ==
  ASSUME TypeOK, NEW at \in Int, ~(Cardinality(AlertsAt(at)) >= Limit),
         NEW i \in 1..Len(alerts), alerts[i] <= at
  PROVE  i \in AlertsAt(at)
  <1> DEFINE by == {j \in 1..Len(alerts) : alerts[j] <= at}
             missing == {j \in by : j \notin AlertsAt(at)}
  <1> SUFFICES ASSUME missing # {} PROVE FALSE
    OBVIOUS
  <1>1. Len(alerts) \in Nat /\ Limit \in Nat
    BY PictureAssumption DEF TypeOK
  <1>2. missing \in SUBSET Nat /\ \A j \in missing : j <= Len(alerts)
    BY <1>1
  <1>3. PICK m \in missing : \A j \in missing : j <= m
    BY <1>1, <1>2, MaxIsGreatest
  <1> DEFINE above == {j \in by : j > m}
  <1>4. above \subseteq AlertsAt(at)
    BY <1>2, <1>3
  <1>5. IsFiniteSet(AlertsAt(at))
    <2>1. AlertsAt(at) \subseteq 1..Len(alerts)
      BY DEF AlertsAt
    <2>2. IsFiniteSet(1..Len(alerts))
      BY <1>1, FS_Interval
    <2> QED
      BY <2>1, <2>2, FS_Subset
  <1>6. Cardinality(above) <= Cardinality(AlertsAt(at)) /\ IsFiniteSet(above)
    BY <1>4, <1>5, FS_Subset
  <1>7. Cardinality(above) \in Nat /\ Cardinality(AlertsAt(at)) \in Nat
    BY <1>5, <1>6, FS_CardinalityType
  <1>8. Cardinality(above) < Limit
    BY <1>1, <1>6, <1>7
  <1>9. m \in AlertsAt(at)
    BY <1>8 DEF AlertsAt
  <1> QED
    BY <1>9

\* The alerts come last.
LEMMA SnapshotAlertsStep ==
  ASSUME IInv, SnapshotAlerts PROVE IInv'
  <1>1. /\ TypeOK /\ Bounded /\ SnapInv /\ HonestReplay
        /\ snap \in SnapType /\ snap.pc = "alerts" /\ snap.at \in Int /\ snap.begun \in Nat
        /\ Len(alerts) \in Nat
    <2>1. TypeOK /\ Bounded /\ SnapInv /\ HonestReplay /\ snap.pc = "alerts"
      BY DEF IInv, SnapshotAlerts
    <2>2. snap \in SnapType /\ Len(alerts) \in Nat
      BY <2>1 DEF TypeOK, SnapType
    <2> QED
      BY <2>1, <2>2 DEF SnapType
  <1>2. /\ UNCHANGED <<now, setting, contacts, reported, touched, spent>>
        /\ snap' = [snap EXCEPT !.pc = "shown", !.alerts = AlertsAt(snap.at),
                                !.truncated = Cardinality(AlertsAt(snap.at)) >= Limit]
    BY DEF SnapshotAlerts
  <1>3. AlertsAt(snap.at) \in SUBSET Nat /\ (Cardinality(AlertsAt(snap.at)) >= Limit) \in BOOLEAN
    BY <1>1 DEF AlertsAt
  <1>4. /\ snap' \in SnapType /\ snap'.pc = "shown" /\ snap'.tracks = snap.tracks
        /\ snap'.states = snap.states /\ snap'.at = snap.at /\ snap'.base = snap.base
        /\ snap'.begun = snap.begun /\ snap'.alerts = AlertsAt(snap.at)
        /\ snap'.truncated = (Cardinality(AlertsAt(snap.at)) >= Limit)
    BY <1>1, <1>2, <1>3 DEF SnapType
  <1>5. SnapInv'
    BY <1>1, <1>2, <1>4 DEF SnapInv, contacts
  <1>6. ASSUME ~snap'.truncated, NEW i \in 1..snap.begun, alerts[i] <= snap.at
        PROVE  i \in AlertsAt(snap.at)
    <2>1. ~(Cardinality(AlertsAt(snap.at)) >= Limit)
      BY <1>4, <1>6
    <2>2. snap.begun <= Len(alerts)
      BY <1>1 DEF SnapInv
    <2>3. i \in 1..Len(alerts)
      BY <1>1, <2>2
    <2> QED
      BY <1>1, <1>6, <2>1, <2>3, AlertsComplete
  <1>7. HonestReplay'
    BY <1>1, <1>2, <1>4, <1>6 DEF HonestReplay, Shown, setting, contacts
  <1> QED
    BY <1>2, <1>4, <1>5, <1>7, ReplayKept

\* The picture is left.
LEMMA LeaveStep ==
  ASSUME IInv, Leave PROVE IInv'
  <1>1. TypeOK /\ Len(alerts) \in Nat
    BY DEF IInv, TypeOK
  <1>2. UNCHANGED <<now, setting, contacts, reported, touched, spent>> /\ snap' = NoPicture
    BY DEF Leave
  <1>3. /\ snap' \in SnapType /\ snap'.pc = "idle" /\ snap'.begun = 0
        /\ snap'.base = [t \in Tracks |-> {}]
    BY <1>2, NoPictureType DEF NoPicture
  <1>4. SnapInv' /\ HonestReplay'
    BY <1>1, <1>2, <1>3 DEF SnapInv, HonestReplay, Shown, contacts
  <1> QED
    BY <1>2, <1>3, <1>4, ReplayKept

-----------------------------------------------------------------------------
(* The theorems                                                            *)

\* Nothing is known of any contact.
LEMMA InvInit == Init => IInv
  <1> SUFFICES ASSUME Init PROVE IInv
    OBVIOUS
  <1>1. Normal(policy)
    BY NormalizedOnce, PictureAssumption DEF Init
  <1>2. NoReads \in [Assets -> SignalType]
    BY DEF NoReads, SignalType, Never
  <1>3. mon \in MonType /\ mon.pc = "waiting" /\ mon.pending = {}
    BY <1>2 DEF Init, Started, MonType
  <1>4. snap \in SnapType /\ snap.pc = "idle" /\ snap.begun = 0 /\ snap.base = [t \in Tracks |-> {}]
    BY NoPictureType DEF Init, NoPicture
  <1>5. TypeOK
    <2>1. readers \subseteq {"monitor", "replay"} /\ policy \in Thresholds
      BY <1>1, PictureAssumption DEF Init, Normal
    <2>2. updates \in Nat /\ faults \in 0..MaxFaults
      BY PictureAssumption DEF Init
    <2>3. alerts \in Seq(Nat)
      BY DEF Init
    <2> QED
      BY <1>3, <1>4, <2>1, <2>2, <2>3
      DEF Init, TypeOK, MonType, SnapType, ContactState, FreshState, Never
  <1>6. Bounded /\ MonitorInv /\ Reported
    BY <1>3 DEF Init, Bounded, MonitorInv, Reported
  <1>7. SnapInv /\ HonestReplay
    BY <1>4 DEF Init, SnapInv, HonestReplay, Shown
  <1> QED
    BY <1>1, <1>5, <1>6, <1>7 DEF IInv

\* Every step of the contacts, the monitor and the replay preserves the invariant.
LEMMA InvStep == IInv /\ [Next]_vars => IInv'
  <1> SUFFICES ASSUME IInv, [Next]_vars PROVE IInv'
    OBVIOUS
  <1>1. CASE Contact
    BY <1>1, CreateAssetStep, UpdateStatusStep, ReportStep, OpenTrackStep, ProjectStep,
       RaiseAlertStep DEF Contact
  <1>2. CASE Monitor
    BY <1>2, BeginReconcileStep, ReplaceStep, ReportOneStep, ReadFailsStep, RestartStep DEF Monitor
  <1>3. CASE Replay
    BY <1>3, WindowStep, SnapshotTracksStep, SnapshotAssetsStep, SnapshotAlertsStep, LeaveStep
    DEF Replay
  <1>4. CASE Tick
    BY <1>4, TickStep
  <1>5. CASE UNCHANGED vars
    <2>1. UNCHANGED <<now, setting, contacts, reported, touched, snap, spent>>
      BY <1>5 DEF vars
    <2>2. snap' \in SnapType /\ SnapInv' /\ HonestReplay'
      BY <2>1 DEF IInv, TypeOK, SnapType, SnapInv, HonestReplay, Shown, setting, contacts
    <2> QED
      BY <2>1, <2>2, ReplayKept
  <1> QED
    BY <1>1, <1>2, <1>3, <1>4, <1>5 DEF Next

\* Whatever changes between the reads of the monitor and of a replay, the invariant holds.
THEOREM Invariance == Spec => []IInv
  BY InvInit, InvStep, PTL DEF Spec

\* Every variable keeps its type.
THEOREM TypeCorrect == Spec => []TypeOK
  <1>1. IInv => TypeOK
    BY DEF IInv
  <1> QED
    BY <1>1, Invariance, PTL

\* freshness_monitor.go:105-115: what was published, what is remembered and what is
\* counted agree for every contact that is not about to be reported.
THEOREM ReportsCorrect == Spec => []Reported
  <1>1. IInv => Reported
    BY DEF IInv
  <1> QED
    BY <1>1, Invariance, PTL

\* picture/domain.go:11-18: a replay shows the newest evidence no newer than its instant,
\* and says so when an alert may be missing.
THEOREM ReplayCorrect == Spec => []HonestReplay
  <1>1. IInv => HonestReplay
    BY DEF IInv
  <1> QED
    BY <1>1, Invariance, PTL

-----------------------------------------------------------------------------
(* Replays of an instant that has passed                                   *)

\* A track was last seen when its newest evidence says.
HistoryIsPast == \A t \in Tracks : \A e \in history[t] : e <= lastSeen[t]

\* Evidence newer than a cut does not change what was newest by it.
LEMMA NewerIsLater ==
  ASSUME NEW S \in SUBSET Nat, NEW at \in Int, NEW x \in Nat, at < x
  PROVE  LastBy(S \cup {x}, at) = LastBy(S, at)
  <1>1. {u \in S \cup {x} : u <= at} = {u \in S : u <= at}
    OBVIOUS
  <1> QED
    BY <1>1 DEF LastBy

\* A projection follows all the evidence there is, but for the first.
LEMMA ProjectStable ==
  ASSUME IInv, HistoryIsPast, ReplayIsStable, NEW u \in Tracks, NEW at \in Times, Project(u, at)
  PROVE  HistoryIsPast' /\ ReplayIsStable'
  <1>1. /\ TypeOK /\ SnapInv /\ at \in Nat /\ snap \in SnapType
        /\ history \in [Tracks -> SUBSET Nat] /\ lastSeen \in [Tracks -> Int]
    BY TimesType DEF IInv, TypeOK, SnapType
  <1>2. /\ lastSeen' = [lastSeen EXCEPT ![u] = at] /\ snap' = snap
        /\ history' = [history EXCEPT ![u] = @ \cup {at}]
        /\ lastSeen[u] < at \/ (history[u] = {} /\ lastSeen[u] = at)
    BY DEF Project, ApplyTrackObservation
  <1>3. HistoryIsPast'
    <2> SUFFICES ASSUME NEW t \in Tracks, NEW e \in history'[t] PROVE e <= lastSeen'[t]
      BY DEF HistoryIsPast
    <2>1. CASE t = u
      <3>1. e = at \/ e \in history[u]
        BY <1>1, <1>2, <2>1
      <3>2. e \in history[u] => e <= lastSeen[u] /\ lastSeen[u] < at /\ e \in Nat
        BY <1>1, <1>2 DEF HistoryIsPast
      <3> QED
        BY <1>1, <1>2, <2>1, <3>1, <3>2
    <2>2. CASE t # u
      BY <1>1, <1>2, <2>2 DEF HistoryIsPast
    <2> QED
      BY <2>1, <2>2
  <1>4. ASSUME Shown, NEW t \in Tracks, NEW e \in snap.base[t], snap.at <= e
        PROVE  snap.tracks[t] = LastBy(history'[t], snap.at)
    <2>1. e \in history[t] /\ e \in Nat /\ snap.at \in Int
      BY <1>1 DEF SnapInv, SnapType
    <2>2. snap.tracks[t] = LastBy(history[t], snap.at)
      BY <1>4 DEF ReplayIsStable
    <2>3. CASE t = u
      <3>1. e <= lastSeen[u] /\ lastSeen[u] < at
        BY <1>2, <2>1, <2>3 DEF HistoryIsPast
      <3>2. snap.at < at
        BY <1>1, <1>4, <2>1, <3>1
      <3>3. history'[t] = history[t] \cup {at}
        BY <1>1, <1>2, <2>3
      <3> QED
        BY <1>1, <2>1, <2>2, <3>2, <3>3, NewerIsLater
    <2>4. CASE t # u
      BY <1>1, <1>2, <2>2, <2>4
    <2> QED
      BY <2>3, <2>4
  <1> QED
    BY <1>2, <1>3, <1>4 DEF ReplayIsStable, Shown

\* Nothing else adds evidence, and a replay shows what there is.
LEMMA OthersStable ==
  ASSUME IInv, HistoryIsPast, ReplayIsStable, [Next]_vars, history' = history
  PROVE  HistoryIsPast' /\ ReplayIsStable'
  <1>1. TypeOK /\ snap \in SnapType /\ history \in [Tracks -> SUBSET Nat]
    BY DEF IInv, TypeOK, SnapType
  <1>2. CASE \E t \in Tracks, at \in Times : Project(t, at)
    BY <1>2, ProjectStable
  <1>3. CASE \E t \in Tracks, at \in Times : OpenTrack(t, at)
    <2>1. PICK u \in Tracks, at \in Times : OpenTrack(u, at)
      BY <1>3
    <2>2. /\ lastSeen[u] = Never /\ lastSeen' = [lastSeen EXCEPT ![u] = at] /\ snap' = snap
          /\ at \in Nat /\ lastSeen \in [Tracks -> Int]
      BY <1>1, <2>1, TimesType DEF OpenTrack, TypeOK
    <2>3. \A t \in Tracks : \A e \in history[t] : e <= lastSeen'[t]
      <3> SUFFICES ASSUME NEW t \in Tracks, NEW e \in history[t] PROVE e <= lastSeen'[t]
        OBVIOUS
      <3>1. e \in Nat /\ e <= lastSeen[t]
        BY <1>1 DEF HistoryIsPast
      <3>2. t # u
        BY <2>2, <3>1 DEF Never
      <3> QED
        BY <2>2, <3>1, <3>2
    <2> QED
      BY <2>2, <2>3 DEF HistoryIsPast, ReplayIsStable, Shown
  <1>4. CASE UNCHANGED <<lastSeen, snap>>
    BY <1>4 DEF HistoryIsPast, ReplayIsStable, Shown
  <1>5. CASE Replay
    <2>1. lastSeen' = lastSeen
      BY <1>5 DEF Replay, Window, SnapshotTracks, SnapshotAssets, SnapshotAlerts, Leave, contacts
    <2>2. CASE SnapshotTracks
      <3>1. snap'.tracks = TracksAt(snap.at) /\ snap'.at = snap.at
        BY <1>1, <2>2 DEF SnapshotTracks, SnapType
      <3>2. \A t \in Tracks : snap'.tracks[t] = LastBy(history[t], snap'.at)
        BY <3>1 DEF TracksAt
      <3> QED
        BY <2>1, <3>2 DEF HistoryIsPast, ReplayIsStable
    <2>3. CASE SnapshotAssets \/ SnapshotAlerts
      <3>1. /\ Shown /\ snap'.tracks = snap.tracks /\ snap'.at = snap.at /\ snap'.base = snap.base
        BY <1>1, <2>3 DEF SnapshotAssets, SnapshotAlerts, SnapType, Shown
      <3> QED
        BY <2>1, <3>1 DEF HistoryIsPast, ReplayIsStable
    <2>4. CASE Leave \/ \E asked \in Times \cup {Never} : Window(asked)
      <3>1. snap'.pc \in {"idle", "tracks"}
        BY <2>4, NoPictureType DEF Leave, Window, NoPicture
      <3> QED
        BY <2>1, <3>1 DEF HistoryIsPast, ReplayIsStable, Shown
    <2> QED
      BY <1>5, <2>2, <2>3, <2>4 DEF Replay
  <1> QED
    BY <1>2, <1>3, <1>4, <1>5 DEF Next, Contact, Monitor, CreateAsset, UpdateStatus, Report,
       RaiseAlert, BeginReconcile, Replace, ReportOne, ReadFails, Restart, Tick, contacts, vars

\* picture/domain.go:4-9: what a picture shows of a track that had been seen at or after its
\* instant is what every later picture of that instant shows, whatever evidence arrives
\* between the reads and afterwards.
THEOREM ReplayStable == Spec => []ReplayIsStable
  <1>1. Init => HistoryIsPast /\ ReplayIsStable
    BY NoPictureType DEF Init, HistoryIsPast, ReplayIsStable, Shown
  <1>2. IInv /\ HistoryIsPast /\ ReplayIsStable /\ [Next]_vars => HistoryIsPast' /\ ReplayIsStable'
    <2> SUFFICES ASSUME IInv, HistoryIsPast, ReplayIsStable, [Next]_vars
                 PROVE  HistoryIsPast' /\ ReplayIsStable'
      OBVIOUS
    <2>1. CASE \E u \in Tracks, at \in Times : Project(u, at)
      BY <2>1, ProjectStable
    <2>2. CASE ~\E u \in Tracks, at \in Times : Project(u, at)
      <3>1. history' = history
        BY <2>2 DEF Next, Contact, Monitor, Replay, CreateAsset, UpdateStatus, Report, OpenTrack,
           RaiseAlert, BeginReconcile, Replace, ReportOne, ReadFails, Restart, Window,
           SnapshotTracks, SnapshotAssets, SnapshotAlerts, Leave, Tick, contacts, vars
      <3> QED
        BY <3>1, OthersStable
    <2> QED
      BY <2>1, <2>2
  <1> QED
    BY <1>1, <1>2, Invariance, PTL DEF Spec

-----------------------------------------------------------------------------
(* The time it takes until a client knows                                  *)

\* How a contact is classified by its row, at a time.
Class(k, r) == Classify(ListAssetFreshnessSignals, ListTrackFreshnessSignals, r)[k]

\* A state is the one the contact was in at some time since.
Good(k, state, since) == \E r \in since..now : state = Class(k, r)

Lag(misses) == (3 + misses) * Interval

\* The last tick of the monitor; the start of the process, before the first.
Began == mon.due - Interval

\* Since when what was published is due to be corrected.
Held == (IF mon.pc = "waiting" THEN mon.due + Interval ELSE mon.due) - Lag(mon.missed)

\* Neither the ticker nor a reconciliation is late, no row changed before the process
\* began, and what was published, read and remembered is true of the rows that were left
\* alone: since the last tick that succeeded, since the assets were read, and since the
\* map was replaced.
Punctual ==
  /\ Began <= now /\ now <= mon.due
  /\ mon.pc = "waiting" /\ ~mon.ticking => now = mon.due
  /\ \A k \in Keys : ~mon.ticking => touched[k] >= IF mon.pc = "waiting" THEN mon.due ELSE Began

TimeInv ==
  "monitor" \in readers =>
  /\ Punctual
  /\ \A k \in Keys : touched[k] < Held => Good(k, published[k], Held)
  /\ mon.pc = "tracks" => \A a \in Assets :
       touched[AssetKey(a)] < Began => mon.assets[a] = ListAssetFreshnessSignals[a]
  /\ mon.pc = "report" => \A k \in Keys : touched[k] < Began => Good(k, previous[k], Began)

\* The row of a contact is what it was.
SameRow(k) ==
  /\ \A a \in Assets : k = AssetKey(a) =>
       ListAssetFreshnessSignals'[a] = ListAssetFreshnessSignals[a]
  /\ \A t \in Tracks : k = TrackKey(t) => lastSeen'[t] = lastSeen[t]

\* A lag is three intervals, and one more for each miss.
LEMMA LagFacts ==
  ASSUME Interval \in Nat, NEW n \in Nat
  PROVE  Lag(n) \in Nat /\ Lag(n) >= 3 * Interval /\ Lag(n + 1) = Lag(n) + Interval
         /\ Lag(0) = 3 * Interval
  <1> DEFINE i == Interval
  <1> HIDE DEF i
  <1>1. ASSUME NEW x \in Nat, NEW y \in Nat
        PROVE  (3 + x) * y \in Nat /\ (3 + x) * y >= 3 * y /\ (3 + (x + 1)) * y = (3 + x) * y + y
               /\ (3 + 0) * y = 3 * y
    <2>1. (3 + x) * y = 3 * y + x * y /\ x * y \in Nat
      OBVIOUS
    <2>2. (3 + (x + 1)) * y = 3 * y + x * y + y
      OBVIOUS
    <2> QED
      BY <2>1, <2>2
  <1>2. i \in Nat
    BY DEF i
  <1>3. (3 + n) * i \in Nat /\ (3 + n) * i >= 3 * i /\ (3 + (n + 1)) * i = (3 + n) * i + i
        /\ (3 + 0) * i = 3 * i
    BY <1>1, <1>2
  <1> QED
    BY <1>3 DEF Lag, i

\* A contact is classified by its own row.
LEMMA ClassKept ==
  ASSUME NEW k \in Keys, UNCHANGED policy, SameRow(k), NEW r
  PROVE  Class(k, r)' = Class(k, r)
  <1>1. CASE \E a \in Assets : k = AssetKey(a)
    <2>1. PICK a \in Assets : k = AssetKey(a) /\ k.id = a
      BY <1>1 DEF AssetKey, EntityKey
    <2>2. ListAssetFreshnessSignals'[k.id] = ListAssetFreshnessSignals[k.id]
      BY <2>1 DEF SameRow
    <2> DEFINE s == ListAssetFreshnessSignals[k.id]
    <2>3. Class(k, r) = IF s.status = "absent" THEN None
                        ELSE ForAsset(policy, s.status, s.link, s.lastSeen, r)
      BY <1>1 DEF Class, Classify
    <2>4. Class(k, r)' = IF s'.status = "absent" THEN None
                         ELSE ForAsset(policy', s'.status, s'.link, s'.lastSeen, r)
      BY <1>1 DEF Class, Classify, Keys
    <2> QED
      BY <2>2, <2>3, <2>4
  <1>2. CASE ~\E a \in Assets : k = AssetKey(a)
    <2>1. PICK t \in Tracks : k = TrackKey(t) /\ k.id = t
      BY <1>2, KeyCases
    <2>2. lastSeen'[k.id] = lastSeen[k.id]
      BY <2>1 DEF SameRow
    <2>3. Class(k, r) = IF lastSeen[k.id] = Never THEN None
                        ELSE ForTrack(policy, "active", lastSeen[k.id], r)
      BY <1>2 DEF Class, Classify, ListTrackFreshnessSignals
    <2>4. Class(k, r)' = IF lastSeen'[k.id] = Never THEN None
                         ELSE ForTrack(policy', "active", lastSeen'[k.id], r)
      BY <1>2 DEF Class, Classify, ListTrackFreshnessSignals
    <2> QED
      BY <2>2, <2>3, <2>4
  <1> QED
    BY <1>1, <1>2

\* The bounds of the times of the monitor.
LEMMA TimeTypes ==
  ASSUME IInv
  PROVE  /\ Interval \in Nat /\ now \in Nat /\ mon.due \in Nat /\ mon.missed \in Nat
         /\ mon.ticking \in BOOLEAN /\ \A k \in Keys : touched[k] \in Nat
         /\ Began \in Int /\ Held \in Int /\ Held <= Began
         /\ Held = (IF mon.pc = "waiting" THEN mon.due + Interval ELSE mon.due) - Lag(mon.missed)
         /\ Lag(mon.missed) \in Nat /\ Lag(mon.missed) >= 3 * Interval
  <1>1. Interval \in Nat
    BY IntervalType DEF IInv
  <1>2. now \in Nat /\ mon.due \in Nat /\ mon.missed \in Nat /\ mon.ticking \in BOOLEAN
        /\ \A k \in Keys : touched[k] \in Nat
    BY DEF IInv, TypeOK
  <1>3. Lag(mon.missed) \in Nat /\ Lag(mon.missed) >= 3 * Interval
    BY <1>1, <1>2, LagFacts
  <1>4. /\ Began \in Int /\ Held \in Int /\ Held <= Began
    BY <1>1, <1>2, <1>3 DEF Began, Held
  <1> QED
    BY <1>1, <1>2, <1>3, <1>4 DEF Held

\* The contacts change at once: a row that changes is touched now.
LEMMA ContactTime ==
  ASSUME IInv, TimeInv, UNCHANGED <<now, setting, mon, previous, published>>,
         \A k \in Keys : touched'[k] = now \/ (touched'[k] = touched[k] /\ SameRow(k))
  PROVE  TimeInv'
  <1> SUFFICES ASSUME "monitor" \in readers PROVE TimeInv'
    BY DEF TimeInv, setting
  <1>1. UNCHANGED <<policy, readers, Interval, Began, Held>>
    BY DEF setting, Interval, Began, Held, Lag
  <1>2. Punctual /\ TypeOK
    BY DEF TimeInv, IInv
  <1>3. \A k \in Keys : touched'[k] < Began => touched'[k] = touched[k] /\ SameRow(k)
    BY <1>2, TimeTypes DEF Punctual
  <1>4. \A k \in Keys : touched'[k] < Held => touched'[k] = touched[k] /\ SameRow(k)
    BY <1>2, TimeTypes DEF Punctual
  <1>5. Punctual'
    BY <1>1, <1>2, TimeTypes DEF Punctual
  <1>6. ASSUME NEW k \in Keys, touched'[k] < Held' PROVE Good(k, published[k], Held)'
    <2>1. Good(k, published[k], Held) /\ SameRow(k)
      BY <1>1, <1>4, <1>6 DEF TimeInv
    <2>2. PICK r \in Held..now : published[k] = Class(k, r)
      BY <2>1 DEF Good
    <2>3. Class(k, r)' = Class(k, r)
      BY <1>1, <2>1, ClassKept
    <2> QED
      BY <1>1, <2>2, <2>3 DEF Good
  <1>7. ASSUME mon'.pc = "tracks", NEW a \in Assets, touched'[AssetKey(a)] < Began'
        PROVE  mon'.assets[a] = ListAssetFreshnessSignals'[a]
    <2>1. AssetKey(a) \in Keys
      BY DEF Keys
    <2>2. touched[AssetKey(a)] < Began /\ SameRow(AssetKey(a))
      BY <1>1, <1>3, <1>7, <2>1
    <2> QED
      BY <1>7, <2>2 DEF TimeInv, SameRow
  <1>8. ASSUME mon'.pc = "report", NEW k \in Keys, touched'[k] < Began'
        PROVE  Good(k, previous[k], Began)'
    <2>1. Good(k, previous[k], Began) /\ SameRow(k)
      BY <1>1, <1>3, <1>8 DEF TimeInv
    <2>2. PICK r \in Began..now : previous[k] = Class(k, r)
      BY <2>1 DEF Good
    <2>3. Class(k, r)' = Class(k, r)
      BY <1>1, <2>1, ClassKept
    <2> QED
      BY <1>1, <2>2, <2>3 DEF Good
  <1> QED
    BY <1>5, <1>6, <1>7, <1>8 DEF TimeInv

\* Whoever changes a row touches it.
LEMMA ContactStepTime ==
  ASSUME IInv, TimeInv, Contact PROVE TimeInv'
  <1>1. TypeOK
    BY DEF IInv
  <1>2. CASE \E a \in Assets, s \in Statuses : CreateAsset(a, s) \/ UpdateStatus(a, s)
    <2>1. PICK a \in Assets, s \in Statuses : CreateAsset(a, s) \/ UpdateStatus(a, s)
      BY <1>2
    <2>2. /\ status' = [status EXCEPT ![a] = s] /\ Touch(AssetKey(a))
          /\ UNCHANGED <<now, setting, row, lastSeen, reported>>
      BY <2>1 DEF CreateAsset, UpdateStatus
    <2>3. ASSUME NEW k \in Keys PROVE touched'[k] = now \/ (touched'[k] = touched[k] /\ SameRow(k))
      BY <1>1, <2>2 DEF TypeOK, Touch, SameRow, ListAssetFreshnessSignals
    <2> QED
      BY <2>2, <2>3, ContactTime DEF reported
  <1>3. CASE \E a \in Assets, at \in Times, link \in Links : Report(a, at, link)
    <2>1. PICK a \in Assets, at \in Times, link \in Links : Report(a, at, link)
      BY <1>3
    <2>2. UNCHANGED <<now, setting, status, lastSeen, mon, previous, published>>
      BY <2>1 DEF Report
    <2>3. \/ row' = [row EXCEPT ![a] = [link |-> link, lastSeen |-> at]] /\ Touch(AssetKey(a))
          \/ UNCHANGED <<row, touched>>
      BY <2>1 DEF Report
    <2>4. ASSUME NEW k \in Keys PROVE touched'[k] = now \/ (touched'[k] = touched[k] /\ SameRow(k))
      <3>1. CASE k = AssetKey(a) /\ Touch(AssetKey(a))
        BY <1>1, <3>1 DEF TypeOK, Touch
      <3>2. CASE k # AssetKey(a) /\ row' = [row EXCEPT ![a] = [link |-> link, lastSeen |-> at]]
                 /\ Touch(AssetKey(a))
        <4>1. touched'[k] = touched[k]
          BY <1>1, <3>2 DEF TypeOK, Touch
        <4>2. \A b \in Assets : b # a => row'[b] = row[b]
          BY <1>1, <3>2 DEF TypeOK
        <4>3. \A b \in Assets : b # a =>
                ListAssetFreshnessSignals'[b] = ListAssetFreshnessSignals[b]
          BY <2>2, <4>2 DEF ListAssetFreshnessSignals
        <4> QED
          BY <2>2, <3>2, <4>1, <4>3 DEF SameRow
      <3>3. CASE UNCHANGED <<row, touched>>
        BY <2>2, <3>3 DEF SameRow, ListAssetFreshnessSignals
      <3> QED
        BY <2>3, <3>1, <3>2, <3>3
    <2> QED
      BY <2>2, <2>4, ContactTime
  <1>4. CASE \E t \in Tracks, at \in Times : OpenTrack(t, at) \/ Project(t, at)
    <2>1. PICK t \in Tracks, at \in Times : OpenTrack(t, at) \/ Project(t, at)
      BY <1>4
    <2>2. /\ lastSeen' = [lastSeen EXCEPT ![t] = at] /\ Touch(TrackKey(t))
          /\ UNCHANGED <<now, setting, status, row, reported>>
      BY <2>1 DEF OpenTrack, Project
    <2>3. ASSUME NEW k \in Keys PROVE touched'[k] = now \/ (touched'[k] = touched[k] /\ SameRow(k))
      BY <1>1, <2>2 DEF TypeOK, Touch, SameRow, ListAssetFreshnessSignals
    <2> QED
      BY <2>2, <2>3, ContactTime DEF reported
  <1>5. CASE RaiseAlert
    <2>1. UNCHANGED <<now, setting, status, row, lastSeen, reported, touched>>
      BY <1>5 DEF RaiseAlert
    <2>2. ASSUME NEW k \in Keys PROVE touched'[k] = touched[k] /\ SameRow(k)
      BY <2>1 DEF SameRow, ListAssetFreshnessSignals
    <2> QED
      BY <2>1, <2>2, ContactTime DEF reported
  <1> QED
    BY <1>2, <1>3, <1>4, <1>5 DEF Contact

\* The rows stay while the monitor works.
LEMMA RestFacts ==
  ASSUME UNCHANGED <<setting, contacts>>
  PROVE  /\ UNCHANGED <<policy, readers, Interval, ListAssetFreshnessSignals>>
         /\ \A k \in Keys : SameRow(k) /\ \A r : Class(k, r)' = Class(k, r)
  <1>1. UNCHANGED <<policy, readers, Interval, ListAssetFreshnessSignals, lastSeen>>
    BY DEF setting, contacts, Interval, ListAssetFreshnessSignals
  <1>2. \A k \in Keys : SameRow(k)
    BY <1>1 DEF SameRow
  <1> QED
    BY <1>1, <1>2, ClassKept

\* While the monitor waits, what was published is due one interval after its tick.
LEMMA HeldWaiting ==
  ASSUME mon'.pc = "waiting", UNCHANGED Interval, Interval \in Nat, mon'.due \in Nat,
         NEW n \in Nat, mon'.missed = n
  PROVE  Held' = mon'.due + Interval - Lag(n)
  <1> DEFINE lag == (3 + mon'.missed) * Interval'
  <1>1. Held' = (IF mon'.pc = "waiting" THEN mon'.due + Interval' ELSE mon'.due) - lag
    BY DEF Held, Lag
  <1>2. lag = (3 + n) * Interval
    OBVIOUS
  <1> HIDE DEF lag
  <1>3. lag = Lag(n)
    BY <1>2 DEF Lag
  <1>4. lag \in Nat
    BY <1>3, LagFacts
  <1>5. Held' = mon'.due + Interval - lag
    BY <1>1, <1>4
  <1> QED
    BY <1>3, <1>5

\* A reconciliation that begins makes no client wait for longer.
LEMMA BeginReconcileTime ==
  ASSUME IInv, TimeInv, "monitor" \in readers, BeginReconcile PROVE TimeInv'
  <1>1. /\ mon.pc = "waiting" /\ mon.due = now
        /\ mon' = [mon EXCEPT !.pc = "tracks", !.due = now + Interval, !.assets = ListAssetFreshnessSignals]
        /\ UNCHANGED <<now, setting, contacts, previous, published, touched>>
    BY DEF BeginReconcile
  <1>2. /\ mon'.pc = "tracks" /\ mon'.due = now + Interval /\ mon'.missed = mon.missed
        /\ mon'.ticking = mon.ticking /\ mon'.assets = ListAssetFreshnessSignals
    BY <1>1 DEF IInv, TypeOK
  <1>3. UNCHANGED <<policy, readers, Interval, ListAssetFreshnessSignals>>
    BY <1>1, RestFacts
  <1>4. Began' = now /\ Held' = Held
    BY <1>1, <1>2, <1>3, TimeTypes DEF Began, Held, Lag
  <1>5. Punctual'
    BY <1>1, <1>2, <1>4, TimeTypes DEF TimeInv, Punctual
  <1>6. ASSUME NEW k \in Keys, touched'[k] < Held' PROVE Good(k, published[k], Held)'
    <2>1. PICK r \in Held..now : published[k] = Class(k, r)
      BY <1>1, <1>4, <1>6 DEF TimeInv, Good
    <2>2. Class(k, r)' = Class(k, r)
      BY <1>1, RestFacts
    <2> QED
      BY <1>1, <1>4, <2>1, <2>2 DEF Good
  <1>7. \A a \in Assets : mon'.assets[a] = ListAssetFreshnessSignals'[a]
    BY <1>2, <1>3
  <1> QED
    BY <1>2, <1>5, <1>6, <1>7 DEF TimeInv

\* A read that fails costs one interval, and the first one nothing.
LEMMA ReadFailsTime ==
  ASSUME IInv, TimeInv, "monitor" \in readers, ReadFails PROVE TimeInv'
  <1>1. /\ UNCHANGED <<now, setting, contacts, previous, published, touched>>
        /\ Punctual
    BY DEF ReadFails, TimeInv
  <1>2. UNCHANGED <<policy, readers, Interval, ListAssetFreshnessSignals>>
    BY <1>1, RestFacts
  <1>3. /\ mon'.pc = "waiting" /\ mon'.ticking = TRUE /\ mon'.missed = mon.missed + 1
        /\ \/ mon.pc = "tracks" /\ mon'.due = IF mon.ticking THEN mon.due ELSE now + Interval
           \/ mon.pc = "waiting" /\ mon.due = now /\ mon'.due = now + Interval
    <2>1. CASE mon.pc = "tracks" /\ mon' = Ended(mon, mon.missed + 1)
      BY <2>1 DEF Ended
    <2>2. CASE mon.pc = "waiting" /\ mon.due = now
               /\ mon' = Ended([mon EXCEPT !.due = now + Interval], mon.missed + 1)
      <3>1. [mon EXCEPT !.due = now + Interval].due = now + Interval
        BY DEF IInv, TypeOK
      <3> QED
        BY <2>2, <3>1 DEF Ended
    <2> QED
      BY <2>1, <2>2 DEF ReadFails
  <1>4. Held' = mon'.due + Interval - (Lag(mon.missed) + Interval)
    <2>1. Held' = mon'.due + Interval - Lag(mon.missed + 1)
      BY <1>2, <1>3, TimeTypes, HeldWaiting
    <2>2. Lag(mon.missed + 1) = Lag(mon.missed) + Interval
      BY TimeTypes, LagFacts
    <2> QED
      BY <2>1, <2>2
  <1>5. CASE mon.ticking
    <2>1. Held' = Held
      BY <1>3, <1>4, <1>5, TimeTypes
    <2>2. Punctual'
      BY <1>1, <1>2, <1>3, <1>5, TimeTypes DEF Punctual, Began
    <2>3. ASSUME NEW k \in Keys, touched'[k] < Held' PROVE Good(k, published[k], Held)'
      <3>1. PICK r \in Held..now : published[k] = Class(k, r)
        BY <1>1, <2>1, <2>3 DEF TimeInv, Good
      <3>2. Class(k, r)' = Class(k, r)
        BY <1>1, RestFacts
      <3> QED
        BY <1>1, <2>1, <3>1, <3>2 DEF Good
    <2> QED
      BY <1>3, <2>2, <2>3 DEF TimeInv
  <1>6. CASE ~mon.ticking
    <2>1. mon'.due = now + Interval
      BY <1>3, <1>6
    <2>2. Punctual'
      BY <1>1, <1>2, <1>3, <2>1, TimeTypes DEF Punctual, Began
    <2>3. ASSUME NEW k \in Keys PROVE ~(touched'[k] < Held')
      <3>1. touched[k] >= IF mon.pc = "waiting" THEN mon.due ELSE mon.due - Interval
        BY <1>1, <1>6 DEF Punctual, Began
      <3>2. now <= mon.due
        BY <1>1 DEF Punctual
      <3>3. touched'[k] = touched[k]
        BY <1>1
      <3> QED
        BY <1>4, <2>1, <3>1, <3>2, <3>3, TimeTypes
    <2> QED
      BY <1>3, <2>2, <2>3 DEF TimeInv
  <1> QED
    BY <1>5, <1>6

\* A reconciliation that ends with every contact known corrects what was published.
LEMMA EndedTime ==
  ASSUME IInv, TimeInv, "monitor" \in readers, UNCHANGED <<now, setting, contacts, touched>>,
         mon.pc # "waiting", mon' = Ended(mon, 0),
         \A k \in Keys : touched[k] < Began => Good(k, published'[k], Began)
  PROVE  TimeInv'
  <1>1. /\ mon'.pc = "waiting" /\ mon'.ticking = TRUE /\ mon'.missed = 0
        /\ mon'.due = IF mon.ticking THEN mon.due ELSE now + Interval
    BY DEF Ended
  <1>2. UNCHANGED <<policy, readers, Interval>> /\ Punctual
    BY RestFacts DEF TimeInv
  <1>3. Held' = mon'.due + Interval - 3 * Interval
    <2>1. Held' = mon'.due + Interval - Lag(0)
      BY <1>1, <1>2, TimeTypes, HeldWaiting
    <2>2. Lag(0) = 3 * Interval
      BY TimeTypes, LagFacts
    <2> QED
      BY <2>1, <2>2
  <1>4. Held' \in Int /\ Held' <= Began
    BY <1>1, <1>2, <1>3, TimeTypes DEF Punctual, Began
  <1>5. Punctual'
    BY <1>1, <1>2, TimeTypes DEF Punctual, Began
  <1>6. ASSUME NEW k \in Keys, touched'[k] < Held' PROVE Good(k, published[k], Held)'
    <2>1. touched[k] < Began
      BY <1>4, <1>6, TimeTypes
    <2>2. PICK r \in Began..now : published'[k] = Class(k, r)
      BY <2>1 DEF Good
    <2>3. Class(k, r)' = Class(k, r)
      BY RestFacts
    <2>4. r \in Held'..now'
      BY <1>4, TimeTypes
    <2> QED
      BY <2>2, <2>3, <2>4 DEF Good
  <1> QED
    BY <1>1, <1>5, <1>6 DEF TimeInv

\* What the monitor remembers of a contact that was left alone since it read the assets
\* is what the contact is.
LEMMA ReplaceGood ==
  ASSUME IInv, TimeInv, "monitor" \in readers, Replace, NEW k \in Keys, touched[k] < Began
  PROVE  Good(k, previous'[k], Began)
  <1>1. previous' = Classify(mon.assets, ListTrackFreshnessSignals, now) /\ mon.pc = "tracks"
    BY DEF Replace
  <1>2. now \in Began..now
    BY TimeTypes DEF TimeInv, Punctual
  <1>3. \A a \in Assets : k = AssetKey(a) => mon.assets[a] = ListAssetFreshnessSignals[a]
    BY <1>1 DEF TimeInv
  <1>4. previous'[k] = Class(k, now)
    <2>1. CASE \E a \in Assets : k = AssetKey(a) /\ k.id = a
      <3>1. mon.assets[k.id] = ListAssetFreshnessSignals[k.id]
        BY <1>3, <2>1
      <3> QED
        BY <1>1, <2>1, <3>1 DEF Class, Classify
    <2>2. CASE \A a \in Assets : k # AssetKey(a)
      BY <1>1, <2>2 DEF Class, Classify
    <2> QED
      BY <2>1, <2>2, KeyCases
  <1> QED
    BY <1>2, <1>4 DEF Good

\* The map is replaced; when nothing changed, what was published is what it holds.
LEMMA ReplaceTime ==
  ASSUME IInv, TimeInv, "monitor" \in readers, Replace PROVE TimeInv'
  <1> DEFINE current == Classify(mon.assets, ListTrackFreshnessSignals, now)
             changed == Transitions(current)
  <1>1. /\ mon.pc = "tracks" /\ previous' = current
        /\ UNCHANGED <<now, setting, contacts, published, touched>>
        /\ mon' = IF changed = {} THEN Ended(mon, 0)
                  ELSE [mon EXCEPT !.pc = "report", !.assets = NoReads, !.pending = changed]
    BY DEF Replace
  <1>2. \A k \in Keys : touched[k] < Began => Good(k, previous'[k], Began)
    BY ReplaceGood
  <1>3. CASE changed = {}
    <2>1. \A k \in Keys : current[k] = previous[k]
      BY <1>3 DEF Transitions
    <2>2. \A k \in Keys : published'[k] = previous[k]
      BY <1>1 DEF IInv, MonitorInv, Reported
    <2>3. \A k \in Keys : touched[k] < Began => Good(k, published'[k], Began)
      BY <1>1, <1>2, <2>1, <2>2
    <2> QED
      BY <1>1, <1>3, <2>3, EndedTime
  <1>4. CASE changed # {}
    <2>1. /\ mon'.pc = "report" /\ mon'.due = mon.due /\ mon'.ticking = mon.ticking
          /\ mon'.missed = mon.missed
      BY <1>1, <1>4 DEF IInv, TypeOK
    <2>2. UNCHANGED <<policy, readers, Interval, Began, Held>>
      BY <1>1, <2>1, RestFacts DEF Began, Held, Lag
    <2>3. Punctual'
      BY <1>1, <2>1, <2>2 DEF TimeInv, Punctual
    <2>4. ASSUME NEW k \in Keys, touched'[k] < Held' PROVE Good(k, published[k], Held)'
      <3>1. PICK r \in Held..now : published[k] = Class(k, r)
        BY <1>1, <2>2, <2>4 DEF TimeInv, Good
      <3>2. Class(k, r)' = Class(k, r)
        BY <1>1, RestFacts
      <3> QED
        BY <1>1, <2>2, <3>1, <3>2 DEF Good
    <2>5. ASSUME NEW k \in Keys, touched'[k] < Began' PROVE Good(k, previous[k], Began)'
      <3>1. PICK r \in Began..now : previous'[k] = Class(k, r)
        BY <1>1, <1>2, <2>2, <2>5 DEF Good
      <3>2. Class(k, r)' = Class(k, r)
        BY <1>1, RestFacts
      <3> QED
        BY <1>1, <2>2, <3>1, <3>2 DEF Good
    <2> QED
      BY <2>1, <2>3, <2>4, <2>5 DEF TimeInv
  <1> QED
    BY <1>3, <1>4

\* A contact is reported as it is remembered.
LEMMA ReportOneTime ==
  ASSUME IInv, TimeInv, "monitor" \in readers, NEW k \in Keys, ReportOne(k) PROVE TimeInv'
  <1>1. /\ mon.pc = "report" /\ k \in mon.pending
        /\ published' = [published EXCEPT ![k] = StateOf(k)]
        /\ UNCHANGED <<now, setting, contacts, previous, touched>>
        /\ mon' = IF mon.pending = {k} THEN Ended(mon, 0) ELSE [mon EXCEPT !.pending = @ \ {k}]
    BY DEF ReportOne
  <1>2. StateOf(k) = previous[k]
    BY <1>1 DEF IInv, MonitorInv, StateOf
  <1>3. published'[k] = previous[k] /\ \A j \in Keys : j # k => published'[j] = published[j]
    BY <1>1, <1>2 DEF IInv, TypeOK
  <1>4. \A j \in Keys : touched[j] < Began => Good(j, previous[j], Began)
    BY <1>1 DEF TimeInv
  <1>5. CASE mon.pending = {k}
    <2>1. \A j \in Keys : j # k => published[j] = previous[j]
      BY <1>5 DEF IInv, Reported
    <2>2. \A j \in Keys : published'[j] = previous[j]
      BY <1>3, <2>1
    <2>3. \A j \in Keys : touched[j] < Began => Good(j, published'[j], Began)
      BY <1>4, <2>2
    <2> QED
      BY <1>1, <1>5, <2>3, EndedTime
  <1>6. CASE mon.pending # {k}
    <2>1. /\ mon'.pc = "report" /\ mon'.due = mon.due /\ mon'.ticking = mon.ticking
          /\ mon'.missed = mon.missed
      BY <1>1, <1>6 DEF IInv, TypeOK
    <2>2. UNCHANGED <<policy, readers, Interval, Began, Held>>
      BY <1>1, <2>1, RestFacts DEF Began, Held, Lag
    <2>3. Punctual'
      BY <1>1, <2>1, <2>2 DEF TimeInv, Punctual
    <2>4. ASSUME NEW j \in Keys, touched'[j] < Held' PROVE Good(j, published[j], Held)'
      <3>1. \E r \in Held..now : published'[j] = Class(j, r)
        <4>1. CASE j = k
          <5>1. touched[j] < Began
            BY <1>1, <2>2, <2>4, TimeTypes
          <5>2. PICK r \in Began..now : previous[j] = Class(j, r)
            BY <1>4, <5>1 DEF Good
          <5>3. r \in Held..now
            BY TimeTypes
          <5> QED
            BY <1>3, <4>1, <5>2, <5>3
        <4>2. CASE j # k
          BY <1>1, <1>3, <2>2, <2>4, <4>2 DEF TimeInv, Good
        <4> QED
          BY <4>1, <4>2
      <3>2. PICK r \in Held..now : published'[j] = Class(j, r)
        BY <3>1
      <3>3. Class(j, r)' = Class(j, r)
        BY <1>1, RestFacts
      <3> QED
        BY <1>1, <2>2, <3>2, <3>3 DEF Good
    <2>5. ASSUME NEW j \in Keys, touched'[j] < Began' PROVE Good(j, previous[j], Began)'
      <3>1. PICK r \in Began..now : previous[j] = Class(j, r)
        BY <1>1, <1>4, <2>2, <2>5 DEF Good
      <3>2. Class(j, r)' = Class(j, r)
        BY <1>1, RestFacts
      <3> QED
        BY <1>1, <2>2, <3>1, <3>2 DEF Good
    <2> QED
      BY <2>1, <2>3, <2>4, <2>5 DEF TimeInv
  <1> QED
    BY <1>5, <1>6

\* A new process has promised nothing yet.
LEMMA RestartTime ==
  ASSUME IInv, "monitor" \in readers, Restart PROVE TimeInv'
  <1>1. /\ mon' = Started(now) /\ touched' = [k \in Keys |-> now]
        /\ UNCHANGED <<now, setting, contacts>>
    BY DEF Restart
  <1>2. /\ mon'.pc = "waiting" /\ mon'.due = now /\ mon'.ticking = FALSE /\ mon'.missed = 0
        /\ \A k \in Keys : touched'[k] = now
    BY <1>1 DEF Started
  <1>3. UNCHANGED Interval
    BY <1>1, RestFacts
  <1>4. Held' = now + Interval - 3 * Interval /\ Began' = now - Interval
    <2>1. Held' = now + Interval - Lag(0)
      BY <1>1, <1>2, <1>3, TimeTypes, HeldWaiting
    <2>2. Lag(0) = 3 * Interval
      BY TimeTypes, LagFacts
    <2> QED
      BY <1>2, <1>3, <2>1, <2>2 DEF Began
  <1>5. Punctual'
    BY <1>1, <1>2, <1>4, TimeTypes DEF Punctual
  <1>6. \A k \in Keys : ~(touched'[k] < Held')
    BY <1>2, <1>4, TimeTypes
  <1> QED
    BY <1>2, <1>5, <1>6 DEF TimeInv

\* Time passes only while the monitor is in time.
LEMMA TickTime ==
  ASSUME IInv, TimeInv, Tick PROVE TimeInv'
  <1> SUFFICES ASSUME "monitor" \in readers PROVE TimeInv'
    BY DEF TimeInv, Tick, setting
  <1>1. /\ now' = now + 1 /\ now < mon.due /\ Punctual
        /\ UNCHANGED <<setting, contacts, mon, previous, published, touched>>
    BY DEF Tick, reported, TimeInv
  <1>2. UNCHANGED <<policy, readers, Interval, Began, Held, ListAssetFreshnessSignals>>
    BY <1>1, RestFacts DEF Began, Held, Lag
  <1>3. Punctual'
    BY <1>1, <1>2, TimeTypes DEF Punctual
  <1>4. ASSUME NEW k \in Keys, touched'[k] < Held' PROVE Good(k, published[k], Held)'
    <2>1. PICK r \in Held..now : published[k] = Class(k, r)
      BY <1>1, <1>2, <1>4 DEF TimeInv, Good
    <2>2. Class(k, r)' = Class(k, r)
      BY <1>1, RestFacts
    <2>3. r \in Held'..now'
      BY <1>1, <1>2, TimeTypes
    <2> QED
      BY <1>1, <2>1, <2>2, <2>3 DEF Good
  <1>5. ASSUME mon'.pc = "report", NEW k \in Keys, touched'[k] < Began'
        PROVE  Good(k, previous[k], Began)'
    <2>1. PICK r \in Began..now : previous[k] = Class(k, r)
      BY <1>1, <1>2, <1>5 DEF TimeInv, Good
    <2>2. Class(k, r)' = Class(k, r)
      BY <1>1, RestFacts
    <2>3. r \in Began'..now'
      BY <1>1, <1>2, TimeTypes
    <2> QED
      BY <1>1, <2>1, <2>2, <2>3 DEF Good
  <1>6. ASSUME mon'.pc = "tracks", NEW a \in Assets, touched'[AssetKey(a)] < Began'
        PROVE  mon'.assets[a] = ListAssetFreshnessSignals'[a]
    BY <1>1, <1>2, <1>6 DEF TimeInv
  <1> QED
    BY <1>3, <1>4, <1>5, <1>6 DEF TimeInv

\* The monitor waits for nothing when the process starts.
LEMMA TimeInit == ASSUME Init PROVE TimeInv
  <1>1. IInv
    BY InvInit
  <1>2. /\ mon.pc = "waiting" /\ mon.due = 0 /\ mon.ticking = FALSE /\ mon.missed = 0 /\ now = 0
        /\ \A k \in Keys : touched[k] = 0
    BY DEF Init, Started
  <1>3. Held = 0 + Interval - Lag(0) /\ Lag(0) = 3 * Interval /\ Interval \in Nat
    BY <1>1, <1>2, TimeTypes, LagFacts DEF Held
  <1>4. Punctual
    BY <1>1, <1>2, TimeTypes DEF Punctual, Began
  <1>5. \A k \in Keys : ~(touched[k] < Held)
    BY <1>2, <1>3
  <1> QED
    BY <1>2, <1>4, <1>5 DEF TimeInv

\* No step makes the clients wait for longer.
LEMMA TimeStep == ASSUME IInv, TimeInv, [Next]_vars PROVE TimeInv'
  <1>1. CASE Contact
    BY <1>1, ContactStepTime
  <1>2. CASE Monitor
    BY <1>2, BeginReconcileTime, ReplaceTime, ReportOneTime, ReadFailsTime, RestartTime DEF Monitor
  <1>3. CASE Replay \/ UNCHANGED vars
    <2>1. UNCHANGED <<now, setting, contacts, reported, touched>>
      BY <1>3 DEF Replay, Window, SnapshotTracks, SnapshotAssets, SnapshotAlerts, Leave, vars
    <2>2. \A k \in Keys : touched'[k] = touched[k] /\ SameRow(k)
      BY <2>1, RestFacts
    <2> QED
      BY <2>1, <2>2, ContactTime DEF reported
  <1>4. CASE Tick
    BY <1>4, TickTime
  <1> QED
    BY <1>1, <1>2, <1>3, <1>4 DEF Next

\* app.go:229-232: a contact left alone for three intervals of the monitor, and one for
\* each tick that failed in a row, is known by a state it was in during that time: for
\* every policy, every number of contacts, and however many reads failed.
THEOREM PublicationInTime == Spec => []PublishedInTime
  <1>1. ASSUME IInv, TimeInv PROVE PublishedInTime
    <2> DEFINE lag == Lag(mon.missed)
    <2> SUFFICES ASSUME "monitor" \in readers, NEW k \in Keys, now - touched[k] > lag
                 PROVE  \E u \in (now - lag)..now : published[k] = Class(k, u)
      BY DEF PublishedInTime, Lag, Class
    <2>1. Punctual
      BY <1>1 DEF TimeInv
    <2>2. lag \in Nat
      BY <1>1, TimeTypes
    <2>3. now - lag <= Held
      BY <1>1, <2>1, TimeTypes DEF Punctual
    <2> HIDE DEF lag
    <2>4. touched[k] < Held
      BY <1>1, <2>2, <2>3, TimeTypes
    <2>5. PICK r \in Held..now : published[k] = Class(k, r)
      BY <1>1, <2>4 DEF TimeInv, Good
    <2>6. r \in (now - lag)..now
      BY <1>1, <2>2, <2>3, TimeTypes
    <2> QED
      BY <2>5, <2>6
  <1>2. Init => TimeInv
    BY TimeInit
  <1>3. IInv /\ TimeInv /\ [Next]_vars => TimeInv'
    BY TimeStep
  <1> QED
    BY <1>1, <1>2, <1>3, Invariance, PTL DEF Spec
=============================================================================
