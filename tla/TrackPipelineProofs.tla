------------------------ MODULE TrackPipelineProofs ------------------------
(***************************************************************************)
(* Proofs about TrackPipeline, for every set of observations, tracks and   *)
(* requests, every retry budget and any number of faults.                  *)
(***************************************************************************)
EXTENDS TrackPipeline, TLAPS

-----------------------------------------------------------------------------
(* Moves of a request                                                      *)

LEMMA IdleType == Idle \in Request
  BY BoundAssumption DEF Idle, Request, PCs

\* A move rewrites the record of one request and leaves the others alone.
Moved(r, l, t, w) ==
  /\ req' \in [Requests -> Request]
  /\ \A s \in Requests : s # r => req'[s] = req[s]
  /\ req'[r].pc = l
  /\ req'[r].obs = req[r].obs
  /\ req'[r].retry = req[r].retry
  /\ req'[r].trk = t
  /\ req'[r].expected = w
  /\ req'[r].attempt = req[r].attempt
  /\ req'[r].hadState = req[r].hadState

Ended(r) ==
  /\ req' \in [Requests -> Request]
  /\ \A s \in Requests : s # r => req'[s] = req[s]
  /\ req'[r] = Idle

LEMMA WithTrackMove ==
  ASSUME TypeOK, NEW r \in Requests, NEW t \in Tracks, NEW w \in Nat,
         NEW label \in PCs, WithTrack(r, t, w, label)
  PROVE  Moved(r, label, t, w)
  BY DEF TypeOK, WithTrack, Request, Moved

LEMMA GotoMove ==
  ASSUME TypeOK, NEW r \in Requests, NEW label \in PCs, Goto(r, label)
  PROVE  Moved(r, label, req[r].trk, req[r].expected)
  BY DEF TypeOK, Goto, Request, Moved

LEMMA ReturnMove ==
  ASSUME TypeOK, NEW r \in Requests, Return(r)
  PROVE  Ended(r)
  BY IdleType DEF TypeOK, Return, Ended

LEMMA LabelType ==
  ASSUME NEW o \in Obs, NEW w \in Nat
  PROVE  /\ Correlate(o) \in {"create", "findRef"}
         /\ LoopHead(o, w) \in {"mark", "apply"}
  BY DEF Correlate, LoopHead

\* A track row is inserted with a time and for an observation.
LEMMA InsertTrackType ==
  ASSUME TypeOK, NEW t \in Tracks, NEW o \in Obs, InsertTrack(t, o)
  PROVE  /\ initial' \in [Tracks -> Obs \cup {NoObs}]
         /\ lastSeen' \in [Tracks -> Nat]
         /\ UNCHANGED <<status, owner, projections>>
  BY DataAssumption DEF TypeOK, InsertTrack

-----------------------------------------------------------------------------
(* Types                                                                   *)

LEMMA TypeInit == Init => TypeOK
  <1> SUFFICES ASSUME Init PROVE TypeOK
    OBVIOUS
  <1>1. projections \in [Tracks -> Seq(Obs)]
    BY DEF Init
  <1>2. faults \in 0..MaxFaults
    BY BoundAssumption DEF Init
  <1> QED
    BY <1>1, <1>2, IdleType, DataAssumption DEF Init, TypeOK

-----------------------------------------------------------------------------
(* The five effects on the rows: each keeps what the rows promise, and only *)
(* adds to them.                                                            *)

RowTypes ==
  /\ status \in [Obs -> {"absent", "stored", "processed"}]
  /\ owner \in [Obs -> Tracks \cup {NoTrack}]
  /\ initial \in [Tracks -> Obs \cup {NoObs}]
  /\ lastSeen \in [Tracks -> Nat]
  /\ projections \in [Tracks -> Seq(Obs)]

RowsInv ==
  /\ RowTypes
  /\ RowInv
  /\ EvidenceBelongs
  /\ ProcessedIsAttached
  /\ WatermarkIsEvidence
  /\ ProjectionIsAttached
  /\ LossNeedsContention

RowsGrow ==
  /\ \A o \in Obs : status[o] # "absent" => status'[o] # "absent"
  /\ \A o \in Obs : status[o] = "processed" => status'[o] = "processed"
  /\ \A o \in Obs : owner[o] # NoTrack => owner'[o] = owner[o]
  /\ \A t \in Tracks : Exists(t) =>
       /\ initial'[t] = initial[t]
       /\ lastSeen[t] <= lastSeen'[t]
       /\ Len(projections[t]) <= Len(projections'[t])
       /\ lastSeen[t] < lastSeen'[t] => Len(projections[t]) + 1 <= Len(projections'[t])
       /\ \A i \in 1..Len(projections[t]) : projections'[t][i] = projections[t][i]

\* Two tracks an observation belongs to are one, by the unique indexes.
LEMMA BelongsUnique ==
  ASSUME RowTypes, RowInv, NEW o \in Obs, NEW t \in Tracks, NEW u \in Tracks,
         Belongs(o, t), Belongs(o, u)
  PROVE  t = u
  BY DataAssumption DEF RowTypes, RowInv, Belongs, Exists, Ref

\* The track an observation opened, and the one it is attached to, is the one
\* it belongs to.
LEMMA FoundBelongs ==
  ASSUME RowsInv, NEW o \in Obs, NEW t \in TracksByObservation(o)
  PROVE  t \in Tracks /\ Belongs(o, t)
  BY DataAssumption DEF RowsInv, RowTypes, EvidenceBelongs, TracksByObservation, Belongs, Exists, Ref

LEMMA RefBelongs ==
  ASSUME NEW o \in Obs, NEW t \in TracksByRef(o)
  PROVE  t \in Tracks /\ Belongs(o, t)
  BY DEF TracksByRef, Belongs

LEMMA SameRows ==
  ASSUME RowsInv, UNCHANGED rows
  PROVE  RowsInv' /\ RowsGrow
  <1>1. RowsInv'
    BY DEF RowsInv, rows, RowTypes, RowInv, EvidenceBelongs, ProcessedIsAttached,
           WatermarkIsEvidence, ProjectionIsAttached, LossNeedsContention, Belongs,
           Exists, Ref
  <1>2. RowsGrow
    BY DEF RowsInv, RowTypes, rows, RowsGrow
  <1> QED
    BY <1>1, <1>2

LEMMA StoreRows ==
  ASSUME RowsInv, NEW o \in Obs, status[o] = "absent", StoreRow(o),
         UNCHANGED <<owner, initial, lastSeen, projections>>
  PROVE  RowsInv' /\ RowsGrow /\ status'[o] = "stored"
  <1>1. /\ status' \in [Obs -> {"absent", "stored", "processed"}]
        /\ status'[o] = "stored"
        /\ \A p \in Obs : p # o => status'[p] = status[p]
    BY DEF RowsInv, RowTypes, StoreRow
  <1>2. owner[o] = NoTrack
    BY DEF RowsInv, RowInv
  <1>3. RowTypes' /\ RowInv' /\ EvidenceBelongs' /\ ProcessedIsAttached'
    BY <1>1, <1>2 DEF RowsInv, RowTypes, RowInv, EvidenceBelongs, ProcessedIsAttached,
                      Belongs, Exists, Ref
  <1>4. WatermarkIsEvidence' /\ LossNeedsContention'
    BY <1>1, <1>2 DEF RowsInv, RowTypes, WatermarkIsEvidence, LossNeedsContention, Exists
  <1>5. ProjectionIsAttached'
    BY <1>1, <1>2 DEF RowsInv, RowTypes, ProjectionIsAttached
  <1>6. RowsGrow
    BY <1>1 DEF RowsInv, RowTypes, RowsGrow
  <1> QED
    BY <1>1, <1>3, <1>4, <1>5, <1>6 DEF RowsInv

LEMMA InsertRows ==
  ASSUME RowsInv, NEW o \in Obs, status[o] # "absent", NEW t \in Tracks,
         InsertTrack(t, o)
  PROVE  RowsInv' /\ RowsGrow /\ Belongs(o, t)' /\ lastSeen'[t] = ObservedAt[o]
  <1>1. /\ initial' \in [Tracks -> Obs \cup {NoObs}]
        /\ initial'[t] = o
        /\ lastSeen' \in [Tracks -> Nat]
        /\ lastSeen'[t] = ObservedAt[o]
        /\ \A u \in Tracks : u # t => initial'[u] = initial[u] /\ lastSeen'[u] = lastSeen[u]
        /\ UNCHANGED <<status, owner, projections>>
        /\ initial[t] = NoObs
    BY DataAssumption DEF RowsInv, RowTypes, InsertTrack, Exists
  <1>2. /\ \A u \in Tracks : initial[u] # o
        /\ \A u \in Tracks : Exists(u) /\ TrackHint[o] # NoHint => Ref(u) # TrackHint[o]
    BY DEF InsertTrack, InitialTaken, RefTaken, TracksByRef
  <1>3. Belongs(o, t)'
    BY <1>1, DataAssumption DEF Belongs, Exists, Ref
  <1>4. RowTypes' /\ RowInv'
    <2>1. RowTypes'
      BY <1>1 DEF RowsInv, RowTypes
    <2>2. ASSUME NEW u \in Tracks, NEW v \in Tracks, Exists(u)', (initial[u] = initial[v])'
          PROVE  u = v
      BY <1>1, <1>2, <2>2 DEF RowsInv, RowInv, Exists
    <2>3. ASSUME NEW u \in Tracks, NEW v \in Tracks, Exists(u)', Exists(v)',
                 (Ref(u) # NoHint)', (Ref(u) = Ref(v))'
          PROVE  u = v
      BY <1>1, <1>2, <2>3 DEF RowsInv, RowInv, Exists, Ref
    <2>4. \A u \in Tracks : Exists(u)' => (status[initial[u]] # "absent")'
      BY <1>1 DEF RowsInv, RowInv, Exists
    <2> QED
      BY <1>1, <2>1, <2>2, <2>3, <2>4 DEF RowsInv, RowInv, Exists
  <1>5. EvidenceBelongs' /\ ProcessedIsAttached'
    BY <1>1 DEF RowsInv, RowTypes, EvidenceBelongs, ProcessedIsAttached, Belongs, Exists, Ref
  <1>6. projections[t] = <<>>
    BY <1>1 DEF RowsInv, RowInv, Exists
  <1>7. WatermarkIsEvidence'
    <2> SUFFICES ASSUME NEW u \in Tracks, Exists(u)'
                 PROVE  LET p == projections[u] IN
                        (/\ lastSeen[u] = IF p = <<>> THEN ObservedAt[initial[u]]
                                                     ELSE ObservedAt[p[Len(p)]]
                         /\ ObservedAt[initial[u]] <= lastSeen[u]
                         /\ \A i, j \in 1..Len(p) :
                              i <= j => ObservedAt[p[i]] <= ObservedAt[p[j]])'
      BY DEF WatermarkIsEvidence
    <2>1. CASE u = t
      BY <1>1, <1>6, <2>1, DataAssumption
    <2>2. CASE u # t
      BY <1>1, <2>2 DEF RowsInv, WatermarkIsEvidence, Exists
    <2> QED
      BY <2>1, <2>2
  <1>8. ProjectionIsAttached'
    BY <1>1 DEF RowsInv, ProjectionIsAttached
  <1>9. \A p \in Obs : owner[p] # t
    BY <1>1, DataAssumption DEF RowsInv, EvidenceBelongs, Belongs, Exists
  <1>10. LossNeedsContention'
    BY <1>1, <1>9 DEF RowsInv, RowTypes, LossNeedsContention, ProcessedIsAttached
  <1>11. RowsGrow
    BY <1>1 DEF RowsInv, RowTypes, RowsGrow, Exists
  <1> QED
    BY <1>1, <1>3, <1>4, <1>5, <1>7, <1>8, <1>10, <1>11 DEF RowsInv

LEMMA AttachRows ==
  ASSUME RowsInv, NEW o \in Obs, NEW t \in Tracks, status[o] # "absent",
         Belongs(o, t), owner[o] = NoTrack,
         owner' = [owner EXCEPT ![o] = t],
         UNCHANGED <<status, initial, lastSeen, projections>>
  PROVE  RowsInv' /\ RowsGrow /\ owner'[o] = t
  <1>1. /\ owner' \in [Obs -> Tracks \cup {NoTrack}]
        /\ owner'[o] = t
        /\ \A p \in Obs : p # o => owner'[p] = owner[p]
    BY DEF RowsInv, RowTypes
  <1>2. RowTypes' /\ RowInv'
    BY <1>1 DEF RowsInv, RowTypes, RowInv, Exists, Ref
  <1>3. EvidenceBelongs'
    BY <1>1 DEF RowsInv, EvidenceBelongs, Belongs, Exists, Ref
  <1>4. ProcessedIsAttached' /\ LossNeedsContention'
    BY <1>1, DataAssumption DEF RowsInv, ProcessedIsAttached, LossNeedsContention
  <1>5. WatermarkIsEvidence'
    BY DEF RowsInv, WatermarkIsEvidence, Exists
  <1>6. ProjectionIsAttached'
    <2> SUFFICES ASSUME NEW u \in Tracks, NEW i \in 1..Len(projections[u])
                 PROVE  /\ owner'[projections[u][i]] = u
                        /\ status[projections[u][i]] = "processed"
      BY DEF ProjectionIsAttached
    <2>1. projections[u][i] \in Obs
      BY DEF RowsInv, RowTypes
    <2>2. owner[projections[u][i]] = u /\ status[projections[u][i]] = "processed"
      BY DEF RowsInv, ProjectionIsAttached
    <2> QED
      BY <1>1, <2>1, <2>2, DataAssumption
  <1>7. RowsGrow
    BY <1>1 DEF RowsInv, RowTypes, RowsGrow
  <1> QED
    BY <1>1, <1>2, <1>3, <1>4, <1>5, <1>6, <1>7 DEF RowsInv

LEMMA MarkRows ==
  ASSUME RowsInv, NEW o \in Obs, NEW t \in Tracks, owner[o] = t,
         \/ ObservedAt[o] <= lastSeen[t]
         \/ Len(projections[t]) >= MaxAttempts,
         status' = [status EXCEPT ![o] = "processed"],
         UNCHANGED <<owner, initial, lastSeen, projections>>
  PROVE  RowsInv' /\ RowsGrow
  <1>1. /\ status' \in [Obs -> {"absent", "stored", "processed"}]
        /\ status'[o] = "processed"
        /\ \A p \in Obs : p # o => status'[p] = status[p]
    BY DEF RowsInv, RowTypes
  <1>2. RowTypes' /\ RowInv'
    BY <1>1 DEF RowsInv, RowTypes, RowInv, Exists, Ref
  <1>3. EvidenceBelongs' /\ WatermarkIsEvidence'
    BY DEF RowsInv, EvidenceBelongs, WatermarkIsEvidence, Belongs, Exists, Ref
  <1>4. ProcessedIsAttached'
    BY <1>1, DataAssumption DEF RowsInv, ProcessedIsAttached
  <1>5. LossNeedsContention'
    BY <1>1, DataAssumption DEF RowsInv, RowTypes, LossNeedsContention
  <1>6. ProjectionIsAttached'
    BY <1>1 DEF RowsInv, RowTypes, ProjectionIsAttached
  <1>7. RowsGrow
    BY <1>1 DEF RowsInv, RowTypes, RowsGrow
  <1> QED
    BY <1>2, <1>3, <1>4, <1>5, <1>6, <1>7 DEF RowsInv

LEMMA CommitRows ==
  ASSUME RowsInv, NEW o \in Obs, NEW t \in Tracks, owner[o] = t,
         lastSeen[t] <= ObservedAt[o], Commit(o, t), UNCHANGED <<owner, initial>>
  PROVE  /\ RowsInv'
         /\ RowsGrow
         /\ status'[o] = "processed"
         /\ projections'[t][Len(projections'[t])] = o
         /\ Len(projections'[t]) \in Nat \ {0}
  <1> DEFINE p == projections[t]
  <1>1. /\ status' \in [Obs -> {"absent", "stored", "processed"}]
        /\ status'[o] = "processed"
        /\ \A q \in Obs : q # o => status'[q] = status[q]
        /\ lastSeen' \in [Tracks -> Nat]
        /\ lastSeen'[t] = ObservedAt[o]
        /\ \A u \in Tracks : u # t => lastSeen'[u] = lastSeen[u]
    BY DataAssumption DEF RowsInv, RowTypes, Commit
  <1>2. /\ projections' \in [Tracks -> Seq(Obs)]
        /\ projections'[t] = Append(p, o)
        /\ \A u \in Tracks : u # t => projections'[u] = projections[u]
    BY DEF RowsInv, RowTypes, Commit
  <1>3. /\ p \in Seq(Obs)
        /\ Len(p) \in Nat
        /\ Len(projections'[t]) = Len(p) + 1
        /\ projections'[t][Len(p) + 1] = o
        /\ \A i \in 1..Len(p) : projections'[t][i] = p[i]
        /\ projections'[t] # <<>>
    BY <1>2 DEF RowsInv, RowTypes
  <1>4. Exists(t)
    BY DataAssumption DEF RowsInv, EvidenceBelongs, Belongs
  <1>5. RowTypes'
    BY <1>1, <1>2 DEF RowsInv, RowTypes
  <1>6. RowInv'
    BY <1>1, <1>2, <1>4 DEF RowsInv, RowTypes, RowInv, Exists, Ref
  <1>7. EvidenceBelongs' /\ ProcessedIsAttached'
    BY <1>1, DataAssumption DEF RowsInv, EvidenceBelongs, ProcessedIsAttached, Belongs, Exists, Ref
  <1>8. WatermarkIsEvidence'
    <2> SUFFICES ASSUME NEW u \in Tracks, Exists(u)
                 PROVE  LET s == projections'[u] IN
                        /\ lastSeen'[u] = IF s = <<>> THEN ObservedAt[initial[u]]
                                                      ELSE ObservedAt[s[Len(s)]]
                        /\ ObservedAt[initial[u]] <= lastSeen'[u]
                        /\ \A i, j \in 1..Len(s) :
                             i <= j => ObservedAt[s[i]] <= ObservedAt[s[j]]
      BY DEF WatermarkIsEvidence, Exists
    <2>1. CASE u # t
      BY SMTT(30), <1>1, <1>2, <2>1 DEF RowsInv, WatermarkIsEvidence
    <2>2. CASE u = t
      <3>1. /\ lastSeen'[t] = ObservedAt[projections'[t][Len(projections'[t])]]
            /\ ObservedAt[initial[t]] <= lastSeen'[t]
        BY <1>1, <1>3, <1>4, DataAssumption DEF RowsInv, RowTypes, WatermarkIsEvidence, Exists
      <3>2. ASSUME NEW i \in 1..Len(projections'[t]), NEW j \in 1..Len(projections'[t]), i <= j
            PROVE  ObservedAt[projections'[t][i]] <= ObservedAt[projections'[t][j]]
        <4>0. \A k \in 1..Len(p) : p[k] \in Obs /\ ObservedAt[p[k]] \in Nat
          BY <1>3, DataAssumption
        <4>1. CASE j <= Len(p)
          <5>1. i \in 1..Len(p) /\ j \in 1..Len(p)
            BY <1>3, <3>2, <4>1
          <5>2. ObservedAt[p[i]] <= ObservedAt[p[j]]
            BY <1>4, <3>2, <5>1 DEF RowsInv, WatermarkIsEvidence
          <5> QED
            BY <1>3, <5>1, <5>2
        <4>2. CASE j = Len(p) + 1 /\ i = Len(p) + 1
          BY <1>3, <4>2, DataAssumption
        <4>3. CASE j = Len(p) + 1 /\ i <= Len(p)
          <5>0. i \in 1..Len(p) /\ Len(p) \in 1..Len(p) /\ i <= Len(p)
            BY <1>3, <4>3
          <5>1. p # <<>>
            BY <5>0
          <5>2. ObservedAt[p[i]] <= ObservedAt[p[Len(p)]]
            BY <1>4, <5>0 DEF RowsInv, WatermarkIsEvidence
          <5>3. ObservedAt[p[Len(p)]] = lastSeen[t]
            BY <1>4, <5>1 DEF RowsInv, WatermarkIsEvidence
          <5> QED
            <6>1. projections'[t][i] = p[i] /\ projections'[t][j] = o
              BY <1>3, <4>3, <5>0
            <6>2. ObservedAt[p[i]] \in Nat /\ ObservedAt[o] \in Nat /\ lastSeen[t] \in Nat
              BY <4>0, <5>0, DataAssumption DEF RowsInv, RowTypes
            <6> QED
              BY <5>2, <5>3, <6>1, <6>2
        <4> QED
          BY <1>3, <3>2, <4>1, <4>2, <4>3
      <3> QED
        BY <1>3, <2>2, <3>1, <3>2
    <2> QED
      BY <2>1, <2>2
  <1>9. ProjectionIsAttached'
    <2> SUFFICES ASSUME NEW u \in Tracks, NEW i \in 1..Len(projections'[u])
                 PROVE  /\ owner[projections'[u][i]] = u
                        /\ status'[projections'[u][i]] = "processed"
      BY DEF ProjectionIsAttached
    <2>1. CASE u # t \/ i <= Len(p)
      <3>1. i \in 1..Len(projections[u]) /\ projections'[u][i] = projections[u][i]
        BY <1>2, <1>3, <2>1
      <3>2. projections[u][i] \in Obs
        BY <3>1 DEF RowsInv, RowTypes
      <3> QED
        BY <1>1, <3>1, <3>2 DEF RowsInv, ProjectionIsAttached
    <2>2. CASE u = t /\ i = Len(p) + 1
      BY <1>1, <1>3, <2>2
    <2> QED
      BY <1>3, <2>1, <2>2
  <1>10. LossNeedsContention'
    <2> SUFFICES ASSUME NEW q \in Obs, status'[q] = "processed",
                        lastSeen'[owner[q]] < ObservedAt[q]
                 PROVE  Len(projections'[owner[q]]) >= MaxAttempts
      BY DEF LossNeedsContention
    <2>1. q # o
      BY <1>1, DataAssumption
    <2>2. owner[q] \in Tracks
      BY <1>1, <2>1 DEF RowsInv, RowTypes, ProcessedIsAttached
    <2>3. lastSeen[owner[q]] <= lastSeen'[owner[q]]
      <3>1. lastSeen[owner[q]] \in Nat
        BY <2>2 DEF RowsInv, RowTypes
      <3>2. CASE owner[q] = t
        BY <1>1, <3>2
      <3>3. CASE owner[q] # t
        BY <1>1, <2>2, <3>1, <3>3
      <3> QED
        BY <3>2, <3>3
    <2>4. lastSeen[owner[q]] < ObservedAt[q]
      BY <1>1, <2>2, <2>3, DataAssumption DEF RowsInv, RowTypes
    <2>5. Len(projections[owner[q]]) >= MaxAttempts
      BY <1>1, <2>1, <2>4 DEF RowsInv, LossNeedsContention
    <2>6. Len(projections[owner[q]]) <= Len(projections'[owner[q]])
      BY <1>2, <1>3, <2>2 DEF RowsInv, RowTypes
    <2>7. Len(projections[owner[q]]) \in Nat /\ Len(projections'[owner[q]]) \in Nat
      BY <1>2, <2>2 DEF RowsInv, RowTypes
    <2> QED
      BY <2>5, <2>6, <2>7, BoundAssumption
  <1>11. RowsGrow
    <2>1. ASSUME NEW u \in Tracks
          PROVE  /\ lastSeen[u] <= lastSeen'[u]
                 /\ Len(projections[u]) <= Len(projections'[u])
                 /\ lastSeen[u] < lastSeen'[u] => Len(projections[u]) + 1 <= Len(projections'[u])
                 /\ \A i \in 1..Len(projections[u]) : projections'[u][i] = projections[u][i]
      <3>0. Len(projections[u]) \in Nat /\ lastSeen[u] \in Nat /\ ObservedAt[o] \in Nat
        BY DataAssumption DEF RowsInv, RowTypes
      <3>1. CASE u = t
        BY <1>1, <1>3, <3>0, <3>1
      <3>2. CASE u # t
        BY <1>1, <1>2, <3>0, <3>2
      <3> QED
        BY <3>1, <3>2
    <2> QED
      BY <1>1, <2>1 DEF RowsGrow
  <1> QED
    BY <1>1, <1>3, <1>5, <1>6, <1>7, <1>8, <1>9, <1>10, <1>11 DEF RowsInv

-----------------------------------------------------------------------------
(* What a request knows stays true while the rows grow under it.           *)

LEMMA RequestStable ==
  ASSUME RowsInv, RowsInv', RowsGrow, NEW q \in Request, RequestInv(q)
  PROVE  RequestInv(q)'
  <1>1. q.pc # "idle" => q.obs \in Obs /\ status'[q.obs] # "absent"
    BY DEF RequestInv, RowsGrow
  <1>2. q.pc = "reOwner" => owner'[q.obs] # NoTrack
    BY <1>1 DEF RequestInv, RowsGrow
  <1>3. ASSUME q.pc \in Correlated
        PROVE  /\ q.obs \in Obs
               /\ q.trk \in Tracks
               /\ Belongs(q.obs, q.trk)'
               /\ lastSeen[q.trk] <= lastSeen'[q.trk]
               /\ Len(projections[q.trk]) <= Len(projections'[q.trk])
               /\ lastSeen[q.trk] < lastSeen'[q.trk] =>
                    Len(projections[q.trk]) + 1 <= Len(projections'[q.trk])
               /\ \A i \in 1..Len(projections[q.trk]) :
                    projections'[q.trk][i] = projections[q.trk][i]
               /\ lastSeen[q.trk] \in Nat /\ lastSeen'[q.trk] \in Nat
               /\ Len(projections[q.trk]) \in Nat /\ Len(projections'[q.trk]) \in Nat
               /\ q.expected \in Nat /\ q.attempt \in Nat
               /\ ObservedAt[q.obs] \in Nat
    <2>1. q.obs \in Obs /\ q.trk \in Tracks /\ Belongs(q.obs, q.trk)
      BY <1>1, <1>3 DEF RequestInv, Correlated
    <2>2. Exists(q.trk) /\ initial'[q.trk] = initial[q.trk] /\ Belongs(q.obs, q.trk)'
      BY <2>1 DEF RowsGrow, Belongs, Exists, Ref
    <2>3. q.expected \in Nat /\ q.attempt \in Nat
      BY BoundAssumption DEF Request
    <2> QED
      BY SMTT(30), <2>1, <2>2, <2>3, DataAssumption DEF RowsInv, RowTypes, RowsGrow
  <1>4. q.pc \in Correlated \ {"attach"} => owner'[q.obs] = q.trk
    BY <1>3, DataAssumption DEF RequestInv, RowsGrow
  <1>5. q.pc \in Projecting \cup {"attach"} =>
          /\ q.attempt < MaxAttempts
          /\ q.expected <= lastSeen'[q.trk]
          /\ Contended(q)'
    BY SMTT(30), <1>3 DEF RequestInv, Contended, Correlated, Projecting
  <1>6. q.pc = "update" /\ q.hadState => HasState(q.trk)'
    <2> SUFFICES ASSUME q.pc = "update", q.hadState PROVE HasState(q.trk)'
      OBVIOUS
    <2>1. projections[q.trk] \in Seq(Obs) /\ projections'[q.trk] \in Seq(Obs)
      BY <1>3 DEF Correlated, RowsInv, RowTypes
    <2>2. projections[q.trk] # <<>>
      BY DEF RequestInv, HasState
    <2>3. Len(projections[q.trk]) >= 1
      BY <2>1, <2>2
    <2>4. Len(projections'[q.trk]) >= 1
      BY <1>3, <2>3 DEF Correlated
    <2> QED
      BY <2>1, <2>4 DEF HasState
  <1>7. q.pc = "reload" =>
          q.expected < lastSeen'[q.trk] \/ ObservedAt[q.obs] <= lastSeen'[q.trk]
    BY <1>3 DEF RequestInv, Correlated
  <1>8. q.pc = "mark" =>
          \/ ObservedAt[q.obs] <= lastSeen'[q.trk]
          \/ Len(projections'[q.trk]) >= MaxAttempts
    BY <1>3, BoundAssumption DEF RequestInv, Correlated
  <1>9. q.pc \in {"markApplied", "publish"} =>
          /\ status'[q.obs] = "processed"
          /\ \E i \in 1..Len(projections'[q.trk]) : projections'[q.trk][i] = q.obs
    <2> SUFFICES ASSUME q.pc \in {"markApplied", "publish"}
                 PROVE  /\ status'[q.obs] = "processed"
                        /\ \E i \in 1..Len(projections'[q.trk]) : projections'[q.trk][i] = q.obs
      OBVIOUS
    <2>1. PICK i \in 1..Len(projections[q.trk]) : projections[q.trk][i] = q.obs
      BY DEF RequestInv
    <2>2. i \in 1..Len(projections'[q.trk]) /\ projections'[q.trk][i] = q.obs
      BY <1>3, <2>1 DEF Correlated
    <2> QED
      BY <1>3, <2>2 DEF RequestInv, RowsGrow, Correlated
  <1> QED
    BY <1>1, <1>2, <1>3, <1>4, <1>5, <1>6, <1>7, <1>8, <1>9 DEF RequestInv

-----------------------------------------------------------------------------
(* One lemma per action: the rows keep their invariant and only grow, and   *)
(* the acting request knows what its next call needs.                       *)

Preserved(r) ==
  /\ RowsInv'
  /\ RowsGrow
  /\ req' \in [Requests -> Request]
  /\ \A s \in Requests : s # r => req'[s] = req[s]
  /\ RequestInv(req[r])'

LEMMA Parts ==
  ASSUME IInv
  PROVE  /\ TypeOK
         /\ RowsInv
         /\ \A r \in Requests : req[r] \in Request /\ RequestInv(req[r])
  BY DEF IInv, RowsInv, RowTypes, TypeOK

\* A request that ends knows nothing.
LEMMA EndedOK ==
  ASSUME NEW r \in Requests, Ended(r), RowsInv', RowsGrow
  PROVE  Preserved(r)
  BY DEF Ended, Preserved, RequestInv, Idle, Correlated, Projecting

\* Having found a track the observation belongs to, a request may attach.
LEMMA FoundOK ==
  ASSUME IInv, NEW r \in Requests, req[r].pc # "idle", req[r].pc \notin Correlated,
         UNCHANGED rows, NEW t \in Tracks, Belongs(req[r].obs, t),
         WithTrack(r, t, lastSeen[t], "attach")
  PROVE  Preserved(r)
  <1>1. TypeOK /\ RowsInv /\ req[r] \in Request /\ RequestInv(req[r])
    BY Parts
  <1>2. RowsInv' /\ RowsGrow
    BY <1>1, SameRows
  <1>3. lastSeen[t] \in Nat /\ Len(projections[t]) \in Nat
    BY <1>1 DEF RowsInv, RowTypes
  <1>4. Moved(r, "attach", t, lastSeen[t])
    BY <1>1, <1>3, WithTrackMove DEF PCs
  <1>5. Contended(req[r])'
    BY <1>1, <1>3, <1>4 DEF Contended, Moved, RequestInv, rows
  <1> QED
    BY <1>1, <1>2, <1>3, <1>4, <1>5, BoundAssumption
    DEF Preserved, Moved, RequestInv, Correlated, Projecting, rows, Belongs, Exists, Ref

\* Moving on without a track.
LEMMA UncorrelatedOK ==
  ASSUME IInv, NEW r \in Requests, req[r].pc # "idle", req[r].pc \notin Correlated,
         UNCHANGED rows, NEW label \in PCs \ Correlated, label # "reOwner",
         Goto(r, label)
  PROVE  Preserved(r)
  <1>1. TypeOK /\ RowsInv /\ req[r] \in Request /\ RequestInv(req[r])
    BY Parts
  <1>2. RowsInv' /\ RowsGrow
    BY <1>1, SameRows
  <1>3. Moved(r, label, req[r].trk, req[r].expected)
    BY <1>1, GotoMove
  <1> QED
    BY <1>1, <1>2, <1>3 DEF Preserved, Moved, RequestInv, Correlated, Projecting, rows

LEMMA IngestOK ==
  ASSUME IInv, NEW r \in Requests, NEW o \in Obs, Ingest(r, o)
  PROVE  Preserved(r)
  <1>1. TypeOK /\ RowsInv
    BY Parts
  <1>2. ASSUME NEW label \in {"create", "findRef", "load"},
               req' = [req EXCEPT ![r] = [Idle EXCEPT !.obs = o, !.pc = label]],
               RowsInv', RowsGrow, status'[o] # "absent"
        PROVE  Preserved(r)
    <2>1. [Idle EXCEPT !.obs = o, !.pc = label] \in Request
      BY IdleType DEF Idle, Request, PCs
    <2>2. /\ req' \in [Requests -> Request]
          /\ \A s \in Requests : s # r => req'[s] = req[s]
          /\ req'[r] = [Idle EXCEPT !.obs = o, !.pc = label]
      BY <1>1, <1>2, <2>1 DEF TypeOK
    <2>3. req'[r].pc = label /\ req'[r].obs = o /\ req'[r].attempt = 0
      BY <2>2 DEF Idle
    <2> QED
      BY <1>2, <2>2, <2>3 DEF Preserved, RequestInv, Correlated, Projecting
  <1>3. CASE status[o] = "absent" /\ StoreRow(o)
             /\ req' = [req EXCEPT ![r] = [Idle EXCEPT !.obs = o, !.pc = Correlate(o)]]
    <2>1. RowsInv' /\ RowsGrow /\ status'[o] = "stored"
      BY <1>1, <1>3, StoreRows DEF Ingest
    <2>2. Correlate(o) \in {"create", "findRef", "load"}
      BY DEF Correlate
    <2> QED
      BY <1>2, <1>3, <2>1, <2>2
  <1>4. CASE status[o] # "absent" /\ UNCHANGED status
             /\ req' = [req EXCEPT ![r] = [Idle EXCEPT !.obs = o, !.pc = "load"]]
    <2>1. RowsInv' /\ RowsGrow
      BY <1>1, <1>4, SameRows DEF Ingest, rows
    <2> QED
      BY <1>2, <1>4, <2>1
  <1> QED
    BY <1>3, <1>4 DEF Ingest

LEMMA LoadOK ==
  ASSUME IInv, NEW r \in Requests, Load(r)
  PROVE  Preserved(r)
  <1>1. TypeOK /\ RowsInv /\ req[r] \in Request /\ RequestInv(req[r]) /\ UNCHANGED rows
    BY Parts DEF Load
  <1>2. RowsInv' /\ RowsGrow
    BY <1>1, SameRows
  <1>3. CASE Return(r)
    BY <1>1, <1>2, <1>3, ReturnMove, EndedOK
  <1>4. CASE req' = [req EXCEPT ![r] = [@ EXCEPT !.retry = TRUE, !.pc = "findOwner"]]
    <2>1. [req[r] EXCEPT !.retry = TRUE, !.pc = "findOwner"] \in Request
      BY <1>1 DEF Request, PCs
    <2>2. /\ req' \in [Requests -> Request]
          /\ \A s \in Requests : s # r => req'[s] = req[s]
          /\ req'[r] = [req[r] EXCEPT !.retry = TRUE, !.pc = "findOwner"]
      BY <1>1, <1>4, <2>1 DEF TypeOK
    <2>3. req'[r].pc = "findOwner" /\ req'[r].obs = req[r].obs
          /\ req'[r].attempt = req[r].attempt
      BY <1>1, <2>2 DEF Request
    <2> QED
      BY <1>1, <1>2, <2>2, <2>3
      DEF Load, At, Preserved, RequestInv, Correlated, Projecting, rows
  <1> QED
    BY <1>3, <1>4 DEF Load

\* The acting request's observation, once it is busy.
LEMMA Carries ==
  ASSUME IInv, NEW r \in Requests, req[r].pc # "idle"
  PROVE  req[r].obs \in Obs /\ status[req[r].obs] # "absent"
  BY Parts DEF RequestInv

LEMMA FindOwnerOK ==
  ASSUME IInv, NEW r \in Requests, FindOwner(r)
  PROVE  Preserved(r)
  <1>1. /\ req[r].pc # "idle" /\ req[r].pc \notin Correlated
        /\ UNCHANGED rows
        /\ RowsInv
        /\ req[r].obs \in Obs
    BY Parts, Carries DEF FindOwner, At, Correlated
  <1>2. CASE \E t \in TracksByObservation(req[r].obs) : WithTrack(r, t, lastSeen[t], "attach")
    BY <1>1, <1>2, FoundBelongs, FoundOK
  <1>3. CASE Goto(r, Correlate(req[r].obs))
    <2>1. Correlate(req[r].obs) \in PCs \ Correlated /\ Correlate(req[r].obs) # "reOwner"
      BY DEF Correlate, PCs, Correlated
    <2> QED
      BY <1>1, <1>3, <2>1, UncorrelatedOK
  <1> QED
    BY <1>2, <1>3 DEF FindOwner

LEMMA FindRefOK ==
  ASSUME IInv, NEW r \in Requests, FindRef(r)
  PROVE  Preserved(r)
  <1>1. /\ req[r].pc # "idle" /\ req[r].pc \notin Correlated
        /\ UNCHANGED rows
        /\ req[r].obs \in Obs
    BY Carries DEF FindRef, At, Correlated
  <1>2. CASE \E t \in TracksByRef(req[r].obs) : WithTrack(r, t, lastSeen[t], "attach")
    BY <1>1, <1>2, RefBelongs, FoundOK
  <1>3. CASE Goto(r, "create")
    BY <1>1, <1>3, UncorrelatedOK DEF PCs, Correlated
  <1> QED
    BY <1>2, <1>3 DEF FindRef

LEMMA CreateOK ==
  ASSUME IInv, NEW r \in Requests, Create(r)
  PROVE  Preserved(r)
  <1>1. /\ req[r].pc # "idle" /\ req[r].pc \notin Correlated
        /\ TypeOK /\ RowsInv /\ req[r] \in Request /\ RequestInv(req[r])
        /\ req[r].obs \in Obs /\ status[req[r].obs] # "absent"
    BY Parts, Carries DEF Create, At, Correlated
  <1>2. CASE UNCHANGED rows /\ (Goto(r, "resolve") \/ Goto(r, "resolveDuplicate"))
    BY <1>1, <1>2, UncorrelatedOK DEF PCs, Correlated
  <1>3. ASSUME NEW o \in Obs, o = req[r].obs, NEW t \in Tracks, InsertTrack(t, o),
               WithTrack(r, t, ObservedAt[o], "attach")
        PROVE  Preserved(r)
    <2>1. RowsInv' /\ RowsGrow /\ Belongs(o, t)' /\ lastSeen'[t] = ObservedAt[o]
      BY <1>1, <1>3, InsertRows
    <2>2. Moved(r, "attach", t, ObservedAt[o])
      BY <1>1, <1>3, WithTrackMove, DataAssumption DEF PCs
    <2>3. ObservedAt[o] \in Nat /\ Len(projections'[t]) \in Nat /\ status' = status
      BY <1>1, <1>3, <2>1, DataAssumption DEF RowsInv, RowTypes, InsertTrack
    <2>4. req[r].attempt = 0
      BY <1>1 DEF RequestInv
    <2>5. Contended(req[r])'
      BY <2>1, <2>2, <2>3, <2>4 DEF Contended, Moved
    <2> QED
      BY <1>1, <1>3, <2>1, <2>2, <2>3, <2>4, <2>5, BoundAssumption
      DEF Preserved, Moved, RequestInv, Correlated, Projecting
  <1> QED
    BY <1>1, <1>2, <1>3 DEF Create

LEMMA ResolveOK ==
  ASSUME IInv, NEW r \in Requests, Resolve(r)
  PROVE  Preserved(r)
  <1>1. /\ req[r].pc # "idle" /\ req[r].pc \notin Correlated
        /\ UNCHANGED rows
        /\ TypeOK /\ RowsInv
        /\ req[r].obs \in Obs
    BY Parts, Carries DEF Resolve, At, Correlated
  <1>2. CASE \E t \in TracksByObservation(req[r].obs) : WithTrack(r, t, lastSeen[t], "attach")
    BY <1>1, <1>2, FoundBelongs, FoundOK
  <1>3. CASE Goto(r, "resolveRef")
    BY <1>1, <1>3, UncorrelatedOK DEF PCs, Correlated
  <1>4. CASE Return(r)
    BY <1>1, <1>4, SameRows, ReturnMove, EndedOK
  <1> QED
    BY <1>2, <1>3, <1>4 DEF Resolve

LEMMA ResolveRefOK ==
  ASSUME IInv, NEW r \in Requests, ResolveRef(r)
  PROVE  Preserved(r)
  <1>1. /\ req[r].pc # "idle" /\ req[r].pc \notin Correlated
        /\ UNCHANGED rows
        /\ TypeOK /\ RowsInv
        /\ req[r].obs \in Obs
    BY Parts, Carries DEF ResolveRef, At, Correlated
  <1>2. CASE \E t \in TracksByRef(req[r].obs) : WithTrack(r, t, lastSeen[t], "attach")
    BY <1>1, <1>2, RefBelongs, FoundOK
  <1>3. CASE Return(r)
    BY <1>1, <1>3, SameRows, ReturnMove, EndedOK
  <1> QED
    BY <1>2, <1>3 DEF ResolveRef

\* A request that owns its evidence enters the projection loop, or settles
\* evidence that is older than the track.
LEMMA LoopOK ==
  ASSUME IInv, NEW r \in Requests, RowsInv', RowsGrow,
         NEW o \in Obs, o = req[r].obs, status'[o] # "absent",
         NEW t \in Tracks, Belongs(o, t)', owner'[o] = t,
         NEW w \in Nat, w <= lastSeen'[t],
         req[r].attempt < MaxAttempts,
         Len(projections'[t]) >= req[r].attempt + IF w < lastSeen'[t] THEN 1 ELSE 0,
         Moved(r, LoopHead(o, w), t, w)
  PROVE  Preserved(r)
  <1>1. lastSeen'[t] \in Nat /\ ObservedAt[o] \in Nat
    BY DataAssumption DEF RowsInv, RowTypes
  <1>2. LoopHead(o, w) = "mark" => ObservedAt[o] <= lastSeen'[t]
    BY <1>1 DEF LoopHead
  <1>3. LoopHead(o, w) = "apply" => w <= ObservedAt[o]
    BY <1>1 DEF LoopHead
  <1>4. LoopHead(o, w) \in {"mark", "apply"}
    BY DEF LoopHead
  <1>5. Contended(req[r])'
    BY DEF Contended, Moved
  <1> QED
    BY <1>2, <1>3, <1>4, <1>5 DEF Preserved, Moved, RequestInv, Correlated, Projecting

LEMMA AttachOK ==
  ASSUME IInv, NEW r \in Requests, Attach(r)
  PROVE  Preserved(r)
  <1>1. /\ TypeOK /\ RowsInv /\ req[r] \in Request /\ RequestInv(req[r])
        /\ req[r].obs \in Obs /\ status[req[r].obs] # "absent"
        /\ req[r].pc = "attach"
        /\ UNCHANGED <<status, initial, lastSeen, projections>>
    BY Parts, Carries DEF Attach, At
  <1>2. PICK o \in Obs, t \in Tracks : o = req[r].obs /\ t = req[r].trk
    BY <1>1 DEF RequestInv, Correlated
  <1>3. /\ Belongs(o, t)
        /\ req[r].attempt < MaxAttempts /\ req[r].attempt = 0
        /\ req[r].expected \in Nat
        /\ req[r].expected <= lastSeen[t]
        /\ Contended(req[r])
    BY <1>1, <1>2, BoundAssumption DEF RequestInv, Request, Correlated, Projecting
  <1>4. CASE /\ owner[o] = NoTrack
             /\ owner' = [owner EXCEPT ![o] = t]
             /\ Goto(r, LoopHead(o, req[r].expected))
    <2>1. RowsInv' /\ RowsGrow /\ owner'[o] = t
      BY <1>1, <1>2, <1>3, <1>4, AttachRows
    <2>2. Belongs(o, t)'
      BY <1>1, <1>3 DEF Belongs, Exists, Ref
    <2>3. LoopHead(o, req[r].expected) \in PCs
      BY DEF LoopHead, PCs
    <2>4. Moved(r, LoopHead(o, req[r].expected), t, req[r].expected)
      BY <1>1, <1>2, <1>4, <2>3, GotoMove
    <2>5. Len(projections'[t]) >=
            req[r].attempt + IF req[r].expected < lastSeen'[t] THEN 1 ELSE 0
      BY <1>1, <1>2, <1>3 DEF Contended
    <2>6. status'[o] # "absent" /\ req[r].expected <= lastSeen'[t]
      BY <1>1, <1>2, <1>3
    <2> QED
      BY <1>2, <1>3, <2>1, <2>2, <2>4, <2>5, <2>6, LoopOK
  <1>5. CASE owner[o] # NoTrack /\ UNCHANGED owner /\ Goto(r, "reOwner")
    <2>1. RowsInv' /\ RowsGrow
      BY <1>1, <1>5, SameRows DEF rows
    <2>2. Moved(r, "reOwner", t, req[r].expected)
      BY <1>1, <1>2, <1>5, GotoMove DEF PCs
    <2> QED
      BY <1>1, <1>2, <1>3, <1>5, <2>1, <2>2
      DEF Preserved, Moved, RequestInv, Correlated, Projecting
  <1>6. CASE Return(r) /\ UNCHANGED owner
    BY <1>1, <1>6, SameRows, ReturnMove, EndedOK DEF rows
  <1> QED
    BY <1>2, <1>4, <1>5, <1>6 DEF Attach

LEMMA ReOwnerOK ==
  ASSUME IInv, NEW r \in Requests, ReOwner(r)
  PROVE  Preserved(r)
  <1>1. /\ TypeOK /\ RowsInv /\ req[r] \in Request /\ RequestInv(req[r])
        /\ req[r].obs \in Obs /\ status[req[r].obs] # "absent"
        /\ req[r].pc = "reOwner"
        /\ UNCHANGED rows
    BY Parts, Carries DEF ReOwner, At
  <1>0. PICK o \in Obs : o = req[r].obs
    BY <1>1
  <1>2. PICK t \in TracksByObservation(o) :
          WithTrack(r, t, lastSeen[t], LoopHead(o, lastSeen[t]))
    BY <1>0 DEF ReOwner
  <1>3. t \in Tracks /\ Belongs(o, t)
    BY <1>1, FoundBelongs
  <1>4. owner[o] = t
    <2>1. owner[o] \in Tracks /\ Belongs(o, owner[o])
      BY <1>0, <1>1 DEF RequestInv, RowsInv, RowTypes, EvidenceBelongs
    <2> QED
      BY <1>1, <1>3, <2>1, BelongsUnique DEF RowsInv
  <1>5. RowsInv' /\ RowsGrow
    BY <1>1, SameRows
  <1>6. lastSeen[t] \in Nat /\ Len(projections[t]) \in Nat
    BY <1>1, <1>3 DEF RowsInv, RowTypes
  <1>7. LoopHead(o, lastSeen[t]) \in PCs
    BY DEF LoopHead, PCs
  <1>8. Moved(r, LoopHead(o, lastSeen[t]), t, lastSeen[t])
    BY <1>1, <1>2, <1>3, <1>6, <1>7, WithTrackMove
  <1>9. Belongs(o, t)' /\ owner'[o] = t /\ status'[o] # "absent"
    BY <1>0, <1>1, <1>3, <1>4 DEF Belongs, Exists, Ref, rows
  <1>10. /\ lastSeen[t] <= lastSeen'[t]
         /\ req[r].attempt < MaxAttempts
         /\ Len(projections'[t]) >=
              req[r].attempt + IF lastSeen[t] < lastSeen'[t] THEN 1 ELSE 0
    BY <1>1, <1>6, BoundAssumption DEF RequestInv, Correlated, rows
  <1> QED
    BY <1>0, <1>3, <1>5, <1>6, <1>8, <1>9, <1>10, LoopOK

LEMMA BeginUpdateOK ==
  ASSUME IInv, NEW r \in Requests, BeginUpdate(r)
  PROVE  Preserved(r)
  <1>1. /\ TypeOK /\ RowsInv /\ req[r] \in Request /\ RequestInv(req[r])
        /\ req[r].pc = "apply"
        /\ UNCHANGED rows
    BY Parts DEF BeginUpdate, At
  <1>2. RowsInv' /\ RowsGrow
    BY <1>1, SameRows
  <1>3. HasState(req[r].trk) \in BOOLEAN
    BY DEF HasState
  <1>4. /\ req' \in [Requests -> Request]
        /\ \A s \in Requests : s # r => req'[s] = req[s]
        /\ req'[r].pc = "update"
        /\ req'[r].obs = req[r].obs
        /\ req'[r].trk = req[r].trk
        /\ req'[r].expected = req[r].expected
        /\ req'[r].attempt = req[r].attempt
        /\ req'[r].hadState = HasState(req[r].trk)
    BY <1>1, <1>3 DEF BeginUpdate, TypeOK, Request, PCs
  <1> QED
    BY <1>1, <1>2, <1>4
    DEF Preserved, RequestInv, Correlated, Projecting, Contended, HasState, rows,
        Belongs, Exists, Ref
LEMMA UpdateOK ==
  ASSUME IInv, NEW r \in Requests, Update(r)
  PROVE  Preserved(r)
  <1>1. /\ TypeOK /\ RowsInv /\ req[r] \in Request /\ RequestInv(req[r])
        /\ req[r].obs \in Obs /\ status[req[r].obs] # "absent"
        /\ req[r].pc = "update"
        /\ UNCHANGED <<owner, initial>>
    BY Parts, Carries DEF Update, At
  <1>2. PICK o \in Obs, t \in Tracks : o = req[r].obs /\ t = req[r].trk
    BY <1>1 DEF RequestInv, Correlated
  <1>3. /\ Belongs(o, t) /\ owner[o] = t
        /\ req[r].expected \in Nat
        /\ req[r].expected <= lastSeen[t]
        /\ req[r].expected <= ObservedAt[o]
        /\ lastSeen[t] \in Nat /\ ObservedAt[o] \in Nat
    BY <1>1, <1>2, DataAssumption
    DEF RequestInv, Request, Correlated, Projecting, RowsInv, RowTypes
  <1>4. CASE /\ MayApply(o, t, req[r].expected, req[r].hadState)
             /\ Commit(o, t)
             /\ Goto(r, "markApplied")
    <2>1. lastSeen[t] <= ObservedAt[o]
      BY <1>3, <1>4 DEF MayApply
    <2>2. /\ RowsInv' /\ RowsGrow
          /\ status'[o] = "processed"
          /\ projections'[t][Len(projections'[t])] = o
          /\ Len(projections'[t]) \in Nat \ {0}
      BY <1>1, <1>3, <1>4, <2>1, CommitRows
    <2>3. Moved(r, "markApplied", t, req[r].expected)
      BY <1>1, <1>2, <1>4, GotoMove DEF PCs
    <2>4. Len(projections'[t]) \in 1..Len(projections'[t])
      BY <2>2
    <2>5. Belongs(o, t)' /\ owner'[o] = t
      BY <1>1, <1>3 DEF Belongs, Exists, Ref
    <2> QED
      BY <1>2, <2>2, <2>3, <2>4, <2>5
      DEF Preserved, Moved, RequestInv, Correlated, Projecting
  <1>5. CASE /\ ~MayApply(o, t, req[r].expected, req[r].hadState)
             /\ UNCHANGED <<status, lastSeen, projections>>
             /\ Goto(r, "reload")
    <2>1. RowsInv' /\ RowsGrow /\ UNCHANGED rows
      BY <1>1, <1>5, SameRows DEF rows
    <2>2. Moved(r, "reload", t, req[r].expected)
      BY <1>1, <1>2, <1>5, GotoMove DEF PCs
    <2>3. req[r].expected < lastSeen[t] \/ ObservedAt[o] <= lastSeen[t]
      BY <1>3, <1>5 DEF MayApply
    <2>4. Contended(req[r])' /\ req[r].attempt < MaxAttempts
      BY <1>1, <1>2, <2>1, <2>2 DEF RequestInv, Contended, Moved, Projecting, rows
    <2>5. Belongs(o, t)' /\ owner'[o] = t
      BY <1>1, <1>3 DEF Belongs, Exists, Ref
    <2> QED
      BY <1>1, <1>2, <1>3, <2>1, <2>2, <2>3, <2>4, <2>5
      DEF Preserved, Moved, RequestInv, Correlated, Projecting, rows
  <1> QED
    BY <1>1, <1>2, <1>4, <1>5 DEF Update

\* A loss is either a watermark that moved, which the request then expects, or
\* evidence that is not newer than the track, which it settles; a request that
\* is still newer after its last attempt has seen the track move each time.
LEMMA ReloadOK ==
  ASSUME IInv, NEW r \in Requests, Reload(r)
  PROVE  Preserved(r)
  <1>1. /\ TypeOK /\ RowsInv /\ req[r] \in Request /\ RequestInv(req[r])
        /\ req[r].obs \in Obs /\ status[req[r].obs] # "absent"
        /\ req[r].pc = "reload"
        /\ UNCHANGED rows
    BY Parts, Carries DEF Reload, At
  <1>2. PICK o \in Obs, t \in Tracks : o = req[r].obs /\ t = req[r].trk
    BY <1>1 DEF RequestInv, Correlated
  <1>3. PICK f \in Nat, a \in 1..MaxAttempts : f = lastSeen[t] /\ a = req[r].attempt + 1
    BY <1>1, <1>2, BoundAssumption
    DEF RowsInv, RowTypes, RequestInv, Request, Projecting
  <1>4. /\ Belongs(o, t) /\ owner[o] = t
        /\ req[r].expected \in Nat
        /\ req[r].expected <= f
        /\ req[r].expected < f \/ ObservedAt[o] <= f
        /\ ObservedAt[o] \in Nat
        /\ Len(projections[t]) \in Nat
        /\ Contended(req[r])
        /\ req[r].attempt \in Nat
    BY <1>1, <1>2, <1>3, DataAssumption, BoundAssumption
    DEF RequestInv, Request, Correlated, Projecting, RowsInv, RowTypes
  <1>5. PICK l \in {"mark", "apply"} : l = AfterLoss(o, req[r].expected, f, a)
    BY <1>3, <1>4 DEF AfterLoss, LoopHead
  <1>6. [req[r] EXCEPT !.attempt = a, !.expected = f, !.pc = l] \in Request
    <2>1. a \in 0..MaxAttempts /\ f \in Nat
      BY <1>3, BoundAssumption
    <2>2. l \in PCs
      BY <1>5 DEF PCs
    <2> QED
      BY <1>1, <2>1, <2>2 DEF Request
  <1>7. /\ req' \in [Requests -> Request]
        /\ \A s \in Requests : s # r => req'[s] = req[s]
        /\ req'[r].pc = l
        /\ req'[r].obs = o
        /\ req'[r].trk = t
        /\ req'[r].expected = f
        /\ req'[r].attempt = a
    <2>1. req' = [req EXCEPT ![r] = [req[r] EXCEPT !.attempt = a, !.expected = f, !.pc = l]]
      BY <1>2, <1>3, <1>5 DEF Reload
    <2> QED
      BY <1>1, <1>2, <1>6, <2>1 DEF TypeOK, Request
  <1>8. ObservedAt[o] <= f \/ Len(projections[t]) >= a
    BY <1>1, <1>2, <1>3, <1>4 DEF Contended
  <1>9. l = "mark" => ObservedAt[o] <= f \/ Len(projections[t]) >= MaxAttempts
    BY <1>3, <1>4, <1>5, <1>8 DEF AfterLoss, LoopHead
  <1>10. l = "apply" => f <= ObservedAt[o] /\ a < MaxAttempts /\ Len(projections[t]) >= a
    BY <1>1, <1>2, <1>3, <1>4, <1>5, BoundAssumption DEF AfterLoss, LoopHead, Contended
  <1>11. Belongs(o, t)' /\ owner'[o] = t /\ status'[o] # "absent"
    BY <1>1, <1>2, <1>4 DEF Belongs, Exists, Ref, rows
  <1>12. RowsInv' /\ RowsGrow
    BY <1>1, SameRows
  <1>13. l = "apply" => Contended(req[r])'
    BY <1>1, <1>3, <1>4, <1>7, <1>10 DEF Contended, rows
  <1>14. lastSeen'[t] = f /\ projections' = projections
    BY <1>1, <1>3 DEF rows
  <1>15. f <= f
    BY <1>3
  <1> QED
    BY <1>5, <1>7, <1>9, <1>10, <1>11, <1>12, <1>13, <1>14, <1>15
    DEF Preserved, RequestInv, Correlated, Projecting
LEMMA PublishingOK ==
  ASSUME IInv, NEW r \in Requests, req[r].pc = "markApplied",
         UNCHANGED rows, Goto(r, "publish")
  PROVE  Preserved(r)
  <1>1. TypeOK /\ RowsInv /\ req[r] \in Request /\ RequestInv(req[r])
    BY Parts
  <1>2. RowsInv' /\ RowsGrow
    BY <1>1, SameRows
  <1>3. Moved(r, "publish", req[r].trk, req[r].expected)
    BY <1>1, GotoMove DEF PCs
  <1> QED
    BY <1>1, <1>2, <1>3
    DEF Preserved, Moved, RequestInv, Correlated, Projecting, rows, Belongs, Exists, Ref

LEMMA MarkOK ==
  ASSUME IInv, NEW r \in Requests, Mark(r)
  PROVE  Preserved(r)
  <1>1. /\ TypeOK /\ RowsInv /\ req[r] \in Request /\ RequestInv(req[r])
        /\ req[r].pc \in {"mark", "markApplied"}
        /\ status' = [status EXCEPT ![req[r].obs] = "processed"]
        /\ UNCHANGED <<owner, initial, lastSeen, projections>>
    BY Parts DEF Mark
  <1>2. PICK o \in Obs, t \in Tracks : o = req[r].obs /\ t = req[r].trk
    BY <1>1 DEF RequestInv, Correlated
  <1>3. CASE req[r].pc = "mark" /\ Return(r)
    <2>1. /\ owner[o] = t
          /\ \/ ObservedAt[o] <= lastSeen[t]
             \/ Len(projections[t]) >= MaxAttempts
      BY <1>1, <1>2, <1>3 DEF RequestInv, Correlated
    <2>2. RowsInv' /\ RowsGrow
      BY <1>1, <1>2, <2>1, MarkRows
    <2> QED
      BY <1>1, <1>3, <2>2, ReturnMove, EndedOK
  <1>4. CASE req[r].pc = "markApplied" /\ Goto(r, "publish")
    <2>1. status[o] = "processed"
      BY <1>1, <1>2, <1>4 DEF RequestInv
    <2>2. UNCHANGED rows
      BY <1>1, <1>2, <2>1 DEF rows, RowsInv, RowTypes
    <2> QED
      BY <1>4, <2>2, PublishingOK
  <1> QED
    BY <1>1, <1>3, <1>4 DEF Mark, At

LEMMA PublishOK ==
  ASSUME IInv, NEW r \in Requests, Publish(r)
  PROVE  Preserved(r)
  BY Parts, SameRows, ReturnMove, EndedOK DEF Publish

LEMMA FaultOK ==
  ASSUME IInv, NEW r \in Requests, Fault(r)
  PROVE  Preserved(r)
  <1>1. TypeOK /\ RowsInv /\ req[r] \in Request /\ RequestInv(req[r])
    BY Parts
  <1>2. CASE Abort(r)
    BY <1>1, <1>2, SameRows, ReturnMove, EndedOK DEF Abort
  <1>3. CASE CreateFails(r)
    <2>1. /\ req[r].pc = "create" /\ req[r].pc # "idle" /\ req[r].pc \notin Correlated
          /\ req[r].obs \in Obs /\ status[req[r].obs] # "absent"
          /\ Goto(r, "resolve")
      BY <1>3, Carries DEF CreateFails, At, Correlated
    <2>2. CASE UNCHANGED rows
      BY <2>1, <2>2, UncorrelatedOK DEF PCs, Correlated
    <2>3. CASE \E t \in Tracks : InsertTrack(t, req[r].obs)
      <3>1. RowsInv' /\ RowsGrow /\ status' = status
        BY <1>1, <2>1, <2>3, InsertRows DEF InsertTrack
      <3>2. Moved(r, "resolve", req[r].trk, req[r].expected)
        BY <1>1, <2>1, GotoMove DEF PCs
      <3> QED
        BY <1>1, <2>1, <3>1, <3>2 DEF Preserved, Moved, RequestInv, Correlated, Projecting
    <2> QED
      BY <1>3, <2>2, <2>3 DEF CreateFails
  <1>4. CASE ResolveFails(r)
    BY <1>4, UncorrelatedOK DEF ResolveFails, At, PCs, Correlated
  <1>5. CASE MarkFails(r)
    BY <1>5, PublishingOK DEF MarkFails, At
  <1> QED
    BY <1>2, <1>3, <1>4, <1>5 DEF Fault

-----------------------------------------------------------------------------
(* The invariant                                                           *)

LEMMA StepOK ==
  ASSUME IInv, NEW r \in Requests, (\E o \in Obs : Ingest(r, o)) \/ Step(r) \/ Fault(r)
  PROVE  Preserved(r)
  BY IngestOK, LoadOK, FindOwnerOK, FindRefOK, CreateOK, ResolveOK, ResolveRefOK,
     AttachOK, ReOwnerOK, BeginUpdateOK, UpdateOK, ReloadOK, MarkOK, PublishOK, FaultOK
  DEF Step

\* Only Publish announces, and it announces what the request projected.
LEMMA AnnouncedOK ==
  ASSUME IInv, RowsInv', RowsGrow, NEW r \in Requests,
         (\E o \in Obs : Ingest(r, o)) \/ Step(r) \/ Fault(r)
  PROVE  AnnouncedIsProjected' /\ announced' \in [Tracks -> SUBSET Obs]
  <1>1. /\ TypeOK /\ RowsInv /\ req[r] \in Request /\ RequestInv(req[r])
        /\ AnnouncedIsProjected
    BY Parts DEF IInv
  <1>2. ASSUME NEW t \in Tracks, NEW i \in 1..Len(projections[t])
        PROVE  /\ i \in 1..Len(projections'[t])
               /\ projections'[t][i] = projections[t][i]
    <2>1. projections[t] \in Seq(Obs) /\ projections'[t] \in Seq(Obs)
      BY <1>1 DEF RowsInv, RowTypes
    <2>2. Exists(t)
      BY <1>1, <1>2, <2>1 DEF RowsInv, RowInv
    <2> QED
      BY <1>2, <2>1, <2>2 DEF RowsGrow
  <1>3. ASSUME NEW t \in Tracks, NEW o \in Obs,
               \E i \in 1..Len(projections[t]) : projections[t][i] = o
        PROVE  \E i \in 1..Len(projections'[t]) : projections'[t][i] = o
    BY <1>2, <1>3
  <1>4. CASE UNCHANGED announced
    BY <1>1, <1>3, <1>4 DEF AnnouncedIsProjected, TypeOK
  <1>5. CASE Publish(r)
    <2>1. PICK o \in Obs, t \in Tracks : o = req[r].obs /\ t = req[r].trk
      BY <1>1, <1>5 DEF Publish, At, RequestInv, Correlated
    <2>2. \E i \in 1..Len(projections[t]) : projections[t][i] = o
      BY <1>1, <1>5, <2>1 DEF Publish, At, RequestInv
    <2>3. /\ announced' \in [Tracks -> SUBSET Obs]
          /\ announced'[t] = announced[t] \cup {o}
          /\ \A u \in Tracks : u # t => announced'[u] = announced[u]
      BY <1>1, <1>5, <2>1 DEF Publish, TypeOK
    <2>4. ASSUME NEW u \in Tracks, NEW p \in announced'[u]
          PROVE  \E i \in 1..Len(projections[u]) : projections[u][i] = p
      BY <1>1, <2>2, <2>3, <2>4 DEF AnnouncedIsProjected
    <2> QED
      BY <1>3, <2>3, <2>4 DEF AnnouncedIsProjected
  <1> QED
    BY <1>4, <1>5
    DEF Ingest, Step, Load, FindOwner, FindRef, Create, Resolve, ResolveRef, Attach,
        ReOwner, BeginUpdate, Update, Reload, Mark, Fault, Abort, CreateFails,
        ResolveFails, MarkFails
LEMMA FaultsType ==
  ASSUME TypeOK, NEW r \in Requests,
         (\E o \in Obs : Ingest(r, o)) \/ Step(r) \/ Fault(r)
  PROVE  faults' \in 0..MaxFaults
  <1>1. CASE UNCHANGED faults
    BY <1>1 DEF TypeOK
  <1>2. CASE Fault(r)
    BY <1>2, BoundAssumption DEF Fault, TypeOK
  <1> QED
    BY <1>1, <1>2
    DEF Ingest, Step, Load, FindOwner, FindRef, Create, Resolve, ResolveRef, Attach,
        ReOwner, BeginUpdate, Update, Reload, Mark, Publish

LEMMA InvInit == Init => IInv
  <1> SUFFICES ASSUME Init PROVE IInv
    OBVIOUS
  <1>1. TypeOK
    BY TypeInit
  <1>2. \A t \in Tracks : ~Exists(t) /\ projections[t] = <<>>
    BY DEF Init, Exists
  <1>3. RowInv /\ EvidenceBelongs /\ ProcessedIsAttached /\ LossNeedsContention
    BY <1>2 DEF Init, RowInv, EvidenceBelongs, ProcessedIsAttached, LossNeedsContention
  <1>4. WatermarkIsEvidence /\ ProjectionIsAttached /\ AnnouncedIsProjected
    BY <1>2 DEF Init, WatermarkIsEvidence, ProjectionIsAttached, AnnouncedIsProjected
  <1>5. \A r \in Requests : RequestInv(req[r])
    BY DEF Init, Idle, RequestInv, Correlated, Projecting
  <1> QED
    BY <1>1, <1>3, <1>4, <1>5 DEF IInv

LEMMA InvStep == IInv /\ [Next]_vars => IInv' /\ RowsGrow
  <1> SUFFICES ASSUME IInv, [Next]_vars PROVE IInv' /\ RowsGrow
    OBVIOUS
  <1>1. CASE UNCHANGED vars
    <2>1. RowsInv' /\ RowsGrow
      BY <1>1, Parts, SameRows DEF vars
    <2>2. /\ TypeOK' /\ AnnouncedIsProjected'
          /\ \A r \in Requests : RequestInv(req[r])'
      BY <1>1 DEF vars, rows, IInv, TypeOK, AnnouncedIsProjected, RequestInv, Belongs,
                  Exists, Ref, Contended, HasState
    <2> QED
      BY <2>1, <2>2 DEF IInv, RowsInv
  <1>2. CASE Next
    <2>1. PICK r \in Requests : (\E o \in Obs : Ingest(r, o)) \/ Step(r) \/ Fault(r)
      BY <1>2 DEF Next
    <2>2. Preserved(r)
      BY <2>1, StepOK
    <2>3. RowsInv' /\ RowsGrow
      BY <2>2 DEF Preserved
    <2>4. AnnouncedIsProjected' /\ announced' \in [Tracks -> SUBSET Obs]
      BY <2>1, <2>3, AnnouncedOK
    <2>5. TypeOK'
      BY <2>1, <2>2, <2>3, <2>4, FaultsType, Parts DEF Preserved, RowsInv, RowTypes, TypeOK
    <2>6. ASSUME NEW s \in Requests, s # r PROVE RequestInv(req[s])'
      <3>1. PICK q \in Request : q = req[s] /\ RequestInv(q)
        BY Parts
      <3>2. RequestInv(q)'
        BY <2>3, <3>1, Parts, RequestStable
      <3>3. req'[s] = q
        BY <2>2, <2>6, <3>1 DEF Preserved
      <3> QED
        BY <3>2, <3>3 DEF RequestInv, Contended
    <2>7. RequestInv(req[r])'
      BY <2>2 DEF Preserved
    <2> QED
      BY <2>3, <2>4, <2>5, <2>6, <2>7 DEF IInv, RowsInv
  <1> QED
    BY <1>1, <1>2

\* Every reachable state satisfies the inductive invariant.
THEOREM Invariance == Spec => []IInv
  <1>1. Init => IInv
    BY InvInit
  <1>2. IInv /\ [Next]_vars => IInv'
    BY InvStep
  <1> QED
    BY <1>1, <1>2, PTL DEF Spec

-----------------------------------------------------------------------------
(* The properties the runs check                                           *)

\* Every variable keeps its type: in particular no request starts more
\* projection attempts than its budget.
THEOREM TypeCorrect == Spec => []TypeOK
  <1>1. IInv => TypeOK
    BY DEF IInv
  <1> QED
    BY <1>1, Invariance, PTL

\* Every track that can claim an observation is the same track.
THEOREM OwnerUnique == Spec => []OneOwner
  <1>1. IInv => OneOwner
    BY Parts, FoundBelongs, BelongsUnique DEF OneOwner, RowsInv
  <1> QED
    BY <1>1, Invariance, PTL

\* An observation is attached to the track of its reference, settled only once
\* attached, projected only on its own track and announced only once projected,
\* although AppendTrack commits before its observation is marked and published.
THEOREM EvidenceCorrect == Spec => []EvidenceIsSound
  <1>1. IInv => EvidenceIsSound
    BY DEF IInv, EvidenceIsSound
  <1> QED
    BY <1>1, Invariance, PTL

\* The watermark is the time of the latest projection, and projections are
\* committed in the order of their observations' times.
THEOREM WatermarkCorrect == Spec => []WatermarkIsEvidence
  <1>1. IInv => WatermarkIsEvidence
    BY DEF IInv
  <1> QED
    BY <1>1, Invariance, PTL

\* Newest evidence is given up only to MaxAttempts other projections.
THEOREM LossCorrect == Spec => []LossNeedsContention
  <1>1. IInv => LossNeedsContention
    BY DEF IInv
  <1> QED
    BY <1>1, Invariance, PTL

\* No step moves a watermark back, reassigns evidence or unsettles it.
THEOREM NoRegress == Spec => NeverRegresses
  <1>1. IInv /\ [Next]_vars =>
          [/\ \A t \in Tracks : Exists(t) => lastSeen'[t] >= lastSeen[t]
           /\ \A o \in Obs : owner[o] # NoTrack => owner'[o] = owner[o]
           /\ \A o \in Obs : status[o] = "processed" => status'[o] = "processed"]_vars
    <2> SUFFICES ASSUME IInv, [Next]_vars
                 PROVE  /\ \A t \in Tracks : Exists(t) => lastSeen'[t] >= lastSeen[t]
                        /\ \A o \in Obs : owner[o] # NoTrack => owner'[o] = owner[o]
                        /\ \A o \in Obs : status[o] = "processed" => status'[o] = "processed"
      OBVIOUS
    <2>1. RowsGrow /\ TypeOK /\ TypeOK'
      BY InvStep DEF IInv
    <2> QED
      BY <2>1 DEF RowsGrow, TypeOK
  <1> QED
    BY <1>1, Invariance, PTL DEF Spec, NeverRegresses
-----------------------------------------------------------------------------
(* The pipeline implements the ledger                                      *)

Shown == [t \in Tracks |-> IF Exists(t) THEN lastSeen[t] ELSE -1]

LEMMA LedgerInit == Init => Ledger!Init
  BY DEF Init, Ledger!Init, Exists

LEMMA LedgerStutter ==
  ASSUME UNCHANGED rows
  PROVE  UNCHANGED Ledger!vars
  BY DEF rows, Ledger!vars, Exists

\* The insert of a track row is the ledger's opening of the track.
LEMMA LedgerOpen ==
  ASSUME TypeOK, NEW o \in Obs, status[o] # "absent", NEW t \in Tracks, InsertTrack(t, o)
  PROVE  Ledger!Next
  <1>1. Shown' = [Shown EXCEPT ![t] = ObservedAt[o]]
    BY DataAssumption DEF Shown, InsertTrack, TypeOK, Exists
  <1>2. Shown[t] = -1
    BY DEF Shown, InsertTrack
  <1>3. Ledger!Open(t, o)
    BY <1>1, <1>2 DEF Ledger!Open, InsertTrack, Shown
  <1> QED
    BY <1>3 DEF Ledger!Next

LEMMA LedgerStep ==
  ASSUME IInv, NEW r \in Requests, (\E o \in Obs : Ingest(r, o)) \/ Step(r) \/ Fault(r)
  PROVE  Ledger!Next \/ UNCHANGED Ledger!vars
  <1>1. TypeOK /\ RowsInv /\ req[r] \in Request /\ RequestInv(req[r])
    BY Parts
  <1>2. CASE UNCHANGED rows
    BY <1>2, LedgerStutter
  <1>3. ASSUME NEW o \in Obs, Ingest(r, o) PROVE Ledger!Next \/ UNCHANGED rows
    <2>1. CASE status[o] = "absent" /\ StoreRow(o)
      <3>1. UNCHANGED Shown
        BY <1>3 DEF Ingest, Shown, Exists
      <3>2. Ledger!Record(o)
        BY <1>3, <2>1, <3>1 DEF Ledger!Record, Ingest, StoreRow, Shown
      <3> QED
        BY <3>2 DEF Ledger!Next
    <2> QED
      BY <1>3, <2>1 DEF Ingest, rows
  <1>4. CASE Create(r) \/ CreateFails(r)
    <2>1. req[r].obs \in Obs /\ status[req[r].obs] # "absent"
      BY <1>4, Carries DEF Create, CreateFails, At
    <2> QED
      BY <1>1, <1>2, <1>4, <2>1, LedgerOpen DEF Create, CreateFails
  <1>5. CASE Attach(r)
    <2>1. PICK o \in Obs, t \in Tracks :
            o = req[r].obs /\ t = req[r].trk /\ Belongs(o, t) /\ status[o] # "absent"
      BY <1>1, <1>5 DEF Attach, At, RequestInv, Correlated
    <2>2. CASE owner[o] = NoTrack /\ owner' = [owner EXCEPT ![o] = t]
      <3>1. UNCHANGED Shown
        BY <1>5 DEF Attach, Shown, Exists
      <3>2. Shown[t] # -1
        BY <1>1, <2>1 DEF Shown, Belongs, TypeOK
      <3>3. Ledger!Own(o, t)
        BY <1>5, <2>1, <2>2, <3>1, <3>2 DEF Ledger!Own, Attach, Shown
      <3> QED
        BY <3>3 DEF Ledger!Next
    <2> QED
      BY <1>2, <1>5, <2>1, <2>2 DEF Attach, rows
  <1>6. CASE Update(r)
    <2>1. PICK o \in Obs, t \in Tracks :
            /\ o = req[r].obs /\ t = req[r].trk /\ Belongs(o, t) /\ owner[o] = t
            /\ req[r].expected <= ObservedAt[o]
      BY <1>1, <1>6 DEF Update, At, RequestInv, Correlated
    <2>2. CASE MayApply(o, t, req[r].expected, req[r].hadState) /\ Commit(o, t)
      <3>1. Shown' = [Shown EXCEPT ![t] = ObservedAt[o]]
        BY <1>1, <1>6, <2>1, <2>2 DEF Shown, Commit, Update, TypeOK, Exists, Belongs
      <3>2. Shown[t] = lastSeen[t] /\ lastSeen[t] = req[r].expected
        BY <2>1, <2>2 DEF Shown, Belongs, MayApply
      <3>3. owner[o] # NoTrack
        BY <2>1, DataAssumption
      <3>4. Ledger!Project(o)
        BY <1>6, <2>1, <2>2, <3>1, <3>2, <3>3 DEF Ledger!Project, Update, Commit, Shown
      <3> QED
        BY <3>4 DEF Ledger!Next
    <2> QED
      BY <1>2, <1>6, <2>1, <2>2 DEF Update, rows
  <1>7. CASE Mark(r)
    <2>1. PICK o \in Obs, t \in Tracks : o = req[r].obs /\ t = req[r].trk /\ owner[o] = t
      BY <1>1, <1>7 DEF Mark, RequestInv, Correlated
    <2>2. UNCHANGED Shown /\ owner[o] # NoTrack
      BY <1>7, <2>1, DataAssumption DEF Mark, Shown, Exists
    <2>3. Ledger!Settle(o)
      BY <1>7, <2>1, <2>2 DEF Ledger!Settle, Mark, Shown
    <2> QED
      BY <2>3 DEF Ledger!Next
  <1> QED
    BY <1>2, <1>3, <1>4, <1>5, <1>6, <1>7
    DEF Step, Load, FindOwner, FindRef, Resolve, ResolveRef, ReOwner, BeginUpdate,
        Reload, Publish, Fault, Abort, ResolveFails, MarkFails

\* Whatever the requests interleave, lose and replay, the rows change only as
\* the ledger's do: evidence is recorded once, owned once, and a track never
\* shows a time that is not its evidence's or is earlier than it has shown.
THEOREM Refinement == Spec => ImplementsLedger
  <1>1. Init => Ledger!Init
    BY LedgerInit
  <1>2. IInv /\ [Next]_vars => [Ledger!Next]_(Ledger!vars)
    <2> SUFFICES ASSUME IInv, [Next]_vars
                 PROVE  Ledger!Next \/ UNCHANGED Ledger!vars
      OBVIOUS
    <2>1. CASE Next
      BY <2>1, LedgerStep DEF Next
    <2>2. CASE UNCHANGED vars
      BY <2>2, LedgerStutter DEF vars
    <2> QED
      BY <2>1, <2>2
  <1> QED
    BY <1>1, <1>2, Invariance, PTL DEF Spec, ImplementsLedger, Ledger!Spec
=============================================================================
