------------------------ MODULE AssetTelemetryProofs ------------------------
(***************************************************************************)
(* Proofs about AssetTelemetry, for every set of samples and requests,     *)
(* every retry budget and any number of faults.                            *)
(***************************************************************************)
EXTENDS AssetTelemetry, TLAPS

-----------------------------------------------------------------------------
(* Types                                                                   *)

LEMMA FreshRowType == FreshRow \in Row
  BY DEF FreshRow, Row, NoMotion, Motion, States

LEMMA IdleType == Idle \in Request
  BY FreshRowType, BoundAssumption DEF Idle, Request, PCs

LEMMA MergeType ==
  ASSUME NEW s \in Samples, NEW seen \in Row, NEW row \in Row
  PROVE  Merge(s, seen, row) \in Row
  <1>1. MotionOf(s, seen, row) \in Motion
    BY DataAssumption DEF MotionOf, Motion, Row
  <1> QED
    BY <1>1, DataAssumption DEF Merge, Row

-----------------------------------------------------------------------------
(* A commit                                                                *)

\* What every step leaves of the row and its history: the row is replaced only by a
\* newer one, and the history only grows.
Grows ==
  /\ stored \subseteq stored'
  /\ state.lastSeen <= state'.lastSeen
  /\ state'.lastSeen = state.lastSeen => state' = state
  /\ Len(applied) <= Len(applied')
  /\ state.lastSeen < state'.lastSeen => Len(applied) < Len(applied')
  /\ \A i \in 1..Len(applied) : applied'[i] = applied[i]

LEMMA SameGrows ==
  ASSUME TypeOK, UNCHANGED <<state, applied>>, stored \subseteq stored'
  PROVE  Grows
  <1>1. state.lastSeen \in Nat /\ Len(applied) \in Nat
    BY DEF TypeOK, Row
  <1> QED
    BY <1>1 DEF Grows

\* The samples in the history are distinct, for their times are.
LEMMA AppliedOnce ==
  ASSUME TypeOK, StateIsProjection, NEW i \in 1..Len(applied), NEW j \in 1..Len(applied),
         applied[i] = applied[j]
  PROVE  i = j
  <1>1. applied[i] \in Samples /\ ObservedAt[applied[i]] \in Nat
    BY DataAssumption DEF TypeOK
  <1> QED
    BY <1>1 DEF StateIsProjection

\* The compare-and-set appends a newer sample, and the row stays the merge of the
\* history.
LEMMA CommitOK ==
  ASSUME TypeOK, StateIsProjection, ConnectionIsLast, NEW r \in Requests,
         req[r].sample \in Samples, Commit(r), stored' = stored
  PROVE  /\ state' \in Row
         /\ applied' \in Seq(Samples)
         /\ Len(applied') = Len(applied) + 1
         /\ applied'[Len(applied) + 1] = req[r].sample
         /\ state.lastSeen = req[r].seen.lastSeen
         /\ ObservedAt[req[r].sample] = state'.lastSeen
         /\ StateIsProjection'
         /\ ConnectionIsLast'
         /\ Grows
  <1> DEFINE s == req[r].sample
             n == Len(applied)
  <1>1. /\ state' = Merge(s, req[r].seen, state)
        /\ state.lastSeen = req[r].seen.lastSeen
        /\ state.lastSeen < ObservedAt[s]
        /\ applied' = Append(applied, s)
    BY DEF Commit, MayApply
  <1>2. /\ state \in Row /\ state.lastSeen \in Nat /\ ObservedAt[s] \in Nat
        /\ applied \in Seq(Samples) /\ n \in Nat /\ req[r].seen \in Row
    BY DataAssumption DEF TypeOK, Row, Request
  <1>3. /\ applied' \in Seq(Samples)
        /\ Len(applied') = n + 1
        /\ applied'[n + 1] = s
        /\ \A i \in 1..n : applied'[i] = applied[i] /\ applied[i] \in Samples
    BY <1>1, <1>2
  <1>4. state' \in Row
    BY <1>1, <1>2, MergeType
  <1>5. state'.lastSeen = ObservedAt[s] /\ state'.connection = Connection[s]
    BY <1>1 DEF Merge
  <1>6. Grows
    BY <1>1, <1>2, <1>3, <1>5 DEF Grows
  <1>7. ConnectionIsLast'
    BY <1>2, <1>3, <1>5 DEF ConnectionIsLast, ConnectionAfter
  <1>8. \A i, j \in 1..(n + 1) : i < j => ObservedAt[applied'[i]] < ObservedAt[applied'[j]]
    <2> SUFFICES ASSUME NEW i \in 1..(n + 1), NEW j \in 1..(n + 1), i < j
                 PROVE  ObservedAt[applied'[i]] < ObservedAt[applied'[j]]
      OBVIOUS
    <2>1. i \in 1..n /\ applied'[i] = applied[i]
      BY <1>2, <1>3
    <2>2. CASE j \in 1..n
      BY <1>3, <2>1, <2>2 DEF StateIsProjection
    <2>3. CASE j = n + 1
      <3>1. n \in 1..n /\ n # 0 /\ applied[i] \in Samples /\ applied[n] \in Samples
        BY <1>2, <1>3, <2>1
      <3>2. ObservedAt[applied[i]] <= ObservedAt[applied[n]]
        <4>1. CASE i = n
          BY <3>1, <4>1, DataAssumption
        <4>2. CASE i < n
          BY <2>1, <3>1, <4>2, DataAssumption DEF StateIsProjection
        <4> QED
          BY <1>2, <2>1, <4>1, <4>2
      <3>3. ObservedAt[applied[n]] = state.lastSeen
        BY <3>1 DEF StateIsProjection
      <3>4. ObservedAt[applied[i]] \in Nat /\ ObservedAt[applied[n]] \in Nat
        BY <3>1, DataAssumption
      <3>5. ObservedAt[applied'[i]] = ObservedAt[applied[i]] /\ ObservedAt[applied'[j]] = ObservedAt[s]
        BY <1>3, <2>1, <2>3
      <3> QED
        BY <1>1, <1>2, <3>2, <3>3, <3>4, <3>5
    <2> QED
      BY <1>2, <2>2, <2>3
  <1>9. \/ /\ state'.position = NoSample
           /\ \A i \in 1..(n + 1) : applied'[i] \notin Positioned
        \/ \E i \in 1..(n + 1) :
             /\ applied'[i] = state'.position
             /\ applied'[i] \in Positioned
             /\ \A j \in (i + 1)..(n + 1) : applied'[j] \notin Positioned
    <2>1. CASE s \in Positioned
      <3>1. state'.position = s
        BY <1>1, <2>1 DEF Merge
      <3>2. \A j \in ((n + 1) + 1)..(n + 1) : applied'[j] \notin Positioned
        BY <1>2
      <3>3. n + 1 \in 1..(n + 1)
        BY <1>2
      <3> QED
        BY <1>3, <2>1, <3>1, <3>2, <3>3
    <2>2. CASE s \notin Positioned
      <3>1. state'.position = state.position
        BY <1>1, <2>2 DEF Merge
      <3>2. CASE /\ state.position = NoSample
                 /\ \A i \in 1..n : applied[i] \notin Positioned
        <4>1. ASSUME NEW i \in 1..(n + 1) PROVE applied'[i] \notin Positioned
          BY <1>2, <1>3, <2>2, <3>2
        <4> QED
          BY <3>1, <3>2, <4>1
      <3>3. CASE \E i \in 1..n :
                   /\ applied[i] = state.position
                   /\ applied[i] \in Positioned
                   /\ \A j \in (i + 1)..n : applied[j] \notin Positioned
        <4>1. PICK i \in 1..n :
                /\ applied[i] = state.position
                /\ applied[i] \in Positioned
                /\ \A j \in (i + 1)..n : applied[j] \notin Positioned
          BY <3>3
        <4>2. ASSUME NEW j \in (i + 1)..(n + 1) PROVE applied'[j] \notin Positioned
          <5>1. CASE j = n + 1
            BY <1>3, <2>2, <5>1
          <5>2. CASE j \in (i + 1)..n
            <6>1. j \in 1..n
              BY <1>2, <5>2
            <6> QED
              BY <1>3, <4>1, <5>2, <6>1
          <5> QED
            BY <1>2, <5>1, <5>2
        <4>3. i \in 1..(n + 1) /\ applied'[i] = applied[i]
          BY <1>2, <1>3
        <4> QED
          BY <3>1, <4>1, <4>2, <4>3
      <3> QED
        BY <3>2, <3>3 DEF StateIsProjection
    <2> QED
      BY <2>1, <2>2
  <1>10. StateIsProjection'
    <2>1. Len(applied') # 0 /\ state'.lastSeen = ObservedAt[applied'[n + 1]]
      BY <1>2, <1>3, <1>5
    <2> QED
      BY <1>3, <1>8, <1>9, <2>1 DEF StateIsProjection
  <1> QED
    BY <1>1, <1>3, <1>4, <1>5, <1>6, <1>7, <1>10

-----------------------------------------------------------------------------
(* What a request knows stays true while the row moves on.                 *)

LEMMA ConnectionStable ==
  ASSUME TypeOK, Grows
  PROVE  /\ \A i \in 0..Len(applied) : ConnectionAfter(i)' = ConnectionAfter(i)
         /\ \A s \in Samples : ChangesConnection(s) => ChangesConnection(s)'
  <1>1. Len(applied) \in Nat
    BY DEF TypeOK
  <1>2. ASSUME NEW i \in 0..Len(applied) PROVE ConnectionAfter(i)' = ConnectionAfter(i)
    BY <1>1 DEF ConnectionAfter, Grows
  <1>3. ASSUME NEW s \in Samples, ChangesConnection(s) PROVE ChangesConnection(s)'
    <2>1. PICK i \in 1..Len(applied) :
            applied[i] = s /\ ConnectionAfter(i) # ConnectionAfter(i - 1)
      BY <1>3 DEF ChangesConnection
    <2>2. i \in 0..Len(applied) /\ i - 1 \in 0..Len(applied)
      BY <1>1
    <2>3. i \in 1..Len(applied') /\ applied'[i] = s
      BY <1>1, <2>1 DEF Grows
    <2>4. ConnectionAfter(i)' # ConnectionAfter(i - 1)'
      BY <1>2, <2>1, <2>2
    <2> QED
      BY <2>3, <2>4 DEF ChangesConnection
  <1> QED
    BY <1>2, <1>3

LEMMA RequestStable ==
  ASSUME TypeOK, TypeOK', Grows, NEW q \in Request, RequestInv(q)
  PROVE  RequestInv(q)'
  <1>1. /\ state.lastSeen \in Nat /\ state'.lastSeen \in Nat
        /\ Len(applied) \in Nat /\ Len(applied') \in Nat
        /\ q.seen.lastSeen \in Nat /\ q.attempt \in Nat
    BY BoundAssumption DEF TypeOK, Row, Request
  <1>2. q.pc # "idle" => q.sample \in stored /\ q.sample \in stored' /\ ObservedAt[q.sample] \in Nat
    BY DataAssumption DEF TypeOK, Grows, RequestInv
  <1>3. q.pc \in {"snapshot", "apply"} =>
          /\ q.attempt < MaxAttempts
          /\ q.attempt <= Len(applied') \/ ObservedAt[q.sample] <= state'.lastSeen
    BY <1>1, <1>2 DEF Grows, RequestInv
  <1>4. q.pc = "apply" =>
          /\ q.seen.lastSeen <= state'.lastSeen
          /\ q.seen.lastSeen = state'.lastSeen => q.seen = state'
          /\ q.seen.lastSeen < state'.lastSeen =>
               q.attempt < Len(applied') \/ ObservedAt[q.sample] <= state'.lastSeen
    BY <1>1, <1>2 DEF Grows, RequestInv
  <1>5. q.pc \in {"position", "connection"} =>
          /\ ~q.stale
          /\ \E i \in 1..Len(applied') :
               applied'[i] = q.sample /\ ConnectionAfter(i - 1)' = q.seen.connection
    <2> SUFFICES ASSUME q.pc \in {"position", "connection"}
                 PROVE  /\ ~q.stale
                        /\ \E i \in 1..Len(applied') :
                             applied'[i] = q.sample /\ ConnectionAfter(i - 1)' = q.seen.connection
      OBVIOUS
    <2>1. ~q.stale
      BY DEF RequestInv
    <2>2. PICK i \in 1..Len(applied) :
            applied[i] = q.sample /\ ConnectionAfter(i - 1) = q.seen.connection
      BY DEF RequestInv
    <2>3. i - 1 \in 0..Len(applied) /\ i \in 1..Len(applied') /\ applied'[i] = applied[i]
      BY <1>1 DEF Grows
    <2>4. ConnectionAfter(i - 1)' = ConnectionAfter(i - 1)
      BY <2>3, ConnectionStable
    <2> QED
      BY <2>1, <2>2, <2>3, <2>4
  <1>6. q.pc = "received" /\ q.stale =>
          ObservedAt[q.sample] <= state'.lastSeen \/ Len(applied') >= MaxAttempts
    BY <1>1, <1>2, BoundAssumption DEF Grows, RequestInv
  <1> QED
    BY <1>2, <1>3, <1>4, <1>5, <1>6 DEF RequestInv

-----------------------------------------------------------------------------
(* One lemma per action.                                                   *)

\* s waits in request q for its change of the connection to be announced.
Pending(q, s) == q.sample = s /\ q.pc \in {"position", "connection"}

\* What the step of request r shows for: its own record, and what it tells others.
Preserved(r) ==
  /\ Grows
  /\ TypeOK'
  /\ StateIsProjection'
  /\ ConnectionIsLast'
  /\ \A o \in Requests : o # r => req'[o] = req[o]
  /\ RequestInv(req[r])'
  /\ announced \subseteq announced' /\ dropped \subseteq dropped'
  /\ \A s \in Samples : s \in announced' => s \in announced \/ ChangesConnection(s)'
  /\ \A s \in Samples :
       ChangesConnection(s)' /\ (ChangesConnection(s) => Pending(req[r], s)) =>
         s \in announced' \/ s \in dropped' \/ Pending(req'[r], s)
  /\ \A s \in Samples : verdict'[s] = "stale" =>
       \/ verdict[s] = "stale"
       \/ ObservedAt[s] <= state'.lastSeen
       \/ Len(applied') >= MaxAttempts

\* A step of r that moves its record to q.
Moved(r, q) ==
  /\ q \in Request
  /\ req' \in [Requests -> Request]
  /\ req'[r] = q
  /\ \A o \in Requests : o # r => req'[o] = req[o]

LEMMA MovedTo ==
  ASSUME TypeOK, NEW r \in Requests, NEW q \in Request, req' = [req EXCEPT ![r] = q]
  PROVE  Moved(r, q)
  BY DEF TypeOK, Moved

\* The facts every step starts from.
LEMMA Parts ==
  ASSUME IInv, NEW r \in Requests
  PROVE  /\ TypeOK /\ StateIsProjection /\ ConnectionIsLast
         /\ req[r] \in Request /\ RequestInv(req[r])
         /\ req[r].pc # "idle" => req[r].sample \in Samples /\ ObservedAt[req[r].sample] \in Nat
         /\ state \in Row /\ state.lastSeen \in Nat /\ Len(applied) \in Nat
         /\ req[r].attempt \in Nat /\ req[r].seen \in Row /\ req[r].seen.lastSeen \in Nat
  BY BoundAssumption, DataAssumption DEF IInv, TypeOK, RequestInv, Row, Request

\* A step that leaves the row alone keeps every change of connection.
LEMMA QuietOK ==
  ASSUME IInv, NEW r \in Requests, UNCHANGED <<state, applied>>,
         stored \subseteq stored', stored' \subseteq Samples
  PROVE  /\ Grows
         /\ StateIsProjection' /\ ConnectionIsLast'
         /\ \A s \in Samples : ChangesConnection(s)' <=> ChangesConnection(s)
  <1>1. TypeOK /\ StateIsProjection /\ ConnectionIsLast
    BY Parts
  <1>2. Grows
    BY <1>1, SameGrows
  <1>3. StateIsProjection'
    BY <1>1 DEF StateIsProjection
  <1>4. ConnectionIsLast'
    BY <1>1 DEF ConnectionIsLast, ConnectionAfter
  <1>5. \A s \in Samples : ChangesConnection(s)' <=> ChangesConnection(s)
    BY DEF ChangesConnection, ConnectionAfter
  <1> QED
    BY <1>2, <1>3, <1>4, <1>5

LEMMA IngestOK ==
  ASSUME IInv, NEW r \in Requests, NEW s \in Samples, Ingest(r, s)
  PROVE  Preserved(r)
  <1> DEFINE q == [Idle EXCEPT !.sample = s, !.pc = "snapshot"]
  <1>1. TypeOK /\ req[r].pc = "idle"
    BY Parts DEF Ingest, At
  <1>2. /\ q \in Request
        /\ q.pc = "snapshot" /\ q.sample = s /\ q.attempt = 0
    BY IdleType DEF Idle, Request, PCs
  <1>3. Moved(r, q)
    BY <1>1, <1>2, MovedTo DEF Ingest
  <1>4. /\ Grows /\ StateIsProjection' /\ ConnectionIsLast'
        /\ \A x \in Samples : ChangesConnection(x)' <=> ChangesConnection(x)
    BY <1>1, QuietOK DEF Ingest, TypeOK
  <1>5. TypeOK'
    BY <1>1, <1>3 DEF Ingest, Moved, TypeOK
  <1>6. Len(applied) \in Nat
    BY Parts
  <1>7. RequestInv(req[r])'
    BY <1>2, <1>3, <1>6, BoundAssumption DEF RequestInv, Moved, Ingest
  <1> QED
    BY <1>1, <1>3, <1>4, <1>5, <1>7 DEF Preserved, Moved, Ingest, Pending

LEMMA SnapshotOK ==
  ASSUME IInv, NEW r \in Requests, Snapshot(r)
  PROVE  Preserved(r)
  <1>1. /\ TypeOK /\ req[r] \in Request /\ RequestInv(req[r]) /\ req[r].pc = "snapshot"
        /\ req[r].sample \in Samples /\ ObservedAt[req[r].sample] \in Nat
        /\ state \in Row /\ state.lastSeen \in Nat /\ Len(applied) \in Nat
    BY Parts DEF Snapshot, At
  <1>2. PICK q : /\ req' = [req EXCEPT ![r] = q]
                 /\ q \in Request
                 /\ q.sample = req[r].sample
                 /\ q.attempt = req[r].attempt
                 /\ q.seen = state
                 /\ \/ q.pc = "received" /\ ObservedAt[q.sample] < state.lastSeen
                    \/ q.pc = "apply"
    <2>1. CASE Older(req[r].sample, state)
      <3> DEFINE p == [req[r] EXCEPT !.seen = state, !.stale = TRUE, !.pc = "received"]
      <3>1. req' = [req EXCEPT ![r] = p]
        BY <1>1, <2>1 DEF Snapshot, TypeOK
      <3>2. /\ p \in Request /\ p.sample = req[r].sample /\ p.attempt = req[r].attempt
            /\ p.seen = state /\ p.pc = "received" /\ ObservedAt[p.sample] < state.lastSeen
        BY <1>1, <2>1 DEF Request, PCs, Older
      <3> QED
        BY <3>1, <3>2
    <2>2. CASE ~Older(req[r].sample, state)
      <3> DEFINE p == [req[r] EXCEPT !.seen = state, !.pc = "apply"]
      <3>1. req' = [req EXCEPT ![r] = p]
        BY <1>1, <2>2 DEF Snapshot, TypeOK
      <3>2. /\ p \in Request /\ p.sample = req[r].sample /\ p.attempt = req[r].attempt
            /\ p.seen = state /\ p.pc = "apply"
        BY <1>1 DEF Request, PCs
      <3> QED
        BY <3>1, <3>2
    <2> QED
      BY <2>1, <2>2
  <1>3. Moved(r, q)
    BY <1>1, <1>2, MovedTo
  <1>4. /\ Grows /\ StateIsProjection' /\ ConnectionIsLast'
        /\ \A x \in Samples : ChangesConnection(x)' <=> ChangesConnection(x)
    BY <1>1, QuietOK DEF Snapshot, TypeOK
  <1>5. TypeOK'
    BY <1>1, <1>3 DEF Snapshot, Moved, TypeOK
  <1>6. RequestInv(req[r])'
    <2>1. /\ q.sample \in stored' /\ q.attempt < MaxAttempts
          /\ q.attempt <= Len(applied) \/ ObservedAt[q.sample] <= state.lastSeen
      BY <1>1, <1>2 DEF RequestInv, Snapshot
    <2>2. state' = state /\ applied' = applied
      BY DEF Snapshot
    <2>3. req'[r] = q /\ q.seen = state'
      BY <1>2, <1>3, <2>2 DEF Moved
    <2>4. q.pc = "received" => ObservedAt[q.sample] <= state'.lastSeen
      BY <1>1, <1>2, <2>2
    <2>5. q.pc \in {"received", "apply"}
      BY <1>2
    <2>6. q.seen.lastSeen <= state'.lastSeen /\ ~(q.seen.lastSeen < state'.lastSeen)
      BY <1>1, <2>2, <2>3
    <2> QED
      BY <2>1, <2>2, <2>3, <2>4, <2>5, <2>6 DEF RequestInv
  <1>7. \A x \in Samples : ~Pending(req[r], x)
    BY <1>1 DEF Pending
  <1> QED
    BY <1>3, <1>4, <1>5, <1>6, <1>7 DEF Preserved, Moved, Snapshot

\* The sample a commit appends changes the connection just when the row it replaced
\* showed another one.
LEMMA CommitChanges ==
  ASSUME TypeOK, StateIsProjection, ConnectionIsLast, NEW r \in Requests,
         req[r].sample \in Samples, Commit(r), stored' = stored,
         NEW x \in Samples, x # req[r].sample, ChangesConnection(x)'
  PROVE  ChangesConnection(x)
  <1>1. /\ Grows /\ Len(applied) \in Nat /\ Len(applied') = Len(applied) + 1
        /\ applied'[Len(applied) + 1] = req[r].sample
    BY CommitOK DEF TypeOK
  <1>2. PICK i \in 1..Len(applied') :
          applied'[i] = x /\ ConnectionAfter(i)' # ConnectionAfter(i - 1)'
    BY DEF ChangesConnection
  <1>3. i \in 1..Len(applied) /\ applied[i] = x
    BY <1>1, <1>2 DEF Grows
  <1>4. ConnectionAfter(i)' = ConnectionAfter(i) /\ ConnectionAfter(i - 1)' = ConnectionAfter(i - 1)
    BY <1>1, <1>3, ConnectionStable
  <1> QED
    BY <1>2, <1>3, <1>4 DEF ChangesConnection

LEMMA ApplyOK ==
  ASSUME IInv, NEW r \in Requests, Apply(r)
  PROVE  Preserved(r)
  <1>1. /\ TypeOK /\ StateIsProjection /\ ConnectionIsLast
        /\ req[r] \in Request /\ RequestInv(req[r]) /\ req[r].pc = "apply"
        /\ req[r].sample \in Samples /\ ObservedAt[req[r].sample] \in Nat
        /\ state \in Row /\ state.lastSeen \in Nat /\ Len(applied) \in Nat
        /\ req[r].attempt \in Nat /\ req[r].seen.lastSeen \in Nat
    BY Parts DEF Apply, At
  <1>2. \A x \in Samples : ~Pending(req[r], x)
    BY <1>1 DEF Pending
  <1>3. CASE Commit(r) /\ req' = [req EXCEPT ![r] = [@ EXCEPT !.stale = FALSE, !.pc = "position"]]
    <2> DEFINE q == [req[r] EXCEPT !.stale = FALSE, !.pc = "position"]
    <2>1. /\ q \in Request /\ q.pc = "position" /\ ~q.stale
          /\ q.sample = req[r].sample /\ q.seen = req[r].seen
      BY <1>1 DEF Request, PCs
    <2>2. Moved(r, q)
      BY <1>1, <1>3, <2>1, MovedTo DEF TypeOK
    <2>3. /\ state' \in Row /\ applied' \in Seq(Samples)
          /\ Len(applied') = Len(applied) + 1
          /\ applied'[Len(applied) + 1] = req[r].sample
          /\ state.lastSeen = req[r].seen.lastSeen
          /\ StateIsProjection' /\ ConnectionIsLast' /\ Grows
      BY <1>1, <1>3, CommitOK DEF Apply
    <2>4. TypeOK'
      BY <1>1, <2>2, <2>3 DEF Apply, Moved, TypeOK
    <2>5. req[r].seen = state
      BY <1>1, <2>3 DEF RequestInv
    <2> PICK n \in Nat : n = Len(applied)
      BY <1>1
    <2>6. ConnectionAfter(n)' = req[r].seen.connection
      <3>1. ConnectionAfter(n)' = ConnectionAfter(n)
        BY <1>1, <2>3, ConnectionStable
      <3> QED
        BY <1>1, <2>5, <3>1 DEF ConnectionIsLast
    <2>7. RequestInv(req[r])'
      <3>1. n + 1 \in 1..Len(applied') /\ (n + 1) - 1 = n /\ applied'[n + 1] = q.sample
        BY <1>1, <2>1, <2>3
      <3>2. \E i \in 1..Len(applied') :
              applied'[i] = q.sample /\ ConnectionAfter(i - 1)' = q.seen.connection
        BY <2>1, <2>6, <3>1
      <3>3. q.sample \in stored'
        BY <1>1, <2>1 DEF RequestInv, Apply
      <3> QED
        BY <2>1, <2>2, <3>2, <3>3 DEF RequestInv, Moved
    <2>8. \A x \in Samples :
            ChangesConnection(x)' /\ ~ChangesConnection(x) => Pending(req'[r], x)
      <3> SUFFICES ASSUME NEW x \in Samples, ChangesConnection(x)', ~ChangesConnection(x)
                   PROVE  Pending(req'[r], x)
        OBVIOUS
      <3>1. x = req[r].sample
        BY <1>1, <1>3, CommitChanges DEF Apply
      <3> QED
        BY <2>1, <2>2, <3>1 DEF Pending, Moved
    <2> QED
      BY <1>2, <2>2, <2>3, <2>4, <2>7, <2>8 DEF Preserved, Moved, Apply
  <1>4. CASE /\ ~MayApply(req[r].sample, req[r].seen, state)
             /\ req' = [req EXCEPT ![r] =
                  [@ EXCEPT !.attempt = req[r].attempt + 1,
                            !.stale = TRUE,
                            !.pc = IF GiveUp(req[r].attempt + 1) THEN "received" ELSE "snapshot"]]
             /\ UNCHANGED <<state, applied>>
    <2> DEFINE q == [req[r] EXCEPT !.attempt = req[r].attempt + 1,
                       !.stale = TRUE,
                       !.pc = IF GiveUp(req[r].attempt + 1) THEN "received" ELSE "snapshot"]
    <2>1. /\ q.pc = IF GiveUp(req[r].attempt + 1) THEN "received" ELSE "snapshot"
          /\ q.sample = req[r].sample /\ q.attempt = req[r].attempt + 1
      BY <1>1 DEF Request
    <2>2. req[r].attempt < MaxAttempts
      BY <1>1 DEF RequestInv
    <2>3. q \in Request
      <3>1. req[r].attempt + 1 \in 0..MaxAttempts
        BY <1>1, <2>2, BoundAssumption
      <3> QED
        BY <1>1, <3>1 DEF Request, PCs
    <2>4. Moved(r, q)
      BY <1>1, <1>4, <2>3, MovedTo DEF TypeOK
    <2>5. /\ Grows /\ StateIsProjection' /\ ConnectionIsLast'
          /\ \A x \in Samples : ChangesConnection(x)' <=> ChangesConnection(x)
      BY <1>1, <1>4, QuietOK DEF Apply, TypeOK
    <2>6. TypeOK'
      BY <1>1, <1>4, <2>4 DEF Apply, Moved, TypeOK
    <2>7. req[r].attempt + 1 <= Len(applied) \/ ObservedAt[req[r].sample] <= state.lastSeen
      BY <1>1, <1>4 DEF RequestInv, MayApply
    <2>8. RequestInv(req[r])'
      <3>1. q.pc = "snapshot" => q.attempt < MaxAttempts
        BY <1>1, <2>1, BoundAssumption DEF GiveUp
      <3>2. q.pc = "received" => q.attempt >= MaxAttempts
        BY <1>1, <2>1, BoundAssumption DEF GiveUp
      <3>3. q.pc \in {"snapshot", "received"}
        BY <2>1
      <3>4. q.sample \in stored'
        BY <1>1, <2>1 DEF RequestInv, Apply
      <3>5. q.attempt <= Len(applied') \/ ObservedAt[q.sample] <= state'.lastSeen
        BY <1>4, <2>1, <2>7
      <3>6. q.pc = "received" => ObservedAt[q.sample] <= state'.lastSeen \/ Len(applied') >= MaxAttempts
        BY <1>1, <1>4, <2>1, <3>2, <3>5, BoundAssumption
      <3> QED
        BY <2>4, <3>1, <3>3, <3>4, <3>5, <3>6 DEF RequestInv, Moved
    <2> QED
      BY <1>2, <2>4, <2>5, <2>6, <2>8 DEF Preserved, Moved, Apply
  <1> QED
    BY <1>3, <1>4 DEF Apply

LEMMA PublishPositionOK ==
  ASSUME IInv, NEW r \in Requests, PublishPosition(r)
  PROVE  Preserved(r)
  <1> DEFINE q == [req[r] EXCEPT !.pc = "connection"]
  <1>1. /\ TypeOK /\ req[r] \in Request /\ RequestInv(req[r]) /\ req[r].pc = "position"
    BY Parts DEF PublishPosition, At
  <1>2. /\ q \in Request /\ q.pc = "connection"
        /\ q.sample = req[r].sample /\ q.seen = req[r].seen /\ q.stale = req[r].stale
    BY <1>1 DEF Request, PCs
  <1>3. Moved(r, q)
    BY <1>1, <1>2, MovedTo DEF PublishPosition, Goto
  <1>4. /\ Grows /\ StateIsProjection' /\ ConnectionIsLast'
        /\ \A x \in Samples : ChangesConnection(x)' <=> ChangesConnection(x)
    BY <1>1, QuietOK DEF PublishPosition, TypeOK
  <1>5. TypeOK'
    BY <1>1, <1>3 DEF PublishPosition, Moved, TypeOK
  <1>6. RequestInv(req[r])'
    <2>1. \E i \in 1..Len(applied) :
            applied[i] = q.sample /\ ConnectionAfter(i - 1) = q.seen.connection
      BY <1>1, <1>2 DEF RequestInv
    <2>2. \E i \in 1..Len(applied') :
            applied'[i] = q.sample /\ ConnectionAfter(i - 1)' = q.seen.connection
      BY <2>1 DEF PublishPosition, ConnectionAfter
    <2>3. q.sample \in stored' /\ ~q.stale
      BY <1>1, <1>2 DEF RequestInv, PublishPosition
    <2> QED
      BY <1>2, <1>3, <2>2, <2>3 DEF RequestInv, Moved
  <1>7. \A x \in Samples : Pending(req[r], x) => Pending(req'[r], x)
    BY <1>2, <1>3 DEF Pending, Moved
  <1> QED
    BY <1>3, <1>4, <1>5, <1>6, <1>7 DEF Preserved, Moved, PublishPosition

\* The row the request replaced decides whether its sample changed the connection.
LEMMA ChangedIsChange ==
  ASSUME IInv, NEW r \in Requests, req[r].pc \in {"position", "connection"}
  PROVE  Changed(req[r].sample, req[r].seen) <=> ChangesConnection(req[r].sample)
  <1>1. /\ TypeOK /\ StateIsProjection /\ RequestInv(req[r])
        /\ req[r].sample \in Samples /\ Len(applied) \in Nat
    BY Parts
  <1>2. PICK i \in 1..Len(applied) :
          applied[i] = req[r].sample /\ ConnectionAfter(i - 1) = req[r].seen.connection
    BY <1>1 DEF RequestInv
  <1>3. ConnectionAfter(i) = Connection[req[r].sample]
    BY <1>1, <1>2 DEF ConnectionAfter
  <1>4. \A j \in 1..Len(applied) : applied[j] = req[r].sample => j = i
    BY <1>1, <1>2, AppliedOnce
  <1> QED
    BY <1>2, <1>3, <1>4 DEF Changed, ChangesConnection

LEMMA PublishConnectionOK ==
  ASSUME IInv, NEW r \in Requests, PublishConnection(r)
  PROVE  Preserved(r)
  <1> DEFINE q == [req[r] EXCEPT !.pc = "received"]
  <1>1. /\ TypeOK /\ req[r] \in Request /\ RequestInv(req[r]) /\ req[r].pc = "connection"
        /\ req[r].sample \in Samples
    BY Parts DEF PublishConnection, At
  <1>2. /\ q \in Request /\ q.pc = "received"
        /\ q.sample = req[r].sample /\ q.stale = req[r].stale
    BY <1>1 DEF Request, PCs
  <1>3. Moved(r, q)
    BY <1>1, <1>2, MovedTo DEF PublishConnection, Goto
  <1>4. /\ Grows /\ StateIsProjection' /\ ConnectionIsLast'
        /\ \A x \in Samples : ChangesConnection(x)' <=> ChangesConnection(x)
    BY <1>1, QuietOK DEF PublishConnection, TypeOK
  <1>5. TypeOK'
    BY <1>1, <1>3 DEF PublishConnection, Moved, TypeOK
  <1>6. RequestInv(req[r])'
    BY <1>1, <1>2, <1>3 DEF RequestInv, Moved, PublishConnection
  <1>7. Changed(req[r].sample, req[r].seen) <=> ChangesConnection(req[r].sample)
    BY <1>1, ChangedIsChange
  <1>8. announced' = IF ChangesConnection(req[r].sample)
                     THEN announced \cup {req[r].sample} ELSE announced
    BY <1>7 DEF PublishConnection
  <1>9. \A x \in Samples : Pending(req[r], x) => x = req[r].sample
    BY DEF Pending
  <1> QED
    BY <1>3, <1>4, <1>5, <1>6, <1>8, <1>9 DEF Preserved, Moved, PublishConnection

\* A request that ends knows nothing.
LEMMA IdleInv == RequestInv(Idle)'
  BY DEF RequestInv, Idle

LEMMA PublishReceivedOK ==
  ASSUME IInv, NEW r \in Requests, PublishReceived(r)
  PROVE  Preserved(r)
  <1>1. /\ TypeOK /\ req[r] \in Request /\ RequestInv(req[r]) /\ req[r].pc = "received"
        /\ req[r].sample \in Samples
    BY Parts DEF PublishReceived, At
  <1>2. Moved(r, Idle)
    BY <1>1, IdleType, MovedTo DEF PublishReceived, Return
  <1>3. /\ Grows /\ StateIsProjection' /\ ConnectionIsLast'
        /\ \A x \in Samples : ChangesConnection(x)' <=> ChangesConnection(x)
    BY <1>1, QuietOK DEF PublishReceived, TypeOK
  <1>4. TypeOK'
    BY <1>1, <1>2 DEF PublishReceived, Moved, TypeOK
  <1>5. \A x \in Samples : ~Pending(req[r], x)
    BY <1>1 DEF Pending
  <1>6. req[r].stale => ObservedAt[req[r].sample] <= state.lastSeen \/ Len(applied) >= MaxAttempts
    BY <1>1 DEF RequestInv
  <1>7. \A x \in Samples : verdict'[x] = "stale" =>
          verdict[x] = "stale" \/ (x = req[r].sample /\ req[r].stale)
    BY <1>1 DEF PublishReceived, TypeOK
  <1>8. \A x \in Samples : verdict'[x] = "stale" =>
          \/ verdict[x] = "stale"
          \/ ObservedAt[x] <= state'.lastSeen
          \/ Len(applied') >= MaxAttempts
    BY <1>6, <1>7 DEF PublishReceived
  <1>9. RequestInv(req[r])'
    BY <1>2, IdleInv DEF Moved, RequestInv, Idle
  <1> QED
    BY <1>2, <1>3, <1>4, <1>5, <1>8, <1>9 DEF Preserved, Moved, PublishReceived

LEMMA FaultOK ==
  ASSUME IInv, NEW r \in Requests, Fault(r)
  PROVE  Preserved(r)
  <1>1. /\ TypeOK /\ StateIsProjection /\ ConnectionIsLast
        /\ req[r] \in Request /\ RequestInv(req[r])
        /\ req[r].sample \in Samples /\ faults' \in 0..MaxFaults
    BY Parts, BoundAssumption DEF Fault, At, TypeOK
  <1>2. Moved(r, Idle)
    BY <1>1, IdleType, MovedTo DEF Fault, Return
  <1>3. RequestInv(req[r])'
    BY <1>2, IdleInv DEF Moved, RequestInv, Idle
  <1>4. dropped' = dropped \cup {req[r].sample}
    BY DEF Fault
  <1>5. /\ Grows /\ StateIsProjection' /\ ConnectionIsLast'
        /\ state' \in Row /\ applied' \in Seq(Samples)
        /\ \A x \in Samples : ChangesConnection(x)' => ChangesConnection(x) \/ x = req[r].sample
    <2>1. CASE UNCHANGED <<state, applied>>
      BY <1>1, <2>1, QuietOK DEF Fault, TypeOK
    <2>2. CASE Commit(r)
      <3>1. /\ Grows /\ StateIsProjection' /\ ConnectionIsLast'
            /\ state' \in Row /\ applied' \in Seq(Samples)
        BY <1>1, <2>2, CommitOK DEF Fault
      <3>2. \A x \in Samples : ChangesConnection(x)' => ChangesConnection(x) \/ x = req[r].sample
        BY <1>1, <2>2, CommitChanges DEF Fault
      <3> QED
        BY <3>1, <3>2
    <2> QED
      BY <2>1, <2>2 DEF Fault
  <1>6. TypeOK'
    BY <1>1, <1>2, <1>4, <1>5 DEF Fault, Moved, TypeOK
  <1>7. \A x \in Samples : Pending(req[r], x) => x = req[r].sample
    BY DEF Pending
  <1> QED
    BY <1>2, <1>3, <1>4, <1>5, <1>6, <1>7 DEF Preserved, Moved, Fault

-----------------------------------------------------------------------------
(* The invariant                                                           *)

LEMMA InvInit == Init => IInv
  <1> SUFFICES ASSUME Init PROVE IInv
    OBVIOUS
  <1>1. applied \in Seq(Samples) /\ Len(applied) = 0 /\ faults \in 0..MaxFaults
    BY BoundAssumption DEF Init
  <1>2. TypeOK
    BY <1>1, FreshRowType, IdleType DEF Init, TypeOK
  <1>3. StateIsProjection /\ ConnectionIsLast
    BY <1>1 DEF Init, StateIsProjection, ConnectionIsLast, ConnectionAfter, FreshRow
  <1>4. ConnectionAnnounced /\ StaleNeedsReason
    BY <1>1 DEF Init, ConnectionAnnounced, StaleNeedsReason, ChangesConnection
  <1>5. \A r \in Requests : RequestInv(req[r])
    BY DEF Init, RequestInv, Idle
  <1> QED
    BY <1>2, <1>3, <1>4, <1>5 DEF IInv

LEMMA InvPreserved ==
  ASSUME IInv, NEW r \in Requests, Preserved(r)
  PROVE  IInv'
  <1>1. TypeOK /\ TypeOK' /\ Grows /\ ConnectionAnnounced /\ StaleNeedsReason
    BY DEF IInv, Preserved
  <1>2. \A o \in Requests : RequestInv(req[o])'
    <2> SUFFICES ASSUME NEW o \in Requests, o # r PROVE RequestInv(req[o])'
      BY DEF Preserved
    <2>1. req[o] \in Request /\ RequestInv(req[o]) /\ req'[o] = req[o]
      BY DEF IInv, TypeOK, Preserved
    <2>2. PICK q \in Request : q = req[o]
      BY <2>1
    <2>3. RequestInv(q)'
      BY <1>1, <2>1, <2>2, RequestStable
    <2> QED
      BY <2>1, <2>2, <2>3 DEF RequestInv
  <1>3. ConnectionAnnounced'
    <2> SUFFICES ASSUME NEW s \in Samples
                 PROVE  /\ s \in announced' => ChangesConnection(s)'
                        /\ ChangesConnection(s)' =>
                             \/ s \in announced'
                             \/ s \in dropped'
                             \/ \E o \in Requests :
                                  req'[o].sample = s /\ req'[o].pc \in {"position", "connection"}
      BY DEF ConnectionAnnounced
    <2>1. s \in announced' => ChangesConnection(s)'
      BY <1>1, ConnectionStable DEF ConnectionAnnounced, Preserved
    <2>2. ASSUME ChangesConnection(s)', s \notin announced', s \notin dropped'
          PROVE  \E o \in Requests : Pending(req'[o], s)
      <3>1. CASE ChangesConnection(s) /\ ~Pending(req[r], s)
        <4>1. PICK o \in Requests : Pending(req[o], s)
          BY <1>1, <2>2, <3>1 DEF ConnectionAnnounced, Preserved, Pending
        <4>2. o # r /\ req'[o] = req[o]
          BY <3>1, <4>1 DEF Preserved
        <4> QED
          BY <4>1, <4>2
      <3>2. CASE ChangesConnection(s) => Pending(req[r], s)
        BY <2>2, <3>2 DEF Preserved
      <3> QED
        BY <3>1, <3>2
    <2> QED
      BY <2>1, <2>2 DEF Pending
  <1>4. StaleNeedsReason'
    <2> SUFFICES ASSUME NEW s \in Samples, verdict'[s] = "stale"
                 PROVE  ObservedAt[s] <= state'.lastSeen \/ Len(applied') >= MaxAttempts
      BY DEF StaleNeedsReason
    <2>1. CASE verdict[s] = "stale"
      <3>1. ObservedAt[s] <= state.lastSeen \/ Len(applied) >= MaxAttempts
        BY <1>1, <2>1 DEF StaleNeedsReason
      <3>2. /\ ObservedAt[s] \in Nat /\ state.lastSeen \in Nat /\ state'.lastSeen \in Nat
            /\ Len(applied) \in Nat /\ Len(applied') \in Nat
        BY <1>1, DataAssumption DEF TypeOK, Row
      <3> QED
        BY <1>1, <3>1, <3>2, BoundAssumption DEF Grows
    <2>2. CASE verdict[s] # "stale"
      BY <2>2 DEF Preserved
    <2> QED
      BY <2>1, <2>2
  <1> QED
    BY <1>1, <1>2, <1>3, <1>4 DEF IInv, Preserved

LEMMA InvStep == IInv /\ [Next]_vars => IInv'
  <1> SUFFICES ASSUME IInv, [Next]_vars PROVE IInv'
    OBVIOUS
  <1>1. ASSUME NEW r \in Requests, (\E s \in Samples : Ingest(r, s)) \/ Step(r) \/ Fault(r)
        PROVE  IInv'
    <2>1. Preserved(r)
      BY <1>1, IngestOK, SnapshotOK, ApplyOK, PublishPositionOK, PublishConnectionOK,
         PublishReceivedOK, FaultOK DEF Step
    <2> QED
      BY <2>1, InvPreserved
  <1>2. CASE UNCHANGED vars
    BY <1>2 DEF vars, IInv, TypeOK, StateIsProjection, ConnectionIsLast, ConnectionAnnounced,
       StaleNeedsReason, RequestInv, ChangesConnection, ConnectionAfter
  <1> QED
    BY <1>1, <1>2 DEF Next

\* Whatever the requests interleave and lose, the invariant holds: the row is the
\* merge of its history, and a request that read the row at its present watermark
\* knows the present row.
THEOREM Invariance == Spec => []IInv
  BY InvInit, InvStep, PTL DEF Spec

\* Every variable keeps its type, and no request exceeds its attempts.
THEOREM TypeCorrect == Spec => []TypeOK
  <1>1. IInv => TypeOK
    BY DEF IInv
  <1> QED
    BY <1>1, Invariance, PTL

\* The asset's row is the merge of its samples in the order of observation.
THEOREM ProjectionCorrect == Spec => []StateIsProjection
  <1>1. IInv => StateIsProjection
    BY DEF IInv
  <1> QED
    BY <1>1, Invariance, PTL

\* asset.connection.changed is published for exactly the changes that happened, and a
\* source is told that its sample is stale only when it is, or after it lost every attempt.
THEOREM AnswersCorrect == Spec => []AnswersAreTrue
  <1>1. IInv => AnswersAreTrue
    BY DEF IInv, AnswersAreTrue
  <1> QED
    BY <1>1, Invariance, PTL

\* A committed row's motion was derived from the row it replaced.
LEMMA CommitMotion ==
  ASSUME IInv, NEW r \in Requests, At(r, "apply"), Commit(r), state'.motion # state.motion
  PROVE  \/ state'.motion.base = state'.motion.of
         \/ /\ state'.motion.base = state.position
            /\ state'.motion.since = state.lastSeen
  <1>1. RequestInv(req[r]) /\ req[r].pc = "apply" /\ state.lastSeen \in Nat
    BY Parts DEF At
  <1>2. req[r].seen = state
    BY <1>1 DEF RequestInv, Commit, MayApply
  <1>3. state'.motion = MotionOf(req[r].sample, state, state)
    BY <1>2 DEF Commit, Merge
  <1> QED
    BY <1>3 DEF MotionOf

\* The motion an asset shows is never derived from a row that another sample had
\* replaced since it was read.
THEOREM MotionCorrect == Spec => MotionFromPredecessor
  <1> DEFINE A == state'.motion # state.motion =>
                    \/ state'.motion.base = state'.motion.of
                    \/ /\ state'.motion.base = state.position
                       /\ state'.motion.since = state.lastSeen
  <1>1. IInv /\ [Next]_vars => [A]_vars
    <2> SUFFICES ASSUME IInv, Next, state'.motion # state.motion PROVE A
      BY DEF vars
    <2>1. PICK r \in Requests : At(r, "apply") /\ Commit(r)
      BY DEF Next, Step, Ingest, Snapshot, Apply, PublishPosition, PublishConnection,
             PublishReceived, Fault
    <2> QED
      BY <2>1, CommitMotion
  <1> QED
    BY <1>1, Invariance, PTL DEF Spec, MotionFromPredecessor
=============================================================================
