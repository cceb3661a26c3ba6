------------------------ MODULE RealtimeStreamProofs ------------------------
(***************************************************************************)
(* Proofs about RealtimeStream, for every selection of topics and views,   *)
(* every buffer size and any number of changes, lost connections, replays  *)
(* and failed queries.                                                     *)
(***************************************************************************)
EXTENDS RealtimeStream, TLAPS

-----------------------------------------------------------------------------
(* Types                                                                   *)

LEMMA InitType == Init => TypeOK
  BY BoundAssumption DEF Init, TypeOK, Reasons, Budget

LEMMA InvalidateType ==
  ASSUME TypeOK, NEW views, NEW lost, NEW reason \in Reasons, Invalidate(views, lost, reason)
  PROVE  /\ fetch' \in [Views -> {"idle", "sent", "answered", "failed"}]
         /\ missed' \in [Views -> Reasons]
         /\ UNCHANGED <<answer, cache>>
  BY DEF TypeOK, Invalidate, Reasons

LEMMA SpendOne ==
  ASSUME NEW s \in Budget
  PROVE  /\ s.commits < MaxCommits => [s EXCEPT !.commits = @ + 1] \in Budget
         /\ s.drops < MaxDrops => [s EXCEPT !.drops = @ + 1] \in Budget
         /\ s.replays < MaxReplays => [s EXCEPT !.replays = @ + 1] \in Budget
         /\ s.fails < MaxFails => [s EXCEPT !.fails = @ + 1] \in Budget
  <1>1. /\ s.commits \in 0..MaxCommits /\ s.drops \in 0..MaxDrops
        /\ s.replays \in 0..MaxReplays /\ s.fails \in 0..MaxFails
    BY DEF Budget
  <1>2. /\ s.commits < MaxCommits => s.commits + 1 \in 0..MaxCommits
        /\ s.drops < MaxDrops => s.drops + 1 \in 0..MaxDrops
        /\ s.replays < MaxReplays => s.replays + 1 \in 0..MaxReplays
        /\ s.fails < MaxFails => s.fails + 1 \in 0..MaxFails
    BY <1>1, BoundAssumption
  <1> QED
    BY <1>1, <1>2 DEF Budget

LEMMA NextType == TypeOK /\ [Next]_vars => TypeOK'
  <1> SUFFICES ASSUME TypeOK, [Next]_vars PROVE TypeOK'
    OBVIOUS
  <1> USE DEF server, socket, queries
  <1>1. CASE UNCHANGED vars
    BY <1>1 DEF TypeOK, vars
  <1>2. ASSUME NEW t \in Topics, Commit(t) PROVE TypeOK'
    <2>1. data' \in [Views -> Nat \ {0}]
      BY <1>2 DEF TypeOK, Commit
    <2>2. unsent' \in [Topics -> Nat]
      BY <1>2 DEF TypeOK, Commit
    <2>3. spent' \in Budget
      BY <1>2, SpendOne DEF TypeOK, Commit
    <2> QED
      BY <2>1, <2>2, <2>3, <1>2 DEF TypeOK, Commit
  <1>3. ASSUME NEW t \in Topics, Publish(t) PROVE TypeOK'
    <2>1. unsent' \in [Topics -> Nat]
      BY <1>3 DEF TypeOK, Publish
    <2>2. missed' \in [Views -> Reasons]
      BY <1>3 DEF TypeOK, Publish, Reasons
    <2>3. buffer' \in Seq(Topics) /\ conn' \in {"none", conn}
      <3>1. Append(buffer, t) \in Seq(Topics)
        BY DEF TypeOK
      <3>2. <<>> \in Seq(Topics) /\ buffer \in Seq(Topics)
        BY DEF TypeOK
      <3>3. buffer' = <<>> \/ buffer' = buffer \/ buffer' = Append(buffer, t)
        BY <1>3 DEF Publish, Overflow
      <3>4. conn' \in {"none", conn}
        BY <1>3 DEF Publish, Overflow
      <3> QED
        BY <3>1, <3>2, <3>3, <3>4
    <2>4. Len(buffer') <= BufferSize
      <3>1. Len(buffer) \in Nat /\ Len(buffer) <= BufferSize /\ BufferSize \in Nat
        BY BoundAssumption DEF TypeOK
      <3>2. CASE buffer' = Append(buffer, t) /\ ~Full
        <4>1. Len(buffer') = Len(buffer) + 1
          BY <3>2 DEF TypeOK
        <4> QED
          BY <4>1, <3>1, <3>2 DEF Full
      <3>3. CASE buffer' = <<>> \/ buffer' = buffer
        BY <3>1, <3>3
      <3> QED
        BY <3>2, <3>3, <1>3 DEF Publish, Overflow
    <2> QED
      BY <2>1, <2>2, <2>3, <2>4, <1>3 DEF TypeOK, Publish
  <1>4. CASE Register
    BY <1>4 DEF TypeOK, Register
  <1>5. CASE Drop
    <2>1. spent' \in Budget /\ unsent' \in [Topics -> Nat]
      <3>1. spent' \in Budget
        BY <1>5, SpendOne DEF TypeOK, Drop
      <3>2. [t \in Topics |-> 0] \in [Topics -> Nat]
        OBVIOUS
      <3> QED
        BY <3>1, <3>2, <1>5 DEF TypeOK, Drop
    <2> QED
      BY <2>1, <1>5, BoundAssumption DEF TypeOK, Drop
  <1>6. CASE Connect
    BY <1>6, BoundAssumption DEF TypeOK, Connect
  <1>7. CASE OnOpen
    <2>1. "none" \in Reasons
      BY DEF Reasons
    <2> QED
      BY <2>1, <1>7, InvalidateType DEF TypeOK, OnOpen, Resync
  <1>8. CASE OnClose
    BY <1>8 DEF TypeOK, OnClose
  <1>9. CASE OnMessage
    <2>1. "unmapped" \in Reasons /\ "replay" \in Reasons
      BY DEF Reasons
    <2>2. buffer' \in Seq(Topics) /\ Len(buffer') <= BufferSize
      BY <1>9, BoundAssumption DEF TypeOK, OnMessage
    <2> QED
      BY <2>1, <2>2, <1>9, InvalidateType DEF TypeOK, OnMessage
  <1>10. ASSUME NEW v \in Views, Answer(v) PROVE TypeOK'
    BY <1>10 DEF TypeOK, Answer
  <1>11. ASSUME NEW v \in Views, Receive(v) PROVE TypeOK'
    BY <1>11 DEF TypeOK, Receive
  <1>12. ASSUME NEW v \in Views, Fail(v) PROVE TypeOK'
    <2>1. spent' \in Budget
      BY <1>12, SpendOne DEF TypeOK, Fail
    <2> QED
      BY <2>1, <1>12 DEF TypeOK, Fail
  <1>13. CASE Scrub
    <2>1. spent' \in Budget
      BY <1>13, SpendOne DEF TypeOK, Scrub
    <2> QED
      BY <2>1, <1>13 DEF TypeOK, Scrub
  <1>14. CASE ReturnToLive
    BY <1>14 DEF TypeOK, ReturnToLive
  <1>15. CASE Silence
    <2>1. spent' \in Budget
      BY <1>15, SpendOne DEF TypeOK, Silence
    <2>2. missed' \in [Views -> Reasons]
      BY <1>15 DEF TypeOK, Silence, Reasons
    <2> QED
      BY <2>1, <2>2, <1>15 DEF TypeOK, Silence
  <1> QED
    BY <1>1, <1>2, <1>3, <1>4, <1>5, <1>6, <1>7, <1>8, <1>9, <1>10, <1>11, <1>12, <1>13,
       <1>14, <1>15 DEF Next

-----------------------------------------------------------------------------
(* Every stale view is explained                                           *)

Explained(v) == RefreshComing(v) \/ fetch[v] = "failed" \/ missed[v] # "none"

\* An invalidation either starts a fetch, or finds a first load that is still to be
\* answered, or records that it came too late for it.
LEMMA InvalidateExplains ==
  ASSUME TypeOK, NEW views, NEW lost, NEW reason, Invalidate(views, lost, reason),
         NEW v \in Views, v \in views
  PROVE  fetch'[v] = "sent" \/ missed'[v] # "none"
  BY DEF TypeOK, Invalidate, Refetches, InFlight

LEMMA NextExplained == IInv /\ [Next]_vars => StaleIsExplained'
  <1> SUFFICES ASSUME IInv, [Next]_vars, NEW v \in Views, cache'[v] # data'[v]
               PROVE  Explained(v)'
    BY DEF StaleIsExplained, Explained
  <1>a. TypeOK
    BY DEF IInv
  <1>b. cache[v] # data[v] => Explained(v)
    BY DEF IInv, StaleIsExplained, Explained
  <1> USE DEF server, socket, queries
  <1>1. CASE UNCHANGED vars
    BY <1>1, <1>b DEF vars, Explained, RefreshComing
  <1>2. ASSUME NEW t \in Topics, Commit(t) PROVE Explained(v)'
    <2>1. \A u \in Topics : unsent[u] <= unsent'[u]
      BY <1>2, <1>a DEF TypeOK, Commit
    <2>2. CASE v \in Concern[t]
      <3>1. unsent'[t] > 0
        BY <1>2, <1>a DEF TypeOK, Commit
      <3> QED
        BY <3>1, <2>2 DEF Explained, RefreshComing
    <2>3. CASE v \notin Concern[t]
      <3>1. data'[v] = data[v]
        BY <1>2, <2>3 DEF Commit
      <3>2. \A u \in Topics : unsent[u] > 0 => unsent'[u] > 0
        BY <2>1, <1>2, <1>a DEF TypeOK, Commit
      <3> QED
        BY <3>1, <3>2, <1>2, <1>b DEF Commit, Explained, RefreshComing
    <2> QED
      BY <2>2, <2>3
  <1>3. ASSUME NEW t \in Topics, Publish(t) PROVE Explained(v)'
    <2>1. UNCHANGED <<data, link, fetch, answer, cache>> /\ Explained(v)
      BY <1>3, <1>b DEF Publish
    <2>2. missed[v] # "none" => missed'[v] # "none"
      BY <1>3, <1>a DEF Publish, TypeOK
    <2>3. CASE conn' = "none"
      BY <2>3 DEF Explained, RefreshComing
    <2>4. CASE conn' # "none" /\ v \in Concern[t]
      <3>1. CASE conn' = "registered"
        <4>1. buffer' = Append(buffer, t)
          BY <1>3, <3>1 DEF Publish, Overflow, IsClient
        <4>2. buffer'[Len(buffer')] = t /\ Len(buffer') \in 1..Len(buffer')
          BY <4>1, <1>a DEF TypeOK
        <4> QED
          BY <4>2, <2>4, <3>1 DEF Explained, RefreshComing
      <3>3. CASE conn' = "mute"
        <4>1. missed'[v] \in {"gap", "mute"}
          BY <1>3, <2>4, <3>3 DEF Publish
        <4> QED
          BY <4>1 DEF Explained
      <3>2. CASE conn' = "accepted"
        <4>1. conn = "accepted"
          BY <1>3, <3>2 DEF Publish, Overflow
        <4>2. InGap => missed'[v] = "gap"
          BY <1>3, <2>4 DEF Publish
        <4> QED
          BY <4>1, <4>2, <2>1 DEF InGap, Explained, RefreshComing
      <3>4. conn' \in {"registered", "mute", "accepted"}
        BY <1>3, <1>a, <2>4 DEF Publish, Overflow, TypeOK
      <3> QED
        BY <3>1, <3>2, <3>3, <3>4
    <2>5. CASE conn' # "none" /\ v \notin Concern[t]
      <3>1. conn' = conn
        BY <1>3, <2>5 DEF Publish, Overflow
      <3>2. ASSUME NEW u \in Topics, unsent[u] > 0, v \in Concern[u]
            PROVE  unsent'[u] > 0
        BY <3>2, <2>5, <1>3, <1>a DEF Publish, TypeOK
      <3>3. ASSUME NEW i \in 1..Len(buffer), v \in Concern[buffer[i]]
            PROVE  \E j \in 1..Len(buffer') : v \in Concern[buffer'[j]]
        <4>1. buffer' = buffer \/ buffer' = Append(buffer, t)
          BY <1>3, <2>5 DEF Publish, Overflow
        <4>2. CASE buffer' = Append(buffer, t)
          <5>1. Len(buffer') = Len(buffer) + 1 /\ buffer'[i] = buffer[i] /\ Len(buffer) \in Nat
            BY <4>2, <1>a DEF TypeOK
          <5> QED
            BY <5>1, <3>3
        <4> QED
          BY <4>1, <4>2, <3>3
      <3> QED
        BY <2>1, <2>2, <3>1, <3>2, <3>3 DEF Explained, RefreshComing
    <2> QED
      BY <2>3, <2>4, <2>5
  <1>4. CASE Register
    BY <1>4, <1>b DEF Register, Explained, RefreshComing
  <1>5. CASE Drop
    BY <1>5 DEF Drop, Explained, RefreshComing
  <1>6. CASE Connect
    BY <1>6 DEF Connect, Explained, RefreshComing
  <1>7. CASE OnOpen
    BY <1>7, <1>a, InvalidateExplains DEF OnOpen, Resync, Explained, RefreshComing
  <1>8. CASE OnClose
    BY <1>8 DEF OnClose, Explained, RefreshComing
  <1>9. CASE OnMessage
    <2> DEFINE t == Head(buffer)
    <2>1. Explained(v) /\ UNCHANGED <<data, unsent, conn, link, answer, cache>>
      BY <1>9, <1>b DEF OnMessage, Invalidate
    <2>2. link = "up" /\ buffer # <<>> /\ buffer' = Tail(buffer) /\ t = buffer[1]
      BY <1>9, <1>a DEF OnMessage, TypeOK
    <2>3. CASE live /\ v \in Invalidates[t]
      <3>1. Invalidate(Invalidates[t], Concern[t], "unmapped")
        BY <1>9, <2>3 DEF OnMessage
      <3>2. fetch'[v] = "sent" \/ missed'[v] # "none"
        BY <3>1, <2>3, <1>a, InvalidateExplains
      <3> QED
        BY <3>2 DEF Explained, RefreshComing
    <2>4. CASE ~(live /\ v \in Invalidates[t]) /\ v \in Concern[t]
      <3>1. missed'[v] \in {"unmapped", "replay"}
        BY <1>9, <2>4, <1>a DEF OnMessage, Invalidate
      <3> QED
        BY <3>1 DEF Explained
    <2>5. CASE ~(live /\ v \in Invalidates[t]) /\ v \notin Concern[t]
      <3>1. fetch'[v] = fetch[v] /\ missed'[v] = missed[v]
        BY <1>9, <2>5, <1>a DEF OnMessage, Invalidate
      <3>2. ASSUME NEW i \in 1..Len(buffer), v \in Concern[buffer[i]]
            PROVE  \E j \in 1..Len(buffer') : v \in Concern[buffer'[j]]
        <4>1. i # 1
          BY <3>2, <2>2, <2>5
        <4>2. i - 1 \in 1..Len(buffer') /\ buffer'[i - 1] = buffer[i]
          BY <4>1, <2>2, <1>a DEF TypeOK
        <4> QED
          BY <4>2, <3>2
      <3> QED
        BY <2>1, <3>1, <3>2 DEF Explained, RefreshComing
    <2> QED
      BY <2>3, <2>4, <2>5
  <1>10. ASSUME NEW w \in Views, Answer(w) PROVE Explained(v)'
    <2>1. CASE w = v
      BY <2>1, <1>10, <1>a DEF TypeOK, Answer, Explained, RefreshComing
    <2>2. CASE w # v
      BY <2>2, <1>10, <1>a, <1>b DEF TypeOK, Answer, Explained, RefreshComing
    <2> QED
      BY <2>1, <2>2
  <1>11. ASSUME NEW w \in Views, Receive(w) PROVE Explained(v)'
    <2>1. CASE w = v
      <3>1. fetch[v] = "answered" /\ answer[v] # data[v] /\ fetch'[v] = "idle"
        BY <2>1, <1>11, <1>a DEF TypeOK, Receive
      <3>2. cache[v] # data[v]
        <4>1. cache[v] \in Nat /\ answer[v] \in Nat /\ data[v] \in Nat
          BY <1>a DEF TypeOK
        <4> QED
          BY <4>1, <3>1 DEF IInv, AnswerIsPast
      <3> QED
        BY <3>1, <3>2, <1>11, <1>b DEF Receive, Explained, RefreshComing
    <2>2. CASE w # v
      BY <2>2, <1>11, <1>a, <1>b DEF TypeOK, Receive, Explained, RefreshComing
    <2> QED
      BY <2>1, <2>2
  <1>12. ASSUME NEW w \in Views, Fail(w) PROVE Explained(v)'
    BY <1>12, <1>a, <1>b DEF TypeOK, Fail, Explained, RefreshComing
  <1>13. CASE Scrub
    BY <1>13, <1>b DEF Scrub, Explained, RefreshComing
  <1>14. CASE ReturnToLive
    BY <1>14, <1>b DEF ReturnToLive, Explained, RefreshComing
  <1>15. CASE Silence
    <2>1. UNCHANGED <<data, unsent, buffer, link, fetch, answer, cache>> /\ Explained(v)
      BY <1>15, <1>b DEF Silence
    <2>2. conn = "registered"
      BY <1>15 DEF Silence
    <2>3. CASE \E i \in 1..Len(buffer) : v \in Concern[buffer[i]]
      <3>1. missed'[v] = "mute"
        BY <1>15, <2>3 DEF Silence
      <3> QED
        BY <3>1 DEF Explained
    <2>4. CASE ~(\E i \in 1..Len(buffer) : v \in Concern[buffer[i]])
      <3>1. missed'[v] = missed[v]
        BY <1>15, <2>4 DEF Silence
      <3> QED
        BY <3>1, <2>1, <2>2, <2>4 DEF Explained, RefreshComing
    <2> QED
      BY <2>3, <2>4
  <1> QED
    BY <1>1, <1>2, <1>3, <1>4, <1>5, <1>6, <1>7, <1>8, <1>9, <1>10, <1>11, <1>12, <1>13,
       <1>14, <1>15 DEF Next
-----------------------------------------------------------------------------
(* Answers                                                                 *)

LEMMA NextPast == TypeOK /\ AnswerIsPast /\ [Next]_vars => AnswerIsPast'
  <1> SUFFICES ASSUME TypeOK, AnswerIsPast, [Next]_vars, NEW v \in Views
               PROVE  /\ cache'[v] <= data'[v]
                      /\ fetch'[v] = "answered" => cache'[v] <= answer'[v] /\ answer'[v] <= data'[v]
    BY DEF AnswerIsPast
  <1> USE DEF server, socket, queries
  <1>a. cache[v] \in Nat /\ answer[v] \in Nat /\ data[v] \in Nat
    BY DEF TypeOK
  <1>b. /\ cache[v] <= data[v]
        /\ fetch[v] = "answered" => cache[v] <= answer[v] /\ answer[v] <= data[v]
    BY DEF AnswerIsPast
  <1>1. CASE UNCHANGED <<data, fetch, answer, cache>>
    BY <1>1, <1>b
  <1>2. ASSUME NEW t \in Topics, Commit(t)
        PROVE  UNCHANGED <<fetch, answer, cache>> /\ data'[v] \in {data[v], data[v] + 1}
    BY <1>2 DEF Commit
  <1>3. ASSUME NEW views, NEW lost, NEW reason, Invalidate(views, lost, reason)
        PROVE  UNCHANGED <<answer, cache>> /\ fetch'[v] \in {fetch[v], "sent"}
    BY <1>3 DEF Invalidate
  <1>4. CASE OnOpen
    <2>1. UNCHANGED <<data, answer, cache>> /\ fetch'[v] \in {fetch[v], "sent"}
      BY <1>4, <1>3 DEF OnOpen, Resync
    <2> QED
      BY <2>1, <1>b
  <1>5. CASE OnMessage
    <2>1. UNCHANGED <<data, answer, cache>> /\ fetch'[v] \in {fetch[v], "sent"}
      BY <1>5, <1>3 DEF OnMessage
    <2> QED
      BY <2>1, <1>b
  <1>6. ASSUME NEW w \in Views, Answer(w)
        PROVE  /\ UNCHANGED <<data, cache>>
               /\ w = v => answer'[v] = data[v]
               /\ w # v => answer'[v] = answer[v] /\ fetch'[v] = fetch[v]
    BY <1>6 DEF Answer, TypeOK
  <1>7. ASSUME NEW w \in Views, Receive(w)
        PROVE  /\ UNCHANGED <<data, answer>>
               /\ w = v => fetch[v] = "answered" /\ cache'[v] = answer[v] /\ fetch'[v] = "idle"
               /\ w # v => cache'[v] = cache[v] /\ fetch'[v] = fetch[v]
    BY <1>7 DEF Receive, TypeOK
  <1>8. ASSUME NEW w \in Views, Fail(w)
        PROVE  UNCHANGED <<data, answer, cache>> /\ fetch'[v] \in {fetch[v], "failed"}
    BY <1>8 DEF Fail, TypeOK
  <1>9. CASE \E t \in Topics : Commit(t)
    BY <1>9, <1>2, <1>a, <1>b
  <1>10. CASE \E w \in Views : Answer(w) \/ Receive(w) \/ Fail(w)
    BY <1>10, <1>6, <1>7, <1>8, <1>a, <1>b
  <1> QED
    BY <1>1, <1>4, <1>5, <1>9, <1>10
       DEF Next, vars, Publish, Register, Silence, Drop, Connect, OnClose, Scrub, ReturnToLive

-----------------------------------------------------------------------------
(* Theorems                                                                *)

LEMMA InitInv == Init => IInv
  <1> SUFFICES ASSUME Init PROVE IInv
    OBVIOUS
  <1>1. TypeOK
    BY InitType
  <1>2. AnswerIsPast /\ StaleIsExplained
    BY DEF Init, AnswerIsPast, StaleIsExplained, RefreshComing
  <1> QED
    BY <1>1, <1>2 DEF IInv

\* The inductive invariant: the types, that an answer on its way is between the
\* picture it will replace and the server's present, and the property itself.
THEOREM Invariance == Spec => []IInv
  <1>1. IInv /\ [Next]_vars => IInv'
    BY NextType, NextPast, NextExplained DEF IInv
  <1> QED
    BY InitInv, <1>1, PTL DEF Spec

\* Every variable keeps its type, and a client's buffer its bound: a full buffer
\* closes the connection (hub.go:90-96).
THEOREM TypeCorrect == Spec => []TypeOK
  <1>1. IInv => TypeOK
    BY DEF IInv
  <1> QED
    BY Invariance, <1>1, PTL

\* A view that is out of date has a refresh coming, a failed query, or an event in
\* one of the five known holes, for any buffer, any topics and any losses.
THEOREM StaleCorrect == Spec => []StaleIsExplained
  <1>1. IInv => StaleIsExplained
    BY DEF IInv
  <1> QED
    BY Invariance, <1>1, PTL

\* What an operator sees of a view is only ever replaced by something at least as
\* new, although refetches are cancelled, restarted and answered late.
PictureAdvances == [][\A v \in Views : cache'[v] >= cache[v]]_vars

\* An answer is no older than what it replaces, so no view of the picture goes back.
THEOREM NeverBack == Spec => PictureAdvances
  <1>1. IInv /\ [Next]_vars => [\A v \in Views : cache'[v] >= cache[v]]_vars
    <2> SUFFICES ASSUME IInv, Next, NEW v \in Views
                 PROVE  cache'[v] >= cache[v]
      OBVIOUS
    <2> USE DEF server, socket, queries
    <2>1. cache[v] \in Nat /\ answer[v] \in Nat /\ TypeOK
      BY DEF IInv, TypeOK
    <2>2. CASE \E w \in Views : Receive(w)
      <3>1. PICK w \in Views : Receive(w)
        BY <2>2
      <3>2. cache'[v] = cache[v] \/ (fetch[v] = "answered" /\ cache'[v] = answer[v])
        BY <3>1, <2>1 DEF Receive, TypeOK
      <3> QED
        BY <3>2, <2>1 DEF IInv, AnswerIsPast
    <2>3. CASE ~(\E w \in Views : Receive(w))
      <3>1. cache' = cache
        BY <2>3 DEF Next, Commit, Publish, Register, Silence, Drop, Connect, OnOpen, Resync,
                    Invalidate, OnClose, OnMessage, Answer, Fail, Scrub, ReturnToLive
      <3> QED
        BY <3>1, <2>1
    <2> QED
      BY <2>2, <2>3
  <1> QED
    BY Invariance, <1>1, PTL DEF Spec, PictureAdvances
=============================================================================
