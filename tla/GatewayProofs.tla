--------------------------- MODULE GatewayProofs ---------------------------
(* Safety of Gateway, for every set of operators, tokens, settings, calls  *)
(* and desks.                                                              *)
EXTENDS Gateway, FiniteSetTheorems, SequenceTheorems, TLAPS

-----------------------------------------------------------------------------
(* The invariant                                                           *)

Pcs == {"idle", "authenticate", "authorize", "handle", "cite", "publish", "done"}

CallSet == {NoCall} \cup UNION {Calls[d] : d \in Desks}

Handlers == {"metrics", "audit", "hub", "scenarios", "tracks", "arearule", "geospatial", "alerts"}

\* No subscriber publishes that an assessment was created.
Sequels == AllTopics \ ({"assessment.created"} \cup Attributed)

FrameSet == [event : Nat, todo : Seq(Handlers), plan : Seq(Sequels)]
EventSet == [topic : AllTopics, causes : SUBSET Nat]
EntrySet == Nat \X ({"operator", "scenario", "system"} \X Actors)

Desk ==
  [pc : Pcs, call : CallSet, operator : Actors, role : Roles \cup {"none"}, status : Nat,
   plan : Seq(AllTopics),
   stack : Seq(FrameSet),
   published : Seq(EventSet),
   invoked : Seq(Seq(Handlers)),
   journal : Seq(EntrySet),
   sent : Seq(Nat)]

TypeInv ==
  /\ settings \in {s \in Settings : Valid(s)} /\ shift \in Shifts
  /\ DOMAIN registered \subseteq Operators
  /\ registered \in [DOMAIN registered -> Roles]
  /\ cited \in [Desks -> SUBSET Evidence]
  /\ faults \in 0..MaxFaults
  /\ desk \in [Desks -> Desk]

\* A dispatch has called the first of the event's subscribers, and calls the others in order.
OnCourse(q, f) ==
  LET called == q.invoked[f.event]
      all == Subscribers(q.published[f.event].topic) IN
  /\ Len(called) + Len(f.todo) = Len(all)
  /\ \A i \in 1..Len(called) : called[i] = all[i]
  /\ \A i \in 1..Len(f.todo) : f.todo[i] = all[Len(called) + i]

ToSend(f) == \E i \in 1..Len(f.todo) : f.todo[i] = "hub"

\* The dispatch at a place of the stack: what led to its event are the dispatches below; while it
\* has one above, or its handler has more to publish, the hub has not been told of its event; and
\* nothing has been published or journalled after its event while no second subscriber was called.
Dispatching(q, k) ==
  LET f == q.stack[k]
      e == f.event IN
  /\ e \in 1..Len(q.published)
  /\ OnCourse(q, f)
  /\ q.published[e].causes = {q.stack[i].event : i \in 1..(k - 1)}
  /\ \A i \in 1..(k - 1) : q.stack[i].event < e
  /\ k < Len(q.stack) \/ f.plan # <<>> => ToSend(f)
  /\ ToSend(f) => \A i \in 1..Len(q.sent) : q.sent[i] # e
  /\ Len(q.invoked[e]) <= 1 =>
       /\ k = Len(q.stack) /\ e = Len(q.published) /\ f.plan = <<>>
       /\ \A i \in 1..Len(q.journal) : q.journal[i][1] < e

BusInv(q) ==
  /\ Len(q.invoked) = Len(q.published)
  /\ \A k \in 1..Len(q.stack) : Dispatching(q, k)
  /\ \A e \in 1..Len(q.published) :
       /\ q.published[e].causes \subseteq 1..(e - 1)
       /\ (\A k \in 1..Len(q.stack) : q.stack[k].event # e) =>
            q.invoked[e] = Subscribers(q.published[e].topic)
  /\ \A i \in 1..Len(q.journal) : q.journal[i][1] \in 1..Len(q.published)
  /\ \A i, j \in 1..Len(q.journal) : i < j => q.journal[i][1] < q.journal[j][1]
  /\ \A i \in 1..Len(q.sent) : q.sent[i] \in 1..Len(q.published)
  /\ \A i, j \in 1..Len(q.sent) : i < j => q.sent[i] \notin q.published[q.sent[j]].causes

\* Before it publishes a request has done nothing, and when it is answered nothing is left to do.
StageInv(q) ==
  /\ q.pc \notin {"publish", "done"} => q.published = <<>> /\ q.plan = <<>> /\ q.status = 0
  /\ q.pc # "publish" => q.stack = <<>> /\ q.plan = <<>>
  /\ q.status # 0 => q.pc = "done"
  /\ q.status # 404

\* A request that acts was let through: its operator is known, and may.
ActorInv(d) ==
  LET q == desk[d] IN
  /\ q.call # NoCall => q.call \in Calls[d]
  /\ d \in Background => q.operator \in {None, Scenario} /\ q.call = NoCall /\ q.pc \in {"idle", "publish", "done"}
  /\ d \notin Background =>
       /\ q.operator # None =>
            q.operator \in DOMAIN registered /\ q.role = registered[q.operator] /\ q.operator = Subject(q.call)
       /\ q.pc = "authorize" => q.operator # None
       /\ q.pc \in {"handle", "cite", "publish"} \/ q.published # <<>> =>
            /\ q.operator # None /\ Granted(q.role, q.call)
       /\ q.plan # <<>> \/ q.published # <<>> \/ q.pc = "cite" => q.call.method # "GET"
       /\ q.status = 403 => ~Granted(q.role, q.call)

\* What the journal says of an event's actor is what the desk's operator makes of its topic.
JournalInv(q) ==
  \A i \in 1..Len(q.journal) : q.journal[i][2] = Actor(q, q.published[q.journal[i][1]].topic)

CitedInv(d) ==
  LET q == desk[d] IN
  (\E i \in 1..Len(q.plan) : q.plan[i] = "assessment.created")
    \/ (\E e \in 1..Len(q.published) : q.published[e].topic = "assessment.created") =>
    q.call.evidence \subseteq cited[d]

DeskInv(d) == BusInv(desk[d]) /\ StageInv(desk[d]) /\ ActorInv(d) /\ JournalInv(desk[d]) /\ CitedInv(d)

IInv == TypeInv /\ \A d \in Desks : DeskInv(d)

-----------------------------------------------------------------------------
(* What the operators of the model yield                                   *)

\* Tuples of one and of two elements.
LEMMA Tuples ==
  ASSUME NEW S, NEW a \in S, NEW b \in S
  PROVE  /\ <<a>> \in Seq(S) /\ Len(<<a>>) = 1 /\ <<a>>[1] = a
         /\ <<a, b>> \in Seq(S) /\ Len(<<a, b>>) = 2 /\ <<a, b>>[1] = a /\ <<a, b>>[2] = b
<1>1. <<a>> \in Seq(S) /\ Len(<<a>>) = 1 /\ <<a>>[1] = a
  OBVIOUS
<1>2. <<a, b>> \in Seq(S) /\ Len(<<a, b>>) = 2 /\ <<a, b>>[1] = a /\ <<a, b>>[2] = b
  OBVIOUS
<1> QED BY <1>1, <1>2

\* Two sequences, one after the other.
LEMMA TwoInARow ==
  ASSUME NEW S, NEW A \in Seq(S), NEW B \in Seq(S)
  PROVE  /\ A \o B \in Seq(S)
         /\ Len(A \o B) = Len(A) + Len(B)
         /\ \A i \in 1..Len(A) : (A \o B)[i] = A[i]
         /\ \A i \in 1..Len(B) : (A \o B)[Len(A) + i] = B[i]
<1> DEFINE all == A \o B
<1>1. /\ all \in Seq(S) /\ Len(all) = Len(A) + Len(B)
      /\ \A i \in 1..(Len(A) + Len(B)) : all[i] = IF i <= Len(A) THEN A[i] ELSE B[i - Len(A)]
  BY ConcatProperties, Zenon
<1>2. Len(A) \in Nat /\ Len(B) \in Nat
  BY LenProperties
<1> HIDE DEF all
<1>3. ASSUME NEW i \in 1..Len(A) PROVE all[i] = A[i]
  BY <1>1, <1>2
<1>4. ASSUME NEW i \in 1..Len(B) PROVE all[Len(A) + i] = B[i]
  <2>1. Len(A) + i \in 1..(Len(A) + Len(B)) /\ ~(Len(A) + i <= Len(A)) /\ (Len(A) + i) - Len(A) = i
    BY <1>2
  <2> QED BY <1>1, <2>1, Zenon
<1> QED BY <1>1, <1>3, <1>4, Zenon DEF all

\* Five sequences, the first and the fourth of one element, one after the other.
LEMMA FiveInARow ==
  ASSUME NEW S, NEW a \in S, NEW A \in Seq(S), NEW B \in Seq(S), NEW h \in S, NEW C \in Seq(S),
         NEW all, all = <<a>> \o A \o B \o <<h>> \o C
  PROVE  /\ all \in Seq(S)
         /\ Len(all) = 2 + Len(A) + Len(B) + Len(C)
         /\ all[1] = a
         /\ \A i \in 1..Len(A) : all[1 + i] = A[i]
         /\ \A i \in 1..Len(B) : all[1 + Len(A) + i] = B[i]
         /\ all[2 + Len(A) + Len(B)] = h
         /\ \A i \in 1..Len(C) : all[2 + Len(A) + Len(B) + i] = C[i]
<1> DEFINE s1 == <<a>> \o A
           s2 == s1 \o B
           s3 == s2 \o <<h>>
           s4 == s3 \o C
<1>0. /\ <<a>> \in Seq(S) /\ Len(<<a>>) = 1 /\ <<a>>[1] = a
      /\ <<h>> \in Seq(S) /\ Len(<<h>>) = 1 /\ <<h>>[1] = h
      /\ Len(A) \in Nat /\ Len(B) \in Nat /\ Len(C) \in Nat
  BY Tuples, LenProperties
<1>1. /\ s1 \in Seq(S) /\ Len(s1) = 1 + Len(A) /\ s1[1] = a
      /\ \A i \in 1..Len(A) : s1[1 + i] = A[i]
  <2>1. /\ s1 \in Seq(S) /\ Len(s1) = Len(<<a>>) + Len(A)
        /\ \A i \in 1..Len(<<a>>) : s1[i] = <<a>>[i]
        /\ \A i \in 1..Len(A) : s1[Len(<<a>>) + i] = A[i]
    BY <1>0, TwoInARow
  <2> HIDE DEF s1
  <2>2. 1 \in 1..1
    OBVIOUS
  <2> QED BY <1>0, <2>1, <2>2, Zenon
<1> HIDE DEF s1
<1>2. /\ s2 \in Seq(S) /\ Len(s2) = 1 + Len(A) + Len(B) /\ s2[1] = a
      /\ \A i \in 1..Len(A) : s2[1 + i] = A[i]
      /\ \A i \in 1..Len(B) : s2[1 + Len(A) + i] = B[i]
  <2>0. s1 \in Seq(S)
    BY <1>1
  <2>1. /\ s2 \in Seq(S) /\ Len(s2) = Len(s1) + Len(B)
        /\ \A i \in 1..Len(s1) : s2[i] = s1[i]
        /\ \A i \in 1..Len(B) : s2[Len(s1) + i] = B[i]
    BY <1>0, <2>0, TwoInARow
  <2> HIDE DEF s2
  <2>2. 1 \in 1..Len(s1) /\ \A i \in 1..Len(A) : 1 + i \in 1..Len(s1)
    BY <1>0, <1>1
  <2> QED BY <1>0, <1>1, <2>1, <2>2, Zenon
<1> HIDE DEF s2
<1>3. /\ s3 \in Seq(S) /\ Len(s3) = 2 + Len(A) + Len(B) /\ s3[1] = a
      /\ \A i \in 1..Len(A) : s3[1 + i] = A[i]
      /\ \A i \in 1..Len(B) : s3[1 + Len(A) + i] = B[i]
      /\ s3[2 + Len(A) + Len(B)] = h
  <2>0. s2 \in Seq(S)
    BY <1>2
  <2>1. /\ s3 \in Seq(S) /\ Len(s3) = Len(s2) + Len(<<h>>)
        /\ \A i \in 1..Len(s2) : s3[i] = s2[i]
        /\ \A i \in 1..Len(<<h>>) : s3[Len(s2) + i] = <<h>>[i]
    BY <1>0, <2>0, TwoInARow
  <2> HIDE DEF s3
  <2>2. /\ 1 \in 1..Len(s2) /\ \A i \in 1..Len(A) : 1 + i \in 1..Len(s2)
        /\ \A i \in 1..Len(B) : 1 + Len(A) + i \in 1..Len(s2)
        /\ 1 \in 1..Len(<<h>>) /\ Len(s2) + 1 = 2 + Len(A) + Len(B)
    BY <1>0, <1>2
  <2> QED BY <1>0, <1>2, <2>1, <2>2, Zenon
<1> HIDE DEF s3
<1>4. /\ s4 \in Seq(S)
      /\ Len(s4) = 2 + Len(A) + Len(B) + Len(C)
      /\ s4[1] = a
      /\ \A i \in 1..Len(A) : s4[1 + i] = A[i]
      /\ \A i \in 1..Len(B) : s4[1 + Len(A) + i] = B[i]
      /\ s4[2 + Len(A) + Len(B)] = h
      /\ \A i \in 1..Len(C) : s4[2 + Len(A) + Len(B) + i] = C[i]
  <2>0. s3 \in Seq(S)
    BY <1>3
  <2>1. /\ s4 \in Seq(S) /\ Len(s4) = Len(s3) + Len(C)
        /\ \A i \in 1..Len(s3) : s4[i] = s3[i]
        /\ \A i \in 1..Len(C) : s4[Len(s3) + i] = C[i]
    BY <1>0, <2>0, TwoInARow
  <2> HIDE DEF s4
  <2>2. /\ 1 \in 1..Len(s3) /\ \A i \in 1..Len(A) : 1 + i \in 1..Len(s3)
        /\ \A i \in 1..Len(B) : 1 + Len(A) + i \in 1..Len(s3)
        /\ 2 + Len(A) + Len(B) \in 1..Len(s3)
    BY <1>0, <1>3
  <2> QED BY <1>0, <1>3, <2>1, <2>2, Zenon
<1> HIDE DEF s4
<1>5. all = s4
  BY DEF s1, s2, s3, s4
<1> QED BY <1>4, <1>5, Zenon

\* Metrics come first and the audit second; the hub is called once, and the subscribers
\* that may publish before it.
LEMMA SubscribersOrdered ==
  ASSUME NEW topic
  PROVE  /\ Subscribers(topic) \in Seq(Handlers)
         /\ Len(Subscribers(topic)) >= 2
         /\ Subscribers(topic)[1] = "metrics"
         /\ \A i \in 1..Len(Subscribers(topic)) : Subscribers(topic)[i] = "audit" => i = 2
         /\ \E h \in 1..Len(Subscribers(topic)) : \A i \in 1..Len(Subscribers(topic)) :
              /\ Subscribers(topic)[i] = "hub" <=> i = h
              /\ Subscribers(topic)[i] \notin {"metrics", "scenarios", "audit", "hub"} => i < h
<1> DEFINE all == Subscribers(topic)
           A == IF topic \in Audited THEN <<"audit">> ELSE <<>>
           B == DomainSubscribers(topic)
           C == IF topic = "command.issued" THEN <<"scenarios">> ELSE <<>>
           h == 2 + Len(A) + Len(B)
           S == Handlers
<1>0. /\ "metrics" \in S /\ "audit" \in S /\ "hub" \in S /\ "scenarios" \in S
      /\ "tracks" \in S /\ "arearule" \in S /\ "geospatial" \in S /\ "alerts" \in S
  BY DEF Handlers
<1> HIDE DEF S
<1>1. A \in Seq(S) /\ Len(A) \in 0..1 /\ \A i \in 1..Len(A) : A[i] = "audit"
  BY <1>0, Tuples, EmptySeq
<1>2. C \in Seq(S) /\ Len(C) \in 0..1 /\ \A i \in 1..Len(C) : C[i] = "scenarios"
  BY <1>0, Tuples, EmptySeq
<1>3. B \in Seq(S) /\ Len(B) \in 0..2 /\ \A i \in 1..Len(B) : B[i] \notin {"audit", "hub"}
  <2>1. B \in {<<"tracks", "arearule">>, <<"geospatial">>, <<"alerts">>, <<>>}
    BY DEF DomainSubscribers
  <2>2. CASE B = <<"tracks", "arearule">>
    <3>1. Len(B) = 2 /\ B[1] = "tracks" /\ B[2] = "arearule" /\ B \in Seq(S)
      BY ONLY <2>2, <1>0, Tuples
    <3> QED BY ONLY <3>1, SMT
  <2>3. CASE B = <<"geospatial">>
    <3>1. Len(B) = 1 /\ B[1] = "geospatial" /\ B \in Seq(S)
      BY ONLY <2>3, <1>0, Tuples
    <3> QED BY ONLY <3>1, SMT
  <2>4. CASE B = <<"alerts">>
    <3>1. Len(B) = 1 /\ B[1] = "alerts" /\ B \in Seq(S)
      BY ONLY <2>4, <1>0, Tuples
    <3> QED BY ONLY <3>1, SMT
  <2>5. CASE B = <<>>
    BY ONLY <2>5, EmptySeq
  <2> QED BY <2>1, <2>2, <2>3, <2>4, <2>5
<1>4. all = <<"metrics">> \o A \o B \o <<"hub">> \o C
  BY DEF Subscribers
<1> HIDE DEF A, B, C, all
<1>5. /\ all \in Seq(S)
      /\ Len(all) = 2 + Len(A) + Len(B) + Len(C)
      /\ all[1] = "metrics"
      /\ \A i \in 1..Len(A) : all[1 + i] = A[i]
      /\ \A i \in 1..Len(B) : all[1 + Len(A) + i] = B[i]
      /\ all[2 + Len(A) + Len(B)] = "hub"
      /\ \A i \in 1..Len(C) : all[2 + Len(A) + Len(B) + i] = C[i]
  <2>1. A \in Seq(S) /\ B \in Seq(S) /\ C \in Seq(S) /\ "metrics" \in S /\ "hub" \in S
    BY <1>0, <1>1, <1>2, <1>3
  <2> QED BY <2>1, <1>4, FiveInARow
<1>6. Len(all) >= 2 /\ h \in 1..Len(all)
  BY ONLY <1>1, <1>2, <1>3, <1>5, SMT
<1>7. ASSUME NEW i \in 1..Len(all)
      PROVE  /\ all[i] = "audit" => i = 2
             /\ all[i] = "hub" <=> i = h
             /\ all[i] \notin {"metrics", "scenarios", "audit", "hub"} => i < h
  <2>1. CASE i = 1
    BY ONLY <2>1, <1>1, <1>3, <1>5, SMT
  <2>2. CASE i \in 2..(1 + Len(A))
    <3>1. i - 1 \in 1..Len(A) /\ 1 + (i - 1) = i
      BY ONLY <2>2, <1>1, SMT
    <3>2. all[i] = "audit"
      BY ONLY <3>1, <1>1, <1>5
    <3> QED BY ONLY <2>2, <3>2, <1>1, <1>3, SMT
  <2>3. CASE i \in (2 + Len(A))..(1 + Len(A) + Len(B))
    <3> DEFINE j == i - 1 - Len(A)
    <3>1. j \in 1..Len(B) /\ 1 + Len(A) + j = i
      BY ONLY <2>3, <1>1, <1>3, SMT
    <3>2. all[i] = B[j]
      BY ONLY <3>1, <1>5
    <3>3. B[j] \notin {"audit", "hub"}
      BY ONLY <3>1, <1>3
    <3> QED BY ONLY <2>3, <3>2, <3>3, <1>1, <1>3, SMT
  <2>4. CASE i = h
    BY ONLY <2>4, <1>5, SMT
  <2>5. CASE i \in (h + 1)..Len(all)
    <3> DEFINE j == i - h
    <3>1. j \in 1..Len(C) /\ 2 + Len(A) + Len(B) + j = i
      BY ONLY <2>5, <1>1, <1>2, <1>3, <1>5, SMT
    <3>2. all[i] = "scenarios"
      BY ONLY <3>1, <1>2, <1>5
    <3> QED BY ONLY <2>5, <3>2, <1>1, <1>3, SMT
  <2>6. \/ i = 1 \/ i \in 2..(1 + Len(A)) \/ i \in (2 + Len(A))..(1 + Len(A) + Len(B))
        \/ i = h \/ i \in (h + 1)..Len(all)
    <3> HIDE DEF h
    <3>1. Len(A) \in Nat /\ Len(B) \in Nat /\ Len(all) \in Nat /\ h = 2 + Len(A) + Len(B)
      BY <1>1, <1>2, <1>3, <1>5 DEF h
    <3> QED BY <3>1
  <2> QED BY ONLY <2>1, <2>2, <2>3, <2>4, <2>5, <2>6
<1>8. \E g \in 1..Len(all) : \A i \in 1..Len(all) :
              /\ all[i] = "hub" <=> i = g
              /\ all[i] \notin {"metrics", "scenarios", "audit", "hub"} => i < g
  <2> HIDE DEF h
  <2> QED BY ONLY <1>6, <1>7, Zenon
<1> QED BY ONLY <1>5, <1>6, <1>7, <1>8, Zenon DEF all, S

\* The fields of a desk.
LEMMA DeskTypes ==
  ASSUME NEW q \in Desk
  PROVE  /\ q.stack \in Seq(FrameSet) /\ Len(q.stack) \in Nat
         /\ \A k \in 1..Len(q.stack) : q.stack[k] \in FrameSet
         /\ q.published \in Seq(EventSet) /\ Len(q.published) \in Nat
         /\ \A e \in 1..Len(q.published) : q.published[e] \in EventSet
         /\ q.invoked \in Seq(Seq(Handlers)) /\ Len(q.invoked) \in Nat
         /\ \A e \in 1..Len(q.invoked) : q.invoked[e] \in Seq(Handlers) /\ Len(q.invoked[e]) \in Nat
         /\ q.journal \in Seq(EntrySet) /\ Len(q.journal) \in Nat
         /\ \A i \in 1..Len(q.journal) : q.journal[i] \in EntrySet /\ q.journal[i][1] \in Nat
         /\ q.sent \in Seq(Nat) /\ Len(q.sent) \in Nat
         /\ \A i \in 1..Len(q.sent) : q.sent[i] \in Nat
         /\ q.plan \in Seq(AllTopics) /\ q.call \in CallSet /\ q.pc \in Pcs /\ q.operator \in Actors
         /\ q.role \in Roles \cup {"none"} /\ q.status \in Nat
<1>1. /\ q.stack \in Seq(FrameSet) /\ q.published \in Seq(EventSet) /\ q.invoked \in Seq(Seq(Handlers))
      /\ q.journal \in Seq(EntrySet) /\ q.sent \in Seq(Nat)
      /\ q.plan \in Seq(AllTopics) /\ q.call \in CallSet /\ q.pc \in Pcs /\ q.operator \in Actors
      /\ q.role \in Roles \cup {"none"} /\ q.status \in Nat
  BY DEF Desk
<1>2. Len(q.stack) \in Nat /\ \A k \in 1..Len(q.stack) : q.stack[k] \in FrameSet
  BY <1>1, LenProperties, ElementOfSeq
<1>3. Len(q.published) \in Nat /\ \A e \in 1..Len(q.published) : q.published[e] \in EventSet
  BY <1>1, LenProperties, ElementOfSeq
<1>4. Len(q.invoked) \in Nat /\ \A e \in 1..Len(q.invoked) : q.invoked[e] \in Seq(Handlers) /\ Len(q.invoked[e]) \in Nat
  BY <1>1, LenProperties, ElementOfSeq
<1>5. Len(q.journal) \in Nat /\ \A i \in 1..Len(q.journal) : q.journal[i] \in EntrySet
  BY <1>1, LenProperties, ElementOfSeq
<1>6. \A i \in 1..Len(q.journal) : q.journal[i][1] \in Nat
  BY <1>5 DEF EntrySet
<1>7. Len(q.sent) \in Nat /\ \A i \in 1..Len(q.sent) : q.sent[i] \in Nat
  BY <1>1, LenProperties, ElementOfSeq
<1> QED BY <1>1, <1>2, <1>3, <1>4, <1>5, <1>6, <1>7

\* The fields of a dispatch.
LEMMA FrameTypes ==
  ASSUME NEW f \in FrameSet
  PROVE  /\ f.event \in Nat /\ f.todo \in Seq(Handlers) /\ Len(f.todo) \in Nat
         /\ f.plan \in Seq(Sequels) /\ Len(f.plan) \in Nat
         /\ f.todo # <<>> => Len(f.todo) > 0
         /\ f.todo = <<>> <=> Len(f.todo) = 0
<1>1. f.event \in Nat /\ f.todo \in Seq(Handlers) /\ f.plan \in Seq(Sequels)
  BY DEF FrameSet
<1> QED BY <1>1, LenProperties, EmptySeq

-----------------------------------------------------------------------------
(* The bus of one desk                                                     *)

\* The bus is what it was when nothing of it changes.
LEMMA BusKept ==
  ASSUME NEW q, BusInv(q), NEW r,
         r.stack = q.stack, r.published = q.published, r.invoked = q.invoked, r.journal = q.journal, r.sent = q.sent
  PROVE  BusInv(r)
<1>1. \A k \in 1..Len(q.stack) : Dispatching(q, k) => Dispatching(r, k)
  <2>1. \A f : OnCourse(q, f) => OnCourse(r, f)
    BY DEF OnCourse
  <2> QED BY <2>1 DEF Dispatching
<1> QED BY <1>1 DEF BusInv

\* A desk that has published nothing satisfies the invariant of the bus.
LEMMA BusAtRest ==
  ASSUME NEW r, r.stack = <<>>, r.published = <<>>, r.invoked = <<>>, r.journal = <<>>, r.sent = <<>>
  PROVE  BusInv(r)
BY EmptySeq DEF BusInv

\* What the innermost handler has to publish changes.
LEMMA BusPlan ==
  ASSUME NEW q \in Desk, BusInv(q), NEW r \in Desk, NEW p \in Seq(Sequels), q.stack # <<>>,
         LET n == Len(q.stack) IN
           /\ r.stack = [q.stack EXCEPT ![n].plan = p]
           /\ p # <<>> => ToSend(q.stack[n]) /\ Len(q.invoked[q.stack[n].event]) > 1,
         r.published = q.published, r.invoked = q.invoked, r.journal = q.journal, r.sent = q.sent
  PROVE  BusInv(r)
<1> DEFINE S == q.stack
           n == Len(S)
           R == r.stack
           f == S[n]
<1>1. n \in Nat /\ n > 0 /\ f \in FrameSet /\ S \in Seq(FrameSet) /\ \A k \in 1..n : S[k] \in FrameSet
  BY DeskTypes, EmptySeq
<1>2. /\ Len(R) = n
      /\ \A k \in 1..n : R[k] = IF k = n THEN [f EXCEPT !.plan = p] ELSE S[k]
  <2>1. [f EXCEPT !.plan = p] \in FrameSet
    BY <1>1 DEF FrameSet
  <2>2. R = [S EXCEPT ![n] = [f EXCEPT !.plan = p]]
    OBVIOUS
  <2> HIDE DEF S, R, f
  <2> QED BY <1>1, <2>1, <2>2, ExceptSeq DEF n
<1>3. \A k \in 1..n : R[k].event = S[k].event /\ R[k].todo = S[k].todo /\ (k # n => R[k].plan = S[k].plan)
  BY ZenonT(40), <1>1, <1>2 DEF FrameSet
<1>4. R[n].plan = p
  BY <1>1, <1>2 DEF FrameSet
<1> HIDE DEF n, R, S
<1>5. ASSUME NEW k \in 1..n PROVE Dispatching(r, k)
  <2>0. \A i \in 1..(k - 1) : R[i].event = S[i].event
    BY <1>1, <1>3
  <2>1. Dispatching(q, k)
    BY DEF BusInv, S, n
  <2>2. OnCourse(r, R[k]) /\ (ToSend(R[k]) <=> ToSend(S[k]))
    BY <1>3, <2>1 DEF OnCourse, ToSend, Dispatching, S
  <2>3. {R[i].event : i \in 1..(k - 1)} = {S[i].event : i \in 1..(k - 1)}
    BY <2>0, ZenonT(30)
  <2>4. k < Len(R) \/ R[k].plan # <<>> => ToSend(R[k])
    <3>1. CASE k = n
      BY <1>2, <1>4, <3>1, <2>2, <1>1 DEF S, n
    <3>2. CASE k # n
      BY <1>1, <1>2, <1>3, <2>1, <2>2, <3>2 DEF Dispatching, S, n
    <3> QED BY <3>1, <3>2
  <2>5. ASSUME Len(r.invoked[R[k].event]) <= 1
        PROVE  k = Len(R) /\ R[k].event = Len(r.published) /\ R[k].plan = <<>>
    <3>1. k = n /\ S[k].event = Len(q.published) /\ S[k].plan = <<>> /\ Len(q.invoked[S[k].event]) <= 1
      BY <1>3, <2>1, <2>5 DEF Dispatching, S, n
    <3>2. Len(q.invoked[S[k].event]) \in Nat
      BY <2>1, DeskTypes DEF Dispatching, BusInv, S
    <3>3. p = <<>>
      BY <3>1, <3>2, <1>1 DEF S, n
    <3> QED BY <3>1, <3>3, <1>2, <1>3, <1>4
  <2>6. R[k].event \in 1..Len(r.published) /\ r.published[R[k].event].causes = {R[i].event : i \in 1..(k - 1)}
    BY <1>3, <2>1, <2>3 DEF Dispatching, S
  <2>7. \A i \in 1..(k - 1) : R[i].event < R[k].event
    BY <2>0, <1>3, <2>1 DEF Dispatching, S
  <2>8. ToSend(R[k]) => \A i \in 1..Len(r.sent) : r.sent[i] # R[k].event
    BY <1>3, <2>1, <2>2 DEF Dispatching, S
  <2>9. Len(r.invoked[R[k].event]) <= 1 => \A i \in 1..Len(r.journal) : r.journal[i][1] < R[k].event
    BY <1>3, <2>1 DEF Dispatching, S
  <2> QED BY <2>2, <2>4, <2>5, <2>6, <2>7, <2>8, <2>9 DEF Dispatching, R
<1> QED BY <1>2, <1>3, <1>5 DEF BusInv, S, R, n

\* A dispatch stays on course when only other events have been called or published.
LEMMA OnCourseKept ==
  ASSUME NEW q, NEW r, NEW f, OnCourse(q, f),
         r.invoked[f.event] = q.invoked[f.event], r.published[f.event] = q.published[f.event]
  PROVE  OnCourse(r, f)
BY Zenon DEF OnCourse

\* An event is published: by the innermost handler, which has not told the hub of its own,
\* or by the request.
LEMMA BusDispatch ==
  ASSUME NEW q \in Desk, BusInv(q), NEW r \in Desk, NEW topic \in AllTopics,
         NEW causes, causes = {q.stack[k].event : k \in 1..Len(q.stack)},
         q.stack # <<>> =>
           ToSend(q.stack[Len(q.stack)]) /\ Len(q.invoked[q.stack[Len(q.stack)].event]) > 1,
         r.published = Append(q.published, [topic |-> topic, causes |-> causes]),
         r.invoked = Append(q.invoked, <<>>),
         r.stack = Append(q.stack, Frame(Len(q.published) + 1, topic)),
         r.journal = q.journal, r.sent = q.sent
  PROVE  BusInv(r)
<1> DEFINE S == q.stack
           n == Len(S)
           R == r.stack
           m == Len(q.published)
           all == Subscribers(topic)
<1>1. /\ n \in Nat /\ m \in Nat /\ S \in Seq(FrameSet) /\ \A k \in 1..n : S[k] \in FrameSet
      /\ q.published \in Seq(EventSet) /\ q.invoked \in Seq(Seq(Handlers)) /\ Len(q.invoked) = m
      /\ S = <<>> <=> n = 0
  BY DeskTypes, EmptySeq DEF BusInv
<1>2. \A k \in 1..n : Dispatching(q, k) /\ S[k].event \in 1..m
  BY DEF BusInv, Dispatching
<1>3. causes \in SUBSET Nat /\ causes \subseteq 1..m
  <2>1. \A k \in 1..n : S[k].event \in 1..m
    BY <1>2
  <2>2. causes \subseteq 1..m
    BY <2>1, Zenon
  <2>3. 1..m \subseteq Nat
    BY <1>1
  <2> QED BY <2>2, <2>3, Zenon
<1>4. all \in Seq(Handlers) /\ Len(all) \in Nat /\ Len(all) >= 2
  BY SubscribersOrdered, LenProperties
<1>5. Frame(m + 1, topic) \in FrameSet /\ Frame(m + 1, topic).event = m + 1
      /\ Frame(m + 1, topic).todo = all /\ Frame(m + 1, topic).plan = <<>>
  BY <1>1, <1>4, EmptySeq DEF Frame, FrameSet
<1>6. /\ Len(R) = n + 1 /\ R[n + 1] = Frame(m + 1, topic)
      /\ \A k \in 1..n : R[k] = S[k]
  BY <1>1, <1>5, AppendProperties
<1>7. /\ Len(r.published) = m + 1
      /\ r.published[m + 1].topic = topic /\ r.published[m + 1].causes = causes
      /\ \A e \in 1..m : r.published[e] = q.published[e]
  <2>1. [topic |-> topic, causes |-> causes] \in EventSet
    BY <1>3 DEF EventSet
  <2> QED BY <1>1, <2>1, AppendProperties
<1>8. Len(r.invoked) = m + 1 /\ r.invoked[m + 1] = <<>> /\ \A e \in 1..m : r.invoked[e] = q.invoked[e]
  <2>1. <<>> \in Seq(Handlers)
    BY EmptySeq
  <2> QED BY <1>1, <2>1, AppendProperties
<1> HIDE DEF S, n, R, m, all
<1>9. \A k \in 1..n : ToSend(S[k]) /\ Len(q.invoked[S[k].event]) > 1
  <2> TAKE k \in 1..n
  <2>1. CASE k = n
    BY <2>1, <1>1 DEF S, n
  <2>2. CASE k # n
    <3>1. k < n /\ S[k].event \in 1..Len(q.invoked) /\ Dispatching(q, k)
      BY <2>2, <1>1, <1>2
    <3>2. Len(q.invoked[S[k].event]) \in Nat
      BY <3>1, DeskTypes, Zenon
    <3> QED BY <3>1, <3>2, <1>1 DEF Dispatching, S, n
  <2> QED BY <2>1, <2>2
<1>10. ASSUME NEW k \in 1..n PROVE Dispatching(r, k)
  <2>0. k \in 1..(n + 1) /\ \A i \in 1..(k - 1) : i \in 1..n /\ R[i].event = S[i].event
    BY <1>1, <1>6
  <2>1. Dispatching(q, k) /\ R[k] = S[k] /\ S[k].event \in 1..m /\ S[k].event \in 1..(m + 1)
    BY <1>1, <1>2, <1>6
  <2>2. OnCourse(r, R[k])
    <3>1. r.invoked[S[k].event] = q.invoked[S[k].event] /\ r.published[S[k].event] = q.published[S[k].event]
      BY <1>7, <1>8, <2>1
    <3>2. OnCourse(q, S[k])
      BY <2>1, Zenon DEF Dispatching, S
    <3> QED BY <3>1, <3>2, <2>1, OnCourseKept
  <2>3. {R[i].event : i \in 1..(k - 1)} = {S[i].event : i \in 1..(k - 1)}
    BY <2>0, Zenon
  <2>4. r.published[R[k].event].causes = {R[i].event : i \in 1..(k - 1)}
    BY <1>7, <2>1, <2>3 DEF Dispatching, S
  <2>5. \A i \in 1..(k - 1) : R[i].event < R[k].event
    BY <2>0, <2>1 DEF Dispatching, S
  <2>6. ToSend(R[k]) /\ \A i \in 1..Len(r.sent) : r.sent[i] # R[k].event
    BY <2>1, <1>9 DEF Dispatching, S
  <2>7. ~(Len(r.invoked[R[k].event]) <= 1)
    <3>1. Len(q.invoked[S[k].event]) \in Nat
      BY <1>1, <2>1, DeskTypes
    <3> QED BY <3>1, <2>1, <1>8, <1>9
  <2> QED BY <1>7, <2>1, <2>2, <2>4, <2>5, <2>6, <2>7 DEF Dispatching, R
<1>11. Dispatching(r, n + 1)
  <2>1. /\ R[n + 1].event = m + 1 /\ R[n + 1].todo = all /\ R[n + 1].plan = <<>>
        /\ R[n + 1].event \in 1..Len(r.published)
    BY <1>1, <1>5, <1>6, <1>7
  <2>2. OnCourse(r, R[n + 1])
    <3>1. r.invoked[R[n + 1].event] = <<>> /\ Subscribers(r.published[R[n + 1].event].topic) = all
      BY <2>1, <1>7, <1>8 DEF all
    <3> DEFINE called == r.invoked[R[n + 1].event]
               todo == R[n + 1].todo
    <3>2. Len(called) = 0 /\ todo = all
      BY <2>1, <3>1, EmptySeq
    <3> HIDE DEF called, todo
    <3>3. /\ Len(called) + Len(todo) = Len(all)
          /\ \A i \in 1..Len(called) : called[i] = all[i]
          /\ \A i \in 1..Len(todo) : todo[i] = all[Len(called) + i]
      BY <3>2, <1>4
    <3> QED BY <3>1, <3>3, Zenon DEF OnCourse, called, todo
  <2>3. {R[i].event : i \in 1..((n + 1) - 1)} = causes
    <3>1. \A i \in 1..n : R[i].event = S[i].event
      BY <1>6
    <3>2. (n + 1) - 1 = n
      BY <1>1
    <3> QED BY <3>1, <3>2, Zenon DEF S, n
  <2>4. \A i \in 1..((n + 1) - 1) : R[i].event < m + 1
    <3>1. (n + 1) - 1 = n /\ \A i \in 1..n : S[i].event < m + 1
      BY <1>1, <1>2
    <3> QED BY <3>1, <1>6
  <2>5. \A i \in 1..Len(r.sent) : r.sent[i] # m + 1
    <3>1. \A i \in 1..Len(q.sent) : q.sent[i] \in 1..m
      BY DEF BusInv, m
    <3> QED BY <3>1, <1>1
  <2>6. \A i \in 1..Len(r.journal) : r.journal[i][1] < m + 1
    <3>1. \A i \in 1..Len(q.journal) : q.journal[i][1] \in 1..m
      BY DEF BusInv, m
    <3> QED BY <3>1, <1>1
  <2>7. ~(n + 1 < Len(R)) /\ n + 1 = Len(R) /\ m + 1 = Len(r.published)
    BY <1>1, <1>6, <1>7
  <2> QED BY <1>7, <2>1, <2>2, <2>3, <2>4, <2>5, <2>6, <2>7, Zenon DEF Dispatching, R
<1>12. ASSUME NEW e \in 1..(m + 1)
       PROVE  /\ r.published[e].causes \subseteq 1..(e - 1)
              /\ (\A k \in 1..Len(R) : R[k].event # e) => r.invoked[e] = Subscribers(r.published[e].topic)
  <2>1. CASE e = m + 1
    BY <2>1, <1>1, <1>3, <1>5, <1>6, <1>7
  <2>2. CASE e # m + 1
    <3>1. e \in 1..m /\ r.published[e] = q.published[e] /\ r.invoked[e] = q.invoked[e]
      BY <2>2, <1>1, <1>7, <1>8
    <3>2. (\A k \in 1..Len(R) : R[k].event # e) => \A k \in 1..n : S[k].event # e
      BY <1>1, <1>6
    <3> QED BY <3>1, <3>2 DEF BusInv, S, n, m
  <2> QED BY <2>1, <2>2
<1>13. \A k \in 1..Len(R) : Dispatching(r, k)
  BY <1>1, <1>6, <1>10, <1>11
<1>14. /\ \A i \in 1..Len(r.journal) : r.journal[i][1] \in 1..Len(r.published)
       /\ \A i \in 1..Len(r.sent) : r.sent[i] \in 1..Len(r.published)
  <2>1. /\ \A i \in 1..Len(q.journal) : q.journal[i][1] \in 1..m
        /\ \A i \in 1..Len(q.sent) : q.sent[i] \in 1..m
    BY DEF BusInv, m
  <2>2. 1..m \subseteq 1..Len(r.published)
    BY <1>1, <1>7
  <2> QED BY <2>1, <2>2
<1>15. \A i, j \in 1..Len(r.sent) : i < j => r.sent[i] \notin r.published[r.sent[j]].causes
  BY <1>7 DEF BusInv, m
<1> QED BY <1>7, <1>8, <1>12, <1>13, <1>14, <1>15 DEF BusInv, R

NextCalled(q, f, s) ==
  /\ q.stack # <<>> /\ f = q.stack[Len(q.stack)]
  /\ f.plan = <<>> /\ f.todo # <<>> /\ s = Head(f.todo)

\* r is q when subscriber s has begun, with what it wrote, sent and is going to publish.
Calling(q, r, f, s, p) ==
  /\ r.stack = [q.stack EXCEPT ![Len(q.stack)] = [f EXCEPT !.todo = Tail(f.todo), !.plan = p]]
  /\ r.invoked = [q.invoked EXCEPT ![f.event] = Append(q.invoked[f.event], s)]
  /\ r.published = q.published
  /\ p # <<>> => s \notin {"metrics", "scenarios", "audit", "hub"}
  /\ \/ r.journal = q.journal
     \/ s = "audit" /\ \E x : r.journal = Append(q.journal, <<f.event, x>>) /\ <<f.event, x>> \in EntrySet
  /\ r.sent = q.sent \/ (s = "hub" /\ r.sent = Append(q.sent, f.event))

\* The next subscriber of the innermost event is called; the audit may write it down, the
\* hub sends it, and one that publishes comes before the hub.
LEMMA BusCall ==
  ASSUME NEW q \in Desk, BusInv(q), NEW r \in Desk, NEW p \in Seq(Sequels), NEW f, NEW s,
         NextCalled(q, f, s), Calling(q, r, f, s, p)
  PROVE  BusInv(r)
<1> DEFINE S == q.stack
           n == Len(S)
           R == r.stack
           e == f.event
           m == Len(q.published)
           called == q.invoked[e]
           all == Subscribers(q.published[e].topic)
           g == [f EXCEPT !.todo = Tail(f.todo), !.plan = p]
<1>0. /\ S # <<>> /\ f = S[n] /\ f.plan = <<>> /\ f.todo # <<>> /\ s = Head(f.todo)
      /\ R = [S EXCEPT ![n] = g]
      /\ r.invoked = [q.invoked EXCEPT ![e] = Append(called, s)]
      /\ r.published = q.published
      /\ p # <<>> => s \notin {"metrics", "scenarios", "audit", "hub"}
      /\ r.sent = q.sent \/ (s = "hub" /\ r.sent = Append(q.sent, e))
  BY DEF NextCalled, Calling
<1>1. /\ n \in Nat /\ n > 0 /\ n \in 1..n /\ S \in Seq(FrameSet) /\ f \in FrameSet
      /\ m \in Nat /\ q.invoked \in Seq(Seq(Handlers)) /\ Len(q.invoked) = m
      /\ q.journal \in Seq(EntrySet) /\ q.sent \in Seq(Nat)
      /\ Len(q.journal) \in Nat /\ Len(q.sent) \in Nat
  <2>1. m \in Nat /\ q.invoked \in Seq(Seq(Handlers)) /\ Len(q.invoked) = m
    BY DeskTypes DEF BusInv
  <2>2. q.journal \in Seq(EntrySet) /\ q.sent \in Seq(Nat) /\ Len(q.journal) \in Nat /\ Len(q.sent) \in Nat
    BY DeskTypes DEF BusInv
  <2>3. S \in Seq(FrameSet) /\ n \in Nat /\ n > 0 /\ n \in 1..n /\ S[n] \in FrameSet
    <3>1. S \in Seq(FrameSet) /\ n \in Nat /\ \A k \in 1..n : S[k] \in FrameSet
      BY DeskTypes
    <3>2. S # <<>>
      BY <1>0
    <3> HIDE DEF S
    <3>3. n > 0
      BY <3>1, <3>2, EmptySeq
    <3> QED BY <3>1, <3>3
  <2> QED BY <1>0, <2>1, <2>2, <2>3
<1>2. \A k \in 1..n : Dispatching(q, k) /\ S[k].event \in 1..m
  BY DEF BusInv, Dispatching
<1>3. /\ f.todo \in Seq(Handlers) /\ Len(f.todo) \in Nat /\ Len(f.todo) > 0
      /\ s \in Handlers /\ s = f.todo[1] /\ Tail(f.todo) \in Seq(Handlers) /\ Len(Tail(f.todo)) = Len(f.todo) - 1
      /\ \A i \in 1..Len(Tail(f.todo)) : Tail(f.todo)[i] = f.todo[i + 1]
  <2>0. f.todo # <<>> /\ s = Head(f.todo)
    BY <1>0
  <2>1. f.todo \in Seq(Handlers) /\ Len(f.todo) \in Nat /\ Len(f.todo) > 0
    BY <1>0, <1>1, FrameTypes
  <2> HIDE DEF S, n
  <2>2. /\ s \in Handlers /\ Tail(f.todo) \in Seq(Handlers) /\ Len(Tail(f.todo)) = Len(f.todo) - 1
        /\ \A i \in 1..Len(Tail(f.todo)) : Tail(f.todo)[i] = f.todo[i + 1]
    BY <2>0, <2>1, HeadTailProperties
  <2>3. s = f.todo[1]
    BY <2>0, <2>1
  <2> QED BY <2>1, <2>2, <2>3
<1>4. /\ e \in 1..m /\ called \in Seq(Handlers) /\ Len(called) \in Nat
      /\ Dispatching(q, n) /\ OnCourse(q, f)
  BY <1>0, <1>1, <1>2, DeskTypes DEF Dispatching
<1>5. /\ g \in FrameSet /\ g.event = e /\ g.todo = Tail(f.todo) /\ g.plan = p
  BY <1>1, <1>3 DEF FrameSet
<1>6. /\ Len(R) = n /\ R[n] = g
      /\ \A k \in 1..n : k # n => R[k] = S[k]
  <2>1. S \in Seq(FrameSet) /\ n \in 1..Len(S) /\ g \in FrameSet
    BY <1>1, <1>5
  <2> HIDE DEF g, n, S
  <2>2. Len(R) = Len(S) /\ \A k \in 1..Len(S) : R[k] = IF k = n THEN g ELSE S[k]
    BY <1>0, <2>1, ExceptSeq
  <2> QED BY <1>1, <2>1, <2>2 DEF n
<1>7. /\ Len(Append(called, s)) = Len(called) + 1 /\ Append(called, s) \in Seq(Handlers)
      /\ \A i \in 1..Len(called) : Append(called, s)[i] = called[i]
      /\ Append(called, s)[Len(called) + 1] = s
  <2>1. s \in Handlers /\ called \in Seq(Handlers)
    BY <1>3, <1>4
  <2> HIDE DEF called
  <2> QED BY <2>1, AppendProperties
<1>8. /\ Len(r.invoked) = m /\ r.invoked[e] = Append(called, s)
      /\ \A d \in 1..m : d # e => r.invoked[d] = q.invoked[d]
  <2>1. e \in 1..Len(q.invoked) /\ Append(called, s) \in Seq(Handlers) /\ q.invoked \in Seq(Seq(Handlers))
    BY <1>1, <1>4, <1>7
  <2>2. r.invoked = [q.invoked EXCEPT ![e] = Append(called, s)]
    BY <1>0
  <2> HIDE DEF called, e
  <2>3. /\ Len(r.invoked) = Len(q.invoked)
        /\ \A d \in 1..Len(q.invoked) : r.invoked[d] = IF d = e THEN Append(called, s) ELSE q.invoked[d]
    <3>1. /\ Len([q.invoked EXCEPT ![e] = Append(called, s)]) = Len(q.invoked)
          /\ \A d \in 1..Len(q.invoked) :
               [q.invoked EXCEPT ![e] = Append(called, s)][d] = IF d = e THEN Append(called, s) ELSE q.invoked[d]
      BY <2>1, ExceptSeq
    <3> QED BY <2>2, <3>1, Zenon
  <2> QED BY <2>1, <2>3, <1>1
<1>9. /\ Len(called) + Len(f.todo) = Len(all) /\ Len(all) \in Nat
      /\ \A i \in 1..Len(called) : called[i] = all[i]
      /\ \A i \in 1..Len(f.todo) : f.todo[i] = all[Len(called) + i]
  <2>1. Len(all) \in Nat
    BY SubscribersOrdered, LenProperties
  <2> QED BY <1>4, <2>1 DEF OnCourse
<1>10. PICK h \in 1..Len(all) :
         \A i \in 1..Len(all) :
           /\ all[i] = "hub" <=> i = h
           /\ all[i] \notin {"metrics", "scenarios", "audit", "hub"} => i < h
  BY SubscribersOrdered
<1>11. all[1] = "metrics" /\ \A i \in 1..Len(all) : all[i] = "audit" => i = 2
  BY SubscribersOrdered
<1> HIDE DEF S, n, R, e, m, called, all, g
<1>12. s = all[Len(called) + 1] /\ Len(called) + 1 \in 1..Len(all)
  <2>1. 1 \in 1..Len(f.todo) /\ Len(called) + 1 \in 1..Len(all)
    BY <1>3, <1>4, <1>9
  <2> QED BY <2>1, <1>3, <1>9, Zenon
\* what is still to be called
<1>a. /\ Len(called) \in Nat /\ Len(f.todo) \in Nat /\ Len(f.todo) > 0
      /\ Len(called) + Len(f.todo) = Len(all) /\ Len(g.todo) = Len(f.todo) - 1
  BY <1>3, <1>4, <1>5, <1>9, Zenon
<1> DEFINE c == Len(called)
           t == Len(f.todo)
<1>c. c \in Nat /\ t \in Nat
  BY <1>a, Zenon
<1> HIDE DEF c, t
<1>b. Len(Append(called, s)) = Len(called) + 1
  BY <1>7, Zenon
<1>13. \A i \in 1..Len(g.todo) : i + 1 \in 1..Len(f.todo) /\ g.todo[i] = f.todo[i + 1]
  BY <1>3, <1>5
<1>14. ToSend(g) => ToSend(f)
  <2> SUFFICES ASSUME NEW i \in 1..Len(g.todo), g.todo[i] = "hub" PROVE ToSend(f)
    BY DEF ToSend
  <2>1. i + 1 \in 1..Len(f.todo) /\ f.todo[i + 1] = "hub"
    BY <1>13, Zenon
  <2> QED BY <2>1, Zenon DEF ToSend
<1>15. s = "hub" => ~ToSend(g)
  <2> SUFFICES ASSUME s = "hub", NEW i \in 1..Len(g.todo), g.todo[i] = "hub" PROVE FALSE
    BY DEF ToSend
  <2>1. Len(called) + 1 = h
    BY <1>10, <1>12
  <2>2. i \in Nat /\ i > 0 /\ i + 1 <= Len(f.todo)
    BY <1>3, <1>13
  <2>3. Len(called) + (i + 1) \in 1..Len(all) /\ Len(called) + (i + 1) # h
    BY <2>1, <2>2, <1>a
  <2>4. all[Len(called) + (i + 1)] = "hub"
    BY <1>9, <1>13, Zenon
  <2> QED BY <2>3, <2>4, <1>10
<1>16. s = "hub" => ToSend(f)
  <2>1. 1 \in 1..Len(f.todo) /\ f.todo[1] = s
    BY <1>3
  <2> QED BY <2>1, Zenon DEF ToSend
<1>17. p # <<>> => ToSend(g)
  <2> SUFFICES ASSUME p # <<>> PROVE ToSend(g)
    OBVIOUS
  <2>1. Len(called) + 1 < h
    BY <1>0, <1>10, <1>12
  <2> DEFINE i == h - (Len(called) + 1)
  <2>2. i \in 1..Len(g.todo) /\ Len(called) + (i + 1) = h
    BY <2>1, <1>a
  <2> HIDE DEF i
  <2>3. g.todo[i] = all[h]
    BY <2>2, <1>9, <1>13, Zenon
  <2> QED BY <2>2, <2>3, <1>10 DEF ToSend
<1>18. OnCourse(r, g)
  <2> DEFINE now == r.invoked[g.event]
             todo == g.todo
             subs == Subscribers(r.published[g.event].topic)
  <2>1. now = Append(called, s) /\ todo = Tail(f.todo) /\ subs = all
    BY <1>0, <1>5, <1>8 DEF all
  <2> HIDE DEF now, todo, subs
  <2>2. /\ Len(now) = Len(called) + 1 /\ Len(todo) = Len(f.todo) - 1
        /\ Len(now) + Len(todo) = Len(subs)
    <3>1. Len(now) = Len(Append(called, s)) /\ Len(todo) = Len(Tail(f.todo)) /\ Len(subs) = Len(all)
      BY <2>1, Zenon
    <3>2. Len(Tail(f.todo)) = Len(f.todo) - 1
      BY <1>3, Zenon
    <3>3. Len(now) = c + 1 /\ Len(todo) = t - 1 /\ Len(subs) = c + t
      BY <3>1, <3>2, <1>a, <1>b, Zenon DEF c, t
    <3>4. (c + 1) + (t - 1) = c + t
      BY ONLY <1>c
    <3> QED BY ONLY <3>3, <3>4, Zenon DEF c, t
  <2>3. ASSUME NEW i \in 1..Len(now) PROVE now[i] = subs[i]
    <3>1. i \in 1..Len(called) \/ i = Len(called) + 1
      BY <2>2, <1>4
    <3> QED BY <3>1, <2>1, <1>7, <1>9, <1>12, Zenon
  <2>4. ASSUME NEW i \in 1..Len(todo) PROVE todo[i] = subs[Len(now) + i]
    <3>1. i \in Nat /\ i + 1 \in 1..Len(f.todo) /\ Len(now) + i = Len(called) + (i + 1)
      BY <2>2, <1>a
    <3>2. todo[i] = f.todo[i + 1]
      BY <2>1, <1>3
    <3> QED BY <3>1, <3>2, <2>1, <1>9, Zenon
  <2> QED BY <2>2, <2>3, <2>4, Zenon DEF OnCourse, now, todo, subs
\* the events of the stack
<1>19. /\ \A k \in 1..n : R[k].event = S[k].event
       /\ \A k \in 1..(n - 1) : k \in 1..n /\ S[k].event < e /\ S[k].event \in 1..m /\ S[k].event # e
  <2>1. S[n] = f
    BY <1>0
  <2>2. \A k \in 1..n : R[k].event = S[k].event
    BY <2>1, <1>1, <1>5, <1>6 DEF e
  <2>3. ASSUME NEW k \in 1..(n - 1) PROVE k \in 1..n /\ S[k].event < e /\ S[k].event \in 1..m /\ S[k].event # e
    <3>1. k \in 1..n
      BY <1>1
    <3>2. S[k].event < e
      BY <2>1, <1>4 DEF Dispatching, S, e
    <3> QED BY <3>1, <3>2, <1>1, <1>2, <1>4
  <2> QED BY <2>2, <2>3
<1>20. \A i \in 1..Len(r.sent) :
         \/ i \in 1..Len(q.sent) /\ r.sent[i] = q.sent[i]
         \/ s = "hub" /\ i = Len(q.sent) + 1 /\ r.sent[i] = e
  <2>1. CASE r.sent = q.sent
    BY <2>1
  <2>2. CASE s = "hub" /\ r.sent = Append(q.sent, e)
    <3>1. e \in Nat /\ q.sent \in Seq(Nat) /\ Len(q.sent) \in Nat
      BY <1>1, <1>4
    <3> QED BY <3>1, <2>2, AppendProperties
  <2> QED BY <2>1, <2>2, <1>0
<1>21. \A i \in 1..Len(r.journal) :
         \/ i \in 1..Len(q.journal) /\ r.journal[i] = q.journal[i]
         \/ s = "audit" /\ i = Len(q.journal) + 1 /\ r.journal[i][1] = e
  <2>1. CASE r.journal = q.journal
    BY <2>1
  <2>2. CASE s = "audit" /\ \E x : r.journal = Append(q.journal, <<e, x>>) /\ <<e, x>> \in EntrySet
    BY <2>2, <1>1, AppendProperties
  <2> QED BY <2>1, <2>2 DEF Calling, e
\* the audit writes before anything of this event's is published
<1>22. s = "audit" => Len(called) = 1
  <2>1. s = "audit" => c + 1 = 2
    BY <1>11, <1>12, Zenon DEF c
  <2>2. c + 1 = 2 => c = 1
    BY ONLY <1>c
  <2> QED BY ONLY <2>1, <2>2, Zenon DEF c
<1>23. Len(called) <= 1 => e = m /\ \A i \in 1..Len(q.journal) : q.journal[i][1] < e
  <2>1. f = q.stack[n] /\ Dispatching(q, n)
    BY <1>0, <1>4 DEF S
  <2> QED BY <2>1, Zenon DEF Dispatching, e, called, m
<1>24. ASSUME NEW k \in 1..n PROVE Dispatching(r, k)
  <2>0. \A i \in 1..(k - 1) : i \in 1..n /\ i # n /\ R[i].event = S[i].event
    BY <1>1, <1>19
  <2>1. Dispatching(q, k) /\ R[k].event = S[k].event /\ S[k].event \in 1..m
    BY <1>2, <1>19
  <2>2. {R[i].event : i \in 1..(k - 1)} = {S[i].event : i \in 1..(k - 1)}
    <3>1. \A i \in 1..(k - 1) : R[i].event = S[i].event
      BY <2>0, Zenon
    <3> QED BY <3>1, Zenon
  <2>3. R[k].event \in 1..Len(r.published) /\ r.published[R[k].event].causes = {R[i].event : i \in 1..(k - 1)}
    BY <1>0, <2>1, <2>2 DEF Dispatching, S, m
  <2>4. \A i \in 1..(k - 1) : R[i].event < R[k].event
    BY <2>0, <2>1 DEF Dispatching, S
  <2>5. CASE k = n
    <3>1. R[k] = g /\ R[k].event = e /\ S[k] = f
      BY <2>5, <1>0, <1>5, <1>6
    <3>2. k < Len(R) \/ g.plan # <<>> => ToSend(g)
      BY <2>5, <1>1, <1>5, <1>6, <1>17
    <3>3. ToSend(g) => \A i \in 1..Len(r.sent) : r.sent[i] # e
      BY <3>1, <2>1, <1>14, <1>15, <1>20 DEF Dispatching, S
    <3>4. ASSUME Len(r.invoked[e]) <= 1
          PROVE  k = Len(R) /\ e = Len(r.published) /\ g.plan = <<>> /\ \A i \in 1..Len(r.journal) : r.journal[i][1] < e
      <4>1. Len(called) = 0
        <5>1. Len(r.invoked[e]) = Len(called) + 1
          BY <1>7, <1>8
        <5> QED BY <5>1, <3>4, <1>4
      <4>2. s = "metrics"
        BY <4>1, <1>11, <1>12
      <4>3. p = <<>> /\ r.journal = q.journal
        BY <4>2 DEF Calling
      <4> QED BY <4>1, <4>3, <2>5, <1>0, <1>5, <1>6, <1>23 DEF m
    <3> QED BY <3>1, <3>2, <3>3, <3>4, <2>3, <2>4, <1>18, Zenon DEF Dispatching, R
  <2>6. CASE k # n
    <3>0. k < n /\ k \in 1..(n - 1)
      BY <2>6, <1>1
    <3>1. k < n /\ R[k] = S[k] /\ k \in 1..(n - 1) /\ S[k].event # e
      BY <3>0, <2>6, <1>6, <1>19, Zenon
    <3>2. OnCourse(r, R[k])
      <4>1. OnCourse(q, S[k])
        BY <2>1, Zenon DEF Dispatching, S
      <4> QED BY <4>1, <3>1, <2>1, <1>0, <1>8, OnCourseKept
    <3>3. ToSend(S[k]) /\ \A i \in 1..Len(q.sent) : q.sent[i] # S[k].event
      BY <3>1, <2>1 DEF Dispatching, S, n
    <3>4. \A i \in 1..Len(r.sent) : r.sent[i] # S[k].event
      BY <3>1, <3>3, <1>20
    <3>5. ~(Len(r.invoked[S[k].event]) <= 1)
      <4>1. r.invoked[S[k].event] = q.invoked[S[k].event]
        BY <3>1, <2>1, <1>8
      <4>2. k # Len(q.stack)
        BY <2>6 DEF S, n
      <4> QED BY <4>1, <4>2, <2>1 DEF Dispatching, S
    <3> QED BY <3>1, <3>2, <3>3, <3>4, <3>5, <2>3, <2>4, Zenon DEF Dispatching, R
  <2> QED BY <2>5, <2>6
<1>25. ASSUME NEW d \in 1..m, \A k \in 1..n : R[k].event # d
       PROVE  r.invoked[d] = Subscribers(r.published[d].topic)
  <2>1. \A k \in 1..n : S[k].event # d
    BY <1>25, <1>19
  <2>2. d # e
    BY <1>25, <1>1, <1>5, <1>6
  <2> QED BY <2>1, <2>2, <1>0, <1>8 DEF BusInv, S, n, m
<1>26. ASSUME NEW i \in 1..Len(r.journal) PROVE r.journal[i][1] \in 1..m
  BY <1>21, <1>4 DEF BusInv, m
<1>27. ASSUME NEW i \in 1..Len(r.journal), NEW j \in 1..Len(r.journal), i < j
       PROVE  r.journal[i][1] < r.journal[j][1]
  <2>1. i \in 1..Len(q.journal) /\ r.journal[i] = q.journal[i]
    <3>1. i # Len(q.journal) + 1
      <4>1. j <= Len(q.journal) + 1
        <5>1. j \in 1..Len(q.journal) \/ j = Len(q.journal) + 1
          BY <1>21, Zenon
        <5> QED BY <5>1, <1>1
      <4> QED BY <4>1, <1>27, <1>1
    <3> QED BY <3>1, <1>21
  <2>2. CASE j \in 1..Len(q.journal) /\ r.journal[j] = q.journal[j]
    BY <2>1, <2>2, <1>27 DEF BusInv
  <2>3. CASE s = "audit" /\ j = Len(q.journal) + 1 /\ r.journal[j][1] = e
    <3>1. \A x \in 1..Len(q.journal) : q.journal[x][1] < e
      <4>1. Len(called) <= 1
        BY <2>3, <1>22, 1 <= 1, Zenon
      <4> QED BY <4>1, <1>23, Zenon
    <3> QED BY <3>1, <2>1, <2>3
  <2> QED BY <2>2, <2>3, <1>21
<1>28. ASSUME NEW i \in 1..Len(r.sent) PROVE r.sent[i] \in 1..m
  BY <1>20, <1>4 DEF BusInv, m
<1>29. ASSUME NEW i \in 1..Len(r.sent), NEW j \in 1..Len(r.sent), i < j
       PROVE  r.sent[i] \notin r.published[r.sent[j]].causes
  <2>1. i \in 1..Len(q.sent) /\ r.sent[i] = q.sent[i]
    <3>1. i # Len(q.sent) + 1
      <4>1. j <= Len(q.sent) + 1
        <5>1. j \in 1..Len(q.sent) \/ j = Len(q.sent) + 1
          BY <1>20, Zenon
        <5> QED BY <5>1, <1>1
      <4> QED BY <4>1, <1>29, <1>1
    <3> QED BY <3>1, <1>20
  <2>2. CASE j \in 1..Len(q.sent) /\ r.sent[j] = q.sent[j]
    BY <2>1, <2>2, <1>0, <1>29 DEF BusInv
  <2>3. CASE s = "hub" /\ j = Len(q.sent) + 1 /\ r.sent[j] = e
    <3>1. ASSUME NEW k \in 1..(n - 1) PROVE q.sent[i] # S[k].event
      <4>1. k \in 1..n /\ k < n
        <5>1. n \in Nat
          BY <1>1
        <5> QED BY <5>1
      <4>2. Dispatching(q, k)
        BY <4>1, <1>2
      <4> QED BY <4>1, <4>2, <2>1 DEF Dispatching, S, n
    <3>2. q.published[e].causes = {S[k].event : k \in 1..(n - 1)}
      <4>1. f = q.stack[n] /\ Dispatching(q, n)
        BY <1>0, <1>4 DEF S
      <4> QED BY <4>1, Zenon DEF Dispatching, S, e
    <3>3. q.sent[i] \notin q.published[e].causes
      BY <3>1, <3>2, Zenon
    <3> QED BY <3>3, <2>1, <2>3, <1>0
  <2> QED BY <2>2, <2>3, <1>20
<1>30. \A d \in 1..m : r.published[d].causes \subseteq 1..(d - 1)
  BY <1>0 DEF BusInv, m
<1> QED BY <1>0, <1>6, <1>8, <1>24, <1>25, <1>26, <1>27, <1>28, <1>29, <1>30, Zenon DEF BusInv, R, m

\* The innermost dispatch has called every subscriber, and ends.
LEMMA BusReturn ==
  ASSUME NEW q \in Desk, BusInv(q), NEW r \in Desk, NEW f,
         q.stack # <<>>, f = q.stack[Len(q.stack)], f.plan = <<>>, f.todo = <<>>,
         r.stack = SubSeq(q.stack, 1, Len(q.stack) - 1),
         r.published = q.published, r.invoked = q.invoked, r.journal = q.journal, r.sent = q.sent
  PROVE  BusInv(r)
<1> DEFINE S == q.stack
           n == Len(S)
           R == r.stack
           e == f.event
           m == Len(q.published)
           called == q.invoked[e]
           all == Subscribers(q.published[e].topic)
<1>1. /\ n \in Nat /\ n > 0 /\ n \in 1..n /\ S \in Seq(FrameSet) /\ f \in FrameSet
      /\ m \in Nat /\ Len(q.invoked) = m
  BY DeskTypes, EmptySeq DEF BusInv
<1>2. \A k \in 1..n : Dispatching(q, k) /\ S[k].event \in 1..m
  BY DEF BusInv, Dispatching
<1>3. Len(R) = n - 1 /\ \A k \in 1..(n - 1) : R[k] = S[k]
  <2>1. \A i \in 1..(n - 1) : S[i] \in FrameSet
    BY <1>1, ElementOfSeq
  <2>2. R = SubSeq(S, 1, n - 1) /\ 1 \in Int /\ n - 1 \in Int
    BY <1>1
  <2> HIDE DEF S, n, R
  <2>3. /\ Len(R) = IF 1 <= n - 1 THEN (n - 1) - 1 + 1 ELSE 0
        /\ \A i \in 1..((n - 1) - 1 + 1) : R[i] = S[1 + i - 1]
    BY <2>1, <2>2, SubSeqProperties
  <2>4. Len(R) = n - 1 /\ (n - 1) - 1 + 1 = n - 1
    BY <2>3, <1>1
  <2>5. \A i \in 1..(n - 1) : 1 + i - 1 = i
    BY <1>1
  <2> QED BY <2>3, <2>4, <2>5, Zenon
<1>4. called = all /\ Len(called) >= 2
  <2>1. e \in 1..m /\ called \in Seq(Handlers) /\ OnCourse(q, f)
    BY <1>1, <1>2, DeskTypes DEF Dispatching
  <2>2. Len(f.todo) = 0 /\ all \in Seq(Handlers) /\ Len(all) \in Nat /\ Len(all) >= 2
    BY EmptySeq, SubscribersOrdered, LenProperties
  <2>3. Len(called) + Len(f.todo) = Len(all) /\ \A i \in 1..Len(called) : called[i] = all[i]
    BY <2>1 DEF OnCourse
  <2> DEFINE c == Len(called)
             t == Len(f.todo)
  <2>4. c \in Nat /\ c + t = Len(all) /\ t = 0
    BY <2>1, <2>2, <2>3, LenProperties, Zenon
  <2> HIDE DEF c, t
  <2>5. c + 0 = c
    BY ONLY <2>4
  <2>6. c = Len(all)
    BY ONLY <2>4, <2>5, Zenon
  <2> HIDE DEF called, all
  <2>7. called = all
    BY ONLY <2>1, <2>2, <2>3, <2>6, SeqEqual DEF c
  <2> QED BY ONLY <2>2, <2>7, Zenon
<1> HIDE DEF S, n, R, e, m, called, all
<1>5. ASSUME NEW k \in 1..(n - 1) PROVE Dispatching(r, k)
  <2>0. k \in 1..n /\ k < n /\ \A i \in 1..(k - 1) : i \in 1..(n - 1)
    BY <1>1
  <2>1. Dispatching(q, k) /\ R[k] = S[k] /\ k < Len(q.stack)
    BY <2>0, <1>2, <1>3 DEF S, n
  <2>2. {R[i].event : i \in 1..(k - 1)} = {S[i].event : i \in 1..(k - 1)}
    <3>1. \A i \in 1..(k - 1) : R[i] = S[i]
      BY <2>0, <1>3, Zenon
    <3> QED BY <3>1, Zenon
  <2>3. OnCourse(r, R[k])
    <3>1. OnCourse(q, S[k])
      BY <2>1, Zenon DEF Dispatching, S
    <3> QED BY <3>1, <2>1, OnCourseKept
  <2>4. \A i \in 1..(k - 1) : R[i].event < R[k].event
    BY <2>0, <2>1, <1>3 DEF Dispatching, S
  <2>5. ~(Len(r.invoked[R[k].event]) <= 1)
    BY <2>1 DEF Dispatching, S
  <2>6. ToSend(R[k]) /\ \A i \in 1..Len(r.sent) : r.sent[i] # R[k].event
    BY <2>1 DEF Dispatching, S
  <2>7. R[k].event \in 1..Len(r.published) /\ r.published[R[k].event].causes = {R[i].event : i \in 1..(k - 1)}
    BY <2>1, <2>2 DEF Dispatching, S
  <2> QED BY <2>3, <2>4, <2>5, <2>6, <2>7, Zenon DEF Dispatching, R
<1>6. ASSUME NEW d \in 1..m, \A k \in 1..(n - 1) : R[k].event # d
      PROVE  r.invoked[d] = Subscribers(r.published[d].topic)
  <2>1. CASE d = e
    BY <2>1, <1>4 DEF called, all
  <2>2. CASE d # e
    <3>1. ASSUME NEW k \in 1..n PROVE S[k].event # d
      <4>1. CASE k = n
        BY <4>1, <2>2 DEF S, n, e
      <4>2. CASE k # n
        <5>1. k \in 1..(n - 1)
          BY <4>2, <1>1
        <5> QED BY <5>1, <1>3, <1>6
      <4> QED BY <4>1, <4>2
    <3> QED BY <3>1 DEF BusInv, S, n, m
  <2> QED BY <2>1, <2>2
<1>7. \A k \in 1..Len(R) : Dispatching(r, k)
  BY <1>3, <1>5
<1>8. /\ \A i \in 1..Len(r.journal) : r.journal[i][1] \in 1..m
      /\ \A i, j \in 1..Len(r.journal) : i < j => r.journal[i][1] < r.journal[j][1]
      /\ \A i \in 1..Len(r.sent) : r.sent[i] \in 1..m
      /\ \A i, j \in 1..Len(r.sent) : i < j => r.sent[i] \notin r.published[r.sent[j]].causes
      /\ \A d \in 1..m : r.published[d].causes \subseteq 1..(d - 1)
      /\ Len(r.invoked) = m /\ Len(r.published) = m
  BY DEF BusInv, m
<1> QED BY <1>3, <1>6, <1>7, <1>8, Zenon DEF BusInv, R

-----------------------------------------------------------------------------
(* What is published                                                       *)

\* Tuples of three elements.
LEMMA Triples ==
  ASSUME NEW S, NEW a \in S, NEW b \in S, NEW c \in S
  PROVE  <<a, b, c>> \in Seq(S)
OBVIOUS

\* The calls of a desk have the fields the handlers read.
LEMMA CallTypes ==
  ASSUME NEW call \in CallSet
  PROVE  /\ call.path \in Seq(STRING) /\ call.evidence \in SUBSET Evidence /\ call.role \in Roles
         /\ call # NoCall /\ PostsTo(call, "operators") => call.newcomer \in Operators
<1>1. CASE call = NoCall
  BY <1>1, EmptySeq DEF NoCall, Roles
<1>2. CASE call \in UNION {Calls[d] : d \in Desks}
  <2>1. PICK d \in Desks : call \in Calls[d]
    BY <1>2
  <2>2. Calls[d] \in SUBSET
       [token : Tokens \cup {None}, header : Operators \cup {None}, method : STRING, path : Seq(STRING),
        newcomer : Operators \cup {None}, role : Roles, evidence : SUBSET Evidence]
    BY CallAssumption
  <2>3. call \in [token : Tokens \cup {None}, header : Operators \cup {None}, method : STRING, path : Seq(STRING),
        newcomer : Operators \cup {None}, role : Roles, evidence : SUBSET Evidence]
    BY <2>1, <2>2
  <2>4. call.path = <<"operators">> /\ call.method = "POST" => call.newcomer \in Operators
    BY <2>1, CallAssumption, Zenon
  <2> QED BY <2>3, <2>4 DEF PostsTo
<1> QED BY <1>1, <1>2 DEF CallSet

\* A handler publishes what there is to publish, nothing when it reads, and that an
\* assessment was created in one place only.
LEMMA AnnouncesTypes ==
  ASSUME NEW call \in CallSet, NEW role, Granted(role, call), NEW topics \in Announces(call)
  PROVE  /\ topics \in Seq(AllTopics)
         /\ call.method = "GET" => topics = <<>>
         /\ (\E i \in 1..Len(topics) : topics[i] = "assessment.created") => PostsTo(call, "assessments")
<1> DEFINE T == AllTopics
           p == call.path
<1>0. /\ "observation.received" \in T /\ "observation.rejected" \in T /\ "telemetry.received" \in T
      /\ "asset.position.updated" \in T /\ "asset.connection.changed" \in T
      /\ "alert.resolved" \in T /\ "alert.acknowledged" \in T /\ "command.issued" \in T
      /\ "command.status.changed" \in T /\ "incident.created" \in T /\ "incident.updated" \in T
      /\ "mission.created" \in T /\ "mission.updated" \in T /\ "source.created" \in T /\ "source.updated" \in T
      /\ "asset.created" \in T /\ "asset.updated" \in T /\ "geofence.created" \in T
      /\ "classification.created" \in T /\ "assessment.created" \in T
      /\ "scenario.run.started" \in T /\ "scenario.run.updated" \in T
      /\ "scenario.run.ended" \in T
  BY DEF AllTopics
<1> HIDE DEF T
<1>1. \/ topics = <<>>
      \/ \E a \in T \ {"assessment.created"} : topics = <<a>>
      \/ \E a, b \in T \ {"assessment.created"} : topics = <<a, b>>
      \/ \E a, b, c \in T \ {"assessment.created"} : topics = <<a, b, c>>
      \/ topics = <<"assessment.created">> /\ call.method # "GET" /\ p[1] = "assessments"
  BY <1>0, Zenon DEF Announces
<1>2. call.method = "GET" => topics = <<>>
  BY DEF Announces
<1>3. topics = <<"assessment.created">> => PostsTo(call, "assessments")
  <2> SUFFICES ASSUME topics = <<"assessment.created">> PROVE PostsTo(call, "assessments")
    OBVIOUS
  <2>1. topics # <<>> /\ \A a \in T \ {"assessment.created"} : topics # <<a>>
    OBVIOUS
  <2>2. \A a, b, c : topics # <<a, b>> /\ topics # <<a, b, c>>
    <3> TAKE a, b, c
    <3>1. Len(topics) = 1 /\ Len(<<a, b>>) = 2 /\ Len(<<a, b, c>>) = 3
      OBVIOUS
    <3> QED BY <3>1
  <2>3. call.method # "GET" /\ p[1] = "assessments"
    BY <1>1, <2>1, <2>2, Zenon
  <2>4. PolicyFor(call.method, p) # Unknown
    BY DEF Granted
  <2>5. p # <<>> /\ p \notin {<<"auth", "me">>, <<"realtime">>}
    BY <2>3, <2>4 DEF PolicyFor
  <2>6. call.method = "POST" /\ PostPolicy(p) # Unknown
    BY <2>3, <2>4, <2>5 DEF PolicyFor
  <2>7. Len(p) = 1
    BY <2>3, <2>6 DEF PostPolicy
  <2>8. p = <<"assessments">>
    <3>1. p \in Seq(STRING)
      BY CallTypes
    <3> QED BY <2>3, <2>7, <3>1
  <2> QED BY <2>6, <2>8 DEF PostsTo
<1>4. ASSUME NEW a \in T \ {"assessment.created"}, topics = <<a>>
      PROVE  topics \in Seq(T) /\ \A i \in 1..Len(topics) : topics[i] # "assessment.created"
  BY <1>4, Tuples
<1>5. ASSUME NEW a \in T \ {"assessment.created"}, NEW b \in T \ {"assessment.created"}, topics = <<a, b>>
      PROVE  topics \in Seq(T) /\ \A i \in 1..Len(topics) : topics[i] # "assessment.created"
  BY <1>5, Tuples
<1>6. ASSUME NEW a \in T \ {"assessment.created"}, NEW b \in T \ {"assessment.created"},
             NEW c \in T \ {"assessment.created"}, topics = <<a, b, c>>
      PROVE  topics \in Seq(T) /\ \A i \in 1..Len(topics) : topics[i] # "assessment.created"
  BY <1>6, Triples
<1>7. topics = <<>> => topics \in Seq(T) /\ \A i \in 1..Len(topics) : topics[i] # "assessment.created"
  BY EmptySeq
<1>8. topics = <<"assessment.created">> => topics \in Seq(T)
  BY <1>0, Tuples
<1>9. topics \in Seq(T)
  BY <1>1, <1>4, <1>5, <1>6, <1>7, <1>8, Zenon
<1>10. (\E i \in 1..Len(topics) : topics[i] = "assessment.created") => topics = <<"assessment.created">>
  BY <1>1, <1>4, <1>5, <1>6, <1>7, Zenon
<1> QED BY <1>2, <1>3, <1>9, <1>10, Zenon DEF T

\* A subscriber publishes nothing that an operator did.
LEMMA PublishesTypes ==
  ASSUME NEW s, NEW topic, NEW plan \in Publishes(s, topic)
  PROVE  plan \in Seq(Sequels)
<1> DEFINE T == Sequels
<1>0. /\ "track.updated" \in T /\ "track.created" \in T /\ "area.geofence.overlapped" \in T
      /\ "geofence.breached" \in T /\ "geofence.exited" \in T /\ "alert.created" \in T
  BY DEF Sequels, AllTopics, Attributed
<1> HIDE DEF T
<1>1. \/ plan = <<>>
      \/ \E a \in T : plan = <<a>>
      \/ \E a, b \in T : plan = <<a, b>>
  BY <1>0, Zenon DEF Publishes
<1>2. plan \in Seq(T)
  <2>1. CASE plan = <<>>
    BY <2>1, EmptySeq
  <2>2. ASSUME NEW a \in T, plan = <<a>> PROVE plan \in Seq(T)
    BY <2>2, Tuples
  <2>3. ASSUME NEW a \in T, NEW b \in T, plan = <<a, b>> PROVE plan \in Seq(T)
    BY <2>3, Tuples
  <2> QED BY <1>1, <2>1, <2>2, <2>3, Zenon
<1> QED BY <1>2 DEF T

-----------------------------------------------------------------------------
(* The tables of routes                                                    *)

\* What a path may be asked is in the matrix, or is not known.
LEMMA GetPolicies ==
  ASSUME NEW p
  PROVE  GetPolicy(p) \in Permissions \cup {Unknown}
BY DEF GetPolicy, Permissions, Readable

\* What a POST needs is a permission, or unknown.
LEMMA PostPolicies ==
  ASSUME NEW p
  PROVE  PostPolicy(p) \in Permissions \cup {Unknown}
BY DEF PostPolicy, Permissions

\* The open policy is no permission, and is known.
LEMMA NotOpen == Open \notin Permissions /\ Open # Unknown
BY DEF Open, Permissions, Unknown

\* middleware.go PolicyFor: every request has a permission, is open, or is unknown.
LEMMA Policies ==
  ASSUME NEW method, NEW p
  PROVE  /\ PolicyFor(method, p) \in Permissions \cup {Unknown, Open}
         /\ PolicyFor(method, p) = Open => method = "GET" /\ p = <<"auth", "me">>
<1>1. /\ <<"operational", "read">> \in Permissions \cup {Unknown}
      /\ <<"incidents", "update">> \in Permissions \cup {Unknown}
  BY DEF Permissions
<1> QED BY <1>1, GetPolicies, PostPolicies, NotOpen DEF PolicyFor

\* Matching by the segment.
LEMMA Match1 ==
  ASSUME NEW S, NEW p \in Seq(S), Len(p) = 1, NEW x \in {p[1], Param}
  PROVE  Matches(p, <<x>>)
BY DEF Matches

\* A path of two segments.
LEMMA Match2 ==
  ASSUME NEW S, NEW p \in Seq(S), Len(p) = 2, NEW x \in {p[1], Param}, NEW y \in {p[2], Param}
  PROVE  Matches(p, <<x, y>>)
BY DEF Matches

\* A path of three segments.
LEMMA Match3 ==
  ASSUME NEW S, NEW p \in Seq(S), Len(p) = 3,
         NEW x \in {p[1], Param}, NEW y \in {p[2], Param}, NEW z \in {p[3], Param}
  PROVE  Matches(p, <<x, y, z>>)
BY DEF Matches

\* A path of four segments.
LEMMA Match4 ==
  ASSUME NEW S, NEW p \in Seq(S), Len(p) = 4,
         NEW x \in {p[1], Param}, NEW y \in {p[2], Param}, NEW z \in {p[3], Param}, NEW u \in {p[4], Param}
  PROVE  Matches(p, <<x, y, z, u>>)
BY DEF Matches

\* A path of five segments.
LEMMA Match5 ==
  ASSUME NEW S, NEW p \in Seq(S), Len(p) = 5,
         NEW x \in {p[1], Param}, NEW y \in {p[2], Param}, NEW z \in {p[3], Param},
         NEW u \in {p[4], Param}, NEW v \in {p[5], Param}
  PROVE  Matches(p, <<x, y, z, u, v>>)
BY DEF Matches

\* What is read: the name of a resource, or one of its rows.
LEMMA ListedIsRouted ==
  ASSUME NEW S, NEW p \in Seq(S), Len(p) \in 1..2, Listed(p[1]) \subseteq Mounted
  PROVE  Routed("GET", p)
<1>1. Get(<<p[1]>>) \in Mounted /\ Get(<<p[1], Param>>) \in Mounted
  BY DEF Listed
<1>2. CASE Len(p) = 1
  <2>1. Matches(p, <<p[1]>>)
    BY <1>2, Match1
  <2> QED BY <1>1, <2>1 DEF Routed, Get
<1>3. CASE Len(p) = 2
  <2>1. Matches(p, <<p[1], Param>>)
    BY <1>3, Match2
  <2> QED BY <1>1, <2>1 DEF Routed, Get
<1> QED BY <1>2, <1>3

\* The resources that are listed, and those that are created.
LEMMA Names ==
  /\ \A r \in Readable \cup {"assets", "operators", "tracks", "scenarios"} : Listed(r) \subseteq Mounted
  /\ \A r \in {"incidents", "missions", "assessments", "observations", "sources", "assets", "geofences",
               "operators", "commands", "classifications", "telemetry"} : Post(<<r>>) \in Mounted
<1>1. /\ Listed("sources") \subseteq Mounted /\ Post(<<"sources">>) \in Mounted
      /\ Listed("observations") \subseteq Mounted /\ Post(<<"observations">>) \in Mounted
      /\ Listed("assets") \subseteq Mounted /\ Post(<<"assets">>) \in Mounted
      /\ Listed("geofences") \subseteq Mounted /\ Post(<<"geofences">>) \in Mounted
  BY DEF Mounted, SourceRoutes, ObservationRoutes, AssetRoutes, GeospatialRoutes, Resource
<1>2. /\ Listed("incidents") \subseteq Mounted /\ Post(<<"incidents">>) \in Mounted
      /\ Listed("missions") \subseteq Mounted /\ Post(<<"missions">>) \in Mounted
      /\ Listed("commands") \subseteq Mounted /\ Post(<<"commands">>) \in Mounted
      /\ Listed("assessments") \subseteq Mounted /\ Post(<<"assessments">>) \in Mounted
      /\ Listed("operators") \subseteq Mounted /\ Post(<<"operators">>) \in Mounted
  BY DEF Mounted, IncidentRoutes, MissionRoutes, CommandRoutes, AssessmentRoutes, OperatorRoutes, Resource
<1>3. /\ Listed("alerts") \subseteq Mounted /\ Listed("tracks") \subseteq Mounted
      /\ Listed("scenarios") \subseteq Mounted
  BY DEF Mounted, AlertRoutes, TrackRoutes, ScenarioRoutes
<1>4. Post(<<"classifications">>) \in Mounted /\ Post(<<"telemetry">>) \in Mounted
  BY DEF Mounted, ClassificationRoutes, TelemetryRoutes
<1> QED BY <1>1, <1>2, <1>3, <1>4, Zenon DEF Readable

\* The actions on a row of a resource.
Verbs == {<<"commands", "transition">>, <<"incidents", "status">>, <<"incidents", "relations">>,
          <<"missions", "status">>, <<"missions", "assets">>, <<"missions", "tasks">>,
          <<"alerts", "acknowledge">>, <<"alerts", "resolve">>, <<"sources", "status">>,
          <<"assets", "status">>, <<"geofences", "active">>, <<"scenarios", "start">>}

\* An action on a row that has a policy has a route.
LEMMA VerbIsRouted ==
  ASSUME NEW S, NEW p \in Seq(S), Len(p) = 3, <<p[1], p[3]>> \in Verbs
  PROVE  Routed("POST", p)
<1>2. Post(<<p[1], Param, p[3]>>) \in Mounted
  <2>1. /\ Post(<<"commands", Param, "transition">>) \in Mounted
        /\ Post(<<"incidents", Param, "status">>) \in Mounted
        /\ Post(<<"incidents", Param, "relations">>) \in Mounted
        /\ Post(<<"missions", Param, "status">>) \in Mounted
        /\ Post(<<"missions", Param, "assets">>) \in Mounted
        /\ Post(<<"missions", Param, "tasks">>) \in Mounted
    BY DEF Mounted, CommandRoutes, IncidentRoutes, MissionRoutes, Verb
  <2>2. /\ Post(<<"alerts", Param, "acknowledge">>) \in Mounted
        /\ Post(<<"alerts", Param, "resolve">>) \in Mounted
        /\ Post(<<"sources", Param, "status">>) \in Mounted
        /\ Post(<<"assets", Param, "status">>) \in Mounted
        /\ Post(<<"geofences", Param, "active">>) \in Mounted
        /\ Post(<<"scenarios", Param, "start">>) \in Mounted
    BY DEF Mounted, AlertRoutes, SourceRoutes, AssetRoutes, GeospatialRoutes, ScenarioRoutes, Verb
  <2>3. \/ p[1] = "commands" /\ p[3] = "transition"
        \/ p[1] = "incidents" /\ p[3] \in {"status", "relations"}
        \/ p[1] = "missions" /\ p[3] \in {"status", "assets", "tasks"}
        \/ p[1] = "alerts" /\ p[3] \in {"acknowledge", "resolve"}
        \/ p[1] \in {"sources", "assets"} /\ p[3] = "status"
        \/ p[1] = "geofences" /\ p[3] = "active"
        \/ p[1] = "scenarios" /\ p[3] = "start"
    BY DEF Verbs
  <2> QED BY <2>1, <2>2, <2>3
<1>3. Matches(p, <<p[1], Param, p[3]>>)
  BY Match3
<1> QED BY <1>2, <1>3 DEF Routed, Post

\* A read that has a policy has a route.
LEMMA GetIsRouted ==
  ASSUME NEW S, NEW p \in Seq(S), GetPolicy(p) # Unknown
  PROVE  Routed("GET", p)
<1> DEFINE r == p[1]
<1>1. \/ r = "audit" /\ Len(p) = 1
      \/ r = "geospatial" /\ ValidGeospatialGet(p)
      \/ r \in Readable \cup {"operators", "assets", "tracks"} /\ Len(p) \in 1..2
      \/ r = "picture" /\ ValidPictureGet(p)
      \/ r = "scenarios" /\ ValidScenarioGet(p)
      \/ r = "assets" /\ Len(p) = 3 /\ p[3] = "telemetry"
      \/ r = "tracks" /\ Len(p) = 3 /\ p[3] \in {"history", "classifications"}
      \/ r = "classifications" /\ Len(p) = 2
  BY Zenon DEF GetPolicy
<1>2. CASE r = "audit" /\ Len(p) = 1
  <2>1. Get(<<"audit">>) \in Mounted
    BY DEF Mounted, AuditRoutes
  <2>2. Matches(p, <<"audit">>)
    BY <1>2, Match1
  <2> QED BY <2>1, <2>2 DEF Routed, Get
<1>3. CASE r = "geospatial" /\ ValidGeospatialGet(p)
  <2>1. Get(<<"geospatial", p[2]>>) \in Mounted
    BY <1>3 DEF Mounted, GeospatialRoutes, ValidGeospatialGet
  <2>2. Matches(p, <<"geospatial", p[2]>>)
    BY <1>3, Match2 DEF ValidGeospatialGet
  <2> QED BY <2>1, <2>2 DEF Routed, Get
<1>4. CASE r \in Readable \cup {"operators", "assets", "tracks"} /\ Len(p) \in 1..2
  <2>1. Listed(p[1]) \subseteq Mounted
    BY <1>4, Names
  <2> QED BY <1>4, <2>1, ListedIsRouted
<1>5. CASE r = "picture" /\ ValidPictureGet(p)
  <2>1. Get(<<"picture">>) \in Mounted /\ Get(<<"picture", "window">>) \in Mounted
    BY DEF Mounted, PictureRoutes
  <2>2. Matches(p, <<"picture">>) \/ Matches(p, <<"picture", "window">>)
    BY <1>5, Match1, Match2 DEF ValidPictureGet
  <2> QED BY <2>1, <2>2 DEF Routed, Get
<1>6. CASE r = "scenarios" /\ ValidScenarioGet(p)
  <2>1. CASE Len(p) \in 1..2
    <3>1. Listed(p[1]) \subseteq Mounted
      BY <1>6, Names
    <3> QED BY <2>1, <3>1, ListedIsRouted
  <2>2. CASE Len(p) = 3 /\ p[2] = "runs"
    <3>1. Get(<<"scenarios", "runs", Param>>) \in Mounted
      BY DEF Mounted, ScenarioRoutes
    <3>2. Matches(p, <<"scenarios", "runs", Param>>)
      BY <1>6, <2>2, Match3
    <3> QED BY <3>1, <3>2 DEF Routed, Get
  <2>3. CASE Len(p) = 4 /\ p[2] = "runs" /\ p[4] = "events"
    <3>1. Get(<<"scenarios", "runs", Param, "events">>) \in Mounted
      BY DEF Mounted, ScenarioRoutes
    <3>2. Matches(p, <<"scenarios", "runs", Param, "events">>)
      BY <1>6, <2>3, Match4
    <3> QED BY <3>1, <3>2 DEF Routed, Get
  <2> QED BY <1>6, <2>1, <2>2, <2>3 DEF ValidScenarioGet
<1>7. CASE r = "assets" /\ Len(p) = 3 /\ p[3] = "telemetry"
  <2>1. Get(<<"assets", Param, "telemetry">>) \in Mounted
    BY DEF Mounted, TelemetryRoutes
  <2>2. Matches(p, <<"assets", Param, "telemetry">>)
    BY <1>7, Match3
  <2> QED BY <2>1, <2>2 DEF Routed, Get
<1>8. CASE r = "tracks" /\ Len(p) = 3 /\ p[3] \in {"history", "classifications"}
  <2>1. Get(<<"tracks", Param, p[3]>>) \in Mounted
    BY <1>8 DEF Mounted, TrackRoutes, ClassificationRoutes
  <2>2. Matches(p, <<"tracks", Param, p[3]>>)
    BY <1>8, Match3
  <2> QED BY <2>1, <2>2 DEF Routed, Get
<1>9. CASE r = "classifications" /\ Len(p) = 2
  <2>1. Get(<<"classifications", Param>>) \in Mounted
    BY DEF Mounted, ClassificationRoutes
  <2>2. Matches(p, <<"classifications", Param>>)
    BY <1>9, Match2
  <2> QED BY <2>1, <2>2 DEF Routed, Get
<1> QED BY <1>1, <1>2, <1>3, <1>4, <1>5, <1>6, <1>7, <1>8, <1>9

\* A write that has a policy has a route.
LEMMA PostIsRouted ==
  ASSUME NEW S, NEW p \in Seq(S), PostPolicy(p) # Unknown
  PROVE  Routed("POST", p)
<1> DEFINE r == p[1]
<1>1. \/ /\ r \in {"incidents", "missions", "assessments", "classifications", "observations", "telemetry",
                   "sources", "assets", "geofences", "operators", "commands"}
         /\ Len(p) = 1
      \/ Len(p) = 3 /\ <<r, p[3]>> \in Verbs
      \/ r = "missions" /\ Len(p) = 5 /\ p[3] = "tasks" /\ p[5] = "status"
      \/ r = "scenarios" /\ Len(p) = 4 /\ p[2] = "definitions" /\ p[4] = "start"
      \/ r = "scenarios" /\ Len(p) = 4 /\ p[2] = "runs" /\ p[4] \in RunVerbs
  BY DEF PostPolicy, ValidScenarioPost, Verbs
<1>2. CASE /\ r \in {"incidents", "missions", "assessments", "classifications", "observations", "telemetry",
                     "sources", "assets", "geofences", "operators", "commands"}
           /\ Len(p) = 1
  <2>1. Post(<<r>>) \in Mounted
    BY <1>2, Names
  <2>2. Matches(p, <<r>>)
    BY <1>2, Match1
  <2> QED BY <2>1, <2>2 DEF Routed, Post
<1>3. CASE Len(p) = 3 /\ <<r, p[3]>> \in Verbs
  BY <1>3, VerbIsRouted
<1>4. CASE r = "missions" /\ Len(p) = 5 /\ p[3] = "tasks" /\ p[5] = "status"
  <2>1. Post(<<"missions", Param, "tasks", Param, "status">>) \in Mounted
    BY DEF Mounted, MissionRoutes
  <2>2. Matches(p, <<"missions", Param, "tasks", Param, "status">>)
    BY <1>4, Match5
  <2> QED BY <2>1, <2>2 DEF Routed, Post
<1>5. CASE r = "scenarios" /\ Len(p) = 4 /\ p[2] = "definitions" /\ p[4] = "start"
  <2>1. Post(<<"scenarios", "definitions", Param, "start">>) \in Mounted
    BY DEF Mounted, ScenarioRoutes
  <2>2. Matches(p, <<"scenarios", "definitions", Param, "start">>)
    BY <1>5, Match4
  <2> QED BY <2>1, <2>2 DEF Routed, Post
<1>6. CASE r = "scenarios" /\ Len(p) = 4 /\ p[2] = "runs" /\ p[4] \in RunVerbs
  <2>1. Post(<<"scenarios", "runs", Param, p[4]>>) \in Mounted
    BY <1>6 DEF Mounted, ScenarioRoutes
  <2>2. Matches(p, <<"scenarios", "runs", Param, p[4]>>)
    BY <1>6, Match4
  <2> QED BY <2>1, <2>2 DEF Routed, Post
<1> QED BY <1>1, <1>2, <1>3, <1>4, <1>5, <1>6

\* A path that has a policy leads to a handler.
LEMMA KnownIsRouted ==
  ASSUME NEW S, NEW method, NEW p \in Seq(S), PolicyFor(method, p) # Unknown
  PROVE  Routed(method, p)
<1>1. CASE p = <<"auth", "me">>
  <2>1. method = "GET"
    BY <1>1 DEF PolicyFor
  <2>2. Get(<<"auth", "me">>) \in Mounted
    BY DEF Mounted, SessionRoutes
  <2>3. Matches(p, <<"auth", "me">>)
    BY <1>1 DEF Matches
  <2> QED BY <2>1, <2>2, <2>3 DEF Routed, Get
<1>2. CASE p = <<"realtime">>
  <2>1. method = "GET"
    BY <1>2 DEF PolicyFor
  <2>2. Get(<<"realtime">>) \in Mounted
    BY DEF Mounted, RealtimeRoutes
  <2>3. Matches(p, <<"realtime">>)
    BY <1>2 DEF Matches
  <2> QED BY <2>1, <2>2, <2>3 DEF Routed, Get
<1>3. CASE p \notin {<<"auth", "me">>, <<"realtime">>}
  <2>1. \/ method = "GET" /\ GetPolicy(p) # Unknown
        \/ method = "POST" /\ PostPolicy(p) # Unknown
        \/ method = "PATCH" /\ Len(p) = 2 /\ p[1] = "incidents"
    BY <1>3, Zenon DEF PolicyFor
  <2>2. CASE method = "PATCH" /\ Len(p) = 2 /\ p[1] = "incidents"
    <3>1. <<"PATCH", <<"incidents", Param>>>> \in Mounted
      BY DEF Mounted, IncidentRoutes
    <3>2. Matches(p, <<"incidents", Param>>)
      BY <2>2, Match2
    <3> QED BY <2>2, <3>1, <3>2 DEF Routed
  <2> QED BY <2>1, <2>2, GetIsRouted, PostIsRouted
<1> QED BY <1>1, <1>2, <1>3

\* The paths that are routed, by method.
Kinds(method, p) ==
  \/ method = "GET" /\ p[1] \in Readable \cup {"assets", "operators", "tracks", "scenarios"} /\ Len(p) \in 1..2
  \/ method = "GET" /\ Len(p) = 1 /\ p[1] \in {"audit", "picture"}
  \/ method = "GET" /\ Len(p) = 2 /\ p[1] = "classifications"
  \/ method = "GET" /\ Len(p) = 2 /\ p[1] = "geospatial"
       /\ p[2] \in {"geofences-containing", "assets-within", "nearest-assets"}
  \/ method = "GET" /\ Len(p) = 2 /\ p[1] = "picture" /\ p[2] = "window"
  \/ method = "GET" /\ Len(p) = 3 /\ p[1] = "assets" /\ p[3] = "telemetry"
  \/ method = "GET" /\ Len(p) = 3 /\ p[1] = "tracks" /\ p[3] \in {"history", "classifications"}
  \/ method = "GET" /\ Len(p) = 3 /\ p[1] = "scenarios" /\ p[2] = "runs"
  \/ method = "GET" /\ Len(p) = 4 /\ p[1] = "scenarios" /\ p[2] = "runs" /\ p[4] = "events"
  \/ method = "POST" /\ Len(p) = 1
       /\ p[1] \in {"incidents", "missions", "assessments", "classifications", "observations", "telemetry",
                    "sources", "assets", "geofences", "operators", "commands"}
  \/ method = "POST" /\ Len(p) = 3 /\ <<p[1], p[3]>> \in Verbs
  \/ method = "POST" /\ Len(p) = 5 /\ p[1] = "missions" /\ p[3] = "tasks" /\ p[5] = "status"
  \/ method = "POST" /\ Len(p) = 4 /\ p[1] = "scenarios" /\ p[2] = "definitions" /\ p[4] = "start"
  \/ method = "POST" /\ Len(p) = 4 /\ p[1] = "scenarios" /\ p[2] = "runs" /\ p[4] \in RunVerbs
  \/ method = "PATCH" /\ Len(p) = 2 /\ p[1] = "incidents"

\* What a path that matches a pattern is made of.
LEMMA Patterns ==
  ASSUME NEW p
  PROVE  /\ \A x : Matches(p, <<x>>) => Len(p) = 1 /\ (x # Param => p[1] = x)
         /\ \A x, y : Matches(p, <<x, y>>) => Len(p) = 2 /\ (x # Param => p[1] = x) /\ (y # Param => p[2] = y)
         /\ \A x, y, z : Matches(p, <<x, y, z>>) =>
              Len(p) = 3 /\ (x # Param => p[1] = x) /\ (y # Param => p[2] = y) /\ (z # Param => p[3] = z)
         /\ \A x, y, z, u : Matches(p, <<x, y, z, u>>) =>
              /\ Len(p) = 4 /\ (x # Param => p[1] = x) /\ (y # Param => p[2] = y) /\ (z # Param => p[3] = z)
              /\ u # Param => p[4] = u
         /\ \A x, y, z, u, v : Matches(p, <<x, y, z, u, v>>) =>
              /\ Len(p) = 5 /\ (x # Param => p[1] = x) /\ (y # Param => p[2] = y) /\ (z # Param => p[3] = z)
              /\ (u # Param => p[4] = u) /\ (v # Param => p[5] = v)
BY DEF Matches

\* The names of the routes are no parameters.
LEMMA Literal ==
  \A x \in {"auth", "me", "classifications", "geospatial", "geofences-containing", "assets-within",
            "nearest-assets", "scenarios", "runs", "picture", "window", "assets", "telemetry", "tracks",
            "history", "events", "definitions", "start", "missions", "tasks", "status", "incidents",
            "audit", "realtime"} : x # Param
BY DEF Param

\* The route of a path, from the tables of the modules, is of a kind that has a policy.
LEMMA RoutedKinds ==
  ASSUME NEW method, NEW p, Routed(method, p)
  PROVE  \/ Kinds(method, p)
         \/ method = "GET" /\ Len(p) = 2 /\ p[1] = "auth" /\ p[2] = "me"
         \/ method = "GET" /\ Len(p) = 1 /\ p[1] = "realtime"
<1>1. PICK route \in Mounted : route[1] = method /\ Matches(p, route[2])
  BY DEF Routed
<1>2. ASSUME NEW n \in Readable \cup {"assets", "operators", "tracks", "scenarios"}, route \in Listed(n)
      PROVE  Kinds(method, p)
  <2>1. method = "GET" /\ (Matches(p, <<n>>) \/ Matches(p, <<n, Param>>)) /\ n # Param
    <3>1. n # Param
      BY DEF Readable, Param
    <3>2. route = Get(<<n>>) \/ route = Get(<<n, Param>>)
      BY <1>2 DEF Listed
    <3> QED BY <1>1, <3>1, <3>2 DEF Get
  <2>2. Len(p) \in 1..2 /\ p[1] = n
    BY <2>1, Patterns
  <2> QED BY <2>1, <2>2 DEF Kinds
<1>3. ASSUME NEW n \in {"incidents", "missions", "assessments", "classifications", "observations", "telemetry",
                        "sources", "assets", "geofences", "operators", "commands"},
             route = Post(<<n>>)
      PROVE  Kinds(method, p)
  <2>1. method = "POST" /\ Matches(p, <<n>>) /\ n # Param
    BY <1>1, <1>3 DEF Post, Param
  <2>2. Len(p) = 1 /\ p[1] = n
    BY <2>1, Patterns
  <2> QED BY <2>1, <2>2 DEF Kinds
<1>4. ASSUME NEW n, NEW action, <<n, action>> \in Verbs, n # Param, action # Param, route \in Verb(n, action)
      PROVE  Kinds(method, p)
  <2>1. method = "POST" /\ Matches(p, <<n, Param, action>>)
    BY <1>1, <1>4 DEF Verb, Post
  <2>2. Len(p) = 3 /\ p[1] = n /\ p[3] = action
    BY <1>4, <2>1, Patterns
  <2> QED BY <1>4, <2>1, <2>2 DEF Kinds
<1>5. ASSUME NEW n \in {"sources", "observations", "assets", "geofences", "incidents", "missions", "commands",
                        "assessments", "operators"}, route \in Resource(n)
      PROVE  Kinds(method, p)
  <2>1. route \in Listed(n) \/ route = Post(<<n>>)
    BY <1>5 DEF Resource
  <2>2. n \in Readable \cup {"assets", "operators", "tracks", "scenarios"}
    BY DEF Readable
  <2> QED BY <1>2, <1>3, <2>1, <2>2
<1>6. \/ \E n \in {"sources", "observations", "assets", "geofences", "incidents", "missions", "commands",
                   "assessments", "operators"} : route \in Resource(n)
      \/ \E n \in {"tracks", "alerts", "scenarios"} : route \in Listed(n)
      \/ \E n \in {"classifications", "telemetry"} : route = Post(<<n>>)
      \/ route \in Verb("sources", "status") \/ route \in Verb("assets", "status")
      \/ route \in Verb("geofences", "active") \/ route \in Verb("alerts", "acknowledge")
      \/ route \in Verb("alerts", "resolve") \/ route \in Verb("incidents", "status")
      \/ route \in Verb("incidents", "relations") \/ route \in Verb("missions", "status")
      \/ route \in Verb("missions", "assets") \/ route \in Verb("missions", "tasks")
      \/ route \in Verb("commands", "transition") \/ route \in Verb("scenarios", "start")
      \/ route \in {Get(<<"auth", "me">>), Get(<<"assets", Param, "telemetry">>),
                    Get(<<"tracks", Param, "history">>), Get(<<"classifications", Param>>),
                    Get(<<"tracks", Param, "classifications">>),
                    Get(<<"geospatial", "geofences-containing">>), Get(<<"geospatial", "assets-within">>),
                    Get(<<"geospatial", "nearest-assets">>), <<"PATCH", <<"incidents", Param>>>>,
                    Post(<<"missions", Param, "tasks", Param, "status">>), Get(<<"audit">>),
                    Get(<<"scenarios", "runs">>), Get(<<"scenarios", "runs", Param>>),
                    Get(<<"scenarios", "runs", Param, "events">>),
                    Post(<<"scenarios", "definitions", Param, "start">>),
                    Get(<<"picture">>), Get(<<"picture", "window">>), Get(<<"realtime">>)}
      \/ \E v \in RunVerbs : route = Post(<<"scenarios", "runs", Param, v>>)
  BY <1>1 DEF Mounted, SessionRoutes, SourceRoutes, ObservationRoutes, AssetRoutes, TelemetryRoutes,
              TrackRoutes, ClassificationRoutes, GeospatialRoutes, AlertRoutes, IncidentRoutes, MissionRoutes,
              CommandRoutes, AssessmentRoutes, AuditRoutes, OperatorRoutes, ScenarioRoutes, PictureRoutes,
              RealtimeRoutes
<1>7. ASSUME NEW n \in {"tracks", "alerts", "scenarios"}, route \in Listed(n) PROVE Kinds(method, p)
  <2>1. n \in Readable \cup {"assets", "operators", "tracks", "scenarios"}
    BY DEF Readable
  <2> QED BY <1>2, <1>7, <2>1
<1>8. ASSUME \/ route \in Verb("sources", "status") \/ route \in Verb("assets", "status")
             \/ route \in Verb("geofences", "active") \/ route \in Verb("alerts", "acknowledge")
             \/ route \in Verb("alerts", "resolve") \/ route \in Verb("incidents", "status")
             \/ route \in Verb("incidents", "relations") \/ route \in Verb("missions", "status")
             \/ route \in Verb("missions", "assets") \/ route \in Verb("missions", "tasks")
             \/ route \in Verb("commands", "transition") \/ route \in Verb("scenarios", "start")
      PROVE  Kinds(method, p)
  <2>1. PICK n, action : <<n, action>> \in Verbs /\ route \in Verb(n, action) /\ n # Param /\ action # Param
    BY <1>8 DEF Verbs, Param
  <2> QED BY <1>4, <2>1
<1>9. ASSUME NEW v \in RunVerbs, route = Post(<<"scenarios", "runs", Param, v>>) PROVE Kinds(method, p)
  <2>1. method = "POST" /\ Matches(p, <<"scenarios", "runs", Param, v>>) /\ v # Param
    BY <1>1, <1>9 DEF Post, RunVerbs, Param
  <2>2. Len(p) = 4 /\ p[1] = "scenarios" /\ p[2] = "runs" /\ p[4] = v
    BY <2>1, Literal, Patterns
  <2> QED BY <2>1, <2>2 DEF Kinds
<1>10. ASSUME NEW pattern, route = Get(pattern) PROVE method = "GET" /\ Matches(p, pattern)
  BY <1>1, <1>10 DEF Get
<1>11. ASSUME NEW pattern, route = Post(pattern) PROVE method = "POST" /\ Matches(p, pattern)
  BY <1>1, <1>11 DEF Post
<1>12. CASE route \in {Get(<<"audit">>), Get(<<"picture">>), Get(<<"realtime">>)}
  <2>1. method = "GET" /\ (Matches(p, <<"audit">>) \/ Matches(p, <<"picture">>) \/ Matches(p, <<"realtime">>))
    BY <1>10, <1>12
  <2>2. Len(p) = 1 /\ p[1] \in {"audit", "picture", "realtime"}
    BY <2>1, Literal, Patterns
  <2> QED BY <2>1, <2>2 DEF Kinds
<1>13. CASE route \in {Get(<<"auth", "me">>), Get(<<"classifications", Param>>), Get(<<"scenarios", "runs">>),
                       Get(<<"picture", "window">>)}
  <2>1. /\ method = "GET"
        /\ \/ Matches(p, <<"auth", "me">>) \/ Matches(p, <<"classifications", Param>>)
           \/ Matches(p, <<"scenarios", "runs">>) \/ Matches(p, <<"picture", "window">>)
    BY <1>10, <1>13
  <2>2. /\ Len(p) = 2
        /\ \/ p[1] = "auth" /\ p[2] = "me"
           \/ p[1] \in {"classifications", "scenarios"}
           \/ p[1] = "picture" /\ p[2] = "window"
    BY <2>1, Literal, Patterns
  <2> QED BY <2>1, <2>2 DEF Kinds
<1>18. CASE route \in {Get(<<"geospatial", "geofences-containing">>), Get(<<"geospatial", "assets-within">>),
                       Get(<<"geospatial", "nearest-assets">>)}
  <2>1. PICK what \in {"geofences-containing", "assets-within", "nearest-assets"} :
          method = "GET" /\ Matches(p, <<"geospatial", what>>)
    BY <1>10, <1>18
  <2>2. Len(p) = 2 /\ p[1] = "geospatial" /\ p[2] = what
    BY <2>1, Literal, Patterns
  <2> QED BY <2>1, <2>2 DEF Kinds
<1>14. CASE route \in {Get(<<"assets", Param, "telemetry">>), Get(<<"tracks", Param, "history">>),
                       Get(<<"tracks", Param, "classifications">>), Get(<<"scenarios", "runs", Param>>)}
  <2>1. /\ method = "GET"
        /\ \/ Matches(p, <<"assets", Param, "telemetry">>) \/ Matches(p, <<"tracks", Param, "history">>)
           \/ Matches(p, <<"tracks", Param, "classifications">>) \/ Matches(p, <<"scenarios", "runs", Param>>)
    BY <1>10, <1>14
  <2>2. /\ Len(p) = 3
        /\ \/ p[1] = "assets" /\ p[3] = "telemetry"
           \/ p[1] = "tracks" /\ p[3] \in {"history", "classifications"}
           \/ p[1] = "scenarios" /\ p[2] = "runs"
    BY <2>1, Literal, Patterns
  <2> QED BY <2>1, <2>2 DEF Kinds
<1>15. CASE route \in {Get(<<"scenarios", "runs", Param, "events">>),
                       Post(<<"scenarios", "definitions", Param, "start">>)}
  <2>1. \/ method = "GET" /\ Matches(p, <<"scenarios", "runs", Param, "events">>)
        \/ method = "POST" /\ Matches(p, <<"scenarios", "definitions", Param, "start">>)
    BY <1>10, <1>11, <1>15
  <2>2. /\ Len(p) = 4 /\ p[1] = "scenarios"
        /\ \/ method = "GET" /\ p[2] = "runs" /\ p[4] = "events"
           \/ method = "POST" /\ p[2] = "definitions" /\ p[4] = "start"
    BY <2>1, Literal, Patterns
  <2> QED BY <2>2 DEF Kinds
<1>16. CASE route = Post(<<"missions", Param, "tasks", Param, "status">>)
  <2>1. method = "POST" /\ Matches(p, <<"missions", Param, "tasks", Param, "status">>)
    BY <1>11, <1>16
  <2>2. Len(p) = 5 /\ p[1] = "missions" /\ p[3] = "tasks" /\ p[5] = "status"
    BY <2>1, Literal, Patterns
  <2> QED BY <2>1, <2>2 DEF Kinds
<1>17. CASE route = <<"PATCH", <<"incidents", Param>>>>
  <2>1. method = "PATCH" /\ Matches(p, <<"incidents", Param>>)
    BY <1>1, <1>17
  <2>2. Len(p) = 2 /\ p[1] = "incidents"
    BY <2>1, Literal, Patterns
  <2> QED BY <2>1, <2>2 DEF Kinds
<1> QED BY <1>3, <1>5, <1>6, <1>7, <1>8, <1>9, <1>12, <1>13, <1>14, <1>15, <1>16, <1>17,
       <1>18

\* http.go Mount: every route has a policy, or is open.
LEMMA RoutedIsKnown ==
  ASSUME NEW S, NEW method, NEW p \in Seq(S), Routed(method, p)
  PROVE  PolicyFor(method, p) # Unknown
<1>1. CASE method = "GET" /\ Len(p) = 2 /\ p[1] = "auth" /\ p[2] = "me"
  <2>1. p = <<"auth", "me">> /\ p # <<>>
    BY <1>1
  <2>2. Open # Unknown
    BY NotOpen
  <2> QED BY <1>1, <2>1, <2>2 DEF PolicyFor
<1>2. CASE method = "GET" /\ Len(p) = 1 /\ p[1] = "realtime"
  <2>1. p = <<"realtime">> /\ p # <<>> /\ p # <<"auth", "me">>
    BY <1>2
  <2> QED BY <1>2, <2>1 DEF PolicyFor, Unknown
<1>3. CASE Kinds(method, p)
  <2>1. p # <<>> /\ p \notin {<<"auth", "me">>, <<"realtime">>}
    <3>1. Len(p) \in 1..5 /\ p[1] \notin {"auth", "realtime"}
      BY <1>3 DEF Kinds, Readable, Verbs
    <3> QED BY <3>1, EmptySeq
  <2>2. CASE method = "GET"
    <3>1. \/ p[1] = "audit" /\ Len(p) = 1
          \/ p[1] = "geospatial" /\ ValidGeospatialGet(p)
          \/ p[1] \in Readable \cup {"operators", "assets", "tracks"} /\ Len(p) \in 1..2
          \/ p[1] = "picture" /\ ValidPictureGet(p)
          \/ p[1] = "scenarios" /\ ValidScenarioGet(p)
          \/ p[1] = "assets" /\ Len(p) = 3 /\ p[3] = "telemetry"
          \/ p[1] = "tracks" /\ Len(p) = 3 /\ p[3] \in {"history", "classifications"}
          \/ p[1] = "classifications" /\ Len(p) = 2
      BY <1>3, <2>2 DEF Kinds, ValidGeospatialGet, ValidPictureGet, ValidScenarioGet
    <3>2. GetPolicy(p) # Unknown
      BY <3>1 DEF GetPolicy, Unknown
    <3> QED BY <2>1, <2>2, <3>2 DEF PolicyFor
  <2>3. CASE method = "POST"
    <3>1. PostPolicy(p) # Unknown
      BY <1>3, <2>3 DEF Kinds, Verbs, PostPolicy, ValidScenarioPost, Unknown
    <3> QED BY <2>1, <2>3, <3>1 DEF PolicyFor
  <2>4. CASE method = "PATCH"
    <3>1. Len(p) = 2 /\ p[1] = "incidents"
      BY <1>3, <2>4 DEF Kinds
    <3>2. PolicyFor(method, p) = <<"incidents", "update">>
      BY <2>1, <2>4, <3>1 DEF PolicyFor
    <3> QED BY <3>2 DEF Unknown
  <2> QED BY <1>3, <2>2, <2>3, <2>4 DEF Kinds
<1> QED BY <1>1, <1>2, <1>3, RoutedKinds

\* The words of the routes.
LEMMA WordOf ==
  ASSUME NEW route \in Mounted, NEW i \in 1..Len(route[2])
  PROVE  route[2][i] \in Words
<1> DEFINE words(r) == {r[2][k] : k \in 1..Len(r[2])}
<1>1. route[2][i] \in words(route)
  OBVIOUS
<1>2. words(route) \in {words(r) : r \in Mounted}
  OBVIOUS
<1>3. Words = {"unmatched"} \cup UNION {words(r) : r \in Mounted}
  BY DEF Words
<1> HIDE DEF words
<1> QED BY <1>1, <1>2, <1>3

\* The label of a path of two segments is made of names.
LEMMA WordsOfTwo ==
  ASSUME NEW m, NEW x, NEW y, <<m, <<x, y>>>> \in Mounted
  PROVE  x \in Words /\ y \in Words
<1>1. <<m, <<x, y>>>>[2] = <<x, y>> /\ Len(<<x, y>>) = 2 /\ <<x, y>>[1] = x /\ <<x, y>>[2] = y
  OBVIOUS
<1>2. 1 \in 1..2 /\ 2 \in 1..2
  OBVIOUS
<1> QED BY <1>1, <1>2, WordOf, Zenon

\* The label of a path of one segment is made of names.
LEMMA WordsOfOne ==
  ASSUME NEW m, NEW x, <<m, <<x>>>> \in Mounted
  PROVE  x \in Words
<1>1. <<m, <<x>>>>[2] = <<x>> /\ Len(<<x>>) = 1 /\ <<x>>[1] = x
  OBVIOUS
<1>2. 1 \in 1..1
  OBVIOUS
<1> QED BY <1>1, <1>2, WordOf, Zenon

\* The label of a path of three segments is made of names.
LEMMA WordsOfThree ==
  ASSUME NEW m, NEW x, NEW y, NEW z, <<m, <<x, y, z>>>> \in Mounted
  PROVE  y \in Words /\ z \in Words
<1>1. /\ <<m, <<x, y, z>>>>[2] = <<x, y, z>> /\ Len(<<x, y, z>>) = 3
      /\ <<x, y, z>>[2] = y /\ <<x, y, z>>[3] = z
  OBVIOUS
<1>2. 2 \in 1..3 /\ 3 \in 1..3
  OBVIOUS
<1> QED BY <1>1, <1>2, WordOf, Zenon

\* The label of a path of four segments is made of names.
LEMMA WordsOfFour ==
  ASSUME NEW m, NEW x, NEW y, NEW z, NEW u, <<m, <<x, y, z, u>>>> \in Mounted
  PROVE  y \in Words /\ u \in Words
<1>1. /\ <<m, <<x, y, z, u>>>>[2] = <<x, y, z, u>> /\ Len(<<x, y, z, u>>) = 4
      /\ <<x, y, z, u>>[2] = y /\ <<x, y, z, u>>[4] = u
  OBVIOUS
<1>2. 2 \in 1..4 /\ 4 \in 1..4
  OBVIOUS
<1> QED BY <1>1, <1>2, WordOf, Zenon

\* Every root that the labels keep, and everything they keep beside it, is a word of a route.
LEMMA Vocabulary ==
  /\ KnownMetricRoot \subseteq Words /\ RunVerbs \subseteq Words
  /\ \A root : BoundedResourceAction(root) \subseteq Words
  /\ {"me", Param, "unmatched", "geofences-containing", "assets-within", "nearest-assets", "runs", "events",
      "definitions", "start", "tasks", "status"} \subseteq Words
<1>1. /\ "sources" \in Words /\ "observations" \in Words /\ "assets" \in Words /\ "geofences" \in Words
      /\ "incidents" \in Words /\ "missions" \in Words /\ "commands" \in Words /\ "assessments" \in Words
      /\ "operators" \in Words /\ "classifications" \in Words /\ "telemetry" \in Words
  <2>1. \A r \in {"sources", "observations", "assets", "geofences", "incidents", "missions", "commands",
                  "assessments", "operators", "classifications", "telemetry"} : Post(<<r>>) \in Mounted
    BY Names
  <2>2. \A r : Post(<<r>>) \in Mounted => r \in Words
    BY WordsOfOne, Zenon DEF Post
  <2> QED BY <2>1, <2>2
<1>2. "tracks" \in Words /\ "alerts" \in Words /\ "scenarios" \in Words /\ Param \in Words
  <2>1. Get(<<"tracks", Param>>) \in Mounted /\ Get(<<"alerts", Param>>) \in Mounted
        /\ Get(<<"scenarios", Param>>) \in Mounted
    BY DEF Mounted, TrackRoutes, AlertRoutes, ScenarioRoutes, Listed
  <2> QED BY <2>1, WordsOfTwo DEF Get
<1>3. /\ "auth" \in Words /\ "me" \in Words /\ "geospatial" \in Words /\ "geofences-containing" \in Words
      /\ "assets-within" \in Words /\ "nearest-assets" \in Words /\ "runs" \in Words
  <2>1. /\ Get(<<"auth", "me">>) \in Mounted /\ Get(<<"geospatial", "geofences-containing">>) \in Mounted
        /\ Get(<<"geospatial", "assets-within">>) \in Mounted /\ Get(<<"geospatial", "nearest-assets">>) \in Mounted
        /\ Get(<<"scenarios", "runs">>) \in Mounted
    BY DEF Mounted, SessionRoutes, GeospatialRoutes, ScenarioRoutes
  <2> QED BY <2>1, WordsOfTwo DEF Get
<1>4. "audit" \in Words /\ "realtime" \in Words
  <2>1. Get(<<"audit">>) \in Mounted /\ Get(<<"realtime">>) \in Mounted
    BY DEF Mounted, AuditRoutes, RealtimeRoutes
  <2> QED BY <2>1, WordsOfOne DEF Get
<1>5. /\ "transition" \in Words /\ "status" \in Words /\ "relations" \in Words /\ "assets" \in Words
      /\ "tasks" \in Words /\ "acknowledge" \in Words /\ "resolve" \in Words /\ "active" \in Words
      /\ "start" \in Words
  <2>1. /\ Post(<<"commands", Param, "transition">>) \in Mounted
        /\ Post(<<"incidents", Param, "status">>) \in Mounted
        /\ Post(<<"incidents", Param, "relations">>) \in Mounted
        /\ Post(<<"missions", Param, "assets">>) \in Mounted
        /\ Post(<<"missions", Param, "tasks">>) \in Mounted
    BY DEF Mounted, CommandRoutes, IncidentRoutes, MissionRoutes, Verb
  <2>2. /\ Post(<<"alerts", Param, "acknowledge">>) \in Mounted
        /\ Post(<<"alerts", Param, "resolve">>) \in Mounted
        /\ Post(<<"geofences", Param, "active">>) \in Mounted
        /\ Post(<<"scenarios", Param, "start">>) \in Mounted
    BY DEF Mounted, AlertRoutes, GeospatialRoutes, ScenarioRoutes, Verb
  <2>3. \A x, y, z : Post(<<x, y, z>>) \in Mounted => z \in Words
    BY WordsOfThree, Zenon DEF Post
  <2> QED BY <2>1, <2>2, <2>3, Zenon
<1>6. "telemetry" \in Words /\ "history" \in Words /\ "classifications" \in Words
  <2>1. Get(<<"tracks", Param, "history">>) \in Mounted
    BY DEF Mounted, TrackRoutes
  <2> QED BY <1>1, <2>1, WordsOfThree DEF Get
<1>7. "events" \in Words /\ "definitions" \in Words
  <2>1. /\ Get(<<"scenarios", "runs", Param, "events">>) \in Mounted
        /\ Post(<<"scenarios", "definitions", Param, "start">>) \in Mounted
    BY DEF Mounted, ScenarioRoutes
  <2> QED BY <2>1, WordsOfFour DEF Get, Post
<1>8. RunVerbs \subseteq Words
  <2> SUFFICES ASSUME NEW v \in RunVerbs PROVE v \in Words
    OBVIOUS
  <2>1. Post(<<"scenarios", "runs", Param, v>>) \in Mounted
    BY DEF Mounted, ScenarioRoutes
  <2> QED BY <2>1, WordsOfFour DEF Post
<1>9. "unmatched" \in Words
  BY DEF Words
<1>10. KnownMetricRoot \subseteq Words
  BY <1>1, <1>2, <1>3, <1>4 DEF KnownMetricRoot
<1>11. \A root : BoundedResourceAction(root) \subseteq Words
  BY <1>1, <1>5, <1>6 DEF BoundedResourceAction
<1> QED BY <1>2, <1>3, <1>5, <1>7, <1>8, <1>9, <1>10, <1>11

\* metrics.go boundedRoute: the label of any path is made of the names of the routes.
LEMMA Labels ==
  ASSUME NEW S, NEW p \in Seq(S), NEW i \in 1..Len(BoundedRoute(p))
  PROVE  BoundedRoute(p)[i] \in Words
<1> DEFINE b == BoundedRoute(p)
<1>1. ASSUME NEW x \in Words, b = <<x>> PROVE b[i] \in Words
  BY <1>1
<1>2. ASSUME NEW x \in Words, NEW y \in Words, b = <<x, y>> PROVE b[i] \in Words
  BY <1>2
<1>3. ASSUME NEW x \in Words, NEW y \in Words, NEW z \in Words, b = <<x, y, z>> PROVE b[i] \in Words
  BY <1>3
<1>4. ASSUME NEW x \in Words, NEW y \in Words, NEW z \in Words, NEW u \in Words, b = <<x, y, z, u>>
      PROVE  b[i] \in Words
  BY <1>4
<1>5. ASSUME NEW x \in Words, NEW y \in Words, NEW z \in Words, NEW u \in Words, NEW v \in Words,
             b = <<x, y, z, u, v>>
      PROVE  b[i] \in Words
  BY <1>5
<1>6. /\ "me" \in Words /\ Param \in Words /\ "unmatched" \in Words /\ "geofences-containing" \in Words
      /\ "assets-within" \in Words /\ "nearest-assets" \in Words /\ "runs" \in Words /\ "events" \in Words
      /\ "definitions" \in Words /\ "start" \in Words /\ "tasks" \in Words /\ "status" \in Words
      /\ "auth" \in Words /\ "geospatial" \in Words /\ "scenarios" \in Words /\ "missions" \in Words
  BY Vocabulary DEF KnownMetricRoot
<1>7. CASE b = Unmatched
  BY <1>1, <1>6, <1>7 DEF Unmatched
<1>8. CASE b = p /\ (p = <<"auth", "me">> \/ p = <<"scenarios", "runs">>)
  BY <1>2, <1>6, <1>8
<1>9. CASE b = p /\ Len(p) = 1 /\ p[1] \in KnownMetricRoot
  <2>1. b = <<p[1]>> /\ p[1] \in Words
    BY <1>9, Vocabulary
  <2> QED BY <1>1, <2>1
<1>10. CASE b = p /\ p[1] = "geospatial" /\ ValidGeospatialGet(p)
  <2>1. p = <<"geospatial", p[2]>> /\ p[2] \in Words
    BY <1>6, <1>10 DEF ValidGeospatialGet
  <2> QED BY <1>2, <1>6, <1>10, <2>1
<1>11. CASE b = BoundedScenarioRoute(p)
  <2>1. \/ b = p /\ p = <<"scenarios", "runs">>
        \/ b = <<"scenarios", Param>> \/ b = <<"scenarios", "runs", Param>>
        \/ b = <<"scenarios", "runs", Param, p[4]>> /\ p[4] \in RunVerbs \cup {"events"}
        \/ b = <<"scenarios", "definitions", Param, "start">>
        \/ b = Unmatched
    BY <1>11, Zenon DEF BoundedScenarioRoute
  <2>2. p[4] \in RunVerbs \cup {"events"} => p[4] \in Words
    BY <1>6, Vocabulary
  <2> QED BY <1>2, <1>3, <1>4, <1>6, <1>7, <1>8, <2>1, <2>2
<1>12. CASE b = <<p[1], Param>> /\ p[1] \in KnownMetricRoot
  BY <1>2, <1>6, <1>12, Vocabulary
<1>13. CASE b = <<p[1], Param, p[3]>> /\ p[3] \in BoundedResourceAction(p[1])
  <2>1. p[1] \in KnownMetricRoot
    BY <1>13 DEF BoundedResourceAction, KnownMetricRoot
  <2> QED BY <1>3, <1>6, <1>13, <2>1, Vocabulary
<1>14. CASE b = <<"missions", Param, "tasks", Param>>
  BY <1>4, <1>6, <1>14
<1>15. CASE b = <<"missions", Param, "tasks", Param, "status">>
  BY <1>5, <1>6, <1>15
<1>16. \/ b = Unmatched
       \/ b = p /\ (p = <<"auth", "me">> \/ p = <<"scenarios", "runs">>)
       \/ b = p /\ Len(p) = 1 /\ p[1] \in KnownMetricRoot
       \/ b = p /\ p[1] = "geospatial" /\ ValidGeospatialGet(p)
       \/ b = BoundedScenarioRoute(p)
       \/ b = <<p[1], Param>> /\ p[1] \in KnownMetricRoot
       \/ b = <<p[1], Param, p[3]>> /\ p[3] \in BoundedResourceAction(p[1])
       \/ b = <<"missions", Param, "tasks", Param>>
       \/ b = <<"missions", Param, "tasks", Param, "status">>
  <2> DEFINE geospatial == IF ValidGeospatialGet(p) THEN p ELSE Unmatched
             tasks == CASE Len(p) = 4 -> <<"missions", Param, "tasks", Param>>
                        [] Len(p) = 5 /\ p[5] = "status" -> <<"missions", Param, "tasks", Param, "status">>
                        [] OTHER -> Unmatched
  <2>1. geospatial = Unmatched \/ (geospatial = p /\ ValidGeospatialGet(p))
    BY Zenon
  <2>2. \/ tasks = <<"missions", Param, "tasks", Param>>
        \/ tasks = <<"missions", Param, "tasks", Param, "status">>
        \/ tasks = Unmatched
    OBVIOUS
  <2>3. \/ b = Unmatched
        \/ b = p /\ p = <<"auth", "me">>
        \/ b = p /\ Len(p) = 1 /\ p[1] \in KnownMetricRoot
        \/ b = geospatial /\ p[1] = "geospatial"
        \/ b = BoundedScenarioRoute(p)
        \/ b = <<p[1], Param>> /\ p[1] \in KnownMetricRoot
        \/ b = <<p[1], Param, p[3]>> /\ p[3] \in BoundedResourceAction(p[1])
        \/ b = tasks
    <3>1. b \in {BoundedRoute(p)}
      OBVIOUS
    <3> HIDE DEF b
    <3> QED BY <3>1, Zenon DEF BoundedRoute
  <2> HIDE DEF b, tasks, geospatial
  <2> QED BY <2>1, <2>2, <2>3, Zenon
<1> HIDE DEF b
<1> QED BY <1>7, <1>8, <1>9, <1>10, <1>11, <1>12, <1>13, <1>14, <1>15, <1>16

-----------------------------------------------------------------------------
(* The steps of a desk                                                     *)

\* No operator is removed, and no role changes.
Grown == \A o \in DOMAIN registered : o \in DOMAIN registered' /\ registered'[o] = registered[o]

\* What a step leaves to the desks that do not take it.
LEMMA OthersKept ==
  ASSUME NEW x \in Desks, DeskInv(x), desk'[x] = desk[x], settings' = settings, Grown,
         cited[x] \subseteq cited'[x]
  PROVE  DeskInv(x)'
<1>1. Subject(desk[x].call)' = Subject(desk[x].call)
  BY DEF Subject
<1>2. ActorInv(x)'
  BY <1>1 DEF DeskInv, ActorInv, Grown
<1>3. CitedInv(x)'
  BY DEF DeskInv, CitedInv
<1> QED BY <1>2, <1>3 DEF DeskInv

\* Before it publishes a desk has nothing on its bus.
LEMMA NothingYet ==
  ASSUME NEW q \in Desk, BusInv(q), StageInv(q), q.pc \notin {"publish", "done"}
  PROVE  /\ q.stack = <<>> /\ q.published = <<>> /\ q.invoked = <<>> /\ q.journal = <<>> /\ q.sent = <<>>
         /\ q.plan = <<>> /\ q.status = 0
<1>1. q.stack = <<>> /\ q.published = <<>> /\ q.plan = <<>> /\ q.status = 0
  BY DEF StageInv
<1>2. Len(q.published) = 0 /\ Len(q.invoked) = 0
  BY <1>1, EmptySeq DEF BusInv
<1>3. Len(q.journal) = 0 /\ Len(q.sent) = 0
  BY <1>2, DeskTypes DEF BusInv
<1> QED BY <1>1, <1>2, <1>3, DeskTypes, EmptySeq

\* The desk that takes a step; what the types of the others are.
LEMMA DeskTurned ==
  ASSUME TypeInv, NEW d \in Desks, NEW r \in Desk, Turn(d, r)
  PROVE  /\ desk' \in [Desks -> Desk] /\ desk'[d] = r
         /\ \A x \in Desks : x # d => desk'[x] = desk[x]
BY DEF TypeInv, Turn

\* A request that has published nothing is answered.
LEMMA Answered ==
  ASSUME TypeInv, NEW d \in Desks, DeskInv(d), NEW status \in Nat, d \notin Background,
         desk[d].pc \in {"authenticate", "authorize", "handle", "cite"},
         status # 404, status = 403 => ~Granted(desk[d].role, desk[d].call),
         Answer(d, status), settings' = settings, Grown, cited[d] \subseteq cited'[d]
  PROVE  desk' \in [Desks -> Desk] /\ DeskInv(d)' /\ \A x \in Desks : x # d => desk'[x] = desk[x]
<1> DEFINE q == desk[d]
           r == [q EXCEPT !.pc = "done", !.status = status]
<1>1. q \in Desk /\ BusInv(q) /\ StageInv(q)
  BY DEF TypeInv, DeskInv
<1>2. /\ q.stack = <<>> /\ q.published = <<>> /\ q.invoked = <<>> /\ q.journal = <<>> /\ q.sent = <<>>
      /\ q.plan = <<>> /\ q.status = 0
  BY <1>1, NothingYet
<1>3. r \in Desk
  BY <1>1 DEF Desk, Pcs
<1>4. /\ r.pc = "done" /\ r.status = status /\ r.stack = <<>> /\ r.published = <<>> /\ r.invoked = <<>>
      /\ r.journal = <<>> /\ r.sent = <<>> /\ r.plan = <<>> /\ r.call = q.call /\ r.operator = q.operator
      /\ r.role = q.role
  BY <1>1, <1>2 DEF Desk
<1>5. desk' \in [Desks -> Desk] /\ desk'[d] = r /\ \A x \in Desks : x # d => desk'[x] = desk[x]
  BY <1>3, DeskTurned DEF Answer
<1> HIDE DEF r
<1>6. BusInv(r) /\ StageInv(r) /\ JournalInv(r)
  BY <1>4, BusAtRest, EmptySeq DEF StageInv, JournalInv
<1>8. ActorInv(d)'
  BY <1>4, <1>5 DEF ActorInv, DeskInv, Grown, Subject
<1>9. CitedInv(d)'
  BY <1>4, <1>5, EmptySeq DEF CitedInv
<1> QED BY <1>5, <1>6, <1>8, <1>9 DEF DeskInv

\* A request arrives at a desk that is idle.
LEMMA ReceiveInv ==
  ASSUME TypeInv, NEW d \in Desks, DeskInv(d), NEW call \in Calls[d], Receive(d, call)
  PROVE  TypeInv' /\ DeskInv(d)' /\ \A x \in Desks : x # d => (DeskInv(x) => DeskInv(x)')
<1> DEFINE r == [Idle EXCEPT !.pc = "authenticate", !.call = call]
<1>1. call \in CallSet
  BY DEF CallSet
<1>2. /\ r.pc = "authenticate" /\ r.call = call /\ r.operator = None /\ r.role = "none" /\ r.status = 0
      /\ r.plan = <<>> /\ r.stack = <<>> /\ r.published = <<>> /\ r.invoked = <<>> /\ r.journal = <<>>
      /\ r.sent = <<>>
  BY DEF Idle
<1>3. r \in Desk
  BY <1>1, EmptySeq DEF Idle, Desk, Pcs, Actors
<1>4. desk' \in [Desks -> Desk] /\ desk'[d] = r /\ \A x \in Desks : x # d => desk'[x] = desk[x]
  BY <1>3, DeskTurned DEF Receive
<1>5. UNCHANGED <<settings, shift, registered, cited, faults>> /\ d \notin Background
  BY DEF Receive
<1> HIDE DEF r
<1>6. BusInv(r) /\ StageInv(r) /\ JournalInv(r)
  BY <1>2, BusAtRest, EmptySeq DEF StageInv, JournalInv
<1>7. ActorInv(d)'
  BY <1>2, <1>4, <1>5 DEF ActorInv
<1>8. CitedInv(d)'
  BY <1>2, <1>4, EmptySeq DEF CitedInv
<1>9. TypeInv'
  BY <1>4, <1>5 DEF TypeInv
<1>10. \A x \in Desks : x # d => (DeskInv(x) => DeskInv(x)')
  BY <1>4, <1>5, OthersKept DEF Grown
<1> QED BY <1>4, <1>6, <1>7, <1>8, <1>9, <1>10 DEF DeskInv

\* The operator is the one the token or the header names, and is registered.
LEMMA AuthenticateInv ==
  ASSUME TypeInv, NEW d \in Desks, DeskInv(d), Authenticate(d)
  PROVE  TypeInv' /\ DeskInv(d)' /\ \A x \in Desks : x # d => (DeskInv(x) => DeskInv(x)')
<1> DEFINE q == desk[d]
           who == Subject(q.call)
<1>0. /\ q \in Desk /\ BusInv(q) /\ StageInv(q) /\ q.pc = "authenticate"
      /\ UNCHANGED <<settings, shift, registered, cited>> /\ Grown /\ d \notin Background
  BY DEF TypeInv, DeskInv, ActorInv, Authenticate, At, Grown
<1>1. faults' \in 0..MaxFaults
  BY GatewayAssumption DEF TypeInv, Authenticate, Fail
<1>2. CASE Answer(d, 401)
  <2>1. desk' \in [Desks -> Desk] /\ DeskInv(d)' /\ \A x \in Desks : x # d => desk'[x] = desk[x]
    BY <1>0, <1>2, Answered
  <2>2. TypeInv'
    BY <2>1, <1>0, <1>1 DEF TypeInv
  <2> QED BY <2>1, <2>2, <1>0, OthersKept
<1>3. CASE who \in DOMAIN registered /\ Turn(d, [q EXCEPT !.pc = "authorize", !.operator = who, !.role = registered[who]])
  <2> DEFINE r == [q EXCEPT !.pc = "authorize", !.operator = who, !.role = registered[who]]
  <2>1. who \in Operators /\ registered[who] \in Roles
    BY <1>3 DEF TypeInv
  <2> HIDE DEF who
  <2>2. r \in Desk
    BY <1>0, <2>1 DEF Desk, Pcs, Actors
  <2>3. /\ q.stack = <<>> /\ q.published = <<>> /\ q.invoked = <<>> /\ q.journal = <<>> /\ q.sent = <<>>
        /\ q.plan = <<>> /\ q.status = 0
    BY <1>0, NothingYet
  <2>4. /\ r.pc = "authorize" /\ r.operator = who /\ r.role = registered[who] /\ r.call = q.call
        /\ r.stack = <<>> /\ r.published = <<>> /\ r.invoked = <<>> /\ r.journal = <<>> /\ r.sent = <<>>
        /\ r.plan = <<>> /\ r.status = 0
    BY <1>0, <2>3 DEF Desk
  <2>5. desk' \in [Desks -> Desk] /\ desk'[d] = r /\ \A x \in Desks : x # d => desk'[x] = desk[x]
    BY <1>3, <2>2, DeskTurned
  <2> HIDE DEF r
  <2>6. BusInv(r) /\ StageInv(r) /\ JournalInv(r)
    BY <2>4, BusAtRest, EmptySeq DEF StageInv, JournalInv
  <2>7. who # None
    BY <2>1, GatewayAssumption
  <2>8. Subject(desk[d].call)' = who
    BY <2>4, <2>5, <1>0 DEF Subject, who
  <2>9. ActorInv(d)'
    BY <2>4, <2>5, <2>7, <2>8, <1>0, <1>3 DEF ActorInv, DeskInv
  <2>10. CitedInv(d)'
    BY <2>4, <2>5, EmptySeq DEF CitedInv
  <2>11. TypeInv'
    BY <2>5, <1>0, <1>1 DEF TypeInv
  <2>12. \A x \in Desks : x # d => (DeskInv(x) => DeskInv(x)')
    BY <2>5, <1>0, OthersKept
  <2> QED BY <2>5, <2>6, <2>9, <2>10, <2>11, <2>12 DEF DeskInv
<1> QED BY <1>2, <1>3 DEF Authenticate

\* The request goes on exactly when the role of its operator is granted its policy.
LEMMA AuthorizeInv ==
  ASSUME TypeInv, NEW d \in Desks, DeskInv(d), Authorize(d)
  PROVE  TypeInv' /\ DeskInv(d)' /\ \A x \in Desks : x # d => (DeskInv(x) => DeskInv(x)')
<1> DEFINE q == desk[d]
<1>0. /\ q \in Desk /\ BusInv(q) /\ StageInv(q) /\ q.pc = "authorize"
      /\ UNCHANGED <<settings, shift, registered, cited, faults>> /\ Grown /\ d \notin Background
  BY DEF TypeInv, DeskInv, ActorInv, Authorize, At, Grown
<1>1. CASE ~Granted(q.role, q.call) /\ Answer(d, 403)
  <2>1. desk' \in [Desks -> Desk] /\ DeskInv(d)' /\ \A x \in Desks : x # d => desk'[x] = desk[x]
    BY <1>0, <1>1, Answered
  <2>2. TypeInv'
    BY <2>1, <1>0 DEF TypeInv
  <2> QED BY <2>1, <2>2, <1>0, OthersKept
<1>2. CASE Granted(q.role, q.call) /\ ~(~Granted(q.role, q.call) /\ Answer(d, 403))
  <2> DEFINE r == [q EXCEPT !.pc = "handle"]
  <2>1. Routed(q.call.method, q.call.path)
    BY <1>0, <1>2, CallTypes, DeskTypes, KnownIsRouted DEF Granted
  <2>2. Turn(d, r)
    BY <1>2, <2>1 DEF Authorize
  <2>3. r \in Desk
    BY <1>0 DEF Desk, Pcs
  <2>4. /\ r.pc = "handle" /\ r.operator = q.operator /\ r.role = q.role /\ r.call = q.call
        /\ r.stack = q.stack /\ r.published = q.published /\ r.invoked = q.invoked /\ r.journal = q.journal
        /\ r.sent = q.sent /\ r.plan = q.plan /\ r.status = q.status
    BY <1>0 DEF Desk
  <2>5. desk' \in [Desks -> Desk] /\ desk'[d] = r /\ \A x \in Desks : x # d => desk'[x] = desk[x]
    BY <2>2, <2>3, DeskTurned
  <2> HIDE DEF r
  <2>6. BusInv(r) /\ StageInv(r)
    BY <2>4, <1>0, BusKept DEF StageInv
  <2>7. JournalInv(r)
    BY ZenonT(40), <2>4 DEF DeskInv, JournalInv, Actor
  <2>8. Subject(desk[d].call)' = Subject(q.call)
    BY <2>4, <2>5, <1>0 DEF Subject
  <2>9. ActorInv(d)'
    BY <2>4, <2>5, <2>8, <1>0, <1>2 DEF ActorInv, DeskInv
  <2>10. CitedInv(d)'
    BY <2>4, <2>5, <1>0 DEF CitedInv, DeskInv
  <2>11. TypeInv'
    BY <2>5, <1>0 DEF TypeInv
  <2>12. \A x \in Desks : x # d => (DeskInv(x) => DeskInv(x)')
    BY <2>5, <1>0, OthersKept
  <2> QED BY <2>5, <2>6, <2>7, <2>9, <2>10, <2>11, <2>12 DEF DeskInv
<1> QED BY <1>1, <1>2 DEF Authorize

Announced(r) ==
  \/ \E i \in 1..Len(r.plan) : r.plan[i] = "assessment.created"
  \/ \E e \in 1..Len(r.published) : r.published[e].topic = "assessment.created"

\* A desk that was let through goes on.
LEMMA Passed ==
  ASSUME TypeInv, NEW d \in Desks, DeskInv(d), NEW r \in Desk, Turn(d, r),
         UNCHANGED <<settings, shift, registered, cited>>, faults' \in 0..MaxFaults,
         r.call = desk[d].call, r.operator = desk[d].operator, r.role = desk[d].role,
         desk[d].pc \in {"handle", "cite", "publish"}, r.pc \in {"cite", "publish", "done"},
         r.status # 403, d \in Background => r.pc # "cite",
         BusInv(r), StageInv(r), JournalInv(r),
         r.plan # <<>> \/ r.published # <<>> \/ r.pc = "cite" =>
           desk[d].plan # <<>> \/ desk[d].published # <<>> \/ r.call.method # "GET",
         Announced(r) => Announced(desk[d]) \/ r.call.evidence \subseteq cited[d]
  PROVE  TypeInv' /\ DeskInv(d)' /\ \A x \in Desks : x # d => (DeskInv(x) => DeskInv(x)')
<1> DEFINE q == desk[d]
<1>1. desk' \in [Desks -> Desk] /\ desk'[d] = r /\ \A x \in Desks : x # d => desk'[x] = desk[x]
  BY DeskTurned
<1>2. TypeInv'
  BY <1>1 DEF TypeInv
<1>3. \A x \in Desks : x # d => (DeskInv(x) => DeskInv(x)')
  BY <1>1, OthersKept DEF Grown
<1>4. Subject(desk[d].call)' = Subject(q.call)
  BY <1>1 DEF Subject
<1>5. ActorInv(d)
  BY DEF DeskInv
<1>6. CASE d \in Background
  <2>1. ActorInv(d)'
    BY <1>1, <1>4, <1>5, <1>6 DEF ActorInv
  <2> QED BY <1>1, <1>2, <1>3, <2>1 DEF DeskInv, CitedInv, Announced
<1>7. CASE d \notin Background
  <2>1. q.operator # None /\ Granted(q.role, q.call)
    BY <1>5, <1>7 DEF ActorInv
  <2>2. ActorInv(d)'
    BY <1>1, <1>4, <1>5, <1>7, <2>1 DEF ActorInv
  <2> QED BY <1>1, <1>2, <1>3, <2>2 DEF DeskInv, CitedInv, Announced
<1> QED BY <1>6, <1>7

\* A handler refuses before it does anything.
LEMMA RefuseInv ==
  ASSUME TypeInv, NEW d \in Desks, DeskInv(d), Refuse(d)
  PROVE  TypeInv' /\ DeskInv(d)' /\ \A x \in Desks : x # d => (DeskInv(x) => DeskInv(x)')
<1>0. /\ desk[d].pc = "handle" /\ UNCHANGED <<settings, shift, registered, cited>> /\ Grown
      /\ d \notin Background /\ faults' \in 0..MaxFaults
  BY GatewayAssumption DEF TypeInv, DeskInv, ActorInv, Refuse, At, Grown, Fail
<1>1. PICK status \in {400, 500} : Answer(d, status)
  BY DEF Refuse
<1>2. desk' \in [Desks -> Desk] /\ DeskInv(d)' /\ \A x \in Desks : x # d => desk'[x] = desk[x]
  BY <1>0, <1>1, Answered
<1>3. TypeInv'
  BY <1>0, <1>2 DEF TypeInv
<1> QED BY <1>2, <1>3, <1>0, OthersKept

\* An operator is registered, and no other loses his role.
LEMMA CreateOperatorInv ==
  ASSUME TypeInv, NEW d \in Desks, DeskInv(d), CreateOperator(d)
  PROVE  TypeInv' /\ DeskInv(d)' /\ \A x \in Desks : x # d => (DeskInv(x) => DeskInv(x)')
<1> DEFINE q == desk[d]
           call == q.call
<1>0. /\ q \in Desk /\ q.pc = "handle" /\ UNCHANGED <<settings, shift, cited, faults>>
      /\ d \notin Background /\ PostsTo(call, "operators")
  BY DEF TypeInv, DeskInv, ActorInv, CreateOperator, At
<1>1. call.newcomer \in Operators /\ call.role \in Roles
  <2>1. call # NoCall
    BY <1>0 DEF PostsTo, NoCall
  <2> QED BY <2>1, <1>0, CallTypes, DeskTypes
<1>2. /\ Grown /\ DOMAIN registered' \subseteq Operators /\ registered' \in [DOMAIN registered' -> Roles]
      /\ \E status \in {201, 409} : Answer(d, status)
  <2>1. CASE /\ call.newcomer \notin DOMAIN registered
             /\ registered' = [o \in DOMAIN registered \cup {call.newcomer} |->
                            IF o = call.newcomer THEN call.role ELSE registered[o]]
             /\ Answer(d, 201)
    <3>1. DOMAIN registered' = DOMAIN registered \cup {call.newcomer}
      BY <2>1
    <3>2. \A o \in DOMAIN registered' : registered'[o] \in Roles
      BY <2>1, <3>1, <1>1 DEF TypeInv
    <3>3. Grown
      BY <2>1 DEF Grown
    <3>4. registered' \in [DOMAIN registered' -> Roles]
      BY <2>1, <3>1, <3>2
    <3> QED BY <2>1, <3>1, <3>3, <3>4, <1>1 DEF TypeInv
  <2>2. CASE Answer(d, 409) /\ UNCHANGED registered
    BY <2>2 DEF Grown, TypeInv
  <2> QED BY <2>1, <2>2 DEF CreateOperator
<1>3. PICK status \in {201, 409} : Answer(d, status)
  BY <1>2
<1>4. desk' \in [Desks -> Desk] /\ DeskInv(d)' /\ \A x \in Desks : x # d => desk'[x] = desk[x]
  BY <1>0, <1>2, <1>3, Answered
<1>5. TypeInv'
  BY <1>0, <1>2, <1>4 DEF TypeInv
<1> QED BY <1>0, <1>2, <1>4, <1>5, OthersKept

\* An assessment begins to store its citations.
LEMMA CreateAssessmentInv ==
  ASSUME TypeInv, NEW d \in Desks, DeskInv(d), CreateAssessment(d)
  PROVE  TypeInv' /\ DeskInv(d)' /\ \A x \in Desks : x # d => (DeskInv(x) => DeskInv(x)')
<1> DEFINE q == desk[d]
           r == [q EXCEPT !.pc = "cite"]
<1>0. /\ q \in Desk /\ q.pc = "handle" /\ Turn(d, r) /\ d \notin Background /\ q.call.method # "GET"
      /\ UNCHANGED <<settings, shift, registered, cited, faults>> /\ faults' \in 0..MaxFaults
  BY DEF TypeInv, DeskInv, ActorInv, CreateAssessment, At, PostsTo
<1>1. r \in Desk
  BY <1>0 DEF Desk, Pcs
<1>2. /\ r.pc = "cite" /\ r.operator = q.operator /\ r.role = q.role /\ r.call = q.call
      /\ r.stack = q.stack /\ r.published = q.published /\ r.invoked = q.invoked /\ r.journal = q.journal
      /\ r.sent = q.sent /\ r.plan = q.plan /\ r.status = q.status
  BY <1>0 DEF Desk
<1> HIDE DEF r
<1>3. BusInv(r) /\ StageInv(r)
  BY <1>0, <1>2, BusKept DEF StageInv, DeskInv
<1>4. JournalInv(r)
  BY ZenonT(40), <1>2 DEF DeskInv, JournalInv, Actor
<1>5. r.status # 403
  BY <1>0, <1>2 DEF DeskInv, StageInv
<1>6. Announced(r) => Announced(q)
  BY <1>2 DEF Announced
<1> QED BY <1>0, <1>1, <1>2, <1>3, <1>4, <1>5, <1>6, Passed

\* A desk has something to publish.
LEMMA PlanMade ==
  ASSUME TypeInv, NEW d \in Desks, DeskInv(d), desk[d].pc \in {"handle", "cite"}, NEW topics \in Seq(AllTopics),
         Turn(d, [desk[d] EXCEPT !.pc = "publish", !.plan = topics]),
         UNCHANGED <<settings, shift, registered, cited, faults>>,
         topics # <<>> => desk[d].call.method # "GET",
         (\E i \in 1..Len(topics) : topics[i] = "assessment.created") => desk[d].call.evidence \subseteq cited[d]
  PROVE  TypeInv' /\ DeskInv(d)' /\ \A x \in Desks : x # d => (DeskInv(x) => DeskInv(x)')
<1> DEFINE q == desk[d]
           r == [q EXCEPT !.pc = "publish", !.plan = topics]
<1>0. q \in Desk /\ BusInv(q) /\ StageInv(q) /\ d \notin Background /\ faults' \in 0..MaxFaults
  BY DEF TypeInv, DeskInv, ActorInv
<1>1. r \in Desk
  BY <1>0 DEF Desk, Pcs
<1>2. /\ r.pc = "publish" /\ r.operator = q.operator /\ r.role = q.role /\ r.call = q.call
      /\ r.stack = q.stack /\ r.published = q.published /\ r.invoked = q.invoked /\ r.journal = q.journal
      /\ r.sent = q.sent /\ r.plan = topics /\ r.status = q.status
  BY <1>0 DEF Desk
<1>3. Turn(d, r)
  OBVIOUS
<1> HIDE DEF r
<1>4. q.published = <<>> /\ q.status = 0
  BY <1>0 DEF StageInv
<1>5. BusInv(r) /\ StageInv(r)
  BY <1>0, <1>2, <1>4, BusKept DEF StageInv
<1>6. JournalInv(r)
  BY <1>2 DEF DeskInv, JournalInv, Actor
<1>7. Announced(r) => r.call.evidence \subseteq cited[d]
  BY <1>2, <1>4, EmptySeq DEF Announced
<1> QED BY <1>0, <1>1, <1>2, <1>3, <1>4, <1>5, <1>6, <1>7, Passed

\* A handler has a plan to publish.
LEMMA CommitInv ==
  ASSUME TypeInv, NEW d \in Desks, DeskInv(d), Commit(d)
  PROVE  TypeInv' /\ DeskInv(d)' /\ \A x \in Desks : x # d => (DeskInv(x) => DeskInv(x)')
<1> DEFINE call == desk[d].call
<1>1. PICK topics \in Announces(call) : Turn(d, [desk[d] EXCEPT !.pc = "publish", !.plan = topics])
  BY DEF Commit
<1>2. /\ desk[d] \in Desk /\ desk[d].pc = "handle" /\ ~PostsTo(call, "assessments")
      /\ UNCHANGED <<settings, shift, registered, cited, faults>>
      /\ Granted(desk[d].role, call)
  BY DEF TypeInv, DeskInv, ActorInv, Commit, At
<1>3. call \in CallSet
  BY <1>2, DeskTypes
<1>4. /\ topics \in Seq(AllTopics)
      /\ call.method = "GET" => topics = <<>>
      /\ (\E i \in 1..Len(topics) : topics[i] = "assessment.created") => PostsTo(call, "assessments")
  BY <1>2, <1>3, AnnouncesTypes
<1> QED BY <1>1, <1>2, <1>4, PlanMade

\* A citation is stored; the plan is made after the last.
LEMMA AddEvidenceInv ==
  ASSUME TypeInv, NEW d \in Desks, DeskInv(d), AddEvidence(d)
  PROVE  TypeInv' /\ DeskInv(d)' /\ \A x \in Desks : x # d => (DeskInv(x) => DeskInv(x)')
<1> DEFINE q == desk[d]
           rest == q.call.evidence \ cited[d]
<1>0. /\ q \in Desk /\ q.pc = "cite" /\ UNCHANGED <<settings, shift, registered>> /\ Grown /\ d \notin Background
  BY DEF TypeInv, DeskInv, ActorInv, AddEvidence, At, Grown
<1>1. CASE /\ rest = {} /\ Turn(d, [desk[d] EXCEPT !.pc = "publish", !.plan = <<"assessment.created">>])
           /\ UNCHANGED <<cited, faults>>
  <2>1. <<"assessment.created">> \in Seq(AllTopics)
    <3>1. "assessment.created" \in AllTopics
      BY DEF AllTopics
    <3> QED BY <3>1, Tuples
  <2>2. q.call.evidence \subseteq cited[d]
    BY <1>1
  <2>3. q.call.method # "GET"
    BY <1>0 DEF DeskInv, ActorInv
  <2> QED BY <1>0, <1>1, <2>1, <2>2, <2>3, PlanMade
<1>2. CASE \E e \in rest : cited' = [cited EXCEPT ![d] = @ \cup {e}] /\ UNCHANGED <<desk, faults>>
  <2>1. q.call.evidence \subseteq Evidence
    BY <1>0, DeskTypes, CallTypes
  <2>2. cited' \in [Desks -> SUBSET Evidence] /\ \A x \in Desks : cited[x] \subseteq cited'[x]
    BY <1>2, <2>1 DEF TypeInv
  <2>3. TypeInv'
    BY <1>0, <1>2, <2>2 DEF TypeInv
  <2>4. \A x \in Desks : DeskInv(x) => DeskInv(x)'
    BY <1>0, <1>2, <2>2, OthersKept
  <2> QED BY <2>3, <2>4
<1>3. CASE Fail /\ Answer(d, 500) /\ UNCHANGED cited
  <2>1. faults' \in 0..MaxFaults
    BY <1>3, GatewayAssumption DEF Fail, TypeInv
  <2>2. desk' \in [Desks -> Desk] /\ DeskInv(d)' /\ \A x \in Desks : x # d => desk'[x] = desk[x]
    BY <1>0, <1>3, Answered
  <2>3. TypeInv'
    BY <1>0, <1>3, <2>1, <2>2 DEF TypeInv
  <2> QED BY <1>0, <1>3, <2>2, <2>3, OthersKept
<1> QED BY <1>1, <1>2, <1>3 DEF AddEvidence

\* The background publishes an event of a run, or that something went stale.
LEMMA StartInv ==
  ASSUME TypeInv, NEW d \in Desks, DeskInv(d), NEW actor \in {None, Scenario}, NEW topic \in AllTopics,
         topic # "assessment.created", Start(d, actor, <<topic>>)
  PROVE  TypeInv' /\ DeskInv(d)' /\ \A x \in Desks : x # d => (DeskInv(x) => DeskInv(x)')
<1> DEFINE r == [Idle EXCEPT !.pc = "publish", !.operator = actor, !.plan = <<topic>>]
<1>1. /\ r.pc = "publish" /\ r.call = NoCall /\ r.operator = actor /\ r.role = "none" /\ r.status = 0
      /\ r.plan = <<topic>> /\ r.stack = <<>> /\ r.published = <<>> /\ r.invoked = <<>> /\ r.journal = <<>>
      /\ r.sent = <<>>
  BY DEF Idle
<1>2. <<topic>> \in Seq(AllTopics) /\ Len(<<topic>>) = 1 /\ <<topic>>[1] = topic
  BY Tuples
<1>3. r \in Desk
  BY <1>2, EmptySeq DEF Idle, Desk, Pcs, Actors, CallSet
<1>4. desk' \in [Desks -> Desk] /\ desk'[d] = r /\ \A x \in Desks : x # d => desk'[x] = desk[x]
  BY <1>3, DeskTurned DEF Start
<1>5. UNCHANGED <<settings, shift, registered, cited, faults>> /\ d \in Background
  BY DEF Start
<1> HIDE DEF r
<1>6. BusInv(r) /\ StageInv(r) /\ JournalInv(r)
  BY <1>1, BusAtRest, EmptySeq DEF StageInv, JournalInv
<1>7. ActorInv(d)'
  BY <1>1, <1>4, <1>5 DEF ActorInv
<1>8. CitedInv(d)'
  <2>1. \A i \in 1..Len(r.plan) : r.plan[i] # "assessment.created"
    BY <1>1, <1>2
  <2>2. Len(r.published) = 0
    BY <1>1, EmptySeq
  <2> QED BY <2>1, <2>2, <1>4 DEF CitedInv
<1>9. TypeInv'
  BY <1>4, <1>5 DEF TypeInv
<1>10. \A x \in Desks : x # d => (DeskInv(x) => DeskInv(x)')
  BY <1>4, <1>5, OthersKept DEF Grown
<1> QED BY <1>4, <1>6, <1>7, <1>8, <1>9, <1>10 DEF DeskInv

\* A busy desk is publishing, and its innermost frame is of one of its events.
LEMMA BusyDesk ==
  ASSUME NEW q \in Desk, BusInv(q), StageInv(q), q.stack # <<>>
  PROVE  LET n == Len(q.stack) IN
         /\ q.pc = "publish" /\ q.status = 0 /\ n \in Nat /\ n > 0 /\ n \in 1..n
         /\ q.stack[n] \in FrameSet /\ Dispatching(q, n)
         /\ q.stack[n].event \in 1..Len(q.published) /\ q.published # <<>>
         /\ q.published[q.stack[n].event] \in EventSet
<1>1. q.pc = "publish" /\ q.status = 0
  BY DEF StageInv
<1>2. Len(q.stack) \in Nat /\ Len(q.stack) > 0 /\ Len(q.stack) \in 1..Len(q.stack)
  BY DeskTypes, EmptySeq
<1>3. Dispatching(q, Len(q.stack))
  BY <1>2 DEF BusInv
<1>4. q.stack[Len(q.stack)].event \in 1..Len(q.published)
  BY <1>3 DEF Dispatching
<1>5. q.published # <<>>
  BY <1>4, EmptySeq
<1> QED BY <1>1, <1>2, <1>3, <1>4, <1>5, DeskTypes

\* What is left of a plan was in it.
LEMMA PlanLeft ==
  ASSUME NEW S, NEW plan \in Seq(S), plan # <<>>
  PROVE  /\ Head(plan) \in S /\ Tail(plan) \in Seq(S) /\ 1 \in 1..Len(plan) /\ Head(plan) = plan[1]
         /\ \A i \in 1..Len(Tail(plan)) : i + 1 \in 1..Len(plan) /\ Tail(plan)[i] = plan[i + 1]
<1>1. Len(plan) \in Nat /\ Len(plan) > 0
  BY EmptySeq
<1>2. /\ Head(plan) \in S /\ Tail(plan) \in Seq(S) /\ Len(Tail(plan)) = Len(plan) - 1
      /\ \A i \in 1..Len(Tail(plan)) : Tail(plan)[i] = plan[i + 1]
  BY HeadTailProperties
<1>3. Head(plan) = plan[1] /\ 1 \in 1..Len(plan)
  BY <1>1
<1>4. \A i \in 1..Len(Tail(plan)) : i + 1 \in 1..Len(plan)
  BY <1>1, <1>2
<1> QED BY <1>2, <1>3, <1>4

\* The desk after an event is published.
LEMMA Dispatched ==
  ASSUME NEW q \in Desk, Len(q.invoked) = Len(q.published), NEW topic \in AllTopics, NEW causes \in SUBSET Nat
  PROVE  LET r == Dispatch(q, topic, causes) IN
         /\ r \in Desk
         /\ r.pc = q.pc /\ r.call = q.call /\ r.operator = q.operator /\ r.role = q.role /\ r.status = q.status
         /\ r.plan = q.plan /\ r.journal = q.journal /\ r.sent = q.sent
         /\ r.published = Append(q.published, [topic |-> topic, causes |-> causes])
         /\ r.invoked = Append(q.invoked, <<>>)
         /\ r.stack = Append(q.stack, Frame(Len(q.published) + 1, topic))
         /\ Len(r.published) = Len(q.published) + 1
         /\ \A e \in 1..Len(q.published) : r.published[e] = q.published[e]
         /\ r.published[Len(q.published) + 1].topic = topic
<1> DEFINE r == Dispatch(q, topic, causes)
           x == [topic |-> topic, causes |-> causes]
           f == Frame(Len(q.published) + 1, topic)
<1>1. /\ q.stack \in Seq(FrameSet) /\ q.published \in Seq(EventSet) /\ Len(q.published) \in Nat
      /\ q.invoked \in Seq(Seq(Handlers))
  BY DeskTypes
<1>2. x \in EventSet /\ x.topic = topic /\ <<>> \in Seq(Handlers)
  BY EmptySeq DEF EventSet
<1>3. f \in FrameSet
  BY <1>1, SubscribersOrdered, EmptySeq DEF Frame, FrameSet
<1> HIDE DEF x, f
<1>4. /\ Append(q.published, x) \in Seq(EventSet) /\ Append(q.invoked, <<>>) \in Seq(Seq(Handlers))
      /\ Append(q.stack, f) \in Seq(FrameSet)
      /\ Len(Append(q.published, x)) = Len(q.published) + 1
      /\ \A e \in 1..Len(q.published) : Append(q.published, x)[e] = q.published[e]
      /\ Append(q.published, x)[Len(q.published) + 1] = x
  BY <1>1, <1>2, <1>3, AppendProperties
<1>5. r = [q EXCEPT !.published = Append(q.published, x), !.invoked = Append(q.invoked, <<>>),
                    !.stack = Append(q.stack, f)]
  BY DEF Dispatch, x, f
<1> HIDE DEF r
<1>6. r \in Desk
  BY <1>4, <1>5 DEF Desk
<1>7. /\ r.pc = q.pc /\ r.call = q.call /\ r.operator = q.operator /\ r.role = q.role /\ r.status = q.status
      /\ r.plan = q.plan /\ r.journal = q.journal /\ r.sent = q.sent
      /\ r.published = Append(q.published, x) /\ r.invoked = Append(q.invoked, <<>>)
      /\ r.stack = Append(q.stack, f)
  BY <1>5 DEF Desk
<1> QED BY <1>2, <1>4, <1>6, <1>7, Zenon DEF r, x, f

\* The journal says of the events of old what it said.
LEMMA JournalKept ==
  ASSUME NEW q, BusInv(q), JournalInv(q), NEW r, r.journal = q.journal, r.operator = q.operator,
         \A e \in 1..Len(q.published) : r.published[e] = q.published[e]
  PROVE  JournalInv(r)
<1>1. \A topic : Actor(r, topic) = Actor(q, topic)
  BY DEF Actor
<1>2. \A i \in 1..Len(q.journal) : q.journal[i][1] \in 1..Len(q.published)
  BY DEF BusInv
<1> QED BY <1>1, <1>2 DEF JournalInv

\* An event of the longer bus is one of old or the last.
LEMMA LastOrEarlier ==
  ASSUME NEW S, NEW s \in Seq(S), NEW t, Len(t) = Len(s) + 1, NEW e \in 1..Len(t)
  PROVE  e \in 1..Len(s) \/ e = Len(s) + 1
<1> DEFINE m == Len(s)
<1>1. m \in Nat
  BY LenProperties
<1>2. e \in 1..(m + 1)
  OBVIOUS
<1> HIDE DEF m
<1>3. e \in 1..m \/ e = m + 1
  BY <1>1, <1>2
<1> QED BY <1>3 DEF m

\* A request publishes the next event of its plan, or is answered.
LEMMA PublishNextInv ==
  ASSUME TypeInv, NEW d \in Desks, DeskInv(d), PublishNext(d)
  PROVE  TypeInv' /\ DeskInv(d)' /\ \A x \in Desks : x # d => (DeskInv(x) => DeskInv(x)')
<1> DEFINE q == desk[d]
<1>0. /\ q \in Desk /\ BusInv(q) /\ StageInv(q) /\ JournalInv(q) /\ q.pc = "publish" /\ q.stack = <<>>
      /\ UNCHANGED <<settings, shift, registered, cited, faults>> /\ faults' \in 0..MaxFaults
  BY DEF TypeInv, DeskInv, PublishNext, At, Busy
<1>1. CASE q.plan = <<>>
  <2> DEFINE r == [q EXCEPT !.pc = "done", !.status = 200]
  <2>1. r \in Desk
    BY ZenonT(40), <1>0 DEF Desk, Pcs
  <2>2. /\ r.pc = "done" /\ r.operator = q.operator /\ r.role = q.role /\ r.call = q.call
        /\ r.stack = q.stack /\ r.published = q.published /\ r.invoked = q.invoked /\ r.journal = q.journal
        /\ r.sent = q.sent /\ r.plan = q.plan /\ r.status = 200
    BY <1>0 DEF Desk
  <2>3. Turn(d, r)
    BY <1>1 DEF PublishNext
  <2> HIDE DEF r
  <2>4. BusInv(r) /\ StageInv(r) /\ JournalInv(r)
    BY <1>0, <1>1, <2>2, BusKept, JournalKept DEF StageInv
  <2>5. Announced(r) => Announced(q)
    BY <2>2 DEF Announced
  <2> QED BY <1>0, <2>1, <2>2, <2>3, <2>4, <2>5, Passed
<1>2. CASE q.plan # <<>>
  <2> DEFINE q1 == [q EXCEPT !.plan = Tail(q.plan)]
             topic == Head(q.plan)
             none == {}
             r == Dispatch(q1, topic, none)
  <2>1. /\ topic \in AllTopics /\ Tail(q.plan) \in Seq(AllTopics) /\ 1 \in 1..Len(q.plan) /\ topic = q.plan[1]
        /\ \A i \in 1..Len(Tail(q.plan)) : i + 1 \in 1..Len(q.plan) /\ Tail(q.plan)[i] = q.plan[i + 1]
    BY <1>0, <1>2, DeskTypes, PlanLeft
  <2>2. Turn(d, r)
    BY <1>2 DEF PublishNext
  <2>3. /\ q1 \in Desk /\ q1.pc = q.pc /\ q1.call = q.call /\ q1.operator = q.operator /\ q1.role = q.role
        /\ q1.status = q.status /\ q1.plan = Tail(q.plan) /\ q1.journal = q.journal /\ q1.sent = q.sent
        /\ q1.published = q.published /\ q1.invoked = q.invoked /\ q1.stack = q.stack
    BY <1>0, <2>1 DEF Desk
  <2>a. none \in SUBSET Nat /\ none = {q.stack[k].event : k \in 1..Len(q.stack)}
    <3>1. Len(q.stack) = 0
      BY <1>0, EmptySeq
    <3> QED BY <3>1
  <2> HIDE DEF topic, q1, none
  <2>4. BusInv(q1) /\ JournalInv(q1)
    BY <1>0, <2>3, BusKept, JournalKept
  <2>5. Len(q1.invoked) = Len(q1.published)
    BY <2>4 DEF BusInv
  <2>6. /\ r \in Desk
        /\ r.pc = q1.pc /\ r.call = q1.call /\ r.operator = q1.operator /\ r.role = q1.role /\ r.status = q1.status
        /\ r.plan = q1.plan /\ r.journal = q1.journal /\ r.sent = q1.sent
        /\ r.published = Append(q1.published, [topic |-> topic, causes |-> none])
        /\ r.invoked = Append(q1.invoked, <<>>)
        /\ r.stack = Append(q1.stack, Frame(Len(q1.published) + 1, topic))
        /\ Len(r.published) = Len(q1.published) + 1
        /\ \A e \in 1..Len(q1.published) : r.published[e] = q1.published[e]
        /\ r.published[Len(q1.published) + 1].topic = topic
    <3>1. q1 \in Desk /\ topic \in AllTopics /\ none \in SUBSET Nat
      BY <2>1, <2>3, <2>a
    <3> QED BY <3>1, <2>5, Dispatched
  <2> HIDE DEF r
  <2>7. BusInv(r)
    <3>1. q1.stack # <<>> =>
           ToSend(q1.stack[Len(q1.stack)]) /\ Len(q1.invoked[q1.stack[Len(q1.stack)].event]) > 1
      BY <1>0, <2>3
    <3>2. none = {q1.stack[k].event : k \in 1..Len(q1.stack)}
      BY <2>3, <2>a
    <3> QED BY <2>1, <2>3, <2>4, <2>6, <3>1, <3>2, BusDispatch
  <2>8. JournalInv(r)
    BY <2>4, <2>6, JournalKept
  <2>9. StageInv(r)
    BY <1>0, <2>3, <2>6 DEF StageInv
  <2>10. Announced(r) => Announced(q)
    <3>1. ASSUME NEW i \in 1..Len(r.plan), r.plan[i] = "assessment.created" PROVE Announced(q)
      <4>1. i \in 1..Len(Tail(q.plan)) /\ Tail(q.plan)[i] = "assessment.created"
        BY <3>1, <2>3, <2>6
      <4>2. i + 1 \in 1..Len(q.plan) /\ q.plan[i + 1] = "assessment.created"
        BY <2>1, <4>1
      <4> QED BY <4>2, Zenon DEF Announced
    <3>2. ASSUME NEW e \in 1..Len(r.published), r.published[e].topic = "assessment.created" PROVE Announced(q)
      <4>1. e \in 1..Len(q.published) \/ e = Len(q.published) + 1
        <5>1. q.published \in Seq(EventSet)
          BY <1>0, DeskTypes
        <5> QED BY <5>1, <2>3, <2>6, LastOrEarlier
      <4>2. CASE e \in 1..Len(q.published)
        BY <3>2, <4>2, <2>3, <2>6 DEF Announced
      <4>3. CASE e = Len(q.published) + 1
        BY <3>2, <4>3, <2>1, <2>3, <2>6 DEF Announced
      <4> QED BY <4>1, <4>2, <4>3
    <3> QED BY <3>1, <3>2 DEF Announced
  <2>11. r.status # 403 /\ r.pc = "publish" /\ r.call = q.call /\ r.operator = q.operator /\ r.role = q.role
    BY <1>0, <2>3, <2>6 DEF StageInv
  <2> QED BY <1>0, <1>2, <2>2, <2>6, <2>7, <2>8, <2>9, <2>10, <2>11, Passed
<1> QED BY <1>1, <1>2

\* A subscriber publishes while the event it handles is being dispatched.
LEMMA NestInv ==
  ASSUME TypeInv, NEW d \in Desks, DeskInv(d), Nest(d)
  PROVE  TypeInv' /\ DeskInv(d)' /\ \A x \in Desks : x # d => (DeskInv(x) => DeskInv(x)')
<1> DEFINE q == desk[d]
           n == Len(q.stack)
           f == q.stack[n]
           e == f.event
           ahead == Tail(f.plan)
           topic == Head(f.plan)
           causes == q.published[e].causes \cup {e}
           q1 == [q EXCEPT !.stack[n].plan = Tail(@)]
           r == Dispatch(q1, topic, causes)
<1>0. /\ q \in Desk /\ BusInv(q) /\ StageInv(q) /\ JournalInv(q) /\ q.stack # <<>> /\ f.plan # <<>>
      /\ UNCHANGED <<settings, shift, registered, cited, faults>> /\ faults' \in 0..MaxFaults
      /\ Turn(d, r)
  BY DEF TypeInv, DeskInv, Nest, Busy, Top
<1>1. /\ q.pc = "publish" /\ q.status = 0 /\ n \in Nat /\ n > 0 /\ n \in 1..n
      /\ f \in FrameSet /\ Dispatching(q, n)
      /\ e \in 1..Len(q.published) /\ q.published # <<>> /\ q.published[e] \in EventSet
  BY <1>0, BusyDesk
<1>2. topic \in Sequels /\ ahead \in Seq(Sequels)
  BY <1>0, <1>1, FrameTypes, PlanLeft
<1>3. topic \in AllTopics /\ topic # "assessment.created"
  BY <1>2 DEF Sequels
<1>4. causes \in SUBSET Nat
  BY <1>1, FrameTypes DEF EventSet
<1>5. q1.stack = [q.stack EXCEPT ![n].plan = ahead] /\ q1.stack \in Seq(FrameSet)
  <2>1. [f EXCEPT !.plan = ahead] \in FrameSet
    BY <1>1, <1>2 DEF FrameSet
  <2>2. q1.stack = [q.stack EXCEPT ![n] = [f EXCEPT !.plan = ahead]] /\ q.stack \in Seq(FrameSet)
    BY <1>0 DEF Desk
  <2> HIDE DEF q, q1, n, f, ahead
  <2>3. q1.stack \in Seq(FrameSet)
    BY <1>1, <2>1, <2>2, ExceptSeq DEF n
  <2> QED BY <2>2, <2>3 DEF q, q1, n, f, ahead
<1>6. /\ q1 \in Desk /\ q1.pc = q.pc /\ q1.call = q.call /\ q1.operator = q.operator /\ q1.role = q.role
      /\ q1.status = q.status /\ q1.plan = q.plan /\ q1.journal = q.journal /\ q1.sent = q.sent
      /\ q1.published = q.published /\ q1.invoked = q.invoked
  BY <1>0, <1>5 DEF Desk
<1> HIDE DEF topic, q1, ahead, causes
<1>7. ToSend(f) /\ Len(q.invoked[e]) > 1
  <2>1. ToSend(f) /\ ~(Len(q.invoked[e]) <= 1)
    BY <1>0, <1>1 DEF Dispatching
  <2>2. q.invoked[e] \in Seq(Handlers)
    BY <1>0, <1>1, DeskTypes DEF BusInv
  <2> HIDE DEF e
  <2> QED BY <2>1, <2>2
<1>8. BusInv(q1)
  BY <1>0, <1>1, <1>2, <1>5, <1>6, <1>7, BusPlan
<1>9. JournalInv(q1)
  BY <1>0, <1>6, JournalKept
<1>10. Len(q1.invoked) = Len(q1.published)
  BY <1>8 DEF BusInv
<1>11. /\ r \in Desk
       /\ r.pc = q1.pc /\ r.call = q1.call /\ r.operator = q1.operator /\ r.role = q1.role /\ r.status = q1.status
       /\ r.plan = q1.plan /\ r.journal = q1.journal /\ r.sent = q1.sent
       /\ r.published = Append(q1.published, [topic |-> topic, causes |-> causes])
       /\ r.invoked = Append(q1.invoked, <<>>)
       /\ r.stack = Append(q1.stack, Frame(Len(q1.published) + 1, topic))
       /\ Len(r.published) = Len(q1.published) + 1
       /\ \A x \in 1..Len(q1.published) : r.published[x] = q1.published[x]
       /\ r.published[Len(q1.published) + 1].topic = topic
  BY <1>3, <1>4, <1>6, <1>10, Dispatched
<1> HIDE DEF r
<1>12. /\ Len(q1.stack) = n /\ \A k \in 1..n : q1.stack[k].event = q.stack[k].event
       /\ q1.stack[n].todo = f.todo
  <2>1. [f EXCEPT !.plan = ahead] \in FrameSet /\ [f EXCEPT !.plan = ahead].event = e
        /\ [f EXCEPT !.plan = ahead].todo = f.todo
    BY <1>1, <1>2 DEF FrameSet
  <2>2. q1.stack = [q.stack EXCEPT ![n] = [f EXCEPT !.plan = ahead]] /\ q.stack \in Seq(FrameSet)
    BY <1>0, <1>5 DEF Desk
  <2>3. Len(q1.stack) = n /\ \A k \in 1..n : q1.stack[k] = IF k = n THEN [f EXCEPT !.plan = ahead] ELSE q.stack[k]
    BY <1>1, <2>1, <2>2, ExceptSeq
  <2> QED BY <1>1, <2>1, <2>3
<1>13. BusInv(r)
  <2>1. causes = {q1.stack[k].event : k \in 1..Len(q1.stack)}
    <3>1. q.published[e].causes = {q.stack[k].event : k \in 1..(n - 1)}
      BY <1>1 DEF Dispatching
    <3>2. {q.stack[k].event : k \in 1..(n - 1)} \cup {e} = {q.stack[k].event : k \in 1..n}
      <4>1. \A k : k \in 1..n <=> k \in 1..(n - 1) \/ k = n
        BY <1>1
      <4> QED BY <4>1, Zenon
    <3>3. {q.stack[k].event : k \in 1..n} = {q1.stack[k].event : k \in 1..Len(q1.stack)}
      BY <1>12, Zenon
    <3> QED BY <3>1, <3>2, <3>3, Zenon DEF causes
  <2>2. ToSend(q1.stack[Len(q1.stack)]) /\ Len(q1.invoked[q1.stack[Len(q1.stack)].event]) > 1
    <3>1. q1.stack[Len(q1.stack)].todo = f.todo /\ q1.stack[Len(q1.stack)].event = e
      BY <1>1, <1>12
    <3> QED BY <3>1, <1>6, <1>7 DEF ToSend
  <2> QED BY <1>3, <1>6, <1>8, <1>11, <2>1, <2>2, BusDispatch
<1>14. JournalInv(r)
  BY <1>8, <1>9, <1>11, JournalKept
<1>15. StageInv(r) /\ r.status # 403 /\ r.pc = "publish"
  BY <1>0, <1>1, <1>6, <1>11 DEF StageInv
<1>16. Announced(r) => Announced(q)
  <2>1. ASSUME NEW i \in 1..Len(r.plan), r.plan[i] = "assessment.created" PROVE Announced(q)
    BY <2>1, <1>6, <1>11 DEF Announced
  <2>2. ASSUME NEW x \in 1..Len(r.published), r.published[x].topic = "assessment.created" PROVE Announced(q)
    <3>1. x \in 1..Len(q.published) \/ x = Len(q.published) + 1
      <4>1. q.published \in Seq(EventSet)
        BY <1>0, DeskTypes
      <4> QED BY <4>1, <1>6, <1>11, LastOrEarlier
    <3> QED BY <2>2, <3>1, <1>3, <1>6, <1>11 DEF Announced
  <2> QED BY <2>1, <2>2 DEF Announced
<1>17. q.published # <<>> /\ r.call = q.call /\ r.operator = q.operator /\ r.role = q.role
  BY <1>1, <1>6, <1>11
<1> QED BY <1>0, <1>1, <1>11, <1>13, <1>14, <1>15, <1>16, <1>17, Passed

\* A subscriber begins: b is the state of the desk then.
HasBegun(q, b, f, s) ==
  LET n == Len(q.stack) IN
  /\ f \in FrameSet /\ f = q.stack[n] /\ n \in 1..Len(q.stack) /\ f.event \in 1..Len(q.published)
  /\ Tail(f.todo) \in Seq(Handlers) /\ s \in Handlers
  /\ b \in Desk
  /\ b.stack = [q.stack EXCEPT ![n] = [f EXCEPT !.todo = Tail(f.todo)]]
  /\ b.invoked = [q.invoked EXCEPT ![f.event] = Append(q.invoked[f.event], s)]
  /\ b.pc = q.pc /\ b.call = q.call /\ b.operator = q.operator /\ b.role = q.role /\ b.status = q.status
  /\ b.plan = q.plan /\ b.journal = q.journal /\ b.sent = q.sent /\ b.published = q.published

\* Calling the next subscriber of the dispatch at the top changes only that dispatch.
LEMMA Began ==
  ASSUME NEW q \in Desk, BusInv(q), StageInv(q), JournalInv(q), NEW f, NEW s, NextCalled(q, f, s)
  PROVE  HasBegun(q, Called(q, s), f, s)
<1> DEFINE n == Len(q.stack)
           e == f.event
           g == [f EXCEPT !.todo = Tail(f.todo)]
           called == q.invoked[e]
           r == Called(q, s)
           S == [q.stack EXCEPT ![n] = g]
           I == [q.invoked EXCEPT ![e] = Append(called, s)]
<1>1. q.stack # <<>> /\ f = q.stack[n] /\ f.todo # <<>> /\ s = Head(f.todo)
  BY DEF NextCalled
<1>2. n \in 1..n /\ f \in FrameSet /\ e \in 1..Len(q.published)
  BY <1>1, BusyDesk
<1>3. f.todo \in Seq(Handlers)
  BY <1>2, FrameTypes
<1>4. Tail(f.todo) \in Seq(Handlers) /\ s \in Handlers
  BY <1>1, <1>3, PlanLeft
<1>5. g \in FrameSet
  BY <1>2, <1>4 DEF FrameSet
<1>6. q.stack \in Seq(FrameSet) /\ q.invoked \in Seq(Seq(Handlers)) /\ Len(q.invoked) = Len(q.published)
  BY DeskTypes DEF BusInv
<1>7. called \in Seq(Handlers) /\ e \in 1..Len(q.invoked)
  BY <1>2, <1>6, DeskTypes
<1>8. Append(called, s) \in Seq(Handlers)
  BY <1>4, <1>7, AppendProperties
<1>9. r = [q EXCEPT !.stack = S, !.invoked = I]
  BY <1>1 DEF Called
<1> HIDE DEF g, called, r, e
<1>10. S \in Seq(FrameSet)
  BY <1>2, <1>5, <1>6, ExceptSeq
<1>11. I \in Seq(Seq(Handlers))
  BY <1>6, <1>7, <1>8, ExceptSeq
<1> HIDE DEF S, I
<1>12. /\ r \in Desk /\ r.stack = S /\ r.invoked = I
       /\ r.pc = q.pc /\ r.call = q.call /\ r.operator = q.operator /\ r.role = q.role /\ r.status = q.status
       /\ r.plan = q.plan /\ r.journal = q.journal /\ r.sent = q.sent /\ r.published = q.published
  BY <1>9, <1>10, <1>11 DEF Desk
<1> QED BY <1>1, <1>2, <1>4, <1>12, Zenon DEF HasBegun, r, S, I, g, called, e

\* A step of the bus alone.
LEMMA BusStep ==
  ASSUME TypeInv, NEW d \in Desks, DeskInv(d), NEW r \in Desk, Turn(d, r),
         UNCHANGED <<settings, shift, registered, cited>>, faults' \in 0..MaxFaults,
         desk[d].pc = "publish", desk[d].status = 0, desk[d].published # <<>>,
         r.pc = desk[d].pc, r.call = desk[d].call, r.operator = desk[d].operator, r.role = desk[d].role,
         r.status = desk[d].status, r.plan = desk[d].plan, r.published = desk[d].published,
         BusInv(r), JournalInv(r)
  PROVE  TypeInv' /\ DeskInv(d)' /\ \A x \in Desks : x # d => (DeskInv(x) => DeskInv(x)')
<1>1. StageInv(r)
  BY DEF StageInv
<1>2. Announced(r) => Announced(desk[d])
  BY DEF Announced
<1> QED BY <1>1, <1>2, Passed

\* A handler begins, writes or sends what it is there for, and has something to publish.
LEMMA CallInv ==
  ASSUME TypeInv, NEW d \in Desks, DeskInv(d), NEW f, NEW s, NextCalled(desk[d], f, s),
         NEW r \in Desk, NEW p \in Seq(Sequels), Calling(desk[d], r, f, s, p), Turn(d, r),
         UNCHANGED <<settings, shift, registered, cited>>, faults' \in 0..MaxFaults,
         r.pc = desk[d].pc, r.call = desk[d].call, r.operator = desk[d].operator, r.role = desk[d].role,
         r.status = desk[d].status, r.plan = desk[d].plan,
         JournalInv(r)
  PROVE  TypeInv' /\ DeskInv(d)' /\ \A x \in Desks : x # d => (DeskInv(x) => DeskInv(x)')
<1>1. desk[d] \in Desk /\ BusInv(desk[d]) /\ StageInv(desk[d]) /\ desk[d].stack # <<>>
  BY DEF TypeInv, DeskInv, NextCalled
<1>2. BusInv(r)
  BY <1>1, BusCall
<1>3. desk[d].pc = "publish" /\ desk[d].status = 0 /\ desk[d].published # <<>>
  BY <1>1, BusyDesk
<1>4. r.published = desk[d].published
  BY DEF Calling
<1> QED BY <1>2, <1>3, <1>4, BusStep

\* A subscriber is called: the journal, the hub, or one that plans to publish.
LEMMA InvokeInv ==
  ASSUME TypeInv, NEW d \in Desks, DeskInv(d), Invoke(d)
  PROVE  TypeInv' /\ DeskInv(d)' /\ \A x \in Desks : x # d => (DeskInv(x) => DeskInv(x)')
<1> DEFINE q == desk[d]
           n == Len(q.stack)
           f == q.stack[n]
           s == Head(f.todo)
           topic == q.published[f.event].topic
           b == Called(q, s)
           Result == TypeInv' /\ DeskInv(d)' /\ \A x \in Desks : x # d => (DeskInv(x) => DeskInv(x)')
<1>0. /\ q \in Desk /\ BusInv(q) /\ StageInv(q) /\ JournalInv(q) /\ NextCalled(q, f, s)
      /\ UNCHANGED <<settings, shift, registered, cited>> /\ faults' \in 0..MaxFaults
  <2>1. /\ q \in Desk /\ BusInv(q) /\ StageInv(q) /\ JournalInv(q)
        /\ UNCHANGED <<settings, shift, registered, cited>> /\ faults \in 0..MaxFaults
    BY DEF TypeInv, DeskInv, Invoke
  <2>2. NextCalled(q, f, s)
    BY Zenon DEF Invoke, Busy, Top, NextCalled
  <2>3. UNCHANGED faults \/ Fail
    BY Zenon DEF Invoke
  <2>4. faults' \in 0..MaxFaults
    BY <2>1, <2>3, GatewayAssumption DEF Fail
  <2> QED BY <2>1, <2>2, <2>4
<1>1. \/ /\ s \in {"metrics", "scenarios"} /\ Turn(d, b)
      \/ /\ s = "audit"
         /\ Turn(d, [b EXCEPT !.journal = Append(@, <<f.event, Actor(q, topic)>>)])
      \/ s = "audit" /\ Turn(d, b)
      \/ s = "hub" /\ Turn(d, [b EXCEPT !.sent = Append(@, f.event)])
      \/ /\ s \notin {"metrics", "scenarios", "audit", "hub"}
         /\ \E plan \in Publishes(s, topic) : Turn(d, [b EXCEPT !.stack[n].plan = plan])
  BY Zenon DEF Invoke, Top
<1> HIDE DEF f, s
<1>2. /\ f \in FrameSet /\ n \in 1..Len(q.stack) /\ f.event \in 1..Len(q.published)
      /\ Tail(f.todo) \in Seq(Handlers) /\ s \in Handlers
      /\ b \in Desk
      /\ b.stack = [q.stack EXCEPT ![n] = [f EXCEPT !.todo = Tail(f.todo)]]
      /\ b.invoked = [q.invoked EXCEPT ![f.event] = Append(q.invoked[f.event], s)]
      /\ b.pc = q.pc /\ b.call = q.call /\ b.operator = q.operator /\ b.role = q.role /\ b.status = q.status
      /\ b.plan = q.plan /\ b.journal = q.journal /\ b.sent = q.sent /\ b.published = q.published
  <2>1. HasBegun(q, b, f, s)
    BY ONLY <1>0, Began
  <2> HIDE DEF b
  <2> QED BY <2>1 DEF HasBegun
<1>a. topic = q.published[f.event].topic
  OBVIOUS
<1>3. f.plan = <<>> /\ f.event \in Nat
  BY <1>0, <1>2, FrameTypes DEF NextCalled
<1>4. [f EXCEPT !.todo = Tail(f.todo)] = [f EXCEPT !.todo = Tail(f.todo), !.plan = <<>>]
  BY <1>2, <1>3 DEF FrameSet
<1>5. <<>> \in Seq(Sequels)
  BY EmptySeq
<1>6. JournalInv(b)
  BY <1>0, <1>2, JournalKept
<1> HIDE DEF b
<1>7. CASE Turn(d, b)
  <2>1. Calling(q, b, f, s, <<>>)
    BY <1>2, <1>4 DEF Calling
  <2> QED BY <1>0, <1>2, <1>5, <1>6, <1>7, <2>1, CallInv
<1>8. CASE s = "audit" /\ Turn(d, [b EXCEPT !.journal = Append(@, <<f.event, Actor(q, topic)>>)])
  <2> DEFINE x == <<f.event, Actor(q, topic)>>
             r == [b EXCEPT !.journal = Append(q.journal, x)]
  <2>1. Actor(q, topic) \in {"operator", "scenario", "system"} \X Actors
    BY DEF Actor, Actors
  <2>2. x \in EntrySet
    BY <1>3, <2>1 DEF EntrySet
  <2>3. q.journal \in Seq(EntrySet) /\ Len(q.journal) \in Nat
    BY <1>0, DeskTypes
  <2>4. Turn(d, r)
    BY <1>2, <1>8
  <2> HIDE DEF x
  <2>5. /\ Append(q.journal, x) \in Seq(EntrySet) /\ Len(Append(q.journal, x)) = Len(q.journal) + 1
        /\ \A i \in 1..Len(q.journal) : Append(q.journal, x)[i] = q.journal[i]
        /\ Append(q.journal, x)[Len(q.journal) + 1] = x
    BY <2>2, <2>3, AppendProperties
  <2>6. /\ r \in Desk /\ r.journal = Append(q.journal, x)
        /\ r.stack = b.stack /\ r.invoked = b.invoked /\ r.pc = b.pc /\ r.call = b.call
        /\ r.operator = b.operator /\ r.role = b.role /\ r.status = b.status
        /\ r.plan = b.plan /\ r.sent = b.sent /\ r.published = b.published
    BY <1>2, <2>5 DEF Desk
  <2> HIDE DEF r
  <2>7. Calling(q, r, f, s, <<>>)
    BY <1>2, <1>4, <1>8, <2>2, <2>6 DEF Calling, x
  <2>8. JournalInv(r)
    <3> SUFFICES ASSUME NEW i \in 1..Len(r.journal)
                 PROVE  r.journal[i][2] = Actor(r, r.published[r.journal[i][1]].topic)
      BY DEF JournalInv
    <3>1. \A t : Actor(r, t) = Actor(q, t)
      BY <1>2, <2>6 DEF Actor
    <3>2. i \in 1..Len(q.journal) \/ i = Len(q.journal) + 1
      BY <2>3, <2>5, <2>6, LastOrEarlier
    <3>3. CASE i \in 1..Len(q.journal)
      <4>1. r.journal[i] = q.journal[i] /\ r.published = q.published
        BY <3>3, <1>2, <2>5, <2>6
      <4>2. q.journal[i][2] = Actor(q, q.published[q.journal[i][1]].topic)
        BY <3>3, <1>0 DEF JournalInv
      <4> QED BY <3>1, <4>1, <4>2
    <3>4. CASE i = Len(q.journal) + 1
      <4>1. r.journal[i] = x
        BY <3>4, <2>5, <2>6
      <4>2. x[1] = f.event /\ x[2] = Actor(q, q.published[f.event].topic)
        BY DEF x
      <4> QED BY <3>1, <4>1, <4>2, <1>2, <2>6
    <3> QED BY <3>2, <3>3, <3>4
  <2> QED BY <1>0, <1>2, <1>5, <2>4, <2>6, <2>7, <2>8, CallInv
<1>9. CASE s = "hub" /\ Turn(d, [b EXCEPT !.sent = Append(@, f.event)])
  <2> DEFINE r == [b EXCEPT !.sent = Append(q.sent, f.event)]
  <2>1. Turn(d, r)
    BY <1>2, <1>9
  <2>2. q.sent \in Seq(Nat)
    BY <1>0, DeskTypes
  <2>3. Append(q.sent, f.event) \in Seq(Nat)
    BY <1>3, <2>2, AppendProperties
  <2>4. /\ r \in Desk /\ r.sent = Append(q.sent, f.event)
        /\ r.stack = b.stack /\ r.invoked = b.invoked /\ r.pc = b.pc /\ r.call = b.call
        /\ r.operator = b.operator /\ r.role = b.role /\ r.status = b.status
        /\ r.plan = b.plan /\ r.journal = b.journal /\ r.published = b.published
    BY <1>2, <2>3 DEF Desk
  <2> HIDE DEF r
  <2>5. Calling(q, r, f, s, <<>>)
    BY <1>2, <1>4, <1>9, <2>4 DEF Calling
  <2>6. JournalInv(r)
    BY <1>0, <1>2, <2>4, JournalKept
  <2> QED BY <1>0, <1>2, <1>5, <2>1, <2>4, <2>5, <2>6, CallInv
<1>10. ASSUME s \notin {"metrics", "scenarios", "audit", "hub"},
              NEW p \in Publishes(s, topic), Turn(d, [b EXCEPT !.stack[n].plan = p])
       PROVE  Result
  <2> DEFINE g == [f EXCEPT !.todo = Tail(f.todo), !.plan = p]
             S == [q.stack EXCEPT ![n] = g]
             r == [b EXCEPT !.stack = S]
  <2>1. p \in Seq(Sequels)
    BY <1>10, PublishesTypes
  <2>2. g \in FrameSet
    BY <1>2, <2>1 DEF FrameSet
  <2>3. q.stack \in Seq(FrameSet)
    BY <1>0, DeskTypes
  <2>4. [b EXCEPT !.stack[n].plan = p] = r
    <3>1. b.stack[n] = [f EXCEPT !.todo = Tail(f.todo)]
      BY <1>2, <2>3
    <3>2. [b.stack EXCEPT ![n].plan = p] = S
      BY <1>2, <2>3, <3>1
    <3> QED BY <3>2
  <2> HIDE DEF g
  <2>5. S \in Seq(FrameSet)
    BY <1>2, <2>2, <2>3, ExceptSeq
  <2> HIDE DEF S
  <2>6. /\ r \in Desk /\ r.stack = S
        /\ r.sent = b.sent /\ r.invoked = b.invoked /\ r.pc = b.pc /\ r.call = b.call
        /\ r.operator = b.operator /\ r.role = b.role /\ r.status = b.status
        /\ r.plan = b.plan /\ r.journal = b.journal /\ r.published = b.published
    BY <1>2, <2>5 DEF Desk
  <2>7. Turn(d, r)
    BY <1>10, <2>4
  <2> HIDE DEF r
  <2>8. Calling(q, r, f, s, p)
    BY <1>2, <1>10, <2>6 DEF Calling, S, g
  <2>9. JournalInv(r)
    BY <1>0, <1>2, <2>6, JournalKept
  <2> QED BY <1>0, <1>2, <2>1, <2>6, <2>7, <2>8, <2>9, CallInv
<1> QED BY <1>1, <1>7, <1>8, <1>9, <1>10

\* A dispatch ends when it has called every subscriber.
LEMMA ReturnInv ==
  ASSUME TypeInv, NEW d \in Desks, DeskInv(d), Return(d)
  PROVE  TypeInv' /\ DeskInv(d)' /\ \A x \in Desks : x # d => (DeskInv(x) => DeskInv(x)')
<1> DEFINE q == desk[d]
           n == Len(q.stack)
           f == q.stack[n]
           S == SubSeq(q.stack, 1, n - 1)
           r == [q EXCEPT !.stack = S]
<1>1. /\ q \in Desk /\ BusInv(q) /\ StageInv(q) /\ JournalInv(q)
      /\ UNCHANGED <<settings, shift, registered, cited>> /\ faults' \in 0..MaxFaults
  BY DEF TypeInv, DeskInv, Return
<1>2. q.stack # <<>> /\ f.plan = <<>> /\ f.todo = <<>>
  BY DEF Return, Busy, Top
<1>3. Turn(d, r)
  BY DEF Return
<1>4. q.pc = "publish" /\ q.status = 0 /\ q.published # <<>> /\ n \in Nat /\ n > 0 /\ q.stack \in Seq(FrameSet)
  BY <1>1, <1>2, BusyDesk, DeskTypes
<1> HIDE DEF f
<1>5. S \in Seq(FrameSet)
  <2>1. 1 - 1 <= n
    BY <1>4
  <2>2. \A i \in 1..(n - 1) : q.stack[i] \in FrameSet
    BY <1>1, <1>4, DeskTypes
  <2>3. 1 \in Int /\ n - 1 \in Int
    BY <1>4
  <2> HIDE DEF n
  <2> QED BY <1>4, <2>2, <2>3, SubSeqProperties DEF n
<1> HIDE DEF S
<1>6. /\ r \in Desk /\ r.stack = S
      /\ r.sent = q.sent /\ r.invoked = q.invoked /\ r.pc = q.pc /\ r.call = q.call
      /\ r.operator = q.operator /\ r.role = q.role /\ r.status = q.status
      /\ r.plan = q.plan /\ r.journal = q.journal /\ r.published = q.published
  BY <1>1, <1>5 DEF Desk
<1> HIDE DEF r
<1>7. BusInv(r)
  BY <1>1, <1>2, <1>6, BusReturn DEF f, S
<1>8. JournalInv(r)
  BY <1>1, <1>6, JournalKept
<1> QED BY <1>1, <1>3, <1>4, <1>6, <1>7, <1>8, BusStep

\* A panic leaves the handler's plan, or its turn, behind.
LEMMA PanicInv ==
  ASSUME TypeInv, NEW d \in Desks, DeskInv(d), Panic(d)
  PROVE  TypeInv' /\ DeskInv(d)' /\ \A x \in Desks : x # d => (DeskInv(x) => DeskInv(x)')
<1> DEFINE q == desk[d]
           n == Len(q.stack)
           f == q.stack[n]
<1>1. /\ q \in Desk /\ BusInv(q) /\ StageInv(q) /\ JournalInv(q) /\ q.stack # <<>>
      /\ UNCHANGED <<settings, shift, registered, cited>> /\ faults' \in 0..MaxFaults
  BY GatewayAssumption DEF TypeInv, DeskInv, Panic, Busy, Fail
<1>2. \/ Turn(d, [q EXCEPT !.stack[n].plan = <<>>])
      \/ /\ f.plan = <<>> /\ f.todo # <<>>
         /\ Turn(d, Called(q, Head(f.todo)))
  BY Zenon DEF Panic, Top
<1>3. /\ q.pc = "publish" /\ q.status = 0 /\ q.published # <<>> /\ n \in 1..Len(q.stack)
      /\ q.stack \in Seq(FrameSet) /\ f \in FrameSet
  BY <1>1, BusyDesk, DeskTypes
<1>4. <<>> \in Seq(Sequels)
  BY EmptySeq
<1>5. CASE Turn(d, [q EXCEPT !.stack[n].plan = <<>>])
  <2> DEFINE g == [f EXCEPT !.plan = <<>>]
             S == [q.stack EXCEPT ![n] = g]
             r == [q EXCEPT !.stack = S]
  <2>1. g \in FrameSet
    BY <1>3, <1>4 DEF FrameSet
  <2>2. [q EXCEPT !.stack[n].plan = <<>>] = r /\ S = [q.stack EXCEPT ![n].plan = <<>>]
    BY <1>1, <1>3
  <2> HIDE DEF g
  <2>3. S \in Seq(FrameSet)
    BY <1>3, <2>1, ExceptSeq
  <2>4. Turn(d, r)
    BY <1>5, <2>2
  <2> HIDE DEF S
  <2>5. /\ r \in Desk /\ r.stack = S
        /\ r.sent = q.sent /\ r.invoked = q.invoked /\ r.pc = q.pc /\ r.call = q.call
        /\ r.operator = q.operator /\ r.role = q.role /\ r.status = q.status
        /\ r.plan = q.plan /\ r.journal = q.journal /\ r.published = q.published
    BY <1>1, <2>3 DEF Desk
  <2> HIDE DEF r
  <2>6. BusInv(r)
    BY <1>1, <1>4, <2>2, <2>5, BusPlan
  <2>7. JournalInv(r)
    BY <1>1, <2>5, JournalKept
  <2> QED BY <1>1, <1>3, <2>4, <2>5, <2>6, <2>7, BusStep
<1>6. CASE f.plan = <<>> /\ f.todo # <<>> /\ Turn(d, Called(q, Head(f.todo)))
  <2> DEFINE s == Head(f.todo)
             b == Called(q, s)
  <2>1. NextCalled(q, f, s)
    BY <1>1, <1>6 DEF NextCalled
  <2> HIDE DEF f, s
  <2>2. HasBegun(q, b, f, s)
    BY ONLY <1>1, <2>1, Began
  <2>3. Turn(d, b)
    BY <1>6 DEF s
  <2> HIDE DEF b
  <2>4. [f EXCEPT !.todo = Tail(f.todo)] = [f EXCEPT !.todo = Tail(f.todo), !.plan = <<>>]
    BY <1>3, <1>6 DEF FrameSet
  <2>5. Calling(q, b, f, s, <<>>)
    BY <2>2, <2>4 DEF Calling, HasBegun
  <2>6. JournalInv(b)
    BY <1>1, <2>2, JournalKept DEF HasBegun
  <2>7. /\ b \in Desk /\ b.pc = q.pc /\ b.call = q.call /\ b.operator = q.operator /\ b.role = q.role
        /\ b.status = q.status /\ b.plan = q.plan
    BY <2>2 DEF HasBegun
  <2> QED BY <1>1, <1>4, <2>1, <2>3, <2>5, <2>6, <2>7, CallInv
<1> QED BY <1>2, <1>5, <1>6

-----------------------------------------------------------------------------
(* The whole                                                               *)

\* Every step of a desk preserves the invariant of every desk.
LEMMA StepInv ==
  ASSUME IInv, NEW d \in Desks, Step(d)
  PROVE  IInv'
<1> DEFINE Result == TypeInv' /\ DeskInv(d)' /\ \A x \in Desks : x # d => (DeskInv(x) => DeskInv(x)')
<1>0. TypeInv /\ DeskInv(d) /\ \A x \in Desks : DeskInv(x)
  BY DEF IInv
<1> SUFFICES Result
  BY <1>0 DEF IInv
<1>1. ASSUME NEW call \in Calls[d], Receive(d, call) PROVE Result
  BY <1>0, <1>1, ReceiveInv
<1>2. CASE Authenticate(d)
  BY <1>0, <1>2, AuthenticateInv
<1>3. CASE Authorize(d)
  BY <1>0, <1>3, AuthorizeInv
<1>4. CASE Refuse(d)
  BY <1>0, <1>4, RefuseInv
<1>5. CASE CreateOperator(d)
  BY <1>0, <1>5, CreateOperatorInv
<1>6. CASE CreateAssessment(d)
  BY <1>0, <1>6, CreateAssessmentInv
<1>7. CASE AddEvidence(d)
  BY <1>0, <1>7, AddEvidenceInv
<1>8. CASE Commit(d)
  BY <1>0, <1>8, CommitInv
<1>9. ASSUME NEW actor \in {None, Scenario},
             NEW topic \in {"observation.received", "command.issued", "entity.freshness.changed"},
             Start(d, actor, <<topic>>)
      PROVE  Result
  <2>1. topic \in AllTopics /\ topic # "assessment.created"
    BY DEF AllTopics
  <2> QED BY <1>0, <1>9, <2>1, StartInv
<1>10. CASE PublishNext(d)
  BY <1>0, <1>10, PublishNextInv
<1>11. CASE Invoke(d)
  BY <1>0, <1>11, InvokeInv
<1>12. CASE Nest(d)
  BY <1>0, <1>12, NestInv
<1>13. CASE Return(d)
  BY <1>0, <1>13, ReturnInv
<1>14. CASE Panic(d)
  BY <1>0, <1>14, PanicInv
<1> QED BY <1>1, <1>2, <1>3, <1>4, <1>5, <1>6, <1>7, <1>8, <1>9, <1>10, <1>11, <1>12, <1>13, <1>14 DEF Step

\* Every desk is idle.
LEMMA InitInv == Init => IInv
<1> SUFFICES ASSUME Init PROVE IInv
  OBVIOUS
<1>1. Idle \in Desk
  BY EmptySeq DEF Idle, Desk, Pcs, Actors, CallSet
<1>2. DOMAIN registered \subseteq Operators /\ registered \in [DOMAIN registered -> Roles]
  <2>1. PICK S \in SUBSET Operators : Given \in [S -> Roles]
    BY GatewayAssumption
  <2>2. "operator" \in Roles /\ DefaultOperator \in Operators
    BY GatewayAssumption DEF Roles
  <2>3. CASE DefaultOperator \in DOMAIN Given
    BY <2>1, <2>3 DEF Init, Ensure
  <2>4. CASE DefaultOperator \notin DOMAIN Given
    <3>1. registered = [o \in S \cup {DefaultOperator} |-> IF o = DefaultOperator THEN "operator" ELSE Given[o]]
      BY <2>1, <2>4 DEF Init, Ensure
    <3> QED BY <2>1, <2>2, <3>1
  <2> QED BY <2>3, <2>4
<1>3. TypeInv
  BY <1>1, <1>2, GatewayAssumption DEF Init, TypeInv
<1>4. ASSUME NEW d \in Desks PROVE DeskInv(d)
  <2>1. desk[d] = Idle
    BY DEF Init
  <2>2. /\ Idle.pc = "idle" /\ Idle.call = NoCall /\ Idle.operator = None /\ Idle.status = 0 /\ Idle.plan = <<>>
        /\ Idle.stack = <<>> /\ Idle.published = <<>> /\ Idle.invoked = <<>> /\ Idle.journal = <<>>
        /\ Idle.sent = <<>>
    BY DEF Idle
  <2>3. BusInv(Idle) /\ StageInv(Idle) /\ JournalInv(Idle)
    BY <2>2, BusAtRest, EmptySeq DEF StageInv, JournalInv
  <2>4. ActorInv(d)
    BY <2>1, <2>2 DEF ActorInv
  <2>5. CitedInv(d)
    BY <2>1, <2>2, EmptySeq DEF CitedInv
  <2> QED BY <2>1, <2>3, <2>4, <2>5 DEF DeskInv
<1> QED BY <1>3, <1>4 DEF IInv

\* Every behaviour keeps the invariant.
THEOREM Invariance == Spec => []IInv
<1>1. ASSUME IInv, [Next]_vars PROVE IInv'
  <2>1. CASE \E d \in shift : Step(d)
    <3>1. shift \subseteq Desks
      BY <1>1, GatewayAssumption DEF IInv, TypeInv
    <3> QED BY <1>1, <2>1, <3>1, StepInv
  <2>2. CASE UNCHANGED gateway
    <3>1. TypeInv'
      BY <1>1, <2>2 DEF IInv, TypeInv, gateway
    <3>2. \A d \in Desks : DeskInv(d)'
      BY <1>1, <2>2, OthersKept DEF IInv, gateway, Grown
    <3> QED BY <3>1, <3>2 DEF IInv
  <2> QED BY <1>1, <2>1, <2>2 DEF Next, vars
<1> QED BY <1>1, InitInv, PTL DEF Spec
-----------------------------------------------------------------------------
(* The lists                                                               *)

\* The rows of a table that come before one of them.
Ahead(q, T, r) == {s \in T : Before(q, s, r)}

\* The order of a list decides where a row is.
Placed(q, T, r) == q.total \/ \A s \in T \ {r} : s.rank # r.rank

\* A row is an id and a rank.
LEMMA RowType ==
  ASSUME NEW r \in Row
  PROVE  r.rank \in Nat /\ r.id \in Nat /\ r = [id |-> r.id, rank |-> r.rank]
  <1>1. r.id \in 1..MaxRows /\ r.rank \in Ranks /\ r = [id |-> r.id, rank |-> r.rank]
    BY DEF Row
  <1>2. MaxRows \in Nat /\ Ranks \subseteq Nat
    BY ListingAssumption
  <1> QED
    BY <1>1, <1>2

\* Two rows are apart, or one of them is before the other.
LEMMA Comparable ==
  ASSUME NEW q, NEW T \in SUBSET Row, NEW r \in T, NEW s \in T, s # r, Placed(q, T, r),
         ~Before(q, r, s)
  PROVE  Before(q, s, r)
  <1>1. /\ r.rank \in Nat /\ s.rank \in Nat /\ r.id \in Int /\ s.id \in Int
        /\ r.rank # s.rank \/ r.id # s.id
    BY RowType
  <1>2. CASE r.rank # s.rank
    BY <1>1, <1>2 DEF Before
  <1>3. CASE r.rank = s.rank
    BY <1>1, <1>3 DEF Before, Placed
  <1> QED
    BY <1>2, <1>3

\* No row is before itself.
LEMMA Irreflexive == ASSUME NEW q, NEW r \in Row PROVE ~Before(q, r, r)
  BY RowType DEF Before

\* A row whose place is decided is among the first n rows exactly when fewer come before.
LEMMA PrefixFacts ==
  ASSUME NEW q, NEW T \in SUBSET Row, IsFiniteSet(T), NEW n \in Nat, NEW p \in Prefixes(q, T, n),
         NEW r \in T, Placed(q, T, r)
  PROVE  /\ Cardinality(Ahead(q, T, r)) \in Nat /\ Cardinality(Ahead(q, T, r)) < Cardinality(T)
         /\ r \in p => Cardinality(Ahead(q, T, r)) < n
         /\ r \notin p => n <= Cardinality(Ahead(q, T, r))
  <1> DEFINE A == Ahead(q, T, r)
  <1>1. /\ p \in SUBSET T /\ Cardinality(p) = Least(n, Cardinality(T))
        /\ \A x \in p, s \in T \ p : ~Before(q, s, x)
    BY DEF Prefixes
  <1>2. A \in SUBSET T /\ r \notin A
    BY Irreflexive DEF Ahead
  <1>3. IsFiniteSet(A) /\ IsFiniteSet(p)
    BY <1>1, <1>2, FS_Subset
  <1>4. Cardinality(A) \in Nat /\ Cardinality(p) \in Nat /\ Cardinality(T) \in Nat
    BY <1>3, FS_CardinalityType
  <1>5. Cardinality(A \cup {r}) = Cardinality(A) + 1
    BY <1>2, <1>3, FS_AddElement
  <1>6. Cardinality(A) < Cardinality(T)
    <2>1. A \cup {r} \in SUBSET T
      BY <1>2
    <2>2. Cardinality(A \cup {r}) <= Cardinality(T)
      BY <2>1, FS_Subset
    <2> QED
      BY <1>4, <1>5, <2>2
  <1>7. ASSUME r \in p PROVE Cardinality(A) < n
    <2>1. A \cup {r} \in SUBSET p
      BY <1>1, <1>7 DEF Ahead
    <2>2. Cardinality(A \cup {r}) <= Cardinality(p)
      BY <1>3, <2>1, FS_Subset
    <2> HIDE DEF A
    <2> QED
      BY <1>1, <1>4, <1>5, <2>2 DEF Least
  <1>8. ASSUME r \notin p PROVE n <= Cardinality(A)
    <2>1. p \in SUBSET A
      BY <1>1, <1>8, Comparable DEF Ahead
    <2>2. Cardinality(p) <= Cardinality(A)
      BY <1>3, <2>1, FS_Subset
    <2> HIDE DEF A
    <2> QED
      BY <1>1, <1>4, <1>6, <2>2 DEF Least
  <1> QED
    BY <1>4, <1>6, <1>7, <1>8

\* A page is what is between two prefixes.
LEMMA PageCut ==
  ASSUME NEW q, NEW T \in SUBSET Row, IsFiniteSet(T), NEW limit \in Nat \ {0}, NEW offset \in Nat,
         NEW page \in Pages(q, T, limit, offset)
  PROVE  \E a \in Prefixes(q, T, offset), b \in Prefixes(q, T, offset + limit) :
           /\ a \subseteq b /\ page = b \ a /\ page \in SUBSET T
           /\ Cardinality(a) = Least(offset, Cardinality(T))
           /\ Cardinality(a) \in Nat /\ Cardinality(page) \in Nat /\ Cardinality(T) \in Nat
           /\ Cardinality(a) + Cardinality(page) = Least(offset + limit, Cardinality(T))
           /\ page # {} <=> Cardinality(page) > 0
  <1>1. PICK a \in Prefixes(q, T, offset), b \in Prefixes(q, T, offset + limit) :
          a \subseteq b /\ page = b \ a
    <2>1. PICK c \in {c \in Prefixes(q, T, offset) \X Prefixes(q, T, offset + limit) :
                        c[1] \subseteq c[2]} : page = c[2] \ c[1]
      BY DEF Pages
    <2> QED
      BY <2>1
  <1>2. /\ a \in SUBSET T /\ Cardinality(a) = Least(offset, Cardinality(T))
        /\ b \in SUBSET T /\ Cardinality(b) = Least(offset + limit, Cardinality(T))
    BY <1>1 DEF Prefixes
  <1>3. IsFiniteSet(a) /\ IsFiniteSet(b)
    BY <1>2, FS_Subset
  <1>4. page \in SUBSET T /\ IsFiniteSet(page)
    BY <1>1, <1>2, FS_Subset
  <1>5. /\ Cardinality(a) \in Nat /\ Cardinality(b) \in Nat /\ Cardinality(T) \in Nat
        /\ Cardinality(page) \in Nat
    BY <1>3, <1>4, FS_CardinalityType
  <1>6. Cardinality(b) = Cardinality(a) + Cardinality(page)
    <2>1. b \cap a = a
      BY <1>1
    <2>2. Cardinality(b \ a) = Cardinality(b) - Cardinality(b \cap a)
      BY <1>3, FS_Difference
    <2> QED
      BY <1>1, <1>5, <2>1, <2>2
  <1>7. page # {} <=> Cardinality(page) > 0
    BY <1>4, <1>5, FS_EmptySet
  <1> QED
    BY <1>1, <1>2, <1>4, <1>5, <1>6, <1>7

\* A page ends where the next one begins, not behind the list.
LEMMA PageEnds ==
  ASSUME NEW q, NEW T \in SUBSET Row, IsFiniteSet(T), NEW limit \in Nat \ {0}, NEW offset \in Nat,
         NEW page \in Pages(q, T, limit, offset)
  PROVE  /\ page \in SUBSET T /\ Cardinality(page) \in Nat
         /\ page # {} => offset + Cardinality(page) <= Cardinality(T)
  <1>1. PICK a \in Prefixes(q, T, offset), b \in Prefixes(q, T, offset + limit) :
          /\ a \subseteq b /\ page = b \ a /\ page \in SUBSET T
          /\ Cardinality(a) = Least(offset, Cardinality(T))
          /\ Cardinality(a) \in Nat /\ Cardinality(page) \in Nat /\ Cardinality(T) \in Nat
          /\ Cardinality(a) + Cardinality(page) = Least(offset + limit, Cardinality(T))
          /\ page # {} <=> Cardinality(page) > 0
    BY PageCut
  <1> QED
    BY <1>1 DEF Least

\* A page is empty only behind every row, and a row that is neither before it nor in it
\* is after it.
LEMMA PageMisses ==
  ASSUME NEW q, NEW T \in SUBSET Row, IsFiniteSet(T), NEW limit \in Nat \ {0}, NEW offset \in Nat,
         NEW page \in Pages(q, T, limit, offset), NEW r \in T, Placed(q, T, r), r \notin page,
         offset <= Cardinality(Ahead(q, T, r))
  PROVE  page # {} /\ offset + Cardinality(page) <= Cardinality(Ahead(q, T, r))
  <1> DEFINE before == Cardinality(Ahead(q, T, r))
  <1>1. PICK a \in Prefixes(q, T, offset), b \in Prefixes(q, T, offset + limit) :
          /\ a \subseteq b /\ page = b \ a /\ page \in SUBSET T
          /\ Cardinality(a) = Least(offset, Cardinality(T))
          /\ Cardinality(a) \in Nat /\ Cardinality(page) \in Nat /\ Cardinality(T) \in Nat
          /\ Cardinality(a) + Cardinality(page) = Least(offset + limit, Cardinality(T))
          /\ page # {} <=> Cardinality(page) > 0
    BY PageCut
  <1>2. before \in Nat /\ before < Cardinality(T) /\ (r \in a => before < offset)
    BY PrefixFacts
  <1>3. offset + limit \in Nat
    OBVIOUS
  <1>4. r \notin b => offset + limit <= before
    BY <1>3, PrefixFacts
  <1>5. offset <= before
    OBVIOUS
  <1> HIDE DEF before
  <1>6. r \notin a /\ r \notin b
    BY <1>1, <1>2, <1>5
  <1>7. page # {} /\ offset + Cardinality(page) <= before
    BY <1>1, <1>2, <1>4, <1>6 DEF Least
  <1> QED
    BY <1>7 DEF before

\* Where rows are added a row moves back, and no place is decided that was not.
LEMMA RowsAdded ==
  ASSUME NEW q, NEW T, NEW U, T \subseteq U, IsFiniteSet(U), NEW r
  PROVE  /\ Placed(q, U, r) => Placed(q, T, r)
         /\ Cardinality(Ahead(q, T, r)) \in Nat /\ Cardinality(Ahead(q, U, r)) \in Nat
         /\ Cardinality(Ahead(q, T, r)) <= Cardinality(Ahead(q, U, r))
         /\ Cardinality(T) \in Nat /\ Cardinality(U) \in Nat /\ Cardinality(T) <= Cardinality(U)
  <1>1. Ahead(q, U, r) \in SUBSET U /\ Ahead(q, T, r) \in SUBSET Ahead(q, U, r)
    BY DEF Ahead
  <1>2. IsFiniteSet(Ahead(q, U, r))
    BY <1>1, FS_Subset
  <1>3. IsFiniteSet(Ahead(q, T, r)) /\ Cardinality(Ahead(q, T, r)) <= Cardinality(Ahead(q, U, r))
    BY <1>1, <1>2, FS_Subset
  <1>4. IsFiniteSet(T) /\ Cardinality(T) <= Cardinality(U)
    BY FS_Subset
  <1>5. Placed(q, U, r) => Placed(q, T, r)
    BY DEF Placed
  <1> QED
    BY <1>2, <1>3, <1>4, <1>5, FS_CardinalityType

WalkType ==
  [pc : {"rest", "read", "count", "end"}, shape : Shapes, limit : Nat \ {0}, offset : Nat,
   start : SUBSET Row, page : SUBSET Row, seen : SUBSET Row, total : Nat]

ListTypeInv ==
  /\ table \in SUBSET Row /\ IsFiniteSet(table)
  /\ inserted \in 0..MaxRows
  /\ walk \in WalkType /\ IsFiniteSet(walk.page)

\* The rows the client missed so far are all behind it, whatever is inserted.
WalkInv ==
  LET Missed(r)  == r \in walk.start \ walk.seen /\ Placed(walk.shape, table, r)
      Position(r) == Cardinality(Ahead(walk.shape, table, r))
      size       == Cardinality(walk.page) IN
  /\ walk.start \subseteq table
  /\ walk.pc = "read" =>
       /\ \A r \in walk.start : Missed(r) => walk.offset <= Position(r)
       /\ walk.shape.counted => walk.offset <= walk.total
  /\ walk.pc = "count" =>
       /\ \A r \in walk.start \ walk.page : Missed(r) =>
            walk.page # {} /\ walk.offset + size <= Position(r)
       /\ walk.page # {} => walk.offset + size <= Cardinality(table)
  /\ walk.pc = "end" => \A r \in walk.start : ~Missed(r)

ListInv == ListTypeInv /\ (walk.pc # "rest" /\ ~left => WalkInv)

\* Rows are added.
LEMMA InsertStep == ASSUME ListInv, NEW rank \in Ranks, Insert(rank) PROVE ListInv'
  <1> DEFINE new == [id |-> inserted + 1, rank |-> rank]
  <1>1. /\ inserted < MaxRows /\ inserted' = inserted + 1 /\ table' = table \cup {new}
        /\ UNCHANGED <<left, walk>> /\ ListTypeInv
    BY DEF Insert, ListInv
  <1>2. new \in Row
    BY <1>1, ListingAssumption DEF ListTypeInv, Row
  <1> HIDE DEF new
  <1>3. ListTypeInv'
    <2>1. IsFiniteSet(table')
      BY <1>1, FS_AddElement DEF ListTypeInv
    <2>2. inserted' \in 0..MaxRows
      BY <1>1, ListingAssumption DEF ListTypeInv
    <2> QED
      BY <1>1, <1>2, <2>1, <2>2 DEF ListTypeInv
  <1>4. ASSUME WalkInv PROVE WalkInv'
    <2>1. table \subseteq table' /\ IsFiniteSet(table')
      BY <1>1, <1>3 DEF ListTypeInv
    <2>2. walk.offset \in Nat /\ Cardinality(walk.page) \in Nat
      BY <1>1, FS_CardinalityType DEF ListTypeInv, WalkType
    <2>3. \A r : /\ Placed(walk.shape, table', r) => Placed(walk.shape, table, r)
                 /\ Cardinality(Ahead(walk.shape, table, r)) \in Nat
                 /\ Cardinality(Ahead(walk.shape, table', r)) \in Nat
                 /\ Cardinality(Ahead(walk.shape, table, r)) <= Cardinality(Ahead(walk.shape, table', r))
      BY <2>1, RowsAdded
    <2>4. Cardinality(table) \in Nat /\ Cardinality(table') \in Nat
          /\ Cardinality(table) <= Cardinality(table')
      BY <2>1, RowsAdded
    <2>5. walk' = walk
      BY <1>1
    <2>6. walk.start \subseteq table'
      BY <1>4, <2>1 DEF WalkInv
    <2>7. ASSUME walk.pc = "read", NEW r \in walk.start, r \notin walk.seen,
                 Placed(walk.shape, table', r)
          PROVE  walk.offset <= Cardinality(Ahead(walk.shape, table', r))
      <3>1. walk.offset <= Cardinality(Ahead(walk.shape, table, r))
        BY <1>4, <2>3, <2>7 DEF WalkInv
      <3> QED
        BY <2>2, <2>3, <3>1
    <2>8. ASSUME walk.pc = "count", NEW r \in walk.start \ walk.page, r \notin walk.seen,
                 Placed(walk.shape, table', r)
          PROVE  /\ walk.page # {}
                 /\ walk.offset + Cardinality(walk.page) <= Cardinality(Ahead(walk.shape, table', r))
      <3>1. /\ walk.page # {}
            /\ walk.offset + Cardinality(walk.page) <= Cardinality(Ahead(walk.shape, table, r))
        BY <1>4, <2>3, <2>8 DEF WalkInv
      <3> QED
        BY <2>2, <2>3, <3>1
    <2>9. ASSUME walk.pc = "count", walk.page # {}
          PROVE  walk.offset + Cardinality(walk.page) <= Cardinality(table')
      <3>1. walk.offset + Cardinality(walk.page) <= Cardinality(table)
        BY <1>4, <2>9 DEF WalkInv
      <3> QED
        BY <2>2, <2>4, <3>1
    <2>10. walk.pc = "end" => \A r \in walk.start :
             ~(r \notin walk.seen /\ Placed(walk.shape, table', r))
      BY <1>4, <2>3 DEF WalkInv
    <2>11. walk.pc = "read" /\ walk.shape.counted => walk.offset <= walk.total
      BY <1>4 DEF WalkInv
    <2> QED
      BY <2>5, <2>6, <2>7, <2>8, <2>9, <2>10, <2>11 DEF WalkInv
  <1> QED
    BY <1>1, <1>3, <1>4 DEF ListInv

\* A row leaves the list, or moves in it: nothing is promised any more.
LEMMA LeaveMoveStep ==
  ASSUME ListInv, NEW r \in table, Leave(r) \/ \E rank \in Ranks : Move(r, rank) PROVE ListInv'
  <1>1. /\ left' = TRUE /\ UNCHANGED <<inserted, walk>>
        /\ \/ table' = table \ {r}
           \/ \E rank \in Ranks : table' = (table \ {r}) \cup {[r EXCEPT !.rank = rank]}
    BY DEF Leave, Move
  <1>2. IsFiniteSet(table \ {r}) /\ table \ {r} \in SUBSET Row
    BY FS_RemoveElement DEF ListInv, ListTypeInv
  <1>3. table' \in SUBSET Row /\ IsFiniteSet(table')
    <2>1. CASE table' = table \ {r}
      BY <1>2, <2>1
    <2>2. ASSUME NEW rank \in Ranks, table' = (table \ {r}) \cup {[r EXCEPT !.rank = rank]}
          PROVE  table' \in SUBSET Row /\ IsFiniteSet(table')
      <3>1. r \in Row
        BY DEF ListInv, ListTypeInv
      <3>2. [r EXCEPT !.rank = rank] \in Row
        BY <3>1 DEF Row
      <3> QED
        BY <1>2, <2>2, <3>2, FS_AddElement
    <2> QED
      BY <1>1, <2>1, <2>2
  <1> QED
    BY <1>1, <1>3 DEF ListInv, ListTypeInv
\* A walk begins before every row, with a page that is not empty.
LEMMA WalkStep ==
  ASSUME ListInv, NEW q \in Shapes, NEW limit \in Int, NEW offset \in {-1, 0}, Walk(q, limit, offset)
  PROVE  ListInv'
  <1>1. /\ walk' = [AtRest EXCEPT !.pc = "read", !.shape = q, !.limit = ClampLimit(limit),
                                  !.offset = ClampOffset(offset), !.start = table]
        /\ UNCHANGED <<table, inserted, left>> /\ ListTypeInv
    BY DEF Walk, ListInv
  <1>2. ClampLimit(limit) \in Nat \ {0} /\ ClampOffset(offset) = 0
    BY ListingAssumption DEF ClampLimit, ClampOffset, Least
  <1>3. /\ walk' = [pc |-> "read", shape |-> q, limit |-> ClampLimit(limit), offset |-> 0,
                    start |-> table, page |-> {}, seen |-> {}, total |-> 0]
    BY <1>1, <1>2 DEF AtRest
  <1>4. walk' \in WalkType
    BY <1>1, <1>2, <1>3 DEF WalkType, ListTypeInv
  <1>8. /\ walk'.pc = "read" /\ walk'.shape = q /\ walk'.offset = 0 /\ walk'.start = table
        /\ walk'.page = {} /\ walk'.seen = {} /\ walk'.total = 0
    BY <1>3
  <1>5. ListTypeInv'
    BY <1>1, <1>4, <1>8, FS_EmptySet DEF ListTypeInv
  <1>6. \A r : Cardinality(Ahead(q, table, r)) \in Nat
    BY <1>1, RowsAdded DEF ListTypeInv
  <1>7. WalkInv'
    BY <1>1, <1>6, <1>8 DEF WalkInv
  <1> QED
    BY <1>5, <1>7 DEF ListInv

\* A page is read: the client has every row before its end, or misses one in front of it.
LEMMA ReadPageStep == ASSUME ListInv, ReadPage PROVE ListInv'
  <1>1. walk.pc = "read" /\ UNCHANGED <<table, inserted, left>> /\ ListTypeInv
    BY DEF ReadPage, ListInv
  <1>2. PICK p \in Pages(walk.shape, table, walk.limit, walk.offset) :
          walk' = [walk EXCEPT !.pc = "count", !.page = p]
    BY DEF ReadPage
  <1>3. walk.limit \in Nat \ {0} /\ walk.offset \in Nat /\ walk \in WalkType
        /\ table \in SUBSET Row /\ IsFiniteSet(table)
    BY <1>1 DEF ListTypeInv, WalkType
  <1>4. /\ p \in SUBSET table /\ Cardinality(p) \in Nat
        /\ p # {} => walk.offset + Cardinality(p) <= Cardinality(table)
        /\ \A r \in table :
             (/\ Placed(walk.shape, table, r) /\ r \notin p
              /\ walk.offset <= Cardinality(Ahead(walk.shape, table, r))) =>
             p # {} /\ walk.offset + Cardinality(p) <= Cardinality(Ahead(walk.shape, table, r))
    <2>1. /\ p \in SUBSET table /\ Cardinality(p) \in Nat
          /\ p # {} => walk.offset + Cardinality(p) <= Cardinality(table)
      BY <1>2, <1>3, PageEnds
    <2>2. ASSUME NEW r \in table, Placed(walk.shape, table, r), r \notin p,
                 walk.offset <= Cardinality(Ahead(walk.shape, table, r))
          PROVE  p # {} /\ walk.offset + Cardinality(p) <= Cardinality(Ahead(walk.shape, table, r))
      BY <1>2, <1>3, <2>2, PageMisses
    <2> QED
      BY <2>1, <2>2
  <1>5. /\ walk'.pc = "count" /\ walk'.page = p /\ walk'.shape = walk.shape
        /\ walk'.offset = walk.offset /\ walk'.start = walk.start /\ walk'.seen = walk.seen
    BY <1>2, <1>3 DEF WalkType
  <1>6. ListTypeInv'
    <2>1. IsFiniteSet(p) /\ p \in SUBSET Row
      BY <1>3, <1>4, FS_Subset
    <2>2. walk' \in WalkType
      BY <1>2, <1>3, <2>1 DEF WalkType
    <2> QED
      BY <1>1, <1>5, <2>1, <2>2 DEF ListTypeInv
  <1>7. ASSUME WalkInv PROVE WalkInv'
    <2>1. walk.start \subseteq table
      BY <1>7 DEF WalkInv
    <2>2. ASSUME NEW r \in walk.start \ p, r \notin walk.seen, Placed(walk.shape, table, r)
          PROVE  p # {} /\ walk.offset + Cardinality(p) <= Cardinality(Ahead(walk.shape, table, r))
      <3>1. walk.offset <= Cardinality(Ahead(walk.shape, table, r))
        BY <1>1, <1>7, <2>2 DEF WalkInv
      <3> QED
        BY <1>4, <2>1, <2>2, <3>1
    <2> QED
      BY <1>1, <1>4, <1>5, <2>1, <2>2 DEF WalkInv
  <1> QED
    BY <1>1, <1>6, <1>7 DEF ListInv

\* The client goes on after the rows it got, or ends at an empty page.
LEMMA CountRowsStep == ASSUME ListInv, CountRows PROVE ListInv'
  <1> DEFINE size == Cardinality(walk.page)
             total == IF walk.shape.counted THEN Cardinality(table) ELSE size
  <1>1. /\ walk.pc = "count" /\ UNCHANGED <<table, inserted, left>> /\ ListTypeInv
        /\ walk' = [walk EXCEPT !.pc = IF walk.page = {} THEN "end" ELSE "read",
                                !.seen = walk.seen \cup walk.page,
                                !.offset = walk.offset + size,
                                !.total = total]
    BY DEF CountRows, ListInv
  <1>2. /\ walk \in WalkType /\ walk.offset \in Nat /\ size \in Nat /\ Cardinality(table) \in Nat
        /\ total \in Nat
    BY <1>1, FS_CardinalityType DEF ListTypeInv, WalkType
  <1> HIDE DEF size, total
  <1>3. /\ walk'.pc = (IF walk.page = {} THEN "end" ELSE "read") /\ walk'.page = walk.page
        /\ walk'.shape = walk.shape /\ walk'.seen = walk.seen \cup walk.page
        /\ walk'.offset = walk.offset + size /\ walk'.start = walk.start /\ walk'.total = total
    BY <1>1, <1>2 DEF WalkType
  <1>4. ListTypeInv'
    <2>1. walk.offset + size \in Nat /\ walk.seen \cup walk.page \in SUBSET Row
      BY <1>2 DEF WalkType
    <2>2. (IF walk.page = {} THEN "end" ELSE "read") \in {"rest", "read", "count", "end"}
      OBVIOUS
    <2>3. walk' \in WalkType
      BY <1>1, <1>2, <2>1, <2>2 DEF WalkType
    <2> QED
      BY <1>1, <1>3, <2>3 DEF ListTypeInv
  <1>5. ASSUME WalkInv PROVE WalkInv'
    <2>1. /\ walk.start \subseteq table
          /\ \A r \in walk.start \ walk.page : r \notin walk.seen /\ Placed(walk.shape, table, r) =>
               walk.page # {} /\ walk.offset + size <= Cardinality(Ahead(walk.shape, table, r))
          /\ walk.page # {} => walk.offset + size <= Cardinality(table)
      BY <1>1, <1>5 DEF WalkInv, size
    <2>2. CASE walk.page = {}
      <3>1. walk'.pc = "end"
        BY <1>3, <2>2
      <3> QED
        BY <1>1, <1>3, <2>1, <2>2, <3>1 DEF WalkInv
    <2>3. CASE walk.page # {}
      <3>1. walk'.pc = "read"
        BY <1>3, <2>3
      <3>2. walk.shape.counted => walk'.offset <= walk'.total
        BY <1>3, <2>1, <2>3 DEF total
      <3> QED
        BY <1>1, <1>3, <2>1, <3>1, <3>2 DEF WalkInv
    <2> QED
      BY <2>2, <2>3
  <1> QED
    BY <1>1, <1>4, <1>5 DEF ListInv

\* Nobody walks yet.
LEMMA ListInit == ASSUME ListingInit PROVE ListInv
  <1>1. Shape(ListSources) \in Shapes
    BY DEF Shapes, Lists
  <1>2. walk \in WalkType /\ walk.pc = "rest" /\ walk.page = {}
    BY <1>1 DEF ListingInit, AtRest, WalkType
  <1> QED
    BY <1>2, FS_EmptySet, ListingAssumption DEF ListingInit, ListInv, ListTypeInv

\* Every step of the rows and of the walk preserves the invariant.
LEMMA ListStep == ASSUME ListInv, [ListingNext]_listing PROVE ListInv'
  <1>1. ASSUME NEW q \in Shapes, NEW limit \in {0, 1, MaxLimit + 1}, NEW offset \in {-1, 0},
               Walk(q, limit, offset)
        PROVE  ListInv'
    <2>1. limit \in Int
      BY ListingAssumption
    <2> QED
      BY <1>1, <2>1, WalkStep
  <1>2. CASE UNCHANGED listing
    BY <1>2 DEF listing, ListInv, ListTypeInv, WalkInv
  <1> QED
    BY <1>1, <1>2, InsertStep, LeaveMoveStep, ReadPageStep, CountRowsStep DEF ListingNext
-----------------------------------------------------------------------------
(* The theorems                                                            *)

\* Every desk keeps its type, and every dispatch handles an event that was published.
THEOREM TypeCorrect == Spec => []TypeOK
<1>1. ASSUME IInv PROVE TypeOK
  <2>1. TypeInv /\ \A d \in Desks : desk[d] \in Desk /\ BusInv(desk[d])
    BY <1>1 DEF IInv, DeskInv, TypeInv
  <2>2. ASSUME NEW d \in Desks
        PROVE  /\ desk[d].pc \in Pcs /\ desk[d].operator \in Actors
               /\ Len(desk[d].invoked) = Len(desk[d].published)
    BY <2>1, DeskTypes DEF BusInv
  <2>3. ASSUME NEW d \in Desks, NEW f \in Frames(d) PROVE f.event \in 1..Len(desk[d].published)
    BY <2>1 DEF Frames, BusInv, Dispatching
  <2>4. \A o \in DOMAIN registered : registered[o] \in Roles
    BY <2>1 DEF TypeInv
  <2> QED BY <2>1, <2>2, <2>3, <2>4 DEF TypeOK, TypeInv, Pcs
<1> QED BY <1>1, Invariance, PTL

\* Who acts, to the journal.
LEMMA WhoActs ==
  ASSUME NEW q, NEW topic
  PROVE  LET actor == Actor(q, topic) IN
         /\ actor[1] = "operator" => topic \in Attributed /\ q.operator \in Operators /\ actor[2] = q.operator
         /\ topic \in Attributed /\ q.operator \in Operators => actor[1] = "operator"
<1>1. Attributed \cap RunTopics = {}
  BY DEF Attributed, RunTopics
<1>2. CASE topic \in RunTopics
  <2>1. Actor(q, topic) = <<"scenario", Scenario>>
    BY <1>2 DEF Actor
  <2> QED BY <1>1, <1>2, <2>1
<1>3. CASE topic \notin RunTopics /\ topic \in Attributed /\ q.operator \in Operators
  <2>1. q.operator # Scenario
    BY <1>3, GatewayAssumption
  <2>2. Actor(q, topic) = <<"operator", q.operator>>
    BY <1>3, <2>1 DEF Actor
  <2> QED BY <1>3, <2>2
<1>4. CASE topic \notin RunTopics /\ ~(topic \in Attributed /\ q.operator \in Operators)
  <2>1. Actor(q, topic) \in {<<"scenario", Scenario>>, <<"system", None>>}
    BY <1>4 DEF Actor
  <2> QED BY <1>4, <2>1
<1> QED BY <1>2, <1>3, <1>4

\* httpx/middleware.go, audit/service.go setOperator: an operator the journal names is
\* registered, may do what it says, and has shown his token where one is required; an event
\* that carries who acted is never put down to the system when a request published it: for
\* every registry of operators whose ids do not begin like a run's, set of tokens, setting,
\* call and number of desks.
THEOREM Accountability == Spec => []Accountable
<1>1. ASSUME IInv PROVE Accountable
  <2> SUFFICES ASSUME NEW d \in Desks, NEW i \in 1..Len(desk[d].journal)
               PROVE  LET topic == desk[d].published[desk[d].journal[i][1]].topic
                          actor == desk[d].journal[i][2]
                          call  == desk[d].call IN
                      /\ actor[1] = "operator" =>
                           /\ actor[2] \in DOMAIN registered
                           /\ PolicyFor(call.method, call.path) \in PermissionsForRole(registered[actor[2]])
                           /\ settings.required \/ settings.environment \notin Relaxed =>
                                call.token \in DOMAIN settings.tokens /\ settings.tokens[call.token] = actor[2]
                      /\ topic \in Attributed /\ d \notin Background => actor[1] = "operator"
                      /\ d \in Background => actor[1] # "operator"
    BY DEF Accountable
  <2> DEFINE q == desk[d]
             e == q.journal[i][1]
             topic == q.published[e].topic
             actor == q.journal[i][2]
             policy == PolicyFor(q.call.method, q.call.path)
  <2>1. q \in Desk /\ BusInv(q) /\ ActorInv(d) /\ JournalInv(q)
    BY <1>1 DEF IInv, DeskInv, TypeInv
  <2>2. actor = Actor(q, topic)
    BY <2>1 DEF JournalInv
  <2>3. q.published # <<>>
    <3>1. e \in 1..Len(q.published)
      BY <2>1 DEF BusInv
    <3> QED BY <3>1, EmptySeq
  <2> HIDE DEF actor, topic
  <2>4. /\ actor[1] = "operator" => topic \in Attributed /\ q.operator \in Operators /\ actor[2] = q.operator
        /\ topic \in Attributed /\ q.operator \in Operators => actor[1] = "operator"
    BY <2>2, WhoActs
  <2>5. CASE d \in Background
    <3>1. q.operator \notin Operators
      BY <2>1, <2>5, GatewayAssumption DEF ActorInv
    <3> QED BY <2>4, <2>5, <3>1 DEF actor, topic
  <2>6. CASE d \notin Background
    <3>1. /\ q.operator # None /\ Granted(q.role, q.call) /\ q.call.method # "GET"
          /\ q.operator \in DOMAIN registered /\ q.role = registered[q.operator]
          /\ q.operator = Subject(q.call)
      BY <2>1, <2>3, <2>6 DEF ActorInv
    <3>2. policy \in Permissions /\ Allows(q.role, policy)
      BY <3>1, Policies DEF Granted
    <3>3. policy \in PermissionsForRole(registered[q.operator])
      BY <3>1, <3>2 DEF PermissionsForRole
    <3>4. q.operator \in Operators
      BY <1>1, <3>1 DEF IInv, TypeInv
    <3>5. settings.required \/ settings.environment \notin Relaxed =>
            q.call.token \in DOMAIN settings.tokens /\ settings.tokens[q.call.token] = q.operator
      <4>1. Valid(settings)
        BY <1>1 DEF IInv, TypeInv
      <4> QED BY <3>1, <4>1 DEF Valid, Subject
    <3> QED BY <2>4, <2>6, <3>1, <3>3, <3>4, <3>5 DEF actor, topic
  <2> QED BY <2>5, <2>6
<1> QED BY <1>1, Invariance, PTL

\* app.go New, events.go Publish: the journal tells a cause before what it led to, and the
\* stream an event after everything it led to, at every depth of the subscribers and
\* whichever of them panics.
THEOREM CausesComeFirst == Spec => []CauseFirst
<1>1. ASSUME IInv PROVE CauseFirst
  <2> SUFFICES ASSUME NEW d \in Desks
               PROVE  LET q == desk[d]
                          causes(e) == q.published[e].causes IN
                      /\ \A i, j \in 1..Len(q.journal) : i < j => q.journal[j][1] \notin causes(q.journal[i][1])
                      /\ \A i, j \in 1..Len(q.sent) : i < j => q.sent[i] \notin causes(q.sent[j])
    BY DEF CauseFirst
  <2> DEFINE q == desk[d]
  <2>1. q \in Desk /\ BusInv(q)
    BY <1>1 DEF IInv, DeskInv, TypeInv
  <2> HIDE DEF q
  <2>2. ASSUME NEW i \in 1..Len(q.journal), NEW j \in 1..Len(q.journal), i < j
        PROVE  q.journal[j][1] \notin q.published[q.journal[i][1]].causes
    <3> DEFINE a == q.journal[i][1]
               b == q.journal[j][1]
    <3>1. a \in 1..Len(q.published) /\ a < b
      BY <2>1, <2>2 DEF BusInv
    <3>2. q.published[a].causes \subseteq 1..(a - 1)
      BY <2>1, <3>1 DEF BusInv
    <3>3. a \in Nat /\ b \in Nat
      BY <2>1, DeskTypes
    <3> HIDE DEF a, b
    <3>4. b \notin 1..(a - 1)
      BY ONLY <3>1, <3>3
    <3> QED BY <3>2, <3>4 DEF a, b
  <2>3. \A i, j \in 1..Len(q.sent) : i < j => q.sent[i] \notin q.published[q.sent[j]].causes
    BY <2>1 DEF BusInv
  <2> QED BY <2>2, <2>3 DEF q
<1> QED BY <1>1, Invariance, PTL

\* events.go Publish: an event whose dispatch has ended was handed to each of its subscribers
\* once, in order, whichever panicked; and no request is answered before that.
THEOREM Delivery == Spec => []Delivered
<1>1. ASSUME IInv PROVE Delivered
  <2> SUFFICES ASSUME NEW d \in Desks
               PROVE  /\ \A e \in 1..Len(desk[d].published) :
                           (\A f \in Frames(d) : f.event # e) =>
                             desk[d].invoked[e] = Subscribers(desk[d].published[e].topic)
                      /\ desk[d].status # 0 => ~Busy(d) /\ desk[d].plan = <<>>
    BY DEF Delivered
  <2>1. BusInv(desk[d]) /\ StageInv(desk[d])
    BY <1>1 DEF IInv, DeskInv
  <2>2. \A k \in 1..Len(desk[d].stack) : desk[d].stack[k] \in Frames(d)
    BY DEF Frames
  <2>3. ASSUME NEW e \in 1..Len(desk[d].published), \A f \in Frames(d) : f.event # e
        PROVE  desk[d].invoked[e] = Subscribers(desk[d].published[e].topic)
    <3>1. \A k \in 1..Len(desk[d].stack) : desk[d].stack[k].event # e
      BY <2>2, <2>3
    <3> QED BY <2>1, <3>1 DEF BusInv
  <2>4. desk[d].status # 0 => ~Busy(d) /\ desk[d].plan = <<>>
    BY <2>1 DEF StageInv, Busy
  <2> QED BY <2>3, <2>4
<1> QED BY <1>1, Invariance, PTL

\* assessments/postgres_repository.go Create: an assessment that was announced has every
\* citation it was given, although each is stored by a statement that may fail.
THEOREM Cited == Spec => []AnnouncedIsCited
<1>1. ASSUME IInv PROVE AnnouncedIsCited
  BY <1>1 DEF IInv, DeskInv, CitedInv, AnnouncedIsCited
<1> QED BY <1>1, Invariance, PTL

\* http.go Mount, middleware.go PolicyFor and Allows, metrics.go boundedRoute: the tables agree
\* for every path, whatever its length and segments: a request let through has a handler, an
\* administrator is refused none, and a label is made of no segment a client chose.
THEOREM Tables == Spec => []TablesAgree
<1>1. ASSUME IInv PROVE TablesAgree
  <2> SUFFICES ASSUME NEW d \in Desks \ Background
               PROVE  LET q == desk[d]
                          policy == PolicyFor(q.call.method, q.call.path) IN
                      /\ q.status # 404
                      /\ q.pc \in {"handle", "cite", "publish"} =>
                           \/ policy \in PermissionsForRole(q.role)
                           \/ policy = Open /\ <<q.call.method, q.call.path>> \in SessionRoutes
                      /\ q.status = 403 /\ Routed(q.call.method, q.call.path) =>
                           q.role # "administrator" /\ policy \in Permissions \ PermissionsForRole(q.role)
                      /\ \A i \in 1..Len(BoundedRoute(q.call.path)) : BoundedRoute(q.call.path)[i] \in Words
    BY DEF TablesAgree
  <2> DEFINE q == desk[d]
             policy == PolicyFor(q.call.method, q.call.path)
  <2>1. q \in Desk /\ StageInv(q) /\ ActorInv(d)
    BY <1>1 DEF IInv, DeskInv, TypeInv
  <2>2. q.call.path \in Seq(STRING)
    BY <2>1, DeskTypes, CallTypes
  <2>3. policy \in Permissions \cup {Unknown, Open}
    BY Policies
  <2>4. q.status # 404
    BY <2>1 DEF StageInv
  <2>5. ASSUME q.pc \in {"handle", "cite", "publish"}
        PROVE  \/ policy \in PermissionsForRole(q.role)
               \/ policy = Open /\ <<q.call.method, q.call.path>> \in SessionRoutes
    <3>1. Granted(q.role, q.call)
      BY <2>1, <2>5 DEF ActorInv
    <3>2. policy = Open \/ policy \in PermissionsForRole(q.role)
      BY <2>3, <3>1 DEF Granted, PermissionsForRole
    <3>3. policy = Open => <<q.call.method, q.call.path>> \in SessionRoutes
      BY Policies DEF SessionRoutes, Get
    <3> QED BY <3>2, <3>3
  <2>6. ASSUME q.status = 403, Routed(q.call.method, q.call.path)
        PROVE  q.role # "administrator" /\ policy \in Permissions \ PermissionsForRole(q.role)
    <3>1. ~Granted(q.role, q.call)
      BY <2>1, <2>6 DEF ActorInv
    <3>2. policy # Unknown
      BY <2>2, <2>6, RoutedIsKnown
    <3>3. policy # Open /\ ~Allows(q.role, policy)
      BY <3>1, <3>2 DEF Granted
    <3>4. q.role # "administrator"
      BY <3>3 DEF Allows
    <3> QED BY <2>3, <3>2, <3>3, <3>4 DEF PermissionsForRole
  <2>7. \A i \in 1..Len(BoundedRoute(q.call.path)) : BoundedRoute(q.call.path)[i] \in Words
    BY <2>2, Labels
  <2> QED BY <2>4, <2>5, <2>6, <2>7
<1> QED BY <1>1, Invariance, PTL

\* dbgen ListAlerts, ListTrackDetails, ...: a client that walks to the end of a list, with
\* any limit, meets every row that was there and whose place its ORDER BY decides, however
\* many rows are inserted between its requests; and is not told a total smaller than what
\* it was shown.
THEOREM PagesComplete == Spec => []Paging
<1>1. Init => ListInv
  BY ListInit DEF Init
<1>2. ListInv /\ [Next]_vars => ListInv'
  <2> SUFFICES ASSUME ListInv, [Next]_vars PROVE ListInv'
    OBVIOUS
  <2>1. [ListingNext]_listing
    BY DEF Next, vars
  <2> QED BY <2>1, ListStep
<1>3. ListInv => Paging
  <2> SUFFICES ASSUME ListInv PROVE Paging
    OBVIOUS
  <2>1. ASSUME walk.pc = "end", ~left, NEW r \in walk.start \ walk.seen
        PROVE  ~walk.shape.total /\ \E s \in table \ {r} : s.rank = r.rank
    <3>1. ~Placed(walk.shape, table, r)
      BY <2>1 DEF ListInv, WalkInv
    <3> QED BY <3>1 DEF Placed
  <2>2. walk.pc = "read" /\ walk.shape.counted /\ ~left => walk.offset <= walk.total
    BY DEF ListInv, WalkInv
  <2> QED BY <2>1, <2>2 DEF Paging
<1> QED BY <1>1, <1>2, <1>3, PTL DEF Spec
====
