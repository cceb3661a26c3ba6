--------------------------- MODULE RealtimeStream ---------------------------
(***************************************************************************)
(* How a committed change reaches the picture on an operator's screen.     *)
(*                                                                         *)
(* A request commits and then publishes; the hub puts the event into the   *)
(* buffer of the operator's connection, or closes a connection whose       *)
(* buffer is full; the browser answers an event by refetching the views it *)
(* names, and the opening of a connection by refetching all.  Nothing is   *)
(* sent twice and no event carries data: the picture is right if and only  *)
(* if some refetch starts after the last change.                           *)
(*                                                                         *)
(* Abstracted: what an answer says is the number of changes it shows; the  *)
(* topics are grouped by the list of the map route that they concern; what *)
(* is on the wire is still in the buffer.  The connections of different    *)
(* operators share nothing.  A change that the freshness monitor notices   *)
(* is committed by the passing of time and published by a tick.            *)
(***************************************************************************)
EXTENDS Integers, Sequences

CONSTANTS
  Topics,       \* the groups of events that occur
  Views,        \* the lists the route shows
  BufferSize,   \* clientBufferSize; 256 in the code
  MaxCommits,   \* bounds: changes, lost or silent connections, replays, failed fetches
  MaxDrops,     \* in one behaviour
  MaxReplays,
  MaxFails

\* The views an event's change concerns.
Concern ==
  [observation    |-> {"observations"},
   track          |-> {"tracks"},
   trackFreshness |-> {"tracks"},
   asset          |-> {"assets"},
   assetFreshness |-> {"assets"},
   geofence       |-> {"geofences"},
   alert          |-> {"alerts"},
   command        |-> {"commands"}]

\* The views whose queries an event invalidates.
Invalidates ==
  [observation    |-> {"observations", "tracks"},
   track          |-> {"tracks"},
   trackFreshness |-> {"assets"},
   asset          |-> {"assets"},
   assetFreshness |-> {"assets"},
   geofence       |-> {"geofences"},
   alert          |-> {"alerts"},
   command        |-> {"commands"}]

ASSUME DataAssumption ==
  /\ Topics \subseteq DOMAIN Concern
  /\ Views \subseteq UNION {Concern[t] : t \in DOMAIN Concern}

ASSUME BoundAssumption ==
  /\ BufferSize \in Nat \ {0}
  /\ MaxCommits \in Nat /\ MaxDrops \in Nat /\ MaxReplays \in Nat /\ MaxFails \in Nat

VARIABLES
  data,    \* the changes the server's answer for a view shows
  unsent,  \* the changes committed and not yet published, by topic
  conn,    \* the server's side of the newest socket: none, accepted, registered or mute
  buffer,  \* client.send
  link,    \* the browser's side: down, connecting or up
  live,    \* the picture is the present, not a replay
  fetch,   \* each view's query: idle, sent, answered or failed
  answer,  \* what the answer of an answered query shows
  cache,   \* what the picture shows of each view; 0 before it is loaded
  missed,  \* history: why no refetch will follow from an event about a view
  spent    \* what is used up of each bound

server == <<data, unsent>>
socket == <<conn, buffer, link>>
queries == <<fetch, answer, cache>>
vars == <<data, unsent, conn, buffer, link, live, fetch, answer, cache, missed, spent>>

Reasons == {"none", "load", "gap", "mute", "replay", "unmapped"}

Budget == [commits : 0..MaxCommits, drops : 0..MaxDrops, replays : 0..MaxReplays, fails : 0..MaxFails]

-----------------------------------------------------------------------------
(* The server                                                              *)

\* A request commits a change.
Commit(t) ==
  /\ spent.commits < MaxCommits
  /\ spent' = [spent EXCEPT !.commits = @ + 1]
  /\ data' = [v \in Views |-> IF v \in Concern[t] THEN data[v] + 1 ELSE data[v]]
  /\ unsent' = [unsent EXCEPT ![t] = @ + 1]
  /\ UNCHANGED <<socket, live, queries, missed>>

\* The browser is served, but is no client yet.
InGap == conn = "accepted" /\ link = "up"

\* A member of h.clients; writeLoop may have returned all the same.
IsClient == conn \in {"registered", "mute"}

Full == Len(buffer) = BufferSize

DropNewest == UNCHANGED <<conn, buffer>>

\* handleEvent for a client that cannot keep up.
Overflow == conn' = "none" /\ buffer' = <<>>

\* The request publishes its event and the hub sends it to its clients.
Publish(t) ==
  /\ unsent[t] > 0
  /\ unsent' = [unsent EXCEPT ![t] = @ - 1]
  /\ \/ IsClient /\ ~Full /\ buffer' = Append(buffer, t) /\ UNCHANGED conn
     \/ IsClient /\ Full /\ Overflow
     \/ ~IsClient /\ UNCHANGED <<conn, buffer>>
  /\ missed' = [v \in Views |->
                  IF v \in Concern[t] /\ InGap THEN "gap"
                  ELSE IF v \in Concern[t] /\ conn' = "mute" THEN "mute" ELSE missed[v]]
  /\ UNCHANGED <<data, link, live, queries, spent>>

\* A ping is not answered in time: writeLoop returns, and nobody takes from the
\* buffer of a client that stays registered until it is full or the socket is lost.
Silence ==
  /\ conn = "registered"
  /\ spent.drops < MaxDrops
  /\ spent' = [spent EXCEPT !.drops = @ + 1]
  /\ conn' = "mute"
  /\ missed' = [v \in Views |->
                  IF \E i \in 1..Len(buffer) : v \in Concern[buffer[i]] THEN "mute" ELSE missed[v]]
  /\ UNCHANGED <<server, buffer, link, live, queries>>

\* serveWS, add.
Register ==
  /\ conn = "accepted"
  /\ conn' = "registered"
  /\ UNCHANGED <<server, buffer, link, live, queries, missed, spent>>

\* The connection is lost, with what was not delivered; a restart of the server
\* loses the events of its requests too.
Drop ==
  /\ conn # "none"
  /\ spent.drops < MaxDrops
  /\ spent' = [spent EXCEPT !.drops = @ + 1]
  /\ conn' = "none"
  /\ buffer' = <<>>
  /\ unsent' \in {unsent, [t \in Topics |-> 0]}
  /\ UNCHANGED <<data, link, live, queries, missed>>

-----------------------------------------------------------------------------
(* The browser                                                             *)

InFlight(v) == fetch[v] \in {"sent", "answered"}

\* invalidateQueries cancels a refetch and starts it again, but joins a first load.
Refetches(v) == ~(InFlight(v) /\ cache[v] = 0)

Invalidate(views, lost, reason) ==
  /\ fetch' = [v \in Views |-> IF v \in views /\ Refetches(v) THEN "sent" ELSE fetch[v]]
  /\ missed' = [v \in Views |->
                  IF v \in views
                  THEN IF ~Refetches(v) /\ fetch[v] = "answered" THEN "load" ELSE "none"
                  ELSE IF v \in lost THEN reason ELSE missed[v]]
  /\ UNCHANGED <<answer, cache>>

\* connect, up to the server's acceptance of the socket.
Connect ==
  /\ link = "down"
  /\ link' = "connecting"
  /\ conn' = "accepted"
  /\ buffer' = <<>>
  /\ UNCHANGED <<server, live, queries, missed, spent>>

\* The stream has no replay cursor: everything is fetched again.
Resync == Invalidate(Views, {}, "none")

OnOpen ==
  /\ link = "connecting" /\ conn # "none"
  /\ link' = "up"
  /\ Resync
  /\ UNCHANGED <<server, conn, buffer, live, spent>>

Open(l) == l = "up"

Pending(l) == l \in {"connecting", "up"}

\* onclose, and scheduleReconnect.
OnClose ==
  /\ Pending(link) /\ conn = "none"
  /\ link' = "down"
  /\ UNCHANGED <<server, conn, buffer, live, queries, missed, spent>>

\* onmessage, applyRealtimeEvent.
OnMessage ==
  LET t == Head(buffer) IN
  /\ link = "up" /\ buffer # <<>> /\ conn # "mute"
  /\ buffer' = Tail(buffer)
  /\ IF live
     THEN Invalidate(Invalidates[t], Concern[t], "unmapped")
     ELSE Invalidate({}, Concern[t], "replay")
  /\ UNCHANGED <<server, conn, link, live, spent>>

\* The server evaluates a query.
Answer(v) ==
  /\ fetch[v] = "sent"
  /\ fetch' = [fetch EXCEPT ![v] = "answered"]
  /\ answer' = [answer EXCEPT ![v] = data[v]]
  /\ UNCHANGED <<server, socket, live, cache, missed, spent>>

Receive(v) ==
  /\ fetch[v] = "answered"
  /\ fetch' = [fetch EXCEPT ![v] = "idle"]
  /\ cache' = [cache EXCEPT ![v] = answer[v]]
  /\ UNCHANGED <<server, socket, live, answer, missed, spent>>

\* A query fails, and its one retry too.
Fail(v) ==
  /\ InFlight(v)
  /\ spent.fails < MaxFails
  /\ spent' = [spent EXCEPT !.fails = @ + 1]
  /\ fetch' = [fetch EXCEPT ![v] = "failed"]
  /\ UNCHANGED <<server, socket, live, answer, cache, missed>>

\* setAt
Scrub ==
  /\ live
  /\ spent.replays < MaxReplays
  /\ spent' = [spent EXCEPT !.replays = @ + 1]
  /\ live' = FALSE
  /\ UNCHANGED <<server, socket, queries, missed>>

ReturnToLive ==
  /\ ~live
  /\ live' = TRUE
  /\ UNCHANGED <<server, socket, queries, missed, spent>>

-----------------------------------------------------------------------------
\* The route is mounted: its queries are sent and its socket is requested.
Init ==
  /\ data = [v \in Views |-> 1]
  /\ unsent = [t \in Topics |-> 0]
  /\ conn = "none"
  /\ buffer = <<>>
  /\ link = "down"
  /\ live = TRUE
  /\ fetch = [v \in Views |-> "sent"]
  /\ answer = [v \in Views |-> 0]
  /\ cache = [v \in Views |-> 0]
  /\ missed = [v \in Views |-> "none"]
  /\ spent = [commits |-> 0, drops |-> 0, replays |-> 0, fails |-> 0]

Next ==
  \/ \E t \in Topics : Commit(t) \/ Publish(t)
  \/ Register \/ Silence \/ Drop
  \/ Connect \/ OnOpen \/ OnClose \/ OnMessage
  \/ \E v \in Views : Answer(v) \/ Receive(v) \/ Fail(v)
  \/ Scrub \/ ReturnToLive

Spec == Init /\ [][Next]_vars

\* Requests finish, the browser's timers and callbacks run and the server answers.
FairSpec ==
  /\ Spec
  /\ \A t \in Topics : WF_vars(Publish(t))
  /\ WF_vars(Register) /\ WF_vars(Connect) /\ WF_vars(OnOpen)
  /\ WF_vars(OnClose) /\ WF_vars(OnMessage)
  /\ \A v \in Views : WF_vars(Answer(v)) /\ WF_vars(Receive(v))

-----------------------------------------------------------------------------
(* Properties                                                              *)

TypeOK ==
  /\ data \in [Views -> Nat \ {0}]
  /\ unsent \in [Topics -> Nat]
  /\ conn \in {"none", "accepted", "registered", "mute"}
  /\ buffer \in Seq(Topics) /\ Len(buffer) <= BufferSize
  /\ link \in {"down", "connecting", "up"}
  /\ live \in BOOLEAN
  /\ fetch \in [Views -> {"idle", "sent", "answered", "failed"}]
  /\ answer \in [Views -> Nat]
  /\ cache \in [Views -> Nat]
  /\ missed \in [Views -> Reasons]
  /\ spent \in Budget

\* Something that will refetch a view, or fetch what it lacks, is on its way.
RefreshComing(v) ==
  \/ fetch[v] = "sent"
  \/ fetch[v] = "answered" /\ answer[v] = data[v]
  \/ \E t \in Topics : unsent[t] > 0 /\ v \in Concern[t]
  \/ conn # "mute" /\ \E i \in 1..Len(buffer) : v \in Concern[buffer[i]]
  \/ link # "up" \/ conn = "none"

\* RealtimeProvider.tsx:79-82, hub.go:25-27: although events carry nothing, are never
\* repeated, and are thrown away with a slow or broken connection, a view that
\* is out of date has a refresh coming, or its query has failed, or its event fell
\* into one of the five known holes: it joined a first load, it came before the
\* socket was registered or after its writer had returned, during a replay, or with
\* a topic mapped to other views.
StaleIsExplained ==
  \A v \in Views :
    cache[v] # data[v] => RefreshComing(v) \/ fetch[v] = "failed" \/ missed[v] # "none"

\* A picture that is out of date is brought up to date in the end, unless the query
\* failed or the event fell into one of those holes, whatever connections are lost.
ChangeIsShown ==
  \A v \in Views :
    cache[v] # data[v] ~> (cache[v] = data[v] \/ fetch[v] = "failed" \/ missed[v] # "none")

-----------------------------------------------------------------------------
(* The inductive invariant: an answer is no older than what it replaces.   *)

AnswerIsPast ==
  \A v \in Views :
    /\ cache[v] <= data[v]
    /\ fetch[v] = "answered" => cache[v] <= answer[v] /\ answer[v] <= data[v]

IInv == TypeOK /\ AnswerIsPast /\ StaleIsExplained
=============================================================================
