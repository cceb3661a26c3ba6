------------------------------- MODULE Listing -------------------------------
(***************************************************************************)
(* The list queries, and a client that walks through the pages of one.     *)
(*                                                                         *)
(* A list is its WHERE and its ORDER BY; LIMIT and OFFSET cut a page out   *)
(* of it, and a second statement counts it.  Nothing holds the rows still  *)
(* between two requests, or between the two statements of one.  The        *)
(* direction of an order and the values of the columns are left out; a     *)
(* column is kept for what happens to it between two requests.             *)
(***************************************************************************)
EXTENDS Integers, FiniteSets

CONSTANTS DefaultLimit, MaxLimit,
          MaxRows, Ranks     \* bounds of the model: rows, values of the order column

ASSUME ListingAssumption ==
  /\ DefaultLimit \in Nat \ {0} /\ MaxLimit \in Nat \ {0} /\ DefaultLimit <= MaxLimit
  /\ MaxRows \in Nat
  /\ Ranks \subseteq Nat /\ IsFiniteSet(Ranks)

-----------------------------------------------------------------------------
(* The queries                                                             *)

Counted == TRUE

\* WHERE filter ORDER BY order, id comes last where ties are broken; Counted when a
\* second query gives the total, which is the size of the page otherwise.
Query(filter, order, counted) == [filter |-> filter, order |-> order, counted |-> counted]

ListAlerts               == Query({"state", "severity", "track_id", "incident_id"},
                                  {"created_at"}, Counted)
ListAlertsByIncident     == Query({"incident_id"}, {"created_at"}, ~Counted)
ListAssessments          == Query({"subject_type", "subject_id"}, {"created_at"}, Counted)
ListAssets               == Query({}, {"created_at"}, Counted)
ListAssetsWithState      == Query({}, {"name"}, Counted)
ListAuditEvents          == Query({"subject_type", "subject_id", "action", "since"},
                                  {"occurred_at", "id"}, Counted)
ListClassificationsByTrack == Query({"track_id"}, {"created_at"}, ~Counted)
ListCommands             == Query({"asset_id", "state", "mission_id"}, {"created_at"}, Counted)
ListGeofences            == Query({}, {"created_at"}, Counted)
ListIncidents            == Query({"status"}, {"created_at"}, Counted)
ListMissions             == Query({"status"}, {"created_at"}, Counted)
ListMissionsForAsset     == Query({"asset_id"}, {"created_at"}, ~Counted)
ListMissionTasks         == Query({"mission_id"}, {"created_at"}, ~Counted)
ListObservations         == Query({}, {"observed_at", "id"}, Counted)
ListObservationsByTrack  == Query({"track_id"}, {"observed_at", "id"}, Counted)
ListAreaObservations     == Query({"area_kind"}, {"observed_at", "id"}, Counted)
ListOperators            == Query({}, {"created_at", "id"}, ~Counted)
ListScenarioRuns         == Query({}, {"started_at"}, Counted)
ListSources              == Query({}, {"created_at"}, Counted)
ListTelemetryByAsset     == Query({"asset_id"}, {"observed_at", "id"}, Counted)
ListTrackDetails         == Query({}, {"last_seen_at"}, Counted)

Lists == {ListAlerts, ListAssessments, ListAssetsWithState, ListAuditEvents,
          ListClassificationsByTrack, ListCommands, ListGeofences, ListIncidents, ListMissions,
          ListObservations, ListObservationsByTrack, ListAreaObservations, ListOperators,
          ListScenarioRuns, ListSources, ListTelemetryByAsset, ListTrackDetails}

\* What a query is to a client that walks through it: state, status and incident_id
\* change under it, and last_seen_at moves a row.
Shape(q) == [leaves |-> q.filter \cap {"state", "status", "incident_id"} # {},
             moves  |-> "last_seen_at" \in q.order,
             total  |-> "id" \in q.order,
             counted |-> q.counted]

\* ORDER BY, of two rows; without id it decides nothing between two equal ones.
Before(q, r, s) == r.rank > s.rank \/ (q.total /\ r.rank = s.rank /\ r.id > s.id)

Least(a, b) == IF a < b THEN a ELSE b

\* What the first n rows of the list may be.
Prefixes(q, table, n) ==
  {p \in SUBSET table : /\ Cardinality(p) = Least(n, Cardinality(table))
                        /\ \A r \in p, s \in table \ p : ~Before(q, s, r)}

PagesOfAnyOrder(q, table, limit, offset) ==
  {p \in SUBSET table : Cardinality(p) <= limit /\ Cardinality(p) + offset <= Cardinality(table)}

\* LIMIT limit OFFSET offset
Pages(q, table, limit, offset) ==
  {b[2] \ b[1] : b \in {c \in Prefixes(q, table, offset) \X Prefixes(q, table, offset + limit) :
                          c[1] \subseteq c[2]}}

\* clampLimit, and offset < 0 -> 0
ClampLimit(limit) == IF limit <= 0 THEN DefaultLimit ELSE Least(limit, MaxLimit)
ClampOffset(offset) == IF offset < 0 THEN 0 ELSE offset

-----------------------------------------------------------------------------
(* The walk                                                                *)

VARIABLES
  table,    \* the rows the filter matches
  inserted,
  left,     \* a row left the list, or moved in it, since the walk began
  walk

listing == <<table, inserted, left, walk>>

Row == [id : 1..MaxRows, rank : Ranks]
Shapes == {Shape(q) : q \in Lists}

AtRest == [pc |-> "rest", shape |-> Shape(ListSources), limit |-> 1, offset |-> 0, start |-> {},
           page |-> {}, seen |-> {}, total |-> 0]

ListingInit == table = {} /\ inserted = 0 /\ left = FALSE /\ walk = AtRest

\* created_at is the start of the statement and observed_at comes from outside: a row
\* may be added anywhere.
Insert(rank) ==
  /\ inserted < MaxRows
  /\ inserted' = inserted + 1
  /\ table' = table \cup {[id |-> inserted + 1, rank |-> rank]}
  /\ UNCHANGED <<left, walk>>

\* The row no longer matches.
Leave(r) ==
  /\ walk.pc # "rest" /\ walk.shape.leaves
  /\ table' = table \ {r}
  /\ left' = TRUE
  /\ UNCHANGED <<inserted, walk>>

\* last_seen_at only grows.
Move(r, rank) ==
  /\ walk.pc # "rest" /\ walk.shape.moves
  /\ rank > r.rank
  /\ table' = (table \ {r}) \cup {[r EXCEPT !.rank = rank]}
  /\ left' = TRUE
  /\ UNCHANGED <<inserted, walk>>

Walk(q, limit, offset) ==
  /\ walk.pc = "rest"
  /\ walk' = [AtRest EXCEPT !.pc = "read", !.shape = q, !.limit = ClampLimit(limit),
                            !.offset = ClampOffset(offset), !.start = table]
  /\ UNCHANGED <<table, inserted, left>>

ReadPage ==
  /\ walk.pc = "read"
  /\ \E p \in Pages(walk.shape, table, walk.limit, walk.offset) :
       walk' = [walk EXCEPT !.pc = "count", !.page = p]
  /\ UNCHANGED <<table, inserted, left>>

\* The total is counted by a statement of its own; the client goes on after the rows
\* it got, and ends at an empty page.
CountRows ==
  /\ walk.pc = "count"
  /\ walk' = [walk EXCEPT !.pc = IF walk.page = {} THEN "end" ELSE "read",
                          !.seen = walk.seen \cup walk.page,
                          !.offset = walk.offset + Cardinality(walk.page),
                          !.total = IF walk.shape.counted THEN Cardinality(table)
                                    ELSE Cardinality(walk.page)]
  /\ UNCHANGED <<table, inserted, left>>

ListingNext ==
  \/ \E rank \in Ranks : Insert(rank)
  \/ \E r \in table : Leave(r) \/ \E rank \in Ranks : Move(r, rank)
  \/ \E q \in Shapes, limit \in {0, 1, MaxLimit + 1}, offset \in {-1, 0} : Walk(q, limit, offset)
  \/ ReadPage
  \/ CountRows

-----------------------------------------------------------------------------
(* dbgen ListAlerts, ListTrackDetails, ...: a client that walks through a  *)
(* list to its end meets every row that was there when it began and stayed *)
(* in its place, whatever is inserted meanwhile, unless a row left or      *)
(* moved, or the row ties with another and the ORDER BY does not break     *)
(* ties; and a total it was told is never behind the rows it was shown     *)
(* unless a row left.                                                      *)
Paging ==
  /\ walk.pc = "end" /\ ~left =>
       \A r \in walk.start \ walk.seen :
         ~walk.shape.total /\ \E s \in table \ {r} : s.rank = r.rank
  /\ walk.pc = "read" /\ walk.shape.counted /\ ~left => walk.offset <= walk.total
=============================================================================
