---------------------------- MODULE HistoryPages ----------------------------
(***************************************************************************)
(* Paging through query_events (storage.Query): newest first, a few rows   *)
(* at a time, while the writer inserts rows and retention hides old ones.  *)
(* Rows get growing ids, and any timestamp: a delayed query is inserted    *)
(* behind rows that were shown already.                                    *)
(***************************************************************************)
EXTENDS Integers, FiniteSets, FiniteSetsExt

CONSTANTS Limit, MaxTime, MaxRows

VARIABLES
  rows,     \* retained rows: id and ts
  inserted, \* ids given so far
  cutoff,   \* detail_cutoff
  cursor,   \* the client's place: none, the last row shown with the ceiling, or done
  shown,    \* rows the client was shown
  first     \* rows that were there for the first page

vars == <<rows, inserted, cutoff, cursor, shown, first>>

NoCursor == [kind |-> "none"]
Done == [kind |-> "done"]

Init == rows = {} /\ inserted = 0 /\ cutoff = 0 /\ cursor = NoCursor /\ shown = {} /\ first = {}

Insert(ts) ==
  /\ inserted < MaxRows /\ ts >= cutoff
  /\ inserted' = inserted + 1
  /\ rows' = rows \cup {[id |-> inserted + 1, ts |-> ts]}
  /\ UNCHANGED <<cutoff, cursor, shown, first>>

\* The cutoff hides rows at once; they are removed later.
Expire ==
  /\ cutoff < MaxTime /\ cutoff' = cutoff + 1
  /\ \/ UNCHANGED rows
     \/ rows' = {r \in rows : r.ts >= cutoff'}
  /\ UNCHANGED <<inserted, cursor, shown, first>>

Older(r, s) == r.ts < s.ts \/ (r.ts = s.ts /\ r.id < s.id)

Visible == {r \in rows : r.ts >= cutoff}

Ceiling == IF cursor = NoCursor THEN Max({0} \cup {r.id : r \in rows}) ELSE cursor.ceiling

\* Mistake: later pages see what was inserted after the first.
MatchingNow == {r \in Visible : cursor # NoCursor => Older(r, cursor.last)}

Matching == {r \in Visible : r.id <= Ceiling /\ (cursor # NoCursor => Older(r, cursor.last))}

Newest(S, n) == {r \in S : Cardinality({s \in S : Older(r, s)}) < n}

Page ==
  LET page == Newest(Matching, Limit) IN
  /\ cursor # Done
  /\ shown' = shown \cup page
  /\ first' = IF cursor = NoCursor THEN Visible ELSE first
  /\ cursor' = IF Cardinality(Matching) > Limit
               THEN [kind |-> "at", ceiling |-> Ceiling,
                     last |-> CHOOSE r \in page : \A s \in page : ~Older(s, r)]
               ELSE Done
  /\ UNCHANGED <<rows, inserted, cutoff>>

Next == (\E ts \in 0..MaxTime : Insert(ts)) \/ Expire \/ Page

Spec == Init /\ [][Next]_vars

\* The pages show what was there for the first one and leave out only
\* what expired in between (Query and its cursor).
PagesExact ==
  /\ shown \subseteq first
  /\ cursor = Done => \A r \in first : r \in shown \/ r.ts < cutoff

=============================================================================
