---------------------------- MODULE Explanations ----------------------------
(***************************************************************************)
(* Why a query was blocked: the notes that DNS workers leave about rules   *)
(* (observability), the rule_versions rows that the writer adds with the   *)
(* events, and the sweep that removes the rows no event refers to any more *)
(* (retention).                                                            *)
(*                                                                         *)
(* A rule stands for a rule number of one configuration generation of one  *)
(* boot; its text is the rule itself. The domain and client dictionaries   *)
(* are simpler: their rows come with an event and leave with the last one. *)
(***************************************************************************)
EXTENDS Integers, Sequences, FiniteSets, FiniteSetsExt, SequencesExt

CONSTANTS
  Rules, NoRule,
  Slot,          \* ruleSlot: the note a rule uses
  QueueLimit,    \* events between the workers and the writer
  ExpireLimit,   \* detail rows removed by one maintenance step
  SweepLimit,    \* rule rows examined by one maintenance step
  MaxEvents

Slots == Range(Slot)
None == -1   \* a key of storage_meta that is not there

VARIABLES
  notes,     \* rules of observability: the rule last noted in each slot
  waiting,   \* rules of the events the consumer has not written yet
  rows,      \* rule_versions by rowid
  events,    \* query_events, oldest first: number and rule
  expired,   \* how many of them the detail cutoff hides
  written,   \* events written so far
  cursor, end, revisit,   \* the persisted sweep
  pending    \* retention_pending

vars == <<notes, waiting, rows, events, expired, written, cursor, end, revisit, pending>>

Init ==
  /\ notes = [s \in Slots |-> NoRule] /\ waiting = <<>>
  /\ rows = <<>> /\ events = <<>> /\ expired = 0 /\ written = 0
  /\ cursor = None /\ end = None /\ revisit = None /\ pending = FALSE

\* observe and noteRule: a worker that does not get the lock leaves no note, and a
\* rule with the same slot replaces the note.
Observe(r) ==
  /\ Len(waiting) < QueueLimit /\ written + Len(waiting) < MaxEvents
  /\ waiting' = Append(waiting, r)
  /\ \/ notes' = [notes EXCEPT ![Slot[r]] = r]
     \/ UNCHANGED notes
  /\ UNCHANGED <<rows, events, expired, written, cursor, end, revisit, pending>>

(***************************************************************************)
(* Writing. The writer reads the note under its rule's slot and uses it    *)
(* only if it is still about that rule.                                    *)
(***************************************************************************)
\* Mistake: whatever is noted in the slot explains the event.
EnrichBlindly(r) == IF notes[Slot[r]] # NoRule THEN {[rule |-> r, text |-> notes[Slot[r]]]} ELSE {}

Enrich(r) == IF notes[Slot[r]] = r THEN {[rule |-> r, text |-> notes[Slot[r]]]} ELSE {}

MaxRow(R) == Max({0} \cup DOMAIN R)

RuleRows(R, r) == {i \in DOMAIN R : R[i].rule = r}

\* Mistake: rows added while a sweep is in progress are left to the next one.
NoteNothing(i) == revisit

\* A row that a sweep in progress has passed, or that lies beyond its end, makes it
\* go back.
NoteForSweep(i) ==
  IF cursor # None /\ end # None /\ (i <= cursor \/ i > end)
  THEN (IF revisit = None THEN i - 1 ELSE Min({revisit, i - 1}))
  ELSE revisit

\* WriteBatch for one event: first the rule, then the event unless it arrived after
\* its own expiry.
Write(late) ==
  LET r == Head(waiting)
      v == Enrich(r)
      i == MaxRow(rows) + 1
      adds == v # {} /\ RuleRows(rows, r) = {}
  IN /\ waiting # <<>>
     /\ waiting' = Tail(waiting) /\ written' = written + 1
     /\ rows' = IF adds THEN [k \in DOMAIN rows \cup {i} |-> IF k = i THEN CHOOSE x \in v : TRUE ELSE rows[k]] ELSE rows
     /\ revisit' = IF adds THEN NoteForSweep(i) ELSE revisit
     /\ events' = IF late THEN events ELSE Append(events, [id |-> written + 1, rule |-> r])
     /\ UNCHANGED <<notes, expired, cursor, end, pending>>

\* The batch failed or was dropped.
Lose ==
  /\ waiting # <<>> /\ waiting' = Tail(waiting) /\ written' = written + 1
  /\ UNCHANGED <<notes, rows, events, expired, cursor, end, revisit, pending>>

\* Time passes for the oldest event.
Expire ==
  /\ expired < Len(events) /\ expired' = expired + 1
  /\ UNCHANGED <<notes, waiting, rows, events, written, cursor, end, revisit, pending>>

(***************************************************************************)
(* Retain, one transaction: expired events go, with the rules only they    *)
(* referred to; then the sweep examines the next rows.                     *)
(***************************************************************************)
Referred(E) == {E[i].rule : i \in DOMAIN E}

Without(R, S) == [i \in DOMAIN R \ S |-> R[i]]

Orphans(R, E) == {i \in DOMAIN R : R[i].rule \notin Referred(E)}

ExpireDetails(R, gone, E) == Without(R, {i \in Orphans(R, E) : R[i].rule \in Referred(gone)})

Lowest(S, n) == {i \in S : Cardinality({j \in S : j < i}) < n}

\* sweepOrphans: where the sweep stands after examining some rows, what it removes,
\* and whether it has to go on.
Sweep(R, E) ==
  LET fresh  == cursor = None \/ end = None
      c      == IF fresh THEN 0 ELSE cursor
      e      == IF fresh THEN MaxRow(R) ELSE end
      seen   == Lowest({i \in DOMAIN R : c < i /\ i <= e}, SweepLimit)
      next   == IF c >= e THEN c ELSE IF seen = {} THEN e ELSE Max(seen)
      kept   == Without(R, {i \in Orphans(R, E) : c < i /\ i <= next})
      again  == next >= e /\ revisit # None
      e2     == IF again THEN MaxRow(kept) ELSE e
      c2     == IF again THEN Min({next, revisit, e2}) ELSE next
  IN [rows |-> kept, cursor |-> c2, end |-> e2,
      revisit |-> IF again THEN None ELSE revisit, more |-> c2 < e2]

Retain ==
  LET n    == Min({expired, ExpireLimit})
      gone == SubSeq(events, 1, n)
      E    == SubSeq(events, n + 1, Len(events))
      S    == Sweep(ExpireDetails(rows, gone, E), E)
      more == expired > n \/ S.more
  IN /\ events' = E /\ expired' = expired - n
     /\ rows' = S.rows /\ pending' = more
     /\ cursor' = IF more THEN S.cursor ELSE None
     /\ end' = IF more THEN S.end ELSE None
     /\ revisit' = IF more THEN S.revisit ELSE None
     /\ UNCHANGED <<notes, waiting, written>>

\* A maintenance step that fails changes nothing and is tried again.
RetainFails ==
  /\ ~pending /\ pending' = TRUE
  /\ UNCHANGED <<notes, waiting, rows, events, expired, written, cursor, end, revisit>>

Next == \/ \E r \in Rules : Observe(r)
        \/ \E late \in BOOLEAN : Write(late)
        \/ Lose \/ Expire \/ Retain \/ RetainFails

Spec == Init /\ [][Next]_vars

(***************************************************************************)
(* Properties.                                                             *)
(***************************************************************************)
\* The texts that a query of an event's detail shows: none or one.
Texts(R, r) == {R[i].text : i \in RuleRows(R, r)}

\* An event is only ever explained by its own rule, and an explanation, once there,
\* stays as long as the event (noteRule, enrich, WriteBatch, expireDetails, sweepOrphans).
ExplanationStays ==
  [][\A i \in DOMAIN events, j \in DOMAIN events' : events[i].id = events'[j].id =>
       LET r == events[i].rule IN
       Texts(rows, r) \subseteq Texts(rows', r) /\ Texts(rows', r) \subseteq {r}]_vars

\* Maintenance that reports no backlog has left no rule without an event, also when
\* rules were added behind the sweep while it ran (Retain, noteRuleForSweep).
SweepLeavesNothing == [][Retain /\ ~pending' => Orphans(rows', events') = {}]_vars

=============================================================================
