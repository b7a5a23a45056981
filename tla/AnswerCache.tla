----------------------------- MODULE AnswerCache -----------------------------
(***************************************************************************)
(* What the answer cache promises the resolver: at most one answer per     *)
(* question, the last one stored for it, which may be forgotten at any     *)
(* time to make room but never changes and never comes back. Answers are   *)
(* numbered in the order in which they are stored.                         *)
(***************************************************************************)
EXTENDS Naturals

CONSTANTS
  Keys         \* questions

VARIABLES
  stored,      \* the number of the answer, for the questions that have one
  newest       \* the answer stored last

\* The answers of other questions than those in K stay or are forgotten.
OthersKept(K) ==
  /\ DOMAIN stored' \ K \subseteq DOMAIN stored
  /\ \A k \in DOMAIN stored' \ K : stored'[k] = stored[k]

Init == stored = <<>> /\ newest = 0

Store(k) ==
  /\ newest' = newest + 1
  /\ k \in DOMAIN stored' /\ stored'[k] = newest'
  /\ OthersKept({k})

Forget == OthersKept({}) /\ UNCHANGED newest

Next == Forget \/ \E k \in Keys : Store(k)

Spec == Init /\ [][Next]_<<stored, newest>>
==============================================================================
