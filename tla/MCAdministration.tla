--------------------------- MODULE MCAdministration ---------------------------
(***************************************************************************)
(* Small instances of what Administration has. History has two tiers, so   *)
(* that a window has edges in two finer levels. They share no state their  *)
(* properties look at, so one of them is explored at a time: part says     *)
(* which.                                                                  *)
(***************************************************************************)
EXTENDS Administration

SmallWidths == <<2, 4>>
SmallRetentions == {0 :> 2 @@ 1 :> 1 @@ 2 :> 3}

\* Two rules share a slot of the notes.
CONSTANTS r1, r2, r3
BlockingRules == {r1, r2, r3}
RuleSlot == r1 :> 1 @@ r2 :> 1 @@ r3 :> 2

(***************************** names of clients ****************************)

Version(scope, multicast, resolves, overrides) ==
  [scope |-> scope, mdns |-> multicast, overrides |-> overrides, local |-> <<>>, resolves |-> resolves,
   leases |-> {[address |-> 1, name |-> "host-1", generic |-> TRUE, expires |-> 1]}]

Advert(label, rank, detail) == [host |-> "h", label |-> label, rank |-> rank, detail |-> detail]

Plan(room, adverts, versions) == [queue |-> room, adverts |-> adverts, views |-> versions]

\* The scope changes and comes back; an override appears; the worker and multicast compete.
NamePlans == {
  Plan(0, {Advert("h", 2, ""), Advert("tv", 4, "lcd")},
       <<Version("s", TRUE, FALSE, <<>>), Version("t", FALSE, FALSE, <<>>), Version("s", TRUE, FALSE, <<>>)>>),
  Plan(1, {},
       <<Version("u", FALSE, TRUE, <<>>), Version("u", FALSE, TRUE, 1 :> "mine"), Version("t", FALSE, FALSE, <<>>)>>),
  Plan(1, {Advert("tv", 4, "lcd")}, <<Version("s", TRUE, TRUE, <<>>)>>)}

(******************************* one at a time *****************************)

VARIABLE part

\* The hashes are alike, so one of them comes first.
MCInit ==
  /\ part \in {"history", "explanations", "pages", "names", "sessions", "tokens"}
  /\ Init /\ (part # "history" => open)
  /\ EX!Init /\ PG!Init
  /\ CN!Init /\ (part # "names" => plan = CHOOSE p \in NamePlans : TRUE)
  /\ AS!Init /\ hash = CHOOSE h \in Hashes : TRUE
  /\ AT!Init

views == <<explanations, pages, names>>

MCNext ==
  \/ part = "history" /\ Next /\ UNCHANGED <<part, views, credentials, tokens>>
  \/ part = "explanations" /\ EX!Next /\ UNCHANGED <<part, vars, pages, names, credentials, tokens>>
  \/ part = "pages" /\ PG!Next /\ UNCHANGED <<part, vars, explanations, names, credentials, tokens>>
  \/ part = "names" /\ CN!Next /\ UNCHANGED <<part, vars, explanations, pages, credentials, tokens>>
  \/ part = "sessions" /\ AS!Next /\ UNCHANGED <<part, vars, views, tokens>>
  \/ part = "tokens" /\ AT!Next /\ UNCHANGED <<part, vars, views, credentials>>

MCSpec == MCInit /\ [][MCNext]_<<part, vars, views, credentials, tokens>>
===============================================================================
