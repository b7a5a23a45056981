------------------------------- MODULE Policy -------------------------------
(***************************************************************************)
(* The rules that decide about a name (policy): compilation into an exact  *)
(* index, a suffix index and a list of the other forms; one immutable set  *)
(* of subscription rules under an overlay of the owner's rules; views that *)
(* select the sources and the owner scopes of one device.                  *)
(*                                                                         *)
(* A name is the sequence of its labels. A rule of the other forms         *)
(* (wildcard, glob, regex) carries the set of names it matches. Budgets    *)
(* for bytes and regular expressions only refuse a configuration and are   *)
(* left out.                                                               *)
(***************************************************************************)
EXTENDS Integers, Sequences, FiniteSets, FiniteSetsExt, SequencesExt

CONSTANTS
  Names,       \* the names rules are matched against
  Hash         \* hash of a name in the exact index

\* rank: the order of the classes.
Classes == <<"custom-allow", "custom-deny", "subscription-allow", "subscription-deny", "special-deny">>

Rank(r) == CHOOSE i \in 1..5 : Classes[i] = r.class

Subscribed(r) == r.class \in {"subscription-allow", "subscription-deny"}

ScopeRank(r) == CASE r.scope = "client" -> 2 [] r.scope = "profile" -> 1 [] OTHER -> 0

\* Only exact and suffix rules are more or less specific.
Score(r) ==
  CASE r.kind = "exact" -> 2 * Len(r.name) + 1
    [] r.kind = "suffix" -> 2 * Len(r.name)
    [] OTHER -> 0

(***************************************************************************)
(* The exact index: open addressing with linear probing. A slot holds a    *)
(* key and the rules with that key, the last one first.                    *)
(***************************************************************************)
Free == [key |-> <<>>, chain |-> <<>>]

\* The first slot of the probe that is free or has the key.
Probe(slots, n) ==
  LET size == Cardinality(DOMAIN slots)
      at(d) == (Hash[n] + d) % size
      found == {d \in 0..(size - 1) : slots[at(d)] = Free \/ slots[at(d)].key = n}
  IN at(Min(found))

Insert(slots, n, i) == [slots EXCEPT ![Probe(slots, n)] = [key |-> n, chain |-> <<i>> \o @.chain]]

FindExact(slots, n) == IF DOMAIN slots = {} THEN <<>> ELSE slots[Probe(slots, n)].chain

\* Slots for a load of seventy percent.
SlotCount(n) == (n * 100 + 69) \div 70

Indices(rules, kind) == {i \in DOMAIN rules : rules[i].kind = kind}

ExactIndex(rules) ==
  LET E == SetToSortSeq(Indices(rules, "exact"), <)
      empty == [s \in 0..(SlotCount(Len(E)) - 1) |-> Free]
  IN FoldLeft(LAMBDA slots, i : Insert(slots, rules[i].name, i), empty, E)

\* The suffix index: sorted keys found by bisection, the rules of equal keys chained.
SuffixIndex(rules) ==
  [n \in {rules[i].name : i \in Indices(rules, "suffix")} |->
     SetToSeq({i \in Indices(rules, "suffix") : rules[i].name = n})]

\* A view of a flat set of rules for everybody, before a selection.
Everyone == [profile |-> "", client |-> "", all |-> TRUE, sources |-> {}]

Snapshot(rules) ==
  [rules |-> rules, exact |-> ExactIndex(rules), suffix |-> SuffixIndex(rules),
   fallback |-> Indices(rules, "other")]

Eligible(r, sel) ==
  /\ r.scope = "client" => r.owner = sel.client
  /\ r.scope = "profile" => r.owner = sel.profile
  /\ sel.all \/ ~Subscribed(r) \/ r.source \in sel.sources

\* WithSelection: the view remembers whether any other form can match at all.
HasFallback(s, sel) == \E i \in s.fallback : Eligible(s.rules[i], sel)

View(owner, base, sel) ==
  [own |-> Snapshot(owner), base |-> Snapshot(base), sel |-> sel,
   fallback |-> HasFallback(Snapshot(owner), sel),
   baseFallback |-> HasFallback(Snapshot(base), sel)]

(***************************************************************************)
(* Matching. The numbers of the rules the indexes yield, then the best of  *)
(* them: scope, class, specificity, identity.                              *)
(***************************************************************************)
Ancestors(n) == {SubSeq(n, k, Len(n)) : k \in 1..Len(n)}

Visited(s, n, sel, fallback) ==
  {i \in ToSet(FindExact(s.exact, n))
         \cup UNION {ToSet(s.suffix[x]) : x \in Ancestors(n) \cap DOMAIN s.suffix}
         \cup (IF fallback THEN {i \in s.fallback : n \in s.rules[i].names} ELSE {})
     : Eligible(s.rules[i], sel)}

Better(r, w) ==
  \/ ScopeRank(r) > ScopeRank(w)
  \/ /\ ScopeRank(r) = ScopeRank(w)
     /\ \/ Rank(r) < Rank(w)
        \/ /\ Rank(r) = Rank(w)
           /\ Score(r) > Score(w) \/ (Score(r) = Score(w) /\ r.id < w.id)

\* The winning one of some rules, none of none; identities differ.
Best(rules, I) == {i \in I : \A j \in I \ {i} : Better(rules[i], rules[j])}

MatchSelected(s, n, sel, fallback) == Best(s.rules, Visited(s, n, sel, fallback))

\* matchOverlay: rules of the base are numbered after the owner's.
Rules(v) == v.own.rules \o v.base.rules

Match(v, n) ==
  Best(Rules(v), MatchSelected(v.own, n, v.sel, v.fallback)
                 \cup {i + Len(v.own.rules) : i \in MatchSelected(v.base, n, v.sel, v.baseFallback)})

\* RuleAt: the rules of numbers.
RuleAt(v, I) == {Rules(v)[i] : i \in I}

Result(R) ==
  IF R = {} THEN "forward"
  ELSE IF \E r \in R : r.class \in {"custom-allow", "subscription-allow"} THEN "allow" ELSE "block"

\* EvaluateNumber: a pause and an allowed question come before the name of an alias.
Evaluate(v, original, n, paused) ==
  LET verdict(x) == LET R == RuleAt(v, Match(v, x)) IN [result |-> Result(R), rule |-> R]
      own == verdict(original)
  IN IF paused THEN [result |-> "paused", rule |-> {}]
     ELSE IF n # original /\ own.result = "allow" THEN own ELSE verdict(n)

(***************************************************************************)
(* The reference: Matcher looks at every rule.                             *)
(***************************************************************************)
Matches(r, n) ==
  CASE r.kind = "exact" -> n = r.name
    [] r.kind = "suffix" -> r.name \in Ancestors(n)
    [] OTHER -> n \in r.names

Reference(R, sel, n) ==
  LET M == {r \in R : Eligible(r, sel) /\ Matches(r, n)} IN
  {r \in M : \A w \in M \ {r} : Better(r, w)}
=============================================================================
