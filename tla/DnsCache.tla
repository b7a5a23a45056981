------------------------------ MODULE DnsCache ------------------------------
(***************************************************************************)
(* One shard of the answer cache (dnscache): buckets of a few slots, an    *)
(* arena of fixed blocks with a bitmap and a search cursor, second-chance  *)
(* eviction with one rotating hand. All operations run under the mutex of  *)
(* the shard. A lookup is one step. The loops of put are taken a turn at a *)
(* time: put is the one that holds the mutex, and while it does nothing    *)
(* but the clock moves.                                                    *)
(*                                                                         *)
(* A key stands for the complete identity of a question (route, generation *)
(* and wire form); its message is abstracted to a version and the number   *)
(* of blocks it needs. Time is counted in seconds.                         *)
(***************************************************************************)
EXTENDS Integers, FiniteSets, FiniteSetsExt

CONSTANTS
  Keys,        \* questions
  Buckets,     \* number of buckets
  Ways,        \* slots of a bucket
  Bucket,      \* the bucket a key hashes to
  Blocks,      \* blocks of the arena
  Sizes,       \* blocks an answer may need
  Lifetimes,   \* seconds an answer is fresh
  MaxStale,    \* seconds an expired positive answer may still be used
  MaxTime,     \* bound on the clock
  MaxVersion   \* bound on the number of answers stored

ASSUME CacheAssumption ==
  /\ {Buckets, Ways, Blocks} \subseteq Nat \ {0}
  /\ Bucket \in [Keys -> 0 .. (Buckets - 1)]
  /\ Sizes \subseteq Nat \ {0} /\ Lifetimes \subseteq Nat
  /\ {MaxStale, MaxTime, MaxVersion} \subseteq Nat

VARIABLES
  slots,       \* 0-based table of slots, NoSlot where free
  used,        \* blocks the bitmap marks
  hand,        \* the hand of CLOCK
  cursor,      \* where the search for free blocks starts
  entries, occupied,  \* statistics
  now,
  version,     \* the last answer stored
  put          \* the put under way: what it stores, where, and the turns left of its loop

vars == <<slots, used, hand, cursor, entries, occupied, now, version, put>>

SlotIds == 0 .. (Buckets * Ways - 1)
NoSlot == [key |-> "", first |-> 0, count |-> 0, inserted |-> 0, lifetime |-> 0,
           negative |-> FALSE, referenced |-> FALSE, version |-> 0]
NoPut == [at |-> "none", key |-> "", need |-> 0, lifetime |-> 0, negative |-> FALSE,
          time |-> 0, target |-> -1, left |-> 0]

Init ==
  /\ slots = [i \in SlotIds |-> NoSlot]
  /\ used = {} /\ hand = 0 /\ cursor = 0 /\ entries = 0 /\ occupied = 0
  /\ now = 0 /\ version = 0 /\ put = NoPut

InUse(i) == slots[i].count > 0
BlocksOf(x) == x.first .. (x.first + x.count - 1)
BucketOf(k) == (Bucket[k] * Ways) .. (Bucket[k] * Ways + Ways - 1)

Remove(i) ==
  IF ~InUse(i) THEN UNCHANGED <<slots, used, occupied, entries>>
  ELSE /\ slots' = [slots EXCEPT ![i] = NoSlot]
       /\ used' = used \ BlocksOf(slots[i])
       /\ occupied' = occupied - slots[i].count
       /\ entries' = entries - 1

\* The first run of free blocks in one stretch of the arena, or nothing.
FreeRun(need, start, end) ==
  LET fits == {f \in start .. (end - need) : (f .. (f + need - 1)) \cap used = {}}
  IN IF fits = {} THEN {} ELSE {Min(fits)}

\* allocate: from the cursor, then up to it, then once more from zero.
FirstFit(need) ==
  LET a == FreeRun(need, cursor, Blocks)
      b == FreeRun(need, 0, cursor)
      c == FreeRun(need, 0, Blocks)
  IN IF a # {} THEN a ELSE IF b # {} THEN b ELSE c

Advance == hand' = (hand + 1) % (Buckets * Ways)

\* A referenced slot that the hand passes gets a second chance.
Spare(i) ==
  /\ slots' = [slots EXCEPT ![i].referenced = FALSE]
  /\ UNCHANGED <<used, occupied, entries>>

Found(k) == {i \in BucketOf(k) : InUse(i) /\ slots[i].key = k}

\* Mistake: a free slot is taken although the key has a slot already.
TargetFree(k) ==
  LET free == {i \in BucketOf(k) : ~InUse(i)}
  IN IF free # {} THEN {Max(free)} ELSE IF Found(k) # {} THEN {Min(Found(k))} ELSE {}

\* Where a key goes: its own slot, the last free slot, or nowhere yet.
Target(k) ==
  LET free == {i \in BucketOf(k) : ~InUse(i)}
  IN IF Found(k) # {} THEN {Min(Found(k))} ELSE IF free # {} THEN {Max(free)} ELSE {}

\* Put of a message that fits the arena: it looks for a slot, which is emptied.
Put(k, need, lifetime, negative) ==
  /\ put.at = "none" /\ version < MaxVersion /\ need <= Blocks
  /\ LET p == [at |-> "room", key |-> k, need |-> need, lifetime |-> lifetime, negative |-> negative,
               time |-> now, target |-> -1, left |-> 0]
     IN IF Target(k) = {}
        THEN /\ put' = [p EXCEPT !.at = "clock", !.left = 2 * Ways]
             /\ UNCHANGED <<slots, used, occupied, entries>>
        ELSE \E i \in Target(k) : put' = [p EXCEPT !.target = i] /\ Remove(i)
  /\ UNCHANGED <<hand, cursor, now, version>>

\* Mistake: the slot of a victim is reused before its blocks are returned.
SecondChanceKeeps ==
  /\ put.at = "clock"
  /\ put' = [put EXCEPT !.at = "room", !.target = Bucket[put.key] * Ways + (hand % Ways), !.left = 0]
  /\ Advance
  /\ UNCHANGED <<slots, used, occupied, entries, cursor, now, version>>

\* A turn of the loop over a full bucket: a slot loses its answer, or its reference.
SecondChance ==
  LET i == Bucket[put.key] * Ways + (hand % Ways) IN
  /\ put.at = "clock"
  /\ IF slots[i].referenced
     THEN Spare(i) /\ put' = [put EXCEPT !.at = IF put.left > 1 THEN "clock" ELSE "room", !.left = @ - 1]
     ELSE Remove(i) /\ put' = [put EXCEPT !.at = "room", !.target = i, !.left = 0]
  /\ Advance
  /\ UNCHANGED <<cursor, now, version>>

\* There is room: the answer goes there, and put returns.
Store ==
  /\ put.at = "room"
  /\ \E first \in FirstFit(put.need) :
       /\ slots' = [slots EXCEPT ![put.target] =
            [key |-> put.key, first |-> first, count |-> put.need, inserted |-> put.time,
             lifetime |-> put.lifetime, negative |-> put.negative, referenced |-> TRUE, version |-> version + 1]]
       /\ used' = used \cup (first .. (first + put.need - 1))
       /\ cursor' = (first + put.need) % Blocks
  /\ occupied' = occupied + put.need /\ entries' = entries + 1
  /\ version' = version + 1 /\ put' = NoPut
  /\ UNCHANGED <<hand, now>>

\* There is none, and something must go.
NoRoom ==
  /\ put.at = "room" /\ FirstFit(put.need) = {}
  /\ cursor' = 0 /\ put' = [put EXCEPT !.at = "evict", !.left = 2 * Buckets * Ways]
  /\ UNCHANGED <<slots, used, hand, entries, occupied, now, version>>

\* A turn of evict, the same over the whole table; put gives up when all turns are taken.
Evict ==
  LET passed == IF put.left > 1 THEN [put EXCEPT !.left = @ - 1] ELSE NoPut IN
  /\ put.at = "evict"
  /\ IF ~InUse(hand) THEN put' = passed /\ UNCHANGED <<slots, used, occupied, entries>>
     ELSE IF slots[hand].referenced THEN put' = passed /\ Spare(hand)
     ELSE put' = [put EXCEPT !.at = "room", !.left = 0] /\ Remove(hand)
  /\ Advance
  /\ UNCHANGED <<cursor, now, version>>

\* lookup: what a hit returns, nothing on a miss.
Hit(k) ==
  LET x == slots[Min(Found(k))]
      stale == now >= x.inserted + x.lifetime
      dead == stale /\ (x.negative \/ now - (x.inserted + x.lifetime) >= MaxStale)
  IN IF Found(k) = {} \/ dead THEN {} ELSE {[version |-> x.version, stale |-> stale]}

\* A hit is referenced, an answer that is too old is removed.
Lookup(k) ==
  /\ put.at = "none" /\ Found(k) # {}
  /\ LET i == Min(Found(k)) IN
     IF Hit(k) # {}
     THEN slots' = [slots EXCEPT ![i].referenced = TRUE] /\ UNCHANGED <<used, occupied, entries>>
     ELSE Remove(i)
  /\ UNCHANGED <<hand, cursor, now, version, put>>

Tick == now < MaxTime /\ now' = now + 1 /\ UNCHANGED <<slots, used, hand, cursor, entries, occupied, version, put>>

Next ==
  \/ \E k \in Keys, n \in Sizes, t \in Lifetimes, neg \in BOOLEAN : Put(k, n, t, neg)
  \/ SecondChance \/ Store \/ NoRoom \/ Evict
  \/ \E k \in Keys : Lookup(k)
  \/ Tick

Spec == Init /\ [][Next]_vars

Slot == [key : Keys \cup {""}, first : Nat, count : Nat, inserted : Nat, lifetime : Nat,
         negative : BOOLEAN, referenced : BOOLEAN, version : Nat]

Puts == [at : {"none", "clock", "room", "evict"}, key : Keys \cup {""}, need : Nat, lifetime : Nat,
         negative : BOOLEAN, time : Nat, target : SlotIds \cup {-1}, left : Nat]

TypeOK ==
  /\ slots \in [SlotIds -> Slot] /\ used \subseteq 0 .. (Blocks - 1)
  /\ hand \in SlotIds /\ cursor \in 0 .. (Blocks - 1) /\ entries \in Nat /\ occupied \in Nat
  /\ now \in Nat /\ version \in Nat /\ put \in Puts

(***************************************************************************)
(* Whatever was replaced, evicted or expired before, no block of the arena *)
(* is shared by two answers, none is marked that nobody owns, and the      *)
(* statistics count the answers there are (allocate, remove, evict).       *)
(***************************************************************************)
ArenaExact ==
  LET live == {i \in SlotIds : InUse(i)} IN
  /\ \A i, j \in live : i # j => BlocksOf(slots[i]) \cap BlocksOf(slots[j]) = {}
  /\ used = UNION {BlocksOf(slots[i]) : i \in live}
  /\ used \subseteq 0 .. (Blocks - 1)
  /\ entries = Cardinality(live) /\ occupied = Cardinality(used)

\* The answer of each question; 0, which AnswerCache never stores, for a question in two slots.
Stored ==
  [k \in {j \in Keys : Found(j) # {}} |-> IF Cardinality(Found(k)) = 1 THEN slots[Min(Found(k))].version ELSE 0]

Abstract == INSTANCE AnswerCache WITH stored <- Stored, newest <- version

(***************************************************************************)
(* The shard implements AnswerCache: a question keeps one answer, the last *)
(* one stored, until it is forgotten; eviction, expiry and second chances  *)
(* never bring an older answer back or mix two up (put, lookup, evict).    *)
(***************************************************************************)
ImplementsAnswerCache == Abstract!Spec
=============================================================================
