-------------------------- MODULE ResolutionProofs --------------------------
(***************************************************************************)
(* Proofs about Resolution. DnsCache, for any questions, any number of     *)
(* buckets, ways and blocks, and answers of any size: the arena is exact,  *)
(* a put that fits is always stored, and the shard implements AnswerCache. *)
(* LeaseNames, for any configurations, rows and readers. Routes and        *)
(* Connections, for any configurations, exchanges and sockets. Pipeline,   *)
(* for any configurations, policies, questions and replies: whose answers  *)
(* a device gets, and what is sent.                                        *)
(***************************************************************************)
EXTENDS Resolution, FiniteSetTheorems, TLAPS

Slots == Buckets * Ways
Live == {i \in SlotIds : InUse(i)}
Run(first, need) == first .. (first + need - 1)

\* A slot is free and blank, or holds an answer of its bucket inside the arena.
Placed ==
  \A i \in SlotIds :
    /\ ~InUse(i) => slots[i] = NoSlot
    /\ InUse(i) => /\ slots[i].key \in Keys /\ i \in BucketOf(slots[i].key)
                   /\ slots[i].first + slots[i].count <= Blocks

\* A question has one slot.
Unique == \A i, j \in Live : slots[i].key = slots[j].key => i = j

\* The blocks of the arena are marked for one answer each.
Marked ==
  /\ \A i, j \in Live : i # j => BlocksOf(slots[i]) \cap BlocksOf(slots[j]) = {}
  /\ \A b \in 0 .. (Blocks - 1) : b \in used <=> \E i \in Live : b \in BlocksOf(slots[i])

Counted == entries = Cardinality(Live) /\ occupied = Cardinality(used)

\* The v places that a hand at w has passed last, on a circle of n.
Behind(o, w, v, n) == (w - v <= o /\ o < w) \/ o >= w + n - v

\* The loop over a full bucket: what the hand has passed has lost its reference, so
\* that it finds a victim before the first place comes round again.
Clock ==
  put.at = "clock" =>
    /\ put.left \in Ways .. (2 * Ways)
    /\ \A i \in BucketOf(put.key) : InUse(i)
    /\ \A o \in 0 .. (Ways - 1) : Behind(o, hand % Ways, 2 * Ways - put.left, Ways) =>
         ~slots[Bucket[put.key] * Ways + o].referenced

\* The loop over the table: on the first round references go, on the second the hand
\* has passed free slots only. It runs because no stretch of the arena is free.
Sweep ==
  put.at = "evict" =>
    /\ put.left \in 1 .. (2 * Slots)
    /\ \A f \in 0 .. (Blocks - put.need) : Run(f, put.need) \cap used # {}
    /\ \A i \in SlotIds :
         /\ Behind(i, hand, 2 * Slots - put.left, Slots) => ~slots[i].referenced
         /\ Behind(i, hand, Slots - put.left, Slots) => ~InUse(i)

\* The put under way: its question has no slot, and the slot it will fill is free.
Pending ==
  put.at # "none" =>
    /\ put.key \in Keys /\ put.need > 0 /\ put.need <= Blocks
    /\ \A i \in Live : slots[i].key # put.key
    /\ put.at # "clock" => put.target \in BucketOf(put.key) /\ ~InUse(put.target)

\* The inductive invariant.
IInv == TypeOK /\ Placed /\ Unique /\ Marked /\ Counted /\ Pending /\ Clock /\ Sweep

-----------------------------------------------------------------------------
(* Sizes, places and the hand.                                             *)

\* The sizes are positive numbers.
LEMMA Sizes0 ==
  /\ Buckets \in Nat /\ Buckets > 0 /\ Ways \in Nat /\ Ways > 0 /\ Blocks \in Nat /\ Blocks > 0
  /\ Slots \in Nat /\ Slots >= Ways /\ SlotIds = 0 .. (Slots - 1)
<1>1. /\ Buckets \in Nat /\ Buckets > 0 /\ Ways \in Nat /\ Ways > 0 /\ Blocks \in Nat /\ Blocks > 0
  BY CacheAssumption
<1>2. (Buckets - 1) * Ways >= 0 /\ Buckets * Ways = (Buckets - 1) * Ways + Ways
  BY <1>1
<1> QED
  BY <1>1, <1>2 DEF Slots, SlotIds

\* The slots of a bucket are slots of the table.
LEMMA BucketSlots ==
  ASSUME NEW k \in Keys
  PROVE  /\ Bucket[k] * Ways \in Nat /\ BucketOf(k) \subseteq SlotIds
         /\ \A o \in 0 .. (Ways - 1) : Bucket[k] * Ways + o \in BucketOf(k)
         /\ \A i \in BucketOf(k) : i - Bucket[k] * Ways \in 0 .. (Ways - 1)
<1>1. Bucket[k] \in Nat /\ Bucket[k] <= Buckets - 1
  BY CacheAssumption, Sizes0
<1> DEFINE n == Bucket[k]  base == Bucket[k] * Ways
<1>2. base \in Nat
  BY <1>1, Sizes0
<1>3. base + Ways <= Slots
  <2>1. (Buckets - 1 - n) * Ways >= 0
    BY <1>1, Sizes0
  <2>2. (Buckets - 1 - n) * Ways = Buckets * Ways - Ways - n * Ways
    BY <1>1, Sizes0
  <2> QED
    BY <2>1, <2>2, <1>1, <1>2, Sizes0 DEF Slots
<1> HIDE DEF base
<1>4. BucketOf(k) = base .. (base + Ways - 1)
  BY DEF BucketOf, base
<1>5. BucketOf(k) \subseteq 0 .. (Slots - 1)
  BY <1>2, <1>3, <1>4, Sizes0
<1> QED
  BY <1>2, <1>4, <1>5, Sizes0 DEF base

\* The hand goes round the table.
LEMMA HandStep ==
  ASSUME NEW h \in SlotIds
  PROVE  /\ (h + 1) % Slots \in SlotIds
         /\ (h + 1) % Slots = IF h + 1 = Slots THEN 0 ELSE h + 1
BY Sizes0

\* What a remainder is.
LEMMA Remainder ==
  ASSUME NEW w \in Nat, w > 0, NEW q \in Nat, NEW r \in 0 .. (w - 1)
  PROVE  (q * w + r) % w = r
<1> DEFINE a == q * w + r  m == a % w  d == a \div w
<1>1. a \in Nat /\ a = d * w + m /\ m \in 0 .. (w - 1) /\ d \in Nat
  BY SMT
<1>2. CASE d = q
  BY <1>1, <1>2
<1>3. CASE d > q
  <2>1. (d - q - 1) * w >= 0
    BY <1>1, <1>3
  <2>2. (d - q - 1) * w = d * w - q * w - w
    BY <1>1
  <2> QED
    BY <1>1, <2>1, <2>2
<1>4. CASE d < q
  <2>1. (q - d - 1) * w >= 0
    BY <1>1, <1>4
  <2>2. (q - d - 1) * w = q * w - d * w - w
    BY <1>1
  <2> QED
    BY <1>1, <2>1, <2>2
<1> QED
  BY <1>1, <1>2, <1>3, <1>4

\* Within a bucket the hand goes round the ways, because their number divides the table.
LEMMA WayStep ==
  ASSUME NEW h \in SlotIds
  PROVE  /\ h % Ways \in 0 .. (Ways - 1)
         /\ ((h + 1) % Slots) % Ways = IF (h % Ways) + 1 = Ways THEN 0 ELSE (h % Ways) + 1
<1> DEFINE r == h % Ways  q == h \div Ways
<1>1. h = q * Ways + r /\ r \in 0 .. (Ways - 1) /\ q \in Nat
  BY Sizes0, SMT
<1>2. CASE h + 1 = Slots
  <2>1. h = (Buckets - 1) * Ways + (Ways - 1)
    BY <1>2, Sizes0 DEF Slots
  <2>2. r = Ways - 1
    BY <2>1, Remainder, Sizes0
  <2>3. (h + 1) % Slots = 0
    BY <1>2, HandStep
  <2>4. 0 % Ways = 0
    BY Sizes0
  <2> QED
    BY <1>1, <2>2, <2>3, <2>4, Sizes0
<1>3. CASE h + 1 # Slots /\ r + 1 < Ways
  <2>1. (h + 1) % Slots = q * Ways + (r + 1)
    BY <1>1, <1>3, HandStep, Sizes0
  <2>2. (q * Ways + (r + 1)) % Ways = r + 1
    <3>1. r + 1 \in 0 .. (Ways - 1)
      BY <1>1, <1>3, Sizes0
    <3> QED
      BY <3>1, <1>1, Remainder, Sizes0
  <2> QED
    BY <1>1, <1>3, <2>1, <2>2
<1>4. CASE h + 1 # Slots /\ r + 1 = Ways
  <2>1. (h + 1) % Slots = (q + 1) * Ways + 0
    BY <1>1, <1>4, HandStep, Sizes0
  <2>2. ((q + 1) * Ways + 0) % Ways = 0
    BY <1>1, Remainder, Sizes0
  <2> QED
    BY <1>1, <1>4, <2>1, <2>2
<1> QED
  BY <1>1, <1>2, <1>3, <1>4, Sizes0

-----------------------------------------------------------------------------
(* The arena.                                                              *)

\* The part of the invariant that concerns slots and blocks.
Arena ==
  /\ slots \in [SlotIds -> Slot] /\ used \subseteq 0 .. (Blocks - 1)
  /\ entries \in Nat /\ occupied \in Nat
  /\ Placed /\ Unique /\ Marked /\ Counted

\* No answer appears or changes.
Kept ==
  \A i \in SlotIds : InUse(i)' =>
    InUse(i) /\ slots'[i].key = slots[i].key /\ slots'[i].version = slots[i].version

\* What the types say of a slot.
LEMMA SlotFields ==
  ASSUME NEW x \in Slot
  PROVE  /\ x.first \in Nat /\ x.count \in Nat /\ x.inserted \in Nat /\ x.lifetime \in Nat
         /\ x.version \in Nat /\ x.referenced \in BOOLEAN /\ x.negative \in BOOLEAN
BY DEF Slot

\* A free slot holds nothing.
LEMMA Blank == NoSlot \in Slot /\ NoSlot.count = 0 /\ ~NoSlot.referenced
BY DEF NoSlot, Slot

\* A run of blocks has as many as it needs.
LEMMA RunSize ==
  ASSUME NEW f \in Nat, NEW n \in Nat, n > 0
  PROVE  IsFiniteSet(f .. (f + n - 1)) /\ Cardinality(f .. (f + n - 1)) = n
<1>1. f \in Int /\ f + n - 1 \in Int /\ ~(f > f + n - 1) /\ (f + n - 1) - f + 1 = n
  OBVIOUS
<1> QED
  BY <1>1, FS_Interval

\* The blocks of an answer inside the arena.
LEMMA BlocksInside ==
  ASSUME NEW x \in Slot, x.first + x.count <= Blocks
  PROVE  BlocksOf(x) \subseteq 0 .. (Blocks - 1)
<1>1. x.first \in Nat /\ x.count \in Nat
  BY SlotFields
<1> QED
  BY <1>1, Sizes0 DEF BlocksOf

\* The table and the bitmap are finite.
LEMMA Finite ==
  ASSUME used \subseteq 0 .. (Blocks - 1)
  PROVE  IsFiniteSet(Live) /\ IsFiniteSet(used)
<1>1. IsFiniteSet(0 .. (Slots - 1)) /\ IsFiniteSet(0 .. (Blocks - 1))
  BY FS_Interval, Sizes0
<1> QED
  BY <1>1, FS_Subset, Sizes0 DEF Live

\* Setting or clearing the reference of an answer changes nothing else.
LEMMA Touch ==
  ASSUME Arena, NEW i \in Live, NEW r \in BOOLEAN, slots' = [slots EXCEPT ![i].referenced = r],
         UNCHANGED <<used, occupied, entries>>
  PROVE  /\ Arena' /\ Kept /\ Live' = Live
         /\ slots'[i].referenced = r /\ \A j \in SlotIds \ {i} : slots'[j] = slots[j]
<1>1. i \in SlotIds /\ slots \in [SlotIds -> Slot] /\ slots' \in [SlotIds -> Slot]
  <2>1. i \in SlotIds /\ slots \in [SlotIds -> Slot]
    BY DEF Arena, Live
  <2>2. [slots[i] EXCEPT !.referenced = r] \in Slot
    BY <2>1 DEF Slot
  <2>3. slots' = [slots EXCEPT ![i] = [slots[i] EXCEPT !.referenced = r]]
    OBVIOUS
  <2> QED
    BY <2>1, <2>2, <2>3
<1>2. /\ slots'[i].referenced = r /\ \A j \in SlotIds \ {i} : slots'[j] = slots[j]
      /\ slots'[i].key = slots[i].key /\ slots'[i].first = slots[i].first
      /\ slots'[i].count = slots[i].count /\ slots'[i].version = slots[i].version
  BY <1>1 DEF Slot
<1>3. \A j \in SlotIds : /\ InUse(j)' = InUse(j) /\ slots'[j].key = slots[j].key
                         /\ slots'[j].first = slots[j].first /\ slots'[j].count = slots[j].count
                         /\ BlocksOf(slots'[j]) = BlocksOf(slots[j])
                         /\ slots'[j].version = slots[j].version
  BY <1>2 DEF InUse, BlocksOf
<1>4. Live' = Live
  BY <1>3 DEF Live
<1>5. Kept
  BY <1>3 DEF Kept
<1>6. Placed'
  <2>1. ASSUME NEW j \in SlotIds, ~InUse(j)' PROVE slots'[j] = NoSlot
    BY <1>2, <1>3, <2>1 DEF Arena, Placed, Live
  <2>2. ASSUME NEW j \in SlotIds, InUse(j)'
        PROVE  /\ slots'[j].key \in Keys /\ j \in BucketOf(slots'[j].key)
               /\ slots'[j].first + slots'[j].count <= Blocks
    BY <1>3, <2>2 DEF Arena, Placed
  <2> QED
    BY <2>1, <2>2 DEF Placed, BucketOf
<1>7. Unique'
  BY <1>3, <1>4 DEF Arena, Unique, Live
<1>8. Marked'
  BY <1>3, <1>4 DEF Arena, Marked, Live
<1>9. Counted'
  BY <1>4 DEF Arena, Counted
<1> QED
  BY <1>1, <1>2, <1>4, <1>5, <1>6, <1>7, <1>8, <1>9 DEF Arena

\* remove returns exactly the blocks of the answer, and counts it out.
LEMMA RemoveKeeps ==
  ASSUME Arena, NEW i \in SlotIds, Remove(i)
  PROVE  /\ Arena' /\ Kept /\ Live' = Live \ {i} /\ slots'[i] = NoSlot
         /\ \A j \in SlotIds \ {i} : slots'[j] = slots[j]
<1>1. CASE ~InUse(i)
  <2>1. UNCHANGED <<slots, used, occupied, entries>>
    BY <1>1 DEF Remove
  <2>2. Arena' /\ Kept /\ Live' = Live
    BY <2>1 DEF Arena, Placed, Unique, Marked, Counted, Kept, Live, InUse, BucketOf
  <2> QED
    BY <1>1, <2>1, <2>2 DEF Live, Arena, Placed
<1>2. CASE InUse(i)
  <2>1. /\ slots' = [slots EXCEPT ![i] = NoSlot] /\ used' = used \ BlocksOf(slots[i])
        /\ occupied' = occupied - slots[i].count /\ entries' = entries - 1
    BY <1>2 DEF Remove
  <2>2. slots \in [SlotIds -> Slot] /\ NoSlot \in Slot /\ slots[i] \in Slot /\ NoSlot.count = 0
    BY DEF Arena, NoSlot, Slot
  <2>3. /\ slots' \in [SlotIds -> Slot] /\ slots'[i] = NoSlot
        /\ \A j \in SlotIds \ {i} : slots'[j] = slots[j]
    BY <2>1, <2>2
  <2>4. ~InUse(i)' /\ \A j \in SlotIds \ {i} : InUse(j)' = InUse(j)
    BY <2>2, <2>3 DEF InUse
  <2>5. Live' = Live \ {i} /\ i \in Live
    BY <2>4, <1>2 DEF Live
  <2>6. Kept
    BY <2>3, <2>4 DEF Kept
  <2>7. Placed'
    BY <2>3, <2>4 DEF Arena, Placed, BucketOf
  <2>8. Unique'
    BY <2>3, <2>5 DEF Arena, Unique, Live
  <2>9. \A j \in Live' : j \in Live /\ j # i /\ slots'[j] = slots[j]
    BY <2>3, <2>5 DEF Live
  <2>10. Marked'
    <3>1. \A j, l \in Live' : j # l => BlocksOf(slots'[j]) \cap BlocksOf(slots'[l]) = {}
      BY <2>9 DEF Arena, Marked
    <3>2. ASSUME NEW b \in 0 .. (Blocks - 1)
          PROVE  b \in used' <=> \E j \in Live' : b \in BlocksOf(slots'[j])
      <4>1. b \in used' <=> b \in used /\ b \notin BlocksOf(slots[i])
        BY <2>1
      <4>2. b \in used <=> \E j \in Live : b \in BlocksOf(slots[j])
        BY DEF Arena, Marked
      <4>3. \A j \in Live' : b \in BlocksOf(slots[j]) => b \notin BlocksOf(slots[i])
        BY <2>5, <2>9 DEF Arena, Marked
      <4> QED
        BY <4>1, <4>2, <4>3, <2>5, <2>9
    <3> QED
      BY <3>1, <3>2 DEF Marked
  <2>11. BlocksOf(slots[i]) \subseteq used /\ Cardinality(BlocksOf(slots[i])) = slots[i].count
    <3>1. slots[i].first \in Nat /\ slots[i].count \in Nat /\ slots[i].count > 0
          /\ slots[i].first + slots[i].count <= Blocks
      BY <1>2, <2>2, SlotFields DEF Arena, Placed, InUse
    <3>2. BlocksOf(slots[i]) \subseteq 0 .. (Blocks - 1)
      BY <3>1, <2>2, BlocksInside
    <3>3. BlocksOf(slots[i]) \subseteq used
      BY <3>2, <2>5 DEF Arena, Marked
    <3>4. Cardinality(BlocksOf(slots[i])) = slots[i].count
      BY <3>1, RunSize DEF BlocksOf
    <3> QED
      BY <3>3, <3>4
  <2>12. Counted' /\ entries' \in Nat /\ occupied' \in Nat
    <3>1. IsFiniteSet(Live) /\ IsFiniteSet(used)
      BY Finite DEF Arena
    <3>2. Cardinality(Live \ {i}) = Cardinality(Live) - 1 /\ Cardinality(Live \ {i}) \in Nat
      BY <3>1, <2>5, FS_RemoveElement, FS_CardinalityType
    <3>3. used \cap BlocksOf(slots[i]) = BlocksOf(slots[i])
      BY <2>11
    <3>4. Cardinality(used') = Cardinality(used) - slots[i].count /\ Cardinality(used') \in Nat
      <4>1. /\ IsFiniteSet(used \ BlocksOf(slots[i]))
            /\ Cardinality(used \ BlocksOf(slots[i])) = Cardinality(used) - Cardinality(used \cap BlocksOf(slots[i]))
        BY <3>1, FS_Difference
      <4>2. Cardinality(used \ BlocksOf(slots[i])) \in Nat
        BY <4>1, FS_CardinalityType
      <4> QED
        BY <4>1, <4>2, <3>3, <2>1, <2>11
    <3> QED
      BY <3>2, <3>4, <2>1, <2>5 DEF Arena, Counted
  <2>13. used' \subseteq 0 .. (Blocks - 1)
    BY <2>1 DEF Arena
  <2> QED
    BY <2>3, <2>5, <2>6, <2>7, <2>8, <2>10, <2>12, <2>13 DEF Arena
<1> QED
  BY <1>1, <1>2

\* The least and the greatest of a set of numbers belong to it.
LEMMA Least ==
  ASSUME NEW T \in SUBSET Nat, T # {}
  PROVE  Min(T) \in T /\ \A y \in T : Min(T) <= y
<1> DEFINE R == {ss \in Nat \X Nat : ss[1] < ss[2]}
<1>1. IsWellFoundedOn(R, Nat)
  BY NatLessThanWellFounded DEF OpToRel
<1>2. PICK x \in T : \A y \in T : ~ (<<y, x>> \in R)
  <2> HIDE DEF R
  <2> QED
    BY <1>1, WFMin
<1>3. ASSUME NEW y \in T PROVE x <= y
  <2>1. x \in Nat /\ y \in Nat /\ <<y, x>> \in Nat \X Nat
    OBVIOUS
  <2>2. ~(y < x)
    BY <1>2, <2>1
  <2> QED
    BY <2>1, <2>2
<1> QED
  BY <1>3 DEF Min

\* The greatest element of a bounded set of numbers is one of them.
LEMMA Greatest ==
  ASSUME NEW n \in Nat, NEW T \in SUBSET (0 .. n), T # {}
  PROVE  Max(T) \in T
<1> DEFINE U == {n - x : x \in T}
<1>1. U \in SUBSET Nat /\ U # {}
  <2>1. \A x \in T : x \in 0 .. n /\ n - x \in Nat
    OBVIOUS
  <2> QED
    BY <2>1
<1>2. Min(U) \in U /\ \A y \in U : Min(U) <= y
  BY <1>1, Least
<1>3. PICK x \in T : Min(U) = n - x
  BY <1>2
<1>4. \A y \in T : x >= y
  <2>1. ASSUME NEW y \in T PROVE x >= y
    <3>1. n - y \in U
      OBVIOUS
    <3>2. n - x <= n - y
      BY <3>1, <1>2, <1>3
    <3>3. x \in 0 .. n /\ y \in 0 .. n
      OBVIOUS
    <3> QED
      BY <3>2, <3>3
  <2> QED
    BY <2>1
<1> QED
  BY <1>4 DEF Max

\* A stretch of the arena has no free run, or its first.
LEMMA RunFree ==
  ASSUME NEW need \in Nat, NEW start \in Nat, NEW end \in 0 .. Blocks
  PROVE  /\ \A f \in FreeRun(need, start, end) :
              f \in Nat /\ f + need <= Blocks /\ Run(f, need) \cap used = {}
         /\ FreeRun(need, start, end) = {} =>
              \A f \in start .. (end - need) : Run(f, need) \cap used # {}
<1> DEFINE fits == {f \in start .. (end - need) : Run(f, need) \cap used = {}}
<1>1. FreeRun(need, start, end) = IF fits = {} THEN {} ELSE {Min(fits)}
  BY DEF FreeRun, Run
<1>2. CASE fits = {}
  BY <1>1, <1>2
<1>3. CASE fits # {}
  <2>1. fits \in SUBSET Nat
    OBVIOUS
  <2>2. Min(fits) \in fits
    BY <2>1, <1>3, Least
  <2>3. FreeRun(need, start, end) = {Min(fits)}
    BY <1>1, <1>3
  <2>4. ASSUME NEW f \in fits
        PROVE  f \in Nat /\ f + need <= Blocks /\ Run(f, need) \cap used = {}
    BY Sizes0
  <2> QED
    BY <2>2, <2>3, <2>4
<1> QED
  BY <1>2, <1>3

\* allocate finds a free run, or there is none in the whole arena.
LEMMA Fit ==
  ASSUME cursor \in 0 .. (Blocks - 1), NEW need \in Nat
  PROVE  /\ \A f \in FirstFit(need) :
              f \in Nat /\ f + need <= Blocks /\ Run(f, need) \cap used = {}
         /\ FirstFit(need) = {} =>
              \A f \in 0 .. (Blocks - need) : Run(f, need) \cap used # {}
<1>1. cursor \in Nat /\ cursor \in 0 .. Blocks /\ Blocks \in 0 .. Blocks /\ 0 \in Nat
  BY Sizes0
<1> QED
  BY <1>1, RunFree DEF FirstFit

\* An answer in a free slot and a free run: the arena stays exact.
LEMMA StoreKeeps ==
  ASSUME Arena, NEW i \in SlotIds, ~InUse(i), NEW x \in Slot, slots' = [slots EXCEPT ![i] = x],
         x.count > 0, x.key \in Keys, i \in BucketOf(x.key), x.first + x.count <= Blocks,
         \A j \in Live : slots[j].key # x.key,
         BlocksOf(x) \cap used = {}, used' = used \cup BlocksOf(x),
         occupied' = occupied + x.count, entries' = entries + 1
  PROVE  /\ Arena' /\ Live' = Live \cup {i} /\ slots'[i] = x
         /\ \A j \in SlotIds \ {i} : slots'[j] = slots[j]
<1>1. slots \in [SlotIds -> Slot] /\ x.first \in Nat /\ x.count \in Nat /\ i \notin Live
  BY SlotFields DEF Arena, Live
<1>2. /\ slots' \in [SlotIds -> Slot] /\ slots'[i] = x
      /\ \A j \in SlotIds \ {i} : slots'[j] = slots[j]
  BY <1>1
<1>3. InUse(i)' /\ \A j \in SlotIds \ {i} : InUse(j)' = InUse(j)
  BY <1>2 DEF InUse
<1>4. Live' = Live \cup {i}
  BY <1>3 DEF Live
<1>5. \A j \in Live : j # i /\ slots'[j] = slots[j]
  BY <1>1, <1>2 DEF Live
<1>6. Placed'
  BY <1>2, <1>3 DEF Arena, Placed, BucketOf
<1>7. Unique'
  BY <1>2, <1>4, <1>5 DEF Arena, Unique
<1>8. BlocksOf(x) \subseteq 0 .. (Blocks - 1)
  BY BlocksInside
<1>9. \A j \in Live : BlocksOf(slots[j]) \subseteq 0 .. (Blocks - 1)
  <2>1. ASSUME NEW j \in Live PROVE BlocksOf(slots[j]) \subseteq 0 .. (Blocks - 1)
    <3>1. slots[j] \in Slot /\ slots[j].first + slots[j].count <= Blocks
      BY <1>1 DEF Arena, Placed, Live
    <3> QED
      BY <3>1, BlocksInside
  <2> QED
    BY <2>1
<1>10. Marked'
  <2>1. \A j \in Live : BlocksOf(slots[j]) \cap BlocksOf(x) = {}
    BY <1>9 DEF Arena, Marked
  <2>2. \A j, l \in Live' : j # l => BlocksOf(slots'[j]) \cap BlocksOf(slots'[l]) = {}
    BY <1>2, <1>4, <1>5, <2>1 DEF Arena, Marked
  <2>3. \A b \in 0 .. (Blocks - 1) : b \in used' <=> \E j \in Live' : b \in BlocksOf(slots'[j])
    BY <1>2, <1>4, <1>5 DEF Arena, Marked
  <2> QED
    BY <2>2, <2>3 DEF Marked
<1>11. Counted' /\ entries' \in Nat /\ occupied' \in Nat
  <2>1. IsFiniteSet(Live) /\ IsFiniteSet(used)
    BY Finite DEF Arena
  <2>2. Cardinality(Live') = Cardinality(Live) + 1
    BY <2>1, <1>1, <1>4, FS_AddElement
  <2>3. IsFiniteSet(BlocksOf(x)) /\ Cardinality(BlocksOf(x)) = x.count
    BY <1>1, RunSize DEF BlocksOf
  <2>4. Cardinality(used \cup BlocksOf(x)) = Cardinality(used) + x.count - Cardinality(used \cap BlocksOf(x))
    BY <2>1, <2>3, FS_Union
  <2>5. used \cap BlocksOf(x) = {} /\ Cardinality({}) = 0
    BY FS_EmptySet
  <2>6. Cardinality(used') = occupied + x.count
    <3>1. Cardinality(used) = occupied /\ occupied \in Nat
      BY DEF Arena, Counted
    <3>2. Cardinality(used \cup BlocksOf(x)) = occupied + x.count - 0
      BY <3>1, <2>4, <2>5
    <3> QED
      BY <1>1, <3>1, <3>2
  <2> QED
    BY <1>1, <2>2, <2>6 DEF Arena, Counted
<1> QED
  BY <1>2, <1>4, <1>6, <1>7, <1>8, <1>10, <1>11 DEF Arena

-----------------------------------------------------------------------------
(* The steps.                                                              *)

\* The invariant, taken apart.
LEMMA Facts ==
  ASSUME IInv
  PROVE  /\ Arena /\ Pending /\ Clock /\ Sweep
         /\ hand \in SlotIds /\ cursor \in 0 .. (Blocks - 1) /\ now \in Nat /\ version \in Nat
         /\ put \in Puts /\ put.at \in {"none", "clock", "room", "evict"}
         /\ put.need \in Nat /\ put.lifetime \in Nat /\ put.time \in Nat /\ put.left \in Nat
         /\ put.negative \in BOOLEAN
BY DEF IInv, TypeOK, Arena, Puts

\* The invariant, put together.
LEMMA Whole ==
  ASSUME Arena', Pending', Clock', Sweep',
         hand' \in SlotIds, cursor' \in 0 .. (Blocks - 1), now' \in Nat, version' \in Nat, put' \in Puts
  PROVE  IInv'
BY DEF IInv, TypeOK, Arena

\* A hand that moves on has passed where it was and what it had passed before.
LEMMA BehindStep ==
  ASSUME NEW n \in Nat, NEW w \in 0 .. (n - 1), NEW o \in 0 .. (n - 1), NEW v \in Int,
         Behind(o, IF w + 1 = n THEN 0 ELSE w + 1, v + 1, n)
  PROVE  o = w \/ Behind(o, w, v, n)
BY DEF Behind

\* At first the table is empty.
LEMMA InitIInv == Init => IInv
<1> SUFFICES ASSUME Init PROVE IInv
  OBVIOUS
<1>1. NoSlot \in Slot /\ NoSlot.count = 0 /\ NoPut \in Puts /\ NoPut.at = "none"
  BY DEF NoSlot, Slot, NoPut, Puts
<1>2. /\ slots \in [SlotIds -> Slot] /\ \A i \in SlotIds : slots[i] = NoSlot /\ ~InUse(i)
  BY <1>1 DEF Init, InUse
<1>3. Live = {}
  BY <1>2 DEF Live
<1>4. TypeOK
  BY <1>1, <1>2, Sizes0 DEF Init, TypeOK
<1>5. Placed /\ Unique /\ Marked
  BY <1>2, <1>3 DEF Init, Placed, Unique, Marked
<1>6. Counted
  BY <1>3, FS_EmptySet DEF Init, Counted
<1>7. Pending /\ Clock /\ Sweep
  BY <1>1 DEF Init, Pending, Clock, Sweep
<1> QED
  BY <1>4, <1>5, <1>6, <1>7 DEF IInv

\* The slot that put finds, if it finds one: the key's own or a free one of its bucket.
LEMMA TargetFacts ==
  ASSUME Arena, NEW k \in Keys
  PROVE  /\ \A i \in Target(k) : i \in BucketOf(k) /\ \A j \in Live \ {i} : slots[j].key # k
         /\ Target(k) = {} => /\ \A i \in BucketOf(k) : InUse(i)
                              /\ \A j \in Live : slots[j].key # k
<1>1. BucketOf(k) \subseteq SlotIds /\ SlotIds = 0 .. (Slots - 1) /\ Slots - 1 \in Nat
  BY BucketSlots, Sizes0
<1> DEFINE free == {i \in BucketOf(k) : ~InUse(i)}
<1>2. CASE Found(k) # {}
  <2>1. Found(k) \in SUBSET Nat
    BY <1>1 DEF Found
  <2>2. Min(Found(k)) \in Found(k)
    BY <2>1, <1>2, Least
  <2>3. Target(k) = {Min(Found(k))}
    BY <1>2 DEF Target
  <2>4. ASSUME NEW i \in Found(k)
        PROVE  i \in BucketOf(k) /\ \A j \in Live \ {i} : slots[j].key # k
    BY <1>1 DEF Found, Arena, Unique, Live
  <2> QED
    BY <2>2, <2>3, <2>4
<1>3. CASE Found(k) = {}
  <2>1. \A j \in Live : slots[j].key # k
    BY <1>3 DEF Found, Arena, Placed, Live
  <2>2. CASE free # {}
    <3>1. free \in SUBSET (0 .. (Slots - 1))
      BY <1>1
    <3>2. Max(free) \in free
      BY <3>1, <2>2, <1>1, Greatest
    <3>3. Target(k) = {Max(free)}
      BY <1>3, <2>2 DEF Target
    <3> QED
      BY <3>2, <3>3, <2>1
  <2>3. CASE free = {}
    <3>1. Target(k) = {}
      BY <1>3, <2>3 DEF Target
    <3> QED
      BY <3>1, <2>1, <2>3
  <2> QED
    BY <2>2, <2>3
<1> QED
  BY <1>2, <1>3

\* put takes the mutex and looks for a slot.
LEMMA PutStep ==
  ASSUME IInv, NEW k \in Keys, NEW need \in Sizes, NEW lifetime \in Lifetimes, NEW negative \in BOOLEAN,
         Put(k, need, lifetime, negative)
  PROVE  IInv' /\ Kept /\ version' = version
<1> DEFINE p == [at |-> "room", key |-> k, need |-> need, lifetime |-> lifetime, negative |-> negative,
                 time |-> now, target |-> -1, left |-> 0]
<1>1. /\ Arena /\ hand \in SlotIds /\ cursor \in 0 .. (Blocks - 1) /\ now \in Nat /\ version \in Nat
  BY Facts
<1>2. need \in Nat /\ need > 0 /\ need <= Blocks /\ lifetime \in Nat
  BY CacheAssumption DEF Put
<1>3. hand' = hand /\ cursor' = cursor /\ now' = now /\ version' = version
  BY DEF Put
<1>4. CASE Target(k) = {}
  <2>1. put' = [p EXCEPT !.at = "clock", !.left = 2 * Ways] /\ UNCHANGED <<slots, used, occupied, entries>>
    BY <1>4 DEF Put
  <2>2. /\ put'.at = "clock" /\ put'.key = k /\ put'.left = 2 * Ways /\ put'.need = need
    BY <2>1
  <2>3. put' \in Puts
    <3>1. 2 * Ways \in Nat
      BY Sizes0
    <3>2. put' = [at |-> "clock", key |-> k, need |-> need, lifetime |-> lifetime, negative |-> negative,
                  time |-> now, target |-> -1, left |-> 2 * Ways]
      BY <2>1
    <3> QED
      BY <1>1, <1>2, <3>1, <3>2 DEF Puts
  <2>4. Arena' /\ Kept
    BY <2>1, <1>1 DEF Arena, Placed, Unique, Marked, Counted, Kept, Live, InUse, BucketOf
  <2>5. (\A i \in BucketOf(k) : InUse(i)) /\ (\A j \in Live : slots[j].key # k)
    BY <1>1, <1>4, TargetFacts
  <2>6. Pending'
    BY <2>1, <2>2, <2>5, <1>2 DEF Pending, Live, InUse
  <2>7. Clock'
    <3>1. hand % Ways \in 0 .. (Ways - 1)
      BY <1>1, WayStep
    <3>2. \A o \in 0 .. (Ways - 1) : ~Behind(o, hand % Ways, 2 * Ways - 2 * Ways, Ways)
      BY <3>1, Sizes0 DEF Behind
    <3>3. 2 * Ways \in Ways .. (2 * Ways)
      BY Sizes0
    <3> QED
      BY <3>2, <3>3, <2>1, <2>2, <2>5, <1>3 DEF Clock, InUse, BucketOf
  <2>8. Sweep'
    BY <2>2 DEF Sweep
  <2> QED
    BY <1>1, <1>3, <2>3, <2>4, <2>6, <2>7, <2>8, Whole
<1>5. CASE Target(k) # {}
  <2>1. PICK i \in Target(k) : put' = [p EXCEPT !.target = i] /\ Remove(i)
    BY <1>5 DEF Put
  <2>2. i \in BucketOf(k) /\ i \in SlotIds /\ \A j \in Live \ {i} : slots[j].key # k
    BY <1>1, TargetFacts, BucketSlots
  <2>3. /\ Arena' /\ Kept /\ Live' = Live \ {i} /\ slots'[i] = NoSlot
        /\ \A j \in SlotIds \ {i} : slots'[j] = slots[j]
    BY <1>1, <2>1, <2>2, RemoveKeeps
  <2>4. put'.at = "room" /\ put'.key = k /\ put'.need = need /\ put'.target = i
    BY <2>1
  <2>5. put' \in Puts
    BY <1>1, <1>2, <2>1, <2>2 DEF Puts
  <2>6. ~InUse(i)' /\ \A j \in Live' : slots'[j].key # k
    BY <2>2, <2>3 DEF InUse, NoSlot, Live
  <2>7. Pending'
    BY <2>2, <2>4, <2>6, <1>2 DEF Pending, BucketOf
  <2>8. Clock' /\ Sweep'
    BY <2>4 DEF Clock, Sweep
  <2> QED
    BY <1>1, <1>3, <2>3, <2>5, <2>7, <2>8, Whole
<1> QED
  BY <1>4, <1>5

\* A turn in a full bucket: a victim comes before the turns run out.
LEMMA SecondChanceStep ==
  ASSUME IInv, SecondChance
  PROVE  IInv' /\ Kept /\ version' = version
<1>0. PICK k, w, v : k = put.key /\ w = hand % Ways /\ v = 2 * Ways - put.left
  OBVIOUS
<1> DEFINE base == Bucket[k] * Ways  i == base + w  w1 == IF w + 1 = Ways THEN 0 ELSE w + 1
<1>1. /\ Arena /\ hand \in SlotIds /\ cursor \in 0 .. (Blocks - 1) /\ now \in Nat /\ version \in Nat
      /\ put \in Puts /\ put.left \in Nat /\ put.need \in Nat
  BY Facts
<1>2. /\ put.at = "clock" /\ k \in Keys /\ put.need > 0 /\ put.need <= Blocks
      /\ \A j \in Live : slots[j].key # k
  BY <1>0, Facts DEF SecondChance, Pending
<1>3. /\ put.left \in Ways .. (2 * Ways) /\ \A j \in BucketOf(k) : InUse(j)
      /\ \A o \in 0 .. (Ways - 1) : Behind(o, w, v, Ways) => ~slots[base + o].referenced
  BY <1>0, <1>2, Facts DEF Clock
<1>4. hand' \in SlotIds /\ hand' % Ways = w1 /\ w \in 0 .. (Ways - 1)
  BY <1>0, <1>1, WayStep, HandStep DEF SecondChance, Advance, Slots
<1>5. i \in BucketOf(k) /\ i \in SlotIds /\ i \in Live /\ base \in Nat
  BY <1>2, <1>3, <1>4, BucketSlots DEF Live
<1>6. cursor' = cursor /\ now' = now /\ version' = version
  BY DEF SecondChance
<1>7. CASE slots[i].referenced
  <2>1. Spare(i) /\ put' = [put EXCEPT !.at = IF put.left > 1 THEN "clock" ELSE "room", !.left = @ - 1]
    BY <1>0, <1>7 DEF SecondChance
  <2>2. put.left # Ways
    <3>1. CASE put.left = Ways
      <4>1. Behind(w, w, v, Ways)
        BY <3>1, <1>0, <1>4, Sizes0 DEF Behind
      <4> QED
        BY <4>1, <1>3, <1>4, <1>7
    <3> QED
      BY <3>1
  <2>3. put.left > 1 /\ put.left - 1 \in Ways .. (2 * Ways) /\ put.left - 1 \in Nat
    BY <2>2, <1>1, <1>3, Sizes0
  <2>4. put' = [put EXCEPT !.at = "clock", !.left = put.left - 1]
    BY <2>1, <2>3
  <2>5. /\ put'.at = "clock" /\ put'.key = k /\ put'.left = put.left - 1 /\ put'.need = put.need
        /\ put' \in Puts
    BY <2>3, <2>4, <1>0, <1>1 DEF Puts
  <2>6. /\ Arena' /\ Kept /\ Live' = Live /\ ~slots'[i].referenced
        /\ \A j \in SlotIds \ {i} : slots'[j] = slots[j]
    BY <1>1, <1>5, <2>1, Touch DEF Spare
  <2>7. \A j \in SlotIds : InUse(j)' <=> InUse(j)
    BY <2>6 DEF Live
  <2>8. Pending'
    <3>1. \A j \in Live' : slots'[j].key # k
      BY <2>6, <1>2 DEF Kept, Live
    <3> QED
      BY <3>1, <2>5, <1>2 DEF Pending
  <2>9. Clock'
    <3>1. \A j \in BucketOf(k) : InUse(j)'
      BY <1>2, <1>3, <2>7, BucketSlots
    <3>2. ASSUME NEW o \in 0 .. (Ways - 1), Behind(o, w1, v + 1, Ways)
          PROVE  ~slots'[base + o].referenced
      <4>1. base + o \in SlotIds
        BY <1>2, BucketSlots
      <4>2. CASE o = w
        BY <4>2, <2>6
      <4>3. CASE o # w
        <5>1. Behind(o, w, v, Ways)
          BY <3>2, <4>3, <1>0, <1>1, <1>4, BehindStep, Sizes0
        <5>2. base + o # i
          BY <4>3, <1>4, <1>5
        <5> QED
          BY <4>1, <5>1, <5>2, <2>6, <1>3
      <4> QED
        BY <4>2, <4>3
    <3>3. 2 * Ways - put'.left = v + 1
      BY <2>5, <1>0, <1>1, Sizes0
    <3> QED
      BY <3>1, <3>2, <3>3, <2>3, <2>5, <1>4 DEF Clock, BucketOf
  <2>10. Sweep'
    BY <2>5 DEF Sweep
  <2> QED
    BY <1>1, <1>4, <1>6, <2>5, <2>6, <2>8, <2>9, <2>10, Whole
<1>8. CASE ~slots[i].referenced
  <2>1. Remove(i) /\ put' = [put EXCEPT !.at = "room", !.target = i, !.left = 0]
    BY <1>0, <1>8 DEF SecondChance
  <2>2. /\ Arena' /\ Kept /\ Live' = Live \ {i} /\ slots'[i] = NoSlot
        /\ \A j \in SlotIds \ {i} : slots'[j] = slots[j]
    BY <1>1, <1>5, <2>1, RemoveKeeps
  <2>3. put'.at = "room" /\ put'.key = k /\ put'.need = put.need /\ put'.target = i /\ put' \in Puts
    BY <2>1, <1>0, <1>1, <1>5 DEF Puts
  <2>4. ~InUse(i)' /\ \A j \in Live' : slots'[j].key # k
    <3>1. slots'[i].count = 0
      BY <2>2, Blank
    <3>2. \A j \in Live' : slots'[j].key # k
      BY <1>2, <2>2 DEF Live
    <3> QED
      BY <3>1, <3>2 DEF InUse
  <2>5. Pending'
    BY <2>3, <2>4, <1>1, <1>2, <1>5 DEF Pending, BucketOf
  <2>6. Clock' /\ Sweep'
    BY <2>3 DEF Clock, Sweep
  <2> QED
    BY <1>1, <1>4, <1>6, <2>2, <2>3, <2>5, <2>6, Whole
<1> QED
  BY <1>7, <1>8

\* There is room, and the answer is stored in a free slot of its bucket.
LEMMA StoreStep ==
  ASSUME IInv, Store
  PROVE  /\ IInv' /\ put.key \in Keys /\ put.target \in SlotIds /\ ~InUse(put.target)
         /\ put.target \in BucketOf(put.key) /\ Live' = Live \cup {put.target}
         /\ slots'[put.target].key = put.key /\ slots'[put.target].version = version + 1
         /\ \A j \in SlotIds \ {put.target} : slots'[j] = slots[j]
         /\ version' = version + 1
<1>0. PICK i : i = put.target
  OBVIOUS
<1>1. /\ Arena /\ hand \in SlotIds /\ cursor \in 0 .. (Blocks - 1) /\ now \in Nat /\ version \in Nat
      /\ put \in Puts /\ put.need \in Nat /\ put.lifetime \in Nat /\ put.time \in Nat
  BY Facts
<1>2. /\ put.at = "room" /\ put.key \in Keys /\ put.need > 0 /\ put.need <= Blocks
      /\ i \in BucketOf(put.key) /\ ~InUse(i) /\ \A j \in Live : slots[j].key # put.key
  BY <1>0, Facts DEF Store, Pending
<1>3. i \in SlotIds
  BY <1>2, BucketSlots
<1>4. PICK f, x :
        /\ f \in FirstFit(put.need)
        /\ x = [key |-> put.key, first |-> f, count |-> put.need, inserted |-> put.time,
                lifetime |-> put.lifetime, negative |-> put.negative, referenced |-> TRUE,
                version |-> version + 1]
        /\ slots' = [slots EXCEPT ![i] = x] /\ used' = used \cup (f .. (f + put.need - 1))
        /\ cursor' = (f + put.need) % Blocks
  BY <1>0 DEF Store
<1>5. f \in Nat /\ f + put.need <= Blocks /\ Run(f, put.need) \cap used = {}
  BY <1>1, <1>4, Fit
<1>6. /\ x.count = put.need /\ x.key = put.key /\ x.first = f /\ x.version = version + 1
      /\ x \in Slot
  <2>1. version + 1 \in Nat
    BY <1>1
  <2>2. put.key \in Keys \cup {""} /\ put.negative \in BOOLEAN
    BY <1>2, Facts
  <2> QED
    BY <1>1, <1>4, <1>5, <2>1, <2>2 DEF Slot
<1>7. BlocksOf(x) = Run(f, put.need) /\ used' = used \cup BlocksOf(x)
  BY <1>4, <1>6 DEF BlocksOf, Run
<1>8. /\ occupied' = occupied + put.need /\ entries' = entries + 1 /\ version' = version + 1
      /\ put' = NoPut /\ hand' = hand /\ now' = now
  BY DEF Store
<1>9. /\ Arena' /\ Live' = Live \cup {i} /\ slots'[i] = x
      /\ \A j \in SlotIds \ {i} : slots'[j] = slots[j]
  <2>1. x.count > 0 /\ x.key \in Keys /\ i \in BucketOf(x.key) /\ x.first + x.count <= Blocks
    BY <1>2, <1>5, <1>6
  <2>2. BlocksOf(x) \cap used = {} /\ occupied' = occupied + x.count /\ entries' = entries + 1
    BY <1>5, <1>6, <1>7, <1>8
  <2>3. \A j \in Live : slots[j].key # x.key
    BY <1>2, <1>6
  <2>4. /\ Arena /\ x \in Slot /\ slots' = [slots EXCEPT ![i] = x]
        /\ used' = used \cup BlocksOf(x) /\ ~InUse(i)
    BY <1>1, <1>2, <1>4, <1>6, <1>7
  <2> QED
    BY <1>3, <2>1, <2>2, <2>3, <2>4, StoreKeeps
<1>10. cursor' \in 0 .. (Blocks - 1)
  <2>1. f + put.need \in Nat /\ cursor' = (f + put.need) % Blocks
    BY <1>1, <1>4, <1>5
  <2> QED
    BY <2>1, Sizes0
<1>11. NoPut \in Puts /\ NoPut.at = "none"
  BY DEF NoPut, Puts
<1>12. Pending' /\ Clock' /\ Sweep'
  BY <1>8, <1>11 DEF Pending, Clock, Sweep
<1> QED
  BY <1>0, <1>1, <1>2, <1>3, <1>6, <1>8, <1>9, <1>10, <1>11, <1>12, Whole

\* No free run is long enough: the hand starts its rounds.
LEMMA NoRoomStep ==
  ASSUME IInv, NoRoom
  PROVE  IInv' /\ Kept /\ version' = version
<1>1. /\ Arena /\ hand \in SlotIds /\ cursor \in 0 .. (Blocks - 1) /\ now \in Nat /\ version \in Nat
      /\ put \in Puts /\ put.need \in Nat
  BY Facts
<1>2. /\ put.at = "room" /\ put.key \in Keys /\ put.need > 0 /\ put.need <= Blocks
      /\ put.target \in BucketOf(put.key) /\ ~InUse(put.target) /\ \A j \in Live : slots[j].key # put.key
  BY Facts DEF NoRoom, Pending
<1>3. /\ UNCHANGED <<slots, used, hand, entries, occupied, now, version>> /\ cursor' = 0
      /\ put' = [put EXCEPT !.at = "evict", !.left = 2 * Slots]
  <2>1. 2 * Buckets * Ways = 2 * Slots
    BY Sizes0 DEF Slots
  <2> QED
    BY <2>1 DEF NoRoom
<1>4. \A f \in 0 .. (Blocks - put.need) : Run(f, put.need) \cap used # {}
  BY <1>1, Fit DEF NoRoom
<1>5. 2 * Slots \in Nat /\ 2 * Slots \in 1 .. (2 * Slots) /\ 0 \in 0 .. (Blocks - 1)
  BY Sizes0
<1>6. /\ put'.at = "evict" /\ put'.left = 2 * Slots /\ put'.key = put.key /\ put'.need = put.need
      /\ put'.target = put.target /\ put' \in Puts
  BY <1>1, <1>3, <1>5 DEF Puts
<1>7. Arena' /\ Kept
  BY <1>1, <1>3 DEF Arena, Placed, Unique, Marked, Counted, Kept, Live, InUse, BucketOf
<1>8. Pending'
  BY <1>2, <1>3, <1>6 DEF Pending, Live, InUse, BucketOf
<1>9. Clock'
  BY <1>6 DEF Clock
<1>10. Sweep'
  <2>1. \A i \in SlotIds : /\ ~Behind(i, hand, 2 * Slots - 2 * Slots, Slots)
                           /\ ~Behind(i, hand, Slots - 2 * Slots, Slots)
    BY <1>1, Sizes0 DEF Behind
  <2> QED
    BY <2>1, <1>3, <1>4, <1>5, <1>6 DEF Sweep
<1> QED
  BY <1>1, <1>3, <1>5, <1>6, <1>7, <1>8, <1>9, <1>10, Whole

\* Somebody owns a block while there is no free run.
LEMMA SomeLive ==
  ASSUME IInv, put.at = "evict"
  PROVE  \E i \in SlotIds : InUse(i)
<1>1. put.need \in Nat /\ put.need <= Blocks /\ Arena
  BY Facts DEF Pending
<1>2. 0 \in 0 .. (Blocks - put.need)
  BY <1>1, Sizes0
<1>3. used # {}
  BY <1>2, Facts DEF Sweep
<1> QED
  BY <1>1, <1>3 DEF Arena, Marked, Live

\* A turn over the table: it finds a victim in the second round at the latest.
LEMMA EvictStep ==
  ASSUME IInv, Evict
  PROVE  IInv' /\ Kept /\ version' = version /\ put'.at # "none"
<1>0. PICK k, t, w, l : k = put.key /\ t = put.target /\ w = hand /\ l = put.left
  OBVIOUS
<1> DEFINE w1 == IF w + 1 = Slots THEN 0 ELSE w + 1
<1>1. /\ Arena /\ w \in SlotIds /\ cursor \in 0 .. (Blocks - 1) /\ now \in Nat /\ version \in Nat
      /\ put \in Puts /\ put.need \in Nat
  BY <1>0, Facts
<1>2. /\ put.at = "evict" /\ k \in Keys /\ put.need > 0 /\ put.need <= Blocks
      /\ t \in BucketOf(k) /\ ~InUse(t) /\ \A j \in Live : slots[j].key # k
  BY <1>0, Facts DEF Evict, Pending
<1>3. /\ l \in 1 .. (2 * Slots) /\ \A f \in 0 .. (Blocks - put.need) : Run(f, put.need) \cap used # {}
      /\ \A j \in SlotIds : /\ Behind(j, w, 2 * Slots - l, Slots) => ~slots[j].referenced
                            /\ Behind(j, w, Slots - l, Slots) => ~InUse(j)
  BY <1>0, <1>2, Facts DEF Sweep
<1>4. hand' = w1 /\ w1 \in SlotIds /\ w \in 0 .. (Slots - 1) /\ SlotIds = 0 .. (Slots - 1)
  BY <1>0, <1>1, HandStep, Sizes0 DEF Evict, Advance, Slots
<1>5. cursor' = cursor /\ now' = now /\ version' = version
  BY DEF Evict
<1>6. t \in SlotIds
  BY <1>2, BucketSlots
<1>7. CASE InUse(w) /\ ~slots[w].referenced
  <2>1. Remove(w) /\ put' = [put EXCEPT !.at = "room", !.left = 0]
    BY <1>0, <1>7 DEF Evict
  <2>2. /\ Arena' /\ Kept /\ Live' = Live \ {w}
        /\ \A j \in SlotIds \ {w} : slots'[j] = slots[j]
    BY <1>1, <2>1, RemoveKeeps
  <2>3. put'.at = "room" /\ put'.key = k /\ put'.need = put.need /\ put'.target = t /\ put' \in Puts
    BY <2>1, <1>0, <1>1 DEF Puts
  <2>4. ~InUse(t)' /\ \A j \in Live' : slots'[j].key # k
    <3>1. t # w /\ slots'[t] = slots[t]
      BY <1>2, <1>6, <1>7, <2>2
    <3>2. \A j \in Live' : slots'[j].key # k
      BY <1>2, <2>2 DEF Live
    <3> QED
      BY <3>1, <3>2, <1>2 DEF InUse
  <2>5. Pending'
    BY <2>3, <2>4, <1>1, <1>2 DEF Pending, BucketOf
  <2>6. Clock' /\ Sweep'
    BY <2>3 DEF Clock, Sweep
  <2> QED
    BY <1>1, <1>4, <1>5, <2>2, <2>3, <2>5, <2>6, Whole
<1>8. CASE ~InUse(w) \/ slots[w].referenced
  <2>1. /\ put' = IF put.left > 1 THEN [put EXCEPT !.left = @ - 1] ELSE NoPut
        /\ (~InUse(w) /\ UNCHANGED <<slots, used, occupied, entries>>) \/ (InUse(w) /\ Spare(w))
    BY <1>0, <1>8 DEF Evict
  <2>2. l # 1
    <3>1. CASE l = 1
      <4>1. \A j \in SlotIds \ {w} : Behind(j, w, Slots - l, Slots)
        BY <3>1, <1>4, Sizes0 DEF Behind
      <4>2. Behind(w, w, 2 * Slots - l, Slots)
        BY <3>1, <1>4, Sizes0 DEF Behind
      <4>3. \A j \in SlotIds : ~InUse(j)
        BY <4>1, <4>2, <1>1, <1>3, <1>8
      <4> QED
        BY <4>3, <1>2, SomeLive
    <3> QED
      BY <3>1
  <2>3. l > 1 /\ l - 1 \in 1 .. (2 * Slots) /\ l - 1 \in Nat /\ l \in Nat
    BY <2>2, <1>3, Sizes0
  <2>4. put' = [put EXCEPT !.left = l - 1]
    BY <2>1, <2>3, <1>0
  <2>5. /\ put'.at = "evict" /\ put'.key = k /\ put'.left = l - 1 /\ put'.need = put.need
        /\ put'.target = t /\ put' \in Puts
    BY <2>3, <2>4, <1>0, <1>1, <1>2 DEF Puts
  <2>6. /\ Arena' /\ Kept /\ used' = used /\ Live' = Live /\ ~slots'[w].referenced
        /\ \A j \in SlotIds \ {w} : slots'[j] = slots[j]
    <3>1. CASE ~InUse(w) /\ UNCHANGED <<slots, used, occupied, entries>>
      <4>1. Arena' /\ Kept /\ Live' = Live
        BY <3>1, <1>1 DEF Arena, Placed, Unique, Marked, Counted, Kept, Live, InUse, BucketOf
      <4>2. slots[w] = NoSlot
        BY <3>1, <1>1 DEF Arena, Placed
      <4> QED
        BY <3>1, <4>1, <4>2, Blank
    <3>2. CASE InUse(w) /\ Spare(w)
      <4>1. w \in Live /\ used' = used
        BY <3>2, <1>1 DEF Live, Spare
      <4> QED
        BY <3>2, <4>1, <1>1, Touch DEF Spare
    <3> QED
      BY <2>1, <3>1, <3>2
  <2>7. \A j \in SlotIds : InUse(j)' <=> InUse(j)
    BY <2>6 DEF Live
  <2>8. Pending'
    <3>1. \A j \in Live' : slots'[j].key # k
      BY <2>6, <1>2 DEF Kept, Live
    <3> QED
      BY <3>1, <2>5, <2>7, <1>1, <1>2, <1>6 DEF Pending, BucketOf
  <2>9. ASSUME NEW j \in SlotIds, Behind(j, w1, 2 * Slots - (l - 1), Slots)
        PROVE  ~slots'[j].referenced
    <3>1. CASE j = w
      BY <3>1, <2>6
    <3>2. CASE j # w
      <4>1. 2 * Slots - (l - 1) = (2 * Slots - l) + 1 /\ 2 * Slots - l \in Int
        BY <2>3, Sizes0
      <4>2. Behind(j, w, 2 * Slots - l, Slots)
        BY <2>9, <3>2, <4>1, <1>4, BehindStep, Sizes0
      <4> QED
        BY <4>2, <3>2, <1>3, <2>6
    <3> QED
      BY <3>1, <3>2
  <2>10. ASSUME NEW j \in SlotIds, Behind(j, w1, Slots - (l - 1), Slots)
         PROVE  ~InUse(j)
    <3>1. CASE j = w
      <4>1. l <= Slots
        BY <2>10, <3>1, <2>3, <1>4, Sizes0 DEF Behind
      <4>2. Behind(w, w, 2 * Slots - l, Slots)
        BY <4>1, <2>3, <1>4, Sizes0 DEF Behind
      <4> QED
        BY <3>1, <4>2, <1>1, <1>3, <1>8
    <3>2. CASE j # w
      <4>1. Slots - (l - 1) = (Slots - l) + 1 /\ Slots - l \in Int
        BY <2>3, Sizes0
      <4>2. Behind(j, w, Slots - l, Slots)
        BY <2>10, <3>2, <4>1, <1>4, BehindStep, Sizes0
      <4> QED
        BY <4>2, <1>3
    <3> QED
      BY <3>1, <3>2
  <2>11. Sweep'
    BY <2>3, <2>5, <2>6, <2>7, <2>9, <2>10, <1>3, <1>4 DEF Sweep
  <2>12. Clock'
    BY <2>5 DEF Clock
  <2> QED
    BY <1>1, <1>4, <1>5, <2>5, <2>6, <2>8, <2>11, <2>12, Whole
<1> QED
  BY <1>7, <1>8

\* lookup marks an answer or removes it.
LEMMA LookupStep ==
  ASSUME IInv, NEW k \in Keys, Lookup(k)
  PROVE  IInv' /\ Kept /\ version' = version
<1>0. PICK i : i = Min(Found(k))
  OBVIOUS
<1>1. /\ Arena /\ hand \in SlotIds /\ cursor \in 0 .. (Blocks - 1) /\ now \in Nat /\ version \in Nat
      /\ put \in Puts /\ put.at = "none"
  BY Facts DEF Lookup
<1>2. i \in SlotIds /\ i \in Live
  <2>1. Found(k) \in SUBSET Nat /\ Found(k) \subseteq Live /\ Found(k) # {}
    BY BucketSlots, Sizes0 DEF Found, Live, Lookup
  <2> QED
    BY <1>0, <2>1, Least DEF Live
<1>3. UNCHANGED <<hand, cursor, now, version, put>>
  BY DEF Lookup
<1>4. Arena' /\ Kept
  <2>1. CASE Hit(k) # {}
    BY <2>1, <1>0, <1>1, <1>2, Touch DEF Lookup
  <2>2. CASE Hit(k) = {}
    BY <2>2, <1>0, <1>1, <1>2, RemoveKeeps DEF Lookup
  <2> QED
    BY <2>1, <2>2
<1>5. Pending' /\ Clock' /\ Sweep'
  BY <1>1, <1>3 DEF Pending, Clock, Sweep
<1> QED
  BY <1>1, <1>3, <1>4, <1>5, Whole

\* Nothing but the clock changes.
LEMMA StutterStep ==
  ASSUME IInv, UNCHANGED <<slots, used, hand, cursor, entries, occupied, version, put>>, now' \in Nat
  PROVE  IInv' /\ Kept /\ version' = version
<1>1. TypeOK'
  BY DEF IInv, TypeOK
<1>2. Placed' /\ Unique' /\ Marked' /\ Counted' /\ Kept
  BY DEF IInv, Placed, Unique, Marked, Counted, Kept, Live, InUse, BucketOf
<1>3. Pending' /\ Clock' /\ Sweep'
  BY DEF IInv, Pending, Clock, Sweep, Live, InUse, BucketOf
<1> QED
  BY <1>1, <1>2, <1>3 DEF IInv

\* Every step keeps the invariant, and only Store adds an answer.
LEMMA NextIInv ==
  ASSUME IInv, [Next]_vars
  PROVE  IInv' /\ (Store \/ (Kept /\ version' = version))
<1>1. CASE \E k \in Keys, n \in Sizes, t \in Lifetimes, neg \in BOOLEAN : Put(k, n, t, neg)
  BY <1>1, PutStep
<1>2. CASE SecondChance
  BY <1>2, SecondChanceStep
<1>3. CASE Store
  BY <1>3, StoreStep
<1>4. CASE NoRoom
  BY <1>4, NoRoomStep
<1>5. CASE Evict
  BY <1>5, EvictStep
<1>6. CASE \E k \in Keys : Lookup(k)
  BY <1>6, LookupStep
<1>7. CASE Tick
  <2>1. now' \in Nat
    BY <1>7, Facts DEF Tick
  <2> QED
    BY <1>7, <2>1, StutterStep DEF Tick
<1>8. CASE UNCHANGED vars
  BY <1>8, Facts, StutterStep DEF vars
<1> QED
  BY <1>1, <1>2, <1>3, <1>4, <1>5, <1>6, <1>7, <1>8 DEF Next

-----------------------------------------------------------------------------
(* What the shard promises.                                                *)

\* Stored as a function of the table.
FoundIn(s, k) == {i \in BucketOf(k) : s[i].count > 0 /\ s[i].key = k}
StoredIn(s) ==
  [k \in {j \in Keys : FoundIn(s, j) # {}} |->
     IF Cardinality(FoundIn(s, k)) = 1 THEN s[Min(FoundIn(s, k))].version ELSE 0]
Holds(s, i) == i \in SlotIds /\ s[i].count > 0

\* In a table where each question has one slot, of its bucket, Stored is what the slots hold.
LEMMA StoredValues ==
  ASSUME NEW s, \A i : Holds(s, i) => s[i].key \in Keys /\ i \in BucketOf(s[i].key),
         \A i, j : Holds(s, i) /\ Holds(s, j) /\ s[i].key = s[j].key => i = j
  PROVE  /\ \A i : Holds(s, i) => s[i].key \in DOMAIN StoredIn(s) /\ StoredIn(s)[s[i].key] = s[i].version
         /\ \A k \in DOMAIN StoredIn(s) : k \in Keys /\ \E i : Holds(s, i) /\ s[i].key = k
<1>1. ASSUME NEW i, Holds(s, i)
      PROVE  s[i].key \in DOMAIN StoredIn(s) /\ StoredIn(s)[s[i].key] = s[i].version
  <2>1. s[i].key \in Keys /\ i \in BucketOf(s[i].key) /\ i \in Nat
    BY <1>1, Sizes0 DEF Holds
  <2>2. FoundIn(s, s[i].key) = {i}
    <3>1. BucketOf(s[i].key) \subseteq SlotIds
      BY <2>1, BucketSlots
    <3> QED
      BY <1>1, <2>1, <3>1 DEF FoundIn, Holds
  <2>3. Cardinality({i}) = 1
    BY FS_Singleton
  <2>4. Min({i}) = i
    <3>1. {i} \in SUBSET Nat /\ {i} # {}
      BY <2>1
    <3> QED
      BY <3>1, Least
  <2> QED
    BY <2>1, <2>2, <2>3, <2>4 DEF StoredIn
<1>2. ASSUME NEW k \in DOMAIN StoredIn(s) PROVE k \in Keys /\ \E i : Holds(s, i) /\ s[i].key = k
  <2>1. k \in Keys /\ FoundIn(s, k) # {}
    BY DEF StoredIn
  <2> QED
    BY <2>1, BucketSlots DEF FoundIn, Holds
<1> QED
  BY <1>1, <1>2

\* The same of the table before and after a step.
LEMMA StoredFacts ==
  ASSUME IInv, IInv'
  PROVE  /\ Stored = StoredIn(slots) /\ Stored' = StoredIn(slots')
         /\ \A i : i \in Live <=> Holds(slots, i)
         /\ \A i : i \in Live' <=> Holds(slots', i)
         /\ \A i \in Live : slots[i].key \in DOMAIN Stored /\ Stored[slots[i].key] = slots[i].version
         /\ \A k \in DOMAIN Stored : k \in Keys /\ \E i \in Live : slots[i].key = k
         /\ \A i \in Live' : slots'[i].key \in DOMAIN Stored' /\ Stored'[slots'[i].key] = slots'[i].version
         /\ \A k \in DOMAIN Stored' : k \in Keys /\ \E i \in Live' : slots'[i].key = k
<1>1. Stored = StoredIn(slots) /\ Stored' = StoredIn(slots')
  BY DEF Stored, StoredIn, Found, FoundIn, InUse, BucketOf
<1>2. (\A i : i \in Live <=> Holds(slots, i)) /\ (\A i : i \in Live' <=> Holds(slots', i))
  BY DEF Live, Holds, InUse
<1>3. /\ \A i : Holds(slots, i) => slots[i].key \in Keys /\ i \in BucketOf(slots[i].key)
      /\ \A i, j : Holds(slots, i) /\ Holds(slots, j) /\ slots[i].key = slots[j].key => i = j
  BY <1>2 DEF IInv, Placed, Unique, Live
<1>4. /\ \A i : Holds(slots', i) => slots'[i].key \in Keys /\ i \in BucketOf(slots'[i].key)
      /\ \A i, j : Holds(slots', i) /\ Holds(slots', j) /\ slots'[i].key = slots'[j].key => i = j
  BY <1>2 DEF IInv, Placed, Unique, Live, BucketOf
<1>5. /\ \A i : Holds(slots, i) => slots[i].key \in DOMAIN StoredIn(slots)
                                   /\ StoredIn(slots)[slots[i].key] = slots[i].version
      /\ \A k \in DOMAIN StoredIn(slots) : k \in Keys /\ \E i : Holds(slots, i) /\ slots[i].key = k
  BY <1>3, StoredValues
<1>6. /\ \A i : Holds(slots', i) => slots'[i].key \in DOMAIN StoredIn(slots')
                                    /\ StoredIn(slots')[slots'[i].key] = slots'[i].version
      /\ \A k \in DOMAIN StoredIn(slots') : k \in Keys /\ \E i : Holds(slots', i) /\ slots'[i].key = k
  BY <1>4, StoredValues
<1> QED
  BY <1>1, <1>2, <1>5, <1>6

\* A step that adds no answer forgets some, or nothing.
LEMMA ForgetStep ==
  ASSUME IInv, IInv', Kept, version' = version
  PROVE  Abstract!Forget
<1>1. ASSUME NEW k \in DOMAIN Stored' PROVE k \in DOMAIN Stored /\ Stored'[k] = Stored[k]
  <2>1. PICK i \in Live' : slots'[i].key = k
    BY StoredFacts
  <2>2. i \in Live /\ slots'[i].key = slots[i].key /\ slots'[i].version = slots[i].version
    BY <2>1 DEF Kept, Live
  <2> QED
    BY <2>1, <2>2, StoredFacts
<1> QED
  BY <1>1 DEF Abstract!Forget, Abstract!OthersKept

\* Store gives its question the newest answer, and the others keep theirs.
LEMMA NewestStored ==
  ASSUME IInv, Store
  PROVE  \E k \in Keys : Abstract!Store(k)
<1>0. PICK k, t : k = put.key /\ t = put.target
  OBVIOUS
<1>1. /\ IInv' /\ k \in Keys /\ Live' = Live \cup {t} /\ t \in Live'
      /\ slots'[t].key = k /\ slots'[t].version = version + 1 /\ version' = version + 1
      /\ \A j \in SlotIds \ {t} : slots'[j] = slots[j]
  BY <1>0, StoreStep
<1>2. k \in DOMAIN Stored' /\ Stored'[k] = version'
  BY <1>1, StoredFacts
<1>3. ASSUME NEW x \in DOMAIN Stored' \ {k} PROVE x \in DOMAIN Stored /\ Stored'[x] = Stored[x]
  <2>1. PICK i \in Live' : slots'[i].key = x
    BY <1>1, StoredFacts
  <2>2. i \in Live /\ slots'[i] = slots[i]
    BY <1>1, <2>1 DEF Live
  <2> QED
    BY <1>1, <2>1, <2>2, StoredFacts
<1>4. Abstract!OthersKept({k})
  BY <1>3 DEF Abstract!OthersKept
<1> QED
  BY <1>1, <1>2, <1>4 DEF Abstract!Store

\* The invariant holds in every state.
THEOREM Invariance == Spec => []IInv
<1>1. Init => IInv
  BY InitIInv
<1>2. IInv /\ [Next]_vars => IInv'
  BY NextIInv
<1> QED
  BY <1>1, <1>2, PTL DEF Spec

\* Slots, bitmap, hand, cursor, statistics and the put under way keep their types.
THEOREM TypeCorrect == Spec => []TypeOK
<1>1. IInv => TypeOK
  BY DEF IInv
<1> QED
  BY <1>1, Invariance, PTL

\* No block is shared, none is lost, and the statistics are right, for any sizes of
\* the table and the arena.
THEOREM ArenaStaysExact == Spec => []ArenaExact
<1>1. IInv => ArenaExact
  <2> SUFFICES ASSUME IInv PROVE ArenaExact
    OBVIOUS
  <2>1. /\ slots \in [SlotIds -> Slot] /\ used \subseteq 0 .. (Blocks - 1) /\ Placed /\ Marked /\ Counted
    BY DEF IInv, TypeOK
  <2>2. \A i \in Live : BlocksOf(slots[i]) \subseteq 0 .. (Blocks - 1)
    <3>1. ASSUME NEW i \in Live PROVE BlocksOf(slots[i]) \subseteq 0 .. (Blocks - 1)
      <4>1. slots[i] \in Slot /\ slots[i].first + slots[i].count <= Blocks
        BY <2>1 DEF Placed, Live
      <4> QED
        BY <4>1, BlocksInside
    <3> QED
      BY <3>1
  <2>3. used = UNION {BlocksOf(slots[i]) : i \in Live}
    <3>1. \A b : b \in used <=> \E i \in Live : b \in BlocksOf(slots[i])
      BY <2>1, <2>2 DEF Marked
    <3> QED
      BY <3>1
  <2> QED
    BY <2>1, <2>3 DEF ArenaExact, Marked, Counted, Live
<1> QED
  BY <1>1, Invariance, PTL

\* put never gives up on a message that fits the arena: when it returns, the answer
\* is stored.
PutStores == [][put.at # "none" /\ put'.at = "none" => Store]_vars

\* The loops of put end with a victim: the turns that second chances may take are enough.
THEOREM PutsSucceed == Spec => PutStores
<1>1. IInv /\ [Next]_vars => [put.at # "none" /\ put'.at = "none" => Store]_vars
  <2> SUFFICES ASSUME IInv, Next, put.at # "none", put'.at = "none" PROVE Store
    BY DEF vars
  <2>1. CASE SecondChance
    <3>1. put'.at \in {"clock", "room"}
      BY <2>1, Facts DEF SecondChance, Puts
    <3> QED
      BY <3>1
  <2>2. CASE NoRoom
    BY <2>2, Facts DEF NoRoom, Puts
  <2>3. CASE Evict
    BY <2>3, EvictStep
  <2> QED
    BY <2>1, <2>2, <2>3 DEF Next, Put, Lookup, Tick
<1> QED
  BY <1>1, Invariance, PTL DEF Spec, PutStores

\* The shard implements AnswerCache: every step stores the newest answer of one
\* question, or forgets, or changes nothing a user can see.
THEOREM Implements == Spec => ImplementsAnswerCache
<1>1. Init => Abstract!Init
  <2> SUFFICES ASSUME Init PROVE Stored = <<>> /\ version = 0
    BY DEF Abstract!Init
  <2>1. \A k \in Keys : Found(k) = {}
    BY Blank, BucketSlots DEF Init, Found, InUse
  <2>2. {k \in Keys : Found(k) # {}} = {}
    BY <2>1
  <2>3. Stored = <<>>
    BY <2>2 DEF Stored
  <2> QED
    BY <2>3 DEF Init
<1>2. IInv /\ [Next]_vars => [Abstract!Next]_<<Stored, version>>
  <2> SUFFICES ASSUME IInv, [Next]_vars PROVE Abstract!Next
    OBVIOUS
  <2>1. CASE Store
    BY <2>1, NewestStored DEF Abstract!Next
  <2>2. CASE ~Store
    BY <2>2, NextIInv, ForgetStep DEF Abstract!Next
  <2> QED
    BY <2>1, <2>2
<1> QED
  BY <1>1, <1>2, Invariance, PTL DEF Spec, ImplementsAnswerCache, Abstract!Spec

(***************************************************************************)
(* The questions.                                                          *)
(***************************************************************************)

\* The fields of a request.
Fields == DOMAIN PL!NoRequest

\* An answer comes from the upstream the captured configuration has for the device.
FromOwn(d, r, reply) == reply.from = PL!Captured(r).upstream[PL!Effective(d, r).route]

\* A request: what it was answered comes from its own upstream, and it is not about a private name once it is admitted.
RequestSound(d, r) ==
  /\ DOMAIN r = Fields /\ r = [x \in Fields |-> r[x]]
  /\ \A reply \in r.reply : FromOwn(d, r, reply)
  /\ r.pc \in {"lookup", "wait", "direct", "fallback", "finish"} => r.name \notin Private

\* Every request is sound.
RequestsSound(R) == R = [d \in Devices |-> R[d]] /\ \A d \in Devices : RequestSound(d, R[d])

\* The exchange of a key has the configuration its route was numbered in.
FlightsSound(F) == \A k \in DOMAIN F : F[k] = k.generation

\* What is cached for a key comes from the upstream of its route in that configuration.
KeptSound(C) ==
  \A k \in DOMAIN C : /\ C[k] = [message |-> C[k].message, from |-> C[k].from, fresh |-> C[k].fresh]
                     /\ C[k].from = Config[k.generation].upstream[k.route]

\* The inductive invariant of Pipeline.
PlInv == RequestsSound(request) /\ FlightsSound(flights) /\ KeptSound(cache) /\ PL!PrivateStaysLocal

\* The fields of a request that is not begun.
LEMMA PlFields ==
  /\ Fields = {"pc", "name", "type", "recursive", "cacheable", "generation", "leases", "vouched", "target", "reply", "kind"}
  /\ PL!NoRequest.reply = {} /\ PL!NoRequest.pc = "idle" /\ PL!NoRequest = [x \in Fields |-> PL!NoRequest[x]]
  BY DEF Fields, PL!NoRequest

\* A step that keeps what an answer depends on.
LEMMA PlChange ==
  ASSUME NEW r, DOMAIN r = Fields, r = [x \in Fields |-> r[x]], NEW pc, NEW s, s = [r EXCEPT !.pc = pc]
  PROVE  /\ DOMAIN s = Fields /\ s = [x \in Fields |-> s[x]] /\ s.pc = pc /\ s.reply = r.reply /\ s.name = r.name
         /\ s.generation = r.generation /\ s.vouched = r.vouched
  BY PlFields

\* A request ends.
LEMMA PlDone ==
  ASSUME PlInv, NEW d \in Devices, NEW r, RequestSound(d, r), NEW kind, NEW reply, \A x \in reply : FromOwn(d, r, x),
         PL!Done(d, r, kind, reply)
  PROVE  RequestsSound(request')
<1> DEFINE base == IF reply = {} THEN PL!NoRequest ELSE r
           s == [base EXCEPT !.pc = "done", !.kind = kind, !.reply = reply]
<1>1. request' = [request EXCEPT ![d] = s]
  BY DEF PL!Done, PL!Become
<1>2. request'[d] = s
  BY <1>1 DEF PlInv, RequestsSound
<1>3. DOMAIN base = Fields /\ base = [x \in Fields |-> base[x]]
  BY PlFields DEF RequestSound
<1> HIDE DEF base
<1>4. DOMAIN s = Fields /\ s = [x \in Fields |-> s[x]]
  BY <1>3
<1>5. s.reply = reply /\ s.pc = "done" /\ s.generation = base.generation /\ s.vouched = base.vouched
  BY <1>3, PlFields
<1> HIDE DEF s
<1>6. \A x \in s.reply : FromOwn(d, s, x)
  <2>1. CASE reply = {}
    BY <1>5, <2>1
  <2>2. CASE reply # {}
    <3>1. s.generation = r.generation /\ s.vouched = r.vouched
      BY <1>5, <2>2 DEF base
    <3> QED
      BY <1>5, <3>1 DEF FromOwn, PL!Captured, PL!Effective
  <2> QED
    BY <2>1, <2>2
<1>7. RequestSound(d, s)
  BY <1>4, <1>5, <1>6 DEF RequestSound
<1> QED
  BY <1>1, <1>7 DEF PlInv, RequestsSound

\* What a request was answered stays its own.
LEMMA PlSame ==
  ASSUME NEW d, NEW r, RequestSound(d, r), NEW s, s.reply = r.reply, s.generation = r.generation, s.vouched = r.vouched
  PROVE  \A x \in s.reply : FromOwn(d, s, x)
<1>1. \A x \in r.reply : FromOwn(d, r, x)
  BY DEF RequestSound
<1>2. PL!Captured(s) = PL!Captured(r) /\ PL!Effective(d, s) = PL!Effective(d, r)
  BY DEF PL!Captured, PL!Effective
<1> QED
  BY <1>1, <1>2 DEF FromOwn

\* A request changes its step, and its target.
LEMMA PlBecome ==
  ASSUME PlInv, NEW d \in Devices, NEW r, RequestSound(d, r), NEW s, s.pc \in {"lookup", "wait", "direct", "fallback"} => r.name \notin Private,
         DOMAIN s = Fields, s = [x \in Fields |-> s[x]], s.reply = r.reply, s.name = r.name, s.generation = r.generation, s.vouched = r.vouched,
         s.pc # "finish", PL!Become(d, s)
  PROVE  RequestsSound(request')
<1>1. \A x \in s.reply : FromOwn(d, s, x)
  BY PlSame
<1>2. RequestSound(d, s)
  BY <1>1 DEF RequestSound
<1>3. request' = [request EXCEPT ![d] = s]
  BY DEF PL!Become
<1> QED
  BY <1>2, <1>3 DEF PlInv, RequestsSound

\* A question that is captured is not answered yet.
LEMMA PlCaptured ==
  ASSUME NEW d \in Devices, NEW r \in PL!Captures(d)
  PROVE  RequestSound(d, r)
<1>1. PICK q, l : r = PL!Capture(q, l)
  BY DEF PL!Captures
<1>2. DOMAIN r = Fields /\ r = [x \in Fields |-> r[x]] /\ r.reply = {} /\ r.pc = "idle"
  BY <1>1, PlFields DEF PL!Capture
<1> QED
  BY <1>2 DEF RequestSound

\* At first nothing was asked.
LEMMA PlInit == PL!Init => PlInv
  BY PlFields DEF PL!Init, PlInv, RequestsSound, RequestSound, FlightsSound, KeptSound, PL!PrivateStaysLocal

\* The key of a request leads to its own upstream.
LEMMA PlKey ==
  ASSUME NEW d, NEW r
  PROVE  PL!CacheKey(d, r).generation = r.generation /\ PL!CacheKey(d, r).route = PL!Effective(d, r).route
  BY DEF PL!CacheKey

\* A request ends with an answer from its own upstream, or none.
LEMMA PlFinish ==
  ASSUME PlInv, NEW d \in Devices, NEW r, RequestSound(d, r), NEW reply, FromOwn(d, r, reply), PL!Finish(d, r, reply)
  PROVE  RequestsSound(request')
<1>1. \/ PL!Done(d, r, "error", {}) \/ PL!Done(d, r, "block", {}) \/ PL!Done(d, r, "answer", {reply})
  BY DEF PL!Finish
<1>2. \A x \in {reply} : FromOwn(d, r, x)
  OBVIOUS
<1> QED
  BY <1>1, <1>2, PlDone

\* The same when it comes from the cache.
LEMMA PlFinishCached ==
  ASSUME PlInv, NEW d \in Devices, NEW r, RequestSound(d, r), PL!CacheKey(d, r) \in DOMAIN cache, PL!FinishCached(d, r, PL!CacheKey(d, r))
  PROVE  RequestsSound(request')
<1> DEFINE k == PL!CacheKey(d, r)
<1>1. PL!Reply(k).from = cache[k].from
  BY DEF PL!Reply
<1>2. cache[k].from = Config[k.generation].upstream[k.route]
  BY DEF PlInv, KeptSound
<1>3. FromOwn(d, r, PL!Reply(k))
  BY <1>1, <1>2, PlKey DEF FromOwn, PL!Captured
<1> QED
  BY <1>3, PlFinish DEF PL!FinishCached

\* A question is answered from local data, continued, blocked or admitted.
LEMMA PlAsk ==
  ASSUME PlInv, NEW d \in Devices, NEW r \in PL!Captures(d), PL!AnswerLocal(d, r) \/ PL!ContinueLocal(d, r) \/ PL!Block(d, r) \/ PL!Admit(d, r)
  PROVE  PlInv'
<1>1. RequestSound(d, r) /\ DOMAIN r = Fields /\ r = [x \in Fields |-> r[x]]
  BY PlCaptured DEF RequestSound
<1>2. flights' = flights /\ cache' = cache
  BY DEF PL!AnswerLocal, PL!ContinueLocal, PL!Block, PL!Admit
<1>3. RequestsSound(request') /\ PL!PrivateStaysLocal' => PlInv'
  BY <1>2 DEF PlInv
<1>4. PL!PrivateStaysLocal
  BY DEF PlInv
<1>5. CASE asked' = asked /\ \E kind \in {"local", "block"} : PL!Done(d, r, kind, {})
  BY <1>1, <1>3, <1>4, <1>5, PlDone DEF PL!PrivateStaysLocal
<1>6. CASE PL!Admit(d, r)
  <2> DEFINE s == [r EXCEPT !.pc = "lookup"]
  <2>1. DOMAIN s = Fields /\ s = [x \in Fields |-> s[x]] /\ s.pc = "lookup" /\ s.reply = r.reply /\ s.name = r.name
         /\ s.generation = r.generation /\ s.vouched = r.vouched
    BY <1>1, PlChange
  <2>2. PL!Become(d, s) /\ r.name \notin Private /\ asked' = asked
    BY <1>6 DEF PL!Admit, PL!Refused
  <2> HIDE DEF s
  <2>3. RequestsSound(request')
    BY <1>1, <2>1, <2>2, PlBecome
  <2> QED
    BY <1>3, <1>4, <2>2, <2>3 DEF PL!PrivateStaysLocal
<1>7. CASE PL!ContinueLocal(d, r)
  <2>1. PICK target : IF PL!Continues(r, target)
           THEN PL!Become(d, [r EXCEPT !.pc = "continue", !.target = target]) /\ asked' = asked \cup {target}
           ELSE PL!Done(d, r, "local", {}) /\ UNCHANGED asked
    BY <1>7 DEF PL!ContinueLocal
  <2>2. CASE ~PL!Continues(r, target)
    BY <1>5, <2>1, <2>2
  <2>3. CASE PL!Continues(r, target)
    <3> DEFINE s == [r EXCEPT !.pc = "continue", !.target = target]
    <3>1. DOMAIN s = Fields /\ s = [x \in Fields |-> s[x]] /\ s.pc = "continue" /\ s.reply = r.reply /\ s.name = r.name
           /\ s.generation = r.generation /\ s.vouched = r.vouched
      BY <1>1, PlFields
    <3>2. PL!Become(d, s) /\ asked' = asked \cup {target} /\ target \notin Private
      BY <2>1, <2>3 DEF PL!Continues
    <3> HIDE DEF s
    <3>3. RequestsSound(request')
      BY <1>1, <3>1, <3>2, PlBecome
    <3> QED
      BY <1>3, <1>4, <3>2, <3>3 DEF PL!PrivateStaysLocal
  <2> QED
    BY <2>2, <2>3
<1> QED
  BY <1>5, <1>6, <1>7 DEF PL!AnswerLocal, PL!Block

\* An exchange that is begun or joined has the configuration of its key.
LEMMA PlJoined ==
  ASSUME FlightsSound(flights), NEW k, NEW g, k.generation = g
  PROVE  FlightsSound(PL!Joined(k, g))
  BY DEF FlightsSound, PL!Joined

\* What is sent for an admitted name.
LEMMA PlSent ==
  ASSUME PlInv, NEW r, r.name \notin Private, asked' = asked \cup {r.name} \/ asked' = asked
  PROVE  PL!PrivateStaysLocal'
  BY DEF PlInv, PL!PrivateStaysLocal

\* A device's request is sound.
LEMMA PlRequest ==
  ASSUME PlInv, NEW d \in Devices
  PROVE  /\ RequestSound(d, request[d]) /\ DOMAIN request[d] = Fields /\ request[d] = [x \in Fields |-> request[d][x]]
         /\ request[d].pc \in {"lookup", "wait", "direct", "fallback", "finish"} => request[d].name \notin Private
         /\ PL!PrivateStaysLocal /\ FlightsSound(flights) /\ KeptSound(cache)
  BY DEF PlInv, RequestsSound, RequestSound

\* An answer from the cache, which may be refreshed.
LEMMA PlHit ==
  ASSUME PlInv, NEW d \in Devices, PL!LookupHit(d)
  PROVE  PlInv'
<1> DEFINE r == request[d]
           k == PL!CacheKey(d, r)
<1>1. RequestSound(d, r) /\ FlightsSound(flights) /\ KeptSound(cache)
  BY PlRequest
<1>2. r.pc = "lookup" /\ k \in DOMAIN cache /\ PL!FinishCached(d, r, k) /\ cache' = cache
  BY DEF PL!LookupHit
<1>3. r.name \notin Private
  BY <1>2, PlRequest
<1>4. \/ flights' = PL!Joined(k, r.generation) /\ asked' = asked \cup {r.name}
      \/ flights' = flights /\ asked' = asked
  BY DEF PL!LookupHit
<1>5. RequestsSound(request')
  BY <1>1, <1>2, PlFinishCached
<1>6. k.generation = r.generation
  BY PlKey
<1> HIDE DEF k, r
<1>7. PL!PrivateStaysLocal'
  BY <1>3, <1>4, PlSent
<1>8. FlightsSound(flights')
  BY <1>1, <1>4, <1>6, PlJoined
<1> QED
  BY <1>1, <1>2, <1>5, <1>7, <1>8 DEF PlInv

\* Without a usable answer in the cache the question is refused, shared, sent directly, or falls back.
LEMMA PlMiss ==
  ASSUME PlInv, NEW d \in Devices, PL!LookupMiss(d)
  PROVE  PlInv'
<1> DEFINE r == request[d]
           k == PL!CacheKey(d, r)
           s(pc) == [r EXCEPT !.pc = pc]
<1>1. RequestSound(d, r) /\ FlightsSound(flights) /\ KeptSound(cache) /\ DOMAIN r = Fields /\ r = [x \in Fields |-> r[x]]
  BY PlRequest
<1>2. r.pc = "lookup" /\ cache' = cache
  BY DEF PL!LookupMiss
<1>3. r.name \notin Private
  BY <1>2, PlRequest
<1>4. /\ \/ flights' = PL!Joined(k, r.generation) \/ flights' = flights
      /\ \/ asked' = asked \cup {r.name} \/ asked' = asked
      /\ \/ PL!Done(d, r, "error", {}) \/ \E pc \in {"wait", "direct", "fallback"} : PL!Become(d, s(pc))
  BY DEF PL!LookupMiss
<1>6. k.generation = r.generation
  BY PlKey
<1> HIDE DEF k, r
<1>5. RequestsSound(request')
  <2>1. CASE PL!Done(d, r, "error", {})
    BY <1>1, <2>1, PlDone
  <2>2. ASSUME NEW pc \in {"wait", "direct", "fallback"}, PL!Become(d, s(pc))
        PROVE  RequestsSound(request')
    <3> DEFINE t == s(pc)
    <3>1. DOMAIN t = Fields /\ t = [x \in Fields |-> t[x]] /\ t.pc = pc /\ t.reply = r.reply /\ t.name = r.name
           /\ t.generation = r.generation /\ t.vouched = r.vouched
      BY <1>1, PlChange
    <3>2. PL!Become(d, t)
      BY <2>2
    <3> HIDE DEF t
    <3> QED
      BY <1>1, <1>3, <3>1, <3>2, PlBecome
  <2> QED
    BY <1>4, <2>1, <2>2
<1>7. PL!PrivateStaysLocal'
  BY <1>3, <1>4, PlSent
<1>8. FlightsSound(flights')
  BY <1>1, <1>4, <1>6, PlJoined
<1> QED
  BY <1>1, <1>2, <1>5, <1>7, <1>8 DEF PlInv

\* Steps that only end a request.
LEMMA PlEnds ==
  ASSUME PlInv, RequestsSound(request'), UNCHANGED <<cache, flights, asked>>
  PROVE  PlInv'
  BY DEF PlInv, PL!PrivateStaysLocal

\* After a failure: an expired answer, the failure itself, or an error.
LEMMA PlFallBack ==
  ASSUME PlInv, NEW d \in Devices, PL!FallBack(d)
  PROVE  PlInv'
<1> DEFINE r == request[d]
           k == PL!CacheKey(d, r)
<1>1. RequestSound(d, r)
  BY PlRequest
<1>2. \/ k \in DOMAIN cache /\ PL!FinishCached(d, r, k)
      \/ PL!Done(d, r, "error", {})
      \/ \E reply \in r.reply : PL!Finish(d, r, reply)
  BY DEF PL!FallBack
<1>3. UNCHANGED <<cache, flights, asked>>
  BY DEF PL!FallBack
<1> HIDE DEF r
<1>4. RequestsSound(request')
  <2>1. CASE k \in DOMAIN cache /\ PL!FinishCached(d, r, k)
    BY <1>1, <2>1, PlFinishCached
  <2>2. CASE PL!Done(d, r, "error", {})
    BY <1>1, <2>2, PlDone
  <2>3. CASE \E reply \in r.reply : PL!Finish(d, r, reply)
    <3>1. \A reply \in r.reply : FromOwn(d, r, reply)
      BY <1>1 DEF RequestSound
    <3> QED
      BY <1>1, <2>3, <3>1, PlFinish
  <2> QED
    BY <1>2, <2>1, <2>2, <2>3
<1> QED
  BY <1>3, <1>4, PlEnds

\* The shared, direct and local ends of a request, and its end without an answer.
LEMMA PlFinishes ==
  ASSUME PlInv, NEW d \in Devices, PL!FinishShared(d) \/ PL!FinishDirect(d) \/ PL!FinishLocal(d) \/ PL!Abandon(d)
  PROVE  PlInv'
<1> DEFINE r == request[d]
<1>1. RequestSound(d, r) /\ \A reply \in r.reply : FromOwn(d, r, reply)
  BY PlRequest DEF RequestSound
<1>2. UNCHANGED <<cache, flights, asked>>
  BY Zenon DEF PL!FinishShared, PL!FinishDirect, PL!FinishLocal, PL!Abandon
<1>3. CASE PL!FinishShared(d)
  <2>1. PICK reply \in r.reply : PL!Finish(d, r, reply)
    BY <1>3 DEF PL!FinishShared
  <2> QED
    BY <1>1, <1>2, <2>1, PlFinish, PlEnds
<1>4. CASE PL!FinishDirect(d)
  <2> DEFINE from == PL!Captured(r).upstream[PL!Effective(d, r).route]
  <2>1. PICK m : PL!Finish(d, r, [message |-> m, from |-> from])
    BY <1>4 DEF PL!FinishDirect
  <2>2. FromOwn(d, r, [message |-> m, from |-> from])
    BY DEF FromOwn
  <2> QED
    BY <1>1, <1>2, <2>1, <2>2, PlFinish, PlEnds
<1>5. CASE PL!FinishLocal(d)
  <2> DEFINE from == PL!Captured(r).upstream[PL!Effective(d, r).route]
  <2>1. PICK m : PL!Done(d, r, "continued", {[message |-> m, from |-> from]}) \/ PL!Done(d, r, "error", {})
    BY <1>5, Zenon DEF PL!FinishLocal
  <2>2. \A x \in {[message |-> m, from |-> from]} : FromOwn(d, r, x)
    BY DEF FromOwn
  <2> QED
    BY <1>1, <1>2, <2>1, <2>2, PlDone, PlEnds
<1>6. CASE PL!Abandon(d)
  BY <1>1, <1>2, <1>6, PlDone, PlEnds DEF PL!Abandon
<1> QED
  BY <1>3, <1>4, <1>5, <1>6

\* What a shared exchange asks is the upstream of the route of its key, in the configuration that numbered it.
LEMMA PlAsked ==
  ASSUME PlInv, NEW k \in DOMAIN flights
  PROVE  PL!Asked(k) = Config[k.generation].upstream[k.route]
  BY DEF PlInv, FlightsSound, PL!Asked

\* Requests that change only where they wait for an exchange.
LEMMA PlWoken ==
  ASSUME PlInv, DOMAIN request' = Devices, request' = [d \in Devices |-> request'[d]],
         \A d \in Devices : request'[d] = request[d] \/ RequestSound(d, request'[d])
  PROVE  RequestsSound(request')
  BY DEF PlInv, RequestsSound

\* The reply to a shared exchange is that of the upstream of everybody who waits.
LEMMA PlReplies ==
  ASSUME PlInv, NEW k \in DOMAIN flights, NEW m, PL!FlightReplies(k, m)
  PROVE  PlInv'
<1> DEFINE from == PL!Asked(k)
           pc == IF m.code = "servfail" THEN "fallback" ELSE "finish"
           reply == [message |-> m, from |-> from]
           W(d) == [request[d] EXCEPT !.pc = pc, !.reply = {reply}]
<1>1. from = Config[k.generation].upstream[k.route] /\ reply.from = from
  BY PlAsked
<1>2. pc \in {"fallback", "finish"}
  OBVIOUS
<1>3. request' = [d \in Devices |-> IF d \in PL!Waiting(k) THEN W(d) ELSE request[d]]
  BY DEF PL!FlightReplies
<1> HIDE DEF pc, reply
<1>4. ASSUME NEW d \in PL!Waiting(k)
      PROVE  RequestSound(d, W(d))
  <2>1. d \in Devices /\ request[d].pc = "wait" /\ PL!CacheKey(d, request[d]) = k
    BY DEF PL!Waiting
  <2>2. DOMAIN request[d] = Fields /\ request[d].name \notin Private
    BY <2>1, PlRequest
  <2> DEFINE s == W(d)
  <2>3. DOMAIN s = Fields /\ s = [x \in Fields |-> s[x]] /\ s.reply = {reply} /\ s.name = request[d].name
         /\ s.generation = request[d].generation /\ s.vouched = request[d].vouched
    BY <2>2, PlFields
  <2>4. k.generation = request[d].generation /\ k.route = PL!Effective(d, request[d]).route
    BY <2>1, PlKey
  <2> HIDE DEF s
  <2>5. FromOwn(d, s, reply)
    BY <1>1, <2>3, <2>4, Zenon DEF FromOwn, PL!Captured, PL!Effective
  <2>6. RequestSound(d, s)
    BY <2>2, <2>3, <2>5 DEF RequestSound
  <2> QED
    BY <2>6 DEF s
<1> HIDE DEF W
<1>5. RequestsSound(request')
  <2>1. \A d \in Devices : request'[d] = request[d] \/ RequestSound(d, request'[d])
    BY <1>3, <1>4
  <2> QED
    BY <1>3, <2>1, PlWoken
<1>6. FlightsSound(flights')
  BY DEF PL!FlightReplies, PlInv, FlightsSound, PL!Restrict
<1>7. KeptSound(cache')
  <2>1. KeptSound(cache)
    BY DEF PlInv
  <2>2. CASE cache' = cache
    BY <2>1, <2>2
  <2>3. CASE cache' = [x \in DOMAIN cache \cup {k} |->
                        IF x = k THEN [message |-> m, from |-> from, fresh |-> TRUE] ELSE cache[x]]
    BY <1>1, <2>1, <2>3, Zenon DEF KeptSound
  <2> QED
    BY <2>2, <2>3 DEF PL!FlightReplies
<1> QED
  BY <1>5, <1>6, <1>7 DEF PlInv, PL!PrivateStaysLocal, PL!FlightReplies

\* An exchange fails.
LEMMA PlFails ==
  ASSUME PlInv, NEW k \in DOMAIN flights, PL!FlightFails(k)
  PROVE  PlInv'
<1> DEFINE W(d) == [request[d] EXCEPT !.pc = "fallback"]
<1>1. request' = [d \in Devices |-> IF d \in PL!Waiting(k) THEN W(d) ELSE request[d]]
  BY DEF PL!FlightFails
<1>2. ASSUME NEW d \in PL!Waiting(k)
      PROVE  RequestSound(d, W(d))
  <2> DEFINE r == request[d]
             s == W(d)
  <2>1. d \in Devices /\ r.pc = "wait"
    BY DEF PL!Waiting
  <2>2. RequestSound(d, r) /\ DOMAIN r = Fields /\ r = [x \in Fields |-> r[x]] /\ r.name \notin Private
    BY <2>1, PlRequest
  <2>3. DOMAIN s = Fields /\ s = [x \in Fields |-> s[x]] /\ s.reply = r.reply /\ s.name = r.name
         /\ s.generation = r.generation /\ s.vouched = r.vouched
    BY <2>2, PlChange
  <2> HIDE DEF s, r
  <2>4. \A x \in s.reply : FromOwn(d, s, x)
    BY <2>2, <2>3, PlSame
  <2>5. RequestSound(d, s)
    BY <2>2, <2>3, <2>4 DEF RequestSound
  <2> QED
    BY <2>5 DEF s
<1> HIDE DEF W
<1>3. RequestsSound(request')
  <2>1. \A d \in Devices : request'[d] = request[d] \/ RequestSound(d, request'[d])
    BY <1>1, <1>2
  <2> QED
    BY <1>1, <2>1, PlWoken
<1>4. FlightsSound(flights')
  BY DEF PL!FlightFails, PlInv, FlightsSound, PL!Restrict
<1> QED
  BY <1>3, <1>4 DEF PlInv, PL!PrivateStaysLocal, PL!FlightFails

\* A cached answer expires, or is evicted.
LEMMA PlAge ==
  ASSUME PlInv, NEW k \in DOMAIN cache, PL!Age(k)
  PROVE  PlInv'
<1>1. KeptSound(cache)
  BY DEF PlInv
<1>2. CASE cache' = [cache EXCEPT ![k].fresh = FALSE]
  <2> DEFINE c == cache[k]
             e == [c EXCEPT !.fresh = FALSE]
  <2>1. c = [message |-> c.message, from |-> c.from, fresh |-> c.fresh] /\ c.from = Config[k.generation].upstream[k.route]
    BY <1>1 DEF KeptSound
  <2> HIDE DEF c
  <2>4. DOMAIN c = {"message", "from", "fresh"}
    BY <2>1
  <2>5. e = [x \in DOMAIN c |-> IF x = "fresh" THEN FALSE ELSE c[x]]
    OBVIOUS
  <2> HIDE DEF e
  <2>2. e = [message |-> e.message, from |-> e.from, fresh |-> e.fresh] /\ e.from = c.from
    BY <2>4, <2>5
  <2>3. cache' = [cache EXCEPT ![k] = e]
    BY <1>2 DEF c, e
  <2>6. KeptSound(cache')
    BY <1>1, <2>1, <2>2, <2>3 DEF KeptSound
  <2> QED
    BY <2>6 DEF PL!Age, PlInv, PL!PrivateStaysLocal
<1>3. CASE cache' = PL!Restrict(cache, DOMAIN cache \ {k})
  <2>1. KeptSound(cache')
    BY <1>1, <1>3 DEF KeptSound, PL!Restrict
  <2> QED
    BY <2>1 DEF PL!Age, PlInv, PL!PrivateStaysLocal
<1> QED
  BY <1>2, <1>3 DEF PL!Age

\* Every step keeps the invariant.
LEMMA PlNext == PlInv /\ [PL!Next]_PL!vars => PlInv'
<1> SUFFICES ASSUME PlInv, [PL!Next]_PL!vars PROVE PlInv'
  OBVIOUS
<1>1. ASSUME NEW d \in Devices, NEW r \in PL!Captures(d), PL!AnswerLocal(d, r) \/ PL!ContinueLocal(d, r) \/ PL!Block(d, r) \/ PL!Admit(d, r)
      PROVE  PlInv'
  BY <1>1, PlAsk
<1>2. ASSUME NEW d \in Devices,
             \/ PL!LookupHit(d) \/ PL!LookupMiss(d) \/ PL!FallBack(d) \/ PL!FinishShared(d) \/ PL!FinishDirect(d) \/ PL!FinishLocal(d) \/ PL!Abandon(d)
      PROVE  PlInv'
  BY <1>2, PlHit, PlMiss, PlFallBack, PlFinishes
<1>3. ASSUME NEW k \in DOMAIN flights, PL!FlightFails(k) \/ \E m \in PL!RepliesTo(k) : PL!FlightReplies(k, m)
      PROVE  PlInv'
  BY <1>3, PlFails, PlReplies
<1>4. ASSUME NEW k \in DOMAIN cache, PL!Age(k)
      PROVE  PlInv'
  BY <1>4, PlAge
<1>5. CASE PL!Publish
  BY <1>5 DEF PL!Publish, PlInv, PL!PrivateStaysLocal
<1>6. CASE UNCHANGED PL!vars
  BY <1>6 DEF PL!vars, PlInv, PL!PrivateStaysLocal
<1> QED
  BY <1>1, <1>2, <1>3, <1>4, <1>5, <1>6 DEF PL!Next

\* The invariant says whose answers are given, and what is sent.
LEMMA PlOwn == PlInv => PL!AnswersFromOwnRoute /\ PL!PrivateStaysLocal
<1> SUFFICES ASSUME PlInv, NEW d \in Devices, NEW reply \in request[d].reply PROVE FromOwn(d, request[d], reply)
  BY DEF PL!AnswersFromOwnRoute, FromOwn, PlInv
<1> QED
  BY PlRequest DEF RequestSound

\* Every answer a device is given comes from the upstream that the captured
\* configuration names for it, and no private reverse name is sent upstream
\* (Pipeline: cacheKeyRoute, exchange, shared, PrivateReverse, completeLocal).
THEOREM AnswersStayOwn == PL!Spec => [](PL!AnswersFromOwnRoute /\ PL!PrivateStaysLocal)
  BY PlInit, PlNext, PlOwn, PTL DEF PL!Spec

(***************************************************************************)
(* The names of the leases.                                                *)
(***************************************************************************)

\* Min and Cardinality are the same in LeaseNames.
LEMMA LnMin == \A S : LN!Min(S) = Min(S)
  BY DEF LN!Min, Min

\* See LnMin.
LEMMA LnCardinality == \A S : LN!Cardinality(S) = Cardinality(S)
  BY DEF LN!Cardinality, Cardinality

\* A label that a reservation or explicit data has cannot be generated.
LnTaken(s, l) == l \in s.exists \/ \E b \in DOMAIN s.reservations : s.reservations[b] = l

\* What BuildLeases needs of a configuration.
LnSound(s) ==
  /\ IsFiniteSet(s.exists) /\ IsFiniteSet(DOMAIN s.reservations)
  /\ \A a, b \in DOMAIN s.reservations : s.reservations[a] = s.reservations[b] => a = b

\* There are more counters to try than labels that are taken.
LEMMA LnFree ==
  ASSUME NEW s, LnSound(s), NEW a
  PROVE  LET n == Cardinality(s.exists) + Cardinality(DOMAIN s.reservations) IN
         n \in Nat /\ \E i \in 0 .. n : ~LnTaken(s, <<"host", a, i>>)
<1> DEFINE E == s.exists
           D == DOMAIN s.reservations
           n == Cardinality(E) + Cardinality(D)
           L == {s.reservations[b] : b \in D}
           f == [i \in 0 .. n |-> <<"host", a, i>>]
           g == [b \in D |-> s.reservations[b]]
<1>1. IsFiniteSet(E) /\ IsFiniteSet(D)
  BY DEF LnSound
<1>2. Cardinality(E) \in Nat /\ Cardinality(D) \in Nat /\ n \in Nat
  BY <1>1, FS_CardinalityType
<1>3. IsFiniteSet(L) /\ Cardinality(L) <= Cardinality(D) /\ Cardinality(L) \in Nat
  <2>1. g \in Surjection(D, L)
    BY DEF Surjection
  <2>2. IsFiniteSet(L) /\ Cardinality(L) <= Cardinality(D)
    BY <1>1, <2>1, FS_Surjection
  <2> QED
    BY <2>2, FS_CardinalityType
<1>4. IsFiniteSet(E \cup L) /\ Cardinality(E \cup L) <= n /\ Cardinality(E \cup L) \in Nat
  <2> HIDE DEF L, E, D
  <2>1. /\ IsFiniteSet(E \cup L)
        /\ Cardinality(E \cup L) = Cardinality(E) + Cardinality(L) - Cardinality(E \cap L)
    BY <1>1, <1>3, FS_Union
  <2>2. Cardinality(E \cup L) \in Nat
    BY <2>1, FS_CardinalityType
  <2>3. IsFiniteSet(E \cap L)
    BY <1>1, FS_Intersection
  <2>4. Cardinality(E \cap L) \in Nat
    BY <2>3, FS_CardinalityType
  <2> QED
    BY <1>2, <1>3, <2>1, <2>2, <2>4
<1>5. SUFFICES ASSUME \A i \in 0 .. n : LnTaken(s, <<"host", a, i>>) PROVE FALSE
  BY <1>2
<1>6. f \in Injection(0 .. n, E \cup L)
  <2>1. \A i \in 0 .. n : <<"host", a, i>> \in E \cup L
    BY <1>5 DEF LnTaken
  <2>2. f \in [0 .. n -> E \cup L]
    BY <2>1
  <2>3. \A i, j \in 0 .. n : f[i] = f[j] => i = j
    OBVIOUS
  <2> QED
    BY <2>2, <2>3 DEF Injection, IsInjective
<1>7. IsFiniteSet(0 .. n) /\ Cardinality(0 .. n) = n + 1
  <2> HIDE DEF n
  <2>1. 0 \in Int /\ n \in Int /\ ~(0 > n) /\ n - 0 + 1 = n + 1
    BY <1>2
  <2> QED
    BY <2>1, FS_Interval
<1>8. Cardinality(0 .. n) <= Cardinality(E \cup L)
  <2> HIDE DEF n, E, L, f
  <2> QED
    BY <1>4, <1>6, FS_Injection
<1> HIDE DEF n, E, L
<1> QED
  BY <1>2, <1>4, <1>7, <1>8

\* A generated label is free, and of its address.
LEMMA LnFallback ==
  ASSUME NEW s, LnSound(s), NEW a
  PROVE  \E i \in Nat : LN!Fallback(s, a) = <<"host", a, i>> /\ ~LnTaken(s, <<"host", a, i>>)
<1> DEFINE n == Cardinality(s.exists) + Cardinality(DOMAIN s.reservations)
           T == {i \in 0 .. n : ~LnTaken(s, <<"host", a, i>>)}
<1>1. n \in Nat /\ T # {}
  BY LnFree
<1>2. T \in SUBSET Nat
  BY <1>1
<1>3. LN!Min(T) \in T
  <2> HIDE DEF T
  <2> QED
    BY <1>1, <1>2, Least, LnMin
<1>4. LN!Fallback(s, a) = <<"host", a, LN!Min(T)>>
  BY LnCardinality DEF LN!Fallback, LnTaken
<1> QED
  BY <1>2, <1>3, <1>4

\* Names tell addresses apart, and keep off explicit data and reservations.
LEMMA LnDistinct ==
  ASSUME NEW view, NEW s, LnSound(s)
  PROVE  LN!NamesDistinct(LN!BuildLeases(view, s), s)
<1> DEFINE F == LN!BuildLeases(view, s).forward
           D == DOMAIN s.reservations
<1>1. DOMAIN F = DOMAIN view.rows /\ \A a \in DOMAIN view.rows : F[a] = LN!Published(view, s, a)
  BY DEF LN!BuildLeases
<1>2. ASSUME NEW a \in DOMAIN view.rows, LN!FallsBack(view, s, a)
      PROVE  \E i \in Nat : LN!Published(view, s, a) = <<"host", a, i>> /\ ~LnTaken(s, <<"host", a, i>>)
  BY <1>2, LnFallback DEF LN!Published
<1>3. ASSUME NEW a \in DOMAIN view.rows, ~LN!FallsBack(view, s, a)
      PROVE  /\ LN!Published(view, s, a) = LN!Wanted(view, s, a) /\ LN!Wanted(view, s, a) \notin s.exists
             /\ a \notin D => /\ \A b \in DOMAIN view.rows \ {a} : LN!Wanted(view, s, b) # LN!Wanted(view, s, a)
                              /\ \A b \in D \ {a} : s.reservations[b] # LN!Wanted(view, s, a)
                              /\ ~LN!AddressLabel(LN!Wanted(view, s, a))
  BY <1>3 DEF LN!Published, LN!FallsBack, LN!Conflict
<1>4. \A a : a \in D => LN!Wanted(view, s, a) = s.reservations[a]
  BY DEF LN!Wanted
<1>5. \A a, b \in D : s.reservations[a] = s.reservations[b] => a = b
  BY DEF LnSound
<1> SUFFICES ASSUME NEW a \in DOMAIN view.rows
             PROVE  /\ LN!Published(view, s, a) \notin s.exists
                    /\ \A b \in DOMAIN view.rows \ {a} : LN!Published(view, s, a) # LN!Published(view, s, b)
                    /\ \A b \in D \ {a} : LN!Published(view, s, a) # s.reservations[b]
  BY <1>1 DEF LN!NamesDistinct
<1>6. CASE LN!FallsBack(view, s, a)
  <2>1. PICK i \in Nat : LN!Published(view, s, a) = <<"host", a, i>> /\ ~LnTaken(s, <<"host", a, i>>)
    BY <1>2, <1>6
  <2>2. ASSUME NEW b \in DOMAIN view.rows \ {a} PROVE LN!Published(view, s, a) # LN!Published(view, s, b)
    <3>1. CASE LN!FallsBack(view, s, b)
      <4>1. PICK j \in Nat : LN!Published(view, s, b) = <<"host", b, j>>
        BY <1>2, <3>1
      <4> QED
        BY <2>1, <4>1
    <3>2. CASE ~LN!FallsBack(view, s, b) /\ b \in D
      BY <1>3, <1>4, <2>1, <3>2 DEF LnTaken
    <3>3. CASE ~LN!FallsBack(view, s, b) /\ b \notin D
      <4>1. ~LN!AddressLabel(LN!Published(view, s, b))
        BY <1>3, <3>3
      <4>2. LN!AddressLabel(<<"host", a, i>>)
        BY DEF LN!AddressLabel
      <4> QED
        BY <2>1, <4>1, <4>2
    <3> QED
      BY <3>1, <3>2, <3>3
  <2> QED
    BY <2>1, <2>2 DEF LnTaken
<1>7. CASE ~LN!FallsBack(view, s, a)
  <2>1. LN!Published(view, s, a) = LN!Wanted(view, s, a) /\ LN!Published(view, s, a) \notin s.exists
    BY <1>3, <1>7
  <2>2. ASSUME NEW b \in D \ {a} PROVE LN!Published(view, s, a) # s.reservations[b]
    BY <1>3, <1>4, <1>5, <1>7, <2>1
  <2>3. ASSUME NEW b \in DOMAIN view.rows \ {a} PROVE LN!Published(view, s, a) # LN!Published(view, s, b)
    <3>1. CASE LN!FallsBack(view, s, b)
      <4>1. PICK j \in Nat : LN!Published(view, s, b) = <<"host", b, j>> /\ ~LnTaken(s, <<"host", b, j>>)
        BY <1>2, <3>1
      <4>2. LN!AddressLabel(<<"host", b, j>>)
        BY DEF LN!AddressLabel
      <4>3. CASE a \in D
        BY <1>4, <2>1, <4>1, <4>3 DEF LnTaken
      <4>4. CASE a \notin D
        BY <1>3, <1>7, <2>1, <4>1, <4>2, <4>4
      <4> QED
        BY <4>3, <4>4
    <3>2. CASE ~LN!FallsBack(view, s, b)
      <4>1. LN!Published(view, s, b) = LN!Wanted(view, s, b)
        BY <1>3, <3>2
      <4>2. CASE a \notin D
        BY <1>3, <1>7, <2>1, <4>1, <4>2
      <4>3. CASE b \notin D
        BY <1>3, <3>2, <2>1, <4>1, <4>3
      <4>4. CASE a \in D /\ b \in D
        BY <1>4, <1>5, <2>1, <4>1, <4>4
      <4> QED
        BY <4>2, <4>3, <4>4
    <3> QED
      BY <3>1, <3>2
  <2> QED
    BY <2>1, <2>2, <2>3
<1> QED
  BY <1>6, <1>7

\* A publication that is refreshed is the one that would be built.
LEMMA LnRefresh ==
  ASSUME NEW old, NEW view, NEW s, old.generation = view.generation,
         NEW n \in LN!RefreshExpiries(LN!BuildLeases(old, s), view.rows)
  PROVE  LN!RefreshExpiries(LN!BuildLeases(old, s), view.rows) = {n} /\ n = LN!BuildLeases(view, s)
<1> DEFINE v == LN!BuildLeases(old, s)
           w == LN!BuildLeases(view, s)
           D == DOMAIN view.rows
           X == [a \in D |-> view.rows[a].expiry]
<1>1. /\ v.generation = old.generation
      /\ v.labels = [a \in DOMAIN old.rows |-> old.rows[a].label]
      /\ v.forward = [a \in DOMAIN old.rows |-> LN!Published(old, s, a)]
      /\ v.names = [a \in DOMAIN old.rows \cup DOMAIN s.reservations |->
           [label |-> IF a \in DOMAIN s.reservations THEN s.reservations[a] ELSE LN!Published(old, s, a),
            mac |-> IF a \in DOMAIN old.rows THEN old.rows[a].mac ELSE "",
            reservation |-> a \in DOMAIN s.reservations]]
  BY DEF LN!BuildLeases
<1>2. /\ LN!RefreshExpiries(v, view.rows) = {[v EXCEPT !.expiries = X]}
      /\ D = DOMAIN v.labels
      /\ \A a \in D : v.labels[a] = view.rows[a].label /\ v.names[a].mac = view.rows[a].mac
  BY DEF LN!RefreshExpiries
<1>3. DOMAIN old.rows = D
  BY <1>1, <1>2
<1>4. \A a \in D : old.rows[a].label = view.rows[a].label /\ old.rows[a].mac = view.rows[a].mac
  <2> SUFFICES ASSUME NEW a \in D PROVE old.rows[a].label = view.rows[a].label /\ old.rows[a].mac = view.rows[a].mac
    OBVIOUS
  <2>1. a \in DOMAIN old.rows /\ v.labels[a] = view.rows[a].label /\ v.names[a].mac = view.rows[a].mac
    BY <1>2, <1>3
  <2>2. v.labels[a] = old.rows[a].label
    BY <1>1, <2>1
  <2>3. v.names[a] = [label |-> IF a \in DOMAIN s.reservations THEN s.reservations[a] ELSE LN!Published(old, s, a),
                      mac |-> old.rows[a].mac, reservation |-> a \in DOMAIN s.reservations]
    BY <1>1, <2>1
  <2>4. v.names[a].mac = old.rows[a].mac
    BY <2>3
  <2> QED
    BY <2>1, <2>2, <2>4
<1>5. \A a \in D : LN!Wanted(old, s, a) = LN!Wanted(view, s, a)
  BY <1>4 DEF LN!Wanted
<1>6. \A a \in D : LN!FallsBack(old, s, a) <=> LN!FallsBack(view, s, a)
  BY <1>3, <1>5 DEF LN!FallsBack
<1>7. \A a \in D : LN!Published(old, s, a) = LN!Published(view, s, a)
  BY <1>5, <1>6 DEF LN!Published
<1>8. [a \in DOMAIN old.rows |-> old.rows[a].label] = [a \in D |-> view.rows[a].label]
  BY <1>3, <1>4
<1>9. [a \in DOMAIN old.rows |-> LN!Published(old, s, a)] = [a \in D |-> LN!Published(view, s, a)]
  BY <1>3, <1>7
<1>10. [a \in DOMAIN old.rows \cup DOMAIN s.reservations |->
           [label |-> IF a \in DOMAIN s.reservations THEN s.reservations[a] ELSE LN!Published(old, s, a),
            mac |-> IF a \in DOMAIN old.rows THEN old.rows[a].mac ELSE "",
            reservation |-> a \in DOMAIN s.reservations]]
       = [a \in D \cup DOMAIN s.reservations |->
           [label |-> IF a \in DOMAIN s.reservations THEN s.reservations[a] ELSE LN!Published(view, s, a),
            mac |-> IF a \in D THEN view.rows[a].mac ELSE "",
            reservation |-> a \in DOMAIN s.reservations]]
  <2> DEFINE One(a) == [label |-> IF a \in DOMAIN s.reservations THEN s.reservations[a] ELSE LN!Published(old, s, a),
                        mac |-> IF a \in DOMAIN old.rows THEN old.rows[a].mac ELSE "",
                        reservation |-> a \in DOMAIN s.reservations]
             Two(a) == [label |-> IF a \in DOMAIN s.reservations THEN s.reservations[a] ELSE LN!Published(view, s, a),
                        mac |-> IF a \in D THEN view.rows[a].mac ELSE "",
                        reservation |-> a \in DOMAIN s.reservations]
  <2>1. ASSUME NEW a \in D \cup DOMAIN s.reservations PROVE One(a) = Two(a)
    BY <1>3, <1>4, <1>7
  <2> HIDE DEF One, Two
  <2>2. [a \in DOMAIN old.rows \cup DOMAIN s.reservations |-> One(a)] = [a \in D \cup DOMAIN s.reservations |-> Two(a)]
    BY <1>3, <2>1
  <2> QED
    BY <2>2 DEF One, Two
<1>11. \A g, l, f, m, e, x : [[generation |-> g, labels |-> l, forward |-> f, names |-> m, expiries |-> e] EXCEPT !.expiries = x]
                             = [generation |-> g, labels |-> l, forward |-> f, names |-> m, expiries |-> x]
  OBVIOUS
<1>12. [v EXCEPT !.expiries = X] = w
  <2> DEFINE g == old.generation
             l == [a \in DOMAIN old.rows |-> old.rows[a].label]
             f == [a \in DOMAIN old.rows |-> LN!Published(old, s, a)]
             m == [a \in DOMAIN old.rows \cup DOMAIN s.reservations |->
                    [label |-> IF a \in DOMAIN s.reservations THEN s.reservations[a] ELSE LN!Published(old, s, a),
                     mac |-> IF a \in DOMAIN old.rows THEN old.rows[a].mac ELSE "",
                     reservation |-> a \in DOMAIN s.reservations]]
             e == [a \in DOMAIN old.rows |-> old.rows[a].expiry]
  <2>1. v = [generation |-> g, labels |-> l, forward |-> f, names |-> m, expiries |-> e]
    BY DEF LN!BuildLeases
  <2>2. w = [generation |-> g, labels |-> l, forward |-> f, names |-> m, expiries |-> X]
    BY <1>8, <1>9, <1>10 DEF LN!BuildLeases
  <2> HIDE DEF g, l, f, m, e, v, w, X
  <2> QED
    BY <1>11, <2>1, <2>2
<1> QED
  BY <1>2, <1>12

\* What is refreshed is nothing, or what would be built.
LEMMA LnRefreshed ==
  ASSUME NEW old, NEW view, NEW s, old.generation = view.generation
  PROVE  LN!RefreshExpiries(LN!BuildLeases(old, s), view.rows) \in {{}, {LN!BuildLeases(view, s)}}
<1>1. ASSUME NEW n \in LN!RefreshExpiries(LN!BuildLeases(old, s), view.rows)
      PROVE  LN!RefreshExpiries(LN!BuildLeases(old, s), view.rows) = {LN!BuildLeases(view, s)}
  <2>1. LN!RefreshExpiries(LN!BuildLeases(old, s), view.rows) = {n} /\ n = LN!BuildLeases(view, s)
    BY <1>1, LnRefresh
  <2> QED
    BY <2>1
<1> QED
  BY <1>1

\* What is known about a view.
LnViews == [generation : Nat, rows : {<<>>} \cup LN!RowSets]

\* What a view and a configuration publish.
LnLeases(i, g) == LN!BuildLeases(views[i], Settings[g])

\* The fields of a reader.
LnReader(e) == e = [pc |-> e.pc, snapshot |-> e.snapshot, source |-> e.source, oldest |-> e.oldest, result |-> e.result]

\* The types.
LnType ==
  /\ snapshotNumber \in 1 .. Len(Settings) /\ views \in Seq(LnViews) /\ views # <<>>
  /\ DOMAIN reader = Readers

\* The cache holds what its view and its configuration publish.
CacheSound ==
  \/ current = LN!NoPublication
  \/ \E i \in 1 .. Len(views), g \in 1 .. Len(Settings) :
       views[i].generation = g /\ current = [source |-> i, snapshot |-> g, leases |-> {LnLeases(i, g)}]

\* What a reader has read is no older than its start, and what it got is what a view of its generation publishes.
ReaderSound(r) ==
  /\ LnReader(reader[r]) /\ reader[r].oldest \in 0 .. Len(views)
  /\ reader[r].pc # "idle" => reader[r].oldest > 0
  /\ reader[r].pc \in {"idle", "read", "compare", "lock", "build", "done"}
  /\ reader[r].pc # "idle" => reader[r].snapshot \in 1 .. Len(Settings)
  /\ reader[r].pc \in {"compare", "build"} => reader[r].source \in {0} \cup (reader[r].oldest .. Len(views))
  /\ reader[r].pc = "build" => reader[r].source # 0 /\ views[reader[r].source].generation = reader[r].snapshot
  /\ reader[r].pc # "done" => reader[r].result = {}
  /\ \A l \in reader[r].result :
       \E i \in reader[r].oldest .. Len(views) :
         views[i].generation = reader[r].snapshot /\ l = LnLeases(i, reader[r].snapshot)

\* The inductive invariant of LeaseNames.
LnInv == LnType /\ CacheSound /\ \A r \in Readers : ReaderSound(r)

\* At first nothing is published.
LEMMA LnInit == LN!Init => LnInv
<1> SUFFICES ASSUME LN!Init PROVE LnInv
  OBVIOUS
<1>1. [generation |-> 1, rows |-> <<>>] \in LnViews
  BY DEF LnViews
<1>2. views \in Seq(LnViews) /\ views # <<>> /\ Len(views) = 1
  BY <1>1 DEF LN!Init
<1>3. LnType
  BY <1>2, LeaseNamesAssumption DEF LN!Init, LnType
<1>4. CacheSound
  BY DEF LN!Init, CacheSound
<1>5. ASSUME NEW r \in Readers PROVE ReaderSound(r)
  <2>1. reader[r] = [pc |-> "idle", snapshot |-> 0, source |-> 0, oldest |-> 0, result |-> {}]
    BY DEF LN!Init
  <2> QED
    BY <1>2, <2>1 DEF ReaderSound, LnReader
<1> QED
  BY <1>3, <1>4, <1>5 DEF LnInv

\* A view is added: what was published from the others stays as it is.
LEMMA LnAppend ==
  ASSUME LnInv, NEW v \in LnViews, views' = Append(views, v), snapshotNumber' \in 1 .. Len(Settings), UNCHANGED <<current, reader>>
  PROVE  LnInv'
<1>1. views \in Seq(LnViews) /\ Len(views) \in Nat
  BY DEF LnInv, LnType
<1>2. /\ views' \in Seq(LnViews) /\ views' # <<>> /\ Len(views') = Len(views) + 1
      /\ \A i \in 1 .. Len(views) : views'[i] = views[i]
  BY <1>1
<1>3. \A i \in 1 .. Len(views) : \A g : LnLeases(i, g)' = LnLeases(i, g)
  BY <1>2 DEF LnLeases
<1>4. LnType'
  BY <1>2 DEF LnInv, LnType
<1>5. CacheSound'
  <2>1. CASE current = LN!NoPublication
    BY <2>1 DEF CacheSound, LN!NoPublication
  <2>2. CASE current # LN!NoPublication
    <3>1. PICK i \in 1 .. Len(views), g \in 1 .. Len(Settings) :
            views[i].generation = g /\ current = [source |-> i, snapshot |-> g, leases |-> {LnLeases(i, g)}]
      BY <2>2 DEF LnInv, CacheSound
    <3>2. i \in 1 .. Len(views') /\ views'[i].generation = g
      BY <1>1, <1>2, <3>1
    <3>3. LnLeases(i, g)' = LnLeases(i, g) /\ current' = current
      BY <1>3
    <3>4. current' = [source |-> i, snapshot |-> g, leases |-> {LnLeases(i, g)'}]
      BY <3>1, <3>3
    <3> QED
      BY <3>2, <3>4 DEF CacheSound
  <2> QED
    BY <2>1, <2>2
<1>6. ASSUME NEW r \in Readers PROVE ReaderSound(r)'
  <2>1. ReaderSound(r)
    BY DEF LnInv
  <2>2. ASSUME NEW l \in reader[r].result
        PROVE  \E i \in reader[r].oldest .. Len(views') :
                 views'[i].generation = reader[r].snapshot /\ l = LnLeases(i, reader[r].snapshot)'
    <3>1. PICK i \in reader[r].oldest .. Len(views) :
                 views[i].generation = reader[r].snapshot /\ l = LnLeases(i, reader[r].snapshot)
      BY <2>1 DEF ReaderSound
    <3>2. reader[r].pc # "idle" /\ reader[r].oldest \in Nat /\ reader[r].oldest > 0
      BY <2>1 DEF ReaderSound
    <3>3. i \in 1 .. Len(views) /\ i \in reader[r].oldest .. Len(views')
      BY <1>1, <1>2, <3>1, <3>2
    <3> QED
      BY <1>2, <1>3, <3>1, <3>3
  <2>3. reader[r].pc = "build" => views'[reader[r].source].generation = reader[r].snapshot
    <3> SUFFICES ASSUME reader[r].pc = "build" PROVE views'[reader[r].source].generation = reader[r].snapshot
      OBVIOUS
    <3>1. reader[r].source \in 1 .. Len(views) /\ views[reader[r].source].generation = reader[r].snapshot
      BY <2>1, <1>1 DEF ReaderSound
    <3> QED
      BY <3>1, <1>2
  <2>4. reader[r].oldest \in 0 .. Len(views') /\ (reader[r].pc \in {"compare", "build"} => reader[r].source \in {0} \cup (reader[r].oldest .. Len(views')))
    BY <2>1, <1>1, <1>2 DEF ReaderSound
  <2> QED
    BY <2>1, <2>2, <2>3, <2>4 DEF ReaderSound, LnReader
<1> QED
  BY <1>4, <1>5, <1>6 DEF LnInv

\* The last view with another generation or other rows.
LEMMA LnShow ==
  ASSUME LnInv, NEW g \in Nat, NEW rows \in {<<>>} \cup LN!RowSets, LN!Show(g, rows),
         snapshotNumber' \in 1 .. Len(Settings), UNCHANGED <<current, reader>>
  PROVE  LnInv'
<1> DEFINE v == [generation |-> g, rows |-> rows]
<1>1. v \in LnViews /\ views' = Append(views, v)
  BY DEF LnViews, LN!Show
<1> HIDE DEF v
<1> QED
  BY <1>1, LnAppend

\* The last view.
LEMMA LnLast ==
  ASSUME LnInv
  PROVE  /\ views[Len(views)].generation \in Nat /\ views[Len(views)].rows \in {<<>>} \cup LN!RowSets
         /\ snapshotNumber \in 1 .. Len(Settings)
<1>1. views \in Seq(LnViews) /\ Len(views) \in Nat \ {0} /\ snapshotNumber \in 1 .. Len(Settings)
  BY DEF LnInv, LnType
<1>2. views[Len(views)] \in LnViews
  BY <1>1
<1> QED
  BY <1>1, <1>2 DEF LnViews

\* A batch is committed.
LEMMA LnCommit == ASSUME LnInv, NEW rows \in LN!RowSets, LN!Commit(rows) PROVE LnInv'
<1>1. LN!Show(views[Len(views)].generation, rows) /\ UNCHANGED <<snapshotNumber, current, reader>>
  BY DEF LN!Commit
<1> QED
  BY <1>1, LnLast, LnShow

\* A runtime is given a configuration, or is started with one.
LEMMA LnTakesUp == ASSUME LnInv, NEW g \in DOMAIN Settings, LN!Apply(g) \/ LN!Start(g) PROVE LnInv'
<1>1. LN!Show(g, views[Len(views)].rows) /\ UNCHANGED <<snapshotNumber, current, reader>>
  BY DEF LN!Apply, LN!Start, LN!Reconcile
<1>2. g \in Nat
  BY LeaseNamesAssumption
<1> QED
  BY <1>1, <1>2, LnLast, LnShow

\* A step that changes no view, at most the cache, and one reader.
LEMMA LnStep ==
  ASSUME LnInv, NEW r \in Readers, NEW e, LN!Become(r, e), snapshotNumber' \in 1 .. Len(Settings), UNCHANGED views,
         (CacheSound)',
         LnReader(e), e.oldest \in 1 .. Len(views),
         e.pc \in {"read", "compare", "lock", "build", "done"},
         e.snapshot \in 1 .. Len(Settings),
         e.pc \in {"compare", "build"} => e.source \in {0} \cup (e.oldest .. Len(views)),
         e.pc = "build" => e.source # 0 /\ views[e.source].generation = e.snapshot,
         e.pc # "done" => e.result = {},
         \A l \in e.result : \E i \in e.oldest .. Len(views) :
           views[i].generation = e.snapshot /\ l = LnLeases(i, e.snapshot)
  PROVE  LnInv'
<1>1. DOMAIN reader' = Readers /\ reader'[r] = e /\ \A q \in Readers \ {r} : reader'[q] = reader[q]
  BY DEF LnInv, LnType, LN!Become
<1>2. LnType'
  BY <1>1 DEF LnInv, LnType
<1>3. \A i, g : LnLeases(i, g)' = LnLeases(i, g)
  BY DEF LnLeases
<1>4. ASSUME NEW q \in Readers PROVE ReaderSound(q)'
  <2>1. CASE q = r
    BY <1>1, <1>3, <2>1 DEF ReaderSound, LnReader
  <2>2. CASE q # r
    <3>1. ReaderSound(q) /\ reader'[q] = reader[q]
      BY <1>1, <2>2 DEF LnInv
    <3> QED
      BY <1>3, <3>1 DEF ReaderSound, LnReader
  <2> QED
    BY <2>1, <2>2
<1> QED
  BY <1>2, <1>4 DEF LnInv

\* The cache and its view stay.
LEMMA LnKept == ASSUME LnInv, UNCHANGED <<views, current>> PROVE CacheSound'
  BY DEF LnInv, CacheSound, LnLeases, LN!NoPublication

\* A configuration is published, or the runtime is hidden, closed or shown.
LEMMA LnQuiet ==
  ASSUME LnInv, snapshotNumber' \in 1 .. Len(Settings), UNCHANGED <<views, current, reader>>
  PROVE  LnInv'
<1>1. LnType' /\ CacheSound'
  BY LnKept DEF LnInv, LnType
<1>2. ASSUME NEW r \in Readers PROVE ReaderSound(r)'
  <2>1. ReaderSound(r)
    BY DEF LnInv
  <2> QED
    BY <2>1 DEF ReaderSound, LnLeases, LnReader
<1> QED
  BY <1>1, <1>2 DEF LnInv

\* A configuration is published; the runtime goes on with its own.
LEMMA LnPublish == ASSUME LnInv, LN!Publish PROVE LnInv'
<1>1. snapshotNumber' \in 1 .. Len(Settings) /\ UNCHANGED <<views, current, reader>>
  BY LeaseNamesAssumption DEF LN!Publish, LnInv, LnType
<1> QED
  BY <1>1, LnQuiet

\* The runtime is hidden, closed or shown.
LEMMA LnLifecycle ==
  ASSUME LnInv, LN!FinishClosing \/ LN!PublishApplied \/ \E g \in DOMAIN Settings : LN!Disable(g)
  PROVE  LnInv'
<1>1. UNCHANGED <<snapshotNumber, views, current, reader>>
  BY DEF LN!FinishClosing, LN!PublishApplied, LN!Disable, LN!Reconcile
<1>2. snapshotNumber' \in 1 .. Len(Settings)
  BY <1>1 DEF LnInv, LnType
<1> QED
  BY <1>1, <1>2, LnQuiet

\* The source is the last view, or none.
LEMMA LnSource == ASSUME LnInv PROVE Len(views) \in Nat \ {0} /\ LN!Source \in {0, Len(views)}
  BY DEF LnInv, LnType, LN!Source

\* A reader captures a snapshot.
LEMMA LnBegin == ASSUME LnInv, NEW r \in Readers, LN!Begin(r) PROVE LnInv'
<1> DEFINE e == [pc |-> "read", snapshot |-> snapshotNumber, source |-> 0, oldest |-> Len(views), result |-> {}]
<1>1. LN!Become(r, e) /\ UNCHANGED <<snapshotNumber, views, current>>
  BY DEF LN!Begin
<1>2. /\ LnReader(e) /\ e.oldest \in 1 .. Len(views) /\ e.pc = "read" /\ e.result = {} /\ e.snapshot \in 1 .. Len(Settings)
      /\ snapshotNumber' \in 1 .. Len(Settings)
  BY <1>1, LnSource DEF LnInv, LnType, LnReader
<1>3. CacheSound'
  BY <1>1, LnKept
<1> HIDE DEF e
<1> QED
  BY <1>1, <1>2, <1>3, LnStep

\* What is left of a reader when its place, its source and its result are replaced.
LEMMA LnExcept ==
  ASSUME NEW d, LnReader(d), NEW p, NEW k
  PROVE  [d EXCEPT !.pc = p, !.source = k] = [pc |-> p, snapshot |-> d.snapshot, source |-> k, oldest |-> d.oldest, result |-> d.result]
<1> DEFINE R(a, c) == [pc |-> a, snapshot |-> d.snapshot, source |-> c, oldest |-> d.oldest, result |-> d.result]
           d1 == [d EXCEPT !.pc = p]
<1>1. \A a, c : [R(a, c) EXCEPT !.pc = p] = R(p, c)
  OBVIOUS
<1>2. \A a, c : [R(a, c) EXCEPT !.source = k] = R(a, k)
  OBVIOUS
<1>3. [d EXCEPT !.pc = p, !.source = k] = [d1 EXCEPT !.source = k]
  OBVIOUS
<1>4. d = R(d.pc, d.source)
  BY DEF LnReader
<1> HIDE DEF R
<1>5. d1 = R(p, d.source)
  BY <1>1, <1>4
<1>6. [R(p, d.source) EXCEPT !.source = k] = R(p, k)
  BY <1>2
<1> HIDE DEF d1
<1>7. [d1 EXCEPT !.source = k] = R(p, k)
  BY <1>5, <1>6
<1> QED
  BY <1>3, <1>7 DEF R

\* What is left of a reader that returns.
LEMMA LnDone ==
  ASSUME NEW d, LnReader(d), NEW x
  PROVE  [d EXCEPT !.pc = "done", !.source = 0, !.result = x]
           = [pc |-> "done", snapshot |-> d.snapshot, source |-> 0, oldest |-> d.oldest, result |-> x]
<1> DEFINE d2 == [d EXCEPT !.pc = "done", !.source = 0]
<1>1. [d EXCEPT !.pc = "done", !.source = 0, !.result = x] = [d2 EXCEPT !.result = x]
  OBVIOUS
<1>2. d2 = [pc |-> "done", snapshot |-> d.snapshot, source |-> 0, oldest |-> d.oldest, result |-> d.result]
  BY LnExcept
<1>3. \A s, o, y : [[pc |-> "done", snapshot |-> s, source |-> 0, oldest |-> o, result |-> y] EXCEPT !.result = x]
                     = [pc |-> "done", snapshot |-> s, source |-> 0, oldest |-> o, result |-> x]
  OBVIOUS
<1> HIDE DEF d2
<1>4. [d2 EXCEPT !.result = x] = [pc |-> "done", snapshot |-> d.snapshot, source |-> 0, oldest |-> d.oldest, result |-> x]
  BY <1>2, <1>3
<1> QED
  BY <1>1, <1>4

\* A reader reads the source.
LEMMA LnRead == ASSUME LnInv, NEW r \in Readers, LN!ReadSource(r) PROVE LnInv'
<1> DEFINE e == [reader[r] EXCEPT !.pc = "compare", !.source = LN!Source]
<1>0. ReaderSound(r) /\ reader[r].pc = "read"
  BY DEF LnInv, LN!ReadSource
<1>1. LN!Become(r, e) /\ UNCHANGED <<snapshotNumber, views, current>> /\ snapshotNumber' \in 1 .. Len(Settings)
  BY DEF LN!ReadSource, LnInv, LnType
<1>2. e = [pc |-> "compare", snapshot |-> reader[r].snapshot, source |-> LN!Source, oldest |-> reader[r].oldest, result |-> reader[r].result]
  BY <1>0, LnExcept DEF ReaderSound
<1> HIDE DEF e
<1>3. /\ LnReader(e) /\ e.oldest \in 1 .. Len(views) /\ e.pc = "compare" /\ e.result = {} /\ e.snapshot \in 1 .. Len(Settings)
      /\ e.source \in {0} \cup (e.oldest .. Len(views))
  BY <1>0, <1>2, LnSource DEF ReaderSound, LnReader
<1>4. CacheSound'
  BY <1>1, LnKept
<1> QED
  BY <1>1, <1>3, <1>4, LnStep

\* A reader returns, with nothing or with what a view publishes.
LEMMA LnReturn ==
  ASSUME LnInv, NEW r \in Readers, reader[r].pc # "idle", NEW result, LN!Return(r, result),
         UNCHANGED <<snapshotNumber, views>>, CacheSound',
         \A l \in result : \E i \in reader[r].oldest .. Len(views) :
           views[i].generation = reader[r].snapshot /\ l = LnLeases(i, reader[r].snapshot)
  PROVE  LnInv'
<1> DEFINE e == [reader[r] EXCEPT !.pc = "done", !.source = 0, !.result = result]
<1>0. ReaderSound(r)
  BY DEF LnInv
<1>1. LN!Become(r, e) /\ snapshotNumber' \in 1 .. Len(Settings)
  BY DEF LN!Return, LnInv, LnType
<1>2. e = [pc |-> "done", snapshot |-> reader[r].snapshot, source |-> 0, oldest |-> reader[r].oldest, result |-> result]
  <2> DEFINE d == reader[r]
  <2>1. LnReader(d)
    BY <1>0 DEF ReaderSound
  <2> HIDE DEF d
  <2>2. [d EXCEPT !.pc = "done", !.source = 0, !.result = result] = [pc |-> "done", snapshot |-> d.snapshot, source |-> 0, oldest |-> d.oldest, result |-> result]
    BY <2>1, LnDone
  <2> QED
    BY <2>2 DEF d
<1> HIDE DEF e
<1>3. /\ LnReader(e) /\ e.oldest \in 1 .. Len(views) /\ e.pc = "done" /\ e.result = result /\ e.snapshot = reader[r].snapshot
      /\ e.oldest = reader[r].oldest /\ e.snapshot \in 1 .. Len(Settings)
  BY <1>0, <1>2 DEF ReaderSound, LnReader
<1> QED
  BY <1>1, <1>3, LnStep

\* A reader compares the cache with a source that may be retired.
LEMMA LnFastPath == ASSUME LnInv, NEW r \in Readers, LN!FastPath(r) PROVE LnInv'
<1> DEFINE s == reader[r].snapshot
           k == reader[r].source
           hit == current.source = k /\ current.snapshot = s
<1>0. ReaderSound(r) /\ reader[r].pc = "compare" /\ UNCHANGED <<snapshotNumber, views>>
  BY DEF LnInv, LN!FastPath
<1>1. CASE current' = LN!NoPublication /\ LN!Return(r, {})
  <2>1. CacheSound'
    BY <1>1 DEF CacheSound, LN!NoPublication
  <2> QED
    BY <1>0, <1>1, <2>1, LnReturn
<1>2. CASE LN!Usable(k, s) /\ UNCHANGED current /\ hit /\ LN!Return(r, current.leases)
  <2>0. k # 0 /\ k \in reader[r].oldest .. Len(views)
    BY <1>0, <1>2 DEF LN!Usable, ReaderSound
  <2>1. current # LN!NoPublication
    BY <1>2, <2>0 DEF LN!NoPublication
  <2>2. PICK i \in 1 .. Len(views), g \in 1 .. Len(Settings) :
          views[i].generation = g /\ current = [source |-> i, snapshot |-> g, leases |-> {LnLeases(i, g)}]
    BY <2>1 DEF LnInv, CacheSound
  <2>3. i = k /\ g = s /\ current.leases = {LnLeases(i, g)} /\ i > 0
    BY <1>2, <2>2
  <2>4. \A l \in current.leases : \E j \in reader[r].oldest .. Len(views) :
           views[j].generation = s /\ l = LnLeases(j, s)
    BY <2>0, <2>2, <2>3
  <2>5. CacheSound'
    BY <1>0, <1>2, LnKept
  <2> QED
    BY <1>0, <1>2, <2>4, <2>5, LnReturn
<1>3. CASE UNCHANGED current /\ LN!Become(r, [reader[r] EXCEPT !.pc = "lock"])
  <2> DEFINE e == [reader[r] EXCEPT !.pc = "lock"]
  <2>1. e = [pc |-> "lock", snapshot |-> s, source |-> k, oldest |-> reader[r].oldest, result |-> reader[r].result]
    BY <1>0 DEF ReaderSound, LnReader
  <2>2. LN!Become(r, e)
    BY <1>3
  <2> HIDE DEF e
  <2>3. /\ LnReader(e) /\ e.oldest \in 1 .. Len(views) /\ e.pc = "lock" /\ e.result = {} /\ e.snapshot \in 1 .. Len(Settings)
        /\ snapshotNumber' \in 1 .. Len(Settings)
    BY <1>0, <2>1 DEF ReaderSound, LnReader, LnInv, LnType
  <2>4. CacheSound'
    BY <1>0, <1>3, LnKept
  <2> QED
    BY <1>0, <2>2, <2>3, <2>4, LnStep
<1> QED
  BY <1>1, <1>2, <1>3 DEF LN!FastPath

\* A reader reads the source again with the lock.
LEMMA LnLock == ASSUME LnInv, NEW r \in Readers, LN!Lock(r) PROVE LnInv'
<1>0. ReaderSound(r) /\ reader[r].pc = "lock" /\ UNCHANGED <<snapshotNumber, views>>
  BY DEF LnInv, LN!Lock
<1>1. CASE current' = LN!NoPublication /\ LN!Return(r, {})
  <2>1. CacheSound'
    BY <1>1 DEF CacheSound, LN!NoPublication
  <2> QED
    BY <1>0, <1>1, <2>1, LnReturn
<1>2. CASE LN!Usable(LN!Source, reader[r].snapshot) /\ UNCHANGED current /\ LN!Become(r, [reader[r] EXCEPT !.pc = "build", !.source = LN!Source])
  <2> DEFINE e == [reader[r] EXCEPT !.pc = "build", !.source = LN!Source]
  <2>1. e = [pc |-> "build", snapshot |-> reader[r].snapshot, source |-> LN!Source, oldest |-> reader[r].oldest, result |-> reader[r].result]
    BY <1>0, LnExcept DEF ReaderSound
  <2>2. LN!Become(r, e)
    BY <1>2
  <2>3. LN!Source # 0 /\ LN!Source = Len(views) /\ views[LN!Source].generation = reader[r].snapshot
    BY <1>2, LnSource DEF LN!Usable
  <2> HIDE DEF e
  <2>4. /\ LnReader(e) /\ e.oldest \in 1 .. Len(views) /\ e.pc = "build" /\ e.result = {} /\ e.snapshot \in 1 .. Len(Settings)
        /\ snapshotNumber' \in 1 .. Len(Settings)
    BY <1>0, <2>1 DEF ReaderSound, LnReader, LnInv, LnType
  <2>5. e.source # 0 /\ views[e.source].generation = e.snapshot /\ e.source \in e.oldest .. Len(views)
    BY <1>0, <2>1, <2>3, LnSource DEF ReaderSound
  <2>6. CacheSound'
    BY <1>0, <1>2, LnKept
  <2> QED
    BY <1>0, <2>2, <2>4, <2>5, <2>6, LnStep
<1> QED
  BY <1>1, <1>2 DEF LN!Lock

\* A reader uses, refreshes or builds a publication.
LEMMA LnBuilds == ASSUME LnInv, NEW r \in Readers, LN!Build(r) PROVE LnInv'
<1> DEFINE s == reader[r].snapshot
           k == reader[r].source
           view == views[k]
           cached == current.source # 0 /\ current.snapshot = s
           hit == cached /\ current.source = k
           refreshed == IF cached /\ views[current.source].generation = view.generation
                        THEN UNION {LN!RefreshExpiries(l, view.rows) : l \in current.leases} ELSE {}
           result == IF hit THEN current.leases
                     ELSE IF refreshed # {} THEN refreshed ELSE {LN!BuildLeases(view, Settings[s])}
<1>0. /\ ReaderSound(r) /\ reader[r].pc = "build" /\ UNCHANGED <<snapshotNumber, views>>
      /\ current' = [source |-> k, snapshot |-> s, leases |-> result] /\ LN!Return(r, result)
  BY DEF LnInv, LN!Build
<1>1. /\ k \in reader[r].oldest .. Len(views) /\ k \in 1 .. Len(views) /\ view.generation = s
      /\ s \in 1 .. Len(Settings)
  <2>1. reader[r].oldest \in 0 .. Len(views) /\ Len(views) \in Nat
    BY <1>0, LnSource DEF ReaderSound
  <2>2. /\ reader[r].source \in {0} \cup (reader[r].oldest .. Len(views)) /\ reader[r].source # 0
        /\ views[reader[r].source].generation = reader[r].snapshot /\ reader[r].snapshot \in 1 .. Len(Settings)
    <3> HIDE DEF s, k, view, cached, hit, refreshed, result
    <3> QED
      BY <1>0 DEF ReaderSound
  <2>3. k \in reader[r].oldest .. Len(views) /\ view.generation = s /\ s \in 1 .. Len(Settings)
    BY <2>2
  <2>4. k \in 1 .. Len(views)
    <3> HIDE DEF k
    <3> QED
      BY <2>1, <2>2, <2>3 DEF k
  <2> QED
    BY <2>3, <2>4
<1>2. result = {LnLeases(k, s)}
  <2>1. CASE ~cached
    BY <2>1 DEF LnLeases
  <2>2. CASE cached
    <3>1. current # LN!NoPublication
      BY <2>2 DEF LN!NoPublication
    <3>2. PICK i \in 1 .. Len(views), g \in 1 .. Len(Settings) :
            views[i].generation = g /\ current = [source |-> i, snapshot |-> g, leases |-> {LnLeases(i, g)}]
      BY <3>1 DEF LnInv, CacheSound
    <3>3. current.source = i /\ g = s /\ current.leases = {LnLeases(i, s)}
      BY <2>2, <3>2
    <3>4. CASE hit
      BY <3>3, <3>4
    <3>5. CASE ~hit
      <4>1. refreshed = LN!RefreshExpiries(LN!BuildLeases(views[i], Settings[s]), view.rows)
        <5>1. views[current.source].generation = view.generation
          BY <1>1, <3>2, <3>3
        <5>2. refreshed = UNION {LN!RefreshExpiries(l, view.rows) : l \in {LN!BuildLeases(views[i], Settings[s])}}
          BY <2>2, <3>3, <5>1 DEF LnLeases
        <5>3. UNION {LN!RefreshExpiries(l, view.rows) : l \in {LN!BuildLeases(views[i], Settings[s])}}
                = LN!RefreshExpiries(LN!BuildLeases(views[i], Settings[s]), view.rows)
          OBVIOUS
        <5> QED
          BY <5>2, <5>3
      <4>2. CASE refreshed = {}
        BY <3>5, <4>2 DEF LnLeases
      <4>3. CASE refreshed # {}
        <5>2. views[i].generation = view.generation
          BY <1>1, <3>2, <3>3
        <5> DEFINE old == views[i]
                   settings == Settings[s]
        <5> HIDE DEF view, old, settings
        <5>3. old.generation = view.generation
          BY <5>2 DEF old
        <5>6. LN!RefreshExpiries(LN!BuildLeases(old, settings), view.rows) \in {{}, {LN!BuildLeases(view, settings)}}
          BY <5>3, LnRefreshed
        <5>4. refreshed = {LN!BuildLeases(view, settings)}
          BY <4>1, <4>3, <5>6 DEF old, settings, view
        <5>5. result = refreshed
          BY <3>5, <4>3
        <5> QED
          BY <5>4, <5>5 DEF LnLeases, view, settings
      <4> QED
        BY <4>2, <4>3
    <3> QED
      BY <3>4, <3>5
  <2> QED
    BY <2>1, <2>2
<1> HIDE DEF result
<1>3. CacheSound'
  <2>1. LnLeases(k, s) = LN!BuildLeases(views'[k], Settings[s]) /\ views' = views
    BY <1>0 DEF LnLeases
  <2>2. current' = [source |-> k, snapshot |-> s, leases |-> {LN!BuildLeases(views'[k], Settings[s])}]
    BY <1>0, <1>2, <2>1
  <2>3. k \in 1 .. Len(views') /\ s \in 1 .. Len(Settings) /\ views'[k].generation = s
    BY <1>1, <2>1
  <2> HIDE DEF k, s
  <2> QED
    BY <2>2, <2>3 DEF CacheSound, LnLeases
<1>4. \A l \in result : \E i \in reader[r].oldest .. Len(views) : views[i].generation = s /\ l = LnLeases(i, s)
  BY <1>1, <1>2
<1> QED
  BY <1>0, <1>3, <1>4, LnReturn

\* Every step keeps the invariant.
LEMMA LnNext == LnInv /\ [LN!Next]_LN!vars => LnInv'
<1> SUFFICES ASSUME LnInv, [LN!Next]_LN!vars PROVE LnInv'
  OBVIOUS
<1>1. CASE UNCHANGED LN!vars
  BY <1>1 DEF LN!vars, LnInv, LnType, CacheSound, ReaderSound, LnLeases, LnReader, LN!NoPublication
<1> QED
  BY <1>1, LnCommit, LnPublish, LnTakesUp, LnLifecycle, LnBegin, LnRead, LnFastPath, LnLock, LnBuilds DEF LN!Next

\* The invariant says what CapturedNames asks.
LEMMA LnCaptured == LnInv => LN!CapturedNames
<1> SUFFICES ASSUME LnInv, NEW r \in Readers
             PROVE  LN!CapturedExactly(r) /\ \A l \in reader[r].result : LN!NamesDistinct(l, Settings[reader[r].snapshot])
  BY DEF LN!CapturedNames
<1>1. ReaderSound(r)
  BY DEF LnInv
<1>2. LN!CapturedExactly(r)
  BY <1>1 DEF ReaderSound, LN!CapturedExactly, LnLeases
<1>3. ASSUME NEW l \in reader[r].result PROVE LN!NamesDistinct(l, Settings[reader[r].snapshot])
  <2> DEFINE g == reader[r].snapshot
  <2>1. g \in DOMAIN Settings
    BY <1>1, <1>3, LeaseNamesAssumption DEF ReaderSound
  <2>2. LnSound(Settings[g])
    BY <2>1, LeaseNamesAssumption DEF LnSound
  <2>3. PICK i : l = LN!BuildLeases(views[i], Settings[g])
    BY <1>1, <1>3 DEF ReaderSound, LnLeases
  <2> HIDE DEF g
  <2>4. LN!NamesDistinct(LN!BuildLeases(views[i], Settings[g]), Settings[g])
    BY <2>2, LnDistinct
  <2> QED
    BY <2>3, <2>4 DEF g
<1> QED
  BY <1>2, <1>3

\* Names handed to a reader are those of its configuration and of a view of it
\* no older than the last one when the reader began, although the runtime may
\* serve an older or a newer configuration meanwhile, and tell addresses apart
\* (LeaseNames: capture, BuildLeases, RefreshExpiries).
THEOREM NamesAreCaptured == LN!Spec => []CapturedNames
<1>1. LN!Spec => []LN!CapturedNames
  BY LnInit, LnNext, LnCaptured, PTL DEF LN!Spec
<1>2. LN!CapturedNames => CapturedNames
  BY DEF CapturedNames
<1> QED
  BY <1>1, <1>2, PTL

(***************************************************************************)
(* The clients of the upstreams.                                           *)
(***************************************************************************)

\* Cardinality is the same in Routes.
LEMMA RtCardinality == \A S : RT!Cardinality(S) = Cardinality(S)
  BY DEF RT!Cardinality, Cardinality

\* Some generation up to the current one has the lifetime.
Lived(l) == \E g \in 1 .. snapshot : l \in RT!LifetimesOf(g)

\* The lifetimes of all generations.
AnyLifetime == UNION {RT!LifetimesOf(g) : g \in DOMAIN Snapshots}

\* The routes of all generations.
AnyRoute == {"default"} \cup UNION {DOMAIN Snapshots[g] : g \in DOMAIN Snapshots}

\* What is known about a client.
RouteClients == [lifetime : AnyLifetime, open : BOOLEAN, callback : {"armed", "started", "stopped", "ran"}]

\* What is known about an exchange.
RouteSteps == [pc : {"idle", "captured", "checked", "using"}, generation : Nat, route : AnyRoute, client : Nat \cup {NoClient}]

\* The types, and the limit.
RtType ==
  /\ snapshot \in 1 .. Len(Snapshots) /\ client \in Seq(RouteClients) /\ routesClosed \in BOOLEAN
  /\ exchange \in [Exchanges -> RouteSteps]
  /\ \A x \in Exchanges : exchange[x].pc # "idle" => /\ exchange[x].generation \in 1 .. snapshot
                                                     /\ exchange[x].route \in DOMAIN Snapshots[exchange[x].generation]
  /\ IsFiniteSet(DOMAIN routes) /\ Cardinality(DOMAIN routes) <= MaxRoutes

\* A client is open exactly while its route leads to it; its callback fits.
ClientSound ==
  \A c \in DOMAIN client :
    /\ Lived(client[c].lifetime)
    /\ client[c].open => /\ client[c].lifetime \in DOMAIN routes /\ routes[client[c].lifetime] = c
                         /\ ~routesClosed /\ client[c].callback \in {"armed", "started"}
    /\ client[c].callback = "armed" => client[c].lifetime \in RT!LifetimesOf(snapshot)
    /\ client[c].callback = "started" => client[c].lifetime \notin RT!LifetimesOf(snapshot)
    /\ ~client[c].open => routesClosed \/ client[c].lifetime \notin RT!LifetimesOf(snapshot)

\* A route leads to its own client, which is open.
RouteSound ==
  \A l \in DOMAIN routes : routes[l] \in DOMAIN client /\ client[routes[l]].lifetime = l /\ client[routes[l]].open

\* A lifetime has at most one client, ever.
OneClient == \A c, d \in DOMAIN client : client[c].lifetime = client[d].lifetime => c = d

\* The client that is shown is open.
ShownOpen == shown # NoClient => shown \in DOMAIN client /\ client[shown].open

\* The inductive invariant of Routes.
RtInv == RtType /\ ClientSound /\ RouteSound /\ OneClient /\ ShownOpen

\* A lifetime has ended when a generation had it and the current one does not.
LEMMA RtEnded == ASSUME NEW l PROVE l \in RT!Ended <=> Lived(l) /\ l \notin RT!LifetimesOf(snapshot)
<1>1. l \in UNION {RT!LifetimesOf(g) : g \in 1 .. snapshot} <=> \E g \in 1 .. snapshot : l \in RT!LifetimesOf(g)
  OBVIOUS
<1> QED
  BY <1>1 DEF RT!Ended, Lived

\* What has lived and is gone stays gone when the next generation is published.
LEMMA RtGone ==
  ASSUME snapshot \in 1 .. Len(Snapshots), snapshot < Len(Snapshots), NEW l, Lived(l), l \notin RT!LifetimesOf(snapshot)
  PROVE  l \notin RT!LifetimesOf(snapshot + 1)
<1> PICK g \in 1 .. snapshot : l \in RT!LifetimesOf(g)
  BY DEF Lived
<1> g \in DOMAIN Snapshots /\ snapshot \in DOMAIN Snapshots /\ snapshot + 1 \in DOMAIN Snapshots /\ g < snapshot /\ snapshot < snapshot + 1
  BY RoutesAssumption
<1> SUFFICES ASSUME l \in RT!LifetimesOf(snapshot + 1) PROVE FALSE
  OBVIOUS
<1> QED
  BY RoutesAssumption

\* Shutting clients leaves their lifetimes as they are.
LEMMA RtShut ==
  ASSUME client \in Seq(RouteClients), NEW S
  PROVE  /\ RT!Shut(S) \in Seq(RouteClients) /\ DOMAIN RT!Shut(S) = DOMAIN client /\ Len(RT!Shut(S)) = Len(client)
         /\ \A c \in DOMAIN client :
              /\ RT!Shut(S)[c].lifetime = client[c].lifetime
              /\ c \notin S => RT!Shut(S)[c] = client[c]
              /\ c \in S => /\ ~RT!Shut(S)[c].open
                            /\ RT!Shut(S)[c].callback = IF client[c].callback = "armed" THEN "stopped" ELSE client[c].callback
<1>1. DOMAIN client = 1 .. Len(client) /\ Len(client) \in Nat /\ \A c \in DOMAIN client : client[c] \in RouteClients
  OBVIOUS
<1>2. ASSUME NEW c \in DOMAIN client
      PROVE  /\ RT!Shut(S)[c] \in RouteClients /\ RT!Shut(S)[c].lifetime = client[c].lifetime
             /\ c \notin S => RT!Shut(S)[c] = client[c]
             /\ c \in S => /\ ~RT!Shut(S)[c].open
                           /\ RT!Shut(S)[c].callback = IF client[c].callback = "armed" THEN "stopped" ELSE client[c].callback
  <2>1. RT!Shut(S)[c] = IF c \in S THEN [client[c] EXCEPT !.open = FALSE, !.callback = IF @ = "armed" THEN "stopped" ELSE @]
                        ELSE client[c]
    BY DEF RT!Shut
  <2> DEFINE k == IF client[c].callback = "armed" THEN "stopped" ELSE client[c].callback
  <2>2. client[c] \in RouteClients /\ k \in {"armed", "started", "stopped", "ran"}
    BY <1>1 DEF RouteClients
  <2>3. CASE c \in S
    <3>1. RT!Shut(S)[c] = [client[c] EXCEPT !.open = FALSE, !.callback = k]
      BY <2>1, <2>2, <2>3 DEF RouteClients
    <3> HIDE DEF k
    <3>2. RT!Shut(S)[c] \in RouteClients /\ RT!Shut(S)[c].lifetime = client[c].lifetime /\ RT!Shut(S)[c].open = FALSE /\ RT!Shut(S)[c].callback = k
      BY <3>1, <2>2 DEF RouteClients
    <3> QED
      BY <3>2, <2>3 DEF k
  <2>4. CASE c \notin S
    BY <2>1, <2>2, <2>4
  <2> QED
    BY <2>3, <2>4
<1>3. DOMAIN RT!Shut(S) = 1 .. Len(client)
  BY <1>1 DEF RT!Shut
<1>4. RT!Shut(S) \in [1 .. Len(client) -> RouteClients]
  BY <1>1, <1>2, <1>3 DEF RT!Shut
<1>5. RT!Shut(S) \in Seq(RouteClients) /\ Len(RT!Shut(S)) = Len(client)
  BY <1>1, <1>4
<1> QED
  BY <1>1, <1>2, <1>3, <1>5

\* What is left of a function.
LEMMA RtRestrict ==
  ASSUME NEW f, NEW S
  PROVE  /\ DOMAIN RT!Restrict(f, DOMAIN f \ S) = DOMAIN f \ S
         /\ \A l \in DOMAIN f \ S : RT!Restrict(f, DOMAIN f \ S)[l] = f[l]
  BY DEF RT!Restrict

\* The empty function.
LEMMA RtEmpty == DOMAIN <<>> = {}
  OBVIOUS

\* The step of an exchange that has not begun.
LEMMA RtIdle == RT!Idle \in RouteSteps /\ RT!Idle.pc = "idle"
<1>1. "default" \in AnyRoute /\ NoClient \in Nat \cup {NoClient}
  BY DEF AnyRoute
<1> QED
  BY <1>1 DEF RT!Idle, RouteSteps

\* At first there is no client.
LEMMA RtInit == RT!Init => RtInv
<1> SUFFICES ASSUME RT!Init PROVE RtInv
  OBVIOUS
<1>1. exchange \in [Exchanges -> RouteSteps] /\ \A x \in Exchanges : exchange[x].pc = "idle"
  BY RtIdle DEF RT!Init
<1>2. DOMAIN routes = {} /\ DOMAIN client = {} /\ client \in Seq(RouteClients)
  BY RtEmpty DEF RT!Init
<1>3. IsFiniteSet({}) /\ Cardinality({}) = 0
  BY FS_EmptySet
<1>0. routesClosed \in BOOLEAN
  BY DEF RT!Init
<1>4. snapshot = 1 /\ snapshot \in 1 .. Len(Snapshots)
  BY RoutesAssumption DEF RT!Init
<1>5. Cardinality(DOMAIN routes) <= MaxRoutes /\ IsFiniteSet(DOMAIN routes)
  BY <1>2, <1>3, RoutesAssumption
<1>6. RtType
  BY <1>0, <1>1, <1>2, <1>4, <1>5 DEF RtType
<1> QED
  BY <1>2, <1>6 DEF RT!Init, RtInv, ClientSound, RouteSound, OneClient, ShownOpen

\* A configuration is published, and the callbacks of what it ends start.
LEMMA RtPublish == ASSUME RtInv, RT!Publish PROVE RtInv'
<1> USE DEF RtInv
<1>1. /\ snapshot' = snapshot + 1 /\ snapshot \in 1 .. Len(Snapshots) /\ snapshot < Len(Snapshots)
      /\ Len(Snapshots) \in Nat /\ UNCHANGED <<routes, shown, shownBy, routesClosed, exchange>>
  BY RoutesAssumption DEF RT!Publish, RtType
<1>2. /\ client' \in Seq(RouteClients) /\ DOMAIN client' = DOMAIN client
      /\ \A c \in DOMAIN client :
           /\ client'[c].lifetime = client[c].lifetime /\ client'[c].open = client[c].open
           /\ client'[c].callback = IF client[c].callback = "armed" /\ client[c].lifetime \notin RT!LifetimesOf(snapshot + 1)
                                    THEN "started" ELSE client[c].callback
           /\ client'[c] \in RouteClients
  <2>1. DOMAIN client = 1 .. Len(client) /\ Len(client) \in Nat /\ \A c \in DOMAIN client : client[c] \in RouteClients
    BY DEF RtType
  <2>2. ASSUME NEW c \in DOMAIN client
        PROVE  /\ client'[c].lifetime = client[c].lifetime /\ client'[c].open = client[c].open
               /\ client'[c].callback = IF client[c].callback = "armed" /\ client[c].lifetime \notin RT!LifetimesOf(snapshot + 1)
                                        THEN "started" ELSE client[c].callback
               /\ client'[c] \in RouteClients
    <3>1. client[c] \in RouteClients
      BY <2>1
    <3>2. client'[c] = IF client[c].callback = "armed" /\ client[c].lifetime \notin RT!LifetimesOf(snapshot + 1)
                       THEN [client[c] EXCEPT !.callback = "started"] ELSE client[c]
      BY DEF RT!Publish
    <3> QED
      BY <3>1, <3>2 DEF RouteClients
  <2>3. client' \in [1 .. Len(client) -> RouteClients]
    BY <2>1, <2>2 DEF RT!Publish
  <2> QED
    BY <2>1, <2>2, <2>3
<1>3. \A l : Lived(l) => Lived(l)'
  BY <1>1 DEF Lived
<1>4. \A l : Lived(l) /\ l \notin RT!LifetimesOf(snapshot) => l \notin RT!LifetimesOf(snapshot + 1)
  BY <1>1, RtGone
<1>5. \A l : (l \in RT!LifetimesOf(snapshot))' <=> l \in RT!LifetimesOf(snapshot + 1)
  BY <1>1 DEF RT!LifetimesOf
<1>6. RtType'
  BY <1>1, <1>2 DEF RtType
<1>7. ClientSound'
  <2> SUFFICES ASSUME NEW c \in DOMAIN client' PROVE
        /\ Lived(client[c].lifetime)'
        /\ client'[c].open => /\ client'[c].lifetime \in DOMAIN routes' /\ routes'[client'[c].lifetime] = c
                              /\ ~routesClosed' /\ client'[c].callback \in {"armed", "started"}
        /\ client'[c].callback = "armed" => (client[c].lifetime \in RT!LifetimesOf(snapshot))'
        /\ client'[c].callback = "started" => (client[c].lifetime \notin RT!LifetimesOf(snapshot))'
        /\ ~client'[c].open => routesClosed' \/ (client[c].lifetime \notin RT!LifetimesOf(snapshot))'
    BY DEF ClientSound
  <2> c \in DOMAIN client /\ client[c] \in RouteClients
    BY <1>2 DEF RtType
  <2> QED
    BY <1>1, <1>2, <1>3, <1>4, <1>5 DEF ClientSound, RouteClients
<1>8. RouteSound' /\ OneClient' /\ ShownOpen'
  BY <1>1, <1>2 DEF RouteSound, OneClient, ShownOpen
<1> QED
  BY <1>6, <1>7, <1>8

\* RouteSteps that only move an exchange.
LEMMA RtMove ==
  ASSUME RtInv, NEW x \in Exchanges, NEW e \in RouteSteps, exchange' = [exchange EXCEPT ![x] = e],
         e.pc # "idle" => e.generation \in 1 .. snapshot /\ e.route \in DOMAIN Snapshots[e.generation],
         UNCHANGED <<snapshot, routes, client, routesClosed>>,
         shown' = shown \/ (shown' \in DOMAIN client /\ client[shown'].open)
  PROVE  RtInv'
<1> USE DEF RtInv
<1>1. exchange' \in [Exchanges -> RouteSteps] /\ exchange'[x] = e /\ \A y \in Exchanges \ {x} : exchange'[y] = exchange[y]
  BY DEF RtType
<1>2. RtType'
  BY <1>1 DEF RtType
<1>3. ClientSound' /\ RouteSound' /\ OneClient'
  BY DEF ClientSound, RouteSound, OneClient, Lived, RT!LifetimesOf
<1>4. ShownOpen'
  BY DEF ShownOpen
<1> QED
  BY <1>2, <1>3, <1>4

\* An exchange captures a generation.
LEMMA RtCapture ==
  ASSUME RtInv, NEW x \in Exchanges, NEW r \in DOMAIN Snapshots[snapshot], RT!Capture(x, r) PROVE RtInv'
<1> DEFINE e == [pc |-> "captured", generation |-> snapshot, route |-> r, client |-> NoClient]
<1>1. snapshot \in DOMAIN Snapshots /\ snapshot \in Nat /\ snapshot \in 1 .. snapshot
  BY RoutesAssumption DEF RtInv, RtType
<1>2. r \in AnyRoute
  BY <1>1 DEF AnyRoute
<1>3. e \in RouteSteps /\ e.generation = snapshot /\ e.route = r
  BY <1>1, <1>2 DEF RouteSteps
<1>4. exchange' = [exchange EXCEPT ![x] = e] /\ UNCHANGED <<snapshot, routes, client, shown, routesClosed>>
  BY DEF RT!Capture
<1> HIDE DEF e
<1> QED
  BY <1>1, <1>3, <1>4, RtMove

\* What is known about an exchange.
LEMMA RtStep == ASSUME RtInv, NEW x \in Exchanges
  PROVE exchange[x] \in RouteSteps /\ exchange[x].pc # "idle" => /\ exchange[x].generation \in 1 .. snapshot
                                                     /\ exchange[x].route \in DOMAIN Snapshots[exchange[x].generation]
  BY DEF RtInv, RtType

\* An exchange has looked at its lifetime.
LEMMA RtCheck == ASSUME RtInv, NEW x \in Exchanges, RT!Check(x) PROVE RtInv'
<1> DEFINE e == IF RT!Lifetime(exchange[x]) \in RT!Ended THEN RT!Idle ELSE [exchange[x] EXCEPT !.pc = "checked"]
<1>0. exchange[x] \in RouteSteps /\ exchange[x].pc = "captured"
  BY DEF RtInv, RtType, RT!Check
<1>1. e \in RouteSteps /\ (e.pc # "idle" => e.generation = exchange[x].generation /\ e.route = exchange[x].route)
  BY <1>0, RtIdle DEF RouteSteps
<1>4. exchange' = [exchange EXCEPT ![x] = e] /\ UNCHANGED <<snapshot, routes, client, shown, routesClosed>>
  BY DEF RT!Check
<1> HIDE DEF e
<1> QED
  BY <1>0, <1>1, <1>4, RtMove, RtStep

\* An exchange is refused, or ends.
LEMMA RtQuiet == ASSUME RtInv, NEW x \in Exchanges, RT!RefuseClosed(x) \/ RT!Finish(x) PROVE RtInv'
<1>1. exchange' = [exchange EXCEPT ![x] = RT!Idle] /\ UNCHANGED <<snapshot, routes, client, shown, routesClosed>>
  BY DEF RT!RefuseClosed, RT!Finish, RT!Refuse
<1> QED
  BY <1>1, RtIdle, RtMove

\* What using a client makes of the step of an exchange.
LEMMA RtUsing ==
  ASSUME RtInv, NEW x \in Exchanges, exchange[x].pc = "checked", NEW c \in Nat
  PROVE  LET e == [exchange[x] EXCEPT !.pc = "using", !.client = c] IN
         /\ e \in RouteSteps /\ e.generation \in 1 .. snapshot /\ e.route \in DOMAIN Snapshots[e.generation]
         /\ RT!Using(x, c) => exchange' = [exchange EXCEPT ![x] = e]
<1> DEFINE e == [exchange[x] EXCEPT !.pc = "using", !.client = c]
<1>1. exchange[x] \in RouteSteps
  BY DEF RtInv, RtType
<1>2. e \in RouteSteps /\ e.generation = exchange[x].generation /\ e.route = exchange[x].route
  BY <1>1 DEF RouteSteps
<1>3. RT!Using(x, c) => exchange' = [exchange EXCEPT ![x] = e]
  BY DEF RT!Using
<1>4. exchange[x].generation \in 1 .. snapshot /\ exchange[x].route \in DOMAIN Snapshots[exchange[x].generation]
  BY DEF RtInv, RtType
<1> HIDE DEF e
<1>5. e.generation \in 1 .. snapshot /\ e.route \in DOMAIN Snapshots[e.generation]
  BY <1>2, <1>4
<1> QED
  BY <1>2, <1>3, <1>5 DEF e

\* An exchange finds the client of its lifetime.
LEMMA RtReuse == ASSUME RtInv, NEW x \in Exchanges, RT!Reuse(x) PROVE RtInv'
<1> DEFINE l == RT!Lifetime(exchange[x])
           c == routes[l]
           e == [exchange[x] EXCEPT !.pc = "using", !.client = c]
<1>1. exchange[x].pc = "checked" /\ l \in DOMAIN routes /\ RT!Using(x, c) /\ UNCHANGED <<snapshot, routes, client, routesClosed>>
  BY DEF RT!Reuse
<1>2. c \in DOMAIN client /\ client[c].open /\ c \in Nat
  BY <1>1 DEF RtInv, RouteSound, RtType
<1>3. shown' = shown \/ shown' = c
  BY DEF RT!Reuse
<1>4. /\ e \in RouteSteps /\ e.generation \in 1 .. snapshot /\ e.route \in DOMAIN Snapshots[e.generation]
      /\ exchange' = [exchange EXCEPT ![x] = e]
  BY <1>1, <1>2, RtUsing
<1> HIDE DEF l, c, e
<1> QED
  BY <1>1, <1>2, <1>3, <1>4, RtMove

\* The pruning of the dead clients.
LEMMA RtPrune ==
  ASSUME RtInv
  PROVE  LET kept == RT!Restrict(routes, DOMAIN routes \ RT!Ended) IN
         /\ DOMAIN kept = DOMAIN routes \ RT!Ended /\ \A l \in DOMAIN kept : kept[l] = routes[l]
         /\ IsFiniteSet(DOMAIN kept) /\ Cardinality(DOMAIN kept) \in Nat /\ Cardinality(DOMAIN kept) <= MaxRoutes
         /\ \A c \in DOMAIN client : c \in RT!Dead <=> client[c].open /\ client[c].lifetime \in RT!Ended
         /\ \A l \in DOMAIN kept : kept[l] \in DOMAIN client /\ kept[l] \notin RT!Dead
         /\ RT!PrunedCurrent # NoClient => RT!PrunedCurrent \in DOMAIN client /\ client[RT!PrunedCurrent].open /\ RT!PrunedCurrent \notin RT!Dead
<1> DEFINE kept == RT!Restrict(routes, DOMAIN routes \ RT!Ended)
<1>1. DOMAIN kept = DOMAIN routes \ RT!Ended /\ \A l \in DOMAIN kept : kept[l] = routes[l]
  BY DEF RT!Restrict
<1>2. IsFiniteSet(DOMAIN kept) /\ Cardinality(DOMAIN kept) \in Nat /\ Cardinality(DOMAIN kept) <= MaxRoutes
  <2>1. IsFiniteSet(DOMAIN routes) /\ Cardinality(DOMAIN routes) <= MaxRoutes /\ DOMAIN kept \subseteq DOMAIN routes
    BY <1>1 DEF RtInv, RtType
  <2>2. IsFiniteSet(DOMAIN kept) /\ Cardinality(DOMAIN kept) <= Cardinality(DOMAIN routes)
    BY <2>1, FS_Subset
  <2>3. Cardinality(DOMAIN kept) \in Nat /\ Cardinality(DOMAIN routes) \in Nat
    BY <2>1, <2>2, FS_CardinalityType
  <2> HIDE DEF kept
  <2> QED
    BY <2>1, <2>2, <2>3, RoutesAssumption
<1>3. ASSUME NEW c \in DOMAIN client PROVE c \in RT!Dead <=> client[c].open /\ client[c].lifetime \in RT!Ended
  BY DEF RT!Dead, RtInv, ClientSound, RouteSound
<1>4. ASSUME NEW l \in DOMAIN kept PROVE kept[l] \in DOMAIN client /\ kept[l] \notin RT!Dead
  BY <1>1, <1>3 DEF RtInv, RouteSound
<1>5. RT!PrunedCurrent # NoClient => RT!PrunedCurrent \in DOMAIN client /\ client[RT!PrunedCurrent].open /\ RT!PrunedCurrent \notin RT!Dead
  BY DEF RT!PrunedCurrent, RtInv, ShownOpen
<1> QED
  BY <1>1, <1>2, <1>3, <1>4, <1>5

\* The clients and routes that are left, with and without a new client.
LEMMA RtPruned ==
  ASSUME RtInv, NEW x \in Exchanges, exchange' = [exchange EXCEPT ![x] = RT!Idle],
         routes' = RT!Restrict(routes, DOMAIN routes \ RT!Ended), client' = RT!Shut(RT!Dead), shown' = RT!PrunedCurrent,
         UNCHANGED <<snapshot, routesClosed>>
  PROVE  RtInv'
<1> USE DEF RtInv
<1>1. exchange' \in [Exchanges -> RouteSteps] /\ exchange'[x] = RT!Idle /\ \A y \in Exchanges \ {x} : exchange'[y] = exchange[y]
  BY RtIdle DEF RtType
<1>2. /\ client' \in Seq(RouteClients) /\ DOMAIN client' = DOMAIN client
      /\ \A c \in DOMAIN client :
           /\ client'[c].lifetime = client[c].lifetime
           /\ c \notin RT!Dead => client'[c] = client[c]
           /\ c \in RT!Dead => /\ ~client'[c].open
                               /\ client'[c].callback = IF client[c].callback = "armed" THEN "stopped" ELSE client[c].callback
  BY RtShut DEF RtType
<1>3. /\ DOMAIN routes' = DOMAIN routes \ RT!Ended /\ \A l \in DOMAIN routes' : routes'[l] = routes[l]
      /\ IsFiniteSet(DOMAIN routes') /\ Cardinality(DOMAIN routes') <= MaxRoutes
      /\ \A c \in DOMAIN client : c \in RT!Dead <=> client[c].open /\ client[c].lifetime \in RT!Ended
      /\ \A l \in DOMAIN routes' : routes'[l] \in DOMAIN client /\ routes'[l] \notin RT!Dead
      /\ shown' # NoClient => shown' \in DOMAIN client /\ client[shown'].open /\ shown' \notin RT!Dead
  BY RtPrune
<1>4. RtType'
  BY <1>1, <1>2, <1>3, RtIdle DEF RtType
<1>5. \A l : Lived(l)' <=> Lived(l)
  BY DEF Lived
<1>6. \A l : (l \in RT!LifetimesOf(snapshot))' <=> l \in RT!LifetimesOf(snapshot)
  BY DEF RT!LifetimesOf
<1>7. ClientSound'
  <2> SUFFICES ASSUME NEW c \in DOMAIN client' PROVE
        /\ Lived(client[c].lifetime)'
        /\ client'[c].open => /\ client'[c].lifetime \in DOMAIN routes' /\ routes'[client'[c].lifetime] = c
                              /\ ~routesClosed' /\ client'[c].callback \in {"armed", "started"}
        /\ client'[c].callback = "armed" => (client[c].lifetime \in RT!LifetimesOf(snapshot))'
        /\ client'[c].callback = "started" => (client[c].lifetime \notin RT!LifetimesOf(snapshot))'
        /\ ~client'[c].open => routesClosed' \/ (client[c].lifetime \notin RT!LifetimesOf(snapshot))'
    BY DEF ClientSound
  <2>1. CASE c \in RT!Dead
    BY <2>1, <1>2, <1>3, <1>5, <1>6, RtEnded DEF ClientSound
  <2>2. CASE c \notin RT!Dead
    <3>1. client'[c] = client[c] /\ routesClosed' = routesClosed /\ c \in DOMAIN client
      BY <2>2, <1>2
    <3>2. ASSUME client[c].open PROVE client[c].lifetime \in DOMAIN routes' /\ routes'[client[c].lifetime] = c
      <4>1. client[c].lifetime \in DOMAIN routes /\ routes[client[c].lifetime] = c
        BY <3>1, <3>2 DEF ClientSound
      <4>2. client[c].lifetime \notin RT!Ended
        BY <3>1, <3>2, <2>2, <1>3
      <4> QED
        BY <4>1, <4>2, <1>3
    <3> QED
      BY <3>1, <3>2, <1>5, <1>6 DEF ClientSound
  <2> QED
    BY <2>1, <2>2
<1>8. RouteSound'
  <2> SUFFICES ASSUME NEW l \in DOMAIN routes'
               PROVE  routes'[l] \in DOMAIN client' /\ client'[routes'[l]].lifetime = l /\ client'[routes'[l]].open
    BY DEF RouteSound
  <2>1. routes'[l] = routes[l] /\ l \in DOMAIN routes /\ routes[l] \in DOMAIN client /\ routes[l] \notin RT!Dead
    BY <1>3
  <2>2. client'[routes[l]] = client[routes[l]] /\ client[routes[l]].lifetime = l /\ client[routes[l]].open
    BY <1>2, <2>1 DEF RouteSound
  <2> QED
    BY <1>2, <2>1, <2>2
<1>9. OneClient' /\ ShownOpen'
  BY <1>2, <1>3 DEF OneClient, ShownOpen
<1> QED
  BY <1>4, <1>7, <1>8, <1>9

\* A client is made where there is room, and its lifetime has not ended.
LEMMA RtCreated ==
  ASSUME RtInv, NEW x \in Exchanges, exchange[x].pc = "checked", ~routesClosed,
         NEW l, l = RT!Lifetime(exchange[x]), l \notin DOMAIN routes, l \notin RT!Ended,
         NEW c, c = Len(client) + 1,
         NEW kept, kept = RT!Restrict(routes, DOMAIN routes \ RT!Ended), ~(Cardinality(DOMAIN kept) >= MaxRoutes),
         routes' = [k \in DOMAIN kept \cup {l} |-> IF k = l THEN c ELSE kept[k]],
         client' = Append(RT!Shut(RT!Dead), [lifetime |-> l, open |-> TRUE, callback |-> "armed"]),
         shown' \in {c, RT!PrunedCurrent}, RT!Using(x, c), UNCHANGED <<snapshot, routesClosed>>
  PROVE  RtInv'
<1> USE DEF RtInv
<1>0. Len(client) \in Nat /\ DOMAIN client = 1 .. Len(client) /\ c \in Nat /\ c \notin DOMAIN client
  BY DEF RtType
<1> DEFINE e == [exchange[x] EXCEPT !.pc = "using", !.client = c]
<1>1. /\ e \in RouteSteps /\ e.generation \in 1 .. snapshot /\ e.route \in DOMAIN Snapshots[e.generation]
      /\ exchange' = [exchange EXCEPT ![x] = e]
  BY <1>0, RtUsing
<1>2. exchange' \in [Exchanges -> RouteSteps] /\ exchange'[x] = e /\ \A y \in Exchanges \ {x} : exchange'[y] = exchange[y]
  BY <1>1 DEF RtType
<1> HIDE DEF e
<1>3. Lived(l) /\ l \in AnyLifetime /\ l \in RT!LifetimesOf(snapshot)
  <2>1. /\ exchange[x].generation \in 1 .. snapshot /\ exchange[x].route \in DOMAIN Snapshots[exchange[x].generation]
        /\ snapshot \in 1 .. Len(Snapshots)
    BY DEF RtType
  <2>2. l \in RT!LifetimesOf(exchange[x].generation) /\ exchange[x].generation \in DOMAIN Snapshots
    <3>1. exchange[x].generation \in DOMAIN Snapshots
      BY <2>1, RoutesAssumption
    <3>2. l = Snapshots[exchange[x].generation][exchange[x].route]
      BY DEF RT!Lifetime
    <3> QED
      BY <2>1, <3>1, <3>2 DEF RT!LifetimesOf
  <2> QED
    BY <2>1, <2>2, RtEnded DEF Lived, AnyLifetime
<1>4. \A d \in DOMAIN client : client[d].lifetime # l
  BY <1>3 DEF ClientSound
<1> DEFINE new == [lifetime |-> l, open |-> TRUE, callback |-> "armed"]
<1>5. new \in RouteClients /\ new.lifetime = l /\ new.open /\ new.callback = "armed"
  BY <1>3 DEF RouteClients
<1> HIDE DEF new
<1>6. /\ RT!Shut(RT!Dead) \in Seq(RouteClients) /\ Len(RT!Shut(RT!Dead)) = Len(client)
      /\ \A d \in DOMAIN client :
           /\ RT!Shut(RT!Dead)[d].lifetime = client[d].lifetime
           /\ d \notin RT!Dead => RT!Shut(RT!Dead)[d] = client[d]
           /\ d \in RT!Dead => /\ ~RT!Shut(RT!Dead)[d].open
                               /\ RT!Shut(RT!Dead)[d].callback = IF client[d].callback = "armed" THEN "stopped" ELSE client[d].callback
  BY RtShut DEF RtType
<1>7. /\ client' \in Seq(RouteClients) /\ DOMAIN client' = DOMAIN client \cup {c} /\ client'[c] = new
      /\ \A d \in DOMAIN client : client'[d] = RT!Shut(RT!Dead)[d]
  <2>1. client' = Append(RT!Shut(RT!Dead), new)
    BY DEF new
  <2> QED
    BY <1>0, <1>5, <1>6, <2>1
<1>8. /\ \A d \in DOMAIN client :
           /\ client'[d].lifetime = client[d].lifetime
           /\ d \notin RT!Dead => client'[d] = client[d]
           /\ d \in RT!Dead => /\ ~client'[d].open
                               /\ client'[d].callback = IF client[d].callback = "armed" THEN "stopped" ELSE client[d].callback
  BY <1>6, <1>7
<1>9. /\ DOMAIN kept = DOMAIN routes \ RT!Ended /\ \A k \in DOMAIN kept : kept[k] = routes[k]
      /\ IsFiniteSet(DOMAIN kept) /\ Cardinality(DOMAIN kept) \in Nat
      /\ \A d \in DOMAIN client : d \in RT!Dead <=> client[d].open /\ client[d].lifetime \in RT!Ended
      /\ \A k \in DOMAIN kept : kept[k] \in DOMAIN client /\ kept[k] \notin RT!Dead
      /\ RT!PrunedCurrent # NoClient => RT!PrunedCurrent \in DOMAIN client /\ client[RT!PrunedCurrent].open /\ RT!PrunedCurrent \notin RT!Dead
  BY RtPrune
<1>10. /\ DOMAIN routes' = DOMAIN kept \cup {l} /\ routes'[l] = c /\ l \notin DOMAIN kept
       /\ \A k \in DOMAIN kept : routes'[k] = kept[k]
  BY <1>9
<1>11. RtType'
  <2>1. IsFiniteSet(DOMAIN routes') /\ Cardinality(DOMAIN routes') = Cardinality(DOMAIN kept) + 1
    BY <1>9, <1>10, FS_AddElement
  <2>2. Cardinality(DOMAIN routes') <= MaxRoutes
    BY <2>1, <1>9, RoutesAssumption
  <2> QED
    BY <2>1, <2>2, <1>1, <1>2, <1>7 DEF RtType
<1>12. \A k : Lived(k)' <=> Lived(k)
  BY DEF Lived
<1>13. \A k : (k \in RT!LifetimesOf(snapshot))' <=> k \in RT!LifetimesOf(snapshot)
  BY DEF RT!LifetimesOf
<1>14. ClientSound'
  <2> SUFFICES ASSUME NEW d \in DOMAIN client' PROVE
        /\ Lived(client[d].lifetime)'
        /\ client'[d].open => /\ client'[d].lifetime \in DOMAIN routes' /\ routes'[client'[d].lifetime] = d
                              /\ ~routesClosed' /\ client'[d].callback \in {"armed", "started"}
        /\ client'[d].callback = "armed" => (client[d].lifetime \in RT!LifetimesOf(snapshot))'
        /\ client'[d].callback = "started" => (client[d].lifetime \notin RT!LifetimesOf(snapshot))'
        /\ ~client'[d].open => routesClosed' \/ (client[d].lifetime \notin RT!LifetimesOf(snapshot))'
    BY DEF ClientSound
  <2>0. CASE d = c
    BY <2>0, <1>3, <1>5, <1>7, <1>10, <1>12, <1>13
  <2>1. CASE d \in DOMAIN client /\ d \in RT!Dead
    BY <2>1, <1>8, <1>9, <1>10, <1>12, <1>13, RtEnded DEF ClientSound
  <2>2. CASE d \in DOMAIN client /\ d \notin RT!Dead
    <3>1. client'[d] = client[d] /\ routesClosed' = routesClosed /\ d \in DOMAIN client
      BY <2>2, <1>8
    <3>2. ASSUME client[d].open PROVE client[d].lifetime \in DOMAIN routes' /\ routes'[client[d].lifetime] = d
      <4>1. client[d].lifetime \in DOMAIN routes /\ routes[client[d].lifetime] = d
        BY <3>1, <3>2 DEF ClientSound
      <4>2. client[d].lifetime \notin RT!Ended
        BY <3>1, <3>2, <2>2, <1>10, <1>9
      <4>3. client[d].lifetime \in DOMAIN kept
        BY <4>1, <4>2, <1>9
      <4>4. kept[client[d].lifetime] = d
        BY <4>1, <4>3, <1>9
      <4> QED
        BY <4>3, <4>4, <1>10
    <3> QED
      BY <3>1, <3>2, <1>12, <1>13 DEF ClientSound
  <2> QED
    BY <2>0, <2>1, <2>2, <1>7
<1>15. RouteSound'
  <2> SUFFICES ASSUME NEW k \in DOMAIN routes'
               PROVE  routes'[k] \in DOMAIN client' /\ client'[routes'[k]].lifetime = k /\ client'[routes'[k]].open
    BY DEF RouteSound
  <2>1. CASE k = l
    BY <2>1, <1>5, <1>7, <1>10
  <2>2. CASE k # l
    <3>1. routes'[k] = routes[k] /\ k \in DOMAIN routes /\ routes[k] \in DOMAIN client /\ routes[k] \notin RT!Dead
      BY <2>2, <1>9, <1>10
    <3>2. client'[routes[k]] = client[routes[k]] /\ client[routes[k]].lifetime = k /\ client[routes[k]].open
      BY <1>8, <3>1 DEF RouteSound
    <3> QED
      BY <1>7, <3>1, <3>2
  <2> QED
    BY <2>1, <2>2
<1>16. OneClient'
  <2> SUFFICES ASSUME NEW d \in DOMAIN client', NEW f \in DOMAIN client', client'[d].lifetime = client'[f].lifetime
               PROVE  d = f
    BY DEF OneClient
  <2>1. \A b \in DOMAIN client : client'[b].lifetime = client[b].lifetime /\ client[b].lifetime # l
    BY <1>4, <1>8
  <2>2. client'[c].lifetime = l /\ d \in DOMAIN client \cup {c} /\ f \in DOMAIN client \cup {c}
    BY <1>5, <1>7
  <2> QED
    BY <2>1, <2>2 DEF OneClient
<1>17. ShownOpen'
  <2>1. c \in DOMAIN client' /\ client'[c].open
    BY <1>5, <1>7
  <2>2. RT!PrunedCurrent # NoClient => RT!PrunedCurrent \in DOMAIN client' /\ client'[RT!PrunedCurrent].open
    BY <1>7, <1>8, <1>9
  <2>3. shown' = c \/ shown' = RT!PrunedCurrent
    OBVIOUS
  <2> QED
    BY <2>1, <2>2, <2>3, Zenon DEF ShownOpen
<1> QED
  BY <1>11, <1>14, <1>15, <1>16, <1>17

\* Dead clients are pruned; a client is made, or refused.
LEMMA RtCreate == ASSUME RtInv, NEW x \in Exchanges, RT!Create(x) PROVE RtInv'
<1> DEFINE l == RT!Lifetime(exchange[x])
           c == Len(client) + 1
           kept == RT!Restrict(routes, DOMAIN routes \ RT!Ended)
<1>1. exchange[x].pc = "checked" /\ ~routesClosed /\ l \notin DOMAIN routes /\ UNCHANGED <<snapshot, routesClosed>>
  BY DEF RT!Create
<1>2. PICK fails \in BOOLEAN :
        IF fails \/ l \in RT!Ended \/ Cardinality(DOMAIN kept) >= MaxRoutes
        THEN /\ routes' = kept /\ client' = RT!Shut(RT!Dead) /\ shown' = RT!PrunedCurrent
             /\ RT!Refuse(x) /\ UNCHANGED shownBy
        ELSE /\ routes' = [k \in DOMAIN kept \cup {l} |-> IF k = l THEN c ELSE kept[k]]
             /\ client' = Append(RT!Shut(RT!Dead), [lifetime |-> l, open |-> TRUE, callback |-> "armed"])
             /\ shown' = RT!Show(x, c).current /\ shownBy' = RT!Show(x, c).generation
             /\ RT!Using(x, c)
  BY RtCardinality DEF RT!Create
<1>3. CASE fails \/ l \in RT!Ended \/ Cardinality(DOMAIN kept) >= MaxRoutes
  BY <1>1, <1>2, <1>3, RtPruned DEF RT!Refuse
<1>4. CASE ~(fails \/ l \in RT!Ended \/ Cardinality(DOMAIN kept) >= MaxRoutes)
  <2>1. /\ routes' = [k \in DOMAIN kept \cup {l} |-> IF k = l THEN c ELSE kept[k]]
        /\ client' = Append(RT!Shut(RT!Dead), [lifetime |-> l, open |-> TRUE, callback |-> "armed"])
        /\ shown' = RT!Show(x, c).current /\ RT!Using(x, c) /\ l \notin RT!Ended /\ ~(Cardinality(DOMAIN kept) >= MaxRoutes)
    BY <1>2, <1>4
  <2>2. shown' \in {c, RT!PrunedCurrent}
    BY <2>1 DEF RT!Show
  <2>3. l = RT!Lifetime(exchange[x]) /\ c = Len(client) + 1 /\ kept = RT!Restrict(routes, DOMAIN routes \ RT!Ended)
    OBVIOUS
  <2> HIDE DEF l, c, kept
  <2> QED
    BY <1>1, <2>1, <2>2, <2>3, RtCreated
<1> QED
  BY <1>3, <1>4

\* The callback of a lifetime runs.
LEMMA RtCallback == ASSUME RtInv, NEW c \in DOMAIN client, RT!Callback(c) PROVE RtInv'
<1> USE DEF RtInv
<1> DEFINE l == client[c].lifetime
<1>1. /\ client[c].callback = "started" /\ UNCHANGED <<snapshot, routesClosed, exchange>>
      /\ shown' = IF shown = c THEN NoClient ELSE shown
  BY DEF RT!Callback
<1>2. /\ client' \in Seq(RouteClients) /\ DOMAIN client' = DOMAIN client
      /\ client'[c].lifetime = l /\ ~client'[c].open /\ client'[c].callback = "ran"
      /\ \A d \in DOMAIN client \ {c} : client'[d] = client[d]
  <2> DEFINE r == [client[c] EXCEPT !.open = FALSE, !.callback = "ran"]
  <2>1. client[c] \in RouteClients /\ client \in Seq(RouteClients)
    BY DEF RtType
  <2>2. r \in RouteClients /\ r.lifetime = l /\ ~r.open /\ r.callback = "ran"
    BY <2>1 DEF RouteClients
  <2>3. client' = [client EXCEPT ![c] = r]
    BY DEF RT!Callback
  <2> HIDE DEF r
  <2> QED
    BY <2>1, <2>2, <2>3
<1>3. /\ DOMAIN routes' = DOMAIN routes \ {l} /\ \A k \in DOMAIN routes' : routes'[k] = routes[k]
  BY DEF RT!Callback, RT!Restrict
<1>4. RtType'
  <2>1. IsFiniteSet(DOMAIN routes) /\ Cardinality(DOMAIN routes) <= MaxRoutes /\ DOMAIN routes' \subseteq DOMAIN routes
    BY <1>3 DEF RtType
  <2>2. IsFiniteSet(DOMAIN routes') /\ Cardinality(DOMAIN routes') <= Cardinality(DOMAIN routes)
    BY <2>1, FS_Subset
  <2>3. Cardinality(DOMAIN routes') \in Nat /\ Cardinality(DOMAIN routes) \in Nat
    BY <2>1, <2>2, FS_CardinalityType
  <2>4. Cardinality(DOMAIN routes') <= MaxRoutes
    BY <2>1, <2>2, <2>3, RoutesAssumption
  <2> QED
    BY <1>1, <1>2, <2>2, <2>4 DEF RtType
<1>5. \A k : Lived(k)' <=> Lived(k)
  BY <1>1 DEF Lived
<1>6. \A k : (k \in RT!LifetimesOf(snapshot))' <=> k \in RT!LifetimesOf(snapshot)
  BY <1>1 DEF RT!LifetimesOf
<1>7. \A d \in DOMAIN client : client[d].lifetime = l => d = c
  BY DEF OneClient
<1> HIDE DEF l
<1>8. l = client[c].lifetime
  BY DEF l
<1>9. ClientSound'
  <2> SUFFICES ASSUME NEW d \in DOMAIN client' PROVE
        /\ Lived(client[d].lifetime)'
        /\ client'[d].open => /\ client'[d].lifetime \in DOMAIN routes' /\ routes'[client'[d].lifetime] = d
                              /\ ~routesClosed' /\ client'[d].callback \in {"armed", "started"}
        /\ client'[d].callback = "armed" => (client[d].lifetime \in RT!LifetimesOf(snapshot))'
        /\ client'[d].callback = "started" => (client[d].lifetime \notin RT!LifetimesOf(snapshot))'
        /\ ~client'[d].open => routesClosed' \/ (client[d].lifetime \notin RT!LifetimesOf(snapshot))'
    BY DEF ClientSound
  <2>1. CASE d = c
    BY <2>1, <1>1, <1>2, <1>5, <1>6, <1>8 DEF ClientSound
  <2>2. CASE d # c
    BY <2>2, <1>1, <1>2, <1>3, <1>5, <1>6, <1>7 DEF ClientSound
  <2> QED
    BY <2>1, <2>2
<1>10. RouteSound' /\ OneClient' /\ ShownOpen'
  BY <1>1, <1>2, <1>3, <1>7, <1>8 DEF RouteSound, OneClient, ShownOpen
<1> QED
  BY <1>4, <1>9, <1>10

\* All routes close.
LEMMA RtClose == ASSUME RtInv, RT!Close PROVE RtInv'
<1> USE DEF RtInv
<1>1. /\ routesClosed' = TRUE /\ client' = RT!Shut(RT!Range(routes)) /\ routes' = <<>> /\ shown' = NoClient
      /\ UNCHANGED <<snapshot, exchange>> /\ DOMAIN routes' = {}
  BY RtEmpty DEF RT!Close
<1>2. /\ client' \in Seq(RouteClients) /\ DOMAIN client' = DOMAIN client
      /\ \A c \in DOMAIN client :
           /\ client'[c].lifetime = client[c].lifetime
           /\ c \notin RT!Range(routes) => client'[c] = client[c]
           /\ c \in RT!Range(routes) => /\ ~client'[c].open
                               /\ client'[c].callback = IF client[c].callback = "armed" THEN "stopped" ELSE client[c].callback
  BY <1>1, RtShut DEF RtType
<1>3. \A c \in DOMAIN client : client[c].open => c \in RT!Range(routes)
  BY DEF ClientSound, RT!Range
<1>4. RtType'
  BY <1>1, <1>2, FS_EmptySet, RoutesAssumption DEF RtType
<1>5. \A k : Lived(k)' <=> Lived(k)
  BY <1>1 DEF Lived
<1>6. \A k : (k \in RT!LifetimesOf(snapshot))' <=> k \in RT!LifetimesOf(snapshot)
  BY <1>1 DEF RT!LifetimesOf
<1>7. \A c \in DOMAIN client : ~client'[c].open
  BY <1>2, <1>3
<1>8. ClientSound'
  <2> SUFFICES ASSUME NEW d \in DOMAIN client' PROVE
        /\ Lived(client[d].lifetime)' /\ ~client'[d].open
        /\ client'[d].callback = "armed" => (client[d].lifetime \in RT!LifetimesOf(snapshot))'
        /\ client'[d].callback = "started" => (client[d].lifetime \notin RT!LifetimesOf(snapshot))'
    BY <1>1 DEF ClientSound
  <2>1. CASE d \in RT!Range(routes)
    BY <2>1, <1>2, <1>5, <1>6 DEF ClientSound
  <2>2. CASE d \notin RT!Range(routes)
    BY <2>2, <1>2, <1>5, <1>6, <1>7 DEF ClientSound
  <2> QED
    BY <2>1, <2>2
<1>9. RouteSound' /\ OneClient' /\ ShownOpen'
  BY <1>1, <1>2 DEF RouteSound, OneClient, ShownOpen
<1> QED
  BY <1>4, <1>8, <1>9

\* Every step keeps the invariant.
LEMMA RtNext == RtInv /\ [RT!Next]_RT!vars => RtInv'
<1> SUFFICES ASSUME RtInv, [RT!Next]_RT!vars PROVE RtInv'
  OBVIOUS
<1>1. CASE RT!Publish
  BY <1>1, RtPublish
<1>2. CASE RT!Close
  BY <1>2, RtClose
<1>3. ASSUME NEW x \in Exchanges, \/ \E r \in DOMAIN Snapshots[snapshot] : RT!Capture(x, r)
                                  \/ RT!Check(x) \/ RT!Reuse(x) \/ RT!Create(x) \/ RT!RefuseClosed(x) \/ RT!Finish(x)
      PROVE  RtInv'
  BY <1>3, RtCapture, RtCheck, RtReuse, RtCreate, RtQuiet
<1>4. ASSUME NEW c \in DOMAIN client, RT!Callback(c) PROVE RtInv'
  BY <1>4, RtCallback
<1>5. CASE UNCHANGED RT!vars
  BY <1>5 DEF RT!vars, RtInv, RtType, ClientSound, RouteSound, OneClient, ShownOpen, Lived, RT!LifetimesOf
<1> QED
  BY <1>1, <1>2, <1>3, <1>4, <1>5 DEF RT!Next

\* The invariant says what RoutesAccounted asks.
LEMMA RtAccounted == RtInv => RT!RoutesAccounted
<1> SUFFICES ASSUME RtInv PROVE RT!RoutesAccounted
  OBVIOUS
<1> USE DEF RtInv
<1>1. \A c \in DOMAIN client :
        client[c].open => /\ ~routesClosed
                          /\ client[c].lifetime \in DOMAIN routes /\ routes[client[c].lifetime] = c
                          /\ client[c].lifetime \in RT!Ended => client[c].callback = "started"
  BY RtEnded DEF ClientSound
<1>2. (\A l \in DOMAIN routes : client[routes[l]].open) /\ (shown # NoClient => client[shown].open)
  BY DEF RouteSound, ShownOpen
<1>3. Cardinality({c \in DOMAIN client : client[c].open}) <= MaxRoutes
  <2> DEFINE O == {c \in DOMAIN client : client[c].open}
             f == [l \in DOMAIN routes |-> routes[l]]
  <2>1. IsFiniteSet(DOMAIN routes) /\ Cardinality(DOMAIN routes) <= MaxRoutes
    BY DEF RtType
  <2>2. f \in Surjection(DOMAIN routes, O)
    <3>1. f \in [DOMAIN routes -> O]
      BY DEF RouteSound
    <3>2. \A c \in O : \E l \in DOMAIN routes : f[l] = c
      BY <1>1
    <3> QED
      BY <3>1, <3>2 DEF Surjection
  <2>3. IsFiniteSet(O) /\ Cardinality(O) <= Cardinality(DOMAIN routes)
    BY <2>1, <2>2, FS_Surjection
  <2>4. Cardinality(O) \in Nat /\ Cardinality(DOMAIN routes) \in Nat
    BY <2>1, <2>3, FS_CardinalityType
  <2> HIDE DEF O
  <2>5. Cardinality(O) <= MaxRoutes
    BY <2>1, <2>3, <2>4, RoutesAssumption
  <2> QED
    BY <2>5 DEF O
<1> QED
  BY <1>1, <1>2, <1>3, RtCardinality DEF RT!RoutesAccounted

\* No client of an upstream is lost or found dead (Routes: upstream routes).
THEOREM ClientsAccounted == RT!Spec => []RT!RoutesAccounted
  BY RtInit, RtNext, RtAccounted, PTL DEF RT!Spec

(***************************************************************************)
(* The connections of the upstreams.                                       *)
(***************************************************************************)

\* Cardinality is the same in Connections.
LEMMA CnCardinality == \A S : CN!Cardinality(S) = Cardinality(S)
  BY DEF CN!Cardinality, Cardinality

\* An exchange has a connection.
Held(x) == lease[x].pc \in {"held", "put"}

\* What is known about a lease.
Leases ==
  [pc : {"idle", "dial", "held", "put"}, socket : Nat, cancelled : BOOLEAN,
   closer : {"none", "armed", "started", "ran", "stopped"}, healthy : BOOLEAN]

\* The types, and the range of the sockets.
CnType ==
  /\ sockets \in Nat /\ puts \in Nat /\ closed \in BOOLEAN
  /\ open \subseteq 1 .. sockets /\ all \subseteq 1 .. sockets /\ http \subseteq 1 .. sockets /\ closing \subseteq 1 .. sockets
  /\ idle \in [socket : Nat, timer : Nat] /\ idle.socket <= sockets /\ (idle.socket = 0 => idle = CN!NoIdle)
  /\ lease \in [Exchanges -> Leases]

\* A lease that is not idle or dialling has a socket, and its closer fits its context.
LeaseSound ==
  \A x \in Exchanges :
    LET l == lease[x] IN
    /\ l.pc = "idle" => l = CN!NoLease \/ (l.closer = "started" /\ l.socket \in 1 .. sockets /\ l.socket \notin open)
    /\ l.pc = "dial" => l.socket = 0 /\ l.closer = "none" /\ ~l.healthy
    /\ l.pc = "held" => l.closer \in {"armed", "started", "ran"} /\ ~l.healthy
    /\ l.pc = "put" => l.closer \in {"stopped", "started", "ran"}
    /\ Held(x) => l.socket \in 1 .. sockets
    /\ l.closer = "armed" => ~l.cancelled
    /\ l.closer \in {"started", "ran"} => l.cancelled
    /\ l.healthy => l.closer = "stopped"
    /\ ~closed /\ Held(x) /\ (l.closer = "armed" \/ l.healthy) => l.socket \in open

\* One owner.
OneOwner ==
  /\ \A x, y \in Exchanges : Held(x) /\ Held(y) /\ lease[x].socket = lease[y].socket => x = y
  /\ \A x \in Exchanges : Held(x) => lease[x].socket \notin http \cup {idle.socket}
  /\ idle.socket \notin http

\* What is open is tracked, by its owner, or about to be closed.
Tracked ==
  /\ \A s \in open : \/ s \in closing
                     \/ s \in all /\ (s = idle.socket \/ s \in http \/ \E x \in Exchanges : Held(x) /\ lease[x].socket = s)
  /\ idle # CN!NoIdle => idle.socket \in open
  /\ closed => all = {} /\ idle = CN!NoIdle
  /\ ~closed => closing = {}

\* The inductive invariant of Connections.
CnInv == CnType /\ LeaseSound /\ OneOwner /\ Tracked

\* At first nothing is open.
LEMMA CnInit == CN!Init => CnInv
<1> SUFFICES ASSUME CN!Init PROVE CnInv
  OBVIOUS
<1>1. CnType
  <2>1. CN!NoLease \in Leases /\ CN!NoIdle \in [socket : Nat, timer : Nat] /\ CN!NoIdle.socket = 0
    BY DEF CN!NoLease, Leases, CN!NoIdle
  <2>2. lease \in [Exchanges -> Leases] /\ closed \in BOOLEAN
    BY <2>1 DEF CN!Init
  <2> QED
    BY <2>1, <2>2 DEF CN!Init, CnType
<1>2. \A x \in Exchanges : lease[x] = CN!NoLease
  BY DEF CN!Init
<1>3. LeaseSound
  BY <1>2 DEF LeaseSound, Held, CN!NoLease
<1>4. OneOwner
  BY <1>2 DEF OneOwner, Held, CN!NoLease, CN!Init, CN!NoIdle
<1>5. Tracked
  BY DEF Tracked, CN!Init
<1> QED
  BY <1>1, <1>3, <1>4, <1>5 DEF CnInv

\* A lease changes, the others stay.
LEMMA SetLease ==
  ASSUME CnType, NEW x \in Exchanges, NEW l \in Leases, CN!Become(x, l)
  PROVE  lease' \in [Exchanges -> Leases] /\ lease'[x] = l /\ \A y \in Exchanges \ {x} : lease'[y] = lease[y]
  BY DEF CnType, CN!Become

\* An exchange takes the idle connection.
LEMMA CnTakeIdle == ASSUME CnInv, NEW x \in Exchanges, CN!TakeIdle(x) PROVE CnInv'
<1> USE DEF CnInv
<1>1. lease[x] \in Leases /\ CN!NoLease \in Leases
  BY DEF CnType, CN!NoLease, Leases
<1>2. /\ lease' \in [Exchanges -> Leases] /\ \A y \in Exchanges \ {x} : lease'[y] = lease[y]
  BY <1>1 DEF CN!TakeIdle, CnType, CN!Become, Leases, CN!NoLease
<1>3. CnType'
  BY <1>1, <1>2 DEF CN!TakeIdle, CnType, CN!NoIdle, Leases
<1>4. LeaseSound'
  BY <1>1, <1>2, <1>3 DEF CN!TakeIdle, CnType, LeaseSound, OneOwner, Tracked, Held, CN!Become, CN!NoLease, CN!NoIdle, Leases
<1>5. OneOwner'
  BY <1>1, <1>2, <1>3 DEF CN!TakeIdle, CnType, LeaseSound, OneOwner, Tracked, Held, CN!Become, CN!NoLease, CN!NoIdle, Leases
<1>6. Tracked'
  BY <1>1, <1>2, <1>3 DEF CN!TakeIdle, CnType, LeaseSound, OneOwner, Tracked, Held, CN!Become, CN!NoLease, CN!NoIdle, Leases
<1> QED
  BY <1>3, <1>4, <1>5, <1>6

\* An exchange dials.
LEMMA CnStartDial == ASSUME CnInv, NEW x \in Exchanges, CN!StartDial(x) PROVE CnInv'
<1> USE DEF CnInv
<1>1. lease[x] \in Leases /\ CN!NoLease \in Leases
  BY DEF CnType, CN!NoLease, Leases
<1>2. /\ lease' \in [Exchanges -> Leases] /\ \A y \in Exchanges \ {x} : lease'[y] = lease[y]
  BY <1>1 DEF CN!StartDial, CnType, CN!Become, Leases, CN!NoLease
<1>3. CnType'
  BY <1>1, <1>2 DEF CN!StartDial, CnType, CN!NoIdle, Leases
<1>4. LeaseSound'
  BY <1>1, <1>2, <1>3 DEF CN!StartDial, CnType, LeaseSound, OneOwner, Tracked, Held, CN!Become, CN!NoLease, CN!NoIdle, Leases
<1>5. OneOwner'
  BY <1>1, <1>2, <1>3 DEF CN!StartDial, CnType, LeaseSound, OneOwner, Tracked, Held, CN!Become, CN!NoLease, CN!NoIdle, Leases
<1>6. Tracked'
  BY <1>1, <1>2, <1>3 DEF CN!StartDial, CnType, LeaseSound, OneOwner, Tracked, Held, CN!Become, CN!NoLease, CN!NoIdle, Leases
<1> QED
  BY <1>3, <1>4, <1>5, <1>6

\* Dialling fails.
LEMMA CnDialFails == ASSUME CnInv, NEW x \in Exchanges, CN!DialFails(x) PROVE CnInv'
<1> USE DEF CnInv
<1>1. lease[x] \in Leases /\ CN!NoLease \in Leases
  BY DEF CnType, CN!NoLease, Leases
<1>2. /\ lease' \in [Exchanges -> Leases] /\ \A y \in Exchanges \ {x} : lease'[y] = lease[y]
  BY <1>1 DEF CN!DialFails, CnType, CN!Become, Leases, CN!NoLease
<1>3. CnType'
  BY <1>1, <1>2 DEF CN!DialFails, CnType, CN!NoIdle, Leases
<1>4. LeaseSound'
  BY <1>1, <1>2, <1>3 DEF CN!DialFails, CnType, LeaseSound, OneOwner, Tracked, Held, CN!Become, CN!NoLease, CN!NoIdle, Leases
<1>5. OneOwner'
  BY <1>1, <1>2, <1>3 DEF CN!DialFails, CnType, LeaseSound, OneOwner, Tracked, Held, CN!Become, CN!NoLease, CN!NoIdle, Leases
<1>6. Tracked'
  BY <1>1, <1>2, <1>3 DEF CN!DialFails, CnType, LeaseSound, OneOwner, Tracked, Held, CN!Become, CN!NoLease, CN!NoIdle, Leases
<1> QED
  BY <1>3, <1>4, <1>5, <1>6

\* A connection is there: it is leased, or closed if the pool or the lease ended meanwhile.
LEMMA CnDialled == ASSUME CnInv, NEW x \in Exchanges, CN!Dialled(x) PROVE CnInv'
<1> USE DEF CnInv
<1>0. CASE closed
  <2>1. lease[x] \in Leases /\ CN!NoLease \in Leases
    BY DEF CnType, CN!NoLease, Leases
  <2>2. /\ lease' \in [Exchanges -> Leases] /\ \A y \in Exchanges \ {x} : lease'[y] = lease[y]
        /\ lease'[x] = CN!NoLease
    BY <1>0, <2>1 DEF CN!Dialled, CnType, CN!Become
  <2>3. /\ UNCHANGED <<open, all, idle, timers, puts, http, closed, closing>> /\ sockets' = sockets + 1 /\ sockets \in Nat
    BY <1>0 DEF CN!Dialled, CnType
  <2>4. CnType'
    BY <2>2, <2>3 DEF CnType, CN!NoIdle
  <2>5. LeaseSound'
    BY <2>2, <2>3 DEF CnType, LeaseSound, Held, CN!NoLease
  <2>6. OneOwner'
    BY <2>2, <2>3 DEF CnType, OneOwner, Held, CN!NoLease
  <2>7. Tracked'
    BY <1>0, <2>2, <2>3 DEF CnType, Tracked, CN!NoLease, CN!NoIdle, CN!Dialled, Held
  <2> QED
    BY <2>4, <2>5, <2>6, <2>7
<1>1. CASE ~closed
  <2> DEFINE l == [lease[x] EXCEPT !.pc = "held", !.socket = sockets + 1,
                                   !.closer = IF lease[x].cancelled THEN "started" ELSE "armed"]
  <2>1. lease[x] \in Leases /\ sockets \in Nat
    BY DEF CnType
  <2>2. /\ l \in Leases /\ l.pc = "held" /\ l.socket = sockets + 1 /\ l.cancelled = lease[x].cancelled
        /\ l.closer = (IF lease[x].cancelled THEN "started" ELSE "armed") /\ l.healthy = lease[x].healthy
    <3> DEFINE c == IF lease[x].cancelled THEN "started" ELSE "armed"
    <3>1. c \in {"started", "armed"}
      OBVIOUS
    <3>2. l = [lease[x] EXCEPT !.pc = "held", !.socket = sockets + 1, !.closer = c]
      OBVIOUS
    <3> HIDE DEF c, l
    <3>3. l \in Leases
      <4>1. l = [pc |-> "held", socket |-> sockets + 1, cancelled |-> lease[x].cancelled, closer |-> c,
                 healthy |-> lease[x].healthy]
        BY <2>1, <3>2 DEF Leases
      <4>2. lease[x].cancelled \in BOOLEAN /\ lease[x].healthy \in BOOLEAN /\ sockets + 1 \in Nat
        BY <2>1 DEF Leases
      <4> QED
        BY <3>1, <4>1, <4>2 DEF Leases
    <3>4. /\ l.pc = "held" /\ l.socket = sockets + 1 /\ l.closer = c
          /\ l.cancelled = lease[x].cancelled /\ l.healthy = lease[x].healthy
      BY <2>1, <3>2 DEF Leases
    <3> QED
      BY <3>3, <3>4 DEF c
  <2>3. CN!Become(x, l)
    BY <1>1 DEF CN!Dialled
  <2>4. lease' \in [Exchanges -> Leases] /\ lease'[x] = l /\ \A y \in Exchanges \ {x} : lease'[y] = lease[y]
    BY <2>2, <2>3, SetLease
  <2>5. /\ sockets' = sockets + 1 /\ open' = open \cup {sockets + 1} /\ all' = all \cup {sockets + 1}
        /\ UNCHANGED <<idle, timers, puts, http, closed, closing>> /\ lease[x].pc = "dial"
    BY <1>1 DEF CN!Dialled
  <2> HIDE DEF l
  <2>6. CnType'
    BY <2>1, <2>4, <2>5 DEF CnType, CN!NoIdle
  <2>7. LeaseSound'
    BY <1>1, <2>1, <2>2, <2>4, <2>5 DEF CnType, LeaseSound, Held
  <2>8. OneOwner'
    BY <2>1, <2>2, <2>4, <2>5 DEF CnType, OneOwner, LeaseSound, Held
  <2>9. Tracked'
    BY <1>1, <2>1, <2>2, <2>4, <2>5 DEF CnType, Tracked, Held, CN!NoIdle
  <2> QED
    BY <2>6, <2>7, <2>8, <2>9
<1> QED
  BY <1>0, <1>1 DEF CnType

\* A context ends, and starts the closer.
LEMMA CnCancel == ASSUME CnInv, NEW x \in Exchanges, CN!Cancel(x) PROVE CnInv'
<1> USE DEF CnInv
<1> DEFINE l == CN!Cancelled(lease[x])
<1>1. lease[x] \in Leases
  BY DEF CnType
<1>2. /\ l \in Leases /\ l.pc = lease[x].pc /\ l.socket = lease[x].socket /\ l.cancelled
      /\ l.closer = (IF lease[x].closer = "armed" THEN "started" ELSE lease[x].closer) /\ l.healthy = lease[x].healthy
  BY <1>1 DEF Leases, CN!Cancelled
<1>3. lease' \in [Exchanges -> Leases] /\ lease'[x] = l /\ \A y \in Exchanges \ {x} : lease'[y] = lease[y]
  BY <1>2, SetLease DEF CN!Cancel
<1>4. UNCHANGED <<open, sockets, idle, timers, puts, all, http, closed, closing>> /\ lease[x].pc # "idle"
  BY DEF CN!Cancel
<1> HIDE DEF l
<1>5. CnType'
  BY <1>3, <1>4 DEF CnType, CN!NoIdle
<1>6. LeaseSound'
  BY <1>2, <1>3, <1>4 DEF LeaseSound, Held, CnType
<1>7. OneOwner'
  BY <1>2, <1>3, <1>4 DEF OneOwner, Held
<1>8. Tracked'
  BY <1>2, <1>3, <1>4 DEF Tracked, Held, CN!NoIdle
<1> QED
  BY <1>5, <1>6, <1>7, <1>8

\* A closer runs, also after its lease has ended.
LEMMA CnCloserRuns == ASSUME CnInv, NEW x \in Exchanges, CN!CloserRuns(x) PROVE CnInv'
<1> USE DEF CnInv
<1> DEFINE l == IF lease[x].pc = "idle" THEN CN!NoLease ELSE [lease[x] EXCEPT !.closer = "ran"]
<1>1. lease[x] \in Leases /\ CN!NoLease \in Leases
  BY DEF CnType, CN!NoLease, Leases
<1>2. /\ l \in Leases /\ (lease[x].pc = "idle" => l = CN!NoLease)
      /\ lease[x].pc # "idle" => /\ l.pc = lease[x].pc /\ l.socket = lease[x].socket /\ l.cancelled = lease[x].cancelled
                                 /\ l.closer = "ran" /\ l.healthy = lease[x].healthy
  BY <1>1 DEF Leases
<1>3. lease' \in [Exchanges -> Leases] /\ lease'[x] = l /\ \A y \in Exchanges \ {x} : lease'[y] = lease[y]
  BY <1>2, SetLease DEF CN!CloserRuns
<1>4. /\ UNCHANGED <<sockets, idle, timers, puts, all, http, closed, closing>>
      /\ open' = open \ {lease[x].socket} /\ lease[x].closer = "started"
  BY DEF CN!CloserRuns
<1> HIDE DEF l
<1>5. CnType'
  BY <1>3, <1>4 DEF CnType, CN!NoIdle
<1>6. LeaseSound'
  <2>1. lease[x].pc \in {"idle", "held", "put"} /\ ~lease[x].healthy
    BY <1>1, <1>4 DEF LeaseSound, Leases
  <2>2. CASE lease[x].pc = "idle"
    BY <1>2, <1>3, <1>4, <2>2 DEF LeaseSound, Held, CN!NoLease
  <2>3. CASE lease[x].pc # "idle"
    BY <1>2, <1>3, <1>4, <2>1, <2>3 DEF LeaseSound, OneOwner, Held
  <2> QED
    BY <2>2, <2>3
<1>7. OneOwner'
  BY <1>2, <1>3, <1>4 DEF OneOwner, Held, CN!NoLease
<1>8. Tracked'
  <2>1. CASE lease[x].pc = "idle"
    <3>1. open' = open /\ ~Held(x) /\ ~Held(x)'
      BY <1>2, <1>3, <1>4, <2>1 DEF LeaseSound, CN!NoLease, Held
    <3> QED
      BY <1>3, <1>4, <3>1 DEF Tracked, Held, CN!NoIdle
  <2>2. CASE lease[x].pc # "idle"
    <3>1. Held(x) /\ lease[x].socket # idle.socket
      BY <1>1, <1>4, <2>2 DEF LeaseSound, OneOwner, Held, Leases
    <3> QED
      BY <1>2, <1>3, <1>4, <2>2, <3>1 DEF Tracked, Held, CN!NoIdle
  <2> QED
    BY <2>1, <2>2
<1> QED
  BY <1>5, <1>6, <1>7, <1>8

\* An exchange ends, and stops the closer if it can.
LEMMA CnEndExchange == ASSUME CnInv, NEW x \in Exchanges, NEW ok \in BOOLEAN, CN!EndExchange(x, ok) PROVE CnInv'
<1> USE DEF CnInv
<1>1. lease[x] \in Leases /\ CN!NoLease \in Leases
  BY DEF CnType, CN!NoLease, Leases
<1>2. /\ lease' \in [Exchanges -> Leases] /\ \A y \in Exchanges \ {x} : lease'[y] = lease[y]
  BY <1>1 DEF CN!EndExchange, CN!Healthy, CnType, CN!Become, Leases, CN!NoLease
<1>3. CnType'
  BY <1>1, <1>2 DEF CN!EndExchange, CN!Healthy, CnType, CN!NoIdle, Leases
<1>4. /\ lease[x].pc = "held" /\ lease'[x].pc = "put"
      /\ lease'[x].socket = lease[x].socket /\ lease'[x].cancelled = lease[x].cancelled
      /\ lease'[x].closer = (IF lease[x].closer = "armed" THEN "stopped" ELSE lease[x].closer)
      /\ lease'[x].healthy => lease'[x].closer = "stopped"
      /\ UNCHANGED <<open, sockets, idle, timers, puts, all, http, closed, closing>>
  BY <1>1, <1>2 DEF CN!EndExchange, CN!Healthy, CnType, CN!Become, LeaseSound, Held, Leases
<1>5. \A y \in Exchanges : Held(y)' = Held(y) /\ lease'[y].socket = lease[y].socket
  BY <1>2, <1>4 DEF Held
<1>6. LeaseSound'
  <2>1. lease'[x].closer = "stopped" => ~lease[x].cancelled /\ (~closed => lease[x].socket \in open)
    BY <1>4 DEF LeaseSound, Held
  <2> QED
    BY <1>2, <1>4, <1>5, <2>1 DEF LeaseSound, Held
<1>7. OneOwner'
  BY <1>4, <1>5 DEF OneOwner
<1>8. Tracked'
  BY <1>4, <1>5 DEF Tracked
<1> QED
  BY <1>3, <1>6, <1>7, <1>8

\* A connection comes back: kept idle, or closed.
LEMMA CnReturn == ASSUME CnInv, NEW x \in Exchanges, CN!Return(x) PROVE CnInv'
<1> USE DEF CnInv
<1> DEFINE r == IF lease[x].closer = "started" THEN [lease[x] EXCEPT !.pc = "idle"] ELSE CN!NoLease
           keep == ~closed /\ lease[x].healthy /\ idle = CN!NoIdle
           s == lease[x].socket
<1>1. lease[x] \in Leases /\ CN!NoLease \in Leases /\ CN!NoIdle.socket = 0 /\ sockets \in Nat
  BY DEF CnType, CN!NoLease, Leases, CN!NoIdle
<1>2. /\ r \in Leases /\ r.pc = "idle" /\ (lease[x].closer # "started" => r = CN!NoLease)
      /\ lease[x].closer = "started" => r.socket = s /\ r.closer = "started" /\ r.cancelled = lease[x].cancelled
                                        /\ r.healthy = lease[x].healthy
  BY <1>1 DEF Leases, CN!NoLease
<1>3. lease' \in [Exchanges -> Leases] /\ lease'[x] = r /\ \A y \in Exchanges \ {x} : lease'[y] = lease[y]
  BY <1>2, SetLease DEF CN!Return
<1>4. /\ lease[x].pc = "put" /\ Held(x) /\ s \in 1 .. sockets /\ s # idle.socket /\ s \notin http
      /\ \A y \in Exchanges \ {x} : Held(y) => lease[y].socket # s
  BY DEF CN!Return, Held, LeaseSound, OneOwner
<1>5. UNCHANGED <<sockets, timers, http, closed, closing>>
  BY DEF CN!Return
<1>6. CASE keep
  <2>1. /\ idle' = [socket |-> s, timer |-> puts + 1] /\ puts' = puts + 1 /\ UNCHANGED <<open, all>>
        /\ lease[x].closer = "stopped" /\ s \in open /\ ~closed
    BY <1>4, <1>6 DEF CN!Return, LeaseSound
  <2>2. idle'.socket = s /\ idle' # CN!NoIdle /\ idle' \in [socket : Nat, timer : Nat] /\ puts' \in Nat
    BY <1>1, <1>4, <2>1 DEF CnType
  <2> HIDE DEF r
  <2>3. CnType'
    BY <1>3, <1>4, <1>5, <2>1, <2>2 DEF CnType
  <2>4. LeaseSound'
    BY <1>2, <1>3, <1>5, <2>1 DEF LeaseSound, Held, CN!NoLease
  <2>5. OneOwner'
    BY <1>2, <1>3, <1>4, <1>5, <2>2 DEF OneOwner, Held
  <2>6. Tracked'
    BY <1>1, <1>2, <1>3, <1>4, <1>5, <1>6, <2>1, <2>2 DEF Tracked, Held, CnType
  <2> QED
    BY <2>3, <2>4, <2>5, <2>6
<1>7. CASE ~keep
  <2>1. open' = open \ {s} /\ all' = all \ {s} /\ UNCHANGED <<idle, puts>>
    BY <1>7 DEF CN!Return
  <2> HIDE DEF r
  <2>2. CnType'
    BY <1>3, <1>5, <2>1 DEF CnType, CN!NoIdle
  <2>3. LeaseSound'
    <3>1. ~(lease[x].closer = "started" /\ lease[x].healthy)
      BY <1>4 DEF LeaseSound
    <3> QED
      BY <1>2, <1>3, <1>4, <1>5, <2>1, <3>1 DEF LeaseSound, Held, CN!NoLease
  <2>4. OneOwner'
    BY <1>2, <1>3, <1>4, <1>5, <2>1 DEF OneOwner, Held
  <2>5. Tracked'
    BY <1>2, <1>3, <1>4, <1>5, <2>1 DEF Tracked, Held, CN!NoIdle
  <2> QED
    BY <2>2, <2>3, <2>4, <2>5
<1> QED
  BY <1>6, <1>7

\* The idle timer fires.
LEMMA CnTimerFires == ASSUME CnInv, CN!TimerFires PROVE CnInv'
<1> USE DEF CnInv
<1>3. CnType'
  BY DEF CN!TimerFires, CnType, CN!NoIdle, Leases
<1>4. LeaseSound'
  BY <1>3 DEF CN!TimerFires, CnType, LeaseSound, OneOwner, Tracked, Held, CN!NoLease, CN!NoIdle
<1>5. OneOwner'
  BY <1>3 DEF CN!TimerFires, CnType, LeaseSound, OneOwner, Tracked, Held, CN!NoLease, CN!NoIdle
<1>6. Tracked'
  BY <1>3 DEF CN!TimerFires, CnType, LeaseSound, OneOwner, Tracked, Held, CN!NoLease, CN!NoIdle
<1> QED
  BY <1>3, <1>4, <1>5, <1>6

\* A timer that fired runs, for this idle connection or for an earlier one.
LEMMA CnTimerRuns == ASSUME CnInv, NEW t \in timers, CN!TimerRuns(t) PROVE CnInv'
<1> USE DEF CnInv
<1>1. CN!NoIdle \in [socket : Nat, timer : Nat] /\ CN!NoIdle.socket = 0
  BY DEF CN!NoIdle
<1>2. /\ UNCHANGED <<sockets, puts, http, closed, closing, lease>>
      /\ \/ idle = t /\ idle' = CN!NoIdle /\ all' = all \ {idle.socket} /\ open' = open \ {idle.socket}
         \/ UNCHANGED <<idle, all, open>>
  BY DEF CN!TimerRuns
<1>3. CnType'
  <2>1. /\ open' \subseteq open /\ all' \subseteq all /\ idle' \in [socket : Nat, timer : Nat]
        /\ idle'.socket <= sockets /\ (idle'.socket = 0 => idle' = CN!NoIdle)
    BY <1>1, <1>2 DEF CnType
  <2> QED
    BY <1>2, <2>1 DEF CnType, CN!NoIdle
<1>4. LeaseSound'
  BY <1>2 DEF LeaseSound, OneOwner, Held
<1>5. OneOwner'
  BY <1>1, <1>2 DEF OneOwner, CnType, LeaseSound, Held
<1>6. Tracked'
  BY <1>1, <1>2 DEF Tracked, Held
<1> QED
  BY <1>3, <1>4, <1>5, <1>6

\* HTTP opens a connection.
LEMMA CnTrack == ASSUME CnInv, CN!Track PROVE CnInv'
<1> USE DEF CnInv
<1>1. /\ UNCHANGED <<idle, timers, puts, closed, closing, lease>> /\ sockets' = sockets + 1 /\ sockets \in Nat
      /\ closed => UNCHANGED <<open, all, http>>
      /\ ~closed => open' = open \cup {sockets + 1} /\ all' = all \cup {sockets + 1} /\ http' = http \cup {sockets + 1}
  BY DEF CN!Track, CnType
<1>3. CnType'
  <2>1. open' \subseteq 1 .. sockets' /\ all' \subseteq 1 .. sockets' /\ http' \subseteq 1 .. sockets' /\ closing' \subseteq 1 .. sockets'
    <3>1. 1 .. sockets \subseteq 1 .. sockets' /\ sockets + 1 \in 1 .. sockets'
      BY <1>1
    <3> QED
      BY <1>1, <3>1, Zenon DEF CnType
  <2> QED
    BY <1>1, <2>1 DEF CnType, CN!NoIdle
<1>4. LeaseSound'
  BY <1>1 DEF CnType, LeaseSound, Held
<1>5. OneOwner'
  BY <1>1 DEF CnType, LeaseSound, OneOwner, Held
<1>6. Tracked'
  BY <1>1 DEF CnType, Tracked, Held, CN!NoIdle
<1> QED
  BY <1>3, <1>4, <1>5, <1>6

\* HTTP closes a connection.
LEMMA CnHttpCloses == ASSUME CnInv, NEW s, CN!HttpCloses(s) PROVE CnInv'
<1> USE DEF CnInv
<1>3. CnType'
  BY DEF CN!HttpCloses, CnType, CN!NoIdle, Leases
<1>4. LeaseSound'
  BY <1>3 DEF CN!HttpCloses, CnType, LeaseSound, OneOwner, Tracked, Held, CN!NoLease, CN!NoIdle
<1>5. OneOwner'
  BY <1>3 DEF CN!HttpCloses, CnType, LeaseSound, OneOwner, Tracked, Held, CN!NoLease, CN!NoIdle
<1>6. Tracked'
  BY <1>3 DEF CN!HttpCloses, CnType, LeaseSound, OneOwner, Tracked, Held, CN!NoLease, CN!NoIdle
<1> QED
  BY <1>3, <1>4, <1>5, <1>6

\* Close takes over every connection it tracks.
LEMMA CnClose == ASSUME CnInv, CN!Close PROVE CnInv'
<1> USE DEF CnInv
<1>1. \A x \in Exchanges : /\ lease'[x] \in Leases /\ lease'[x].pc = lease[x].pc /\ lease'[x].socket = lease[x].socket
                           /\ lease'[x].healthy = lease[x].healthy
                           /\ lease[x].pc = "idle" => lease'[x] = lease[x]
                           /\ lease[x].pc # "idle" => lease'[x].cancelled
                           /\ lease'[x].closer \in {lease[x].closer, "started"}
                           /\ lease[x].pc # "idle" => lease'[x].closer # "armed"
                           /\ lease[x].closer # "armed" => lease'[x].closer = lease[x].closer
  <2> TAKE x \in Exchanges
  <2>1. lease[x] \in Leases /\ lease'[x] = IF lease[x].pc = "idle" THEN lease[x] ELSE CN!Cancelled(lease[x])
    BY DEF CN!Close, CnType
  <2> QED
    BY <2>1 DEF CN!Cancelled, Leases
<1>2. /\ UNCHANGED <<open, sockets, timers, puts, http>> /\ closed' /\ ~closed
      /\ closing' = all /\ all' = {} /\ idle' = CN!NoIdle /\ lease' = [x \in Exchanges |-> lease'[x]]
  BY DEF CN!Close
<1>3. CnType'
  <2>1. lease' \in [Exchanges -> Leases]
    BY <1>1, <1>2
  <2> QED
    BY <1>2, <2>1 DEF CnType, CN!NoIdle, CN!Close
<1>4. LeaseSound'
  BY <1>1, <1>2 DEF LeaseSound, Held, CN!NoLease
<1>5. OneOwner'
  BY <1>1, <1>2 DEF OneOwner, LeaseSound, Held, CN!NoIdle, CnType
<1>6. Tracked'
  BY <1>2 DEF Tracked, CN!NoIdle
<1> QED
  BY <1>3, <1>4, <1>5, <1>6

\* Close closes one of them.
LEMMA CnCloseSocket == ASSUME CnInv, NEW s, CN!CloseSocket(s) PROVE CnInv'
<1> USE DEF CnInv
<1>3. CnType'
  BY DEF CN!CloseSocket, CnType, CN!NoIdle, Leases
<1>4. LeaseSound'
  BY <1>3 DEF CN!CloseSocket, CnType, LeaseSound, OneOwner, Tracked, Held, CN!NoLease, CN!NoIdle
<1>5. OneOwner'
  BY <1>3 DEF CN!CloseSocket, CnType, LeaseSound, OneOwner, Tracked, Held, CN!NoLease, CN!NoIdle
<1>6. Tracked'
  BY <1>3 DEF CN!CloseSocket, CnType, LeaseSound, OneOwner, Tracked, Held, CN!NoLease, CN!NoIdle
<1> QED
  BY <1>3, <1>4, <1>5, <1>6

\* The invariant says what SocketsAccounted asks.
LEMMA CnAccounted == CnInv => CN!SocketsAccounted
<1> SUFFICES ASSUME CnInv PROVE CN!SocketsAccounted
  OBVIOUS
<1> USE DEF CnInv
<1>1. ASSUME NEW s \in open, s \notin closing, idle.socket = s PROVE s \in all /\ CN!Holders(s) = {}
  BY <1>1 DEF Tracked, OneOwner, CN!Holders, Held
<1>2. ASSUME NEW s \in open, s \notin closing, idle.socket # s, s \notin http
      PROVE  s \in all /\ Cardinality(CN!Holders(s)) = 1
  <2>1. PICK x \in Exchanges : Held(x) /\ lease[x].socket = s
    BY <1>2 DEF Tracked
  <2>2. CN!Holders(s) = {x}
    BY <2>1 DEF OneOwner, CN!Holders, Held
  <2> QED
    BY <1>2, <2>2, FS_Singleton, CnCardinality DEF Tracked
<1>3. \A s \in open : s \in closing \/ s \in all
  BY DEF Tracked
<1>4. ~closed => /\ \A x \in Exchanges : lease[x].pc = "held" /\ ~lease[x].cancelled => lease[x].socket \in open
                 /\ idle # CN!NoIdle => idle.socket \in open
  BY DEF Tracked, LeaseSound, Held
<1>5. closed /\ closing = {} => open = {}
  BY DEF Tracked
<1> QED
  BY <1>1, <1>2, <1>3, <1>4, <1>5, CnCardinality DEF CN!SocketsAccounted

\* Every socket has one owner, and Close leaves none open (Connections: connection.go).
THEOREM ConnectionsAccounted == CN!Spec => []CN!SocketsAccounted
<1>1. CnInv /\ [CN!Next]_CN!vars => CnInv'
  <2> SUFFICES ASSUME CnInv, [CN!Next]_CN!vars PROVE CnInv'
    OBVIOUS
  <2>1. CASE UNCHANGED CN!vars
    BY <2>1 DEF CN!vars, CnInv, CnType, LeaseSound, OneOwner, Tracked, Held
  <2>2. ASSUME NEW x \in Exchanges,
               CN!TakeIdle(x) \/ CN!StartDial(x) \/ CN!DialFails(x) \/ CN!Dialled(x) \/ CN!Cancel(x) \/ CN!CloserRuns(x) \/ CN!Return(x)
        PROVE  CnInv'
    BY <2>2, CnTakeIdle, CnStartDial, CnDialFails, CnDialled, CnCancel, CnCloserRuns, CnReturn
  <2>3. ASSUME NEW x \in Exchanges, NEW ok \in BOOLEAN, CN!EndExchange(x, ok) PROVE CnInv'
    BY <2>3, CnEndExchange
  <2>4. ASSUME CN!TimerFires \/ (\E t \in timers : CN!TimerRuns(t)) \/ CN!Track \/ (\E s \in http : CN!HttpCloses(s))
               \/ CN!Close \/ (\E s \in closing : CN!CloseSocket(s))
        PROVE  CnInv'
    BY <2>4, CnTimerFires, CnTimerRuns, CnTrack, CnHttpCloses, CnClose, CnCloseSocket
  <2> QED
    BY <2>1, <2>2, <2>3, <2>4 DEF CN!Next
<1> QED
  BY CnInit, <1>1, CnAccounted, PTL DEF CN!Spec

\* No client and no connection of an upstream is lost, found dead, or left
\* open by its last owner.
THEOREM TransportsHold == RT!Spec /\ CN!Spec => []TransportsAccounted
<1>1. RT!RoutesAccounted /\ CN!SocketsAccounted => TransportsAccounted
  BY DEF TransportsAccounted
<1> QED
  BY <1>1, ClientsAccounted, ConnectionsAccounted, PTL
=============================================================================
