--------------------------- MODULE DhcpLeaseProofs ---------------------------
(***************************************************************************)
(* The safety of DHCP leases, proved for any clients, addresses, settings, *)
(* timers, queue and batch sizes, and any number of restarts: what the     *)
(* tables say of each other (module DhcpTables) is an invariant of         *)
(* DhcpLease, and the properties of DhcpLease follow from it.              *)
(***************************************************************************)
EXTENDS DhcpTables

\* The engine's tables while a runtime serves.
Engine == Books(entries, byID, bitmap, probes, sequence)

\* The writes in flight while a runtime serves.
Flight == InFlight(entries, queue, results, rows, storeErr)

Running ==
  up => Engine /\ Flight /\ Protected(entries, held) /\ view = DurableLeases(entries)

\* Without a runtime nothing is in flight, and the table is all there is.
Down ==
  ~up => /\ queue = << >> /\ results = << >>
         /\ AlwaysRecoverable /\ GrantIsDurable

\* Until it is set, the wall clock runs with real time.
Clock == stepped \/ wall = mono

\* The inductive invariant.
IInv == TypeOK /\ Clock /\ Running /\ Down

-----------------------------------------------------------------------------
(* What the invariant says of the table.                                   *)

\* A row the table has or will have is the entry's own, and a bound one claims its client.
LEMMA ValueOf ==
  ASSUME NEW E \in [Addrs -> Entry \cup {NoEntry}], AllSound(E), NEW a \in Addrs,
         NEW val, val # NoRow,
         val = CommittedAt(E, a) \/ (Busy(E, a) /\ val = Effect(E[a].mut))
  PROVE  /\ E[a] # NoEntry /\ E[a] \in Entry /\ val \in Row
         /\ val.id = E[a].id /\ val.exp <= val.hold
         /\ val.st = "bound" => Claims(E[a])
<1>1. CASE val = CommittedAt(E, a)
  <2>1. E[a] # NoEntry /\ E[a] \in Entry /\ val = E[a].committed
    BY <1>1 DEF CommittedAt
  <2>2. Durable(E[a]) /\ val \in Row
    BY <2>1, EntryFields DEF Durable
  <2>3. SoundRow(E[a])
    BY <2>1, <2>2 DEF AllSound, Sound
  <2> QED
    BY <2>1, <2>2, <2>3 DEF SoundRow, Claims
<1>2. CASE Busy(E, a) /\ val = Effect(E[a].mut)
  <2>1. E[a] # NoEntry /\ E[a] \in Entry /\ Waits(E[a]) /\ Sound(E[a])
    BY <1>2 DEF Busy, AllSound
  <2>2. E[a].mut.kind = "put" /\ val = E[a].mut.row
    BY <1>2 DEF Effect
  <2>3. E[a].mut \in PendingMutation /\ SoundWrite(E[a])
    BY <2>1, EntryFields DEF Sound
  <2>4. val \in Row
    BY <2>2, <2>3, MutationFields
  <2>5. val.id = E[a].id /\ val.exp <= val.hold
    BY <2>2, <2>3 DEF SoundWrite
  <2>6. val.st = "bound" => ~E[a].dirty /\ E[a].mut.prev \in {"offered", "bound"}
    BY <2>2, <2>3 DEF SoundWrite
  <2> QED
    BY <2>1, <2>4, <2>5, <2>6 DEF Claims
<1> QED
  BY <1>1, <1>2

\* What the table has, an entry stands for.
LEMMA StoredOf ==
  ASSUME TypeOK, Engine, Flight, NEW a \in Addrs, rows[a] # NoRow
  PROVE  /\ entries[a] # NoEntry /\ entries[a] \in Entry
         /\ rows[a].id = entries[a].id /\ rows[a].exp <= rows[a].hold
         /\ rows[a].st = "bound" => byID[entries[a].id] = a
<1>1. entries \in [Addrs -> Entry \cup {NoEntry}] /\ AllSound(entries)
  BY DEF TypeOK, Engine, Books
<1>2. \/ rows[a] = CommittedAt(entries, a)
      \/ Busy(entries, a) /\ rows[a] = Effect(entries[a].mut)
  BY DEF Flight, InFlight, Written
<1>3. /\ entries[a] # NoEntry /\ entries[a] \in Entry
      /\ rows[a].id = entries[a].id /\ rows[a].exp <= rows[a].hold
      /\ rows[a].st = "bound" => Claims(entries[a])
  BY <1>1, <1>2, ValueOf
<1> QED
  BY <1>3 DEF Engine, Books, Indexed

\* While a runtime serves, Restore would accept the table.
LEMMA RunningRecoverable ==
  ASSUME TypeOK, Engine, Flight
  PROVE  AlwaysRecoverable
<1>1. gen \in Generations /\ rows \in [Addrs -> Row \cup {NoRow}]
  BY DEF TypeOK
<1>2. Stored \subseteq HeldIn(entries) /\ Stored \subseteq Addrs
  BY StoredOf DEF Stored, HeldIn
<1>3. Fits(Cfg, HeldIn(entries), entries)
  BY DEF Engine, Books
<1>4. Stored \subseteq Cfg.usable
  BY <1>2, <1>3 DEF Fits
<1>5. \A i \in Ids : Cfg.res[i] \in Stored => rows[Cfg.res[i]].id = i
  <2> SUFFICES ASSUME NEW i \in Ids, Cfg.res[i] \in Stored
               PROVE  rows[Cfg.res[i]].id = i
    OBVIOUS
  <2>1. entries[Cfg.res[i]].id = i
    BY <1>2, <1>3 DEF Fits
  <2>2. rows[Cfg.res[i]].id = entries[Cfg.res[i]].id
    BY StoredOf DEF Stored
  <2> QED
    BY <2>1, <2>2
<1>6. Cardinality(Stored \cup ReservedAt(Cfg)) <= Cfg.cap
  <2>1. ReservedAt(Cfg) \subseteq Addrs /\ Cfg.cap \in Nat
    BY <1>1, SettingsType DEF Cfg
  <2>2. /\ Stored \cup ReservedAt(Cfg) \subseteq HeldIn(entries) \cup ReservedAt(Cfg)
        /\ HeldIn(entries) \cup ReservedAt(Cfg) \subseteq Addrs
    BY <1>2, <2>1 DEF HeldIn
  <2>3. IsFiniteSet(HeldIn(entries) \cup ReservedAt(Cfg))
    BY <2>2, DhcpAssumption, FS_Subset
  <2>4. /\ Cardinality(Stored \cup ReservedAt(Cfg)) \in Nat
        /\ Cardinality(HeldIn(entries) \cup ReservedAt(Cfg)) \in Nat
        /\ Cardinality(Stored \cup ReservedAt(Cfg))
             <= Cardinality(HeldIn(entries) \cup ReservedAt(Cfg))
    BY <2>2, <2>3, FS_Subset, FS_CardinalityType
  <2> QED
    BY <1>3, <2>1, <2>4 DEF Fits
<1>7. Fits(Cfg, Stored, rows)
  BY <1>4, <1>5, <1>6 DEF Fits
<1>8. \A a \in Stored : rows[a].hold >= rows[a].exp
  <2> SUFFICES ASSUME NEW a \in Stored PROVE rows[a].hold >= rows[a].exp
    OBVIOUS
  <2>1. rows[a] \in Row /\ rows[a].exp <= rows[a].hold
    BY <1>1, StoredOf DEF Stored
  <2> QED
    BY <2>1, RowFields
<1>9. \A a, b \in Stored : a # b /\ rows[a].st = "bound" /\ rows[b].st = "bound"
                             => rows[a].id # rows[b].id
  BY StoredOf DEF Stored
<1> QED
  BY <1>7, <1>8, <1>9 DEF AlwaysRecoverable, Recoverable

\* While a runtime serves, what clients hold is in the table.
LEMMA RunningDurable ==
  ASSUME TypeOK, Engine, Flight, Protected(entries, held)
  PROVE  GrantIsDurable
<1> SUFFICES ASSUME Anchored, NEW a \in Addrs, NEW i \in Ids, held[a][i] > mono
             PROVE  /\ rows[a] # NoRow /\ rows[a].id = i
                    /\ wall <= mono => rows[a].hold - wall >= held[a][i] - mono
  BY DEF GrantIsDurable
<1> DEFINE v == entries[a]
<1>1. /\ v # NoEntry /\ v.id = i /\ held[a][i] <= v.thold
      /\ Durable(v) /\ ~v.dirty /\ ~(Waits(v) /\ v.mut.kind = "delete")
  BY DEF Protected
<1>2. /\ wall \in Nat /\ mono \in Nat /\ held[a][i] \in Nat
      /\ v \in Entry /\ Sound(v) /\ Lasting(v)
  BY <1>1 DEF TypeOK, Engine, Books, AllSound
<1>3. \/ rows[a] = v.committed
      \/ Waits(v) /\ rows[a] = Effect(v.mut)
  BY <1>1 DEF Flight, InFlight, Written, CommittedAt, Busy
<1>4. v.thold \in Int /\ v.committed \in Row
  BY <1>1, <1>2, EntryFields DEF Durable
<1> HIDE DEF v
<1>5. CASE rows[a] = v.committed
  <2>1. v.committed.hold \in Nat /\ v.committed # NoRow /\ v.committed.id = v.id
    BY <1>1, <1>2, <1>4, RowFields DEF Sound, SoundRow
  <2>2. wall <= mono => v.committed.hold >= v.thold + (wall - mono)
    BY <1>1, <1>2 DEF Lasting
  <2> QED
    BY <1>1, <1>2, <1>4, <1>5, <2>1, <2>2
<1>6. CASE Waits(v) /\ rows[a] = Effect(v.mut)
  <2>1. v.mut \in PendingMutation /\ SoundWrite(v)
    BY <1>2, <1>6, EntryFields DEF Sound
  <2>2. v.mut.kind = "put"
    BY <1>1, <1>6, <2>1, MutationFields
  <2>3. v.mut.row \in Row /\ v.mut.thold \in Int /\ rows[a] = v.mut.row
    BY <1>6, <2>1, <2>2, MutationFields DEF Effect
  <2>4. v.mut.row.hold \in Nat /\ v.mut.row # NoRow
    BY <2>3, RowFields
  <2>5. v.mut.row.id = v.id /\ v.thold <= v.mut.thold
    BY <2>1, <2>2 DEF SoundWrite
  <2>6. wall <= mono => v.mut.row.hold >= v.mut.thold + (wall - mono)
    BY <1>2, <1>6, <2>2 DEF Lasting
  <2> QED
    BY <1>1, <1>2, <1>4, <2>3, <2>4, <2>5, <2>6
<1> QED
  BY <1>3, <1>5, <1>6

\* While a runtime serves, every write in flight is accepted by the table it will meet.
LEMMA RunningAccepted ==
  ASSUME TypeOK, Engine, Flight
  PROVE  BatchAccepted(queue)
<1> SUFFICES ASSUME NEW k \in 1..Len(queue)
             PROVE  Accepts(After(rows, queue, k - 1), queue[k])
  BY DEF BatchAccepted
<1>1. /\ queue \in Seq(Mutation) /\ Len(queue) \in Nat
      /\ entries \in [Addrs -> Entry \cup {NoEntry}] /\ AllSound(entries)
      /\ Carried(entries, queue, results) /\ Written(entries, queue, results, rows)
  BY LenProperties DEF TypeOK, Engine, Books, Flight, InFlight
<1> DEFINE a == queue[k].addr
           v == entries[a]
           T == After(rows, queue, k - 1)
<1>2. a \in Addrs /\ Busy(entries, a)
  BY <1>1, CarriedTokens
<1>3. v \in Entry /\ v # NoEntry /\ Waits(v) /\ Sound(v)
  BY <1>1, <1>2 DEF Busy, AllSound
<1>4. queue[k].kind = v.mut.kind /\ queue[k].row = v.mut.row
  <2>1. queue[k] = Message(a, v)
    BY <1>1 DEF Carried
  <2> QED
    BY <2>1 DEF Message
<1>5. /\ v.mut \in PendingMutation /\ SoundWrite(v)
      /\ v.mut.kind \in {"put", "delete"} /\ v.mut.row \in Row
  BY <1>3, EntryFields, MutationFields DEF Sound
<1>6. ASSUME NEW b \in Addrs
      PROVE  /\ \A j \in 1..k - 1 : queue[j].addr = b => T[b] = Effect(entries[b].mut)
             /\ (\A j \in 1..k - 1 : queue[j].addr # b) => T[b] = rows[b]
  <2>1. k - 1 \in Nat /\ k - 1 <= Len(queue)
    BY <1>1
  <2> DEFINE m == k - 1
             q == queue
  <2>2. \A j \in 1..m : q[j] = queue[j]
    OBVIOUS
  <2> HIDE DEF m, q
  <2>3. /\ \A j \in 1..m : queue[j].addr = b => After(rows, q, m)[b] = Effect(entries[b].mut)
        /\ (\A j \in 1..m : queue[j].addr # b) => After(rows, q, m)[b] = rows[b]
    BY <1>1, <2>1, <2>2, AfterValue DEF m
  <2> QED
    BY <2>3 DEF m, q
<1> HIDE DEF T
<1>7. T[a] = v.committed
  <2>1. \A j \in 1..k - 1 : queue[j].addr # a
    <3> SUFFICES ASSUME NEW j \in 1..k - 1, queue[j].addr = a PROVE FALSE
      OBVIOUS
    <3>1. j \in 1..Len(queue) /\ j < k
      BY <1>1
    <3>2. j = k
      BY <3>1, <1>1 DEF Carried
    <3> QED
      BY <3>1, <3>2
  <2>2. T[a] = rows[a]
    BY <1>2, <1>6, <2>1
  <2>3. rows[a] = CommittedAt(entries, a)
    BY <1>1, <1>2 DEF Written
  <2> QED
    BY <2>2, <2>3, <1>3 DEF CommittedAt
<1>8. ASSUME NEW b \in Addrs, T[b] # NoRow
      PROVE  /\ T[b] \in Row /\ entries[b] # NoEntry /\ T[b].id = entries[b].id
             /\ T[b].st = "bound" => Claims(entries[b])
  <2>1. \/ T[b] = CommittedAt(entries, b)
        \/ Busy(entries, b) /\ T[b] = Effect(entries[b].mut)
    <3>1. CASE \A j \in 1..k - 1 : queue[j].addr # b
      BY <3>1, <1>1, <1>6 DEF Written
    <3>2. CASE \E j \in 1..k - 1 : queue[j].addr = b
      <4>1. PICK j \in 1..k - 1 : queue[j].addr = b
        BY <3>2
      <4>2. j \in 1..Len(queue)
        BY <1>1
      <4>3. Busy(entries, b)
        BY <4>1, <4>2, <1>1 DEF Carried
      <4> QED
        BY <4>1, <4>3, <1>6
    <3> QED
      BY <3>1, <3>2
  <2> QED
    BY <1>1, <1>8, <2>1, ValueOf
<1> HIDE DEF v
<1>9. CASE v.mut.kind = "put"
  <2>1. /\ v.mut.row.exp <= v.mut.row.hold /\ v.hold <= v.mut.row.hold /\ v.mut.row.id = v.id
        /\ v.mut.row.hold \in Nat /\ v.mut.row.exp \in Nat /\ v.hold \in Nat
    BY <1>3, <1>5, <1>9, EntryFields, RowFields DEF SoundWrite
  <2>2. ASSUME T[a] # NoRow
        PROVE  T[a].id = v.mut.row.id /\ T[a].hold <= v.mut.row.hold
    <3>1. Durable(v) /\ v.committed \in Row
      BY <1>3, <1>7, <2>2, EntryFields DEF Durable
    <3>2. v.committed.id = v.id /\ v.committed.hold <= v.hold /\ v.committed.hold \in Nat
      BY <1>3, <3>1, RowFields DEF Sound, SoundRow
    <3> QED
      BY <1>7, <2>1, <3>2
  <2>3. ASSUME v.mut.row.st = "bound", NEW b \in Addrs \ {a}, T[b] # NoRow, T[b].st = "bound"
        PROVE  T[b].id # v.mut.row.id
    <3>1. Claims(v)
      <4>1. ~v.dirty /\ v.mut.prev \in {"offered", "bound"}
        BY <1>5, <1>9, <2>3 DEF SoundWrite
      <4> QED
        BY <4>1, <1>3 DEF Claims
    <3>2. byID[v.id] = a
      BY <1>2, <1>3, <3>1 DEF Engine, Books, Indexed, v
    <3>3. byID[entries[b].id] = b /\ T[b].id = entries[b].id
      BY <1>8, <2>3 DEF Engine, Books, Indexed
    <3> QED
      BY <2>1, <3>2, <3>3
  <2>4. v.mut.row.hold >= v.mut.row.exp
    BY <2>1
  <2> QED
    BY <1>4, <1>9, <2>2, <2>3, <2>4 DEF Accepts, T
<1>10. CASE v.mut.kind = "delete"
  <2>1. v.mut.row = v.committed
    BY <1>5, <1>10 DEF SoundWrite
  <2> QED
    BY <1>4, <1>7, <1>10, <2>1 DEF Accepts, T
<1> QED
  BY <1>5, <1>9, <1>10
-----------------------------------------------------------------------------
(* Steps of a serving runtime.                                             *)

\* The types of what the engine's tables do not determine.
Others ==
  /\ sequence \in Nat /\ lastTime \in Nat
  /\ jobs \subseteq [tok : Token, due : Nat]
  /\ found \subseteq [tok : Token, outcome : {"quiet", "conflict", "error"}]
  /\ rows \in [Addrs -> Row \cup {NoRow}] /\ lastKnown \in Nat
  /\ queue \in Seq(Mutation) /\ Len(queue) <= QueueCap
  /\ results \in Seq([tok : Token, ok : BOOLEAN])
  /\ storeErr \in {"none", "failed", "uncertain"}
  /\ applying \in {0} \cup Generations
  /\ held \in [Addrs -> [Ids -> Nat]]

\* What a step of the runtime does not touch.
Steady == UNCHANGED <<mono, wall, stepped, restarts, up, gen>>

\* What the engine thinks is durable.
LEMMA DurableAt ==
  /\ \A E : DurableLeases(E) = [a \in Addrs |-> CommittedAt(E, a)]
  /\ \A E \in [Addrs -> Entry \cup {NoEntry}] : DurableLeases(E) \in [Addrs -> Row \cup {NoRow}]
<1>1. \A E : DurableLeases(E) = [a \in Addrs |-> CommittedAt(E, a)]
  BY DEF DurableLeases, CommittedAt
<1>2. ASSUME NEW E \in [Addrs -> Entry \cup {NoEntry}], NEW a \in Addrs
      PROVE  CommittedAt(E, a) \in Row \cup {NoRow}
  BY <1>2, EntryFields DEF CommittedAt
<1> QED
  BY <1>1, <1>2

\* A step that keeps the tables in order keeps the invariant.
LEMMA Frame ==
  ASSUME TypeOK, Clock, up, Steady,
         Books(entries', byID', bitmap', probes', sequence'),
         InFlight(entries', queue', results', rows', storeErr'),
         Protected(entries', held'), view' = DurableLeases(entries'),
         Others'
  PROVE  IInv'
<1>1. /\ mono' = mono /\ wall' = wall /\ stepped' = stepped /\ restarts' = restarts
      /\ up' = up /\ gen' = gen
  BY DEF Steady
<1>2. /\ entries' \in [Addrs -> Entry \cup {NoEntry}] /\ byID' \in [Ids -> Addrs \cup {NoAddr}]
      /\ bitmap' \subseteq Addrs /\ probes' \in 0..MaxProbes
  <2>1. /\ entries' \in [Addrs -> Entry \cup {NoEntry}]
        /\ byID' \in [Ids -> Addrs \cup {NoAddr}]
    BY DEF Books, Tables
  <2>2. /\ bitmap' \subseteq Cfg.pool /\ probes' = Cardinality(ProbingIn(entries'))
        /\ probes' <= MaxProbes
    BY DEF Books, Counted
  <2>3. Cfg.pool \subseteq Addrs
    BY SettingsType DEF TypeOK, Cfg
  <2>4. probes' \in Nat
    BY <2>2, HeldFinite
  <2> QED
    BY <2>1, <2>2, <2>3, <2>4 DEF MaxProbes
<1>3. TypeOK'
  BY <1>1, <1>2, DurableAt DEF TypeOK, Others
<1>4. Engine'
  <2>1. Tables(entries, byID)'
    BY DEF Books, Tables
  <2>2. AllSound(entries)'
    BY <1>1 DEF Books, AllSound, Lasting
  <2>3. Tokens(entries, sequence)'
    BY <1>1 DEF Books, Tokens
  <2>4. Indexed(entries, byID)'
    BY DEF Books, Indexed
  <2>5. Cfg' = Cfg /\ Reserved' = Reserved
    BY <1>1 DEF Cfg, Reserved
  <2>6. Counted(entries, bitmap, probes)'
    BY <2>5 DEF Books, Counted
  <2>7. Fits(Cfg, HeldIn(entries), entries)'
    BY <2>5 DEF Books, Fits
  <2> QED
    BY <2>1, <2>2, <2>3, <2>4, <2>6, <2>7 DEF Engine, Books
<1>5. Flight'
  BY DEF Flight
<1>6. Protected(entries, held)'
  BY <1>1 DEF Protected, Anchored
<1>7. (view = DurableLeases(entries))'
  OBVIOUS
<1>8. Running'
  BY <1>4, <1>5, <1>6, <1>7 DEF Running
<1>9. Down' /\ Clock'
  BY <1>1 DEF Down, Clock
<1> QED
  BY <1>3, <1>8, <1>9 DEF IInv

\* More tokens may have been given out.
LEMMA MoreTokens ==
  ASSUME NEW E, NEW I, NEW B, NEW p, NEW n \in Nat, Books(E, I, B, p, n), NEW m \in Nat, n <= m
  PROVE  Books(E, I, B, p, m)
<1>1. ASSUME NEW a \in Addrs, E[a] # NoEntry, E[a].tok # NoToken
      PROVE  E[a].tok.gen = gen /\ E[a].tok.seq <= m
  <2>1. E[a].tok \in Token
    BY <1>1, EntryFields DEF Books, Tables
  <2>2. E[a].tok.gen = gen /\ E[a].tok.seq <= n /\ E[a].tok.seq \in Nat
    BY <1>1, <2>1, TokenFields DEF Books, Tokens
  <2> QED
    BY <2>2
<1>2. Tokens(E, m)
  BY <1>1 DEF Books, Tokens
<1> QED
  BY <1>2 DEF Books

\* The next token.
LEMMA NextTokenType ==
  ASSUME gen \in Generations, sequence \in Nat, NEW n \in Nat, n > 0
  PROVE  /\ NextToken(n) \in Token /\ NextToken(n).gen = gen
         /\ NextToken(n).seq = sequence + n
BY DEF NextToken, Token

\* A write that is sent, or fails at once, changes nothing that is durable.
LEMMA DispatchCommitted ==
  ASSUME NEW E \in [Addrs -> Entry \cup {NoEntry}], NEW a \in Addrs, E[a] # NoEntry,
         NEW w, NEW tok \in Token, Sends(E[a], w, tok),
         NEW F, F = [E EXCEPT ![a] = Dispatched(w)]
  PROVE  DurableLeases(F) = DurableLeases(E)
<1>1. Dispatched(w) \in Entry /\ Dispatched(w).committed = E[a].committed
  BY DispatchSound
<1>2. Dispatched(w) # NoEntry
  BY <1>1, EntryFields
<1>3. \A b \in Addrs : CommittedAt(F, b) = CommittedAt(E, b)
  BY <1>1, <1>2 DEF CommittedAt
<1> QED
  BY <1>3, DurableAt

\* The owner loop sends a write of one entry, or sees it fail at once.
LEMMA DispatchStep ==
  ASSUME TypeOK, Engine, Flight,
         NEW a \in Addrs, entries[a] # NoEntry, ~Waits(entries[a]),
         NEW w, Sends(entries[a], w, NextToken(1)),
         NEW I2, I2 = byID \/ I2 = Forget(byID, entries[a].id, a), Claims(w) => I2[w.id] = a,
         NEW p2, entries[a].st = "probing" => p2 = probes - 1,
         entries[a].st # "probing" => p2 = probes,
         NEW F, F = [entries EXCEPT ![a] = Dispatched(w)], NEW P, P = Enqueued(a, w)
  PROVE  /\ Books(F, I2, bitmap, p2, sequence + 1)
         /\ InFlight(F, P, results, rows, storeErr)
         /\ P \in Seq(Mutation) /\ Len(P) <= QueueCap
<1> DEFINE d == Dispatched(w)
           v == entries[a]
<1>1. /\ gen \in Generations /\ sequence \in Nat /\ queue \in Seq(Mutation)
      /\ Len(queue) <= QueueCap /\ results \in Seq(Completion) /\ QueueCap \in Nat
      /\ entries \in [Addrs -> Entry \cup {NoEntry}] /\ Len(queue) \in Nat
  BY DhcpAssumption, LenProperties DEF TypeOK, Completion
<1>2. /\ NextToken(1) \in Token /\ NextToken(1).gen = gen
      /\ NextToken(1).seq = sequence + 1
  BY <1>1, NextTokenType
<1>3. /\ d \in Entry /\ Sound(d) /\ Lasting(d) /\ d.id = v.id /\ d.committed = v.committed
      /\ d.st # "probing" /\ d.tok \in {NoToken, NextToken(1)}
      /\ Claims(d) => Claims(w)
      /\ Admits => d = w
      /\ ~Admits => ~Waits(d)
  BY <1>2, DispatchSound
<1>4. w \in Entry /\ Waits(w) /\ Sound(w) /\ w.id = v.id /\ w.tok = NextToken(1)
  BY DEF Sends
<1>5. v \in Entry /\ d # NoEntry
  BY <1>1, <1>3, EntryFields
<1>6. F = [entries EXCEPT ![a] = d] /\ F \in [Addrs -> Entry \cup {NoEntry}] /\ F[a] = d
      /\ \A b \in Addrs \ {a} : F[b] = entries[b]
  BY <1>1, <1>3
<1> HIDE DEF d
<1>7. Books(F, I2, bitmap, p2, sequence + 1)
  <2>1. \/ d.tok = NoToken
        \/ d.tok \in Token /\ d.tok.gen = gen /\ sequence < d.tok.seq /\ d.tok.seq <= sequence + 1
    BY <1>1, <1>2, <1>3
  <2>2. sequence + 1 \in Nat /\ sequence <= sequence + 1
    BY <1>1
  <2>3. Claims(d) => I2[d.id] = a
    BY <1>3, <1>4
  <2>4. Books(entries, byID, bitmap, probes, sequence)
    BY DEF Engine
  <2>5. /\ d.id = entries[a].id /\ (d.st = "probing" => entries[a].st = "probing")
        /\ entries[a].st = "probing" /\ d.st # "probing" => p2 = probes - 1
        /\ ~(entries[a].st = "probing" /\ d.st # "probing") => p2 = probes
    BY <1>3
  <2>6. /\ gen \in Generations /\ sequence \in Nat /\ d \in Entry /\ Sound(d) /\ Lasting(d)
        /\ F = [entries EXCEPT ![a] = d]
    BY <1>1, <1>3, <1>6
  <2> HIDE DEF v
  <2> QED
    BY ONLY <2>1, <2>2, <2>3, <2>4, <2>5, <2>6, ReplaceKeepsBooks,
            a \in Addrs, entries[a] # NoEntry, I2 = byID \/ I2 = Forget(byID, entries[a].id, a)
<1>8. \A b \in Addrs : CommittedAt(F, b) = CommittedAt(entries, b)
  BY <1>3, <1>5, <1>6 DEF CommittedAt
<1>9. AllSound(entries) /\ Tokens(entries, sequence)
      /\ InFlight(entries, queue, results, rows, storeErr)
  BY DEF Engine, Books, Flight
<1>10. \A b \in Addrs : Busy(entries, b) => F[b] = entries[b]
  BY <1>6 DEF Busy
<1>11. CASE Admits
  <2> DEFINE m == Message(a, w)
             S == <<m>>
  <2>1. /\ m \in Mutation /\ m.tok = w.tok /\ m.addr = a
    BY <1>4, MessageType
  <2>2. P = Append(queue, m)
    BY <1>11 DEF Enqueued
  <2>3. P = queue \o S /\ P \in Seq(Mutation) /\ Len(P) = Len(queue) + 1
    BY <1>1, <2>1, <2>2, AppendIsConcat, AppendProperties
  <2>4. Len(P) <= QueueCap
    BY <1>1, <1>11, <2>3 DEF Admits
  <2>5. d = w /\ Busy(F, a)
    BY <1>3, <1>4, <1>5, <1>6, <1>11 DEF Busy
  <2>6. S \in Seq(Mutation) /\ Len(S) = 1 /\ S[1] = m
    BY <2>1
  <2> HIDE DEF S
  <2>7. \A b \in Addrs : Busy(F, b) => Busy(entries, b) \/ b = a
    BY <1>6 DEF Busy
  <2>8. \A k \in 1..Len(S) : k = 1
    BY <2>6
  <2>9. 1 \in 1..Len(S)
    BY <2>6
  <2>10. ~Busy(entries, a)
    BY DEF Busy
  <2>11. m = Message(a, F[a]) /\ m.tok = F[a].tok /\ F[a].tok.seq > sequence
    BY <1>1, <1>2, <1>4, <1>6, <2>1, <2>5
  <2> HIDE DEF m
  <2>12. \A k \in 1..Len(S) : /\ ~Busy(entries, S[k].addr) /\ Busy(F, S[k].addr)
                              /\ S[k] = Message(S[k].addr, F[S[k].addr])
                              /\ S[k].tok = F[S[k].addr].tok
    BY <2>1, <2>5, <2>6, <2>8, <2>10, <2>11
  <2>13. \A b \in Addrs : Busy(F, b) => Busy(entries, b) \/ \E k \in 1..Len(S) : S[k].addr = b
    BY <2>1, <2>6, <2>7, <2>9
  <2>14. \A b \in Addrs : Busy(F, b) /\ ~Busy(entries, b) => F[b].tok.seq > sequence
    BY <2>7, <2>11
  <2>15. \A k, l \in 1..Len(S) : S[k].addr = S[l].addr => k = l
    BY <2>8
  <2>16. InFlight(F, queue \o S, results, rows, storeErr)
    BY <1>1, <1>6, <1>8, <1>9, <1>10, <2>6, <2>12, <2>13, <2>14, <2>15, SendInFlight
  <2> QED
    BY <1>7, <1>8, <2>3, <2>4, <2>16
<1>12. CASE ~Admits
  <2>1. P = queue
    BY <1>12 DEF Enqueued
  <2>2. \A b \in Addrs : Busy(F, b) => Busy(entries, b)
    BY <1>3, <1>6, <1>12 DEF Busy
  <2>3. InFlight(F, queue, results, rows, storeErr)
    BY <1>1, <1>6, <1>8, <1>9, <1>10, <2>2, QuietInFlight
  <2> QED
    BY <1>1, <1>7, <1>8, <2>1, <2>3
<1> QED
  BY <1>11, <1>12

\* A DISCOVER that is handed to a probe, or stays silent.
LEMMA DiscoverStep ==
  ASSUME TypeOK, NEW E, NEW I, NEW B, NEW p, NEW n \in Nat,
         Books(E, I, B, p, sequence + n), NEW i \in Ids, I[i] = NoAddr,
         NEW r \in Request, NEW try \in Nat, Discover(E, I, B, p, n, i, r, try),
         NEW Q \in Seq(Mutation), NEW R \in Seq(Completion), InFlight(E, Q, R, rows, storeErr),
         NEW H, Protected(E, H)
  PROVE  /\ Books(entries', byID', bitmap', probes', sequence')
         /\ InFlight(entries', Q, R, rows, storeErr)
         /\ Protected(entries', H)
         /\ DurableLeases(entries') = DurableLeases(E)
         /\ jobs' \subseteq [tok : Token, due : Nat] /\ sequence' \in Nat
<1> DEFINE a == DiscoverAddr(E, B, p, i, r.rip, try)
           tok == NextToken(n + 1)
           w == ProbingEntry(i, r, tok, try)
           X == HeldIn(E) \cup {a} \cup Reserved
<1>1. /\ gen \in Generations /\ sequence \in Nat /\ mono \in Nat
      /\ jobs \subseteq [tok : Token, due : Nat]
  BY DEF TypeOK, Completion
<1>2. E \in [Addrs -> Entry \cup {NoEntry}] /\ AllSound(E) /\ Tokens(E, sequence + n)
  BY DEF Books, Tables
<1>3. CASE a # NoAddr /\ Cardinality(jobs) < MaxProbes
  <2>1. /\ entries' = [E EXCEPT ![a] = w]
        /\ byID' = [I EXCEPT ![i] = a]
        /\ bitmap' = Mark(B, a)
        /\ probes' = p + 1
        /\ sequence' = sequence + n + 1
        /\ jobs' = jobs \cup {[tok |-> tok, due |-> mono + ProbeTime]}
    BY <1>3 DEF Discover
  <2>2. /\ a \in Addrs /\ E[a] = NoEntry /\ a \in Cfg.usable
        /\ \A j \in Ids : Cfg.res[j] = a => j = i
        /\ Cardinality(X) <= Cfg.cap
        /\ p < MaxProbes /\ try <= MaxTries
    <3>1. a = DiscoverAddr(E, B, p, i, r.rip, try) /\ a # NoAddr
      BY <1>3
    <3> HIDE DEF a, w, tok
    <3>2. FreeFor(E, p, i, a, try)
      BY ONLY <1>1, <3>1, CandidateFree, Books(E, I, B, p, sequence + n), i \in Ids, try \in Nat
    <3> QED
      BY <3>2 DEF FreeFor
  <2>3. tok \in Token /\ tok = [gen |-> gen, seq |-> sequence + n + 1]
    <3>1. n + 1 \in Nat /\ n + 1 > 0 /\ sequence + (n + 1) = sequence + n + 1
      BY <1>1
    <3>2. tok = [gen |-> gen, seq |-> sequence + n + 1]
      BY <3>1 DEF NextToken
    <3> QED
      BY <1>1, <3>1, <3>2, NextTokenType
  <2>4. try \in 0..MaxTries
    BY <2>2 DEF MaxTries
  <2>5. /\ w \in Entry /\ Sound(w) /\ Lasting(w)
        /\ w.id = i /\ w.st = "probing" /\ w.tok = tok /\ w.committed = NoRow
    BY <1>1, <2>3, <2>4, ProbingSound
  <2>20. X = HeldIn(E) \cup {a} \cup Reserved
    OBVIOUS
  <2> HIDE DEF a, w, tok, X
  <2>6. sequence + n \in Nat
    BY <1>1
  <2>7. Books(entries', byID', Mark(B, a), p + 1, sequence + n + 1)
    BY <1>1, <2>1, <2>2, <2>3, <2>5, <2>6, <2>20, AddKeepsBooks
  <2>8. entries' \in [Addrs -> Entry \cup {NoEntry}] /\ entries'[a] = w
        /\ \A b \in Addrs \ {a} : entries'[b] = E[b]
    BY <1>2, <2>1, <2>2, <2>5
  <2>9. \A b \in Addrs : CommittedAt(entries', b) = CommittedAt(E, b)
    BY <2>2, <2>5, <2>8, EntryFields DEF CommittedAt
  <2>10. /\ \A b \in Addrs : Busy(E, b) => entries'[b] = E[b]
         /\ \A b \in Addrs : Busy(entries', b) => Busy(E, b)
    BY <2>2, <2>5, <2>8 DEF Busy, Waits
  <2>11. InFlight(entries', Q, R, rows, storeErr)
    BY <1>1, <1>2, <2>6, <2>8, <2>9, <2>10, QuietInFlight
  <2>12. Protected(entries', H)
    BY <2>2, <2>8 DEF Protected
  <2>13. DurableLeases(entries') = DurableLeases(E)
    BY <2>9, DurableAt
  <2>14. jobs' \subseteq [tok : Token, due : Nat]
    <3>1. ProbeTime \in Nat
      BY DhcpAssumption
    <3>2. mono + ProbeTime \in Nat
      BY <1>1, <3>1
    <3> QED
      BY <1>1, <2>1, <2>3, <3>2
  <2>15. sequence' \in Nat
    BY <1>1, <2>1
  <2> QED
    BY <2>1, <2>7, <2>11, <2>12, <2>13, <2>14, <2>15
<1>4. CASE ~(a # NoAddr /\ Cardinality(jobs) < MaxProbes)
  <2>1. /\ entries' = E /\ byID' = I /\ bitmap' = B /\ probes' = p
        /\ sequence' = IF a = NoAddr THEN sequence + n ELSE sequence + n + 1
        /\ jobs' = jobs
    BY <1>4 DEF Discover
  <2>2. sequence' \in Nat /\ sequence + n \in Nat /\ sequence + n <= sequence'
    BY <1>1, <2>1
  <2>3. Books(E, I, B, p, sequence')
    BY <2>2, MoreTokens
  <2> QED
    BY <1>1, <2>1, <2>2, <2>3
<1> QED
  BY <1>3, <1>4
-----------------------------------------------------------------------------
(* The actions, one by one. First those that leave the tables alone.       *)

\* What the invariant gives an action of a serving runtime.
LEMMA Served ==
  ASSUME IInv, up
  PROVE  /\ TypeOK /\ Clock /\ Engine /\ Flight /\ Protected(entries, held) /\ Others
         /\ view = DurableLeases(entries)
         /\ Books(entries, byID, bitmap, probes, sequence)
         /\ InFlight(entries, queue, results, rows, storeErr)
         /\ entries \in [Addrs -> Entry \cup {NoEntry}] /\ byID \in [Ids -> Addrs \cup {NoAddr}]
         /\ AllSound(entries) /\ Tokens(entries, sequence) /\ Indexed(entries, byID)
         /\ gen \in Generations /\ sequence \in Nat /\ mono \in Nat /\ wall \in Nat
         /\ queue \in Seq(Mutation) /\ results \in Seq(Completion)
<1>1. TypeOK /\ Clock /\ Engine /\ Flight /\ Protected(entries, held)
      /\ view = DurableLeases(entries)
  BY DEF IInv, Running
<1>2. /\ Books(entries, byID, bitmap, probes, sequence)
      /\ InFlight(entries, queue, results, rows, storeErr)
  BY <1>1 DEF Engine, Flight
<1>3. AllSound(entries) /\ Tokens(entries, sequence) /\ Indexed(entries, byID)
  BY <1>2 DEF Books
<1>4. Others
  BY <1>1 DEF TypeOK, Others
<1>5. /\ entries \in [Addrs -> Entry \cup {NoEntry}] /\ byID \in [Ids -> Addrs \cup {NoAddr}]
      /\ gen \in Generations /\ sequence \in Nat /\ mono \in Nat /\ wall \in Nat
      /\ queue \in Seq(Mutation) /\ results \in Seq(Completion)
  BY <1>1 DEF TypeOK, Completion
<1> QED
  BY <1>1, <1>2, <1>3, <1>4, <1>5

\* A step that leaves the engine, the store and the view alone.
LEMMA Idle ==
  ASSUME IInv, up, Steady, Others', Protected(entries, held'),
         UNCHANGED <<sequence, entries, byID, bitmap, probes, rows, queue, results, storeErr, view>>
  PROVE  IInv'
<1>1. /\ TypeOK /\ Clock /\ view = DurableLeases(entries)
      /\ Books(entries, byID, bitmap, probes, sequence)
      /\ InFlight(entries, queue, results, rows, storeErr)
  BY Served
<1>2. /\ entries' = entries /\ byID' = byID /\ bitmap' = bitmap /\ probes' = probes
      /\ sequence' = sequence /\ queue' = queue /\ results' = results /\ rows' = rows
      /\ storeErr' = storeErr /\ view' = view
  OBVIOUS
<1>3. Books(entries', byID', bitmap', probes', sequence')
  BY <1>1, <1>2
<1>4. InFlight(entries', queue', results', rows', storeErr')
  BY <1>1, <1>2
<1>5. Protected(entries', held')
  BY <1>2
<1>6. view' = DurableLeases(entries')
  BY <1>1, <1>2
<1> QED
  BY <1>1, <1>3, <1>4, <1>5, <1>6, Frame

\* The clock reading is a time.
LEMMA Observed ==
  ASSUME wall \in Nat, lastTime \in Nat, ObserveClock
  PROVE  lastTime' \in Nat
BY DEF ObserveClock

\* A packet that is ignored, or a tick with nothing to do.
LEMMA ObserveStep ==
  ASSUME IInv, Observe
  PROVE  IInv'
<1>1. up
  BY DEF Observe
<1>2. Others /\ Protected(entries, held) /\ wall \in Nat
  BY <1>1, Served
<1>3. lastTime' \in Nat
  BY <1>2, Observed DEF Observe, Others
<1>4. Others'
  BY <1>2, <1>3 DEF Others, Observe, store, prober, runtime
<1>5. Steady
  BY DEF Observe, clocks, process, Steady
<1>6. Protected(entries, held')
  BY <1>2 DEF Observe
<1> QED
  BY <1>1, <1>4, <1>5, <1>6, Idle DEF Observe, store, runtime

\* A probe worker ends.
LEMMA ProbeEndsStep ==
  ASSUME IInv, NEW j \in jobs, NEW outcome \in {"quiet", "conflict", "error"},
         ProbeEnds(j, outcome)
  PROVE  IInv'
<1>1. up
  BY DEF ProbeEnds
<1>2. Others /\ Protected(entries, held)
  BY <1>1, Served
<1>3. /\ jobs' \subseteq [tok : Token, due : Nat]
      /\ found' \subseteq [tok : Token, outcome : {"quiet", "conflict", "error"}]
  BY <1>2 DEF Others, ProbeEnds
<1>4. Others'
  BY <1>2, <1>3 DEF Others, ProbeEnds, engine, store, runtime
<1>5. Steady
  BY DEF ProbeEnds, clocks, process, engine, Steady
<1>6. Protected(entries, held')
  BY <1>2 DEF ProbeEnds
<1> QED
  BY <1>1, <1>4, <1>5, <1>6, Idle DEF ProbeEnds, engine, store, runtime

\* A probe result that nothing waits for.
LEMMA ProbeStaleStep ==
  ASSUME IInv, NEW f \in found, ProbeStale(f)
  PROVE  IInv'
<1>1. up
  BY DEF ProbeStale
<1>2. Others /\ Protected(entries, held) /\ wall \in Nat
  BY <1>1, Served
<1>3. lastTime' \in Nat
  BY <1>2, Observed DEF ProbeStale, Others
<1>4. Others'
  BY <1>2, <1>3 DEF Others, ProbeStale, store, runtime
<1>5. Steady
  BY DEF ProbeStale, clocks, process, Steady
<1>6. Protected(entries, held')
  BY <1>2 DEF ProbeStale
<1> QED
  BY <1>1, <1>4, <1>5, <1>6, Idle DEF ProbeStale, store, runtime

\* An Apply request arrives, is refused or is cancelled.
LEMMA ApplyWaitsStep ==
  ASSUME IInv, (\E g \in Generations : ApplyRequest(g)) \/ ApplyRefused \/ ApplyCancelled
  PROVE  IInv'
<1>1. /\ up /\ applying' \in {0} \cup Generations
      /\ UNCHANGED <<clocks, process, engine, prober, store, view, held>>
  BY DEF ApplyRequest, ApplyRefused, ApplyCancelled
<1>2. Others /\ Protected(entries, held)
  BY <1>1, Served
<1>3. Others'
  BY <1>1, <1>2 DEF Others, engine, prober, store
<1>4. Steady
  BY <1>1 DEF clocks, process, engine, Steady
<1>5. Protected(entries, held')
  BY <1>1, <1>2
<1> QED
  BY <1>1, <1>3, <1>4, <1>5, Idle DEF engine, store

\* The server refuses an address: the client gives it up.
LEMMA RequestNakStep ==
  ASSUME IInv, NEW i \in Ids, NEW a \in Addrs, RequestNak(i, a)
  PROVE  IInv'
<1>1. up
  BY DEF RequestNak, Handles, Serving
<1>2. Others /\ Protected(entries, held) /\ wall \in Nat /\ mono \in Nat
  BY <1>1, Served
<1>3. lastTime' \in Nat
  BY <1>2, Observed DEF RequestNak, Handles, Others
<1>4. held \in [Addrs -> [Ids -> Nat]]
  BY <1>2 DEF Others
<1>5. held' = held \/ held' = [held EXCEPT ![a][i] = 0]
  BY DEF RequestNak, Drop
<1>6. /\ held' \in [Addrs -> [Ids -> Nat]]
      /\ \A b \in Addrs : \A j \in Ids : held'[b][j] = held[b][j] \/ held'[b][j] = 0
  BY <1>4, <1>5
<1>7. Others'
  BY <1>2, <1>3, <1>6 DEF Others, RequestNak, prober, store, runtime
<1>8. Steady
  BY DEF RequestNak, clocks, process, Steady
<1>9. \A b \in Addrs : \A j \in Ids : held'[b][j] > mono => held'[b][j] = held[b][j]
  BY <1>2, <1>6
<1>10. Protected(entries, held')
  BY <1>2, <1>9 DEF Protected
<1> QED
  BY <1>1, <1>7, <1>8, <1>10, Idle DEF RequestNak, store, runtime

\* A client takes a lease that is no longer than the entry's hold.
LEMMA AckProtected ==
  ASSUME mono \in Nat, NEW E, NEW a \in Addrs, NEW i \in Ids, NEW until \in Int,
         held \in [Addrs -> [Ids -> Nat]], Protected(E, held), SendAck(a, i, until),
         E[a] \in Entry, E[a].id = i, until <= E[a].thold,
         Durable(E[a]), ~E[a].dirty, ~Waits(E[a])
  PROVE  Protected(E, held') /\ held' \in [Addrs -> [Ids -> Nat]]
<1>1. held' = held \/ held' = [held EXCEPT ![a][i] = MaxOf(held[a][i], until)]
  BY DEF SendAck
<1>2. /\ MaxOf(held[a][i], until) \in Nat
      /\ MaxOf(held[a][i], until) = held[a][i] \/ MaxOf(held[a][i], until) = until
  BY DEF MaxOf
<1> DEFINE m == MaxOf(held[a][i], until)
<1> HIDE DEF m
<1>3. /\ held' \in [Addrs -> [Ids -> Nat]]
      /\ \A b \in Addrs : \A j \in Ids :
           held'[b][j] = held[b][j] \/ (b = a /\ j = i /\ held'[b][j] = until)
  BY <1>1, <1>2
<1>4. E[a] # NoEntry
  BY EntryFields
<1> SUFFICES ASSUME Anchored, NEW b \in Addrs, NEW j \in Ids, held'[b][j] > mono
             PROVE  /\ E[b] # NoEntry /\ E[b].id = j /\ held'[b][j] <= E[b].thold
                    /\ Durable(E[b]) /\ ~E[b].dirty /\ ~(Waits(E[b]) /\ E[b].mut.kind = "delete")
  BY <1>3 DEF Protected
<1>5. CASE held'[b][j] = held[b][j]
  BY <1>5 DEF Protected
<1>6. CASE b = a /\ j = i /\ held'[b][j] = until
  BY <1>4, <1>6
<1> QED
  BY <1>3, <1>5, <1>6

\* The entry a client's identity points to.
LEMMA OwnEntry ==
  ASSUME IInv, up, NEW i \in Ids, NEW a, byID[i] = a, a # NoAddr
  PROVE  /\ a \in Addrs /\ entries[a] # NoEntry /\ entries[a] \in Entry /\ entries[a].id = i
         /\ Sound(entries[a]) /\ Lasting(entries[a])
<1>1. /\ entries \in [Addrs -> Entry \cup {NoEntry}] /\ byID \in [Ids -> Addrs \cup {NoAddr}]
      /\ AllSound(entries) /\ Indexed(entries, byID)
  BY Served
<1> QED
  BY <1>1 DEF AllSound, Indexed

\* A REQUEST that repeats an answered one: the same ACK again.
LEMMA RequestReplayStep ==
  ASSUME IInv, NEW i \in Ids, NEW x \in XIDs, NEW a \in Addrs, NEW phase \in Phases,
         RequestReplay(i, x, a, phase)
  PROVE  IInv'
<1>1. up /\ byID[i] = a /\ entries[a].st = "bound" /\ a # NoAddr
  BY DhcpAssumption DEF RequestReplay, Grants, Replays, Handles, Serving
<1>2. Others /\ Protected(entries, held) /\ wall \in Nat /\ mono \in Nat
  BY <1>1, Served
<1>3. entries[a] \in Entry /\ entries[a].id = i /\ Sound(entries[a])
  BY <1>1, OwnEntry
<1>4. /\ Durable(entries[a]) /\ ~entries[a].dirty /\ ~Waits(entries[a])
      /\ entries[a].texp <= entries[a].thold /\ entries[a].texp \in Int
  BY <1>1, <1>3, EntryFields DEF Sound, Waits
<1>5. Protected(entries, held') /\ held' \in [Addrs -> [Ids -> Nat]]
  BY <1>2, <1>3, <1>4, AckProtected DEF RequestReplay, Others
<1>6. lastTime' \in Nat
  BY <1>2, Observed DEF RequestReplay, Grants, Handles, Others
<1>7. Others'
  BY <1>2, <1>5, <1>6 DEF Others, RequestReplay, prober, store, runtime
<1>8. Steady
  BY DEF RequestReplay, clocks, process, Steady
<1> QED
  BY <1>1, <1>5, <1>7, <1>8, Idle DEF RequestReplay, store, runtime
-----------------------------------------------------------------------------
(* Actions that change one entry and send nothing.                         *)

\* One entry that does not wait is replaced by another that does not.
LEMMA LocalChange ==
  ASSUME IInv, up, NEW a \in Addrs, entries[a] # NoEntry, ~Waits(entries[a]),
         NEW w \in Entry, Sound(w), Lasting(w), ~Waits(w),
         w.id = entries[a].id, w.committed = entries[a].committed,
         w.tok = NoToken \/ w.tok = entries[a].tok,
         Claims(w) => Claims(entries[a]),
         Durable(entries[a]) => w.thold = entries[a].thold /\ w.dirty = entries[a].dirty,
         NEW p2, entries[a].st = "probing" /\ w.st # "probing" => p2 = probes - 1,
         ~(entries[a].st = "probing" /\ w.st # "probing") => p2 = probes,
         w.st = "probing" => entries[a].st = "probing",
         NEW F, F = [entries EXCEPT ![a] = w]
  PROVE  /\ Books(F, byID, bitmap, p2, sequence)
         /\ InFlight(F, queue, results, rows, storeErr)
         /\ Protected(F, held)
         /\ DurableLeases(F) = DurableLeases(entries)
<1>1. /\ Books(entries, byID, bitmap, probes, sequence)
      /\ InFlight(entries, queue, results, rows, storeErr)
      /\ entries \in [Addrs -> Entry \cup {NoEntry}] /\ byID \in [Ids -> Addrs \cup {NoAddr}]
      /\ AllSound(entries) /\ Tokens(entries, sequence) /\ Indexed(entries, byID)
      /\ gen \in Generations /\ sequence \in Nat /\ Protected(entries, held)
      /\ queue \in Seq(Mutation) /\ results \in Seq(Completion)
  BY Served
<1>2. F \in [Addrs -> Entry \cup {NoEntry}] /\ F[a] = w /\ w # NoEntry
      /\ \A b \in Addrs \ {a} : F[b] = entries[b]
  BY <1>1, EntryFields
<1>3. Claims(w) => byID[w.id] = a
  BY <1>1 DEF Indexed
<1>4. Books(F, byID, bitmap, p2, sequence)
  <2>1. sequence <= sequence /\ byID = byID
    BY <1>1
  <2> QED
    BY <1>1, <1>3, <2>1, ReplaceKeepsBooks
<1>5. \A b \in Addrs : CommittedAt(F, b) = CommittedAt(entries, b)
  BY <1>2 DEF CommittedAt
<1>6. /\ \A b \in Addrs : Busy(entries, b) => F[b] = entries[b]
      /\ \A b \in Addrs : Busy(F, b) => Busy(entries, b)
  BY <1>2 DEF Busy
<1>7. InFlight(F, queue, results, rows, storeErr)
  BY <1>1, <1>2, <1>5, <1>6, QuietInFlight
<1>8. Durable(w) <=> Durable(entries[a])
  BY DEF Durable
<1>9. Protected(F, held)
  BY <1>1, <1>2, <1>8 DEF Protected
<1> QED
  BY <1>4, <1>5, <1>7, <1>9, DurableAt

\* The request to answer is replaced.
LEMMA TouchChange ==
  ASSUME IInv, up, Steady, NEW a \in Addrs, entries[a] # NoEntry, ~Waits(entries[a]),
         NEW r \in Request, entries' = [entries EXCEPT ![a].req = r],
         UNCHANGED <<sequence, byID, bitmap, probes, rows, queue, results, storeErr, view, held>>,
         Others'
  PROVE  IInv'
<1> DEFINE v == entries[a]
           w == [v EXCEPT !.req = r]
<1>1. /\ entries \in [Addrs -> Entry \cup {NoEntry}] /\ AllSound(entries) /\ TypeOK /\ Clock
      /\ view = DurableLeases(entries)
  BY Served
<1>2. v \in Entry /\ Sound(v) /\ Lasting(v)
  BY <1>1 DEF AllSound
<1>3. /\ w \in Entry /\ Sound(w) /\ Lasting(w)
      /\ w.id = v.id /\ w.st = v.st /\ w.tok = v.tok /\ w.committed = v.committed
      /\ w.dirty = v.dirty /\ w.thold = v.thold
  BY <1>2, TouchSound
<1>4. entries' = [entries EXCEPT ![a] = w]
  BY <1>1
<1> HIDE DEF w
<1>5. ~Waits(w) /\ (Claims(w) => Claims(v))
  BY <1>3 DEF Waits, Claims, Durable
<1>6. /\ Books(entries', byID, bitmap, probes, sequence)
      /\ InFlight(entries', queue, results, rows, storeErr)
      /\ Protected(entries', held)
      /\ DurableLeases(entries') = DurableLeases(entries)
  <2>1. /\ ~(entries[a].st = "probing" /\ w.st # "probing")
        /\ w.st = "probing" => entries[a].st = "probing"
        /\ probes = probes
        /\ w \in Entry /\ Sound(w) /\ Lasting(w) /\ w.id = entries[a].id
        /\ w.committed = entries[a].committed /\ w.tok = entries[a].tok
        /\ w.thold = entries[a].thold /\ w.dirty = entries[a].dirty
    BY <1>3
  <2>2. ~Waits(w) /\ (Claims(w) => Claims(entries[a]))
    BY <1>5
  <2> HIDE DEF v
  <2> QED
    BY ONLY <2>1, <2>2, <1>4, LocalChange, IInv, up, a \in Addrs, entries[a] # NoEntry,
            ~Waits(entries[a])
<1>7. /\ Books(entries', byID', bitmap', probes', sequence')
      /\ InFlight(entries', queue', results', rows', storeErr')
      /\ Protected(entries', held')
      /\ view' = DurableLeases(entries')
  BY <1>1, <1>6
<1> QED
  BY <1>1, <1>7, Frame

\* The request a DISCOVER leaves in its entry.
LEMMA DiscoverRequestType ==
  ASSUME NEW x \in XIDs, NEW hint \in Hints \cup {NoAddr}
  PROVE  DiscoverRequest(x, hint) \in Request
BY DhcpAssumption DEF DiscoverRequest, Request

\* DISCOVER during the client's probe.
LEMMA DiscoverProbingStep ==
  ASSUME IInv, NEW i \in Ids, NEW x \in XIDs, NEW hint \in Hints, DiscoverProbing(i, x, hint)
  PROVE  IInv'
<1> DEFINE a == byID[i]
<1>1. up /\ a # NoAddr /\ entries[a].st = "probing"
  BY DEF DiscoverProbing, Handles, Serving
<1>2. Others /\ wall \in Nat
  BY <1>1, Served
<1>3. lastTime' \in Nat
  BY <1>2, Observed DEF DiscoverProbing, Handles, Others
<1>4. a \in Addrs /\ entries[a] # NoEntry /\ ~Waits(entries[a])
  BY <1>1, OwnEntry DEF Waits
<1>5. Others'
  BY <1>2, <1>3 DEF Others, DiscoverProbing, prober, store, runtime
<1>6. Steady
  BY DEF DiscoverProbing, clocks, process, Steady
<1>7. DiscoverRequest(x, hint) \in Request
  BY DiscoverRequestType
<1>8. entries' = [entries EXCEPT ![a].req = DiscoverRequest(x, hint)]
  BY DEF DiscoverProbing
<1>9. UNCHANGED <<sequence, byID, bitmap, probes, rows, queue, results, storeErr, view, held>>
  BY DEF DiscoverProbing, store, runtime
<1> HIDE DEF a
<1> QED
  BY <1>1, <1>4, <1>5, <1>6, <1>7, <1>8, <1>9, TouchChange

\* DISCOVER of a client that has an offer or a lease.
LEMMA DiscoverOfferStep ==
  ASSUME IInv, NEW i \in Ids, NEW x \in XIDs, DiscoverOffer(i, x)
  PROVE  IInv'
<1> DEFINE a == byID[i]
<1>1. up /\ a # NoAddr /\ entries[a].st \in {"offered", "bound"}
  BY DEF DiscoverOffer, Handles, Serving
<1>2. Others /\ wall \in Nat
  BY <1>1, Served
<1>3. lastTime' \in Nat
  BY <1>2, Observed DEF DiscoverOffer, Handles, Others
<1>4. a \in Addrs /\ entries[a] # NoEntry /\ ~Waits(entries[a])
  BY <1>1, OwnEntry DEF Waits
<1>5. Others'
  BY <1>2, <1>3 DEF Others, DiscoverOffer, prober, store, runtime
<1>6. Steady
  BY DEF DiscoverOffer, clocks, process, Steady
<1>7. DiscoverRequest(x, NoAddr) \in Request
  BY DiscoverRequestType
<1>8. entries' = [entries EXCEPT ![a].req = DiscoverRequest(x, NoAddr)]
  BY DEF DiscoverOffer
<1>9. UNCHANGED <<sequence, byID, bitmap, probes, rows, queue, results, storeErr, view, held>>
  BY DEF DiscoverOffer, store, runtime
<1> HIDE DEF a
<1> QED
  BY <1>1, <1>4, <1>5, <1>6, <1>7, <1>8, <1>9, TouchChange

\* The entry that waits for a probe.
LEMMA ProbingEntryOf ==
  ASSUME IInv, up, NEW f, NEW a \in Probing(f.tok)
  PROVE  /\ a \in Addrs /\ entries[a] # NoEntry /\ entries[a] \in Entry
         /\ entries[a].st = "probing" /\ Sound(entries[a]) /\ Lasting(entries[a])
         /\ ~Durable(entries[a]) /\ ~Waits(entries[a]) /\ byID[entries[a].id] = a
<1>1. /\ entries \in [Addrs -> Entry \cup {NoEntry}] /\ AllSound(entries)
      /\ Indexed(entries, byID)
  BY Served
<1>2. a \in Addrs /\ entries[a] # NoEntry /\ entries[a].st = "probing"
  BY DEF Probing
<1>3. entries[a] \in Entry /\ Sound(entries[a]) /\ Lasting(entries[a])
  BY <1>1, <1>2 DEF AllSound
<1>4. ~Durable(entries[a]) /\ ~Waits(entries[a]) /\ Claims(entries[a])
  BY <1>2, <1>3 DEF Sound, Waits, Claims
<1> QED
  BY <1>1, <1>2, <1>3, <1>4 DEF Indexed

\* The candidate answered no probe: it is offered.
LEMMA ProbeQuietStep ==
  ASSUME IInv, NEW f \in found, ProbeQuiet(f)
  PROVE  IInv'
<1>1. up
  BY DEF ProbeQuiet
<1>2. /\ Others /\ wall \in Nat /\ mono \in Nat /\ TypeOK /\ Clock
      /\ view = DurableLeases(entries)
  BY <1>1, Served
<1>3. lastTime' \in Nat
  BY <1>2, Observed DEF ProbeQuiet, Others
<1>4. PICK a \in Probing(f.tok) :
        entries' = [entries EXCEPT ![a] =
            Settle([entries[a] EXCEPT !.exp = wall + OfferTime, !.hold = wall + OfferTime,
                             !.texp = mono + OfferTime, !.thold = mono + OfferTime,
                             !.due = 0, !.tries = 0, !.req.rip = NoAddr], "offered")]
  BY DEF ProbeQuiet
<1> DEFINE v == entries[a]
           w == Settle([v EXCEPT !.exp = wall + OfferTime, !.hold = wall + OfferTime,
                             !.texp = mono + OfferTime, !.thold = mono + OfferTime,
                             !.due = 0, !.tries = 0, !.req.rip = NoAddr], "offered")
<1>5. /\ a \in Addrs /\ v # NoEntry /\ v \in Entry /\ v.st = "probing"
      /\ Sound(v) /\ Lasting(v) /\ ~Durable(v) /\ ~Waits(v)
  BY <1>1, ProbingEntryOf
<1>6. /\ w \in Entry /\ Sound(w) /\ Lasting(w)
      /\ w.id = v.id /\ w.st = "offered" /\ w.tok = NoToken /\ w.committed = v.committed
  BY <1>2, <1>5, OfferSound
<1>7. entries' = [entries EXCEPT ![a] = w]
  BY <1>4
<1> HIDE DEF w
<1>8. ~Waits(w) /\ Claims(v)
  BY <1>5, <1>6 DEF Waits, Claims
<1>9. /\ Books(entries', byID, bitmap, probes - 1, sequence)
      /\ InFlight(entries', queue, results, rows, storeErr)
      /\ Protected(entries', held)
      /\ DurableLeases(entries') = DurableLeases(entries)
  BY <1>1, <1>5, <1>6, <1>7, <1>8, LocalChange
<1>10. /\ Books(entries', byID', bitmap', probes', sequence')
       /\ InFlight(entries', queue', results', rows', storeErr')
       /\ Protected(entries', held')
       /\ view' = DurableLeases(entries')
  BY <1>2, <1>9 DEF ProbeQuiet, store, runtime
<1>11. Others'
  BY <1>2, <1>3 DEF Others, ProbeQuiet, store, runtime
<1>12. Steady
  BY DEF ProbeQuiet, clocks, process, Steady
<1> QED
  BY <1>1, <1>2, <1>10, <1>11, <1>12, Frame

\* An entry that is not durable is dropped.
LEMMA DropChange ==
  ASSUME IInv, up, NEW a \in Addrs, entries[a] # NoEntry, ~Waits(entries[a]),
         ~Durable(entries[a]),
         NEW p2, IF entries[a].st = "probing" THEN p2 = probes - 1 ELSE p2 = probes,
         NEW F, F = [entries EXCEPT ![a] = NoEntry]
  PROVE  /\ Books(F, Forget(byID, entries[a].id, a), Unmark(bitmap, a), p2, sequence)
         /\ InFlight(F, queue, results, rows, storeErr)
         /\ Protected(F, held)
         /\ DurableLeases(F) = DurableLeases(entries)
<1>1. /\ Books(entries, byID, bitmap, probes, sequence)
      /\ InFlight(entries, queue, results, rows, storeErr)
      /\ entries \in [Addrs -> Entry \cup {NoEntry}]
      /\ AllSound(entries) /\ Tokens(entries, sequence)
      /\ gen \in Generations /\ sequence \in Nat /\ Protected(entries, held)
      /\ queue \in Seq(Mutation) /\ results \in Seq(Completion)
  BY Served
<1>2. F \in [Addrs -> Entry \cup {NoEntry}] /\ F[a] = NoEntry
      /\ \A b \in Addrs \ {a} : F[b] = entries[b]
  BY <1>1
<1>3. Books(F, Forget(byID, entries[a].id, a), Unmark(bitmap, a), p2, sequence)
  BY <1>1, RemoveKeepsBooks
<1>4. \A b \in Addrs : CommittedAt(F, b) = CommittedAt(entries, b)
  BY <1>2 DEF CommittedAt, Durable
<1>5. /\ \A b \in Addrs : Busy(entries, b) => F[b] = entries[b]
      /\ \A b \in Addrs : Busy(F, b) => Busy(entries, b)
  BY <1>2 DEF Busy
<1>6. InFlight(F, queue, results, rows, storeErr)
  BY <1>1, <1>2, <1>4, <1>5, QuietInFlight
<1>7. Protected(F, held)
  BY <1>1, <1>2 DEF Protected
<1> QED
  BY <1>3, <1>4, <1>6, <1>7, DurableAt

\* The probe could not be relied on: the candidate is gone.
LEMMA ProbeFailsStep ==
  ASSUME IInv, NEW f \in found, ProbeFails(f)
  PROVE  IInv'
<1>1. up
  BY DEF ProbeFails
<1>2. Others /\ wall \in Nat /\ TypeOK /\ Clock /\ view = DurableLeases(entries)
  BY <1>1, Served
<1>3. lastTime' \in Nat
  BY <1>2, Observed DEF ProbeFails, Others
<1>4. PICK a \in Probing(f.tok) :
        /\ entries' = [entries EXCEPT ![a] = NoEntry]
        /\ byID' = Forget(byID, entries[a].id, a)
        /\ bitmap' = Unmark(bitmap, a)
        /\ probes' = probes - 1
  BY DEF ProbeFails
<1>5. /\ a \in Addrs /\ entries[a] # NoEntry /\ entries[a].st = "probing"
      /\ ~Durable(entries[a]) /\ ~Waits(entries[a])
  BY <1>1, ProbingEntryOf
<1>6. /\ Books(entries', byID', bitmap', probes', sequence)
      /\ InFlight(entries', queue, results, rows, storeErr)
      /\ Protected(entries', held)
      /\ DurableLeases(entries') = DurableLeases(entries)
  BY <1>1, <1>4, <1>5, DropChange
<1>7. /\ Books(entries', byID', bitmap', probes', sequence')
      /\ InFlight(entries', queue', results', rows', storeErr')
      /\ Protected(entries', held')
      /\ view' = DurableLeases(entries')
  BY <1>2, <1>6 DEF ProbeFails, store, runtime
<1>8. Others'
  BY <1>2, <1>3 DEF Others, ProbeFails, store, runtime
<1>9. Steady
  BY DEF ProbeFails, clocks, process, Steady
<1> QED
  BY <1>1, <1>2, <1>7, <1>8, <1>9, Frame

\* DISCOVER of an unknown client.
LEMMA DiscoverNewStep ==
  ASSUME IInv, NEW i \in Ids, NEW x \in XIDs, NEW hint \in Hints, DiscoverNew(i, x, hint)
  PROVE  IInv'
<1>1. /\ up /\ byID[i] = NoAddr
      /\ Discover(entries, byID, bitmap, probes, 0, i, DiscoverRequest(x, hint), 1)
  BY DEF DiscoverNew, Handles, Serving
<1>2. /\ Others /\ wall \in Nat /\ TypeOK /\ Clock /\ view = DurableLeases(entries)
      /\ Books(entries, byID, bitmap, probes, sequence) /\ Protected(entries, held)
      /\ InFlight(entries, queue, results, rows, storeErr)
      /\ queue \in Seq(Mutation) /\ results \in Seq(Completion) /\ sequence \in Nat
  BY <1>1, Served
<1>3. lastTime' \in Nat
  BY <1>2, Observed DEF DiscoverNew, Handles, Others
<1>4. DiscoverRequest(x, hint) \in Request
  BY DiscoverRequestType
<1>5. sequence + 0 = sequence /\ 0 \in Nat /\ 1 \in Nat
  BY <1>2
<1>6. Books(entries, byID, bitmap, probes, sequence + 0)
  BY <1>2, <1>5
<1>7. /\ Books(entries', byID', bitmap', probes', sequence')
      /\ InFlight(entries', queue, results, rows, storeErr)
      /\ Protected(entries', held)
      /\ DurableLeases(entries') = DurableLeases(entries)
      /\ jobs' \subseteq [tok : Token, due : Nat] /\ sequence' \in Nat
  BY <1>1, <1>2, <1>4, <1>5, <1>6, DiscoverStep
<1>8. /\ InFlight(entries', queue', results', rows', storeErr')
      /\ Protected(entries', held')
      /\ view' = DurableLeases(entries')
  BY <1>2, <1>7 DEF DiscoverNew, store, runtime
<1>9. Others'
  BY <1>2, <1>3, <1>7 DEF Others, DiscoverNew, store, runtime
<1>10. Steady
  BY DEF DiscoverNew, clocks, process, Steady
<1> QED
  BY <1>1, <1>2, <1>7, <1>8, <1>9, <1>10, Frame
-----------------------------------------------------------------------------
(* Actions that send the write of one entry.                               *)

\* A put of a clean entry takes nothing from its client.
LEMMA SendProtected ==
  ASSUME NEW E \in [Addrs -> Entry \cup {NoEntry}], NEW a \in Addrs, E[a] # NoEntry,
         NEW w, NEW tok \in Token, Sends(E[a], w, tok),
         NEW H \in [Addrs -> [Ids -> Nat]], Protected(E, H), mono \in Nat,
         (~w.dirty /\ w.mut.kind = "put") \/ (Anchored => \A i \in Ids : ~(H[a][i] > mono)),
         NEW F, F = [E EXCEPT ![a] = Dispatched(w)]
  PROVE  Protected(F, H)
<1> DEFINE d == Dispatched(w)
<1>1. /\ d \in Entry /\ d.id = E[a].id /\ d.committed = E[a].committed
      /\ d.dirty = w.dirty /\ d.thold >= E[a].thold
      /\ Admits => d = w
      /\ ~Admits => ~Waits(d)
  BY DispatchSound
<1>2. d # NoEntry /\ d.thold \in Int /\ E[a].thold \in Int
  BY <1>1, EntryFields
<1>3. F[a] = d /\ \A b \in Addrs \ {a} : F[b] = E[b]
  OBVIOUS
<1>4. Durable(d) <=> Durable(E[a])
  BY <1>1 DEF Durable
<1> HIDE DEF d
<1> SUFFICES ASSUME Anchored, NEW b \in Addrs, NEW j \in Ids, H[b][j] > mono
             PROVE  /\ F[b] # NoEntry /\ F[b].id = j /\ H[b][j] <= F[b].thold
                    /\ Durable(F[b]) /\ ~F[b].dirty /\ ~(Waits(F[b]) /\ F[b].mut.kind = "delete")
  BY DEF Protected
<1>5. /\ E[b] # NoEntry /\ E[b].id = j /\ H[b][j] <= E[b].thold
      /\ Durable(E[b]) /\ ~E[b].dirty /\ ~(Waits(E[b]) /\ E[b].mut.kind = "delete")
  BY DEF Protected
<1>6. CASE b # a
  BY <1>3, <1>5, <1>6
<1>7. CASE b = a
  <2>1. ~w.dirty /\ w.mut.kind = "put"
    BY <1>7
  <2>2. ~(Waits(d) /\ d.mut.kind = "delete")
    BY <1>1, <2>1
  <2>3. H[a][j] \in Nat
    OBVIOUS
  <2>4. H[a][j] <= d.thold
    BY <1>1, <1>2, <1>5, <1>7, <2>3
  <2> QED
    BY <1>1, <1>2, <1>3, <1>4, <1>5, <1>7, <2>1, <2>2, <2>4
<1> QED
  BY <1>6, <1>7

\* The write of one entry is sent, or fails at once.
LEMMA SendStep ==
  ASSUME IInv, up, Steady, NEW a \in Addrs, entries[a] # NoEntry, ~Waits(entries[a]),
         entries[a].st # "probing",
         NEW w, Sends(entries[a], w, NextToken(1)),
         byID' = byID \/ byID' = Forget(byID, entries[a].id, a), Claims(w) => byID'[w.id] = a,
         entries' = [entries EXCEPT ![a] = Dispatched(w)], queue' = Enqueued(a, w),
         sequence' = sequence + 1,
         UNCHANGED <<bitmap, probes, jobs, found, rows, lastKnown, results, storeErr,
                     applying, view>>,
         lastTime' \in Nat, held' \in [Addrs -> [Ids -> Nat]], Protected(entries, held'),
         (~w.dirty /\ w.mut.kind = "put") \/ (Anchored => \A i \in Ids : ~(held'[a][i] > mono))
  PROVE  IInv'
<1>1. /\ TypeOK /\ Clock /\ Engine /\ Flight /\ Others /\ view = DurableLeases(entries)
      /\ entries \in [Addrs -> Entry \cup {NoEntry}]
      /\ gen \in Generations /\ sequence \in Nat /\ mono \in Nat
  BY Served
<1>2. NextToken(1) \in Token
  BY <1>1, NextTokenType
<1>3. /\ Books(entries', byID', bitmap, probes, sequence + 1)
      /\ InFlight(entries', queue', results, rows, storeErr)
      /\ queue' \in Seq(Mutation) /\ Len(queue') <= QueueCap
      /\ DurableLeases(entries') = DurableLeases(entries)
  <2>1. /\ Books(entries', byID', bitmap, probes, sequence + 1)
        /\ InFlight(entries', queue', results, rows, storeErr)
        /\ queue' \in Seq(Mutation) /\ Len(queue') <= QueueCap
    BY ONLY <1>1, DispatchStep, a \in Addrs, entries[a] # NoEntry, ~Waits(entries[a]),
            entries[a].st # "probing", Sends(entries[a], w, NextToken(1)),
            byID' = byID \/ byID' = Forget(byID, entries[a].id, a), Claims(w) => byID'[w.id] = a,
            entries' = [entries EXCEPT ![a] = Dispatched(w)], queue' = Enqueued(a, w)
  <2>2. DurableLeases(entries') = DurableLeases(entries)
    BY <1>1, <1>2, DispatchCommitted
  <2> QED
    BY <2>1, <2>2
<1>4. Protected(entries', held')
  BY <1>1, <1>2, SendProtected
<1>5. view' = DurableLeases(entries')
  BY <1>1, <1>3
<1>6. Others'
  BY <1>1, <1>3 DEF Others
<1>7. /\ Books(entries', byID', bitmap', probes', sequence')
      /\ InFlight(entries', queue', results', rows', storeErr')
  BY <1>3
<1> QED
  BY <1>1, <1>4, <1>5, <1>6, <1>7, Frame

\* A client gives an address up.
LEMMA DropProtected ==
  ASSUME NEW E, held \in [Addrs -> [Ids -> Nat]], mono \in Nat, Protected(E, held),
         NEW a \in Addrs, NEW i \in Ids, E[a].id = i, Drop(a, i)
  PROVE  /\ held' \in [Addrs -> [Ids -> Nat]] /\ Protected(E, held')
         /\ Anchored => \A j \in Ids : ~(held'[a][j] > mono)
<1>1. held' = [held EXCEPT ![a][i] = 0]
  BY DEF Drop
<1>2. /\ held' \in [Addrs -> [Ids -> Nat]] /\ held'[a][i] = 0
      /\ \A b \in Addrs : \A j \in Ids : held'[b][j] = held[b][j] \/ held'[b][j] = 0
  BY <1>1
<1>3. \A b \in Addrs : \A j \in Ids : held'[b][j] > mono => held'[b][j] = held[b][j]
  BY <1>2
<1>4. Protected(E, held')
  BY <1>3 DEF Protected
<1>5. ASSUME Anchored, NEW j \in Ids, held'[a][j] > mono PROVE FALSE
  <2>1. E[a].id = j
    BY <1>4, <1>5 DEF Protected
  <2> QED
    BY <1>2, <1>5, <2>1
<1> QED
  BY <1>2, <1>4, <1>5

\* A REQUEST that is granted: the write is sent, the ACK waits for it.
LEMMA RequestGrantStep ==
  ASSUME IInv, NEW i \in Ids, NEW x \in XIDs, NEW a \in Addrs, NEW phase \in Phases,
         RequestGrant(i, x, a, phase)
  PROVE  IInv'
<1> DEFINE v == entries[a]
           r == RequestFor(x, a, phase)
           w == Grant(v, Cfg.lease, "bound", r, NextToken(1))
<1>1. up /\ byID[i] = a /\ (v.st = "bound" \/ v.st = "offered") /\ a # NoAddr
  BY DhcpAssumption DEF RequestGrant, Grants, Handles, Serving
<1>2. /\ Others /\ Protected(entries, held) /\ wall \in Nat /\ mono \in Nat
      /\ gen \in Generations /\ sequence \in Nat
  BY <1>1, Served
<1>3. v \in Entry /\ v # NoEntry /\ v.id = i /\ Sound(v) /\ Lasting(v)
  BY <1>1, OwnEntry
<1>4. lastTime' \in Nat
  BY <1>2, Observed DEF RequestGrant, Grants, Handles, Others
<1>5. NextToken(1) \in Token
  BY <1>2, NextTokenType
<1>6. r \in Request /\ Cfg.lease \in Nat
  <2>1. r \in Request
    BY DEF RequestFor, Request
  <2> QED
    BY <1>2, <2>1, SettingsType DEF Cfg
<1>7. /\ ~Waits(v) /\ ~v.dirty /\ v.exp <= v.hold /\ v.texp <= v.thold
      /\ Durable(v) => SoundRow(v)
      /\ \/ v.st = "offered" /\ ~Durable(v)
         \/ v.st = "bound" /\ Durable(v) /\ v.committed.st = "bound"
  <2> HIDE DEF v
  <2> QED
    BY <1>1, <1>3 DEF Sound, Waits
<1>8. /\ Sends(v, w, NextToken(1))
      /\ w.dirty = v.dirty /\ w.mut.kind = "put"
  <2> HIDE DEF v, r
  <2> QED
    BY <1>2, <1>3, <1>5, <1>6, <1>7, GrantSends
<1>9. /\ entries' = [entries EXCEPT ![a] = Dispatched(w)] /\ queue' = Enqueued(a, w)
      /\ sequence' = sequence + 1 /\ byID' = byID /\ held' = held
      /\ UNCHANGED <<bitmap, probes, jobs, found, rows, lastKnown, results, storeErr,
                     applying, view>>
  BY DEF RequestGrant, prober, runtime
<1>10. Steady
  BY DEF RequestGrant, clocks, process, Steady
<1> HIDE DEF w
<1>11. byID'[w.id] = a
  BY <1>1, <1>3, <1>8, <1>9 DEF Sends
<1>12. held' \in [Addrs -> [Ids -> Nat]] /\ Protected(entries, held')
  BY <1>2, <1>9 DEF Others
<1> QED
  BY <1>1, <1>3, <1>4, <1>7, <1>8, <1>9, <1>10, <1>11, <1>12, SendStep

\* RELEASE: the delete is sent.
LEMMA ReleaseStep ==
  ASSUME IInv, NEW i \in Ids, NEW a \in Addrs, Release(i, a)
  PROVE  IInv'
<1> DEFINE v == entries[a]
           r == ReleaseRequest(a)
           w == Mutate(v, "delete", v.committed, v.texp, v.thold, r, NextToken(1))
<1>1. up /\ byID[i] = a /\ v.st = "bound" /\ a # NoAddr
  BY DhcpAssumption DEF Release, Handles, Serving
<1>2. /\ Others /\ Protected(entries, held) /\ wall \in Nat /\ mono \in Nat
      /\ gen \in Generations /\ sequence \in Nat
  BY <1>1, Served
<1>3. v \in Entry /\ v # NoEntry /\ v.id = i /\ Sound(v) /\ Lasting(v)
  BY <1>1, OwnEntry
<1>4. lastTime' \in Nat
  BY <1>2, Observed DEF Release, Handles, Others
<1>5. NextToken(1) \in Token /\ r \in Request
  <2>1. r \in Request
    BY DEF ReleaseRequest, Request
  <2> QED
    BY <1>2, <2>1, NextTokenType
<1>6. ~Waits(v) /\ ~v.dirty /\ Durable(v) /\ Claims(v) /\ v.st \in {"bound", "quarantined"}
  BY <1>1, <1>3 DEF Sound, Waits, Claims
<1>7. Sends(v, w, NextToken(1))
  <2> HIDE DEF v, r
  <2> QED
    BY <1>2, <1>3, <1>5, <1>6, DeleteSends
<1>8. /\ entries' = [entries EXCEPT ![a] = Dispatched(w)] /\ queue' = Enqueued(a, w)
      /\ sequence' = sequence + 1 /\ byID' = byID /\ Drop(a, i)
      /\ UNCHANGED <<bitmap, probes, jobs, found, rows, lastKnown, results, storeErr,
                     applying, view>>
  BY DEF Release, prober, runtime
<1>9. Steady
  BY DEF Release, clocks, process, Steady
<1> HIDE DEF w
<1>10. byID'[w.id] = a
  BY <1>1, <1>3, <1>7, <1>8 DEF Sends
<1>11. /\ held' \in [Addrs -> [Ids -> Nat]] /\ Protected(entries, held')
       /\ Anchored => \A j \in Ids : ~(held'[a][j] > mono)
  BY <1>2, <1>3, <1>8, DropProtected DEF Others
<1> QED
  BY <1>1, <1>3, <1>4, <1>6, <1>7, <1>8, <1>9, <1>10, <1>11, SendStep

\* The index after a quarantine.
LEMMA QuarantineIndexed ==
  ASSUME NEW v, NEW a, byID \in [Ids -> Addrs \cup {NoAddr}], v.id \in Ids
  PROVE  /\ QuarantineIndex(v, a) = byID \/ QuarantineIndex(v, a) = Forget(byID, v.id, a)
         /\ Durable(v) /\ v.committed.st = "bound" => QuarantineIndex(v, a) = byID
         /\ ~Durable(v) /\ byID[v.id] = a => QuarantineIndex(v, a)[v.id] = NoAddr
BY DEF QuarantineIndex, Forget

\* DECLINE: the quarantine is sent.
LEMMA DeclineStep ==
  ASSUME IInv, NEW i \in Ids, NEW a \in Addrs, Decline(i, a)
  PROVE  IInv'
<1> DEFINE v == entries[a]
           w == Quarantine(v, NextToken(1))
<1>1. up /\ byID[i] = a /\ v.st \in {"offered", "bound"} /\ a # NoAddr
  BY DhcpAssumption DEF Decline, Handles, Serving
<1>2. /\ Others /\ Protected(entries, held) /\ wall \in Nat /\ mono \in Nat
      /\ gen \in Generations /\ sequence \in Nat /\ byID \in [Ids -> Addrs \cup {NoAddr}]
  BY <1>1, Served
<1>3. v \in Entry /\ v # NoEntry /\ v.id = i /\ Sound(v) /\ Lasting(v)
  BY <1>1, OwnEntry
<1>4. lastTime' \in Nat
  BY <1>2, Observed DEF Decline, Handles, Others
<1>5. NextToken(1) \in Token
  BY <1>2, NextTokenType
<1>6. ~Waits(v) /\ v.st # "probing"
  BY <1>1 DEF Waits
<1>7. Sends(v, w, NextToken(1)) /\ (Claims(w) => Durable(v) /\ v.committed.st = "bound")
  <2> HIDE DEF v
  <2> QED
    BY <1>2, <1>3, <1>5, <1>6, QuarantineSends
<1>8. /\ entries' = [entries EXCEPT ![a] = Dispatched(w)] /\ queue' = Enqueued(a, w)
      /\ sequence' = sequence + 1 /\ byID' = QuarantineIndex(v, a) /\ Drop(a, i)
      /\ UNCHANGED <<bitmap, probes, jobs, found, rows, lastKnown, results, storeErr,
                     applying, view>>
  BY DEF Decline, prober, runtime
<1>9. Steady
  BY DEF Decline, clocks, process, Steady
<1> HIDE DEF w
<1>10. /\ byID' = byID \/ byID' = Forget(byID, v.id, a)
       /\ Claims(w) => byID'[w.id] = a
  <2>1. /\ byID' = byID \/ byID' = Forget(byID, v.id, a)
        /\ Durable(v) /\ v.committed.st = "bound" => byID' = byID
    BY <1>2, <1>3, <1>8, QuarantineIndexed
  <2> QED
    BY <1>1, <1>3, <1>7, <2>1 DEF Sends
<1>11. /\ held' \in [Addrs -> [Ids -> Nat]] /\ Protected(entries, held')
       /\ Anchored => \A j \in Ids : ~(held'[a][j] > mono)
  BY <1>2, <1>3, <1>8, DropProtected DEF Others
<1> QED
  BY <1>1, <1>3, <1>4, <1>6, <1>7, <1>8, <1>9, <1>10, <1>11, SendStep

\* DISCOVER of a client that has to move: its offer is dropped, or its lease is
\* quarantined durably first.
LEMMA DiscoverMovedStep ==
  ASSUME IInv, NEW i \in Ids, NEW x \in XIDs, NEW hint \in Hints, DiscoverMoved(i, x, hint)
  PROVE  IInv'
<1> DEFINE a == byID[i]
           v == entries[a]
           r == DiscoverRequest(x, hint)
           w == Mutate(v, "put", LeaseOf(v, "quarantined"), v.texp, v.thold, r, NextToken(1))
<1>1. up /\ a # NoAddr /\ v.st \in {"offered", "bound"}
  BY DEF DiscoverMoved, Handles, Serving
<1>2. /\ Others /\ Protected(entries, held) /\ wall \in Nat /\ mono \in Nat /\ TypeOK /\ Clock
      /\ gen \in Generations /\ sequence \in Nat /\ byID \in [Ids -> Addrs \cup {NoAddr}]
      /\ view = DurableLeases(entries) /\ queue \in Seq(Mutation)
      /\ results \in Seq(Completion)
  BY <1>1, Served
<1>3. a \in Addrs /\ v \in Entry /\ v # NoEntry /\ v.id = i /\ Sound(v) /\ Lasting(v)
  BY <1>1, OwnEntry
<1>4. lastTime' \in Nat
  BY <1>2, Observed DEF DiscoverMoved, Handles, Others
<1>5. NextToken(1) \in Token /\ r \in Request
  BY <1>2, NextTokenType, DiscoverRequestType
<1>6. ~Waits(v) /\ v.st # "probing"
  BY <1>1 DEF Waits
<1>7. Steady
  BY DEF DiscoverMoved, clocks, process, Steady
<1>8. \/ /\ ~Durable(v)
         /\ Discover([entries EXCEPT ![a] = NoEntry], Forget(byID, i, a),
                     Unmark(bitmap, a), probes, 0, i, r, 1)
         /\ queue' = queue
      \/ /\ Durable(v)
         /\ entries' = [entries EXCEPT ![a] = Dispatched(w)]
         /\ queue' = Enqueued(a, w)
         /\ sequence' = sequence + 1
         /\ UNCHANGED <<byID, bitmap, probes, jobs>>
  BY DEF DiscoverMoved
<1>9. UNCHANGED <<found, rows, lastKnown, results, storeErr, applying, view, held>>
  BY DEF DiscoverMoved, runtime
<1>10. CASE ~Durable(v)
  <2> DEFINE E == [entries EXCEPT ![a] = NoEntry]
             I == Forget(byID, i, a)
  <2>1. /\ Discover(E, I, Unmark(bitmap, a), probes, 0, i, r, 1) /\ queue' = queue
    BY <1>8, <1>10
  <2>2. IF v.st = "probing" THEN probes = probes - 1 ELSE probes = probes
    BY <1>6
  <2>3. E = [entries EXCEPT ![a] = NoEntry] /\ I = Forget(byID, v.id, a)
    BY <1>3
  <2>4. I[i] = NoAddr
    BY <1>2 DEF Forget
  <2> HIDE DEF E, I
  <2>5. /\ Books(E, I, Unmark(bitmap, a), probes, sequence)
        /\ InFlight(E, queue, results, rows, storeErr)
        /\ Protected(E, held)
        /\ DurableLeases(E) = DurableLeases(entries)
    BY <1>1, <1>3, <1>6, <1>10, <2>2, <2>3, DropChange
  <2>6. sequence + 0 = sequence /\ 0 \in Nat /\ 1 \in Nat
    BY <1>2
  <2>7. Books(E, I, Unmark(bitmap, a), probes, sequence + 0)
    BY <2>5, <2>6
  <2> HIDE DEF a, r, v
  <2>8. /\ Books(entries', byID', bitmap', probes', sequence')
        /\ InFlight(entries', queue, results, rows, storeErr)
        /\ Protected(entries', held)
        /\ DurableLeases(entries') = DurableLeases(E)
        /\ jobs' \subseteq [tok : Token, due : Nat] /\ sequence' \in Nat
    BY <1>2, <1>5, <2>1, <2>4, <2>5, <2>6, <2>7, DiscoverStep
  <2>9. /\ InFlight(entries', queue', results', rows', storeErr')
        /\ Protected(entries', held') /\ view' = DurableLeases(entries')
    BY <1>2, <1>9, <2>1, <2>5, <2>8
  <2>10. Others'
    BY <1>2, <1>4, <1>9, <2>1, <2>8 DEF Others
  <2> QED
    BY <1>1, <1>2, <1>7, <2>8, <2>9, <2>10, Frame
<1>11. CASE Durable(v)
  <2>1. Sends(v, w, NextToken(1)) /\ ~w.dirty /\ w.mut.kind = "put"
    <3> HIDE DEF v, r
    <3> QED
      BY <1>1, <1>2, <1>3, <1>5, <1>11, MigrateSends
  <2>2. /\ entries' = [entries EXCEPT ![a] = Dispatched(w)]
        /\ queue' = Enqueued(a, w)
        /\ sequence' = sequence + 1
        /\ UNCHANGED <<byID, bitmap, probes, jobs>>
    BY <1>8, <1>11
  <2> HIDE DEF w
  <2>3. byID' = byID /\ byID'[w.id] = a
    BY <1>3, <2>1, <2>2 DEF Sends
  <2>4. held' \in [Addrs -> [Ids -> Nat]] /\ Protected(entries, held')
    BY <1>2, <1>9 DEF Others
  <2>5. Sends(entries[a], w, NextToken(1)) /\ entries[a] # NoEntry /\ ~Waits(entries[a])
        /\ entries[a].st # "probing"
    BY <1>3, <1>6, <2>1
  <2> HIDE DEF a, v
  <2> QED
    BY <1>1, <1>3, <1>4, <1>7, <1>9, <2>1, <2>2, <2>3, <2>4, <2>5, SendStep
<1> QED
  BY <1>10, <1>11

\* The candidate is in use: it is quarantined, and another one is tried.
LEMMA ProbeConflictStep ==
  ASSUME IInv, NEW f \in found, ProbeConflict(f)
  PROVE  IInv'
<1>1. up
  BY DEF ProbeConflict
<1>2. /\ Others /\ Protected(entries, held) /\ wall \in Nat /\ mono \in Nat /\ TypeOK /\ Clock
      /\ gen \in Generations /\ sequence \in Nat /\ byID \in [Ids -> Addrs \cup {NoAddr}]
      /\ view = DurableLeases(entries) /\ Engine /\ Flight /\ results \in Seq(Completion)
      /\ entries \in [Addrs -> Entry \cup {NoEntry}]
  BY <1>1, Served
<1>3. lastTime' \in Nat
  BY <1>2, Observed DEF ProbeConflict, Others
<1>4. PICK a \in Probing(f.tok) :
        /\ queue' = Enqueued(a, Quarantine(entries[a], NextToken(1)))
        /\ Discover([entries EXCEPT ![a] = Dispatched(Quarantine(entries[a], NextToken(1)))],
                    QuarantineIndex(entries[a], a), bitmap, probes - 1, 1,
                    entries[a].id, entries[a].req, entries[a].tries + 1)
  BY DEF ProbeConflict
<1> DEFINE v == entries[a]
           w == Quarantine(v, NextToken(1))
           E == [entries EXCEPT ![a] = Dispatched(w)]
           I == QuarantineIndex(v, a)
<1>5. /\ a \in Addrs /\ v # NoEntry /\ v \in Entry /\ v.st = "probing"
      /\ Sound(v) /\ Lasting(v) /\ ~Durable(v) /\ ~Waits(v) /\ byID[v.id] = a
  BY <1>1, ProbingEntryOf
<1>6. NextToken(1) \in Token
  BY <1>2, NextTokenType
<1>7. v.id \in Ids /\ v.req \in Request /\ v.tries + 1 \in Nat
  BY <1>5, EntryFields DEF MaxTries
<1>8. Sends(v, w, NextToken(1)) /\ ~Claims(w)
  <2> HIDE DEF v
  <2> QED
    BY <1>2, <1>5, <1>6, QuarantineSends
<1>9. /\ I = byID \/ I = Forget(byID, v.id, a)
      /\ I[v.id] = NoAddr
  BY <1>2, <1>5, <1>7, QuarantineIndexed
<1>10. queue' = Enqueued(a, w) /\ E = [entries EXCEPT ![a] = Dispatched(w)]
       /\ Discover(E, I, bitmap, probes - 1, 1, v.id, v.req, v.tries + 1)
  BY <1>4
<1> HIDE DEF w, E, I
<1>11. /\ v.st = "probing" => probes - 1 = probes - 1
       /\ v.st # "probing" => probes - 1 = probes
  BY <1>5
<1>12. /\ Books(E, I, bitmap, probes - 1, sequence + 1)
       /\ InFlight(E, queue', results, rows, storeErr)
       /\ queue' \in Seq(Mutation) /\ Len(queue') <= QueueCap
  BY <1>2, <1>5, <1>8, <1>9, <1>10, <1>11, DispatchStep
<1>20. DurableLeases(E) = DurableLeases(entries)
  BY <1>2, <1>5, <1>6, <1>8, <1>10, DispatchCommitted
<1>13. Anchored => \A i \in Ids : ~(held[a][i] > mono)
  BY <1>2, <1>5 DEF Protected
<1>14. Protected(E, held)
  BY <1>2, <1>5, <1>6, <1>8, <1>10, <1>13, SendProtected DEF Others
<1>15. /\ Books(entries', byID', bitmap', probes', sequence')
       /\ InFlight(entries', queue', results, rows, storeErr)
       /\ Protected(entries', held)
       /\ DurableLeases(entries') = DurableLeases(E)
       /\ jobs' \subseteq [tok : Token, due : Nat] /\ sequence' \in Nat
  <2> HIDE DEF v
  <2>1. 1 \in Nat
    OBVIOUS
  <2> QED
    BY <1>2, <1>7, <1>9, <1>10, <1>12, <1>14, <2>1, DiscoverStep
<1>16. UNCHANGED <<rows, lastKnown, results, storeErr, applying, view, held>>
       /\ found' \subseteq found
  BY DEF ProbeConflict, runtime
<1>17. /\ InFlight(entries', queue', results', rows', storeErr')
       /\ Protected(entries', held') /\ view' = DurableLeases(entries')
  BY <1>2, <1>20, <1>15, <1>16
<1>18. Others'
  BY <1>2, <1>3, <1>12, <1>15, <1>16 DEF Others
<1>19. Steady
  BY DEF ProbeConflict, clocks, process, Steady
<1> QED
  BY <1>1, <1>2, <1>15, <1>17, <1>18, <1>19, Frame
-----------------------------------------------------------------------------
(* The lease writer.                                                       *)

\* The table has rows, or nothing, whatever batches went through.
LEMMA WrittenType ==
  ASSUME NEW E \in [Addrs -> Entry \cup {NoEntry}], AllSound(E),
         NEW Q, NEW R, NEW T, Written(E, Q, R, T)
  PROVE  \A a \in Addrs : T[a] \in Row \cup {NoRow}
<1> SUFFICES ASSUME NEW a \in Addrs, T[a] # NoRow PROVE T[a] \in Row
  OBVIOUS
<1>1. T[a] = CommittedAt(E, a) \/ (Busy(E, a) /\ T[a] = Effect(E[a].mut))
  BY DEF Written
<1> DEFINE val == T[a]
<1>2. val # NoRow /\ (val = CommittedAt(E, a) \/ (Busy(E, a) /\ val = Effect(E[a].mut)))
  BY <1>1
<1> HIDE DEF val
<1>3. val \in Row
  BY <1>2, ValueOf
<1> QED
  BY <1>3 DEF val

\* The completions of a batch join the earlier ones.
LEMMA ResultsType ==
  ASSUME NEW Q \in Seq(Mutation), NEW R \in Seq(Completion), NEW k \in 1..Len(Q),
         NEW ok \in BOOLEAN
  PROVE  R \o Completions(SubSeq(Q, 1, k), ok) \in Seq(Completion)
<1> DEFINE C == Completions(SubSeq(Q, 1, k), ok)
<1>1. C = Completions(SubSeq(Q, 1, k), ok)
  OBVIOUS
<1> HIDE DEF C
<1>2. C \in Seq(Completion)
  BY <1>1, CompletionsOf
<1>3. R \o C \in Seq(Completion)
  BY <1>2, ConcatProperties
<1> QED
  BY <1>1, <1>3

\* A batch is decided or lost: the engine's tables are as they were.
LEMMA StoreChange ==
  ASSUME IInv, up, Steady, NEW k \in 1..Len(queue),
         queue' = SubSeq(queue, k + 1, Len(queue)),
         InFlight(entries, queue', results', rows', storeErr'),
         rows' = rows \/ rows' = After(rows, BatchOf(k), k),
         results' \in Seq(Completion), storeErr' \in {"none", "failed", "uncertain"},
         lastKnown' \in Nat,
         UNCHANGED <<engine, prober, runtime, held>>
  PROVE  IInv'
<1>1. /\ TypeOK /\ Clock /\ Others /\ view = DurableLeases(entries) /\ Protected(entries, held)
      /\ Books(entries, byID, bitmap, probes, sequence)
      /\ entries \in [Addrs -> Entry \cup {NoEntry}] /\ AllSound(entries)
      /\ queue \in Seq(Mutation)
  BY Served
<1>2. /\ entries' = entries /\ byID' = byID /\ bitmap' = bitmap /\ probes' = probes
      /\ sequence' = sequence /\ lastTime' = lastTime /\ jobs' = jobs /\ found' = found
      /\ applying' = applying /\ view' = view /\ held' = held
  BY DEF engine, prober, runtime
<1>3. queue' \in Seq(Mutation) /\ Len(queue') <= QueueCap
  <2>1. queue' \in Seq(Mutation) /\ Len(queue') = Len(queue) - k
    BY <1>1, RestOfQueue
  <2>2. Len(queue) \in Nat /\ QueueCap \in Nat /\ Len(queue) <= QueueCap
    BY <1>1, LenProperties, DhcpAssumption DEF Others
  <2> QED
    BY <2>1, <2>2
<1>4. rows' \in [Addrs -> Row \cup {NoRow}]
  <2>1. Written(entries, queue', results', rows')
    BY DEF InFlight
  <2>2. \A a \in Addrs : rows'[a] \in Row \cup {NoRow}
    BY <1>1, <2>1, WrittenType
  <2>3. CASE rows' = rows
    BY <1>1, <2>3 DEF Others
  <2>4. CASE rows' = After(rows, BatchOf(k), k)
    <3>1. rows' = [a \in Addrs |-> rows'[a]]
      BY <2>4 DEF After
    <3> QED
      BY <2>2, <3>1
  <2> QED
    BY <2>3, <2>4
<1>5. Others'
  BY <1>1, <1>2, <1>3, <1>4 DEF Others, Completion
<1>6. /\ Books(entries', byID', bitmap', probes', sequence')
      /\ InFlight(entries', queue', results', rows', storeErr')
      /\ Protected(entries', held') /\ view' = DurableLeases(entries')
  BY <1>1, <1>2
<1> QED
  BY <1>1, <1>5, <1>6, Frame

\* A transaction of the lease writer that succeeds.
LEMMA StoreCommitStep ==
  ASSUME IInv, NEW k \in Batches, NEW ok \in BOOLEAN, StoreCommit(k, ok)
  PROVE  IInv'
<1>1. /\ up /\ rows' = After(rows, BatchOf(k), k) /\ lastKnown' = wall
      /\ queue' = SubSeq(queue, k + 1, Len(queue))
      /\ results' = results \o Completions(BatchOf(k), TRUE)
      /\ storeErr = "none" /\ (storeErr' = "none" \/ storeErr' = "failed")
      /\ UNCHANGED <<clocks, process, engine, prober, runtime, held>>
  BY DEF StoreCommit
<1>2. /\ entries \in [Addrs -> Entry \cup {NoEntry}] /\ AllSound(entries)
      /\ Tokens(entries, sequence) /\ sequence \in Nat /\ wall \in Nat
      /\ queue \in Seq(Mutation) /\ results \in Seq(Completion)
      /\ InFlight(entries, queue, results, rows, storeErr)
  BY <1>1, Served
<1>3. k \in 1..Len(queue)
  BY DEF Batches
<1>4. Carried(entries, queue, results) /\ BatchOf(k) = SubSeq(queue, 1, k)
  BY <1>2 DEF InFlight, BatchOf
<1>5. Took(entries, queue, k, rows, rows', TRUE)
  BY <1>1, <1>2, <1>3, <1>4, BatchTook
<1>6. InFlight(entries, queue', results', rows', storeErr')
  BY <1>1, <1>2, <1>3, <1>4, <1>5, BatchInFlight
<1>7. results' \in Seq(Completion)
  BY <1>1, <1>2, <1>3, <1>4, ResultsType
<1>8. Steady
  BY <1>1 DEF clocks, process, engine, Steady
<1> QED
  BY <1>1, <1>2, <1>3, <1>6, <1>7, <1>8, StoreChange

\* A transaction that certainly did not happen.
LEMMA StoreRejectStep ==
  ASSUME IInv, NEW k \in Batches, StoreReject(k)
  PROVE  IInv'
<1>1. /\ up /\ rows' = rows /\ lastKnown' = lastKnown
      /\ queue' = SubSeq(queue, k + 1, Len(queue))
      /\ results' = results \o Completions(BatchOf(k), FALSE)
      /\ storeErr' = IF storeErr = "none" THEN "failed" ELSE storeErr
      /\ UNCHANGED <<clocks, process, engine, prober, runtime, held>>
  BY DEF StoreReject
<1>2. /\ entries \in [Addrs -> Entry \cup {NoEntry}] /\ AllSound(entries) /\ Others
      /\ Tokens(entries, sequence) /\ sequence \in Nat
      /\ queue \in Seq(Mutation) /\ results \in Seq(Completion)
      /\ InFlight(entries, queue, results, rows, storeErr)
  BY <1>1, Served
<1>3. k \in 1..Len(queue)
  BY DEF Batches
<1>4. Carried(entries, queue, results) /\ BatchOf(k) = SubSeq(queue, 1, k)
  BY <1>2 DEF InFlight, BatchOf
<1>5. Took(entries, queue, k, rows, rows', FALSE)
  BY <1>1, <1>2, <1>3, <1>4, BatchTook
<1>6. storeErr' # "none" /\ storeErr' \in {"none", "failed", "uncertain"} /\ lastKnown' \in Nat
  BY <1>1, <1>2 DEF Others
<1>7. InFlight(entries, queue', results', rows', storeErr')
  BY <1>1, <1>2, <1>3, <1>4, <1>5, <1>6, BatchInFlight
<1>8. results' \in Seq(Completion)
  BY <1>1, <1>2, <1>3, <1>4, ResultsType
<1>9. Steady
  BY <1>1 DEF clocks, process, engine, Steady
<1> QED
  BY <1>1, <1>3, <1>6, <1>7, <1>8, <1>9, StoreChange

\* A transaction whose COMMIT reports an error.
LEMMA StoreUncertainStep ==
  ASSUME IInv, NEW k \in Batches, NEW applied \in BOOLEAN, StoreUncertain(k, applied)
  PROVE  IInv'
<1>1. /\ up /\ rows' = IF applied THEN After(rows, BatchOf(k), k) ELSE rows
      /\ lastKnown' = IF applied THEN wall ELSE lastKnown
      /\ queue' = SubSeq(queue, k + 1, Len(queue))
      /\ results' = results /\ storeErr' = "uncertain"
      /\ UNCHANGED <<clocks, process, engine, prober, runtime, held>>
  BY DEF StoreUncertain
<1>2. /\ entries \in [Addrs -> Entry \cup {NoEntry}] /\ AllSound(entries) /\ Others
      /\ Tokens(entries, sequence) /\ sequence \in Nat /\ wall \in Nat
      /\ queue \in Seq(Mutation) /\ results \in Seq(Completion)
      /\ InFlight(entries, queue, results, rows, storeErr)
  BY <1>1, Served
<1>3. k \in 1..Len(queue)
  BY DEF Batches
<1>4. Carried(entries, queue, results) /\ BatchOf(k) = SubSeq(queue, 1, k)
  BY <1>2 DEF InFlight, BatchOf
<1>5. Took(entries, queue, k, rows, rows', applied)
  BY <1>1, <1>2, <1>3, <1>4, BatchTook
<1>6. InFlight(entries, queue', results', rows', storeErr')
  BY <1>1, <1>2, <1>3, <1>5, UncertainInFlight
<1>7. lastKnown' \in Nat /\ (rows' = rows \/ rows' = After(rows, BatchOf(k), k))
  BY <1>1, <1>2 DEF Others
<1>8. Steady
  BY <1>1 DEF clocks, process, engine, Steady
<1> QED
  BY <1>1, <1>2, <1>3, <1>6, <1>7, <1>8, StoreChange
-----------------------------------------------------------------------------
(* The owner takes a completion.                                           *)

\* The entry a completion is for.
LEMMA CompletingEntry ==
  ASSUME IInv, NEW a \in Addrs, Completing(a)
  PROVE  /\ up /\ entries[a] # NoEntry /\ entries[a] \in Entry /\ Waits(entries[a])
         /\ Busy(entries, a) /\ entries[a].tok = Head(results).tok
         /\ Sound(entries[a]) /\ Lasting(entries[a]) /\ SoundWrite(entries[a])
         /\ entries[a].st # "probing" /\ results # << >>
         /\ entries[a].mut \in PendingMutation /\ entries[a].mut.kind \in {"put", "delete"}
         /\ results' = Tail(results) /\ results' \in Seq(Completion) /\ lastTime' \in Nat
         /\ (Claims(entries[a]) => byID[entries[a].id] = a)
<1>1. /\ up /\ results # << >> /\ a \in Waiting(Head(results).tok) /\ ObserveClock
      /\ results' = Tail(results)
  BY DEF Completing
<1>2. /\ entries \in [Addrs -> Entry \cup {NoEntry}] /\ AllSound(entries) /\ Others
      /\ results \in Seq(Completion) /\ Indexed(entries, byID) /\ wall \in Nat
  BY <1>1, Served
<1>3. /\ entries[a] # NoEntry /\ entries[a].st = "commit-pending"
      /\ entries[a].tok = Head(results).tok
  BY <1>1 DEF Waiting
<1>4. entries[a] \in Entry /\ Sound(entries[a]) /\ Lasting(entries[a])
  BY <1>2, <1>3 DEF AllSound
<1>5. Waits(entries[a]) /\ Busy(entries, a)
  BY <1>3 DEF Waits, Busy
<1>6. SoundWrite(entries[a]) /\ entries[a].mut # NoMut
  BY <1>4, <1>5 DEF Sound
<1>7. entries[a].mut \in PendingMutation
  BY <1>4, <1>6, EntryFields
<1>8. entries[a].mut.kind \in {"put", "delete"}
  BY <1>7, MutationFields
<1>9. results' \in Seq(Completion)
  BY <1>1, <1>2, HeadTailProperties
<1>10. lastTime' \in Nat
  BY <1>1, <1>2, Observed DEF Others
<1>11. Claims(entries[a]) => byID[entries[a].id] = a
  BY <1>2, <1>3 DEF Indexed
<1> QED
  BY <1>1, <1>3, <1>4, <1>5, <1>6, <1>7, <1>8, <1>9, <1>10, <1>11

\* The entry that waited is replaced by one that has what the table has.
LEMMA CompleteChange ==
  ASSUME IInv, NEW a \in Addrs, Completing(a),
         NEW w \in Entry, Sound(w), Lasting(w), ~Waits(w), w.st # "probing", w.tok = NoToken,
         w.id = entries[a].id, w.thold >= entries[a].thold,
         w.committed = IF Head(results).ok THEN Effect(entries[a].mut) ELSE entries[a].committed,
         Durable(entries[a]) => Durable(w),
         w.dirty => entries[a].dirty,
         NEW I2, I2 = byID \/ I2 = Forget(byID, entries[a].id, a), Claims(w) => I2[w.id] = a,
         NEW F, F = [entries EXCEPT ![a] = w]
  PROVE  /\ Books(F, I2, bitmap, probes, sequence)
         /\ InFlight(F, queue, results', rows, storeErr)
         /\ Protected(F, held)
<1>1. /\ up /\ entries[a] # NoEntry /\ entries[a] \in Entry /\ Waits(entries[a])
      /\ Busy(entries, a) /\ entries[a].tok = Head(results).tok
      /\ entries[a].st # "probing" /\ results # << >> /\ results' = Tail(results)
  BY CompletingEntry
<1>2. /\ Books(entries, byID, bitmap, probes, sequence) /\ Protected(entries, held)
      /\ InFlight(entries, queue, results, rows, storeErr)
      /\ entries \in [Addrs -> Entry \cup {NoEntry}] /\ AllSound(entries) /\ Others
      /\ Tokens(entries, sequence) /\ sequence \in Nat /\ gen \in Generations /\ mono \in Nat
      /\ queue \in Seq(Mutation) /\ results \in Seq(Completion)
  BY <1>1, Served
<1>3. F[a] = w /\ w # NoEntry /\ \A b \in Addrs \ {a} : F[b] = entries[b]
  BY <1>2, EntryFields
<1>4. Books(F, I2, bitmap, probes, sequence)
  <2>1. sequence <= sequence
    BY <1>2
  <2> QED
    BY ONLY <1>1, <1>2, <2>1, ReplaceKeepsBooks, a \in Addrs, w \in Entry, Sound(w), Lasting(w),
            w.st # "probing", w.tok = NoToken, w.id = entries[a].id,
            I2 = byID \/ I2 = Forget(byID, entries[a].id, a), Claims(w) => I2[w.id] = a,
            F = [entries EXCEPT ![a] = w]
<1>5. ~Busy(F, a)
  BY <1>3 DEF Busy
<1>6. CommittedAt(F, a) = IF Head(results).ok THEN Effect(entries[a].mut) ELSE entries[a].committed
  BY <1>3 DEF CommittedAt
<1>7. InFlight(F, queue, Tail(results), rows, storeErr)
  BY <1>1, <1>2, <1>5, <1>6, CompleteInFlight
<1>8. Protected(F, held)
  <2> SUFFICES ASSUME Anchored, NEW b \in Addrs, NEW j \in Ids, held[b][j] > mono
               PROVE  /\ F[b] # NoEntry /\ F[b].id = j /\ held[b][j] <= F[b].thold
                      /\ Durable(F[b]) /\ ~F[b].dirty /\ ~(Waits(F[b]) /\ F[b].mut.kind = "delete")
    BY DEF Protected
  <2>1. /\ entries[b] # NoEntry /\ entries[b].id = j /\ held[b][j] <= entries[b].thold
        /\ Durable(entries[b]) /\ ~entries[b].dirty
        /\ ~(Waits(entries[b]) /\ entries[b].mut.kind = "delete")
    BY <1>2 DEF Protected
  <2>2. CASE b # a
    BY <1>3, <2>1, <2>2
  <2>3. CASE b = a
    <3>1. w.thold \in Int /\ entries[a].thold \in Int /\ held[a][j] \in Nat
      BY <1>1, <1>2, EntryFields DEF Others
    <3>2. held[a][j] <= w.thold
      BY <2>1, <2>3, <3>1
    <3> QED
      BY <1>3, <2>1, <2>3, <3>2
  <2> QED
    BY <2>2, <2>3
<1> QED
  BY <1>1, <1>4, <1>7, <1>8

\* The completion of a write that failed.
LEMMA CommitFailedStep ==
  ASSUME IInv, NEW a \in Addrs, CommitFailed(a)
  PROVE  IInv'
<1> DEFINE v == entries[a]
           w == Fail(v)
<1>1. /\ Completing(a) /\ ~Head(results).ok
      /\ entries' = [entries EXCEPT ![a] = Fail(@)] /\ view' = DurableLeases(entries')
      /\ UNCHANGED <<sequence, byID, bitmap, probes, jobs, found, rows, lastKnown, queue,
                     storeErr, applying, held>>
  BY DEF CommitFailed, prober
<1>2. /\ up /\ v # NoEntry /\ v \in Entry /\ Waits(v) /\ Sound(v) /\ Lasting(v)
      /\ results' \in Seq(Completion) /\ lastTime' \in Nat
      /\ (Claims(v) => byID[v.id] = a)
  BY <1>1, CompletingEntry
<1>3. TypeOK /\ Clock /\ Others /\ entries \in [Addrs -> Entry \cup {NoEntry}]
  BY <1>2, Served
<1>4. /\ w \in Entry /\ Sound(w) /\ Lasting(w)
      /\ w.st \in {"offered", "bound", "quarantined"} /\ w.tok = NoToken
      /\ w.id = v.id /\ w.committed = v.committed /\ w.dirty = v.dirty
      /\ Claims(w) => Claims(v)
      /\ w.thold >= v.thold
  BY <1>2, FailSound
<1>5. entries' = [entries EXCEPT ![a] = w]
  BY <1>1, <1>3
<1> HIDE DEF w
<1>6. /\ ~Waits(w) /\ w.st # "probing" /\ (Durable(v) => Durable(w))
      /\ (Claims(w) => byID[w.id] = a)
  BY <1>2, <1>4 DEF Waits, Durable
<1>7. w.committed = IF Head(results).ok THEN Effect(v.mut) ELSE v.committed
  BY <1>1, <1>4
<1>8. /\ Books(entries', byID, bitmap, probes, sequence)
      /\ InFlight(entries', queue, results', rows, storeErr)
      /\ Protected(entries', held)
  <2>1. Completing(a) /\ (w.dirty => v.dirty) /\ (byID = byID \/ byID = Forget(byID, v.id, a))
    BY <1>1, <1>4
  <2> QED
    BY ONLY IInv, a \in Addrs, <1>4, <1>5, <1>6, <1>7, <2>1, CompleteChange
<1>9. /\ Books(entries', byID', bitmap', probes', sequence')
      /\ InFlight(entries', queue', results', rows', storeErr')
      /\ Protected(entries', held')
  BY <1>1, <1>8
<1>10. Others'
  BY <1>1, <1>2, <1>3 DEF Others, Completion
<1>11. Steady
  BY DEF CommitFailed, clocks, process, Steady
<1> QED
  BY <1>1, <1>2, <1>3, <1>9, <1>10, <1>11, Frame

\* The completion of a delete: the address is free.
LEMMA CommitDeletedStep ==
  ASSUME IInv, NEW a \in Addrs, CommitDeleted(a)
  PROVE  IInv'
<1> DEFINE v == entries[a]
<1>1. /\ Completing(a) /\ Head(results).ok /\ v.mut.kind = "delete"
      /\ entries' = [entries EXCEPT ![a] = NoEntry] /\ view' = DurableLeases(entries')
      /\ byID' = Forget(byID, v.id, a) /\ bitmap' = Unmark(bitmap, a)
      /\ UNCHANGED <<sequence, probes, jobs, found, rows, lastKnown, queue,
                     storeErr, applying, held>>
  BY DEF CommitDeleted, prober
<1>2. /\ up /\ v # NoEntry /\ v \in Entry /\ Waits(v) /\ v.st # "probing"
      /\ Busy(entries, a) /\ v.tok = Head(results).tok
      /\ results' \in Seq(Completion) /\ lastTime' \in Nat
      /\ results # << >> /\ results' = Tail(results)
  BY <1>1, CompletingEntry
<1>3. /\ TypeOK /\ Clock /\ Others /\ Books(entries, byID, bitmap, probes, sequence)
      /\ Protected(entries, held)
      /\ InFlight(entries, queue, results, rows, storeErr)
      /\ entries \in [Addrs -> Entry \cup {NoEntry}] /\ AllSound(entries)
      /\ Tokens(entries, sequence) /\ sequence \in Nat /\ gen \in Generations
      /\ queue \in Seq(Mutation) /\ results \in Seq(Completion)
  BY <1>2, Served
<1>4. entries'[a] = NoEntry /\ \A b \in Addrs \ {a} : entries'[b] = entries[b]
  BY <1>1, <1>3
<1>5. Books(entries', byID', bitmap', probes, sequence)
  <2>1. IF v.st = "probing" THEN probes = probes - 1 ELSE probes = probes
    BY <1>2
  <2> QED
    BY <1>1, <1>2, <1>3, <2>1, RemoveKeepsBooks
<1>6. ~Busy(entries', a)
  BY <1>4 DEF Busy
<1>7. CommittedAt(entries', a) = IF Head(results).ok THEN Effect(v.mut) ELSE v.committed
  BY <1>1, <1>4 DEF CommittedAt, Effect
<1>8. InFlight(entries', queue, Tail(results), rows, storeErr)
  BY <1>1, <1>2, <1>3, <1>6, <1>7, CompleteInFlight
<1>9. Protected(entries', held)
  BY <1>1, <1>2, <1>3, <1>4 DEF Protected
<1>10. /\ Books(entries', byID', bitmap', probes', sequence')
       /\ InFlight(entries', queue', results', rows', storeErr')
       /\ Protected(entries', held')
  BY <1>1, <1>2, <1>5, <1>8, <1>9
<1>11. Others'
  BY <1>1, <1>2, <1>3 DEF Others, Completion
<1>12. Steady
  BY DEF CommitDeleted, clocks, process, Steady
<1> QED
  BY <1>1, <1>2, <1>3, <1>10, <1>11, <1>12, Frame

\* What a put that went through leaves behind.
LEMMA CommittedEntry ==
  ASSUME IInv, NEW a \in Addrs, Completing(a), Head(results).ok, entries[a].mut.kind = "put",
         NEW w, w = Commit(entries[a])
  PROVE  /\ w \in Entry /\ Sound(w) /\ Lasting(w) /\ ~Waits(w) /\ w.st = entries[a].mut.row.st
         /\ w.tok = NoToken /\ w.id = entries[a].id /\ w.thold >= entries[a].thold
         /\ w.committed = Effect(entries[a].mut) /\ w.committed.st = w.st
         /\ Durable(w) /\ ~w.dirty /\ w.texp = entries[a].mut.texp /\ w.texp <= w.thold
<1> DEFINE v == entries[a]
<1>1. /\ v \in Entry /\ Waits(v) /\ Sound(v) /\ Lasting(v) /\ v.mut \in PendingMutation
  BY CompletingEntry
<1>2. /\ v.mut.row \in Row /\ v.mut.row # NoRow /\ v.mut.row.st \in {"bound", "quarantined"}
  BY <1>1, MutationFields, RowFields
<1>3. v.req.xid \in XIDs \cup {NoXid} /\ v.thold \in Int /\ v.mut.thold \in Int
  BY <1>1, EntryFields, MutationFields DEF Request
<1>4. /\ w \in Entry /\ Sound(w) /\ Lasting(w)
      /\ w.st = v.mut.row.st /\ w.tok = NoToken
      /\ w.id = v.id /\ w.committed = v.mut.row /\ ~w.dirty
      /\ w.thold = v.mut.thold /\ w.texp = v.mut.texp
      /\ v.thold <= w.thold /\ w.texp <= w.thold
  BY <1>1, <1>3, CommitSound
<1>5. w.committed = Effect(v.mut)
  BY <1>4 DEF Effect
<1> QED
  BY <1>2, <1>3, <1>4, <1>5 DEF Waits, Durable

\* The completion of a grant: the client is sent its ACK.
LEMMA CommitBoundStep ==
  ASSUME IInv, NEW a \in Addrs, CommitBound(a)
  PROVE  IInv'
<1> DEFINE v == entries[a]
           w == Commit(v)
<1>1. /\ Completing(a) /\ Head(results).ok /\ v.mut.kind = "put" /\ v.mut.row.st = "bound"
      /\ entries' = [entries EXCEPT ![a] = Commit(@)] /\ view' = DurableLeases(entries')
      /\ SendAck(a, v.id, v.mut.texp) \/ held' = held
      /\ UNCHANGED <<sequence, byID, bitmap, probes, jobs, found, rows, lastKnown, queue,
                     storeErr, applying>>
  BY DEF CommitBound, prober
<1>2. /\ up /\ v # NoEntry /\ v \in Entry /\ Waits(v) /\ Sound(v) /\ SoundWrite(v)
      /\ results' \in Seq(Completion) /\ lastTime' \in Nat
      /\ (Claims(v) => byID[v.id] = a) /\ v.mut \in PendingMutation
  BY <1>1, CompletingEntry
<1>3. TypeOK /\ Clock /\ Others /\ entries \in [Addrs -> Entry \cup {NoEntry}] /\ mono \in Nat
  BY <1>2, Served
<1>4. /\ w \in Entry /\ Sound(w) /\ Lasting(w) /\ ~Waits(w) /\ w.st = "bound"
      /\ w.tok = NoToken /\ w.id = v.id /\ w.thold >= v.thold
      /\ w.committed = Effect(v.mut)
      /\ Durable(w) /\ ~w.dirty /\ w.texp = v.mut.texp /\ w.texp <= w.thold
  BY <1>1, CommittedEntry
<1>5. entries' = [entries EXCEPT ![a] = w] /\ entries'[a] = w
  BY <1>1, <1>3
<1> HIDE DEF w
<1>6. byID[w.id] = a
  <2>1. ~v.dirty
    BY <1>1, <1>2 DEF SoundWrite
  <2>2. v.mut.prev \in {"offered", "bound"}
    BY <1>1, <1>2, <2>1 DEF SoundWrite
  <2>3. Claims(v)
    BY <1>2, <2>1, <2>2 DEF Claims
  <2> QED
    BY <1>2, <1>4, <2>3
<1>7. /\ w.committed = IF Head(results).ok THEN Effect(v.mut) ELSE v.committed
      /\ w.st # "probing"
  BY <1>1, <1>4
<1>8. /\ Books(entries', byID, bitmap, probes, sequence)
      /\ InFlight(entries', queue, results', rows, storeErr)
      /\ Protected(entries', held)
  <2>1. /\ Completing(a) /\ w \in Entry /\ Sound(w) /\ Lasting(w) /\ ~Waits(w)
        /\ w.st # "probing" /\ w.tok = NoToken /\ w.id = entries[a].id
        /\ w.thold >= entries[a].thold /\ Durable(w) /\ ~w.dirty
        /\ w.committed = IF Head(results).ok THEN Effect(entries[a].mut) ELSE entries[a].committed
    BY <1>1, <1>4, <1>7
  <2>2. byID = byID /\ byID[w.id] = a /\ entries' = [entries EXCEPT ![a] = w]
    BY <1>5, <1>6
  <2> HIDE DEF v
  <2> QED
    BY ONLY <2>1, <2>2, CompleteChange, IInv, a \in Addrs
<1>9. Protected(entries', held') /\ held' \in [Addrs -> [Ids -> Nat]]
  <2>1. CASE held' = held
    BY <1>3, <1>8, <2>1 DEF Others
  <2>2. CASE SendAck(a, v.id, v.mut.texp)
    <3>1. v.id \in Ids /\ v.mut.texp \in Int
      BY <1>2, EntryFields, MutationFields
    <3>2. /\ entries'[a] \in Entry /\ entries'[a].id = v.id /\ v.mut.texp <= entries'[a].thold
          /\ Durable(entries'[a]) /\ ~entries'[a].dirty /\ ~Waits(entries'[a])
      BY <1>4, <1>5
    <3>3. held \in [Addrs -> [Ids -> Nat]]
      BY <1>3 DEF Others
    <3> HIDE DEF v
    <3> QED
      BY <1>3, <1>8, <2>2, <3>1, <3>2, <3>3, AckProtected
  <2> QED
    BY <1>1, <2>1, <2>2
<1>10. /\ Books(entries', byID', bitmap', probes', sequence')
       /\ InFlight(entries', queue', results', rows', storeErr')
  BY <1>1, <1>8
<1>11. Others'
  BY <1>1, <1>2, <1>3, <1>9 DEF Others, Completion
<1>12. Steady
  BY DEF CommitBound, clocks, process, Steady
<1> QED
  BY <1>1, <1>2, <1>3, <1>9, <1>10, <1>11, <1>12, Frame

\* A durable quarantine; a migration goes on with a probe.
LEMMA CommitQuarantinedStep ==
  ASSUME IInv, NEW a \in Addrs, CommitQuarantined(a)
  PROVE  IInv'
<1> DEFINE v == entries[a]
           u == Commit(v)
           w == [u EXCEPT !.req = NoRequest]
           E == [entries EXCEPT ![a] = w]
           I == Forget(byID, v.id, a)
<1>1. /\ Completing(a) /\ Head(results).ok /\ v.mut.kind = "put"
      /\ v.mut.row.st = "quarantined" /\ view' = DurableLeases(entries')
      /\ IF ClockOK /\ v.req.type = "discover"
         THEN Discover(E, I, bitmap, probes, 0, v.id, v.req, 1)
         ELSE entries' = E /\ byID' = I /\ UNCHANGED <<bitmap, probes, sequence, jobs>>
      /\ UNCHANGED <<found, rows, lastKnown, queue, storeErr, applying, held>>
  BY DEF CommitQuarantined
<1>2. /\ up /\ v # NoEntry /\ v \in Entry /\ Waits(v) /\ Sound(v) /\ SoundWrite(v)
      /\ results' \in Seq(Completion) /\ lastTime' \in Nat
      /\ (Claims(v) => byID[v.id] = a)
  BY <1>1, CompletingEntry
<1>3. /\ TypeOK /\ Clock /\ Others /\ entries \in [Addrs -> Entry \cup {NoEntry}]
      /\ byID \in [Ids -> Addrs \cup {NoAddr}] /\ queue \in Seq(Mutation) /\ sequence \in Nat
  BY <1>2, Served
<1>4. /\ u \in Entry /\ Sound(u) /\ Lasting(u) /\ ~Waits(u) /\ u.st = "quarantined"
      /\ u.tok = NoToken /\ u.id = v.id /\ u.thold >= v.thold
      /\ u.committed = Effect(v.mut) /\ u.committed.st = "quarantined"
      /\ Durable(u) /\ ~u.dirty
  BY <1>1, CommittedEntry
<1>5. NoRequest \in Request /\ v.id \in Ids /\ v.req \in Request /\ NoXid \in XIDs \cup {NoXid}
  BY <1>2, EntryFields DEF NoRequest, Request
<1>6. E = [entries EXCEPT ![a] = w]
  OBVIOUS
<1> HIDE DEF u, E
<1>7. /\ w \in Entry /\ Sound(w) /\ Lasting(w)
      /\ w.id = u.id /\ w.st = u.st /\ w.tok = u.tok /\ w.committed = u.committed
      /\ w.dirty = u.dirty /\ w.thold = u.thold
  BY <1>4, <1>5, TouchSound
<1> HIDE DEF w
<1>8. ~Waits(w) /\ Durable(w) /\ ~Claims(w)
  BY <1>4, <1>7 DEF Waits, Durable, Claims
<1>9. w.committed = IF Head(results).ok THEN Effect(v.mut) ELSE v.committed
  BY <1>1, <1>4, <1>7
<1>10. /\ Books(E, I, bitmap, probes, sequence)
       /\ InFlight(E, queue, results', rows, storeErr)
       /\ Protected(E, held)
  <2>1. /\ w.st # "probing" /\ w.tok = NoToken /\ w.id = v.id /\ w.thold >= v.thold
        /\ ~w.dirty /\ I = Forget(byID, v.id, a)
    BY <1>4, <1>7
  <2> HIDE DEF I
  <2> QED
    BY <1>1, <1>6, <1>7, <1>8, <1>9, <2>1, CompleteChange
<1>11. /\ Books(entries', byID', bitmap', probes', sequence')
       /\ InFlight(entries', queue, results', rows, storeErr)
       /\ Protected(entries', held)
       /\ jobs' \subseteq [tok : Token, due : Nat] /\ sequence' \in Nat
  <2>1. CASE ClockOK /\ v.req.type = "discover"
    <3>1. Discover(E, I, bitmap, probes, 0, v.id, v.req, 1)
      BY <1>1, <2>1
    <3>2. Claims(v)
      <4>1. ~v.dirty
        BY <1>1, <1>2, <2>1 DEF SoundWrite
      <4>2. v.mut.prev \in {"offered", "bound"}
        BY <1>1, <1>2, <4>1 DEF SoundWrite
      <4> QED
        BY <1>2, <4>1, <4>2 DEF Claims
    <3>3. I[v.id] = NoAddr
      BY <1>2, <1>3, <1>5, <3>2 DEF Forget
    <3>4. sequence + 0 = sequence /\ 0 \in Nat /\ 1 \in Nat
      BY <1>3
    <3>5. Books(E, I, bitmap, probes, sequence + 0)
      BY <1>10, <3>4
    <3> HIDE DEF I, v
    <3> QED
      BY <1>2, <1>3, <1>5, <1>10, <3>1, <3>3, <3>4, <3>5, DiscoverStep
  <2>2. CASE ~(ClockOK /\ v.req.type = "discover")
    <3>1. entries' = E /\ byID' = I /\ bitmap' = bitmap /\ probes' = probes
          /\ sequence' = sequence /\ jobs' = jobs
      BY <1>1, <2>2
    <3> HIDE DEF I
    <3> QED
      BY <1>3, <1>10, <3>1 DEF Others
  <2> QED
    BY <2>1, <2>2
<1>12. /\ InFlight(entries', queue', results', rows', storeErr')
       /\ Protected(entries', held')
  BY <1>1, <1>11
<1>13. Others'
  BY <1>1, <1>2, <1>3, <1>11 DEF Others, Completion
<1>14. Steady
  BY DEF CommitQuarantined, clocks, process, Steady
<1> QED
  BY <1>1, <1>2, <1>3, <1>11, <1>12, <1>13, <1>14, Frame
-----------------------------------------------------------------------------
(* New settings, processes and time.                                       *)

\* What the invariant is made of, after a step.
LEMMA Assembled ==
  ASSUME TypeOK', Clock', Engine', Flight', Protected(entries, held)', up',
         view' = DurableLeases(entries')
  PROVE  IInv'
BY DEF IInv, Running, Down

\* New settings take over what is durable.
LEMMA ApplySettingsStep ==
  ASSUME IInv, ApplySettings
  PROVE  IInv'
<1> DEFINE s == Settings[applying]
<1>1. /\ up /\ applying # 0 /\ Drained /\ Fits(s, Kept, entries)
      /\ entries' = [a \in Addrs |->
                      IF a \in Kept THEN [entries[a] EXCEPT !.ack = NoXid] ELSE NoEntry]
      /\ byID' = [i \in Ids |-> IF byID[i] \in Kept THEN byID[i] ELSE NoAddr]
      /\ probes' = 0 /\ gen' = applying
      /\ bitmap' = (Kept \cup ReservedAt(s)) \cap s.pool
      /\ applying' = 0 /\ view' = DurableLeases(entries')
      /\ UNCHANGED <<clocks, process, sequence, lastTime, prober, store, held>>
  BY DEF ApplySettings
<1>2. /\ Others /\ Protected(entries, held) /\ TypeOK /\ Clock
      /\ entries \in [Addrs -> Entry \cup {NoEntry}] /\ byID \in [Ids -> Addrs \cup {NoAddr}]
      /\ AllSound(entries) /\ Tokens(entries, sequence) /\ Indexed(entries, byID)
      /\ sequence \in Nat /\ queue \in Seq(Mutation) /\ results \in Seq(Completion)
      /\ InFlight(entries, queue, results, rows, storeErr)
  BY <1>1, Served
<1>3. applying \in Generations /\ gen' \in Generations /\ Cfg' = s /\ Reserved' = ReservedAt(s)
  BY <1>1, <1>2 DEF Others, Cfg, Reserved
<1>4. /\ mono' = mono /\ wall' = wall /\ stepped' = stepped /\ up' = up /\ restarts' = restarts
      /\ sequence' = sequence /\ lastTime' = lastTime /\ jobs' = jobs /\ found' = found
      /\ rows' = rows /\ lastKnown' = lastKnown /\ queue' = queue /\ results' = results
      /\ storeErr' = storeErr /\ held' = held
  BY <1>1 DEF clocks, process, prober, store
<1>5. ASSUME NEW a \in Addrs
      PROVE  /\ a \in Kept => /\ entries[a] # NoEntry /\ entries'[a] # NoEntry
                              /\ entries'[a] \in Entry /\ Sound(entries'[a])
                              /\ Lasting(entries'[a])
                              /\ entries'[a].id = entries[a].id
                              /\ entries'[a].committed = entries[a].committed
                              /\ entries'[a].thold = entries[a].thold
                              /\ entries'[a].dirty = entries[a].dirty
                              /\ entries'[a].st \in {"bound", "quarantined"}
                              /\ entries'[a].tok = NoToken
                              /\ Claims(entries'[a]) => Claims(entries[a])
             /\ a \notin Kept => entries'[a] = NoEntry
  <2>1. CASE a \in Kept
    <3> DEFINE v == entries[a]
               w == [v EXCEPT !.ack = NoXid]
    <3>1. /\ v # NoEntry /\ v \in Entry /\ Sound(v) /\ Lasting(v)
          /\ Durable(v) \/ v.st = "quarantined"
      BY <1>2, <2>1 DEF Kept, HeldIn, AllSound
    <3>2. v.st # "commit-pending" /\ ~v.dirty
      BY <1>1, <2>1 DEF Drained, Kept
    <3>3. v.st \in {"bound", "quarantined"} /\ v.tok = NoToken
      BY <3>1, <3>2, EntryFields DEF Sound
    <3>4. ~Waits(v)
      BY <3>2 DEF Waits
    <3>5. NoXid \in XIDs \cup {NoXid} /\ v.req \in Request
      BY <3>1, EntryFields
    <3>6. /\ w \in Entry /\ Sound(w) /\ Lasting(w)
          /\ w.id = v.id /\ w.st = v.st /\ w.tok = v.tok /\ w.committed = v.committed
          /\ w.dirty = v.dirty /\ w.thold = v.thold
      BY <3>1, <3>4, <3>5, TouchSound
    <3>7. entries'[a] = w
      BY <1>1, <2>1
    <3> HIDE DEF w
    <3>8. w # NoEntry
      BY <3>6, EntryFields
    <3>9. Claims(w) => Claims(v)
      BY <3>3, <3>6 DEF Claims, Waits, Durable
    <3> QED
      BY <2>1, <3>1, <3>3, <3>6, <3>7, <3>8, <3>9
  <2>2. CASE a \notin Kept
    BY <1>1, <2>2
  <2> QED
    BY <2>1, <2>2
<1>6. Kept \subseteq Addrs /\ HeldIn(entries') = Kept /\ ProbingIn(entries') = {}
  <2>1. Kept \subseteq Addrs
    BY DEF Kept, HeldIn
  <2>2. HeldIn(entries') = Kept
    BY <1>5, <2>1 DEF HeldIn
  <2>3. \A a \in Kept : entries'[a].st # "probing"
    BY <1>5, <2>1
  <2> QED
    BY <2>1, <2>2, <2>3 DEF ProbingIn
<1>7. /\ entries' \in [Addrs -> Entry \cup {NoEntry}]
      /\ byID' \in [Ids -> Addrs \cup {NoAddr}]
  <2>1. \A a \in Addrs : entries'[a] \in Entry \cup {NoEntry}
    BY <1>5
  <2>2. entries' = [a \in Addrs |-> entries'[a]]
    BY <1>1
  <2> QED
    BY <1>1, <1>2, <2>1, <2>2
<1>8. AllSound(entries)'
  BY <1>4, <1>5 DEF AllSound, Lasting
<1>9. Tokens(entries, sequence)'
  BY <1>5 DEF Tokens
<1>10. Indexed(entries, byID)'
  <2>1. ASSUME NEW i \in Ids, byID'[i] # NoAddr
        PROVE  entries'[byID'[i]] # NoEntry /\ entries'[byID'[i]].id = i
    <3>1. byID'[i] = byID[i] /\ byID[i] \in Kept
      BY <1>1, <2>1
    <3>2. byID[i] # NoAddr /\ byID[i] \in Addrs
      BY <1>6, <2>1, <3>1
    <3> QED
      BY <1>2, <1>5, <3>1, <3>2 DEF Indexed
  <2>2. ASSUME NEW a \in Addrs, entries'[a] # NoEntry, Claims(entries'[a])
        PROVE  byID'[entries'[a].id] = a
    <3>1. a \in Kept /\ entries[a] # NoEntry /\ Claims(entries[a])
          /\ entries'[a].id = entries[a].id /\ entries'[a] \in Entry
      BY <1>5, <2>2
    <3>2. byID[entries[a].id] = a /\ entries[a].id \in Ids
      BY <1>2, <3>1, EntryFields DEF Indexed
    <3> QED
      BY <1>1, <3>1, <3>2
  <2> QED
    BY <2>1, <2>2 DEF Indexed
<1>11. Counted(entries, bitmap, probes)'
  <2>1. Cardinality({}) = 0 /\ 0 <= MaxProbes
    BY FS_EmptySet DEF MaxProbes
  <2>2. probes' = Cardinality(ProbingIn(entries')) /\ probes' <= MaxProbes
    BY <1>1, <1>6, <2>1
  <2>3. bitmap' = (HeldIn(entries') \cup Reserved') \cap Cfg'.pool
    BY <1>1, <1>3, <1>6
  <2> QED
    BY <2>2, <2>3 DEF Counted
<1>12. Fits(Cfg, HeldIn(entries), entries)'
  <2>1. \A a \in Kept : entries'[a].id = entries[a].id
    BY <1>5, <1>6
  <2>2. Fits(s, Kept, entries')
    BY <1>1, <2>1 DEF Fits
  <2> QED
    BY <1>3, <1>6, <2>2
<1>13. Engine'
  BY <1>7, <1>8, <1>9, <1>10, <1>11, <1>12 DEF Engine, Books, Tables
<1>14. InFlight(entries', queue, results, rows, storeErr)
  <2>1. \A a \in Addrs : ~Busy(entries, a) /\ ~Busy(entries', a)
    BY <1>1, <1>5 DEF Drained, Busy, Waits, HeldIn
  <2>2. \A a \in Addrs : CommittedAt(entries', a) = CommittedAt(entries, a)
    BY <1>5 DEF CommittedAt, Kept, HeldIn, Durable
  <2> QED
    BY <1>2, <1>7, <2>1, <2>2, QuietInFlight
<1>15. Protected(entries', held)
  <2> SUFFICES ASSUME Anchored, NEW b \in Addrs, NEW j \in Ids, held[b][j] > mono
               PROVE  /\ entries'[b] # NoEntry /\ entries'[b].id = j
                      /\ held[b][j] <= entries'[b].thold
                      /\ Durable(entries'[b]) /\ ~entries'[b].dirty
                      /\ ~(Waits(entries'[b]) /\ entries'[b].mut.kind = "delete")
    BY DEF Protected
  <2>1. /\ entries[b] # NoEntry /\ entries[b].id = j /\ held[b][j] <= entries[b].thold
        /\ Durable(entries[b]) /\ ~entries[b].dirty
    BY <1>2 DEF Protected
  <2>2. b \in Kept
    BY <2>1 DEF Kept, HeldIn
  <2> QED
    BY <1>5, <2>1, <2>2 DEF Durable, Waits
<1>16. Protected(entries, held)'
  BY <1>4, <1>15 DEF Protected, Anchored
<1>17. Flight'
  BY <1>4, <1>14 DEF Flight
<1>18. TypeOK'
  <2>1. bitmap' \subseteq Addrs
    BY <1>1, <1>3, SettingsType
  <2>2. probes' \in 0..MaxProbes /\ applying' \in {0} \cup Generations
    BY <1>1 DEF MaxProbes
  <2>3. view' \in [Addrs -> Row \cup {NoRow}]
    BY <1>1, <1>7, DurableAt
  <2> QED
    BY <1>2, <1>3, <1>4, <1>7, <2>1, <2>2, <2>3 DEF TypeOK
<1>19. Clock'
  BY <1>2, <1>4 DEF Clock
<1> QED
  BY <1>1, <1>4, <1>13, <1>16, <1>17, <1>18, <1>19, Assembled

\* The process stops: the table is enough to go on from.
LEMMA StopStep ==
  ASSUME IInv, up, Stop
  PROVE  IInv'
<1>1. TypeOK /\ Clock /\ Engine /\ Flight /\ Protected(entries, held)
  BY Served
<1>2. AlwaysRecoverable /\ GrantIsDurable
  BY <1>1, RunningRecoverable, RunningDurable
<1>3. /\ up' = FALSE /\ mono' = mono /\ wall' = wall /\ stepped' = stepped
      /\ restarts' = restarts /\ gen' = gen /\ rows' = rows /\ lastKnown' = lastKnown
      /\ held' = held /\ queue' = << >> /\ results' = << >>
  BY DEF Stop, clocks
<1>4. AlwaysRecoverable'
  BY <1>2, <1>3 DEF AlwaysRecoverable, Recoverable, Stored, Fits, Cfg
<1>5. GrantIsDurable'
  BY <1>2, <1>3 DEF GrantIsDurable, Anchored
<1>6. TypeOK'
  <2>1. /\ entries' \in [Addrs -> Entry \cup {NoEntry}]
        /\ byID' \in [Ids -> Addrs \cup {NoAddr}]
        /\ bitmap' \subseteq Addrs /\ probes' \in 0..MaxProbes
        /\ sequence' \in Nat /\ lastTime' \in Nat
        /\ jobs' \subseteq [tok : Token, due : Nat]
        /\ found' \subseteq [tok : Token, outcome : {"quiet", "conflict", "error"}]
        /\ applying' \in {0} \cup Generations
        /\ view' \in [Addrs -> Row \cup {NoRow}] /\ storeErr' \in {"none", "failed", "uncertain"}
    BY DEF Stop, Nobody, MaxProbes
  <2>2. /\ queue' \in Seq(Mutation) /\ Len(queue') <= QueueCap
        /\ results' \in Seq([tok : Token, ok : BOOLEAN])
    BY <1>3, DhcpAssumption
  <2> QED
    BY <1>1, <1>3, <2>1, <2>2 DEF TypeOK
<1>7. Clock'
  BY <1>1, <1>3 DEF Clock
<1> QED
  BY <1>3, <1>4, <1>5, <1>6, <1>7 DEF IInv, Running, Down

\* The process starts again on what the table has.
LEMMA RestartStep ==
  ASSUME IInv, NEW g \in Generations, Restart(g)
  PROVE  IInv'
<1> DEFINE s == Settings[g]
<1>1. /\ ~up /\ restarts < MaxRestarts /\ Recoverable(s)
      /\ up' = TRUE /\ restarts' = restarts + 1
      /\ gen' = g /\ sequence' = 0 /\ lastTime' = wall /\ probes' = 0
      /\ entries' = [a \in Addrs |-> IF rows[a] = NoRow THEN NoEntry ELSE Recovered(rows[a])]
      /\ byID' = [i \in Ids |->
           IF \E a \in Stored : rows[a].st = "bound" /\ rows[a].id = i
           THEN CHOOSE a \in Stored : rows[a].st = "bound" /\ rows[a].id = i
           ELSE NoAddr]
      /\ bitmap' = (Stored \cup ReservedAt(s)) \cap s.pool
      /\ view' = rows
      /\ UNCHANGED <<clocks, prober, store, applying, held>>
  BY DEF Restart
<1>2. /\ TypeOK /\ Clock /\ queue = << >> /\ results = << >> /\ GrantIsDurable
  BY <1>1 DEF IInv, Down
<1>3. /\ mono' = mono /\ wall' = wall /\ stepped' = stepped /\ jobs' = jobs /\ found' = found
      /\ rows' = rows /\ lastKnown' = lastKnown /\ queue' = queue /\ results' = results
      /\ storeErr' = storeErr /\ held' = held /\ applying' = applying
  BY <1>1 DEF clocks, prober, store
<1>4. /\ mono \in Nat /\ wall \in Nat /\ rows \in [Addrs -> Row \cup {NoRow}]
      /\ restarts \in Nat /\ held \in [Addrs -> [Ids -> Nat]]
  BY <1>2 DEF TypeOK
<1>5. Cfg' = s /\ Reserved' = ReservedAt(s)
  BY <1>1 DEF Cfg, Reserved
<1>6. /\ Fits(s, Stored, rows) /\ \A a \in Stored : rows[a].hold >= rows[a].exp
      /\ \A a, b \in Stored : a # b /\ rows[a].st = "bound" /\ rows[b].st = "bound"
                                => rows[a].id # rows[b].id
  BY <1>1 DEF Recoverable
<1>7. ASSUME NEW a \in Addrs
      PROVE  /\ rows[a] # NoRow => /\ rows[a] \in Row /\ entries'[a] # NoEntry
                                   /\ entries'[a] \in Entry /\ Sound(entries'[a])
                                   /\ Lasting(entries'[a]) /\ ~entries'[a].dirty
                                   /\ entries'[a].id = rows[a].id
                                   /\ entries'[a].committed = rows[a]
                                   /\ entries'[a].thold = mono + (rows[a].hold - wall)
                                   /\ entries'[a].st = rows[a].st
                                   /\ entries'[a].st \in {"bound", "quarantined"}
                                   /\ entries'[a].tok = NoToken
             /\ rows[a] = NoRow => entries'[a] = NoEntry
  <2>1. CASE rows[a] # NoRow
    <3> DEFINE row == rows[a]
               w == Recovered(row)
    <3>1. row \in Row /\ a \in Stored
      BY <1>4, <2>1 DEF Stored
    <3>2. row.exp <= row.hold /\ row.st \in {"bound", "quarantined"}
      <4>1. row.exp \in Nat /\ row.hold \in Nat /\ row.hold >= row.exp
            /\ row.st \in {"bound", "quarantined"}
        BY <1>6, <3>1, RowFields
      <4> QED
        BY <4>1
    <3>3. entries'[a] = w
      BY <1>1, <2>1
    <3> HIDE DEF w, row
    <3>4. /\ w \in Entry /\ Sound(w) /\ Lasting(w)
          /\ w.id = row.id /\ w.st = row.st /\ w.tok = NoToken /\ w.committed = row
          /\ ~w.dirty /\ w.thold = mono + (row.hold - wall)
      BY <1>4, <3>1, <3>2, RecoveredSound DEF w
    <3>5. w # NoEntry
      BY <3>4, EntryFields
    <3> QED
      BY <2>1, <3>1, <3>2, <3>3, <3>4, <3>5 DEF row
  <2>2. CASE rows[a] = NoRow
    BY <1>1, <2>2
  <2> QED
    BY <2>1, <2>2
<1>8. Stored \subseteq Addrs /\ HeldIn(entries') = Stored /\ ProbingIn(entries') = {}
  <2>1. Stored \subseteq Addrs /\ HeldIn(entries') = Stored
    BY <1>7 DEF HeldIn, Stored
  <2>2. \A a \in Stored : entries'[a].st # "probing"
    BY <1>7 DEF Stored
  <2> QED
    BY <2>1, <2>2 DEF ProbingIn
<1>9. ASSUME NEW i \in Ids
      PROVE  /\ byID'[i] \in Addrs \cup {NoAddr}
             /\ byID'[i] # NoAddr => byID'[i] \in Stored /\ rows[byID'[i]].id = i
             /\ \A a \in Stored : rows[a].st = "bound" /\ rows[a].id = i => byID'[i] = a
  <2> DEFINE P(a) == rows[a].st = "bound" /\ rows[a].id = i
             c == CHOOSE a \in Stored : P(a)
  <2>1. CASE \E a \in Stored : P(a)
    <3>1. byID'[i] = c
      BY <1>1, <2>1
    <3>2. c \in Stored /\ P(c)
      BY <2>1
    <3> HIDE DEF c
    <3>3. \A a \in Stored : P(a) => a = c
      BY <1>6, <3>2
    <3> QED
      BY <1>8, <3>1, <3>2, <3>3
  <2>2. CASE ~\E a \in Stored : P(a)
    <3>1. byID'[i] = NoAddr
      BY <1>1, <2>2
    <3> QED
      BY <2>2, <3>1
  <2> QED
    BY <2>1, <2>2
<1>10. /\ entries' \in [Addrs -> Entry \cup {NoEntry}]
       /\ byID' \in [Ids -> Addrs \cup {NoAddr}]
  <2>1. \A a \in Addrs : entries'[a] \in Entry \cup {NoEntry}
    BY <1>7
  <2>2. entries' = [a \in Addrs |-> entries'[a]] /\ byID' = [i \in Ids |-> byID'[i]]
    BY <1>1
  <2> QED
    BY <1>9, <2>1, <2>2
<1>11. AllSound(entries)'
  BY <1>3, <1>7 DEF AllSound, Lasting
<1>12. Tokens(entries, sequence)'
  BY <1>7 DEF Tokens
<1>13. Indexed(entries, byID)'
  <2>1. ASSUME NEW i \in Ids, byID'[i] # NoAddr
        PROVE  entries'[byID'[i]] # NoEntry /\ entries'[byID'[i]].id = i
    BY <1>7, <1>9, <2>1 DEF Stored
  <2>2. ASSUME NEW a \in Addrs, entries'[a] # NoEntry, Claims(entries'[a])
        PROVE  byID'[entries'[a].id] = a
    <3>1. rows[a] # NoRow /\ a \in Stored
      BY <1>7, <2>2 DEF Stored
    <3>2. rows[a].st = "bound"
      BY <1>7, <2>2, <3>1 DEF Claims, Waits
    <3>3. rows[a].id \in Ids /\ entries'[a].id = rows[a].id
      BY <1>7, <3>1, RowFields
    <3> QED
      BY <1>9, <3>1, <3>2, <3>3
  <2> QED
    BY <2>1, <2>2 DEF Indexed
<1>14. Counted(entries, bitmap, probes)'
  <2>1. Cardinality({}) = 0 /\ 0 <= MaxProbes
    BY FS_EmptySet DEF MaxProbes
  <2>2. probes' = Cardinality(ProbingIn(entries')) /\ probes' <= MaxProbes
    BY <1>1, <1>8, <2>1
  <2>3. bitmap' = (HeldIn(entries') \cup Reserved') \cap Cfg'.pool
    BY <1>1, <1>5, <1>8
  <2> QED
    BY <2>2, <2>3 DEF Counted
<1>15. Fits(Cfg, HeldIn(entries), entries)'
  <2>1. \A a \in Stored : entries'[a].id = rows[a].id
    BY <1>7 DEF Stored
  <2>2. Fits(s, Stored, entries')
    BY <1>6, <2>1 DEF Fits
  <2> QED
    BY <1>5, <1>8, <2>2
<1>16. Engine'
  BY <1>10, <1>11, <1>12, <1>13, <1>14, <1>15 DEF Engine, Books, Tables
<1>17. \A a \in Addrs : ~Busy(entries', a) /\ rows[a] = CommittedAt(entries', a)
  BY <1>7 DEF Busy, Waits, CommittedAt
<1>18. InFlight(entries', queue, results, rows, storeErr)
  <2>1. Len(queue) = 0 /\ Len(results) = 0
    BY <1>2
  <2>2. Carried(entries', queue, results)
    BY <2>1 DEF Carried
  <2>3. Written(entries', queue, results, rows)
    BY <1>17, <2>1 DEF Written
  <2>4. Answered(entries', queue, results)
    BY <1>17 DEF Answered
  <2> QED
    BY <2>2, <2>3, <2>4 DEF InFlight
<1>19. Flight'
  BY <1>3, <1>18 DEF Flight
<1>20. Protected(entries, held)'
  <2> SUFFICES ASSUME Anchored', NEW a \in Addrs, NEW i \in Ids, held[a][i] > mono
               PROVE  /\ entries'[a] # NoEntry /\ entries'[a].id = i
                      /\ held[a][i] <= entries'[a].thold
                      /\ Durable(entries'[a]) /\ ~entries'[a].dirty
                      /\ ~(Waits(entries'[a]) /\ entries'[a].mut.kind = "delete")
    BY <1>3 DEF Protected
  <2>1. wall <= mono /\ Anchored
    BY <1>1, <1>3, <1>4 DEF Anchored
  <2>2. /\ rows[a] # NoRow /\ rows[a].id = i
        /\ rows[a].hold - wall >= held[a][i] - mono
    BY <1>2, <2>1 DEF GrantIsDurable
  <2>3. rows[a].hold \in Nat /\ held[a][i] \in Nat
    BY <1>4, <2>2, RowFields
  <2>4. held[a][i] <= mono + (rows[a].hold - wall)
    BY <1>4, <2>2, <2>3
  <2> QED
    BY <1>7, <2>2, <2>4 DEF Durable, Waits
<1>21. view' = DurableLeases(entries')
  <2>1. DurableLeases(entries') = [a \in Addrs |-> CommittedAt(entries', a)]
    BY DurableAt
  <2>2. rows = [a \in Addrs |-> rows[a]]
    BY <1>4
  <2> QED
    BY <1>1, <1>17, <2>1, <2>2
<1>22. TypeOK'
  <2>1. bitmap' \subseteq Addrs
    BY <1>1, SettingsType
  <2>2. probes' \in 0..MaxProbes /\ restarts' \in 0..MaxRestarts /\ gen' \in Generations
    BY <1>1, <1>4, DhcpAssumption DEF MaxProbes
  <2>3. view' \in [Addrs -> Row \cup {NoRow}]
    BY <1>1, <1>4
  <2>4. sequence' \in Nat /\ lastTime' \in Nat /\ up' \in BOOLEAN
    BY <1>1, <1>4
  <2> QED
    BY <1>2, <1>3, <1>10, <2>1, <2>2, <2>3, <2>4 DEF TypeOK
<1>23. Clock'
  BY <1>2, <1>3 DEF Clock
<1> QED
  BY <1>1, <1>16, <1>19, <1>20, <1>21, <1>22, <1>23, Assembled

\* The arithmetic of a horizon c and a hold t on clocks that go from w, m to w2, m2.
LEMMA HorizonMoves ==
  ASSUME NEW c \in Int, NEW t \in Int, NEW w \in Nat, NEW m \in Nat, NEW w2 \in Nat,
         NEW m2 \in Nat, w2 - m2 <= w - m, c >= t + (w - m)
  PROVE  c >= t + (w2 - m2)
OBVIOUS

\* A row outlasts its lease when the wall clock does not gain on real time.
LEMMA RemainderMoves ==
  ASSUME NEW c \in Nat, NEW t \in Nat, NEW w \in Nat, NEW m \in Nat, NEW w2 \in Nat,
         NEW m2 \in Nat, c - w >= t - m, t - m2 + w2 <= t - m + w
  PROVE  c - w2 >= t - m2
OBVIOUS

\* The wall time at which a hold ends does not move back when the wall clock does not gain.
LEMMA HoldMoves ==
  ASSUME NEW t \in Int, NEW w \in Nat, NEW m \in Nat, NEW w2 \in Nat, NEW m2 \in Nat,
         w2 - m2 <= w - m
  PROVE  t - m2 + w2 <= t - m + w
OBVIOUS

\* A step of the clocks alone.
LEMMA TimeStep ==
  ASSUME IInv, mono' \in 1..MaxTime, wall' \in Nat, stepped' \in BOOLEAN, Clock',
         mono <= mono',
         wall' <= mono' => wall <= mono /\ wall' - mono' <= wall - mono,
         held' \in [Addrs -> [Ids -> Nat]],
         \A a \in Addrs : \A i \in Ids :
           held'[a][i] > mono' => /\ held'[a][i] = held[a][i]
                                  /\ wall' <= mono' =>
                                       held'[a][i] - mono' + wall' <= held[a][i] - mono + wall,
         UNCHANGED <<process, engine, prober, store, runtime>>
  PROVE  IInv'
<1>1. TypeOK /\ Running /\ Down
  BY DEF IInv
<1>2. /\ up' = up /\ restarts' = restarts /\ gen' = gen /\ sequence' = sequence
      /\ lastTime' = lastTime /\ entries' = entries /\ byID' = byID /\ bitmap' = bitmap
      /\ probes' = probes /\ jobs' = jobs /\ found' = found /\ rows' = rows
      /\ lastKnown' = lastKnown /\ queue' = queue /\ results' = results
      /\ storeErr' = storeErr /\ applying' = applying /\ view' = view
  BY DEF process, engine, prober, store, runtime
<1>3. /\ mono \in Nat /\ wall \in Nat /\ mono' \in Nat /\ restarts \in Nat
      /\ held \in [Addrs -> [Ids -> Nat]]
      /\ entries \in [Addrs -> Entry \cup {NoEntry}] /\ rows \in [Addrs -> Row \cup {NoRow}]
  BY <1>1 DEF TypeOK
<1>4. TypeOK'
  BY <1>1, <1>2 DEF TypeOK
<1>5. Anchored' => Anchored
  BY <1>2 DEF Anchored
<1>6. \A a \in Addrs : \A i \in Ids : held'[a][i] > mono' => held[a][i] > mono
  BY <1>3
<1>7. Running'
  <2> SUFFICES ASSUME up PROVE (Engine /\ Flight /\ Protected(entries, held)
                                 /\ view = DurableLeases(entries))'
    BY <1>2 DEF Running
  <2>1. /\ Engine /\ Flight /\ Protected(entries, held) /\ view = DurableLeases(entries)
        /\ Books(entries, byID, bitmap, probes, sequence)
    BY <1>1 DEF Running, Engine
  <2>2. AllSound(entries)'
    <3> SUFFICES ASSUME NEW a \in Addrs, entries[a] # NoEntry, wall' <= mono'
                 PROVE  /\ Sound(entries[a])
                        /\ Durable(entries[a]) /\ ~entries[a].dirty =>
                             entries[a].committed.hold >= entries[a].thold + (wall' - mono')
                        /\ Waits(entries[a]) /\ entries[a].mut.kind = "put" =>
                             entries[a].mut.row.hold >= entries[a].mut.thold + (wall' - mono')
      <4>1. ASSUME NEW a \in Addrs, entries[a] # NoEntry PROVE Sound(entries[a])
        BY <2>1, <4>1 DEF Books, AllSound
      <4> QED
        BY <1>2, <4>1 DEF AllSound, Lasting
    <3> DEFINE v == entries[a]
    <3>1. v \in Entry /\ Sound(v) /\ Lasting(v) /\ wall <= mono
      BY <1>3, <2>1 DEF Books, AllSound
    <3>20. /\ wall' - mono' <= wall - mono /\ mono \in Nat /\ wall \in Nat /\ mono' \in Nat
          /\ wall' \in Nat
      BY <1>3
    <3>2. v.thold \in Int /\ (Durable(v) => v.committed.hold \in Nat)
      BY <3>1, EntryFields, RowFields DEF Durable
    <3>3. Waits(v) => v.mut.row.hold \in Nat /\ v.mut.thold \in Int
      BY <3>1, EntryFields, MutationFields, RowFields DEF Sound
    <3> HIDE DEF v
    <3>4. ASSUME Durable(v), ~v.dirty PROVE v.committed.hold >= v.thold + (wall' - mono')
      <4>1. v.committed.hold >= v.thold + (wall - mono)
        BY <3>1, <3>4 DEF Lasting
      <4> QED
        <5>1. v.committed.hold \in Int /\ v.thold \in Int
          BY ONLY <3>2, <3>4
        <5> QED
          BY ONLY <3>20, <4>1, <5>1, HorizonMoves
    <3>5. ASSUME Waits(v), v.mut.kind = "put"
          PROVE  v.mut.row.hold >= v.mut.thold + (wall' - mono')
      <4>1. v.mut.row.hold >= v.mut.thold + (wall - mono)
        BY <3>1, <3>5 DEF Lasting
      <4> QED
        <5>1. v.mut.row.hold \in Int /\ v.mut.thold \in Int
          BY ONLY <3>3, <3>5
        <5> QED
          BY ONLY <3>20, <4>1, <5>1, HorizonMoves
    <3> QED
      BY <3>1, <3>4, <3>5 DEF v
  <2>3. Engine'
    <3>1. Cfg' = Cfg /\ Reserved' = Reserved
      BY <1>2 DEF Cfg, Reserved
    <3>2. Tables(entries, byID)' /\ Indexed(entries, byID)' /\ Tokens(entries, sequence)'
      BY <1>2, <2>1 DEF Books, Tables, Indexed, Tokens
    <3>3. Counted(entries, bitmap, probes)' /\ Fits(Cfg, HeldIn(entries), entries)'
      BY <1>2, <2>1, <3>1 DEF Books, Counted, Fits
    <3> QED
      BY <2>2, <3>2, <3>3 DEF Engine, Books
  <2>4. Flight'
    BY <1>2, <2>1 DEF Flight
  <2>5. Protected(entries, held)'
    BY <1>2, <1>5, <1>6, <2>1 DEF Protected
  <2> QED
    BY <1>2, <2>1, <2>3, <2>4, <2>5
<1>8. Down'
  <2> SUFFICES ASSUME ~up PROVE (queue = << >> /\ results = << >> /\ AlwaysRecoverable
                                  /\ GrantIsDurable)'
    BY <1>2 DEF Down
  <2>1. queue = << >> /\ results = << >> /\ AlwaysRecoverable /\ GrantIsDurable
    BY <1>1 DEF Down
  <2>2. AlwaysRecoverable'
    BY <1>2, <2>1 DEF AlwaysRecoverable, Recoverable, Stored, Fits, Cfg
  <2>3. GrantIsDurable'
    <3> SUFFICES ASSUME Anchored', NEW a \in Addrs, NEW i \in Ids, held'[a][i] > mono'
                 PROVE  /\ rows[a] # NoRow /\ rows[a].id = i
                        /\ wall' <= mono' => rows[a].hold - wall' >= held'[a][i] - mono'
      BY <1>2 DEF GrantIsDurable
    <3>1. /\ rows[a] # NoRow /\ rows[a].id = i
          /\ wall <= mono => rows[a].hold - wall >= held[a][i] - mono
      BY <1>5, <1>6, <2>1 DEF GrantIsDurable
    <3>2. rows[a].hold \in Nat /\ held[a][i] \in Nat /\ held'[a][i] = held[a][i]
      BY <1>3, <3>1, RowFields
    <3> DEFINE h == held[a][i]
               k == rows[a].hold
    <3>3. ASSUME wall' <= mono' PROVE k - wall' >= h - mono'
      <4>1. /\ wall <= mono /\ k - wall >= h - mono /\ h - mono' + wall' <= h - mono + wall
            /\ k \in Nat /\ h \in Nat
        BY <3>1, <3>2, <3>3
      <4>2. mono \in Nat /\ wall \in Nat /\ mono' \in Nat /\ wall' \in Nat
        BY <1>3
      <4> HIDE DEF h, k
      <4> QED
        BY ONLY <4>1, <4>2, RemainderMoves
    <3> QED
      BY <3>1, <3>2, <3>3
  <2> QED
    BY <1>2, <2>1, <2>2, <2>3
<1> QED
  BY <1>4, <1>7, <1>8 DEF IInv

\* Both clocks run.
LEMMA AdvanceStep ==
  ASSUME IInv, Advance
  PROVE  IInv'
<1>1. /\ mono < MaxTime /\ mono' = mono + 1 /\ wall' = wall + 1 /\ stepped' = stepped
      /\ held' = [a \in Addrs |-> [i \in Ids |-> IF held[a][i] <= mono' THEN 0 ELSE held[a][i]]]
      /\ UNCHANGED <<process, engine, prober, store, runtime>>
  BY DEF Advance
<1>2. /\ mono \in 1..MaxTime /\ wall \in Nat /\ stepped \in BOOLEAN /\ Clock
      /\ held \in [Addrs -> [Ids -> Nat]]
  BY DEF IInv, TypeOK
<1>3. /\ mono' \in 1..MaxTime /\ wall' \in Nat /\ mono \in Nat /\ mono <= mono'
      /\ wall' <= mono' => wall <= mono /\ wall' - mono' <= wall - mono
  <2>1. MaxTime \in Nat
    BY DhcpAssumption
  <2> QED
    BY ONLY <1>1, <1>2, <2>1
<1>4. held' \in [Addrs -> [Ids -> Nat]]
  BY <1>1, <1>2
<1>5. ASSUME NEW a \in Addrs, NEW i \in Ids, held'[a][i] > mono'
      PROVE  /\ held'[a][i] = held[a][i]
             /\ held'[a][i] - mono' + wall' <= held[a][i] - mono + wall
  <2>1. held'[a][i] = IF held[a][i] <= mono' THEN 0 ELSE held[a][i]
    BY <1>1
  <2>2. held[a][i] \in Nat
    BY <1>2
  <2>3. held'[a][i] = held[a][i]
    BY <1>3, <1>5, <2>1, <2>2
  <2> QED
    BY <1>1, <1>2, <1>3, <2>2, <2>3
<1>6. Clock' /\ stepped' \in BOOLEAN
  BY <1>1, <1>2 DEF Clock
<1> QED
  BY <1>1, <1>3, <1>4, <1>5, <1>6, TimeStep

\* Somebody sets the wall clock.
LEMMA SetClockStep ==
  ASSUME IInv, SetClock
  PROVE  IInv'
<1>1. /\ ~stepped /\ stepped' = TRUE /\ mono' = mono /\ held' = held
      /\ \/ Forward > 0 /\ wall' = wall + Forward
         \/ Back > 0 /\ wall > Back /\ wall' = wall - Back
      /\ UNCHANGED <<process, engine, prober, store, runtime>>
  BY DEF SetClock
<1>2. /\ mono \in 1..MaxTime /\ wall \in Nat /\ wall = mono
      /\ held \in [Addrs -> [Ids -> Nat]]
  BY <1>1 DEF IInv, TypeOK, Clock
<1>3. Forward \in Nat /\ Back \in Nat
  BY DhcpAssumption
<1>4. /\ mono' \in 1..MaxTime /\ wall' \in Nat /\ mono \in Nat /\ mono <= mono'
      /\ wall' <= mono' => wall <= mono /\ wall' - mono' <= wall - mono
  BY ONLY <1>1, <1>2, <1>3
<1>5. ASSUME NEW a \in Addrs, NEW i \in Ids
      PROVE  wall' <= mono' => held'[a][i] - mono' + wall' <= held[a][i] - mono + wall
  <2> DEFINE h == held[a][i]
  <2>1. h \in Nat /\ held'[a][i] = h
    BY <1>1, <1>2
  <2> HIDE DEF h
  <2>2. wall' <= mono' => h - mono' + wall' <= h - mono + wall
    <3>1. wall' \in Nat /\ mono' \in Nat /\ wall \in Nat /\ mono \in Nat /\ h \in Int
      BY <1>1, <1>2, <1>4, <2>1
    <3> QED
      BY ONLY <1>4, <3>1, HoldMoves
  <2> QED
    BY <2>1, <2>2 DEF h
<1>6. Clock' /\ stepped' \in BOOLEAN
  BY <1>1 DEF Clock
<1>7. \A a \in Addrs : \A i \in Ids : held'[a][i] = held[a][i]
  BY <1>1
<1>8. held' \in [Addrs -> [Ids -> Nat]]
  BY <1>1, <1>2
<1> QED
  BY <1>1, <1>4, <1>5, <1>6, <1>7, <1>8, TimeStep

\* There is room for the reservations.
LEMMA ReservationsFit ==
  ASSUME NEW g \in Generations
  PROVE  Cardinality(ReservedAt(Settings[g])) <= Settings[g].cap
<1> DEFINE s == Settings[g]
           S == {i \in Ids : s.res[i] # NoAddr}
           A == ReservedAt(s)
           f == [i \in S |-> s.res[i]]
<1>1. /\ A \subseteq Addrs /\ s.cap \in Nat
      /\ \A i, j \in Ids : s.res[i] # NoAddr /\ i # j => s.res[i] # s.res[j]
  BY SettingsType
<1>2. Cardinality(S) <= s.cap
  BY DhcpAssumption
<1>3. A = {s.res[i] : i \in S}
  BY DEF ReservedAt
<1>4. IsFiniteSet(A)
  BY <1>1, DhcpAssumption, FS_Subset
<1> HIDE DEF A
<1>5. f \in [S -> A] /\ \A i \in S : f[i] = s.res[i]
  BY <1>3
<1>6. \A i, j \in S : f[i] = f[j] => i = j
  BY <1>1, <1>5
<1>7. \A a \in A : \E i \in S : f[i] = a
  BY <1>3, <1>5
<1> HIDE DEF f, S, s
<1>8. f \in Injection(S, A) /\ f \in Surjection(S, A)
  BY ONLY <1>5, <1>6, <1>7 DEF Injection, IsInjective, Surjection
<1>9. IsFiniteSet(S)
  BY ONLY <1>4, <1>8, FS_Injection
<1>10. Cardinality(A) <= Cardinality(S)
  BY ONLY <1>8, <1>9, FS_Surjection
<1>11. Cardinality(A) \in Nat /\ Cardinality(S) \in Nat
  BY ONLY <1>4, <1>9, FS_CardinalityType
<1>12. Cardinality(A) <= s.cap
  BY ONLY <1>1, <1>2, <1>10, <1>11
<1> QED
  BY <1>12 DEF A, s

\* The invariant holds at the start.
LEMMA InitInv ==
  ASSUME Init
  PROVE  IInv
<1>1. /\ mono = 1 /\ wall = 1 /\ stepped = FALSE
      /\ up = TRUE /\ restarts = 0
      /\ gen = 1 /\ sequence = 0 /\ lastTime = 1
      /\ entries = [a \in Addrs |-> NoEntry] /\ byID = [i \in Ids |-> NoAddr]
      /\ bitmap = ReservedAt(Settings[1]) \cap Settings[1].pool /\ probes = 0
      /\ jobs = {} /\ found = {}
      /\ rows = [a \in Addrs |-> NoRow] /\ lastKnown = 1
      /\ queue = << >> /\ results = << >> /\ storeErr = "none"
      /\ applying = 0 /\ view = [a \in Addrs |-> NoRow]
      /\ held = [a \in Addrs |-> [i \in Ids |-> 0]]
  BY DEF Init, Nobody
<1>2. gen \in Generations /\ Cfg = Settings[1] /\ Reserved = ReservedAt(Settings[1])
  <2>1. Len(Settings) \in Nat /\ Len(Settings) > 0
    BY DhcpAssumption, LenProperties
  <2> QED
    BY <1>1, <2>1 DEF Generations, Cfg, Reserved
<1>3. TypeOK
  <2>1. bitmap \subseteq Addrs
    BY <1>1, <1>2, SettingsType
  <2>2. /\ mono \in 1..MaxTime /\ restarts \in 0..MaxRestarts /\ probes \in 0..MaxProbes
    BY <1>1, DhcpAssumption DEF MaxProbes
  <2>3. /\ queue \in Seq(Mutation) /\ Len(queue) <= QueueCap
        /\ results \in Seq([tok : Token, ok : BOOLEAN])
    BY <1>1, DhcpAssumption
  <2> QED
    BY <1>1, <1>2, <2>1, <2>2, <2>3 DEF TypeOK
<1>4. HeldIn(entries) = {} /\ ProbingIn(entries) = {}
  BY <1>1 DEF HeldIn, ProbingIn
<1>5. Engine
  <2>1. Tables(entries, byID) /\ AllSound(entries) /\ Tokens(entries, sequence)
        /\ Indexed(entries, byID)
    BY <1>1 DEF Tables, AllSound, Tokens, Indexed
  <2>2. Counted(entries, bitmap, probes)
    <3>1. Cardinality({}) = 0 /\ 0 <= MaxProbes
      BY FS_EmptySet DEF MaxProbes
    <3> QED
      BY <1>1, <1>2, <1>4, <3>1 DEF Counted
  <2>3. Fits(Cfg, HeldIn(entries), entries)
    <3>1. Cardinality(ReservedAt(Cfg)) <= Cfg.cap
      BY <1>1, <1>2, ReservationsFit
    <3>2. {} \cup ReservedAt(Cfg) = ReservedAt(Cfg)
      OBVIOUS
    <3> QED
      BY <1>4, <3>1, <3>2 DEF Fits
  <2> QED
    BY <2>1, <2>2, <2>3 DEF Engine, Books
<1>6. Flight
  <2>1. \A a \in Addrs : ~Busy(entries, a) /\ rows[a] = CommittedAt(entries, a)
    BY <1>1 DEF Busy, CommittedAt
  <2>2. Len(queue) = 0 /\ Len(results) = 0
    BY <1>1
  <2> QED
    BY <2>1, <2>2 DEF Flight, InFlight, Carried, Written, Answered
<1>7. Protected(entries, held)
  BY <1>1 DEF Protected
<1>8. view = DurableLeases(entries)
  BY <1>1 DEF DurableLeases
<1>9. Clock
  BY <1>1 DEF Clock
<1> QED
  BY <1>1, <1>3, <1>5, <1>6, <1>7, <1>8, <1>9 DEF IInv, Running, Down
-----------------------------------------------------------------------------
(* Tick.                                                                   *)

\* An entry the scan frees: nothing of it is durable, and nobody waits for it.
LEMMA TickVanishes ==
  ASSUME IInv, up, NEW a \in Vanishes
  PROVE  /\ a \in Addrs /\ entries[a] # NoEntry /\ ~Durable(entries[a]) /\ ~Waits(entries[a])
         /\ a \notin Rewrites \cup Deletes
<1>1. entries \in [Addrs -> Entry \cup {NoEntry}] /\ AllSound(entries)
  BY Served
<1>2. a \in Addrs /\ entries[a] # NoEntry /\ a \notin Rewrites
  BY DEF Vanishes, HeldIn
<1>3. Sound(entries[a])
  BY <1>1, <1>2 DEF AllSound
<1>4. \/ entries[a].st = "probing"
      \/ entries[a].st \in {"offered", "bound", "quarantined"} /\ ~Durable(entries[a])
  BY DEF Vanishes, ProbeOver, RanOut
<1>5. ~Durable(entries[a]) /\ ~Waits(entries[a])
  BY <1>3, <1>4 DEF Sound, Waits
<1> QED
  BY <1>2, <1>5 DEF Deletes

\* An entry the scan writes: a quarantine that is not stored yet, or a lease that ran out.
LEMMA TickWrites ==
  ASSUME IInv, up, NEW a \in Rewrites \cup Deletes, NEW n \in Nat, n > 0,
         NEW w, w = TickMutate(a, n)
  PROVE  /\ a \in Addrs /\ entries[a] # NoEntry /\ entries[a] \in Entry
         /\ entries[a].st \in {"offered", "bound", "quarantined"}
         /\ entries[a].dirty \/ mono >= entries[a].thold
         /\ NextToken(n) \in Token /\ Sends(entries[a], w, NextToken(n))
         /\ Claims(w) => Claims(entries[a])
<1>1. /\ entries \in [Addrs -> Entry \cup {NoEntry}] /\ AllSound(entries)
      /\ gen \in Generations /\ sequence \in Nat /\ mono \in Nat /\ wall \in Nat
  BY Served
<1>2. a \in Addrs /\ entries[a] # NoEntry
  BY DEF Rewrites, Deletes, HeldIn
<1>3. entries[a] \in Entry /\ Sound(entries[a]) /\ Lasting(entries[a])
  BY <1>1, <1>2 DEF AllSound
<1>4. NextToken(n) \in Token
  BY <1>1, NextTokenType
<1>5. NoRequest \in Request
  BY DEF NoRequest, Request
<1>6. CASE a \in Rewrites
  <2>1. Unsaved(entries[a])
    BY <1>6 DEF Rewrites
  <2>2. w = Mutate(entries[a], "put", LeaseOf(entries[a], entries[a].st), entries[a].texp,
                   entries[a].thold, NoRequest, NextToken(n))
    BY <1>6 DEF TickMutate
  <2>3. Sends(entries[a], w, NextToken(n)) /\ (Claims(w) => Claims(entries[a]))
    BY ONLY <1>1, <1>3, <1>4, <2>1, <2>2, RewriteSends
  <2>4. entries[a].dirty /\ entries[a].st = "quarantined"
    BY <1>3, <2>1 DEF Unsaved, Sound
  <2> QED
    BY <1>2, <1>3, <1>4, <2>3, <2>4
<1>7. CASE a \notin Rewrites
  <2>1. RanOut(entries[a]) /\ Durable(entries[a]) /\ ~Unsaved(entries[a]) /\ a \in Deletes
    BY <1>7 DEF Rewrites, Deletes
  <2>2. /\ entries[a].st \in {"bound", "quarantined"} /\ ~entries[a].dirty
        /\ mono >= entries[a].thold
    BY <1>3, <2>1 DEF RanOut, Unsaved, Sound
  <2>3. w = Mutate(entries[a], "delete", entries[a].committed, entries[a].texp,
                   entries[a].thold, NoRequest, NextToken(n))
    BY <1>7 DEF TickMutate
  <2>4. Sends(entries[a], w, NextToken(n)) /\ (Claims(w) => Claims(entries[a]))
    BY ONLY <1>1, <1>3, <1>4, <1>5, <2>1, <2>2, <2>3, DeleteSends
  <2> QED
    BY <1>2, <1>3, <1>4, <2>2, <2>4
<1> QED
  BY <1>6, <1>7

\* What becomes of an entry the scan writes, whether the queue has room or not.
LEMMA TickPasses ==
  ASSUME IInv, up, NEW a \in Rewrites \cup Deletes, NEW n \in Nat, n > 0,
         NEW m \in Nat, sequence + n <= m, NEW f
  PROVE  /\ f = TickMutate(a, n) =>
              /\ Passed(entries[a], f, sequence, m) /\ Waits(f) /\ f.tok = NextToken(n)
              /\ f.committed = entries[a].committed
         /\ f = Fail(TickMutate(a, n)) =>
              /\ Passed(entries[a], f, sequence, m) /\ ~Waits(f) /\ f.tok = NoToken
              /\ f.committed = entries[a].committed
<1> DEFINE w == TickMutate(a, n)
<1>1. gen \in Generations /\ sequence \in Nat
  BY Served
<1>2. /\ entries[a].st \in {"offered", "bound", "quarantined"} /\ entries[a] \in Entry
      /\ NextToken(n) \in Token /\ Sends(entries[a], w, NextToken(n))
      /\ Claims(w) => Claims(entries[a])
  BY TickWrites
<1>3. NextToken(n).gen = gen /\ sequence < NextToken(n).seq /\ NextToken(n).seq <= m
  BY <1>1, NextTokenType
<1> HIDE DEF w
<1>4. /\ w \in Entry /\ Sound(w) /\ Lasting(w) /\ Waits(w) /\ w.id = entries[a].id
      /\ w.committed = entries[a].committed /\ w.tok = NextToken(n)
  BY <1>2 DEF Sends
<1>5. Passed(entries[a], w, sequence, m)
  BY <1>2, <1>3, <1>4 DEF Passed, Waits
<1>6. ASSUME f = Fail(w)
      PROVE  /\ Passed(entries[a], f, sequence, m) /\ ~Waits(f) /\ f.tok = NoToken
             /\ f.committed = entries[a].committed
  <2>1. /\ f \in Entry /\ Sound(f) /\ Lasting(f)
        /\ f.st \in {"offered", "bound", "quarantined"} /\ f.tok = NoToken
        /\ f.id = w.id /\ f.committed = w.committed
        /\ Claims(f) => Claims(w)
    BY <1>4, <1>6, FailSound
  <2> QED
    BY <1>2, <1>4, <2>1 DEF Passed, Waits
<1> QED
  BY <1>4, <1>5, <1>6 DEF w

\* An entry the scan leaves alone passes it.
LEMMA StillPasses ==
  ASSUME IInv, up, NEW a \in Addrs, entries[a] # NoEntry, NEW m
  PROVE  Passed(entries[a], entries[a], sequence, m)
<1>1. entries \in [Addrs -> Entry \cup {NoEntry}] /\ AllSound(entries)
  BY Served
<1> QED
  BY <1>1 DEF AllSound, Passed

\* The table after a pass that writes entries in the given order and sends some of the
\* writes.
Ticked(order, sent) ==
  [a \in Addrs |->
     IF a \in Vanishes THEN NoEntry
     ELSE IF a \notin Rewrites \cup Deletes THEN entries[a]
     ELSE LET n == CHOOSE k \in DOMAIN order : order[k] = a
          IN IF n \in sent THEN TickMutate(a, n) ELSE Fail(TickMutate(a, n))]

\* F is the table after such a pass: every entry that is written has its place in the order.
IsPass(order, sent, F) ==
  /\ Len(order) \in Nat /\ DOMAIN order = 1..Len(order)
  /\ DOMAIN F = Addrs /\ F = [a \in Addrs |-> F[a]]
  /\ \A a \in Vanishes : F[a] = NoEntry
  /\ \A a \in Addrs : a \notin Vanishes \cup Rewrites \cup Deletes => F[a] = entries[a]
  /\ \A k, l \in DOMAIN order : order[k] = order[l] => k = l
  /\ \A a \in Rewrites \cup Deletes : \E k \in DOMAIN order : order[k] = a
  /\ \A k \in DOMAIN order :
       /\ order[k] \in Rewrites \cup Deletes /\ order[k] \in Addrs
       /\ k \in sent => F[order[k]] = TickMutate(order[k], k)
       /\ k \notin sent => F[order[k]] = Fail(TickMutate(order[k], k))

\* What Tick makes of the table, when it writes the entries in the given order and the
\* queue has room for some of them.
LEMMA TickTable ==
  ASSUME IInv, up, NEW order \in Orders(Rewrites \cup Deletes), NEW sent \in SUBSET Nat,
         NEW F, F = Ticked(order, sent)
  PROVE  IsPass(order, sent, F)
<1> DEFINE W == Rewrites \cup Deletes
<1>1. W \subseteq Addrs
  BY DEF Rewrites, Deletes, HeldIn
<1>2. \A a \in Vanishes : a \in Addrs /\ a \notin W
  BY TickVanishes
<1> DEFINE num(a) == CHOOSE k \in DOMAIN order : order[k] = a
<1>3. F = [a \in Addrs |->
             IF a \in Vanishes THEN NoEntry
             ELSE IF a \notin W THEN entries[a]
             ELSE IF num(a) \in sent THEN TickMutate(a, num(a)) ELSE Fail(TickMutate(a, num(a)))]
  BY DEF Ticked
<1> HIDE DEF W
<1>4. /\ Cardinality(W) \in Nat /\ DOMAIN order = 1..Cardinality(W)
      /\ Len(order) = Cardinality(W)
      /\ \A k \in DOMAIN order : order[k] \in W
      /\ \A k, l \in DOMAIN order : order[k] = order[l] => k = l
      /\ \A a \in W : \E k \in DOMAIN order : order[k] = a
  BY <1>1, OrderOf DEF W
<1>5. ASSUME NEW k \in DOMAIN order PROVE num(order[k]) = k
  BY <1>4
<1> HIDE DEF num
<1>6. /\ \A a \in Vanishes : F[a] = NoEntry
      /\ \A a \in Addrs : a \notin Vanishes \cup W => F[a] = entries[a]
  BY <1>2, <1>3
<1>7. ASSUME NEW k \in DOMAIN order
      PROVE  /\ order[k] \in W /\ order[k] \in Addrs
             /\ k \in sent => F[order[k]] = TickMutate(order[k], k)
             /\ k \notin sent => F[order[k]] = Fail(TickMutate(order[k], k))
  <2>1. order[k] \in W /\ order[k] \in Addrs /\ order[k] \notin Vanishes
    BY <1>1, <1>2, <1>4
  <2>2. F[order[k]] = IF num(order[k]) \in sent THEN TickMutate(order[k], num(order[k]))
                                                ELSE Fail(TickMutate(order[k], num(order[k])))
    BY <1>3, <2>1
  <2> QED
    BY <1>5, <2>1, <2>2
<1>8. DOMAIN F = Addrs /\ F = [a \in Addrs |-> F[a]]
  <2> DEFINE val(a) == IF a \in Vanishes THEN NoEntry
                       ELSE IF a \notin W THEN entries[a]
                       ELSE IF num(a) \in sent THEN TickMutate(a, num(a))
                                               ELSE Fail(TickMutate(a, num(a)))
  <2>1. F = [a \in Addrs |-> val(a)]
    BY <1>3
  <2> HIDE DEF val
  <2> QED
    BY <2>1
<1>9. Vanishes \cup W = Vanishes \cup Rewrites \cup Deletes
  BY DEF W
<1> QED
  BY <1>4, <1>6, <1>7, <1>8, <1>9 DEF W, IsPass

\* A value that may be written in the queue.
LEMMA SentSequence ==
  ASSUME NEW N \in Nat, NEW free \in Nat, NEW sent, sent = {n \in 1..N : n <= free}
  PROVE  \E k \in Nat : sent = 1..k /\ k <= N /\ k <= free
<1>1. CASE N <= free
  <2>1. sent = 1..N
    BY <1>1
  <2> QED
    BY <1>1, <2>1
<1>2. CASE ~(N <= free)
  <2>1. sent = 1..free /\ free <= N
    BY <1>2
  <2> QED
    BY <2>1
<1> QED
  BY <1>1, <1>2

\* The pass leaves what is durable and what waits alone, and only entries whose write is sent
\* begin to wait, with a new token.
Joins(order, sent, F) ==
  /\ \A a \in Addrs : CommittedAt(F, a) = CommittedAt(entries, a)
  /\ \A a \in Addrs : Busy(entries, a) => F[a] = entries[a]
  /\ \A a \in Addrs : Busy(F, a) =>
       Busy(entries, a) \/ \E k \in sent \cap DOMAIN order : order[k] = a
  /\ \A a \in Addrs : Busy(F, a) /\ ~Busy(entries, a) => F[a].tok.seq > sequence

\* A pass is a scan, and its writes join the ones in flight.
LEMMA TickScans ==
  ASSUME IInv, up, NEW order \in Orders(Rewrites \cup Deletes), NEW sent \in SUBSET Nat,
         NEW F, F = Ticked(order, sent),
         NEW m \in Nat, m = sequence + Len(order)
  PROVE  /\ Scanned(entries, F, Vanishes, sequence, m)
         /\ Joins(order, sent, F)
<1>0. IsPass(order, sent, F)
  BY TickTable
<1>1. /\ Len(order) \in Nat /\ DOMAIN order = 1..Len(order)
      /\ \A a \in Vanishes : F[a] = NoEntry
      /\ \A a \in Addrs : a \notin Vanishes \cup Rewrites \cup Deletes => F[a] = entries[a]
      /\ \A k, l \in DOMAIN order : order[k] = order[l] => k = l
      /\ \A a \in Rewrites \cup Deletes : \E k \in DOMAIN order : order[k] = a
      /\ \A k \in DOMAIN order :
           /\ order[k] \in Rewrites \cup Deletes /\ order[k] \in Addrs
           /\ k \in sent => F[order[k]] = TickMutate(order[k], k)
           /\ k \notin sent => F[order[k]] = Fail(TickMutate(order[k], k))
  BY <1>0 DEF IsPass
<1>2. /\ entries \in [Addrs -> Entry \cup {NoEntry}] /\ AllSound(entries)
      /\ Tokens(entries, sequence) /\ gen \in Generations /\ sequence \in Nat
  BY Served
<1>3. ASSUME NEW a \in Addrs, NEW k \in DOMAIN order, order[k] = a
      PROVE  /\ entries[a] # NoEntry /\ ~Waits(entries[a])
             /\ Passed(entries[a], F[a], sequence, m)
             /\ F[a].committed = entries[a].committed
             /\ k \in sent => Waits(F[a]) /\ F[a].tok = NextToken(k)
             /\ k \notin sent => ~Waits(F[a]) /\ F[a].tok = NoToken
  <2>1. k \in Nat /\ k > 0 /\ sequence + k <= m
    <3>1. Len(order) \in Nat /\ k \in 1..Len(order)
      BY <1>1
    <3> QED
      BY ONLY <1>2, <3>1, m = sequence + Len(order)
  <2>2. /\ a \in Rewrites \cup Deletes
        /\ \/ k \in sent /\ F[a] = TickMutate(a, k)
           \/ k \notin sent /\ F[a] = Fail(TickMutate(a, k))
    BY <1>1, <1>3
  <2>3. /\ entries[a] # NoEntry
        /\ entries[a].st \in {"offered", "bound", "quarantined"}
    BY <2>1, <2>2, TickWrites
  <2>4. /\ Passed(entries[a], F[a], sequence, m) /\ F[a].committed = entries[a].committed
        /\ k \in sent => Waits(F[a]) /\ F[a].tok = NextToken(k)
        /\ k \notin sent => ~Waits(F[a]) /\ F[a].tok = NoToken
    BY <2>1, <2>2, TickPasses
  <2> QED
    BY <2>3, <2>4 DEF Waits
<1>4. ASSUME NEW a \in Addrs
      PROVE  \/ a \in Vanishes /\ F[a] = NoEntry
             \/ a \notin Vanishes /\ F[a] = entries[a]
             \/ a \notin Vanishes /\ \E k \in DOMAIN order : order[k] = a
  <2>1. a \in Vanishes => a \notin Rewrites \cup Deletes
    BY TickVanishes
  <2> QED
    BY <1>1, <2>1
<1>5. Scanned(entries, F, Vanishes, sequence, m)
  <2>1. ASSUME NEW a \in Addrs
        PROVE  /\ a \in Vanishes => entries[a] # NoEntry /\ F[a] = NoEntry
               /\ a \notin Vanishes /\ entries[a] = NoEntry => F[a] = NoEntry
               /\ a \notin Vanishes /\ entries[a] # NoEntry =>
                    Passed(entries[a], F[a], sequence, m)
    <3>1. CASE a \in Vanishes
      BY <1>1, <3>1, TickVanishes
    <3>2. CASE a \notin Vanishes /\ F[a] = entries[a]
      BY <3>2, StillPasses
    <3>3. CASE a \notin Vanishes /\ \E k \in DOMAIN order : order[k] = a
      BY <1>3, <3>3
    <3> QED
      BY <1>4, <3>1, <3>2, <3>3
  <2>2. ASSUME NEW a \in Addrs, NEW b \in Addrs, F[a] # NoEntry, F[b] # NoEntry,
               F[a].tok = F[b].tok, sequence < F[a].tok.seq
        PROVE  a = b
    <3>1. ASSUME NEW c \in Addrs, F[c] # NoEntry, sequence < F[c].tok.seq
          PROVE  \E k \in DOMAIN order : order[k] = c /\ k \in sent /\ F[c].tok = NextToken(k)
      <4>0. NoToken.seq = 0
        BY DEF NoToken
      <4>1. F[c] = entries[c] => FALSE
        <5> SUFFICES ASSUME F[c] = entries[c] PROVE FALSE
          OBVIOUS
        <5>1. entries[c].tok # NoToken
          BY <1>2, <3>1, <4>0
        <5>2. entries[c].tok.seq <= sequence /\ entries[c].tok.seq \in Nat
          BY <1>2, <3>1, <5>1, EntryFields, TokenFields DEF Tokens
        <5> QED
          BY <1>2, <3>1, <5>2
      <4>2. PICK k \in DOMAIN order : order[k] = c
        BY <1>4, <3>1, <4>1
      <4>3. k \in sent
        BY <1>2, <1>3, <3>1, <4>0, <4>2
      <4> QED
        BY <1>3, <4>2, <4>3
    <3>2. PICK k \in DOMAIN order : order[k] = a /\ F[a].tok = NextToken(k)
      BY <2>2, <3>1
    <3>3. PICK l \in DOMAIN order : order[l] = b /\ F[b].tok = NextToken(l)
      BY <2>2, <3>1
    <3>4. NextToken(k).seq = sequence + k /\ NextToken(l).seq = sequence + l
      BY DEF NextToken
    <3>5. sequence + k = sequence + l
      BY <2>2, <3>2, <3>3, <3>4
    <3>6. k \in Nat /\ l \in Nat
      BY <1>1
    <3>7. k = l
      BY ONLY <1>2, <3>5, <3>6
    <3> QED
      BY <3>2, <3>3, <3>7
  <2> QED
    BY <2>1, <2>2 DEF Scanned
<1>6. ASSUME NEW a \in Addrs
      PROVE  CommittedAt(F, a) = CommittedAt(entries, a)
  <2>1. CASE a \in Vanishes /\ F[a] = NoEntry
    BY <2>1, TickVanishes DEF CommittedAt, Durable
  <2>2. CASE F[a] = entries[a]
    BY <2>2 DEF CommittedAt
  <2>3. CASE \E k \in DOMAIN order : order[k] = a
    <3>1. /\ entries[a] # NoEntry /\ Passed(entries[a], F[a], sequence, m)
          /\ F[a].committed = entries[a].committed
      BY <1>3, <2>3
    <3>2. F[a] # NoEntry
      BY <3>1, EntryFields DEF Passed
    <3> QED
      BY <3>1, <3>2 DEF CommittedAt
  <2> QED
    BY <1>4, <2>1, <2>2, <2>3
<1>7. \A a \in Addrs : Busy(entries, a) => F[a] = entries[a]
  BY <1>3, <1>4, TickVanishes DEF Busy
<1>8. ASSUME NEW a \in Addrs, Busy(F, a), ~Busy(entries, a)
      PROVE  \E k \in sent \cap DOMAIN order : order[k] = a /\ F[a].tok = NextToken(k)
  <2>1. PICK k \in DOMAIN order : order[k] = a
    BY <1>4, <1>8 DEF Busy
  <2>2. k \in sent /\ F[a].tok = NextToken(k)
    BY <1>3, <1>8, <2>1 DEF Busy
  <2> QED
    BY <2>1, <2>2
<1>9. ASSUME NEW a \in Addrs, Busy(F, a), ~Busy(entries, a)
      PROVE  F[a].tok.seq > sequence
  <2>1. PICK k \in sent \cap DOMAIN order : F[a].tok = NextToken(k)
    BY <1>8, <1>9
  <2>2. k \in Nat /\ k > 0 /\ NextToken(k).seq = sequence + k
    BY <1>1 DEF NextToken
  <2> QED
    BY <1>2, <2>1, <2>2
<1> QED
  BY <1>5, <1>6, <1>7, <1>8, <1>9 DEF Joins

\* What clients hold is left alone.
LEMMA TickProtects ==
  ASSUME IInv, up, NEW order, NEW sent, NEW F, IsPass(order, sent, F)
  PROVE  Protected(F, held)
<1> SUFFICES ASSUME Anchored, NEW a \in Addrs, NEW i \in Ids, held[a][i] > mono
             PROVE  F[a] = entries[a]
  <2>1. Protected(entries, held)
    BY Served
  <2> QED
    BY <2>1 DEF Protected
<1>1. /\ Protected(entries, held) /\ entries \in [Addrs -> Entry \cup {NoEntry}] /\ mono \in Nat
      /\ held \in [Addrs -> [Ids -> Nat]]
  BY Served DEF Others
<1>2. /\ entries[a] # NoEntry /\ held[a][i] <= entries[a].thold /\ Durable(entries[a])
      /\ ~entries[a].dirty
  BY <1>1 DEF Protected
<1>3. entries[a].thold \in Int /\ held[a][i] \in Nat
  BY <1>1, <1>2, EntryFields
<1>4. ~(mono >= entries[a].thold)
  BY ONLY <1>1, <1>2, <1>3, held[a][i] > mono
<1>5. a \notin Vanishes
  BY <1>2, TickVanishes
<1>6. a \notin Rewrites \cup Deletes
  <2>1. 1 \in Nat /\ 1 > 0
    OBVIOUS
  <2> QED
    BY <1>2, <1>4, <2>1, TickWrites
<1> QED
  BY <1>5, <1>6 DEF IsPass

\* The writes of the pass join the queue.
LEMMA TickSends ==
  ASSUME IInv, up, NEW order \in Orders(Rewrites \cup Deletes), NEW free \in Nat,
         NEW sent, sent = {n \in DOMAIN order : n <= free},
         NEW F, F = Ticked(order, sent), F \in [Addrs -> Entry \cup {NoEntry}],
         NEW S, S = [n \in sent |-> Message(order[n], TickMutate(order[n], n))]
  PROVE  /\ InFlight(F, queue \o S, results, rows, storeErr)
         /\ S \in Seq(Mutation) /\ Len(S) <= free
<1>1. /\ entries \in [Addrs -> Entry \cup {NoEntry}] /\ AllSound(entries)
      /\ Tokens(entries, sequence) /\ gen \in Generations /\ sequence \in Nat
      /\ queue \in Seq(Mutation) /\ results \in Seq(Completion)
      /\ InFlight(entries, queue, results, rows, storeErr)
  BY Served
<1>2. Len(order) \in Nat /\ DOMAIN order = 1..Len(order)
  <2>1. Rewrites \cup Deletes \subseteq Addrs
    BY DEF Rewrites, Deletes, HeldIn
  <2> QED
    BY <2>1, OrderOf
<1>3. PICK c \in Nat : sent = 1..c /\ c <= Len(order) /\ c <= free
  BY <1>2, SentSequence
<1>4. sent \in SUBSET Nat /\ sent \subseteq DOMAIN order
  BY <1>2, <1>3
<1>5. IsPass(order, sent, F)
  BY <1>4, TickTable
<1>6. ASSUME NEW k \in sent
      PROVE  /\ k \in DOMAIN order /\ order[k] \in Addrs /\ F[order[k]] = TickMutate(order[k], k)
             /\ ~Busy(entries, order[k]) /\ Busy(F, order[k])
             /\ Message(order[k], F[order[k]]) \in Mutation
             /\ Message(order[k], F[order[k]]).addr = order[k]
             /\ Message(order[k], F[order[k]]).tok = F[order[k]].tok
  <2> DEFINE a == order[k]
             w == TickMutate(a, k)
  <2>1. k \in DOMAIN order /\ k \in Nat /\ k > 0
    BY <1>2, <1>4
  <2>2. a \in Rewrites \cup Deletes /\ a \in Addrs /\ F[a] = w
    BY <1>5, <2>1 DEF IsPass
  <2> HIDE DEF a, w
  <2>3. /\ entries[a].st \in {"offered", "bound", "quarantined"}
        /\ Sends(entries[a], w, NextToken(k))
    BY <2>1, <2>2, TickWrites DEF w
  <2>4. w \in Entry /\ Sound(w) /\ Waits(w) /\ w # NoEntry
    BY <2>3, EntryFields DEF Sends
  <2>5. ~Busy(entries, a) /\ Busy(F, a)
    BY <2>2, <2>3, <2>4 DEF Busy, Waits
  <2>6. /\ Message(a, w) \in Mutation
        /\ Message(a, w).tok = w.tok /\ Message(a, w).addr = a
    BY <2>2, <2>4, MessageType
  <2> QED
    BY <2>1, <2>2, <2>5, <2>6 DEF a, w
<1>7. S = [n \in 1..c |-> Message(order[n], F[order[n]])]
  BY <1>3, <1>6
<1>8. S \in Seq(Mutation) /\ Len(S) = c
  BY <1>3, <1>6, <1>7
<1>9. \A k \in 1..Len(S) : /\ ~Busy(entries, S[k].addr) /\ Busy(F, S[k].addr)
                           /\ S[k] = Message(S[k].addr, F[S[k].addr])
                           /\ S[k].tok = F[S[k].addr].tok
                           /\ S[k].addr = order[k] /\ k \in DOMAIN order
  BY <1>3, <1>6, <1>7, <1>8
<1>10. \A k, l \in 1..Len(S) : S[k].addr = S[l].addr => k = l
  <2>1. \A k, l \in DOMAIN order : order[k] = order[l] => k = l
    BY <1>5 DEF IsPass
  <2> QED
    BY ONLY <1>9, <2>1
<1>11. PICK m \in Nat : m = sequence + Len(order)
  BY <1>1, <1>2
<1>12. Joins(order, sent, F)
  <2>1. Scanned(entries, F, Vanishes, sequence, m) /\ Joins(order, sent, F)
    BY <1>4, <1>11, TickScans
  <2> QED
    BY <2>1
<1>13. \A a \in Addrs : Busy(F, a) => Busy(entries, a) \/ \E k \in 1..Len(S) : S[k].addr = a
  <2>1. \A k \in sent : k \in 1..Len(S) /\ S[k].addr = order[k]
    BY ONLY <1>3, <1>8, <1>9
  <2> QED
    BY ONLY <1>12, <2>1 DEF Joins
<1>14. InFlight(F, queue \o S, results, rows, storeErr)
  <2>1. /\ \A a \in Addrs : CommittedAt(F, a) = CommittedAt(entries, a)
        /\ \A a \in Addrs : Busy(entries, a) => F[a] = entries[a]
        /\ \A a \in Addrs : Busy(F, a) /\ ~Busy(entries, a) => F[a].tok.seq > sequence
    BY <1>12 DEF Joins
  <2>2. \A k \in 1..Len(S) : /\ ~Busy(entries, S[k].addr) /\ Busy(F, S[k].addr)
                              /\ S[k] = Message(S[k].addr, F[S[k].addr])
                              /\ S[k].tok = F[S[k].addr].tok
    BY ONLY <1>9
  <2>3. S \in Seq(Mutation)
    BY <1>8
  <2>4. storeErr = "none" =>
          \A a \in Addrs : Busy(F, a) => Busy(entries, a) \/ \E k \in 1..Len(S) : S[k].addr = a
    BY <1>13
  <2>5. /\ entries \in [Addrs -> Entry \cup {NoEntry}] /\ F \in [Addrs -> Entry \cup {NoEntry}]
        /\ sequence \in Nat /\ AllSound(entries) /\ Tokens(entries, sequence)
        /\ queue \in Seq(Mutation) /\ results \in Seq(Completion)
        /\ InFlight(entries, queue, results, rows, storeErr)
    BY <1>1
  <2> QED
    BY ONLY <1>10, <2>1, <2>2, <2>3, <2>4, <2>5, SendInFlight
<1> QED
  BY <1>3, <1>8, <1>14

\* Tick.
LEMMA TickStep ==
  ASSUME IInv, Tick
  PROVE  IInv'
<1>1. up /\ ClockOK /\ ObserveClock
  BY DEF Tick
<1>2. /\ TypeOK /\ Clock /\ Others /\ entries \in [Addrs -> Entry \cup {NoEntry}]
      /\ byID \in [Ids -> Addrs \cup {NoAddr}] /\ queue \in Seq(Mutation)
      /\ sequence \in Nat /\ wall \in Nat /\ gen \in Generations
      /\ Books(entries, byID, bitmap, probes, sequence)
      /\ view = DurableLeases(entries)
  BY <1>1, Served
<1>3. Len(queue) \in Nat /\ Len(queue) <= QueueCap /\ QueueCap \in Nat
  BY <1>2, DhcpAssumption, LenProperties DEF Others
<1> DEFINE free == IF storeErr = "none" THEN QueueCap - Len(queue) ELSE 0
<1>4. free \in Nat /\ Len(queue) + free <= QueueCap
  BY <1>3
<1>5. PICK order \in Orders(Rewrites \cup Deletes) :
        LET sent == {n \in DOMAIN order : n <= free}
        IN /\ entries' = Ticked(order, sent)
           /\ queue' = queue \o [n \in sent |-> Message(order[n], TickMutate(order[n], n))]
           /\ sequence' = sequence + Len(order)
  BY DEF Tick, Ticked
<1> HIDE DEF free
<1> DEFINE sent == {n \in DOMAIN order : n <= free}
           S == [n \in sent |-> Message(order[n], TickMutate(order[n], n))]
<1>6. /\ entries' = Ticked(order, sent) /\ queue' = queue \o S
      /\ sequence' = sequence + Len(order) /\ sent = {n \in DOMAIN order : n <= free}
      /\ S = [n \in sent |-> Message(order[n], TickMutate(order[n], n))]
  BY <1>5
<1> HIDE DEF S
<1>7. Len(order) \in Nat /\ DOMAIN order = 1..Len(order)
  <2>1. Rewrites \cup Deletes \subseteq Addrs
    BY DEF Rewrites, Deletes, HeldIn
  <2> QED
    BY <2>1, OrderOf
<1>8. sent \in SUBSET Nat
  BY <1>7
<1> HIDE DEF sent
<1>9. /\ byID' = [i \in Ids |-> IF byID[i] \in Vanishes THEN NoAddr ELSE byID[i]]
      /\ bitmap' = bitmap \ (Vanishes \ Reserved)
      /\ probes' = probes - Cardinality({a \in Vanishes : entries[a].st = "probing"})
  BY DEF Tick
<1>10. /\ jobs' = jobs /\ found' = found /\ rows' = rows /\ lastKnown' = lastKnown
       /\ results' = results /\ storeErr' = storeErr /\ applying' = applying /\ view' = view
       /\ held' = held
  BY DEF Tick, prober, runtime
<1>11. IsPass(order, sent, entries')
  BY <1>1, <1>6, <1>8, TickTable
<1>12. sequence' \in Nat /\ sequence <= sequence'
  BY <1>2, <1>6, <1>7
<1>13. /\ Scanned(entries, entries', Vanishes, sequence, sequence')
       /\ Joins(order, sent, entries')
  BY <1>1, <1>6, <1>8, <1>12, TickScans
<1>14. Vanishes \in SUBSET Addrs
  BY DEF Vanishes, HeldIn
<1>15. DOMAIN entries' = Addrs /\ entries' = [a \in Addrs |-> entries'[a]]
  BY <1>11 DEF IsPass
<1>16. Books(entries', byID', bitmap', probes', sequence')
  BY ONLY <1>2, <1>9, <1>12, <1>13, <1>14, <1>15, ScanKeepsBooks
<1>17. entries' \in [Addrs -> Entry \cup {NoEntry}]
  BY <1>16 DEF Books, Tables
<1>18. /\ InFlight(entries', queue \o S, results, rows, storeErr)
       /\ S \in Seq(Mutation) /\ Len(S) <= free
  BY <1>1, <1>4, <1>6, <1>17, TickSends
<1>19. InFlight(entries', queue', results', rows', storeErr')
  BY <1>6, <1>10, <1>18
<1>20. queue' \in Seq(Mutation) /\ Len(queue') <= QueueCap
  <2>1. Len(S) \in Nat /\ Len(queue \o S) = Len(queue) + Len(S) /\ queue \o S \in Seq(Mutation)
    BY <1>2, <1>18, ConcatProperties, LenProperties
  <2> QED
    BY <1>3, <1>4, <1>6, <1>18, <2>1
<1>21. Protected(entries', held')
  BY <1>1, <1>10, <1>11, TickProtects
<1>22. view' = DurableLeases(entries')
  BY <1>2, <1>10, <1>13, DurableAt DEF Joins
<1>23. lastTime' \in Nat
  BY <1>1, <1>2, Observed DEF Others
<1>24. Others'
  BY <1>2, <1>10, <1>12, <1>20, <1>23 DEF Others
<1>25. Steady
  BY DEF Tick, clocks, process, Steady
<1> QED
  BY <1>1, <1>2, <1>16, <1>19, <1>21, <1>22, <1>24, <1>25, Frame
-----------------------------------------------------------------------------
(* The invariant and what follows from it.                                 *)

\* A step that changes nothing.
LEMMA Stutter ==
  ASSUME IInv, UNCHANGED vars
  PROVE  IInv'
<1>1. /\ mono' = mono /\ wall' = wall /\ stepped' = stepped /\ up' = up /\ restarts' = restarts
      /\ gen' = gen /\ sequence' = sequence /\ lastTime' = lastTime /\ entries' = entries
      /\ byID' = byID /\ bitmap' = bitmap /\ probes' = probes /\ jobs' = jobs
      /\ found' = found /\ rows' = rows /\ lastKnown' = lastKnown /\ queue' = queue
      /\ results' = results /\ storeErr' = storeErr /\ applying' = applying
      /\ view' = view /\ held' = held
  BY DEF vars, clocks, process, engine, prober, store, runtime
<1>2. CASE up
  <2>1. Others /\ Protected(entries, held)
    BY <1>2, Served
  <2>2. Others'
    BY <1>1, <2>1 DEF Others
  <2>3. Protected(entries, held') /\ Steady
    BY <1>1, <2>1 DEF Steady
  <2> QED
    BY <1>1, <1>2, <2>2, <2>3, Idle
<1>3. CASE ~up
  <2>1. TypeOK /\ Clock /\ AlwaysRecoverable /\ GrantIsDurable /\ queue = << >> /\ results = << >>
    BY <1>3 DEF IInv, Down
  <2>2. TypeOK' /\ Clock'
    BY <1>1, <2>1 DEF TypeOK, Clock
  <2>3. AlwaysRecoverable'
    BY <1>1, <2>1 DEF AlwaysRecoverable, Recoverable, Stored, Fits, Cfg
  <2>4. GrantIsDurable'
    BY <1>1, <2>1 DEF GrantIsDurable, Anchored
  <2> QED
    BY <1>1, <1>3, <2>1, <2>2, <2>3, <2>4 DEF IInv, Running, Down
<1> QED
  BY <1>2, <1>3

\* Every packet keeps the invariant.
LEMMA HandleStep ==
  ASSUME IInv, Handle
  PROVE  IInv'
<1>1. PICK i \in Ids :
        \/ \E x \in XIDs, hint \in Hints :
             DiscoverNew(i, x, hint) \/ DiscoverProbing(i, x, hint) \/ DiscoverMoved(i, x, hint)
        \/ \E x \in XIDs : DiscoverOffer(i, x)
        \/ \E x \in XIDs, a \in Addrs, phase \in Phases :
             RequestReplay(i, x, a, phase) \/ RequestGrant(i, x, a, phase)
        \/ \E a \in Addrs : RequestNak(i, a) \/ Release(i, a) \/ Decline(i, a)
  BY DEF Handle
<1>2. CASE \E x \in XIDs, hint \in Hints :
             DiscoverNew(i, x, hint) \/ DiscoverProbing(i, x, hint) \/ DiscoverMoved(i, x, hint)
  BY <1>2, DiscoverNewStep, DiscoverProbingStep, DiscoverMovedStep
<1>3. CASE \E x \in XIDs : DiscoverOffer(i, x)
  BY <1>3, DiscoverOfferStep
<1>4. CASE \E x \in XIDs, a \in Addrs, phase \in Phases :
             RequestReplay(i, x, a, phase) \/ RequestGrant(i, x, a, phase)
  BY <1>4, RequestReplayStep, RequestGrantStep
<1>5. CASE \E a \in Addrs : RequestNak(i, a) \/ Release(i, a) \/ Decline(i, a)
  BY <1>5, RequestNakStep, ReleaseStep, DeclineStep
<1> QED
  BY <1>1, <1>2, <1>3, <1>4, <1>5

\* Every step keeps the invariant.
LEMMA NextInv ==
  ASSUME IInv, [Next]_vars
  PROVE  IInv'
<1>1. CASE Handle
  BY <1>1, HandleStep
<1>2. CASE Observe
  BY <1>2, ObserveStep
<1>3. CASE \E j \in jobs, outcome \in {"quiet", "conflict", "error"} : ProbeEnds(j, outcome)
  BY <1>3, ProbeEndsStep
<1>4. CASE CompleteProbe
  BY <1>4, ProbeStaleStep, ProbeFailsStep, ProbeQuietStep, ProbeConflictStep DEF CompleteProbe
<1>5. CASE StoreRun
  BY <1>5, StoreCommitStep, StoreUncertainStep, StoreRejectStep DEF StoreRun
<1>6. CASE CompleteCommit
  BY <1>6, CommitFailedStep, CommitDeletedStep, CommitBoundStep, CommitQuarantinedStep
     DEF CompleteCommit
<1>7. CASE Tick
  BY <1>7, TickStep
<1>8. CASE (\E g \in Generations : ApplyRequest(g)) \/ ApplyRefused \/ ApplyCancelled
  BY <1>8, ApplyWaitsStep
<1>9. CASE ApplySettings
  BY <1>9, ApplySettingsStep
<1>10. CASE Crash \/ StoreFailed
  BY <1>10, StopStep DEF Crash, StoreFailed
<1>11. CASE \E g \in Generations : g >= gen /\ Restart(g)
  BY <1>11, RestartStep
<1>12. CASE Advance
  BY <1>12, AdvanceStep
<1>13. CASE SetClock
  BY <1>13, SetClockStep
<1>14. CASE UNCHANGED vars
  BY <1>14, Stutter
<1> QED
  BY <1>1, <1>2, <1>3, <1>4, <1>5, <1>6, <1>7, <1>8, <1>9, <1>10, <1>11, <1>12, <1>13, <1>14
     DEF Next

\* The inductive invariant holds throughout.
THEOREM Invariance == Spec => []IInv
<1>1. Init => IInv
  BY InitInv
<1>2. IInv /\ [Next]_vars => IInv'
  BY NextInv
<1> QED
  BY <1>1, <1>2, PTL DEF Spec

\* Types are kept; in particular the writer's queue never holds more than storeQueue.
THEOREM TypeCorrect == Spec => []TypeOK
BY Invariance, PTL DEF IInv

\* Whatever the queue holds, in any batching, only the disk or the clock makes a transaction
\* of the lease writer fail.
THEOREM WritesAlwaysApply == Spec => []WritesApply
<1>1. IInv => WritesApply
  BY RunningAccepted DEF IInv, Running, WritesApply
<1> QED
  BY <1>1, Invariance, PTL

\* Restore accepts the table the writer leaves behind, at any moment and under the settings
\* in force.
THEOREM TableRecoverable == Spec => []AlwaysRecoverable
<1>1. IInv => AlwaysRecoverable
  BY RunningRecoverable DEF IInv, Running, Down
<1> QED
  BY <1>1, Invariance, PTL

\* What the invariant says of what clients hold.
LEMMA HeldIsDurable ==
  ASSUME IInv
  PROVE  GrantIsDurable
BY RunningDurable DEF IInv, Running, Down

\* Nobody is told of a lease, a client by an ACK or DNS by the view, that the table does not
\* keep.
THEOREM GrantsAreDurable == Spec => []DurableFirst
<1>1. IInv => DurableFirst
  BY HeldIsDurable DEF IInv, Running, DurableFirst, ViewIsDurable
<1> QED
  BY <1>1, Invariance, PTL

\* No two clients hold the same address, whatever probes, writes, settings, clocks, crashes
\* and restarts come between; except after a restart on a clock that runs ahead.
THEOREM OneHolder == Spec => []NoDoubleGrant
<1>1. IInv => NoDoubleGrant
  BY HeldIsDurable DEF NoDoubleGrant, GrantIsDurable
<1> QED
  BY <1>1, Invariance, PTL

\* While a runtime serves, a write has one entry that waits for it.
LEMMA WaitingOf ==
  ASSUME IInv, up, NEW a \in Addrs, Busy(entries, a)
  PROVE  Waiting(entries[a].tok) = {a}
<1>1. /\ entries \in [Addrs -> Entry \cup {NoEntry}] /\ AllSound(entries)
      /\ Tokens(entries, sequence) /\ sequence \in Nat
  BY Served
<1>2. /\ entries[a].tok.gen = gen
      /\ \A b \in Addrs : Busy(entries, b) /\ entries[b].tok = entries[a].tok => a = b
  BY <1>1, BusyTokens
<1> QED
  BY <1>2 DEF Waiting, Busy, Waits

\* While a runtime serves and its store is healthy, an entry that waits has one write.
LEMMA CarriesOne ==
  ASSUME IInv, up, storeErr = "none", NEW a \in Addrs, Busy(entries, a)
  PROVE  Carries(entries[a].tok) = 1
<1> DEFINE tok == entries[a].tok
           QS == {k \in 1..Len(queue) : queue[k].tok = tok}
           RS == {k \in 1..Len(results) : results[k].tok = tok}
<1>1. /\ entries \in [Addrs -> Entry \cup {NoEntry}] /\ AllSound(entries)
      /\ Tokens(entries, sequence) /\ sequence \in Nat /\ queue \in Seq(Mutation)
      /\ Carried(entries, queue, results) /\ Answered(entries, queue, results)
  BY Served DEF InFlight
<1>2. \A k \in 1..Len(queue) : queue[k].addr \in Addrs /\ Busy(entries, queue[k].addr)
                               /\ queue[k].tok = entries[queue[k].addr].tok
  BY <1>1, CarriedTokens
<1>3. \A k \in 1..Len(queue) : queue[k].tok = tok => queue[k].addr = a
  BY <1>1, <1>2, BusyTokens
<1> HIDE DEF tok
<1>4. /\ \A k, l \in 1..Len(queue) : queue[k].addr = queue[l].addr => k = l
      /\ \A k, l \in 1..Len(results) : results[k].tok = results[l].tok => k = l
      /\ \A k \in 1..Len(queue), l \in 1..Len(results) : queue[k].tok # results[l].tok
  BY <1>1 DEF Carried
<1>5. CASE \E k \in 1..Len(queue) : queue[k].addr = a
  <2>1. PICK k \in 1..Len(queue) : queue[k].addr = a
    BY <1>5
  <2>2. queue[k].tok = tok
    BY <1>2, <2>1 DEF tok
  <2>3. QS = {k} /\ RS = {}
    BY <1>3, <1>4, <2>1, <2>2
  <2> HIDE DEF QS, RS
  <2>4. Cardinality(QS) = 1 /\ Cardinality(RS) = 0
    BY ONLY <2>3, FS_Singleton, FS_EmptySet
  <2> QED
    BY <2>4 DEF Carries, QS, RS, tok
<1>6. CASE \E k \in 1..Len(results) : results[k].tok = tok
  <2>1. PICK k \in 1..Len(results) : results[k].tok = tok
    BY <1>6
  <2>2. RS = {k} /\ QS = {}
    BY <1>4, <2>1
  <2> HIDE DEF QS, RS
  <2>3. Cardinality(RS) = 1 /\ Cardinality(QS) = 0
    BY ONLY <2>2, FS_Singleton, FS_EmptySet
  <2> QED
    BY <2>3 DEF Carries, QS, RS, tok
<1> QED
  BY <1>1, <1>5, <1>6 DEF Answered, tok

\* While a runtime serves, writes and entries that wait match.
LEMMA RunningMatched ==
  ASSUME IInv, up
  PROVE  WritesMatched
<1>1. queue \in Seq(Mutation) /\ Carried(entries, queue, results)
  BY Served DEF InFlight
<1>2. ASSUME NEW k \in 1..Len(queue)
      PROVE  queue[k].addr \in Waiting(queue[k].tok)
  <2>1. queue[k].addr \in Addrs /\ Busy(entries, queue[k].addr)
        /\ queue[k].tok = entries[queue[k].addr].tok
    BY <1>1, CarriedTokens
  <2> QED
    BY <2>1, WaitingOf
<1>3. ASSUME NEW k \in 1..Len(results)
      PROVE  Cardinality(Waiting(results[k].tok)) = 1
  <2>1. PICK a \in Addrs : Busy(entries, a) /\ entries[a].tok = results[k].tok
    BY <1>1 DEF Carried
  <2>2. Waiting(results[k].tok) = {a}
    BY <2>1, WaitingOf
  <2> QED
    BY ONLY <2>2, FS_Singleton
<1>4. ASSUME storeErr = "none", NEW a \in HeldIn(entries), entries[a].st = "commit-pending"
      PROVE  Carries(entries[a].tok) = 1
  <2>1. a \in Addrs /\ Busy(entries, a)
    BY <1>4 DEF HeldIn, Busy, Waits
  <2> QED
    BY <1>4, <2>1, CarriesOne
<1> QED
  BY <1>2, <1>3, <1>4 DEF WritesMatched

\* The books agree: the indexes, the bitmap, the probe budget and the writes in flight say the
\* same of every address, whatever completions, ticks and settings come in between.
THEOREM BooksAgree == Spec => []Bookkeeping
<1>1. IInv => Bookkeeping
  <2> SUFFICES ASSUME IInv PROVE Bookkeeping
    OBVIOUS
  <2>1. CASE up
    <3>1. TypeOK /\ Indexed(entries, byID) /\ Counted(entries, bitmap, probes)
      BY <2>1, Served DEF Books
    <3>2. IndexesAgree
      BY <3>1 DEF IndexesAgree, Indexed, Claims, HeldIn
    <3>3. BitmapExact /\ ProbesCounted
      BY <3>1 DEF Counted, ProbingIn, BitmapExact, ProbesCounted
    <3> QED
      BY <2>1, <3>1, <3>2, <3>3, RunningMatched DEF Bookkeeping
  <2>2. CASE ~up
    <3>1. TypeOK /\ queue = << >> /\ results = << >>
      BY <2>2 DEF IInv, Down
    <3>2. 1..Len(queue) = {} /\ 1..Len(results) = {}
      BY <3>1
    <3>3. WritesMatched
      BY <2>2, <3>2 DEF WritesMatched
    <3> QED
      BY <2>2, <3>1, <3>3 DEF Bookkeeping, IndexesAgree, BitmapExact, ProbesCounted
  <2> QED
    BY <2>1, <2>2
<1> QED
  BY <1>1, Invariance, PTL

-----------------------------------------------------------------------------
(* Who may take an address back.                                           *)

\* The step ends the lease of a that client i has, although it is still running.
Takes(a, i) == held[a][i] > mono' /\ held'[a][i] = 0

\* What a NAK is for: the server refuses an address its holder still has only when the
\* settings do not permit it.
LEMMA NakIneligible ==
  ASSUME IInv, up, Anchored, NEW i \in Ids, NEW a \in Addrs, Refuses(i, a), held[a][i] > mono
  PROVE  ~Eligible(i, a)
<1>1. Protected(entries, held) /\ gen \in Generations
  BY Served
<1>2. entries[a] # NoEntry /\ entries[a].id = i
  BY <1>1 DEF Protected
<1>3. Cfg.usable \subseteq Subnet
  <2>1. Settings[gen].usable \subseteq Subnet
    <3> DEFINE S == [pool : SUBSET Subnet, usable : SUBSET Subnet,
                     res : [Ids -> Addrs \cup {NoAddr}], cap : Nat \ {0}, lease : Nat \ {0}]
    <3>1. Settings \in Seq(S) /\ gen \in 1..Len(Settings)
      BY <1>1, DhcpAssumption DEF Generations
    <3>2. Settings[gen] \in S
      <4> HIDE DEF S
      <4> QED
        BY <3>1, ElementOfSeq
    <3> QED
      BY <3>2
  <2> QED
    BY <2>1 DEF Cfg
<1> QED
  BY <1>2, <1>3 DEF Refuses, Eligible

\* A step that leaves what clients hold alone takes nothing.
LEMMA KeepTakes ==
  ASSUME IInv, mono' = mono, held' = held, NEW a \in Addrs, NEW i \in Ids
  PROVE  ~Takes(a, i)
<1>1. mono \in Nat
  BY DEF IInv, TypeOK
<1> QED
  BY <1>1 DEF Takes

\* An ACK takes nothing.
LEMMA AckTakes ==
  ASSUME IInv, mono' = mono, NEW b \in Addrs, NEW j \in Ids, NEW until \in Int,
         SendAck(b, j, until), NEW a \in Addrs, NEW i \in Ids
  PROVE  ~Takes(a, i)
<1>1. mono \in Nat /\ held \in [Addrs -> [Ids -> Nat]]
  BY DEF IInv, TypeOK
<1>2. held' = held \/ held' = [held EXCEPT ![b][j] = MaxOf(@, until)]
  BY DEF SendAck
<1>3. held'[a][i] = held[a][i] \/ held'[a][i] = MaxOf(held[a][i], until)
  BY <1>1, <1>2
<1>4. held[a][i] \in Nat
  BY <1>1
<1> QED
  BY <1>1, <1>3, <1>4 DEF Takes, MaxOf

\* Giving one address up takes nothing else.
LEMMA DropTakes ==
  ASSUME IInv, mono' = mono, NEW b \in Addrs, NEW j \in Ids,
         Drop(b, j) \/ held' = held, NEW a \in Addrs, NEW i \in Ids, Takes(a, i)
  PROVE  a = b /\ i = j /\ held[a][i] > mono
<1>1. mono \in Nat /\ held \in [Addrs -> [Ids -> Nat]]
  BY DEF IInv, TypeOK
<1>2. CASE held' = held
  BY <1>1, <1>2, KeepTakes
<1>3. CASE held' = [held EXCEPT ![b][j] = 0]
  <2>1. (a = b /\ i = j) \/ held'[a][i] = held[a][i]
    BY <1>1, <1>3
  <2>2. held[a][i] > mono /\ held[a][i] \in Nat
    BY <1>1 DEF Takes
  <2> QED
    BY <1>1, <2>1, <2>2 DEF Takes
<1> QED
  BY <1>2, <1>3 DEF Drop

\* No step but a NAK for an address the settings do not permit, and the client's own word,
\* ends a lease that is still running.
LEMMA OnlyIneligible ==
  ASSUME IInv, Next, Anchored', NEW a \in Addrs, NEW i \in Ids, Takes(a, i)
  PROVE  ~Eligible(i, a) \/ Relinquishes(i, a)
<1>1. CASE Handle
  <2>1. ASSUME NEW j \in Ids, NEW x \in XIDs, NEW hint \in Hints,
               DiscoverNew(j, x, hint) \/ DiscoverProbing(j, x, hint) \/ DiscoverMoved(j, x, hint)
        PROVE  FALSE
    <3>1. mono' = mono /\ held' = held
      BY <2>1 DEF DiscoverNew, DiscoverProbing, DiscoverMoved, clocks
    <3> QED
      BY <3>1, KeepTakes
  <2>2. ASSUME NEW j \in Ids, NEW x \in XIDs, DiscoverOffer(j, x)
        PROVE  FALSE
    <3>1. mono' = mono /\ held' = held
      BY <2>2 DEF DiscoverOffer, clocks
    <3> QED
      BY <3>1, KeepTakes
  <2>3. ASSUME NEW j \in Ids, NEW x \in XIDs, NEW b \in Addrs, NEW phase \in Phases,
               RequestReplay(j, x, b, phase)
        PROVE  FALSE
    <3>1. /\ mono' = mono /\ SendAck(b, j, entries[b].texp) /\ up
          /\ Grants(j, x, b, phase)
      BY <2>3 DEF RequestReplay, clocks, Grants, Handles, Serving
    <3>2. byID[j] = b /\ b # NoAddr
      BY <3>1, DhcpAssumption DEF Grants
    <3>3. entries[b].texp \in Int
      BY <3>1, <3>2, OwnEntry, EntryFields
    <3> QED
      BY <3>1, <3>3, AckTakes
  <2>4. ASSUME NEW j \in Ids, NEW x \in XIDs, NEW b \in Addrs, NEW phase \in Phases,
               RequestGrant(j, x, b, phase)
        PROVE  FALSE
    <3>1. mono' = mono /\ held' = held
      BY <2>4 DEF RequestGrant, clocks
    <3> QED
      BY <3>1, KeepTakes
  <2>5. ASSUME NEW j \in Ids, NEW b \in Addrs, RequestNak(j, b)
        PROVE  ~Eligible(i, a)
    <3>1. /\ mono' = mono /\ wall' = wall /\ restarts' = restarts /\ up /\ Refuses(j, b)
          /\ Drop(b, j) \/ held' = held
      BY <2>5 DEF RequestNak, Handles, Serving, clocks, process
    <3>2. a = b /\ i = j /\ held[a][i] > mono
      BY <3>1, DropTakes
    <3>3. Anchored
      BY <3>1 DEF Anchored
    <3> QED
      BY <3>1, <3>2, <3>3, NakIneligible
  <2>6. ASSUME NEW j \in Ids, NEW b \in Addrs, Release(j, b) \/ Decline(j, b)
        PROVE  Relinquishes(i, a)
    <3>1. mono' = mono /\ Drop(b, j)
      BY <2>6 DEF Release, Decline, clocks
    <3>2. a = b /\ i = j
      BY <3>1, DropTakes
    <3> QED
      BY <2>6, <3>2 DEF Relinquishes
  <2> QED
    BY <1>1, <2>1, <2>2, <2>3, <2>4, <2>5, <2>6 DEF Handle
<1>2. CASE \/ Observe \/ CompleteProbe \/ StoreRun \/ Tick \/ ApplySettings \/ ApplyRefused
           \/ ApplyCancelled \/ Crash \/ StoreFailed
           \/ \E g \in Generations : ApplyRequest(g) \/ Restart(g)
           \/ \E j \in jobs, outcome \in {"quiet", "conflict", "error"} : ProbeEnds(j, outcome)
  <2>1. CASE Observe \/ Tick \/ ApplySettings \/ ApplyRefused \/ ApplyCancelled
    <3>1. mono' = mono /\ held' = held
      BY <2>1 DEF Observe, Tick, ApplySettings, ApplyRefused, ApplyCancelled, clocks
    <3> QED
      BY <3>1, KeepTakes
  <2>2. CASE CompleteProbe
    <3>1. mono' = mono /\ held' = held
      BY <2>2 DEF CompleteProbe, ProbeStale, ProbeFails, ProbeQuiet, ProbeConflict, clocks
    <3> QED
      BY <3>1, KeepTakes
  <2>3. CASE StoreRun
    <3>1. mono' = mono /\ held' = held
      BY <2>3 DEF StoreRun, StoreCommit, StoreUncertain, StoreReject, clocks
    <3> QED
      BY <3>1, KeepTakes
  <2>4. CASE Crash \/ StoreFailed
    <3>1. mono' = mono /\ held' = held
      BY <2>4 DEF Crash, StoreFailed, Stop, clocks
    <3> QED
      BY <3>1, KeepTakes
  <2>5. CASE \E g \in Generations : ApplyRequest(g) \/ Restart(g)
    <3>1. mono' = mono /\ held' = held
      BY <2>5 DEF ApplyRequest, Restart, clocks
    <3> QED
      BY <3>1, KeepTakes
  <2>6. CASE \E j \in jobs, outcome \in {"quiet", "conflict", "error"} : ProbeEnds(j, outcome)
    <3>1. mono' = mono /\ held' = held
      BY <2>6 DEF ProbeEnds, clocks
    <3> QED
      BY <3>1, KeepTakes
  <2> QED
    BY <1>2, <2>1, <2>2, <2>3, <2>4, <2>5, <2>6
<1>3. CASE CompleteCommit
  <2>1. ASSUME NEW b \in Addrs, CommitFailed(b) \/ CommitDeleted(b) \/ CommitQuarantined(b)
        PROVE  FALSE
    <3>1. mono' = mono /\ held' = held
      BY <2>1 DEF CommitFailed, CommitDeleted, CommitQuarantined, clocks
    <3> QED
      BY <3>1, KeepTakes
  <2>2. ASSUME NEW b \in Addrs, CommitBound(b)
        PROVE  FALSE
    <3>1. /\ mono' = mono /\ Completing(b)
          /\ held' = held \/ SendAck(b, entries[b].id, entries[b].mut.texp)
      BY <2>2 DEF CommitBound, clocks
    <3>2. entries[b] \in Entry /\ Waits(entries[b]) /\ Sound(entries[b])
      BY <3>1, CompletingEntry
    <3>3. entries[b].id \in Ids /\ entries[b].mut.texp \in Int
      BY <3>2, EntryFields, MutationFields DEF Sound
    <3> QED
      BY <3>1, <3>3, KeepTakes, AckTakes
  <2> QED
    BY <1>3, <2>1, <2>2 DEF CompleteCommit
<1>4. CASE Advance
  <2>1. mono \in Nat /\ held \in [Addrs -> [Ids -> Nat]]
    BY DEF IInv, TypeOK
  <2>2. /\ mono' = mono + 1
        /\ held' = [b \in Addrs |-> [j \in Ids |-> IF held[b][j] <= mono' THEN 0 ELSE held[b][j]]]
    BY <1>4 DEF Advance
  <2>3. held'[a][i] = IF held[a][i] <= mono' THEN 0 ELSE held[a][i]
    BY <2>2
  <2>4. held[a][i] \in Nat
    BY <2>1
  <2> QED
    BY <2>1, <2>2, <2>3, <2>4 DEF Takes
<1>5. CASE SetClock
  <2>1. mono' = mono /\ held' = held
    BY <1>5 DEF SetClock
  <2> QED
    BY <2>1, KeepTakes
<1> QED
  BY <1>1, <1>2, <1>3, <1>4, <1>5 DEF Next

\* A client is refused an address it still holds only when the settings no longer permit it:
\* no order of migrations, quarantines, lost writes, clocks and restarts makes the server
\* take an address back.
THEOREM NoLeaseTakenBack == Spec => NakOnlyIneligible
<1>1. IInv /\ [Next]_vars =>
        [Anchored' => \A a \in Addrs : \A i \in Ids :
           held[a][i] > mono' /\ held'[a][i] = 0 => ~Eligible(i, a) \/ Relinquishes(i, a)]_vars
  <2> SUFFICES ASSUME IInv, Next, Anchored', NEW a \in Addrs, NEW i \in Ids, Takes(a, i)
               PROVE  ~Eligible(i, a) \/ Relinquishes(i, a)
    BY DEF Takes
  <2> QED
    BY OnlyIneligible
<1> QED
  BY <1>1, Invariance, PTL DEF Spec, NakOnlyIneligible
==============================================================================
