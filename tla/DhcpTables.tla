------------------------------ MODULE DhcpTables ------------------------------
(***************************************************************************)
(* What the tables of DhcpLease have to say of each other, and lemmas on   *)
(* how the engine's operations keep it so, for any clients, addresses,     *)
(* settings and timers.                                                    *)
(*                                                                         *)
(* The invariants are stated of explicit tables (E: entries, I: index, B:  *)
(* bitmap, p: probes, n: last token, Q: queue, R: results, T: rows, H:     *)
(* held), so that a step which changes the tables twice, such as a         *)
(* conflict that is quarantined and probed again, is reasoned about in two *)
(* steps.                                                                  *)
(***************************************************************************)
EXTENDS DhcpLease, FiniteSetTheorems, SequenceTheorems, TLAPS

-----------------------------------------------------------------------------
(* One entry.                                                              *)

Waits(v) == v.st = "commit-pending"

\* A write in flight: what it will make of the entry when it succeeds or fails.
SoundWrite(v) ==
  /\ v.mut.row.id = v.id
  /\ v.mut.kind = "put" =>
       /\ v.mut.row.exp <= v.mut.row.hold /\ v.hold <= v.mut.row.hold
       /\ v.mut.texp <= v.mut.thold /\ v.thold <= v.mut.thold
       /\ v.dirty => v.mut.row.st = "quarantined" /\ v.req.type = "none"
  /\ v.mut.kind = "delete" => Durable(v) /\ v.mut.row = v.committed /\ ~v.dirty
  /\ ~v.dirty => \/ v.mut.prev = "offered" /\ ~Durable(v) /\ v.mut.kind = "put"
                 \/ v.mut.prev = "bound" /\ Durable(v) /\ v.committed.st = "bound"
                 \/ v.mut.prev = "quarantined" /\ Durable(v) /\ v.mut.kind = "delete"

\* The durable row is the entry's own and not beyond its horizon.
SoundRow(v) ==
  /\ v.committed.id = v.id
  /\ v.committed.exp <= v.committed.hold /\ v.committed.hold <= v.hold

\* What holds of every entry: its status says what is durable, and it has a token and a
\* target exactly while it waits.
Sound(v) ==
  /\ v.exp <= v.hold /\ v.texp <= v.thold
  /\ v.st \in {"probing", "offered"} => ~Durable(v)
  /\ v.st = "bound" => Durable(v) /\ v.committed.st = "bound"
  /\ v.st = "quarantined" => v.dirty \/ Durable(v)
  /\ v.dirty => v.st \in {"commit-pending", "quarantined"}
  /\ Waits(v) => v.mut # NoMut
  /\ v.st \in {"probing", "commit-pending"} => v.tok # NoToken
  /\ v.st \notin {"probing", "commit-pending"} => v.tok = NoToken
  /\ Durable(v) => SoundRow(v)
  /\ Waits(v) => SoundWrite(v)

\* The entry's identity has to point to it.
Claims(v) ==
  \/ v.st \in {"probing", "offered", "bound"}
  \/ Durable(v) /\ v.committed.st = "bound"
  \/ Waits(v) /\ ~v.dirty /\ v.mut.prev \in {"offered", "bound"}

\* On a clock that is not ahead, the durable row lasts as long as the runtime hold, and
\* a write in flight as long as the hold it will install.
Lasting(v) ==
  wall <= mono =>
    /\ Durable(v) /\ ~v.dirty => v.committed.hold >= v.thold + (wall - mono)
    /\ Waits(v) /\ v.mut.kind = "put" => v.mut.row.hold >= v.mut.thold + (wall - mono)

-----------------------------------------------------------------------------
(* The engine's tables.                                                    *)

Tables(E, I) ==
  E \in [Addrs -> Entry \cup {NoEntry}] /\ I \in [Ids -> Addrs \cup {NoAddr}]

AllSound(E) == \A a \in Addrs : E[a] # NoEntry => Sound(E[a]) /\ Lasting(E[a])

\* Tokens are of this generation, at most n, and never given out twice.
Tokens(E, n) ==
  /\ \A a \in Addrs : E[a] # NoEntry /\ E[a].tok # NoToken =>
       E[a].tok.gen = gen /\ E[a].tok.seq <= n
  /\ \A a, b \in Addrs :
       E[a] # NoEntry /\ E[b] # NoEntry /\ E[a].tok # NoToken /\ E[a].tok = E[b].tok => a = b

Indexed(E, I) ==
  /\ \A i \in Ids : I[i] # NoAddr => E[I[i]] # NoEntry /\ E[I[i]].id = i
  /\ \A a \in Addrs : E[a] # NoEntry /\ Claims(E[a]) => I[E[a].id] = a

ProbingIn(E) == {a \in HeldIn(E) : E[a].st = "probing"}

Counted(E, B, p) ==
  /\ B = (HeldIn(E) \cup Reserved) \cap Cfg.pool
  /\ p = Cardinality(ProbingIn(E)) /\ p <= MaxProbes

Books(E, I, B, p, n) ==
  /\ Tables(E, I) /\ AllSound(E) /\ Tokens(E, n) /\ Indexed(E, I) /\ Counted(E, B, p)
  /\ Fits(Cfg, HeldIn(E), E)

-----------------------------------------------------------------------------
(* The writes in flight and the table they end in.                         *)

Busy(E, a) == E[a] # NoEntry /\ Waits(E[a])

\* Every message is the write of an entry that waits for it, and no entry has two.
Carried(E, Q, R) ==
  /\ \A k \in 1..Len(Q) : Busy(E, Q[k].addr) /\ Q[k] = Message(Q[k].addr, E[Q[k].addr])
  /\ \A k \in 1..Len(R) : \E a \in Addrs : Busy(E, a) /\ E[a].tok = R[k].tok
  /\ \A k, l \in 1..Len(Q) : Q[k].addr = Q[l].addr => k = l
  /\ \A k, l \in 1..Len(R) : R[k].tok = R[l].tok => k = l
  /\ \A k \in 1..Len(Q), l \in 1..Len(R) : Q[k].tok # R[l].tok

\* Every entry that waits has its message.
Answered(E, Q, R) ==
  \A a \in Addrs : Busy(E, a) =>
    \/ \E k \in 1..Len(Q) : Q[k].addr = a
    \/ \E k \in 1..Len(R) : R[k].tok = E[a].tok

CommittedAt(E, a) == IF E[a] = NoEntry THEN NoRow ELSE E[a].committed

\* The table has what the engine thinks is durable, except where a write has gone
\* through and its completion has not been taken yet.
Written(E, Q, R, T) ==
  \A a \in Addrs :
    /\ \/ T[a] = CommittedAt(E, a)
       \/ Busy(E, a) /\ T[a] = Effect(E[a].mut)
    /\ \A k \in 1..Len(Q) : Q[k].addr = a => T[a] = CommittedAt(E, a)
    /\ \A k \in 1..Len(R) : Busy(E, a) /\ R[k].tok = E[a].tok =>
         T[a] = IF R[k].ok THEN Effect(E[a].mut) ELSE E[a].committed

\* While the store is healthy no message is lost.
InFlight(E, Q, R, T, err) ==
  Carried(E, Q, R) /\ Written(E, Q, R, T) /\ (err = "none" => Answered(E, Q, R))

\* What clients hold, they hold in durable entries that are not about to go.
Protected(E, H) ==
  Anchored => \A a \in Addrs : \A i \in Ids : H[a][i] > mono =>
    /\ E[a] # NoEntry /\ E[a].id = i /\ H[a][i] <= E[a].thold
    /\ Durable(E[a]) /\ ~E[a].dirty /\ ~(Waits(E[a]) /\ E[a].mut.kind = "delete")

-----------------------------------------------------------------------------
(* Facts about the values.                                                 *)

\* The fields of a row.
LEMMA RowFields ==
  ASSUME NEW r \in Row
  PROVE  /\ r # NoRow /\ r.id \in Ids /\ r.exp \in Nat /\ r.hold \in Nat
         /\ r.st \in {"bound", "quarantined"}
BY AbsentAssumption DEF Row

\* The fields of a write in flight.
LEMMA MutationFields ==
  ASSUME NEW m \in PendingMutation
  PROVE  /\ m # NoMut /\ m.kind \in {"put", "delete"}
         /\ m.prev \in {"offered", "bound", "quarantined", "probing"}
         /\ m.row \in Row /\ m.texp \in Int /\ m.thold \in Int
BY AbsentAssumption DEF PendingMutation

\* The fields of an entry.
LEMMA EntryFields ==
  ASSUME NEW v \in Entry
  PROVE  /\ v # NoEntry /\ v.id \in Ids
         /\ v.st \in {"probing", "offered", "commit-pending", "bound", "quarantined"}
         /\ v.exp \in Nat /\ v.hold \in Nat /\ v.texp \in Int /\ v.thold \in Int
         /\ v.req \in Request /\ v.tok \in Token \cup {NoToken} /\ v.due \in Nat
         /\ v.tries \in 0..MaxTries /\ v.committed \in Row \cup {NoRow}
         /\ v.dirty \in BOOLEAN /\ v.ack \in XIDs \cup {NoXid}
         /\ v.mut \in PendingMutation \cup {NoMut}
BY AbsentAssumption DEF Entry

\* A token is not the absent one.
LEMMA TokenFields ==
  ASSUME NEW t \in Token
  PROVE  t # NoToken /\ t.gen \in Generations /\ t.seq \in Nat \ {0} /\ t.seq > 0
BY DEF Token, NoToken, Generations

\* What mutate makes of an entry.
LEMMA MutateFields ==
  ASSUME NEW v \in Entry, v.st # "commit-pending", NEW kind \in {"put", "delete"},
         NEW row \in Row, NEW texp \in Int, NEW thold \in Int, NEW r \in Request,
         NEW tok \in Token, wall \in Nat, mono \in Nat,
         NEW w, w = Mutate(v, kind, row, texp, thold, r, tok)
  PROVE  /\ w \in Entry
         /\ w.st = "commit-pending" /\ w.req = r /\ w.tok = tok
         /\ w.id = v.id /\ w.exp = v.exp /\ w.hold = v.hold /\ w.texp = v.texp
         /\ w.thold = v.thold /\ w.committed = v.committed /\ w.dirty = v.dirty
         /\ w.mut \in PendingMutation /\ w.mut.kind = kind /\ w.mut.prev = v.st
         /\ w.mut.texp = texp /\ w.mut.thold = thold
         /\ w.mut.row.id = row.id /\ w.mut.row.exp = row.exp /\ w.mut.row.st = row.st
         /\ kind = "put" => w.mut.row.hold >= row.hold /\ w.mut.row.hold >= wall + (thold - mono)
         /\ kind = "delete" => w.mut.row = row
<1> DEFINE target == IF kind = "put"
                     THEN [row EXCEPT !.hold = MaxOf(@, wall + (thold - mono))]
                     ELSE row
<1>1. /\ target \in Row /\ target.id = row.id /\ target.exp = row.exp /\ target.st = row.st
      /\ kind = "put" => target.hold >= row.hold /\ target.hold >= wall + (thold - mono)
      /\ kind = "delete" => target = row
  BY DEF Row, MaxOf
<1> DEFINE m == [kind |-> kind, prev |-> v.st, row |-> target, texp |-> texp, thold |-> thold]
<1>2. m \in PendingMutation
  BY <1>1, EntryFields DEF PendingMutation
<1>3. w = [v EXCEPT !.st = "commit-pending", !.req = r, !.tok = tok, !.due = 0,
                    !.tries = 0, !.mut = m]
  BY DEF Mutate
<1> HIDE DEF target
<1>4. m.kind = kind /\ m.prev = v.st /\ m.row = target /\ m.texp = texp /\ m.thold = thold
  OBVIOUS
<1> HIDE DEF m
<1>5. /\ w.st = "commit-pending" /\ w.req = r /\ w.tok = tok /\ w.mut = m
      /\ w.id = v.id /\ w.exp = v.exp /\ w.hold = v.hold /\ w.texp = v.texp
      /\ w.thold = v.thold /\ w.committed = v.committed /\ w.dirty = v.dirty
  BY <1>3 DEF Entry
<1>6. tok \in Token \cup {NoToken} /\ m \in PendingMutation \cup {NoMut} /\ 0 \in 0..MaxTries
  BY <1>2 DEF MaxTries
<1>7. w \in Entry
  BY ONLY v \in Entry, r \in Request, <1>3, <1>6 DEF Entry
<1> QED
  BY <1>1, <1>2, <1>4, <1>5, <1>7

-----------------------------------------------------------------------------
(* What the engine makes of one entry.                                     *)

\* w is v with a write in flight under token tok.
Sends(v, w, tok) ==
  /\ w \in Entry /\ Sound(w) /\ Lasting(w) /\ Waits(w)
  /\ w.id = v.id /\ w.committed = v.committed /\ w.tok = tok /\ w.thold = v.thold

\* A put that lasts at least as long as the entry is sound.
LEMMA PutSends ==
  ASSUME NEW v \in Entry, ~Waits(v), v.exp <= v.hold, v.texp <= v.thold,
         Durable(v) => SoundRow(v), Lasting(v),
         NEW row \in Row, row.id = v.id, v.hold <= row.hold,
         NEW texp \in Int, NEW thold \in Int, texp <= thold, v.thold <= thold,
         row.exp <= row.hold \/ row.exp <= wall + (thold - mono),
         NEW r \in Request, NEW tok \in Token, wall \in Nat, mono \in Nat,
         v.dirty => row.st = "quarantined" /\ r.type = "none",
         ~v.dirty => \/ v.st = "offered" /\ ~Durable(v)
                     \/ v.st = "bound" /\ Durable(v) /\ v.committed.st = "bound",
         NEW w, w = Mutate(v, "put", row, texp, thold, r, tok)
  PROVE  /\ Sends(v, w, tok)
         /\ w.dirty = v.dirty /\ w.mut.kind = "put" /\ w.mut.row.st = row.st
         /\ w.mut.texp = texp
         /\ Claims(w) => Claims(v)
<1>1. /\ w \in Entry
      /\ w.st = "commit-pending" /\ w.req = r /\ w.tok = tok
      /\ w.id = v.id /\ w.exp = v.exp /\ w.hold = v.hold /\ w.texp = v.texp
      /\ w.thold = v.thold /\ w.committed = v.committed /\ w.dirty = v.dirty
      /\ w.mut \in PendingMutation /\ w.mut.kind = "put" /\ w.mut.prev = v.st
      /\ w.mut.texp = texp /\ w.mut.thold = thold
      /\ w.mut.row.id = row.id /\ w.mut.row.exp = row.exp /\ w.mut.row.st = row.st
      /\ w.mut.row.hold >= row.hold /\ w.mut.row.hold >= wall + (thold - mono)
  BY MutateFields DEF Waits
<1>2. /\ v.hold \in Nat /\ row.hold \in Nat /\ row.exp \in Nat /\ w.mut.row.hold \in Nat
      /\ w.mut # NoMut /\ tok # NoToken /\ v.thold \in Int
  BY <1>1, EntryFields, RowFields, MutationFields, TokenFields
<1>3. Durable(w) <=> Durable(v)
  BY <1>1 DEF Durable
<1>4. SoundWrite(w)
  BY <1>1, <1>2, <1>3 DEF SoundWrite
<1>5. Sound(w)
  BY <1>1, <1>2, <1>3, <1>4 DEF Sound, SoundRow, Waits
<1>6. Lasting(w)
  BY <1>1, <1>2, <1>3 DEF Lasting, Waits
<1>7. Claims(w) => Claims(v)
  BY <1>1, <1>3 DEF Claims, Waits
<1> QED
  BY <1>1, <1>5, <1>6, <1>7 DEF Sends, Waits

\* A delete of what is durable is sound.
LEMMA DeleteSends ==
  ASSUME NEW v \in Entry, Sound(v), Lasting(v), v.st \in {"bound", "quarantined"},
         Durable(v), ~v.dirty,
         NEW r \in Request, NEW tok \in Token, wall \in Nat, mono \in Nat,
         NEW w, w = Mutate(v, "delete", v.committed, v.texp, v.thold, r, tok)
  PROVE  Sends(v, w, tok) /\ (Claims(w) => Claims(v)) /\ ~w.dirty
<1>0. /\ v.committed \in Row /\ v.texp \in Int /\ v.thold \in Int
      /\ v.st # "commit-pending" /\ "delete" \in {"put", "delete"}
  BY EntryFields DEF Durable
<1>1. /\ w \in Entry
      /\ w.st = "commit-pending" /\ w.req = r /\ w.tok = tok
      /\ w.id = v.id /\ w.exp = v.exp /\ w.hold = v.hold /\ w.texp = v.texp
      /\ w.thold = v.thold /\ w.committed = v.committed /\ w.dirty = v.dirty
      /\ w.mut \in PendingMutation /\ w.mut.kind = "delete" /\ w.mut.prev = v.st
      /\ w.mut.row = v.committed
  BY ONLY v \in Entry, r \in Request, tok \in Token, wall \in Nat, mono \in Nat, <1>0,
          w = Mutate(v, "delete", v.committed, v.texp, v.thold, r, tok), MutateFields
<1>2. w.mut # NoMut /\ tok # NoToken
  BY <1>1, MutationFields, TokenFields
<1>3. Durable(w)
  BY <1>1 DEF Durable
<1>4. SoundWrite(w)
  BY <1>1, <1>3 DEF SoundWrite, Sound, SoundRow
<1>5. Sound(w)
  BY <1>1, <1>2, <1>3, <1>4 DEF Sound, SoundRow, Waits
<1>6. Lasting(w)
  BY <1>1, <1>3 DEF Lasting, Waits
<1>7. Claims(w) => Claims(v)
  BY <1>1, <1>3 DEF Claims, Waits, Durable
<1> QED
  BY <1>1, <1>5, <1>6, <1>7 DEF Sends, Waits

\* What a settled entry looks like.
LEMMA SettleFields ==
  ASSUME NEW v \in Entry,
         NEW st \in {"probing", "offered", "commit-pending", "bound", "quarantined"},
         NEW w, w = Settle(v, st)
  PROVE  /\ w \in Entry
         /\ w.st = st /\ w.tok = NoToken /\ w.id = v.id /\ w.exp = v.exp /\ w.hold = v.hold
         /\ w.texp = v.texp /\ w.thold = v.thold /\ w.committed = v.committed
         /\ w.dirty = v.dirty /\ w.req = v.req
<1>1. w = [v EXCEPT !.st = st, !.tok = NoToken, !.mut = NoMut]
  BY DEF Settle
<1>2. NoToken \in Token \cup {NoToken} /\ NoMut \in PendingMutation \cup {NoMut}
  OBVIOUS
<1>3. w \in Entry
  BY ONLY <1>1, <1>2, v \in Entry,
          st \in {"probing", "offered", "commit-pending", "bound", "quarantined"} DEF Entry
<1> QED
  BY <1>1, <1>3 DEF Entry

\* A write that fails leaves a sound entry: a quarantine in force, or what was before.
LEMMA FailSound ==
  ASSUME NEW v \in Entry, Sound(v), Lasting(v), Waits(v),
         NEW w, w = Fail(v)
  PROVE  /\ w \in Entry /\ Sound(w) /\ Lasting(w)
         /\ w.st \in {"offered", "bound", "quarantined"} /\ w.tok = NoToken
         /\ w.id = v.id /\ w.committed = v.committed /\ w.dirty = v.dirty
         /\ Claims(w) => Claims(v)
         /\ w.thold >= v.thold
<1>1. v.mut \in PendingMutation /\ v.mut.row \in Row /\ v.mut.texp \in Int
      /\ v.mut.thold \in Int /\ v.mut.row.exp \in Nat /\ v.mut.row.hold \in Nat
      /\ v.mut.kind \in {"put", "delete"}
  BY EntryFields, MutationFields, RowFields DEF Sound
<1>2. v.dirty \in BOOLEAN /\ v.thold \in Int /\ v.hold \in Nat
  BY EntryFields
<1>3. CASE v.dirty
  <2> DEFINE u == [v EXCEPT !.exp = v.mut.row.exp, !.hold = v.mut.row.hold,
                            !.texp = v.mut.texp, !.thold = v.mut.thold]
  <2>1. u \in Entry
    BY ONLY <1>1, v \in Entry DEF Entry
  <2>2. /\ u.exp = v.mut.row.exp /\ u.hold = v.mut.row.hold /\ u.texp = v.mut.texp
        /\ u.thold = v.mut.thold /\ u.id = v.id /\ u.committed = v.committed
        /\ u.dirty = v.dirty
    BY DEF Entry
  <2>3. v.mut.kind = "put" /\ v.mut.row.st = "quarantined"
    BY <1>1, <1>3 DEF Sound, SoundWrite
  <2>4. w = Settle(u, "quarantined")
    BY <1>3, <2>3 DEF Fail
  <2> HIDE DEF u
  <2>5. /\ w \in Entry
        /\ w.st = "quarantined" /\ w.tok = NoToken /\ w.id = u.id /\ w.exp = u.exp
        /\ w.hold = u.hold /\ w.texp = u.texp /\ w.thold = u.thold
        /\ w.committed = u.committed /\ w.dirty = u.dirty
    BY <2>1, <2>4, SettleFields
  <2>6. Durable(w) <=> Durable(v)
    BY <2>2, <2>5 DEF Durable
  <2>7. Durable(v) => v.committed.hold \in Nat
    BY EntryFields, RowFields DEF Durable
  <2>8. Sound(w)
    BY <1>1, <1>2, <1>3, <2>2, <2>3, <2>5, <2>6, <2>7 DEF Sound, SoundRow, SoundWrite, Waits
  <2>9. Lasting(w)
    BY <1>3, <2>2, <2>5 DEF Lasting, Waits
  <2>10. w.thold >= v.thold
    BY <1>1, <1>2, <2>2, <2>3, <2>5 DEF Sound, SoundWrite
  <2>11. Claims(w) => Claims(v)
    BY <2>2, <2>5, <2>6 DEF Claims, Waits
  <2> QED
    BY <2>2, <2>5, <2>8, <2>9, <2>10, <2>11
<1>4. CASE ~v.dirty
  <2>1. v.mut.prev \in {"offered", "bound", "quarantined"}
    BY <1>4 DEF Sound, SoundWrite
  <2>2. w = Settle(v, v.mut.prev)
    BY <1>4 DEF Fail
  <2>3. /\ w \in Entry
        /\ w.st = v.mut.prev /\ w.tok = NoToken /\ w.id = v.id /\ w.exp = v.exp
        /\ w.hold = v.hold /\ w.texp = v.texp /\ w.thold = v.thold
        /\ w.committed = v.committed /\ w.dirty = v.dirty
    BY <2>1, <2>2, SettleFields
  <2>4. Durable(w) <=> Durable(v)
    BY <2>3 DEF Durable
  <2>5. Sound(w)
    BY <1>4, <2>1, <2>3, <2>4 DEF Sound, SoundRow, SoundWrite, Waits
  <2>6. Lasting(w)
    BY <2>1, <2>3, <2>4 DEF Lasting, Waits
  <2>7. Claims(w) => Claims(v)
    BY <1>4, <2>1, <2>3, <2>4 DEF Claims, Waits
  <2> QED
    BY <1>2, <2>1, <2>3, <2>5, <2>6, <2>7
<1> QED
  BY <1>3, <1>4

\* A put that succeeds leaves a sound entry, durable and clean.
LEMMA CommitSound ==
  ASSUME NEW v \in Entry, Sound(v), Lasting(v), Waits(v), v.mut.kind = "put",
         v.mut.row.st = "bound" => v.req.xid \in XIDs \cup {NoXid},
         NEW w, w = Commit(v)
  PROVE  /\ w \in Entry /\ Sound(w) /\ Lasting(w)
         /\ w.st = v.mut.row.st /\ w.tok = NoToken
         /\ w.id = v.id /\ w.committed = v.mut.row /\ ~w.dirty
         /\ w.thold = v.mut.thold /\ w.texp = v.mut.texp
         /\ v.thold <= w.thold /\ w.texp <= w.thold
<1>1. v.mut \in PendingMutation /\ v.mut.row \in Row /\ v.mut.texp \in Int
      /\ v.mut.thold \in Int /\ v.mut.row.exp \in Nat /\ v.mut.row.hold \in Nat
      /\ v.mut.row.st \in {"bound", "quarantined"} /\ v.mut.row # NoRow
  BY EntryFields, MutationFields, RowFields DEF Sound
<1>2. v.dirty \in BOOLEAN /\ v.thold \in Int /\ v.hold \in Nat
  BY EntryFields
<1> DEFINE ack == IF v.mut.row.st = "bound" THEN v.req.xid ELSE v.ack
           u == [v EXCEPT !.exp = v.mut.row.exp, !.hold = v.mut.row.hold,
                          !.texp = v.mut.texp, !.thold = v.mut.thold,
                          !.committed = v.mut.row, !.dirty = FALSE, !.ack = ack]
<1>3. ack \in XIDs \cup {NoXid}
  BY EntryFields
<1>4. w = Settle(u, v.mut.row.st)
  BY DEF Commit
<1> HIDE DEF ack
<1>5. v.mut.row \in Row \cup {NoRow}
  BY <1>1
<1>6. u \in Entry
  BY ONLY <1>1, <1>3, <1>5, v \in Entry DEF Entry
<1>7. /\ u.exp = v.mut.row.exp /\ u.hold = v.mut.row.hold /\ u.texp = v.mut.texp
      /\ u.thold = v.mut.thold /\ u.id = v.id /\ u.committed = v.mut.row
      /\ u.dirty = FALSE
  BY DEF Entry
<1> HIDE DEF u
<1>8. /\ w \in Entry
      /\ w.st = v.mut.row.st /\ w.tok = NoToken /\ w.id = u.id /\ w.exp = u.exp
      /\ w.hold = u.hold /\ w.texp = u.texp /\ w.thold = u.thold
      /\ w.committed = u.committed /\ w.dirty = u.dirty
  BY <1>1, <1>4, <1>6, SettleFields
<1>9. Durable(w)
  BY <1>1, <1>7, <1>8 DEF Durable
<1>10. Sound(w)
  BY <1>1, <1>2, <1>7, <1>8, <1>9 DEF Sound, SoundRow, SoundWrite, Waits
<1>11. Lasting(w)
  BY <1>1, <1>7, <1>8, <1>9 DEF Lasting, Waits
<1>12. v.thold <= w.thold /\ w.texp <= w.thold
  BY <1>1, <1>2, <1>7, <1>8 DEF Sound, SoundWrite
<1> QED
  BY <1>7, <1>8, <1>10, <1>11, <1>12

\* A new grant is sound, and never shortens the runtime hold.
LEMMA GrantSends ==
  ASSUME NEW v \in Entry, ~Waits(v), v.exp <= v.hold, v.texp <= v.thold,
         Durable(v) => SoundRow(v), Lasting(v),
         NEW d \in Nat, NEW st \in {"bound", "quarantined"},
         NEW r \in Request, NEW tok \in Token, wall \in Nat, mono \in Nat,
         v.dirty => st = "quarantined" /\ r.type = "none",
         ~v.dirty => \/ v.st = "offered" /\ ~Durable(v)
                     \/ v.st = "bound" /\ Durable(v) /\ v.committed.st = "bound",
         NEW w, w = Grant(v, d, st, r, tok)
  PROVE  /\ Sends(v, w, tok)
         /\ w.dirty = v.dirty /\ w.mut.kind = "put" /\ w.mut.row.st = st
         /\ Claims(w) => Claims(v)
<1> DEFINE row == [LeaseOf(v, st) EXCEPT !.exp = wall + d]
           thold == MaxOf(v.thold, mono + d)
<1>1. v.id \in Ids /\ v.hold \in Nat /\ v.thold \in Int
  BY EntryFields
<1>2. /\ row \in Row /\ row.id = v.id /\ row.hold = v.hold /\ row.st = st
      /\ row.exp = wall + d
  BY <1>1 DEF Row, LeaseOf
<1>3. /\ thold \in Int /\ mono + d \in Int /\ mono + d <= thold /\ v.thold <= thold
      /\ wall + d <= wall + (thold - mono)
  BY <1>1 DEF MaxOf
<1>4. w = Mutate(v, "put", row, mono + d, thold, r, tok)
  BY DEF Grant
<1> HIDE DEF row, thold
<1>5. v.hold <= row.hold
  BY <1>1, <1>2
<1> QED
  BY <1>2, <1>3, <1>4, <1>5, PutSends

\* An entry that is marked dirty is the same otherwise.
LEMMA DirtyFields ==
  ASSUME NEW v \in Entry, NEW u, u = [v EXCEPT !.dirty = TRUE]
  PROVE  /\ u \in Entry /\ u.dirty = TRUE
         /\ u.st = v.st /\ u.id = v.id /\ u.exp = v.exp /\ u.hold = v.hold
         /\ u.texp = v.texp /\ u.thold = v.thold /\ u.committed = v.committed
<1>1. u \in Entry
  BY ONLY v \in Entry, u = [v EXCEPT !.dirty = TRUE] DEF Entry
<1> QED
  BY <1>1 DEF Entry

\* A quarantine is sound; only a durable binding keeps its identity.
LEMMA QuarantineSends ==
  ASSUME NEW v \in Entry, Sound(v), Lasting(v), ~Waits(v),
         NEW tok \in Token, wall \in Nat, mono \in Nat,
         NEW w, w = Quarantine(v, tok)
  PROVE  /\ Sends(v, w, tok) /\ w.dirty
         /\ Claims(w) => Durable(v) /\ v.committed.st = "bound"
<1> DEFINE u == [v EXCEPT !.dirty = TRUE]
<1>1. /\ u \in Entry /\ u.dirty = TRUE
      /\ u.st = v.st /\ u.id = v.id /\ u.exp = v.exp /\ u.hold = v.hold
      /\ u.texp = v.texp /\ u.thold = v.thold /\ u.committed = v.committed
  BY DirtyFields
<1>2. w = Grant(u, QuarantineTime, "quarantined", NoRequest, tok)
  BY DEF Quarantine
<1> HIDE DEF u
<1>3. QuarantineTime \in Nat /\ NoRequest \in Request /\ NoRequest.type = "none"
  BY DhcpAssumption DEF NoRequest, Request
<1>4. /\ ~Waits(u) /\ u.exp <= u.hold /\ u.texp <= u.thold
      /\ Durable(u) => SoundRow(u)
  BY <1>1 DEF Sound, Waits, Durable, SoundRow
<1>5. Lasting(u)
  BY <1>1, <1>4 DEF Lasting
<1>6. /\ Sends(u, w, tok)
      /\ w.dirty = u.dirty
  BY <1>1, <1>2, <1>3, <1>4, <1>5, GrantSends
<1> QED
  BY <1>1, <1>6 DEF Sends, Claims, Waits, Durable

\* The quarantine of a lease the settings no longer permit is sound.
LEMMA MigrateSends ==
  ASSUME NEW v \in Entry, Sound(v), Lasting(v), v.st \in {"offered", "bound"}, Durable(v),
         NEW r \in Request, NEW tok \in Token, wall \in Nat, mono \in Nat,
         NEW w, w = Mutate(v, "put", LeaseOf(v, "quarantined"), v.texp, v.thold, r, tok)
  PROVE  /\ Sends(v, w, tok) /\ (Claims(w) => Claims(v)) /\ ~w.dirty
         /\ w.mut.kind = "put"
<1>1. v.id \in Ids /\ v.exp \in Nat /\ v.hold \in Nat /\ v.thold \in Int /\ v.texp \in Int
  BY EntryFields
<1> DEFINE row == LeaseOf(v, "quarantined")
<1>2. /\ row \in Row /\ row.id = v.id /\ row.hold = v.hold /\ row.exp = v.exp
      /\ row.st = "quarantined"
  BY <1>1 DEF Row, LeaseOf
<1> HIDE DEF row
<1>3. /\ ~Waits(v) /\ v.exp <= v.hold /\ v.texp <= v.thold /\ ~v.dirty
      /\ Durable(v) => SoundRow(v) 
      /\ v.st = "bound" /\ v.committed.st = "bound"
  BY DEF Sound, Waits
<1>4. v.hold <= row.hold /\ row.exp <= row.hold /\ v.thold <= v.thold
  BY <1>1, <1>2, <1>3
<1> QED
  BY <1>1, <1>2, <1>3, <1>4, PutSends DEF row

\* Another try to store a quarantine is sound.
LEMMA RewriteSends ==
  ASSUME NEW v \in Entry, Sound(v), Lasting(v), Unsaved(v),
         NEW tok \in Token, wall \in Nat, mono \in Nat,
         NEW w, w = Mutate(v, "put", LeaseOf(v, v.st), v.texp, v.thold, NoRequest, tok)
  PROVE  /\ Sends(v, w, tok) /\ (Claims(w) => Claims(v)) /\ w.dirty
<1>1. v.id \in Ids /\ v.exp \in Nat /\ v.hold \in Nat /\ v.thold \in Int /\ v.texp \in Int
  BY EntryFields
<1>2. /\ ~Waits(v) /\ v.exp <= v.hold /\ v.texp <= v.thold /\ v.dirty
      /\ Durable(v) => SoundRow(v) 
      /\ v.st = "quarantined"
  BY DEF Sound, Waits, Unsaved
<1> DEFINE row == LeaseOf(v, v.st)
<1>3. /\ row \in Row /\ row.id = v.id /\ row.hold = v.hold /\ row.exp = v.exp
      /\ row.st = "quarantined"
  BY <1>1, <1>2 DEF Row, LeaseOf
<1>4. NoRequest \in Request /\ NoRequest.type = "none"
  BY DEF NoRequest, Request
<1> HIDE DEF row
<1>5. v.hold <= row.hold /\ row.exp <= row.hold /\ v.thold <= v.thold
  BY <1>1, <1>2, <1>3
<1> QED
  BY <1>1, <1>2, <1>3, <1>4, <1>5, PutSends DEF row

\* What the owner loop makes of an entry with a new write: it waits, or fails at once.
LEMMA DispatchSound ==
  ASSUME NEW v, NEW w, NEW tok \in Token, Sends(v, w, tok), NEW d, d = Dispatched(w)
  PROVE  /\ d \in Entry /\ Sound(d) /\ Lasting(d) /\ d.id = v.id /\ d.committed = v.committed
         /\ d.st # "probing" /\ d.tok \in {NoToken, tok} /\ d.dirty = w.dirty
         /\ Claims(d) => Claims(w)
         /\ d.thold >= v.thold
         /\ Admits => d = w
         /\ ~Admits => ~Waits(d)
<1>1. CASE Admits
  <2>1. d = w
    BY <1>1 DEF Dispatched
  <2>2. w.thold \in Int
    BY EntryFields DEF Sends
  <2> QED
    BY <1>1, <2>1, <2>2 DEF Sends, Waits
<1>2. CASE ~Admits
  <2>1. d = Fail(w)
    BY <1>2 DEF Dispatched
  <2> QED
    BY <1>2, <2>1, FailSound DEF Sends, Waits
<1> QED
  BY <1>1, <1>2

\* A fresh candidate is sound.
LEMMA ProbingSound ==
  ASSUME NEW i \in Ids, NEW r \in Request, NEW tok \in Token, NEW try \in 0..MaxTries,
         mono \in Nat, NEW w, w = ProbingEntry(i, r, tok, try)
  PROVE  /\ w \in Entry /\ Sound(w) /\ Lasting(w)
         /\ w.id = i /\ w.st = "probing" /\ w.tok = tok /\ w.committed = NoRow
<1>1. mono + ProbeTime \in Nat
  <2>1. {ProbeTime, OfferTime, QuarantineTime, QueueCap, BatchCap} \subseteq Nat \ {0}
    BY ONLY DhcpAssumption
  <2>2. ProbeTime \in Nat
    BY ONLY <2>1
  <2> QED
    BY ONLY <2>2, mono \in Nat
<1>2. tok \in Token \cup {NoToken} /\ NoRow \in Row \cup {NoRow} /\ NoXid \in XIDs \cup {NoXid}
      /\ NoMut \in PendingMutation \cup {NoMut} /\ tok # NoToken
  BY TokenFields
<1>3. w \in Entry
  BY ONLY <1>1, <1>2, i \in Ids, r \in Request, try \in 0..MaxTries,
          w = ProbingEntry(i, r, tok, try) DEF ProbingEntry, Entry
<1>4. /\ w.id = i /\ w.st = "probing" /\ w.tok = tok /\ w.committed = NoRow
      /\ w.exp = 0 /\ w.hold = 0 /\ w.texp = 0 /\ w.thold = 0 /\ w.dirty = FALSE
  BY DEF ProbingEntry
<1>5. ~Durable(w)
  BY <1>4 DEF Durable
<1>6. Sound(w)
  BY <1>2, <1>4, <1>5 DEF Sound, Waits
<1> QED
  BY <1>3, <1>4, <1>5, <1>6 DEF Lasting, Waits

\* A candidate that answered no probe becomes a sound offer.
LEMMA OfferSound ==
  ASSUME NEW v \in Entry, Sound(v), v.st = "probing", wall \in Nat, mono \in Nat,
         NEW w, w = Settle([v EXCEPT !.exp = wall + OfferTime, !.hold = wall + OfferTime,
                             !.texp = mono + OfferTime, !.thold = mono + OfferTime,
                             !.due = 0, !.tries = 0, !.req.rip = NoAddr], "offered")
  PROVE  /\ w \in Entry /\ Sound(w) /\ Lasting(w)
         /\ w.id = v.id /\ w.st = "offered" /\ w.tok = NoToken /\ w.committed = v.committed
         /\ ~Durable(v)
<1> DEFINE req == [v.req EXCEPT !.rip = NoAddr]
           u == [v EXCEPT !.exp = wall + OfferTime, !.hold = wall + OfferTime,
                             !.texp = mono + OfferTime, !.thold = mono + OfferTime,
                             !.due = 0, !.tries = 0, !.req = req]
<1>1. req \in Request
  BY EntryFields DEF Request
<1>0. OfferTime \in Nat
  BY DhcpAssumption
<1>2. wall + OfferTime \in Nat /\ mono + OfferTime \in Int /\ 0 \in 0..MaxTries /\ 0 \in Nat
  BY <1>0 DEF MaxTries
<1>3. w = Settle(u, "offered")
  BY DEF Entry
<1> HIDE DEF req
<1>4. u \in Entry
  BY ONLY <1>1, <1>2, v \in Entry DEF Entry
<1>5. /\ u.exp = wall + OfferTime /\ u.hold = wall + OfferTime /\ u.texp = mono + OfferTime
      /\ u.thold = mono + OfferTime /\ u.id = v.id /\ u.committed = v.committed
      /\ u.dirty = v.dirty
  BY DEF Entry
<1> HIDE DEF u
<1>6. /\ w \in Entry
      /\ w.st = "offered" /\ w.tok = NoToken /\ w.id = u.id /\ w.exp = u.exp
      /\ w.hold = u.hold /\ w.texp = u.texp /\ w.thold = u.thold
      /\ w.committed = u.committed /\ w.dirty = u.dirty
  BY <1>3, <1>4, SettleFields
<1>7. ~Durable(v) /\ ~Durable(w) /\ ~w.dirty
  BY <1>5, <1>6, EntryFields DEF Sound, Durable
<1>8. Sound(w)
  BY <1>2, <1>5, <1>6, <1>7 DEF Sound, Waits
<1> QED
  BY <1>5, <1>6, <1>7, <1>8 DEF Lasting, Waits

\* A recovered row becomes a sound entry that is not waiting.
LEMMA RecoveredSound ==
  ASSUME NEW row \in Row, row.exp <= row.hold, wall \in Nat, mono \in Nat,
         NEW w, w = Recovered(row)
  PROVE  /\ w \in Entry /\ Sound(w) /\ Lasting(w)
         /\ w.id = row.id /\ w.st = row.st /\ w.tok = NoToken /\ w.committed = row
         /\ ~w.dirty /\ w.thold = mono + (row.hold - wall)
<1>1. /\ row # NoRow /\ row.id \in Ids /\ row.exp \in Nat /\ row.hold \in Nat
      /\ row.st \in {"bound", "quarantined"}
  BY RowFields
<1>2. NoRequest \in Request /\ 0 \in 0..MaxTries
  BY DEF NoRequest, Request, MaxTries
<1>3. row \in Row \cup {NoRow} /\ NoXid \in XIDs \cup {NoXid} /\ 0 \in Nat
      /\ NoMut \in PendingMutation \cup {NoMut} /\ NoToken \in Token \cup {NoToken}
      /\ mono + (row.exp - wall) \in Int /\ mono + (row.hold - wall) \in Int
  BY <1>1
<1>4. w \in Entry
  BY ONLY <1>1, <1>2, <1>3, w = Recovered(row) DEF Recovered, Entry
<1>5. /\ w.id = row.id /\ w.st = row.st /\ w.tok = NoToken /\ w.committed = row
      /\ w.exp = row.exp /\ w.hold = row.hold /\ w.texp = mono + (row.exp - wall)
      /\ w.thold = mono + (row.hold - wall) /\ w.dirty = FALSE
  BY DEF Recovered
<1>6. Durable(w)
  BY <1>1, <1>5 DEF Durable
<1>7. Sound(w)
  BY <1>1, <1>5, <1>6 DEF Sound, SoundRow, Waits
<1>8. Lasting(w)
  BY <1>1, <1>5 DEF Lasting, Waits
<1> QED
  BY <1>4, <1>5, <1>7, <1>8

\* A new request to answer, or a forgotten acknowledgement, changes nothing of this.
LEMMA TouchSound ==
  ASSUME NEW v \in Entry, Sound(v), Lasting(v), ~Waits(v),
         NEW r \in Request, NEW x \in XIDs \cup {NoXid},
         NEW w, w = [v EXCEPT !.req = r] \/ w = [v EXCEPT !.ack = x]
  PROVE  /\ w \in Entry /\ Sound(w) /\ Lasting(w)
         /\ w.id = v.id /\ w.st = v.st /\ w.tok = v.tok /\ w.committed = v.committed
         /\ w.dirty = v.dirty /\ w.thold = v.thold /\ w.texp = v.texp
<1>1. w \in Entry
  BY ONLY v \in Entry, r \in Request, x \in XIDs \cup {NoXid},
          w = [v EXCEPT !.req = r] \/ w = [v EXCEPT !.ack = x] DEF Entry
<1>2. /\ w.id = v.id /\ w.st = v.st /\ w.tok = v.tok /\ w.committed = v.committed
      /\ w.dirty = v.dirty /\ w.thold = v.thold /\ w.texp = v.texp
      /\ w.exp = v.exp /\ w.hold = v.hold
  BY DEF Entry
<1>3. Sound(w)
  BY <1>2 DEF Sound, SoundRow, Waits, Durable
<1>4. Lasting(w)
  BY <1>2 DEF Lasting, Waits, Durable
<1> QED
  BY <1>1, <1>2, <1>3, <1>4

-----------------------------------------------------------------------------
(* What the engine makes of its tables.                                    *)

\* The settings speak of the served addresses and of known clients.
LEMMA SettingsType ==
  ASSUME NEW g \in Generations
  PROVE  /\ Settings[g].pool \subseteq Settings[g].usable /\ Settings[g].usable \subseteq Addrs
         /\ Settings[g].pool \subseteq Addrs
         /\ Settings[g].res \in [Ids -> Addrs \cup {NoAddr}]
         /\ Settings[g].cap \in Nat /\ Settings[g].lease \in Nat \ {0}
         /\ ReservedAt(Settings[g]) \subseteq Addrs
         /\ \A i, j \in Ids : Settings[g].res[i] # NoAddr =>
              /\ Settings[g].res[i] \in Settings[g].usable
              /\ i # j => Settings[g].res[i] # Settings[g].res[j]
<1>1. g \in 1..Len(Settings)
  BY DEF Generations
<1> DEFINE S == [pool : SUBSET Subnet, usable : SUBSET Subnet,
                 res : [Ids -> Addrs \cup {NoAddr}], cap : Nat \ {0}, lease : Nat \ {0}]
<1>0. Settings \in Seq(S)
  BY DhcpAssumption
<1>2. Settings[g] \in S
  <2> HIDE DEF S
  <2> QED
    BY <1>0, <1>1, ElementOfSeq
<1>3. Subnet \subseteq Addrs /\ NoAddr \notin Addrs
  BY DhcpAssumption
<1>4. /\ Settings[g].pool \subseteq Settings[g].usable
      /\ \A i, j \in Ids : Settings[g].res[i] # NoAddr =>
           /\ Settings[g].res[i] \in Settings[g].usable
           /\ i # j => Settings[g].res[i] # Settings[g].res[j]
  BY DhcpAssumption
<1>5. ReservedAt(Settings[g]) \subseteq Addrs
  BY <1>2, <1>3 DEF ReservedAt
<1> QED
  BY <1>2, <1>3, <1>4, <1>5

\* Held addresses are finitely many.
LEMMA HeldFinite ==
  ASSUME NEW E
  PROVE  /\ IsFiniteSet(HeldIn(E)) /\ IsFiniteSet(ProbingIn(E))
         /\ Cardinality(ProbingIn(E)) \in Nat
<1>1. HeldIn(E) \subseteq Addrs /\ ProbingIn(E) \subseteq Addrs
  BY DEF HeldIn, ProbingIn
<1> QED
  BY <1>1, DhcpAssumption, FS_Subset, FS_CardinalityType

\* Another entry of the same client at a held address: the books stay in order when the
\* index still points to every entry that claims it and new tokens are really new.
LEMMA ReplaceKeepsBooks ==
  ASSUME gen \in Generations,
         NEW E, NEW I, NEW B, NEW p, NEW n \in Nat, Books(E, I, B, p, n),
         NEW a \in Addrs, E[a] # NoEntry,
         NEW w \in Entry, Sound(w), Lasting(w), w.id = E[a].id,
         NEW m \in Nat, n <= m,
         \/ w.tok = NoToken \/ w.tok = E[a].tok
         \/ w.tok \in Token /\ w.tok.gen = gen /\ n < w.tok.seq /\ w.tok.seq <= m,
         NEW I2, I2 = I \/ I2 = Forget(I, E[a].id, a), Claims(w) => I2[w.id] = a,
         NEW p2, E[a].st = "probing" /\ w.st # "probing" => p2 = p - 1,
         ~(E[a].st = "probing" /\ w.st # "probing") => p2 = p,
         w.st = "probing" => E[a].st = "probing",
         NEW F, F = [E EXCEPT ![a] = w]
  PROVE  Books(F, I2, B, p2, m)
<1>1. E \in [Addrs -> Entry \cup {NoEntry}] /\ I \in [Ids -> Addrs \cup {NoAddr}]
  BY DEF Books, Tables
<1>2. /\ F \in [Addrs -> Entry \cup {NoEntry}]
      /\ F[a] = w /\ \A b \in Addrs \ {a} : F[b] = E[b]
  BY <1>1
<1>3. w # NoEntry /\ w.id \in Ids /\ E[a] \in Entry
  BY <1>1, EntryFields
<1>4. HeldIn(F) = HeldIn(E)
  BY <1>2, <1>3 DEF HeldIn
<1>5. I2 \in [Ids -> Addrs \cup {NoAddr}]
  BY <1>1 DEF Forget
<1>6. AllSound(F)
  BY <1>2 DEF Books, AllSound
<1>7. Tokens(F, m)
  <2>1. \A b \in Addrs : E[b] # NoEntry => E[b].tok \in Token \cup {NoToken}
    BY <1>1, EntryFields
  <2>2. \A b \in Addrs : E[b] # NoEntry /\ E[b].tok # NoToken =>
          E[b].tok.gen = gen /\ E[b].tok.seq <= n /\ E[b].tok.seq \in Nat
    BY <2>1, TokenFields DEF Books, Tokens
  <2>3. w.tok # NoToken => w.tok.gen = gen /\ w.tok.seq <= m
    BY <2>2 DEF Books, Tokens
  <2>4. \A b \in Addrs : F[b] # NoEntry /\ F[b].tok # NoToken =>
          F[b].tok.gen = gen /\ F[b].tok.seq <= m
    BY <1>2, <2>2, <2>3
  <2>5. \A b \in Addrs \ {a} : E[b] # NoEntry /\ w.tok # NoToken => w.tok # E[b].tok
    <3> SUFFICES ASSUME NEW b \in Addrs \ {a}, E[b] # NoEntry, w.tok # NoToken, w.tok = E[b].tok
                 PROVE  FALSE
      OBVIOUS
    <3>1. CASE w.tok = E[a].tok
      BY <3>1 DEF Books, Tokens
    <3>2. CASE w.tok \in Token /\ n < w.tok.seq
      BY <3>2, <2>2
    <3> QED
      BY <3>1, <3>2
  <2>6. ASSUME NEW b \in Addrs, NEW c \in Addrs, F[b] # NoEntry, F[c] # NoEntry,
               F[b].tok # NoToken, F[b].tok = F[c].tok
        PROVE  b = c
    <3>1. CASE b = a
      BY <2>6, <3>1, <2>5, <1>2
    <3>2. CASE c = a
      BY <2>6, <3>2, <2>5, <1>2
    <3>3. CASE b # a /\ c # a
      BY <2>6, <3>3, <1>2 DEF Books, Tokens
    <3> QED
      BY <3>1, <3>2, <3>3
  <2> QED
    BY <2>4, <2>6 DEF Tokens
<1>8. Indexed(F, I2)
  <2>1. \A i \in Ids : I[i] # NoAddr => I[i] \in Addrs
    BY <1>1
  <2>2. ASSUME NEW i \in Ids, I2[i] # NoAddr
        PROVE  F[I2[i]] # NoEntry /\ F[I2[i]].id = i
    <3>1. I2[i] = I[i]
      BY <2>2, <1>1 DEF Forget
    <3> QED
      BY <2>1, <2>2, <3>1, <1>2, <1>3 DEF Books, Indexed
  <2>3. ASSUME NEW b \in Addrs, F[b] # NoEntry, Claims(F[b])
        PROVE  I2[F[b].id] = b
    <3>1. CASE b = a
      BY <2>3, <3>1, <1>2
    <3>2. CASE b # a
      <4>1. F[b] = E[b] /\ E[b].id \in Ids
        BY <2>3, <3>2, <1>1, <1>2, EntryFields
      <4>2. I[E[b].id] = b
        BY <2>3, <4>1 DEF Books, Indexed
      <4>3. I2[E[b].id] = I[E[b].id]
        BY <4>1, <4>2, <3>2, <1>1 DEF Forget
      <4> QED
        BY <4>1, <4>2, <4>3
    <3> QED
      BY <3>1, <3>2
  <2> QED
    BY <2>2, <2>3 DEF Indexed
<1>9. Counted(F, B, p2)
  <2>1. /\ B = (HeldIn(F) \cup Reserved) \cap Cfg.pool
        /\ p = Cardinality(ProbingIn(E)) /\ p <= MaxProbes
    BY <1>4 DEF Books, Counted
  <2>2. CASE E[a].st = "probing" /\ w.st # "probing"
    <3>1. a \in ProbingIn(E) /\ ProbingIn(F) = ProbingIn(E) \ {a}
      BY <2>2, <1>2, <1>4 DEF ProbingIn, HeldIn
    <3>2. Cardinality(ProbingIn(F)) = p - 1 /\ p \in Nat
      <4>1. Cardinality(ProbingIn(E) \ {a}) = Cardinality(ProbingIn(E)) - 1
        BY ONLY <3>1, HeldFinite, FS_RemoveElement
      <4>2. p \in Nat
        BY ONLY <2>1, HeldFinite
      <4> QED
        BY ONLY <4>1, <4>2, <3>1, <2>1
    <3>3. p2 = p - 1 /\ p2 <= MaxProbes
      BY <2>1, <2>2, <3>2 DEF MaxProbes
    <3> QED
      BY <2>1, <3>2, <3>3 DEF Counted
  <2>3. CASE ~(E[a].st = "probing" /\ w.st # "probing")
    <3>1. ProbingIn(F) = ProbingIn(E)
      BY <2>3, <1>2, <1>4 DEF ProbingIn, HeldIn
    <3> QED
      BY <2>1, <2>3, <3>1 DEF Counted
  <2> QED
    BY <2>2, <2>3
<1>10. Fits(Cfg, HeldIn(F), F)
  <2>1. \A b \in Addrs : E[b] # NoEntry => F[b].id = E[b].id
    BY <1>2
  <2> QED
    BY <1>4, <2>1 DEF Books, Fits, HeldIn
<1> QED
  BY <1>2, <1>5, <1>6, <1>7, <1>8, <1>9, <1>10 DEF Books, Tables

\* An address is freed.
LEMMA RemoveKeepsBooks ==
  ASSUME gen \in Generations,
         NEW E, NEW I, NEW B, NEW p, NEW n \in Nat, Books(E, I, B, p, n),
         NEW a \in Addrs, E[a] # NoEntry,
         NEW p2, IF E[a].st = "probing" THEN p2 = p - 1 ELSE p2 = p,
         NEW F, F = [E EXCEPT ![a] = NoEntry], NEW J, J = Forget(I, E[a].id, a)
  PROVE  Books(F, J, Unmark(B, a), p2, n)
<1>1. E \in [Addrs -> Entry \cup {NoEntry}] /\ I \in [Ids -> Addrs \cup {NoAddr}]
  BY DEF Books, Tables
<1>2. /\ F \in [Addrs -> Entry \cup {NoEntry}]
      /\ F[a] = NoEntry /\ \A b \in Addrs \ {a} : F[b] = E[b]
  BY <1>1
<1>3. /\ J \in [Ids -> Addrs \cup {NoAddr}]
      /\ \A i \in Ids : J[i] = I[i] \/ (J[i] = NoAddr /\ I[i] = a)
      /\ \A i \in Ids : i = E[a].id => J[i] # a
  BY <1>1, DhcpAssumption DEF Forget
<1>4. HeldIn(F) = HeldIn(E) \ {a} /\ a \in HeldIn(E)
  BY <1>2 DEF HeldIn
<1>6. AllSound(F)
  BY <1>2 DEF Books, AllSound
<1>7. Tokens(F, n)
  BY <1>2 DEF Books, Tokens
<1>8. Indexed(F, J)
  <2>2. ASSUME NEW i \in Ids, J[i] # NoAddr
        PROVE  F[J[i]] # NoEntry /\ F[J[i]].id = i
    <3>1. J[i] = I[i] /\ I[i] \in Addrs /\ E[I[i]].id = i /\ E[I[i]] # NoEntry
      BY <2>2, <1>1, <1>3 DEF Books, Indexed
    <3>2. I[i] # a
      BY <3>1, <1>3
    <3> QED
      BY <3>1, <3>2, <1>2
  <2>3. ASSUME NEW b \in Addrs, F[b] # NoEntry, Claims(F[b])
        PROVE  J[F[b].id] = b
    <3>1. b # a /\ F[b] = E[b] /\ E[b].id \in Ids
      BY <2>3, <1>1, <1>2, EntryFields
    <3>2. I[E[b].id] = b
      BY <2>3, <3>1 DEF Books, Indexed
    <3> QED
      BY <3>1, <3>2, <1>3
  <2> QED
    BY <2>2, <2>3 DEF Indexed
<1>9. Counted(F, Unmark(B, a), p2)
  <2>1. /\ B = (HeldIn(E) \cup Reserved) \cap Cfg.pool
        /\ p = Cardinality(ProbingIn(E)) /\ p <= MaxProbes
    BY DEF Books, Counted
  <2>2. Unmark(B, a) = (HeldIn(F) \cup Reserved) \cap Cfg.pool
    BY <1>4, <2>1 DEF Unmark
  <2>3. ProbingIn(F) = ProbingIn(E) \ {a}
    BY <1>2, <1>4 DEF ProbingIn, HeldIn
  <2>4. Cardinality(ProbingIn(F)) = p2
    <3>1. CASE E[a].st = "probing"
      <4>1. a \in ProbingIn(E)
        BY <3>1, <1>4 DEF ProbingIn
      <4>2. p2 = p - 1
        BY <3>1
      <4>3. Cardinality(ProbingIn(E) \ {a}) = Cardinality(ProbingIn(E)) - 1
        BY ONLY <4>1, HeldFinite, FS_RemoveElement
      <4> QED
        BY ONLY <4>2, <4>3, <2>1, <2>3
    <3>2. CASE E[a].st # "probing"
      <4>1. ProbingIn(F) = ProbingIn(E)
        BY <3>2, <2>3 DEF ProbingIn
      <4> QED
        BY <3>2, <4>1, <2>1
    <3> QED
      BY <3>1, <3>2
  <2>5. p \in Nat /\ p2 \in Int /\ p2 <= p
    BY <2>1, HeldFinite
  <2>6. p2 <= MaxProbes
    BY <2>1, <2>5 DEF MaxProbes
  <2> QED
    BY <2>2, <2>4, <2>6 DEF Counted
<1>10. Fits(Cfg, HeldIn(F), F)
  <2>1. HeldIn(F) \subseteq HeldIn(E) /\ \A b \in HeldIn(F) : F[b].id = E[b].id
    BY <1>2, <1>4 DEF HeldIn
  <2>2. Fits(Cfg, HeldIn(E), E)
    BY DEF Books
  <2>3. /\ HeldIn(F) \cup ReservedAt(Cfg) \subseteq HeldIn(E) \cup ReservedAt(Cfg)
        /\ IsFiniteSet(HeldIn(E) \cup ReservedAt(Cfg))
    <3>1. ReservedAt(Cfg) \subseteq Addrs
      BY SettingsType DEF Cfg
    <3>2. HeldIn(E) \cup ReservedAt(Cfg) \subseteq Addrs
      BY <3>1 DEF HeldIn
    <3> QED
      BY <2>1, <3>2, DhcpAssumption, FS_Subset
  <2>4. /\ Cardinality(HeldIn(F) \cup ReservedAt(Cfg)) \in Nat
        /\ Cardinality(HeldIn(E) \cup ReservedAt(Cfg)) \in Nat
        /\ Cardinality(HeldIn(F) \cup ReservedAt(Cfg))
             <= Cardinality(HeldIn(E) \cup ReservedAt(Cfg))
    BY <2>3, FS_Subset, FS_CardinalityType
  <2>5. Cfg.cap \in Nat
    BY SettingsType DEF Cfg
  <2> QED
    BY ONLY <2>1, <2>2, <2>4, <2>5 DEF Fits
<1> QED
  BY <1>2, <1>3, <1>6, <1>7, <1>8, <1>9, <1>10 DEF Books, Tables

\* The first of some addresses is one of them.
LEMMA FirstIn ==
  ASSUME NEW S \in SUBSET Addrs, S # {}
  PROVE  First(S) \in S
<1>1. S \subseteq Nat
  BY DhcpAssumption
<1> DEFINE R == OpToRel(<, Nat)
<1>2. IsWellFoundedOn(R, Nat)
  BY NatLessThanWellFounded
<1>3. \E x \in S : \A y \in S : ~(<<y, x>> \in R)
  <2> HIDE DEF R
  <2> QED
    BY <1>1, <1>2, WFMin
<1>4. PICK x \in S : \A y \in S : ~(<<y, x>> \in R)
  BY <1>3
<1>5. R = {ss \in Nat \X Nat : ss[1] < ss[2]}
  BY DEF OpToRel
<1> HIDE DEF R
<1>6. \A y \in S : x <= y
  <2> SUFFICES ASSUME NEW y \in S, y < x PROVE FALSE
    BY <1>1
  <2> DEFINE ss == <<y, x>>
  <2>1. ss \in Nat \X Nat /\ ss[1] < ss[2]
    BY <1>1
  <2>2. ss \in R
    BY <2>1, <1>5
  <2> QED
    BY <1>4, <2>2
<1> QED
  BY <1>6 DEF First

\* Address a is free, usable, and nobody else's reservation; probing it for client i stays
\* within the probe budget and the capacity.
FreeFor(E, p, i, a, try) ==
  /\ a \in Addrs /\ E[a] = NoEntry /\ a \in Cfg.usable
  /\ \A j \in Ids : Cfg.res[j] = a => j = i
  /\ Cardinality(HeldIn(E) \cup {a} \cup Reserved) <= Cfg.cap
  /\ p < MaxProbes /\ try <= MaxTries

\* The address a DISCOVER is given is free for the client.
LEMMA CandidateFree ==
  ASSUME gen \in Generations,
         NEW E, NEW I, NEW B, NEW p, NEW n, Books(E, I, B, p, n),
         NEW i \in Ids, NEW hint, NEW try \in Nat, NEW a, a = DiscoverAddr(E, B, p, i, hint, try),
         a # NoAddr
  PROVE  FreeFor(E, p, i, a, try)
<1> DEFINE X == HeldIn(E) \cup {a} \cup Reserved
<1>1. /\ Cfg.pool \subseteq Cfg.usable /\ Cfg.usable \subseteq Addrs /\ Cfg.pool \subseteq Addrs
      /\ Cfg.res \in [Ids -> Addrs \cup {NoAddr}] /\ Cfg.cap \in Nat
      /\ Reserved \subseteq Addrs
      /\ \A k, j \in Ids : Cfg.res[k] # NoAddr =>
           /\ Cfg.res[k] \in Cfg.usable
           /\ k # j => Cfg.res[k] # Cfg.res[j]
  BY SettingsType DEF Cfg, Reserved
<1>2. /\ a = Candidate(E, B, i, hint) /\ ~(p >= MaxProbes) /\ ~(try > MaxTries)
      /\ ~(Cardinality(HeldIn(E) \cup Reserved \cup {a}) > Cfg.cap)
  BY DEF DiscoverAddr
<1>3. B = (HeldIn(E) \cup Reserved) \cap Cfg.pool /\ p = Cardinality(ProbingIn(E))
  BY DEF Books, Counted
<1> DEFINE Free == /\ a \in Addrs /\ E[a] = NoEntry /\ a \in Cfg.usable
                   /\ \A j \in Ids : Cfg.res[j] = a => j = i
<1>4. ASSUME Reservation(i) # NoAddr PROVE Free
  <2>1. a = Reservation(i) /\ E[a] = NoEntry
    BY <1>2, <1>4 DEF Candidate
  <2>2. a = Cfg.res[i]
    BY <2>1 DEF Reservation
  <2>3. a \in Cfg.usable /\ \A j \in Ids : Cfg.res[j] = a => j = i
    BY <1>1, <2>2
  <2> QED
    BY <1>1, <2>1, <2>3
<1>5. ASSUME Reservation(i) = NoAddr PROVE Free
  <2>1. a \in Cfg.pool \ B
    <3>1. Cfg.pool \ B # {} => First(Cfg.pool \ B) \in Cfg.pool \ B
      BY <1>1, FirstIn
    <3> QED
      BY <1>2, <1>5, <3>1 DEF Candidate
  <2>2. a \in Addrs /\ a \notin HeldIn(E) /\ a \notin Reserved
    BY <1>1, <1>3, <2>1
  <2>3. \A j \in Ids : Cfg.res[j] # a
    BY <2>2, <1>1, DhcpAssumption DEF Reserved, ReservedAt
  <2> QED
    BY <1>1, <2>1, <2>2, <2>3 DEF HeldIn
<1>6. Free
  BY <1>4, <1>5
<1>7. /\ HeldIn(E) \cup Reserved \cup {a} = X
      /\ X \subseteq Addrs
  BY <1>1, <1>6 DEF HeldIn
<1>8. Cardinality(X) \in Nat
  BY <1>7, DhcpAssumption, FS_Subset, FS_CardinalityType
<1>9. Cardinality(X) <= Cfg.cap
  <2>1. ~(Cardinality(X) > Cfg.cap)
    BY ONLY <1>2, <1>7
  <2>2. Cfg.cap \in Nat
    BY <1>1
  <2> QED
    BY ONLY <1>8, <2>1, <2>2
<1>10. p \in Nat /\ p < MaxProbes /\ try <= MaxTries
  BY <1>2, <1>3, HeldFinite DEF MaxProbes, MaxTries
<1> QED
  BY ONLY <1>6, <1>9, <1>10 DEF FreeFor, X, Free

\* A new candidate keeps the books in order.
LEMMA AddKeepsBooks ==
  ASSUME gen \in Generations,
         NEW E, NEW I, NEW B, NEW p, NEW n \in Nat, Books(E, I, B, p, n),
         NEW i \in Ids, I[i] = NoAddr,
         NEW a \in Addrs, E[a] = NoEntry, a \in Cfg.usable,
         \A j \in Ids : Cfg.res[j] = a => j = i,
         NEW X, X = HeldIn(E) \cup {a} \cup Reserved, Cardinality(X) <= Cfg.cap,
         p < MaxProbes,
         NEW w \in Entry, Sound(w), Lasting(w), w.id = i, w.st = "probing",
         w.tok = [gen |-> gen, seq |-> n + 1],
         NEW F, F = [E EXCEPT ![a] = w], NEW J, J = [I EXCEPT ![i] = a]
  PROVE  Books(F, J, Mark(B, a), p + 1, n + 1)
<1>1. E \in [Addrs -> Entry \cup {NoEntry}] /\ I \in [Ids -> Addrs \cup {NoAddr}]
  BY DEF Books, Tables
<1>2. /\ F \in [Addrs -> Entry \cup {NoEntry}]
      /\ F[a] = w /\ \A b \in Addrs \ {a} : F[b] = E[b]
      /\ w # NoEntry
  BY <1>1, EntryFields
<1>3. /\ J \in [Ids -> Addrs \cup {NoAddr}]
      /\ J[i] = a /\ \A j \in Ids \ {i} : J[j] = I[j]
  BY <1>1
<1>4. HeldIn(F) = HeldIn(E) \cup {a} /\ a \notin HeldIn(E)
  BY <1>2 DEF HeldIn
<1>5. NoAddr \notin Addrs
  BY DhcpAssumption
<1>6. AllSound(F)
  BY <1>2 DEF Books, AllSound
<1>7. Tokens(F, n + 1)
  <2>1. \A b \in Addrs : E[b] # NoEntry => E[b].tok \in Token \cup {NoToken}
    BY <1>1, EntryFields
  <2>2. \A b \in Addrs : E[b] # NoEntry /\ E[b].tok # NoToken =>
          E[b].tok.gen = gen /\ E[b].tok.seq <= n /\ E[b].tok.seq \in Nat
    BY <2>1, TokenFields DEF Books, Tokens
  <2>3. w.tok.gen = gen /\ w.tok.seq = n + 1
    OBVIOUS
  <2>4. \A b \in Addrs : F[b] # NoEntry /\ F[b].tok # NoToken =>
          F[b].tok.gen = gen /\ F[b].tok.seq <= n + 1
    BY <1>2, <2>2, <2>3
  <2>5. \A b \in Addrs \ {a} : E[b] # NoEntry => w.tok # E[b].tok
    <3> SUFFICES ASSUME NEW b \in Addrs \ {a}, E[b] # NoEntry, w.tok = E[b].tok
                 PROVE  FALSE
      OBVIOUS
    <3>1. w.tok = NoToken \/ w.tok.seq <= n
      BY <2>2
    <3> QED
      BY <3>1, <2>3 DEF NoToken
  <2>6. ASSUME NEW b \in Addrs, NEW c \in Addrs, F[b] # NoEntry, F[c] # NoEntry,
               F[b].tok # NoToken, F[b].tok = F[c].tok
        PROVE  b = c
    <3>1. CASE b = a
      BY <2>6, <3>1, <2>5, <1>2
    <3>2. CASE c = a
      BY <2>6, <3>2, <2>5, <1>2
    <3>3. CASE b # a /\ c # a
      BY <2>6, <3>3, <1>2 DEF Books, Tokens
    <3> QED
      BY <3>1, <3>2, <3>3
  <2> QED
    BY <2>4, <2>6 DEF Tokens
<1>8. Indexed(F, J)
  <2>2. ASSUME NEW j \in Ids, J[j] # NoAddr
        PROVE  F[J[j]] # NoEntry /\ F[J[j]].id = j
    <3>1. CASE j = i
      BY <3>1, <1>2, <1>3
    <3>2. CASE j # i
      <4>1. J[j] = I[j] /\ I[j] \in Addrs /\ E[I[j]] # NoEntry /\ E[I[j]].id = j
        BY <2>2, <3>2, <1>1, <1>3 DEF Books, Indexed
      <4> QED
        BY <4>1, <1>2
    <3> QED
      BY <3>1, <3>2
  <2>3. ASSUME NEW b \in Addrs, F[b] # NoEntry, Claims(F[b])
        PROVE  J[F[b].id] = b
    <3>1. CASE b = a
      BY <3>1, <1>2, <1>3
    <3>2. CASE b # a
      <4>1. F[b] = E[b] /\ E[b].id \in Ids
        BY <2>3, <3>2, <1>1, <1>2, EntryFields
      <4>2. I[E[b].id] = b
        BY <2>3, <4>1 DEF Books, Indexed
      <4> QED
        BY <4>1, <4>2, <1>3, <1>5
    <3> QED
      BY <3>1, <3>2
  <2> QED
    BY <2>2, <2>3 DEF Indexed
<1>9. Counted(F, Mark(B, a), p + 1)
  <2>1. /\ B = (HeldIn(E) \cup Reserved) \cap Cfg.pool
        /\ p = Cardinality(ProbingIn(E)) /\ p <= MaxProbes
    BY DEF Books, Counted
  <2>2. Mark(B, a) = (HeldIn(F) \cup Reserved) \cap Cfg.pool
    BY <1>4, <2>1 DEF Mark
  <2>3. ProbingIn(F) = ProbingIn(E) \cup {a} /\ a \notin ProbingIn(E)
    BY <1>2, <1>4 DEF ProbingIn, HeldIn
  <2>4. Cardinality(ProbingIn(F)) = p + 1
    BY <2>1, <2>3, HeldFinite, FS_AddElement
  <2>5. p \in Nat /\ p + 1 <= MaxProbes
    BY <2>1, HeldFinite DEF MaxProbes
  <2> QED
    BY <2>2, <2>4, <2>5 DEF Counted
<1>10. Fits(Cfg, HeldIn(F), F)
  <2>1. Fits(Cfg, HeldIn(E), E)
    BY DEF Books
  <2>2. HeldIn(F) \subseteq Cfg.usable
    BY <1>4, <2>1 DEF Fits
  <2>3. ASSUME NEW j \in Ids, Cfg.res[j] \in HeldIn(F)
        PROVE  F[Cfg.res[j]].id = j
    <3>1. CASE Cfg.res[j] = a
      BY <3>1, <1>2
    <3>2. CASE Cfg.res[j] # a
      <4>1. Cfg.res[j] \in HeldIn(E) /\ Cfg.res[j] \in Addrs
        BY <2>3, <3>2, <1>4 DEF HeldIn
      <4> QED
        BY <3>2, <4>1, <1>2, <2>1 DEF Fits
    <3> QED
      BY <3>1, <3>2
  <2>4. Cardinality(HeldIn(F) \cup ReservedAt(Cfg)) <= Cfg.cap
    <3>1. HeldIn(F) \cup ReservedAt(Cfg) = X
      BY <1>4 DEF Reserved
    <3> QED
      BY <3>1
  <2> QED
    BY <2>2, <2>3, <2>4 DEF Fits
<1> QED
  BY <1>2, <1>3, <1>6, <1>7, <1>8, <1>9, <1>10 DEF Books, Tables

-----------------------------------------------------------------------------
(* What the engine and the store make of the writes in flight.             *)

Completion == [tok : Token, ok : BOOLEAN]

\* The fields of a message, and of a completion.
LEMMA MessageFields ==
  /\ \A q \in Mutation : q.tok \in Token /\ q.addr \in Addrs /\ q.row \in Row
                         /\ q.kind \in {"put", "delete"}
  /\ \A r \in Completion : r.tok \in Token /\ r.ok \in BOOLEAN
BY DEF Mutation, Completion

\* The message of a waiting entry.
LEMMA MessageType ==
  ASSUME NEW a \in Addrs, NEW w \in Entry, Waits(w), Sound(w)
  PROVE  /\ Message(a, w) \in Mutation
         /\ Message(a, w).tok = w.tok /\ Message(a, w).addr = a
         /\ Message(a, w).kind = w.mut.kind /\ Message(a, w).row = w.mut.row
<1>1. /\ w.mut \in PendingMutation /\ w.tok \in Token
  BY EntryFields DEF Sound, Waits
<1>2. w.mut.kind \in {"put", "delete"} /\ w.mut.row \in Row
  BY <1>1, MutationFields
<1> QED
  BY <1>1, <1>2 DEF Message, Mutation

\* An entry that waits has a token that was given out.
LEMMA BusyTokens ==
  ASSUME NEW E \in [Addrs -> Entry \cup {NoEntry}], NEW n \in Nat,
         AllSound(E), Tokens(E, n), NEW a \in Addrs, Busy(E, a)
  PROVE  /\ E[a] \in Entry /\ E[a].tok \in Token /\ E[a].tok.gen = gen /\ E[a].tok.seq <= n
         /\ \A b \in Addrs : Busy(E, b) /\ E[b].tok = E[a].tok => a = b
<1>1. E[a] \in Entry /\ E[a].tok # NoToken
  BY DEF Busy, AllSound, Sound, Waits
<1> QED
  BY <1>1, EntryFields DEF Tokens, Busy

\* New writes join the ones in flight.
LEMMA SendInFlight ==
  ASSUME NEW E \in [Addrs -> Entry \cup {NoEntry}], NEW F \in [Addrs -> Entry \cup {NoEntry}],
         NEW n \in Nat, AllSound(E), Tokens(E, n),
         NEW Q \in Seq(Mutation), NEW S \in Seq(Mutation), NEW R \in Seq(Completion),
         NEW T, NEW err, InFlight(E, Q, R, T, err),
         \A a \in Addrs : CommittedAt(F, a) = CommittedAt(E, a),
         \A a \in Addrs : Busy(E, a) => F[a] = E[a],
         err = "none" =>
           \A a \in Addrs : Busy(F, a) => Busy(E, a) \/ \E k \in 1..Len(S) : S[k].addr = a,
         \A a \in Addrs : Busy(F, a) /\ ~Busy(E, a) => F[a].tok.seq > n,
         \A k \in 1..Len(S) : /\ ~Busy(E, S[k].addr) /\ Busy(F, S[k].addr)
                              /\ S[k] = Message(S[k].addr, F[S[k].addr])
                              /\ S[k].tok = F[S[k].addr].tok,
         \A k, l \in 1..Len(S) : S[k].addr = S[l].addr => k = l
  PROVE  InFlight(F, Q \o S, R, T, err)
<1> DEFINE P == Q \o S
<1>1. /\ Len(Q) \in Nat /\ Len(S) \in Nat /\ Len(R) \in Nat
      /\ \A k \in 1..Len(Q) : Q[k].addr \in Addrs /\ Q[k].tok \in Token
      /\ \A k \in 1..Len(S) : S[k].addr \in Addrs /\ S[k].tok \in Token
      /\ \A k \in 1..Len(R) : R[k].tok \in Token
  BY ElementOfSeq, MessageFields, LenProperties
<1>2. /\ Len(P) = Len(Q) + Len(S)
      /\ \A k \in 1..Len(P) : P[k] = IF k <= Len(Q) THEN Q[k] ELSE S[k - Len(Q)]
  BY ConcatProperties
<1> HIDE DEF P
<1>3. Carried(E, Q, R) /\ Written(E, Q, R, T)
  BY DEF InFlight
<1>4. ASSUME NEW k \in 1..Len(P)
      PROVE  \/ k \in 1..Len(Q) /\ P[k] = Q[k] /\ Busy(E, Q[k].addr) /\ P[k].addr \in Addrs
             \/ /\ k - Len(Q) \in 1..Len(S) /\ P[k] = S[k - Len(Q)] /\ ~Busy(E, P[k].addr)
                /\ P[k].addr \in Addrs /\ Busy(F, P[k].addr)
  <2>1. CASE k <= Len(Q)
    <3>1. k \in 1..Len(Q) /\ P[k] = Q[k]
      BY <1>1, <1>2, <2>1
    <3> QED
      BY <3>1, <1>1, <1>3 DEF Carried
  <2>2. CASE ~(k <= Len(Q))
    <3>1. k - Len(Q) \in 1..Len(S) /\ P[k] = S[k - Len(Q)]
      BY <1>1, <1>2, <2>2
    <3> QED
      BY <3>1, <1>1
  <2> QED
    BY <2>1, <2>2
<1>5. \A k \in 1..Len(R) : \E a \in Addrs : Busy(E, a) /\ E[a].tok = R[k].tok
  BY <1>3 DEF Carried
<1>6. \A k \in 1..Len(R) : R[k].tok.seq <= n
  <2>1. \A a \in Addrs : Busy(E, a) => E[a].tok.seq <= n
    BY BusyTokens
  <2> QED
    BY ONLY <1>5, <2>1
<1>7. \A k \in 1..Len(S) : ~(S[k].tok.seq <= n)
  <2> SUFFICES ASSUME NEW k \in 1..Len(S) PROVE ~(S[k].tok.seq <= n)
    OBVIOUS
  <2>1. S[k].tok.seq > n /\ S[k].tok.seq \in Nat
    BY <1>1, TokenFields
  <2> QED
    BY <2>1
<1>8. Carried(F, P, R)
  <2>1. \A k \in 1..Len(P) : Busy(F, P[k].addr) /\ P[k] = Message(P[k].addr, F[P[k].addr])
    <3> SUFFICES ASSUME NEW k \in 1..Len(P)
                 PROVE  Busy(F, P[k].addr) /\ P[k] = Message(P[k].addr, F[P[k].addr])
      OBVIOUS
    <3>1. CASE k \in 1..Len(Q) /\ P[k] = Q[k] /\ Busy(E, Q[k].addr) /\ P[k].addr \in Addrs
      <4>1. Q[k] = Message(Q[k].addr, E[Q[k].addr]) /\ F[Q[k].addr] = E[Q[k].addr]
        BY <3>1, <1>3 DEF Carried
      <4> QED
        BY <3>1, <4>1 DEF Busy
    <3>2. CASE k - Len(Q) \in 1..Len(S) /\ P[k] = S[k - Len(Q)]
      BY <3>2
    <3> QED
      BY <3>1, <3>2, <1>4
  <2>2. \A k \in 1..Len(R) : \E a \in Addrs : Busy(F, a) /\ F[a].tok = R[k].tok
    <3>1. \A a \in Addrs : Busy(E, a) => Busy(F, a) /\ F[a].tok = E[a].tok
      BY DEF Busy
    <3> QED
      BY ONLY <1>5, <3>1
  <2>3. \A k, l \in 1..Len(P) : P[k].addr = P[l].addr => k = l
    <3> SUFFICES ASSUME NEW k \in 1..Len(P), NEW l \in 1..Len(P), P[k].addr = P[l].addr
                 PROVE  k = l
      OBVIOUS
    <3>1. CASE k \in 1..Len(Q) /\ P[k] = Q[k] /\ Busy(E, Q[k].addr)
      <4>1. l \in 1..Len(Q) /\ P[l] = Q[l]
        BY <3>1, <1>4
      <4> QED
        BY <3>1, <4>1, <1>3 DEF Carried
    <3>2. CASE k - Len(Q) \in 1..Len(S) /\ P[k] = S[k - Len(Q)] /\ ~Busy(E, P[k].addr)
      <4>1. l - Len(Q) \in 1..Len(S) /\ P[l] = S[l - Len(Q)]
        BY <3>2, <1>4
      <4>2. k - Len(Q) = l - Len(Q)
        BY <3>2, <4>1
      <4> QED
        BY <4>2, <1>1, <1>2
    <3> QED
      BY <3>1, <3>2, <1>4
  <2>4. \A k \in 1..Len(P), l \in 1..Len(R) : P[k].tok # R[l].tok
    <3> SUFFICES ASSUME NEW k \in 1..Len(P), NEW l \in 1..Len(R)
                 PROVE  P[k].tok # R[l].tok
      OBVIOUS
    <3>1. CASE k \in 1..Len(Q) /\ P[k] = Q[k]
      BY <3>1, <1>3 DEF Carried
    <3>2. CASE k - Len(Q) \in 1..Len(S) /\ P[k] = S[k - Len(Q)]
      <4>1. R[l].tok.seq <= n /\ ~(S[k - Len(Q)].tok.seq <= n)
        BY ONLY <3>2, <1>6, <1>7, l \in 1..Len(R)
      <4> QED
        BY ONLY <3>2, <4>1
    <3> QED
      BY <3>1, <3>2, <1>4
  <2>5. \A k, l \in 1..Len(R) : R[k].tok = R[l].tok => k = l
    BY <1>3 DEF Carried
  <2> QED
    BY <2>1, <2>2, <2>3, <2>4, <2>5 DEF Carried
<1>9. Written(F, P, R, T)
  <2> SUFFICES ASSUME NEW a \in Addrs
               PROVE  /\ \/ T[a] = CommittedAt(F, a)
                         \/ Busy(F, a) /\ T[a] = Effect(F[a].mut)
                      /\ \A k \in 1..Len(P) : P[k].addr = a => T[a] = CommittedAt(F, a)
                      /\ \A k \in 1..Len(R) : Busy(F, a) /\ R[k].tok = F[a].tok =>
                           T[a] = IF R[k].ok THEN Effect(F[a].mut) ELSE F[a].committed
    BY DEF Written
  <2>1. /\ \/ T[a] = CommittedAt(E, a)
           \/ Busy(E, a) /\ T[a] = Effect(E[a].mut)
        /\ \A k \in 1..Len(Q) : Q[k].addr = a => T[a] = CommittedAt(E, a)
        /\ \A k \in 1..Len(R) : Busy(E, a) /\ R[k].tok = E[a].tok =>
             T[a] = IF R[k].ok THEN Effect(E[a].mut) ELSE E[a].committed
    BY <1>3 DEF Written
  <2>2. \/ T[a] = CommittedAt(F, a)
        \/ Busy(F, a) /\ T[a] = Effect(F[a].mut)
    BY <2>1 DEF Busy
  <2>3. \A k \in 1..Len(P) : P[k].addr = a => T[a] = CommittedAt(F, a)
    BY <1>4, <2>1
  <2>4. ASSUME NEW k \in 1..Len(R), Busy(F, a), R[k].tok = F[a].tok
        PROVE  T[a] = IF R[k].ok THEN Effect(F[a].mut) ELSE F[a].committed
    <3>1. CASE Busy(E, a)
      BY <2>1, <2>4, <3>1
    <3>2. CASE ~Busy(E, a)
      <4>1. F[a].tok.seq > n /\ F[a].tok.seq <= n
        BY <1>6, <2>4, <3>2
      <4>2. F[a].tok.seq \in Nat
        BY <1>1, <2>4, TokenFields
      <4> QED
        BY <4>1, <4>2
    <3> QED
      BY <3>1, <3>2
  <2> QED
    BY <2>2, <2>3, <2>4
<1>10. ASSUME err = "none" PROVE Answered(F, P, R)
  <2>1. Answered(E, Q, R)
    BY <1>10 DEF InFlight
  <2> SUFFICES ASSUME NEW a \in Addrs, Busy(F, a)
               PROVE  \/ \E k \in 1..Len(P) : P[k].addr = a
                      \/ \E k \in 1..Len(R) : R[k].tok = F[a].tok
    BY DEF Answered
  <2>2. \A k \in 1..Len(Q) : k \in 1..Len(P) /\ P[k] = Q[k]
    BY <1>1, <1>2
  <2>3. \A k \in 1..Len(S) : k + Len(Q) \in 1..Len(P) /\ P[k + Len(Q)] = S[k]
    <3> SUFFICES ASSUME NEW k \in 1..Len(S)
                 PROVE  k + Len(Q) \in 1..Len(P) /\ P[k + Len(Q)] = S[k]
      OBVIOUS
    <3>1. k + Len(Q) \in 1..Len(P) /\ ~(k + Len(Q) <= Len(Q)) /\ (k + Len(Q)) - Len(Q) = k
      BY <1>1, <1>2
    <3> QED
      BY <3>1, <1>2
  <2>4. CASE Busy(E, a)
    <3>1. \/ \E k \in 1..Len(Q) : Q[k].addr = a
          \/ \E k \in 1..Len(R) : R[k].tok = E[a].tok
      BY ONLY <2>1, <2>4, a \in Addrs DEF Answered
    <3>2. F[a] = E[a]
      BY <2>4
    <3> QED
      BY ONLY <2>2, <3>1, <3>2
  <2>5. CASE \E k \in 1..Len(S) : S[k].addr = a
    BY <2>3, <2>5
  <2> QED
    BY <1>10, <2>4, <2>5
<1> QED
  BY <1>8, <1>9, <1>10 DEF InFlight, P

\* A step that sends nothing and leaves the waiting entries alone.
LEMMA QuietInFlight ==
  ASSUME NEW E \in [Addrs -> Entry \cup {NoEntry}], NEW F \in [Addrs -> Entry \cup {NoEntry}],
         NEW n \in Nat, AllSound(E), Tokens(E, n),
         NEW Q \in Seq(Mutation), NEW R \in Seq(Completion),
         NEW T, NEW err, InFlight(E, Q, R, T, err),
         \A a \in Addrs : CommittedAt(F, a) = CommittedAt(E, a),
         \A a \in Addrs : Busy(E, a) => F[a] = E[a],
         \A a \in Addrs : Busy(F, a) => Busy(E, a)
  PROVE  InFlight(F, Q, R, T, err)
<1> DEFINE S == << >>
<1>1. S \in Seq(Mutation) /\ Len(S) = 0 /\ Q \o S = Q
  BY EmptySeq, ConcatEmptySeq
<1>2. 1..Len(S) = {}
  BY <1>1
<1> HIDE DEF S
<1>3. InFlight(F, Q \o S, R, T, err)
  BY <1>1, <1>2, SendInFlight
<1> QED
  BY <1>1, <1>3

\* The oldest completion is taken: the entry has what the table has.
LEMMA CompleteInFlight ==
  ASSUME NEW E \in [Addrs -> Entry \cup {NoEntry}], NEW n \in Nat, AllSound(E), Tokens(E, n),
         NEW Q \in Seq(Mutation), NEW R \in Seq(Completion), R # << >>,
         NEW T, NEW err, InFlight(E, Q, R, T, err),
         NEW a \in Addrs, Busy(E, a), E[a].tok = Head(R).tok,
         NEW w, NEW F, F = [E EXCEPT ![a] = w], ~Busy(F, a),
         CommittedAt(F, a) = IF Head(R).ok THEN Effect(E[a].mut) ELSE E[a].committed
  PROVE  InFlight(F, Q, Tail(R), T, err)
<1> DEFINE P == Tail(R)
<1>1. /\ Len(Q) \in Nat /\ Len(R) \in Nat /\ Len(P) = Len(R) - 1 /\ Head(R) = R[1]
      /\ \A k \in 1..Len(P) : P[k] = R[k + 1] /\ k + 1 \in 1..Len(R) /\ k + 1 # 1
      /\ 1 \in 1..Len(R)
      /\ \A k \in 1..Len(Q) : Q[k].addr \in Addrs
  <2>1. Len(R) \in Nat \ {0} /\ Len(Q) \in Nat
    BY EmptySeq, LenProperties
  <2>2. Len(P) = Len(R) - 1 /\ \A k \in 1..Len(P) : P[k] = R[k + 1]
    BY HeadTailProperties
  <2>3. \A k \in 1..Len(Q) : Q[k].addr \in Addrs
    BY ElementOfSeq, MessageFields
  <2> HIDE DEF P
  <2> QED
    BY <2>1, <2>2, <2>3
<1> HIDE DEF P
<1>2. Carried(E, Q, R) /\ Written(E, Q, R, T)
  BY DEF InFlight
<1>3. \A b \in Addrs \ {a} : F[b] = E[b]
  OBVIOUS
<1>4. \A k \in 1..Len(Q) : Q[k].addr # a
  <2> SUFFICES ASSUME NEW k \in 1..Len(Q), Q[k].addr = a PROVE FALSE
    OBVIOUS
  <2>1. Q[k] = Message(a, E[a])
    BY <1>2 DEF Carried
  <2>2. Q[k].tok = E[a].tok
    BY <2>1 DEF Message
  <2> QED
    BY <2>2, <1>1, <1>2 DEF Carried
<1>5. \A k \in 1..Len(P) : P[k].tok # E[a].tok
  <2>1. \A k, l \in 1..Len(R) : R[k].tok = R[l].tok => k = l
    BY <1>2 DEF Carried
  <2> SUFFICES ASSUME NEW k \in 1..Len(P), P[k].tok = E[a].tok PROVE FALSE
    OBVIOUS
  <2>2. P[k] = R[k + 1] /\ k + 1 \in 1..Len(R) /\ k + 1 # 1 /\ 1 \in 1..Len(R) /\ Head(R) = R[1]
    BY <1>1
  <2> QED
    BY ONLY <2>1, <2>2, P[k].tok = E[a].tok, E[a].tok = Head(R).tok
<1>6. \A b \in Addrs : Busy(F, b) <=> Busy(E, b) /\ b # a
  BY <1>3 DEF Busy
<1>7. Carried(F, Q, P)
  <2>1. \A k \in 1..Len(Q) : Busy(F, Q[k].addr) /\ Q[k] = Message(Q[k].addr, F[Q[k].addr])
    BY <1>1, <1>2, <1>3, <1>4, <1>6 DEF Carried
  <2>2. ASSUME NEW k \in 1..Len(P)
        PROVE  \E b \in Addrs : Busy(F, b) /\ F[b].tok = P[k].tok
    <3>1. PICK b \in Addrs : Busy(E, b) /\ E[b].tok = P[k].tok
      BY <1>1, <1>2 DEF Carried
    <3> QED
      BY <3>1, <1>3, <1>5, <1>6
  <2>3. \A k, l \in 1..Len(P) : P[k].tok = P[l].tok => k = l
    <3> SUFFICES ASSUME NEW k \in 1..Len(P), NEW l \in 1..Len(P), P[k].tok = P[l].tok
                 PROVE  k = l
      OBVIOUS
    <3>0. /\ R[k + 1].tok = R[l + 1].tok /\ k + 1 \in 1..Len(R) /\ l + 1 \in 1..Len(R)
          /\ \A x, y \in 1..Len(R) : R[x].tok = R[y].tok => x = y
      BY <1>1, <1>2 DEF Carried
    <3>1. k + 1 = l + 1
      BY <3>0
    <3> QED
      BY <3>1
  <2>4. \A k \in 1..Len(Q), l \in 1..Len(P) : Q[k].tok # P[l].tok
    <3>1. \A k \in 1..Len(Q), l \in 1..Len(R) : Q[k].tok # R[l].tok
      BY <1>2 DEF Carried
    <3> QED
      BY <3>1, <1>1
  <2>5. \A k, l \in 1..Len(Q) : Q[k].addr = Q[l].addr => k = l
    BY <1>2 DEF Carried
  <2> QED
    BY <2>1, <2>2, <2>3, <2>4, <2>5 DEF Carried
<1>8. Written(F, Q, P, T)
  <2> SUFFICES ASSUME NEW b \in Addrs
               PROVE  /\ \/ T[b] = CommittedAt(F, b)
                         \/ Busy(F, b) /\ T[b] = Effect(F[b].mut)
                      /\ \A k \in 1..Len(Q) : Q[k].addr = b => T[b] = CommittedAt(F, b)
                      /\ \A k \in 1..Len(P) : Busy(F, b) /\ P[k].tok = F[b].tok =>
                           T[b] = IF P[k].ok THEN Effect(F[b].mut) ELSE F[b].committed
    BY DEF Written
  <2>1. CASE b = a
    <3>1. T[a] = IF R[1].ok THEN Effect(E[a].mut) ELSE E[a].committed
      BY <1>1, <1>2 DEF Written
    <3>2. T[a] = CommittedAt(F, a)
      BY <3>1, <1>1
    <3> QED
      BY <2>1, <3>2, <1>4
  <2>2. CASE b # a
    <3>1. F[b] = E[b] /\ (Busy(F, b) <=> Busy(E, b)) /\ CommittedAt(F, b) = CommittedAt(E, b)
      BY <2>2, <1>3, <1>6 DEF CommittedAt
    <3>2. /\ \/ T[b] = CommittedAt(E, b)
             \/ Busy(E, b) /\ T[b] = Effect(E[b].mut)
          /\ \A k \in 1..Len(Q) : Q[k].addr = b => T[b] = CommittedAt(E, b)
          /\ \A k \in 1..Len(R) : Busy(E, b) /\ R[k].tok = E[b].tok =>
               T[b] = IF R[k].ok THEN Effect(E[b].mut) ELSE E[b].committed
      BY <1>2 DEF Written
    <3> QED
      BY <3>1, <3>2, <1>1
  <2> QED
    BY <2>1, <2>2
<1>9. ASSUME err = "none" PROVE Answered(F, Q, P)
  <2>1. Answered(E, Q, R)
    BY <1>9 DEF InFlight
  <2> SUFFICES ASSUME NEW b \in Addrs, Busy(F, b)
               PROVE  \/ \E k \in 1..Len(Q) : Q[k].addr = b
                      \/ \E k \in 1..Len(P) : P[k].tok = F[b].tok
    BY DEF Answered
  <2>2. b # a /\ Busy(E, b) /\ F[b] = E[b]
    BY <1>3, <1>6
  <2>3. CASE \E k \in 1..Len(Q) : Q[k].addr = b
    BY <2>3
  <2>4. CASE \E k \in 1..Len(R) : R[k].tok = E[b].tok
    <3>1. PICK k \in 1..Len(R) : R[k].tok = E[b].tok
      BY <2>4
    <3>2. k # 1
      <4>1. E[b].tok # E[a].tok
        BY <2>2, BusyTokens
      <4> QED
        BY <3>1, <4>1, <1>1
    <3>3. k - 1 \in 1..Len(P) /\ P[k - 1] = R[k]
      BY <3>2, <1>1
    <3> QED
      BY <3>1, <3>3, <2>2
  <2> QED
    BY <2>1, <2>2, <2>3, <2>4 DEF Answered
<1> QED
  BY <1>7, <1>8, <1>9 DEF InFlight, P

\* The table after part of the queue: at an address written, the effect of its entry's
\* write; at any other, what it was.
LEMMA AfterValue ==
  ASSUME NEW E, NEW Q, NEW R, Carried(E, Q, R), NEW T, NEW m \in Nat, m <= Len(Q),
         Len(Q) \in Nat, NEW b, \A j \in 1..m : b[j] = Q[j],
         NEW a \in Addrs
  PROVE  /\ \A j \in 1..m : Q[j].addr = a => After(T, b, m)[a] = Effect(E[a].mut)
         /\ (\A j \in 1..m : Q[j].addr # a) => After(T, b, m)[a] = T[a]
<1> DEFINE writes == {k \in 1..m : b[k].addr = a}
<1>1. After(T, b, m)[a] = IF writes = {} THEN T[a]
                          ELSE Effect(b[CHOOSE k \in writes : \A l \in writes : l <= k])
  BY DEF After
<1>2. ASSUME NEW j \in 1..m, Q[j].addr = a
      PROVE  After(T, b, m)[a] = Effect(E[a].mut)
  <2>1. \A k \in writes : k = j
    BY <1>2 DEF Carried
  <2>2. j \in writes /\ \A l \in writes : l <= j
    BY <1>2, <2>1
  <2> DEFINE c == CHOOSE k \in writes : \A l \in writes : l <= k
  <2>3. c \in writes
    BY <2>2
  <2>4. c = j
    BY <2>1, <2>3
  <2>5. After(T, b, m)[a] = Effect(Q[j])
    BY <1>1, <2>2, <2>4
  <2>6. Q[j] = Message(a, E[a])
    BY <1>2 DEF Carried
  <2>7. Q[j].kind = E[a].mut.kind /\ Q[j].row = E[a].mut.row
    BY <2>6 DEF Message
  <2> QED
    BY <2>5, <2>7 DEF Effect
<1>3. ASSUME \A j \in 1..m : Q[j].addr # a
      PROVE  After(T, b, m)[a] = T[a]
  <2>1. writes = {}
    BY <1>3
  <2> QED
    BY <1>1, <2>1
<1> QED
  BY <1>2, <1>3

\* What a batch that is taken from the queue did to the table.
Took(E, Q, k, T, T2, applied) ==
  \A a \in Addrs :
    /\ \A j \in 1..k : Q[j].addr = a => T2[a] = IF applied THEN Effect(E[a].mut) ELSE T[a]
    /\ (\A j \in 1..k : Q[j].addr # a) => T2[a] = T[a]

\* A transaction applies its batch as a whole, or not at all.
LEMMA BatchTook ==
  ASSUME NEW E, NEW R, NEW Q \in Seq(Mutation), Carried(E, Q, R),
         NEW T, NEW k \in 1..Len(Q), NEW applied \in BOOLEAN,
         NEW T2, applied => T2 = After(T, SubSeq(Q, 1, k), k), ~applied => T2 = T
  PROVE  Took(E, Q, k, T, T2, applied)
<1> DEFINE b == SubSeq(Q, 1, k)
<1>1. Len(Q) \in Nat /\ k \in Nat /\ k <= Len(Q)
  BY LenProperties
<1>2. \A j \in 1..k : Q[j] \in Mutation
  BY <1>1, ElementOfSeq
<1>3. \A i \in 1..k - 1 + 1 : b[i] = Q[1 + i - 1]
  BY <1>1, <1>2, SubSeqProperties
<1>4. \A j \in 1..k : b[j] = Q[j]
  BY <1>1, <1>3
<1> HIDE DEF b
<1>5. CASE applied
  <2>1. T2 = After(T, b, k)
    BY <1>5 DEF b
  <2>2. \A a \in Addrs :
          /\ \A j \in 1..k : Q[j].addr = a => After(T, b, k)[a] = Effect(E[a].mut)
          /\ (\A j \in 1..k : Q[j].addr # a) => After(T, b, k)[a] = T[a]
    BY <1>1, <1>4, AfterValue
  <2> QED
    BY <1>5, <2>1, <2>2 DEF Took
<1>6. CASE ~applied
  BY <1>6 DEF Took
<1> QED
  BY <1>5, <1>6

\* A message in the queue has the token of the entry that waits for it.
LEMMA CarriedTokens ==
  ASSUME NEW E, NEW Q \in Seq(Mutation), NEW R, Carried(E, Q, R)
  PROVE  \A x \in 1..Len(Q) : Q[x].addr \in Addrs /\ Busy(E, Q[x].addr)
                              /\ Q[x].tok = E[Q[x].addr].tok
<1> SUFFICES ASSUME NEW x \in 1..Len(Q)
             PROVE  Q[x].addr \in Addrs /\ Busy(E, Q[x].addr) /\ Q[x].tok = E[Q[x].addr].tok
  OBVIOUS
<1>1. Q[x].addr \in Addrs
  BY ElementOfSeq, MessageFields
<1>2. Busy(E, Q[x].addr) /\ Q[x] = Message(Q[x].addr, E[Q[x].addr])
  BY DEF Carried
<1>3. Message(Q[x].addr, E[Q[x].addr]).tok = E[Q[x].addr].tok
  BY DEF Message
<1> QED
  BY <1>1, <1>2, <1>3

\* What is left of the queue when a batch is taken from it.
LEMMA RestOfQueue ==
  ASSUME NEW Q \in Seq(Mutation), NEW k \in 1..Len(Q),
         NEW P, P = SubSeq(Q, k + 1, Len(Q))
  PROVE  /\ P \in Seq(Mutation) /\ Len(P) = Len(Q) - k
         /\ \A x \in 1..Len(P) : P[x] = Q[k + x] /\ k + x \in 1..Len(Q) /\ k + x > k
         /\ \A y \in 1..Len(Q) : y \in 1..k \/ (y - k \in 1..Len(P) /\ P[y - k] = Q[y])
<1>1. Len(Q) \in Nat /\ k \in Nat /\ k <= Len(Q) /\ k >= 1
  BY LenProperties
<1>2. \A j \in (k + 1)..Len(Q) : Q[j] \in Mutation
  BY <1>1, ElementOfSeq
<1>3. /\ P \in Seq(Mutation)
      /\ Len(P) = IF k + 1 <= Len(Q) THEN Len(Q) - (k + 1) + 1 ELSE 0
      /\ \A i \in 1..Len(Q) - (k + 1) + 1 : P[i] = Q[k + 1 + i - 1]
  BY <1>1, <1>2, SubSeqProperties
<1>4. Len(P) = Len(Q) - k
  BY <1>1, <1>3
<1>5. ASSUME NEW x \in 1..Len(P)
      PROVE  P[x] = Q[k + x] /\ k + x \in 1..Len(Q) /\ k + x > k
  <2>1. x \in 1..Len(Q) - (k + 1) + 1 /\ k + 1 + x - 1 = k + x
    BY <1>1, <1>4
  <2> QED
    BY <1>1, <1>3, <1>4, <2>1
<1>6. ASSUME NEW y \in 1..Len(Q), y \notin 1..k
      PROVE  y - k \in 1..Len(P) /\ P[y - k] = Q[y]
  <2>1. y - k \in 1..Len(P) /\ k + (y - k) = y
    BY <1>1, <1>4, <1>6
  <2>2. P[y - k] = Q[k + (y - k)]
    BY <2>1, <1>5
  <2> QED
    BY <2>1, <2>2
<1> QED
  BY <1>3, <1>4, <1>5, <1>6

\* What is left of the queue is carried by the same entries.
LEMMA RestCarried ==
  ASSUME NEW E, NEW Q \in Seq(Mutation), NEW R, Carried(E, Q, R), NEW k \in 1..Len(Q),
         NEW P, P = SubSeq(Q, k + 1, Len(Q))
  PROVE  Carried(E, P, R)
<1>1. \A x \in 1..Len(P) : P[x] = Q[k + x] /\ k + x \in 1..Len(Q)
  BY RestOfQueue
<1>2. Len(P) \in Nat /\ k \in Nat
  BY RestOfQueue, LenProperties
<1>3. \A x \in 1..Len(Q) : Busy(E, Q[x].addr) /\ Q[x] = Message(Q[x].addr, E[Q[x].addr])
  BY DEF Carried
<1>4. \A x \in 1..Len(P) : Busy(E, P[x].addr) /\ P[x] = Message(P[x].addr, E[P[x].addr])
  BY <1>1, <1>3
<1>5. ASSUME NEW x \in 1..Len(P), NEW y \in 1..Len(P), P[x].addr = P[y].addr
      PROVE  x = y
  <2>1. \A i, j \in 1..Len(Q) : Q[i].addr = Q[j].addr => i = j
    BY DEF Carried
  <2>2. k + x = k + y
    BY <1>1, <1>5, <2>1
  <2> QED
    BY <1>2, <2>2
<1>6. \A i \in 1..Len(Q), j \in 1..Len(R) : Q[i].tok # R[j].tok
  BY DEF Carried
<1>7. \A i \in 1..Len(P), j \in 1..Len(R) : P[i].tok # R[j].tok
  BY <1>1, <1>6
<1> QED
  BY <1>4, <1>5, <1>7 DEF Carried

\* The completions of a batch.
LEMMA CompletionsOf ==
  ASSUME NEW Q \in Seq(Mutation), NEW k \in 1..Len(Q), NEW ok \in BOOLEAN,
         NEW C, C = Completions(SubSeq(Q, 1, k), ok)
  PROVE  /\ C \in Seq(Completion) /\ Len(C) = k
         /\ \A j \in 1..k : C[j].tok = Q[j].tok /\ C[j].ok = ok /\ j \in 1..Len(Q)
<1> DEFINE b == SubSeq(Q, 1, k)
<1>1. Len(Q) \in Nat /\ k \in Nat /\ k <= Len(Q)
  BY LenProperties
<1>2. \A j \in 1..k : Q[j] \in Mutation /\ j \in 1..Len(Q)
  BY <1>1, ElementOfSeq
<1>3. /\ Len(b) = k
      /\ \A i \in 1..k - 1 + 1 : b[i] = Q[1 + i - 1]
  BY <1>1, <1>2, SubSeqProperties
<1>4. \A j \in 1..k : b[j] = Q[j]
  BY <1>1, <1>3
<1>5. C = [j \in 1..k |-> [tok |-> b[j].tok, ok |-> ok]]
  BY <1>3 DEF Completions
<1> HIDE DEF b
<1>6. \A j \in 1..k : [tok |-> b[j].tok, ok |-> ok] \in Completion
  BY <1>2, <1>4, MessageFields DEF Completion
<1>7. C \in Seq(Completion) /\ Len(C) = k
  BY <1>1, <1>5, <1>6
<1> QED
  BY <1>2, <1>4, <1>5, <1>7

\* A batch is decided: its completions follow the earlier ones.
LEMMA BatchInFlight ==
  ASSUME NEW E \in [Addrs -> Entry \cup {NoEntry}], NEW n \in Nat, AllSound(E), Tokens(E, n),
         NEW Q \in Seq(Mutation), NEW R \in Seq(Completion),
         NEW T, NEW err, InFlight(E, Q, R, T, err),
         NEW k \in 1..Len(Q), NEW ok \in BOOLEAN,
         NEW T2, Took(E, Q, k, T, T2, ok),
         NEW err2, err2 = "none" => err = "none"
  PROVE  InFlight(E, SubSeq(Q, k + 1, Len(Q)), R \o Completions(SubSeq(Q, 1, k), ok), T2, err2)
<1> DEFINE P == SubSeq(Q, k + 1, Len(Q))
           C == Completions(SubSeq(Q, 1, k), ok)
           D == R \o C
<1>1. /\ P \in Seq(Mutation) /\ Len(P) = Len(Q) - k
      /\ \A x \in 1..Len(P) : P[x] = Q[k + x] /\ k + x \in 1..Len(Q) /\ k + x > k
      /\ \A y \in 1..Len(Q) : y \in 1..k \/ (y - k \in 1..Len(P) /\ P[y - k] = Q[y])
  BY RestOfQueue
<1>2. /\ C \in Seq(Completion) /\ Len(C) = k
      /\ \A j \in 1..k : C[j].tok = Q[j].tok /\ C[j].ok = ok /\ j \in 1..Len(Q)
  BY CompletionsOf
<1> HIDE DEF P, C
<1>3. /\ Len(D) = Len(R) + k /\ Len(R) \in Nat /\ Len(Q) \in Nat /\ k \in Nat
      /\ \A x \in 1..Len(R) + k : D[x] = IF x <= Len(R) THEN R[x] ELSE C[x - Len(R)]
  BY <1>2, ConcatProperties, LenProperties
<1> HIDE DEF D
<1>4. Carried(E, Q, R) /\ Written(E, Q, R, T)
  BY DEF InFlight
<1>5. \A x \in 1..Len(Q) : Q[x].addr \in Addrs /\ Busy(E, Q[x].addr)
                           /\ Q[x].tok = E[Q[x].addr].tok
  BY <1>4, CarriedTokens
<1>6. \A x, y \in 1..Len(Q) : Q[x].tok = Q[y].tok => x = y
  <2> SUFFICES ASSUME NEW x \in 1..Len(Q), NEW y \in 1..Len(Q), Q[x].tok = Q[y].tok
               PROVE  x = y
    OBVIOUS
  <2>1. Q[x].addr = Q[y].addr
    BY <1>5, BusyTokens
  <2> QED
    BY <2>1, <1>4 DEF Carried
<1>7. ASSUME NEW x \in 1..Len(D)
      PROVE  \/ x \in 1..Len(R) /\ D[x] = R[x]
             \/ /\ x - Len(R) \in 1..k /\ D[x].tok = Q[x - Len(R)].tok /\ D[x].ok = ok
                /\ x - Len(R) \in 1..Len(Q)
  <2>1. CASE x <= Len(R)
    BY <2>1, <1>3
  <2>2. CASE ~(x <= Len(R))
    <3>1. x - Len(R) \in 1..k /\ D[x] = C[x - Len(R)]
      BY <2>2, <1>3
    <3> QED
      BY <3>1, <1>2
  <2> QED
    BY <2>1, <2>2
<1>8. Carried(E, P, D)
  <2>1. Carried(E, P, R)
    BY <1>4, RestCarried DEF P
  <2>2. \A x \in 1..Len(D) : \E a \in Addrs : Busy(E, a) /\ E[a].tok = D[x].tok
    <3>1. \A x \in 1..Len(R) : \E a \in Addrs : Busy(E, a) /\ E[a].tok = R[x].tok
      BY <1>4 DEF Carried
    <3>2. \A x \in 1..Len(Q) : \E a \in Addrs : Busy(E, a) /\ E[a].tok = Q[x].tok
      BY <1>5
    <3> QED
      BY <3>1, <3>2, <1>7
  <2>4. \A x, y \in 1..Len(D) : D[x].tok = D[y].tok => x = y
    <3> SUFFICES ASSUME NEW x \in 1..Len(D), NEW y \in 1..Len(D), D[x].tok = D[y].tok
                 PROVE  x = y
      OBVIOUS
    <3>1. /\ \A i, j \in 1..Len(R) : R[i].tok = R[j].tok => i = j
          /\ \A i \in 1..Len(Q), j \in 1..Len(R) : Q[i].tok # R[j].tok
      BY <1>4 DEF Carried
    <3>2. CASE x \in 1..Len(R) /\ D[x] = R[x] /\ y \in 1..Len(R) /\ D[y] = R[y]
      BY <3>1, <3>2
    <3>3. CASE x - Len(R) \in 1..Len(Q) /\ D[x].tok = Q[x - Len(R)].tok
               /\ y - Len(R) \in 1..Len(Q) /\ D[y].tok = Q[y - Len(R)].tok
      <4>1. x - Len(R) = y - Len(R)
        BY <1>6, <3>3
      <4> QED
        BY <4>1, <1>3
    <3>4. CASE x \in 1..Len(R) /\ D[x] = R[x] /\ y - Len(R) \in 1..Len(Q)
               /\ D[y].tok = Q[y - Len(R)].tok
      BY ONLY <3>1, <3>4, D[x].tok = D[y].tok
    <3>5. CASE y \in 1..Len(R) /\ D[y] = R[y] /\ x - Len(R) \in 1..Len(Q)
               /\ D[x].tok = Q[x - Len(R)].tok
      BY ONLY <3>1, <3>5, D[x].tok = D[y].tok
    <3> QED
      BY ONLY <3>2, <3>3, <3>4, <3>5, <1>7, x \in 1..Len(D), y \in 1..Len(D)
  <2>5. \A x \in 1..Len(P), y \in 1..Len(D) : P[x].tok # D[y].tok
    <3> SUFFICES ASSUME NEW x \in 1..Len(P), NEW y \in 1..Len(D), P[x].tok = D[y].tok
                 PROVE  FALSE
      OBVIOUS
    <3>1. P[x] = Q[k + x] /\ k + x \in 1..Len(Q) /\ k + x > k
      BY <1>1
    <3>2. CASE y \in 1..Len(R) /\ D[y] = R[y]
      BY <3>1, <3>2, <1>4 DEF Carried
    <3>3. CASE y - Len(R) \in 1..k /\ D[y].tok = Q[y - Len(R)].tok /\ y - Len(R) \in 1..Len(Q)
      <4>1. k + x = y - Len(R)
        BY <3>1, <3>3, <1>6
      <4> QED
        BY <4>1, <3>1, <3>3, <1>3
    <3> QED
      BY <3>2, <3>3, <1>7
  <2> QED
    BY <2>1, <2>2, <2>4, <2>5 DEF Carried
<1>9. Written(E, P, D, T2)
  <2> SUFFICES ASSUME NEW a \in Addrs
               PROVE  /\ \/ T2[a] = CommittedAt(E, a)
                         \/ Busy(E, a) /\ T2[a] = Effect(E[a].mut)
                      /\ \A x \in 1..Len(P) : P[x].addr = a => T2[a] = CommittedAt(E, a)
                      /\ \A x \in 1..Len(D) : Busy(E, a) /\ D[x].tok = E[a].tok =>
                           T2[a] = IF D[x].ok THEN Effect(E[a].mut) ELSE E[a].committed
    BY DEF Written
  <2>1. /\ \/ T[a] = CommittedAt(E, a)
           \/ Busy(E, a) /\ T[a] = Effect(E[a].mut)
        /\ \A x \in 1..Len(Q) : Q[x].addr = a => T[a] = CommittedAt(E, a)
        /\ \A x \in 1..Len(R) : Busy(E, a) /\ R[x].tok = E[a].tok =>
             T[a] = IF R[x].ok THEN Effect(E[a].mut) ELSE E[a].committed
    BY <1>4 DEF Written
  <2>2. ASSUME NEW j \in 1..k, Q[j].addr = a
        PROVE  /\ \/ T2[a] = CommittedAt(E, a)
                  \/ Busy(E, a) /\ T2[a] = Effect(E[a].mut)
               /\ \A x \in 1..Len(P) : P[x].addr # a
               /\ \A x \in 1..Len(D) : D[x].tok = E[a].tok =>
                    T2[a] = IF D[x].ok THEN Effect(E[a].mut) ELSE E[a].committed
    <3>1. /\ j \in 1..Len(Q) /\ Busy(E, a) /\ Q[j].tok = E[a].tok
          /\ T[a] = CommittedAt(E, a) /\ CommittedAt(E, a) = E[a].committed
      BY <1>2, <1>5, <2>1, <2>2 DEF CommittedAt, Busy
    <3>2. T2[a] = IF ok THEN Effect(E[a].mut) ELSE E[a].committed
      BY <2>2, <3>1 DEF Took
    <3>3. \A x \in 1..Len(P) : P[x].addr # a
      <4> SUFFICES ASSUME NEW x \in 1..Len(P), P[x].addr = a PROVE FALSE
        OBVIOUS
      <4>1. k + x = j /\ k + x > k
        BY <1>1, <1>4, <2>2, <3>1 DEF Carried
      <4> QED
        BY <4>1
    <3>4. ASSUME NEW x \in 1..Len(D), D[x].tok = E[a].tok
          PROVE  D[x].ok = ok
      <4>1. CASE x \in 1..Len(R) /\ D[x] = R[x]
        BY <3>1, <3>4, <4>1, <1>4 DEF Carried
      <4> QED
        BY <4>1, <1>7
    <3> QED
      BY <3>1, <3>2, <3>3, <3>4
  <2>3. ASSUME \A j \in 1..k : Q[j].addr # a
        PROVE  /\ T2[a] = T[a]
               /\ \A x \in 1..Len(D) : Busy(E, a) /\ D[x].tok = E[a].tok =>
                    T2[a] = IF D[x].ok THEN Effect(E[a].mut) ELSE E[a].committed
    <3>1. T2[a] = T[a]
      BY <2>3 DEF Took
    <3>2. ASSUME NEW x \in 1..Len(D), Busy(E, a), D[x].tok = E[a].tok
          PROVE  x \in 1..Len(R) /\ D[x] = R[x]
      <4> SUFFICES ASSUME x - Len(R) \in 1..k, D[x].tok = Q[x - Len(R)].tok,
                          x - Len(R) \in 1..Len(Q)
                   PROVE  FALSE
        BY <1>7
      <4>1. Q[x - Len(R)].addr = a
        <5>1. \A b, c \in Addrs : Busy(E, b) /\ Busy(E, c) /\ E[b].tok = E[c].tok => b = c
          BY BusyTokens
        <5> QED
          BY <1>5, <3>2, <5>1
      <4> QED
        BY <4>1, <2>3
    <3> QED
      BY <3>1, <3>2, <2>1
  <2>4. \A x \in 1..Len(P) : P[x].addr = a => T[a] = CommittedAt(E, a)
    BY <1>1, <2>1
  <2> QED
    BY <2>1, <2>2, <2>3, <2>4
<1>10. ASSUME err2 = "none" PROVE Answered(E, P, D)
  <2>1. Answered(E, Q, R)
    BY <1>10 DEF InFlight
  <2> SUFFICES ASSUME NEW a \in Addrs, Busy(E, a)
               PROVE  \/ \E x \in 1..Len(P) : P[x].addr = a
                      \/ \E x \in 1..Len(D) : D[x].tok = E[a].tok
    BY DEF Answered
  <2>2. CASE \E x \in 1..Len(R) : R[x].tok = E[a].tok
    <3>1. \A x \in 1..Len(R) : x \in 1..Len(D) /\ D[x] = R[x]
      BY <1>3
    <3> QED
      BY <2>2, <3>1
  <2>3. CASE \E x \in 1..Len(Q) : Q[x].addr = a
    <3>1. PICK x \in 1..Len(Q) : Q[x].addr = a
      BY <2>3
    <3>2. CASE x \in 1..k
      <4>1. x + Len(R) \in 1..Len(D) /\ ~(x + Len(R) <= Len(R)) /\ (x + Len(R)) - Len(R) = x
        BY <3>2, <1>3
      <4>2. D[x + Len(R)].tok = E[a].tok
        BY <3>1, <3>2, <4>1, <1>2, <1>3, <1>5
      <4> QED
        BY <4>1, <4>2
    <3>3. CASE x - k \in 1..Len(P) /\ P[x - k] = Q[x]
      BY <3>1, <3>3
    <3> QED
      BY <3>2, <3>3, <1>1
  <2> QED
    BY <2>1, <2>2, <2>3 DEF Answered
<1> QED
  BY <1>8, <1>9, <1>10 DEF InFlight, P, C, D

\* A batch is lost from sight: it happened or it did not, and nobody is told.
LEMMA UncertainInFlight ==
  ASSUME NEW E \in [Addrs -> Entry \cup {NoEntry}], NEW n \in Nat, AllSound(E), Tokens(E, n),
         NEW Q \in Seq(Mutation), NEW R \in Seq(Completion),
         NEW T, NEW err, InFlight(E, Q, R, T, err),
         NEW k \in 1..Len(Q), NEW applied \in BOOLEAN,
         NEW T2, Took(E, Q, k, T, T2, applied),
         NEW err2, err2 # "none"
  PROVE  InFlight(E, SubSeq(Q, k + 1, Len(Q)), R, T2, err2)
<1> DEFINE P == SubSeq(Q, k + 1, Len(Q))
<1>1. /\ P \in Seq(Mutation) /\ Len(P) = Len(Q) - k
      /\ \A x \in 1..Len(P) : P[x] = Q[k + x] /\ k + x \in 1..Len(Q) /\ k + x > k
  BY RestOfQueue
<1> HIDE DEF P
<1>3. Len(R) \in Nat /\ Len(Q) \in Nat /\ k \in Nat
  BY LenProperties
<1>4. Carried(E, Q, R) /\ Written(E, Q, R, T)
  BY DEF InFlight
<1>5. \A x \in 1..Len(Q) : Q[x].addr \in Addrs /\ Busy(E, Q[x].addr)
                           /\ Q[x].tok = E[Q[x].addr].tok
  BY <1>4, CarriedTokens
<1>8. Carried(E, P, R)
  BY <1>4, RestCarried DEF P
<1>9. Written(E, P, R, T2)
  <2> SUFFICES ASSUME NEW a \in Addrs
               PROVE  /\ \/ T2[a] = CommittedAt(E, a)
                         \/ Busy(E, a) /\ T2[a] = Effect(E[a].mut)
                      /\ \A x \in 1..Len(P) : P[x].addr = a => T2[a] = CommittedAt(E, a)
                      /\ \A x \in 1..Len(R) : Busy(E, a) /\ R[x].tok = E[a].tok =>
                           T2[a] = IF R[x].ok THEN Effect(E[a].mut) ELSE E[a].committed
    BY DEF Written
  <2>1. /\ \/ T[a] = CommittedAt(E, a)
           \/ Busy(E, a) /\ T[a] = Effect(E[a].mut)
        /\ \A x \in 1..Len(Q) : Q[x].addr = a => T[a] = CommittedAt(E, a)
        /\ \A x \in 1..Len(R) : Busy(E, a) /\ R[x].tok = E[a].tok =>
             T[a] = IF R[x].ok THEN Effect(E[a].mut) ELSE E[a].committed
    BY <1>4 DEF Written
  <2>2. ASSUME NEW j \in 1..k, Q[j].addr = a
        PROVE  /\ \/ T2[a] = CommittedAt(E, a)
                  \/ Busy(E, a) /\ T2[a] = Effect(E[a].mut)
               /\ \A x \in 1..Len(P) : P[x].addr # a
               /\ \A x \in 1..Len(R) : R[x].tok # E[a].tok
    <3>0. j \in 1..Len(Q)
      BY <1>3
    <3>1. Busy(E, a) /\ Q[j].tok = E[a].tok /\ T[a] = CommittedAt(E, a)
      BY <3>0, <1>5, <2>1, <2>2
    <3>2. T2[a] = IF applied THEN Effect(E[a].mut) ELSE T[a]
      BY <2>2 DEF Took
    <3>3. \A x \in 1..Len(P) : P[x].addr # a
      <4> SUFFICES ASSUME NEW x \in 1..Len(P), P[x].addr = a PROVE FALSE
        OBVIOUS
      <4>1. k + x = j /\ k + x > k
        BY <1>1, <1>4, <2>2, <3>0 DEF Carried
      <4> QED
        BY <4>1
    <3>4. \A x \in 1..Len(R) : R[x].tok # E[a].tok
      BY <3>0, <3>1, <1>4 DEF Carried
    <3> QED
      BY <3>1, <3>2, <3>3, <3>4
  <2>3. (\A j \in 1..k : Q[j].addr # a) => T2[a] = T[a]
    BY DEF Took
  <2>4. \A x \in 1..Len(P) : P[x].addr = a => T[a] = CommittedAt(E, a)
    BY <1>1, <2>1
  <2> QED
    BY <2>1, <2>2, <2>3, <2>4
<1> QED
  BY <1>8, <1>9 DEF InFlight, P
-----------------------------------------------------------------------------
(* One pass over all ownership.                                            *)

\* What one pass of Tick makes of an entry e of the table: it is gone, or f is an entry of the
\* same client, at the same stage, whose token is old or was given out during the pass.
Passed(e, f, n, m) ==
  /\ f \in Entry /\ Sound(f) /\ Lasting(f) /\ f.id = e.id
  /\ (f.st = "probing") <=> (e.st = "probing")
  /\ Claims(f) => Claims(e)
  /\ \/ f.tok = NoToken
     \/ f.tok = e.tok
     \/ f.tok \in Token /\ f.tok.gen = gen /\ n < f.tok.seq /\ f.tok.seq <= m

\* A pass frees the addresses of V and hands out the tokens after n, up to m.
Scanned(E, F, V, n, m) ==
  /\ \A a \in Addrs :
       /\ a \in V => E[a] # NoEntry /\ F[a] = NoEntry
       /\ a \notin V /\ E[a] = NoEntry => F[a] = NoEntry
       /\ a \notin V /\ E[a] # NoEntry => Passed(E[a], F[a], n, m)
  /\ \A a, b \in Addrs :
       F[a] # NoEntry /\ F[b] # NoEntry /\ F[a].tok = F[b].tok /\ n < F[a].tok.seq => a = b

\* A pass over the whole table keeps the books in order.
LEMMA ScanKeepsBooks ==
  ASSUME gen \in Generations,
         NEW E, NEW I, NEW B, NEW p, NEW n \in Nat, Books(E, I, B, p, n),
         NEW m \in Nat, n <= m, NEW V \in SUBSET Addrs,
         NEW F, DOMAIN F = Addrs, F = [a \in Addrs |-> F[a]], Scanned(E, F, V, n, m),
         NEW J, J = [i \in Ids |-> IF I[i] \in V THEN NoAddr ELSE I[i]],
         NEW C, C = B \ (V \ Reserved),
         NEW p2, p2 = p - Cardinality({a \in V : E[a].st = "probing"})
  PROVE  Books(F, J, C, p2, m)
<1>1. E \in [Addrs -> Entry \cup {NoEntry}] /\ I \in [Ids -> Addrs \cup {NoAddr}]
  BY DEF Books, Tables
<1>2. ASSUME NEW a \in Addrs
      PROVE  /\ F[a] = NoEntry <=> (E[a] = NoEntry \/ a \in V)
             /\ F[a] # NoEntry => Passed(E[a], F[a], n, m) /\ E[a] \in Entry
             /\ F[a] # NoEntry => F[a] \in Entry
  BY <1>1, EntryFields DEF Scanned, Passed
<1>3. F \in [Addrs -> Entry \cup {NoEntry}]
  BY <1>2
<1>4. /\ J \in [Ids -> Addrs \cup {NoAddr}]
      /\ \A i \in Ids : I[i] \in V => J[i] = NoAddr
      /\ \A i \in Ids : I[i] \notin V => J[i] = I[i]
  BY <1>1
<1>5. HeldIn(F) = HeldIn(E) \ V
  BY <1>2 DEF HeldIn
<1>6. AllSound(F)
  BY <1>2 DEF AllSound, Passed
<1>7. Tokens(F, m)
  <2>1. ASSUME NEW a \in Addrs, F[a] # NoEntry, F[a].tok # NoToken
        PROVE  /\ F[a].tok.gen = gen /\ F[a].tok.seq <= m /\ F[a].tok.seq \in Nat
               /\ ~(n < F[a].tok.seq) => F[a].tok = E[a].tok
    <3>1. Passed(E[a], F[a], n, m) /\ E[a] \in Entry /\ E[a] # NoEntry
      BY <1>2, <2>1
    <3>2. F[a].tok \in Token /\ F[a].tok.seq \in Nat
      BY <1>2, <2>1, EntryFields, TokenFields
    <3>3. CASE F[a].tok = E[a].tok
      <4>1. E[a].tok.gen = gen /\ E[a].tok.seq <= n
        BY <2>1, <3>1, <3>3 DEF Books, Tokens
      <4> QED
        BY <3>2, <3>3, <4>1
    <3>4. CASE F[a].tok.gen = gen /\ n < F[a].tok.seq /\ F[a].tok.seq <= m
      BY <3>2, <3>4
    <3> QED
      BY <2>1, <3>1, <3>3, <3>4 DEF Passed
  <2>2. ASSUME NEW a \in Addrs, NEW b \in Addrs, F[a] # NoEntry, F[b] # NoEntry,
               F[a].tok # NoToken, F[a].tok = F[b].tok
        PROVE  a = b
    <3>1. CASE n < F[a].tok.seq
      BY <2>2, <3>1 DEF Scanned
    <3>2. CASE ~(n < F[a].tok.seq)
      <4>1. F[a].tok = E[a].tok /\ F[b].tok = E[b].tok /\ E[a] # NoEntry /\ E[b] # NoEntry
        BY <1>2, <2>1, <2>2, <3>2
      <4> QED
        BY <2>2, <4>1 DEF Books, Tokens
    <3> QED
      BY <3>1, <3>2
  <2> QED
    BY <2>1, <2>2 DEF Tokens
<1>8. Indexed(F, J)
  <2>1. ASSUME NEW i \in Ids, J[i] # NoAddr
        PROVE  F[J[i]] # NoEntry /\ F[J[i]].id = i
    <3>1. I[i] \notin V /\ J[i] = I[i]
      BY <1>4, <2>1
    <3>2. I[i] \in Addrs /\ E[I[i]] # NoEntry /\ E[I[i]].id = i
      BY <1>1, <2>1, <3>1 DEF Books, Indexed
    <3> QED
      BY <1>2, <3>1, <3>2 DEF Passed
  <2>2. ASSUME NEW a \in Addrs, F[a] # NoEntry, Claims(F[a])
        PROVE  J[F[a].id] = a
    <3>1. a \notin V /\ E[a] # NoEntry /\ Passed(E[a], F[a], n, m) /\ E[a].id \in Ids
      BY <1>2, <2>2, EntryFields
    <3>2. Claims(E[a]) /\ F[a].id = E[a].id
      BY <2>2, <3>1 DEF Passed
    <3>3. I[E[a].id] = a
      BY <3>1, <3>2 DEF Books, Indexed
    <3> QED
      BY <1>4, <3>1, <3>2, <3>3
  <2> QED
    BY <2>1, <2>2 DEF Indexed
<1>9. Counted(F, C, p2)
  <2>1. /\ B = (HeldIn(E) \cup Reserved) \cap Cfg.pool
        /\ p = Cardinality(ProbingIn(E)) /\ p <= MaxProbes
    BY DEF Books, Counted
  <2>2. C = (HeldIn(F) \cup Reserved) \cap Cfg.pool
    BY <1>5, <2>1
  <2>3. ProbingIn(F) = ProbingIn(E) \ V
    BY <1>2 DEF ProbingIn, HeldIn, Passed
  <2>4. {a \in V : E[a].st = "probing"} = ProbingIn(E) \cap V
    BY DEF Scanned, ProbingIn, HeldIn
  <2>5. Cardinality(ProbingIn(E) \ V) = Cardinality(ProbingIn(E)) - Cardinality(ProbingIn(E) \cap V)
    BY ONLY HeldFinite, FS_Difference
  <2>6. p2 = Cardinality(ProbingIn(F))
    BY <2>1, <2>3, <2>4, <2>5
  <2>7. Cardinality(ProbingIn(E) \cap V) \in Nat /\ p \in Nat
    <3>1. ProbingIn(E) \cap V \subseteq ProbingIn(E)
      OBVIOUS
    <3>2. IsFiniteSet(ProbingIn(E) \cap V)
      BY ONLY <3>1, HeldFinite, FS_Subset
    <3> QED
      BY <2>1, <3>2, HeldFinite, FS_CardinalityType
  <2>8. p2 <= MaxProbes
    <3>1. p2 = p - Cardinality(ProbingIn(E) \cap V)
      BY <2>4
    <3> QED
      BY ONLY <2>1, <2>7, <3>1 DEF MaxProbes
  <2> QED
    BY <2>2, <2>6, <2>8 DEF Counted
<1>10. Fits(Cfg, HeldIn(F), F)
  <2>1. HeldIn(F) \subseteq HeldIn(E) /\ \A b \in HeldIn(F) : F[b].id = E[b].id
    BY <1>2, <1>5 DEF HeldIn, Passed
  <2>2. Fits(Cfg, HeldIn(E), E)
    BY DEF Books
  <2>3. /\ HeldIn(F) \cup ReservedAt(Cfg) \subseteq HeldIn(E) \cup ReservedAt(Cfg)
        /\ IsFiniteSet(HeldIn(E) \cup ReservedAt(Cfg))
    <3>1. ReservedAt(Cfg) \subseteq Addrs
      BY SettingsType DEF Cfg
    <3>2. HeldIn(E) \cup ReservedAt(Cfg) \subseteq Addrs
      BY <3>1 DEF HeldIn
    <3> QED
      BY <2>1, <3>2, DhcpAssumption, FS_Subset
  <2>4. /\ Cardinality(HeldIn(F) \cup ReservedAt(Cfg)) \in Nat
        /\ Cardinality(HeldIn(E) \cup ReservedAt(Cfg)) \in Nat
        /\ Cardinality(HeldIn(F) \cup ReservedAt(Cfg))
             <= Cardinality(HeldIn(E) \cup ReservedAt(Cfg))
    BY <2>3, FS_Subset, FS_CardinalityType
  <2>5. Cfg.cap \in Nat
    BY SettingsType DEF Cfg
  <2> QED
    BY ONLY <2>1, <2>2, <2>4, <2>5 DEF Fits
<1> QED
  BY <1>3, <1>4, <1>6, <1>7, <1>8, <1>9, <1>10 DEF Books, Tables

\* An order of some addresses has each of them exactly once.
LEMMA OrderOf ==
  ASSUME NEW W \in SUBSET Addrs, NEW f \in Orders(W)
  PROVE  /\ Cardinality(W) \in Nat /\ DOMAIN f = 1..Cardinality(W)
         /\ f \in Seq(Addrs) /\ Len(f) = Cardinality(W)
         /\ \A k \in DOMAIN f : f[k] \in W
         /\ \A k, l \in DOMAIN f : f[k] = f[l] => k = l
         /\ \A a \in W : \E k \in DOMAIN f : f[k] = a
<1> DEFINE N == Cardinality(W)
<1>1. IsFiniteSet(W) /\ N \in Nat
  BY DhcpAssumption, FS_Subset, FS_CardinalityType
<1>2. f \in [1..N -> W] /\ \A k, l \in DOMAIN f : k # l => f[k] # f[l]
  BY DEF Orders
<1>3. IsFiniteSet(1..N) /\ Cardinality(1..N) = N
  BY <1>1, FS_Interval
<1> HIDE DEF N
<1>4. f \in Injection(1..N, W)
  BY <1>2 DEF Injection, IsInjective
<1>5. f \in Surjection(1..N, W)
  BY <1>1, <1>3, <1>4, FS_Injection DEF N
<1>6. \A a \in W : \E k \in 1..N : f[k] = a
  BY <1>5 DEF Surjection
<1>7. f \in Seq(Addrs) /\ Len(f) = N
  BY <1>1, <1>2
<1> QED
  BY <1>1, <1>2, <1>6, <1>7 DEF N
==============================================================================
