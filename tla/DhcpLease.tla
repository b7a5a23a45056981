------------------------------ MODULE DhcpLease ------------------------------
(***************************************************************************)
(* The life of a DHCPv4 lease in dimsum: the single-owner lease engine     *)
(* (internal/dhcp/engine.go), the durable lease writer (store.go), the     *)
(* bounded probe scheduler (probe.go) and the owner loop that joins them   *)
(* (runtime.go), with the two clocks they read, process crashes and the    *)
(* recovery of the durable table.                                          *)
(*                                                                         *)
(* An entry's stale fields (a token after its completion, the deadline of  *)
(* a probe that has ended) are never read by the code; here they go back   *)
(* to a default, which keeps the state space small.                        *)
(***************************************************************************)
EXTENDS Integers, Sequences, FiniteSets

CONSTANTS
  Ids,            \* client identities ("id:..." or "mac:...")
  Addrs,          \* IPv4 addresses, as numbers
  Subnet,         \* the addresses on the served link
  XIDs,           \* transaction identifiers clients use
  Hints,          \* addresses a DISCOVER may ask for, NoAddr for none
  Settings,       \* Settings[g]: the configuration of generation g
  ProbeTime,      \* probeTimeout
  OfferTime,      \* how long an OFFER is kept
  QuarantineTime, \* how long a conflicting address is kept
  QueueCap,       \* storeQueue
  BatchCap,       \* storeBatch
  NoAddr, NoXid, NoEntry, NoRow, NoMut,  \* absent values
  MaxTime,        \* bound on real time
  MaxSeq,         \* bound on the tokens handed out for packets, ticks and conflicts
  MaxRestarts,    \* bound on process restarts
  Forward, Back   \* how far the wall clock may be set forward and back, once

Generations == 1..Len(Settings)
MaxProbes == 2
MaxTries == 3

ASSUME DhcpAssumption ==
  /\ Addrs \subseteq Nat /\ IsFiniteSet(Addrs) /\ Subnet \subseteq Addrs
  /\ NoAddr \notin Addrs /\ NoXid \notin XIDs /\ Hints \subseteq Addrs \cup {NoAddr}
  /\ {ProbeTime, OfferTime, QuarantineTime, QueueCap, BatchCap} \subseteq Nat \ {0}
  /\ {MaxSeq, MaxRestarts, Forward, Back} \subseteq Nat /\ MaxTime \in Nat \ {0}
  /\ Settings \in Seq([pool : SUBSET Subnet, usable : SUBSET Subnet,
                       res : [Ids -> Addrs \cup {NoAddr}],
                       cap : Nat \ {0}, lease : Nat \ {0}])
  /\ Len(Settings) > 0
  /\ \A g \in Generations :
       /\ Settings[g].pool \subseteq Settings[g].usable
       /\ \A i, j \in Ids : Settings[g].res[i] # NoAddr =>
            /\ Settings[g].res[i] \in Settings[g].usable
            /\ i # j => Settings[g].res[i] # Settings[g].res[j]
       /\ Cardinality({i \in Ids : Settings[g].res[i] # NoAddr}) <= Settings[g].cap

VARIABLES
  mono,      \* real elapsed time: the monotonic clock, and the clients' timers
  wall,      \* the wall clock
  stepped,   \* whether the wall clock has been set
  up,        \* a runtime serves; otherwise none does
  restarts,  \* restarts so far
  \* Engine
  gen, sequence, lastTime,
  entries,   \* byIP
  byID,
  bitmap,    \* addresses of the pool marked used
  probes,
  \* ProbeScheduler
  jobs,      \* probes handed to a worker
  found,     \* probe results not yet consumed
  \* LeaseStore
  rows,      \* the leases table
  lastKnown, \* metadata.last_known
  queue, results,
  storeErr,  \* "none", or the latched "failed" / "uncertain"
  \* Runtime
  applying,  \* generation of the accepted Apply request, 0 for none
  view,      \* the published Projection
  \* the clients
  held       \* held[a][i]: when the lease of a that i was sent runs out; 0: none

clocks == <<mono, wall, stepped>>
process == <<up, restarts>>
engine == <<gen, sequence, lastTime, entries, byID, bitmap, probes>>
prober == <<jobs, found>>
store == <<rows, lastKnown, queue, results, storeErr>>
runtime == <<applying, view>>
vars == <<clocks, process, engine, prober, store, runtime, held>>
-----------------------------------------------------------------------------
(* Values.                                                                 *)

Token == [gen : Generations, seq : Nat \ {0}]
NoToken == [gen |-> 0, seq |-> 0]

Row == [id : Ids, exp : Nat, hold : Nat, st : {"bound", "quarantined"}]

Request == [type : {"none", "discover", "request", "release"}, xid : XIDs \cup {NoXid},
            rip : Addrs \cup {NoAddr}, ci : Addrs \cup {NoAddr}]
NoRequest == [type |-> "none", xid |-> NoXid, rip |-> NoAddr, ci |-> NoAddr]

PendingMutation ==
  [kind : {"put", "delete"}, prev : {"offered", "bound", "quarantined", "probing"},
   row : Row, texp : Int, thold : Int]

Entry ==
  [id : Ids,
   st : {"probing", "offered", "commit-pending", "bound", "quarantined"},
   exp : Nat, hold : Nat,      \* lease.Expiry and HoldUntil, wall time
   texp : Int, thold : Int,    \* timing, monotonic time
   req : Request,
   tok : Token \cup {NoToken},
   due : Nat,                  \* the probe's deadline
   tries : 0..MaxTries,
   committed : Row \cup {NoRow},  \* NoRow exactly when not durable
   dirty : BOOLEAN,            \* dirtyQuarantine
   ack : XIDs \cup {NoXid},    \* lastACK, NoXid when not hasACK
   mut : PendingMutation \cup {NoMut}]

Mutation == [tok : Token, kind : {"put", "delete"}, addr : Addrs, row : Row]

\* The absent values are not values.
ASSUME AbsentAssumption ==
  NoRow \notin Row /\ NoMut \notin PendingMutation /\ NoEntry \notin Entry

MaxOf(m, n) == IF m > n THEN m ELSE n
-----------------------------------------------------------------------------
(* Reads of the engine.                                                    *)

Cfg == Settings[gen]

Reservation(i) == Cfg.res[i]
ReservedAt(s) == {s.res[i] : i \in {j \in Ids : s.res[j] # NoAddr}}
Reserved == ReservedAt(Cfg)

\* The configuration permits a grant of address a to client i.
Eligible(i, a) ==
  /\ a \in Cfg.usable
  /\ IF Reservation(i) # NoAddr THEN a = Reservation(i)
                                ELSE a \notin Reserved /\ a \in Cfg.pool

HeldIn(E) == {a \in Addrs : E[a] # NoEntry}
Occupied(E) == Cardinality(HeldIn(E) \cup Reserved)

Durable(v) == v.committed # NoRow

\* DurableLeases: what is published and what a crash leaves behind.
DurableLeases(E) ==
  [a \in Addrs |-> IF E[a] = NoEntry THEN NoRow ELSE E[a].committed]

Mark(B, a) == B \cup ({a} \cap Cfg.pool)
\* Mistake: freeing an address clears its bit although it is reserved.
UnmarkReserved(B, a) == B \ {a}
Unmark(B, a) == IF a \in Reserved THEN B ELSE B \ {a}
Forget(I, i, a) == IF I[i] = a THEN [I EXCEPT ![i] = NoAddr] ELSE I

First(S) == CHOOSE a \in S : \A b \in S : a <= b

Candidate(E, B, i, hint) ==
  IF Reservation(i) # NoAddr
  THEN IF E[Reservation(i)] = NoEntry THEN Reservation(i) ELSE NoAddr
  ELSE IF Occupied(E) >= Cfg.cap THEN NoAddr
  ELSE IF hint \in Cfg.pool \ B THEN hint
  ELSE IF Cfg.pool \ B # {} THEN First(Cfg.pool \ B)
  ELSE NoAddr

\* The address discover would probe, NoAddr when it would stay silent.
DiscoverAddr(E, B, p, i, hint, try) ==
  LET a == Candidate(E, B, i, hint) IN
  IF \/ p >= MaxProbes
     \/ try > MaxTries
     \/ a = NoAddr
     \/ Cardinality(HeldIn(E) \cup Reserved \cup {a}) > Cfg.cap
  THEN NoAddr ELSE a

\* The wall clock has not gone behind the last reading.
ClockOK == wall >= lastTime
ObserveClock == lastTime' = IF ClockOK THEN wall ELSE lastTime

NextToken(n) == [gen |-> gen, seq |-> sequence + n]
-----------------------------------------------------------------------------
(* Changes to one entry.                                                   *)

ProbingEntry(i, r, tok, try) ==
  [id |-> i, st |-> "probing", exp |-> 0, hold |-> 0, texp |-> 0, thold |-> 0,
   req |-> r, tok |-> tok, due |-> mono + ProbeTime, tries |-> try,
   committed |-> NoRow, dirty |-> FALSE, ack |-> NoXid, mut |-> NoMut]

LeaseOf(v, st) == [id |-> v.id, exp |-> v.exp, hold |-> v.hold, st |-> st]

\* Mistake: the ownership horizon of the previous lease is stored unchanged.
MutateKeepsHorizon(v, kind, row, texp, thold, r, tok) ==
  [v EXCEPT !.st = "commit-pending", !.req = r, !.tok = tok, !.due = 0, !.tries = 0,
            !.mut = [kind |-> kind, prev |-> v.st, row |-> row,
                     texp |-> texp, thold |-> thold]]

\* mutate: remember the target and wait for its transaction. A put never
\* stores an earlier ownership horizon than the remaining runtime hold.
Mutate(v, kind, row, texp, thold, r, tok) ==
  LET target == IF kind = "put"
                THEN [row EXCEPT !.hold = MaxOf(@, wall + (thold - mono))]
                ELSE row
  IN [v EXCEPT !.st = "commit-pending", !.req = r, !.tok = tok, !.due = 0, !.tries = 0,
               !.mut = [kind |-> kind, prev |-> v.st, row |-> target,
                        texp |-> texp, thold |-> thold]]

\* Mistake: a shorter grant replaces the runtime hold of a longer one.
GrantShortens(v, duration, st, r, tok) ==
  Mutate(v, "put", [LeaseOf(v, st) EXCEPT !.exp = wall + duration],
         mono + duration, mono + duration, r, tok)

\* grant, followed by mutate: a new grant never shortens the runtime hold.
Grant(v, duration, st, r, tok) ==
  Mutate(v, "put", [LeaseOf(v, st) EXCEPT !.exp = wall + duration],
         mono + duration, MaxOf(v.thold, mono + duration), r, tok)

Quarantine(v, tok) ==
  Grant([v EXCEPT !.dirty = TRUE], QuarantineTime, "quarantined", NoRequest, tok)

Settle(v, st) == [v EXCEPT !.st = st, !.tok = NoToken, !.mut = NoMut]

\* CompleteCommit with an error: a quarantine stays in force, all else rolls back.
Fail(v) ==
  IF v.dirty
  THEN Settle([v EXCEPT !.exp = v.mut.row.exp, !.hold = v.mut.row.hold,
                        !.texp = v.mut.texp, !.thold = v.mut.thold], v.mut.row.st)
  ELSE Settle(v, v.mut.prev)

\* CompleteCommit of a put that is durable.
Commit(v) ==
  Settle([v EXCEPT !.exp = v.mut.row.exp, !.hold = v.mut.row.hold,
                   !.texp = v.mut.texp, !.thold = v.mut.thold,
                   !.committed = v.mut.row, !.dirty = FALSE,
                   !.ack = IF v.mut.row.st = "bound" THEN v.req.xid ELSE @],
         v.mut.row.st)

\* The ownership a recovered row stands for, anchored to the running clock.
Recovered(row) ==
  [id |-> row.id, st |-> row.st, exp |-> row.exp, hold |-> row.hold,
   texp |-> mono + (row.exp - wall), thold |-> mono + (row.hold - wall),
   req |-> NoRequest, tok |-> NoToken, due |-> 0, tries |-> 0,
   committed |-> row, dirty |-> FALSE, ack |-> NoXid, mut |-> NoMut]
-----------------------------------------------------------------------------
(* The owner loop's dispatch.                                              *)

\* LeaseStore.Submit admits a mutation.
Admits == storeErr = "none" /\ Len(queue) < QueueCap

Message(a, v) == [tok |-> v.tok, kind |-> v.mut.kind, addr |-> a, row |-> v.mut.row]

\* A mutation that is not admitted is completed with an error at once.
Dispatched(v) == IF Admits THEN v ELSE Fail(v)
Enqueued(a, v) == IF Admits THEN Append(queue, Message(a, v)) ELSE queue

\* Engine.discover and the hand-over of its probe, on the given tables. When
\* the scheduler has no idle worker the probe is completed with an error, and
\* the candidate entry is gone again.
Discover(E, I, B, p, n, i, r, try) ==
  LET a == DiscoverAddr(E, B, p, i, r.rip, try)
      tok == NextToken(n + 1)
  IN IF a # NoAddr /\ Cardinality(jobs) < MaxProbes
     THEN /\ entries' = [E EXCEPT ![a] = ProbingEntry(i, r, tok, try)]
          /\ byID' = [I EXCEPT ![i] = a]
          /\ bitmap' = Mark(B, a)
          /\ probes' = p + 1
          /\ sequence' = sequence + n + 1
          /\ jobs' = jobs \cup {[tok |-> tok, due |-> mono + ProbeTime]}
     ELSE /\ entries' = E /\ byID' = I /\ bitmap' = B /\ probes' = p
          /\ sequence' = IF a = NoAddr THEN sequence + n ELSE sequence + n + 1
          /\ jobs' = jobs

\* Replies leave only while the lease store is healthy.
Replies == storeErr = "none"

\* The client takes the lease it is sent. An earlier, longer lease of the same
\* address stays in force, since this reply may be lost on the way.
SendAck(a, i, until) ==
  held' = IF Replies THEN [held EXCEPT ![a][i] = MaxOf(@, until)] ELSE held

\* The client gives the address up.
Drop(a, i) == held' = [held EXCEPT ![a][i] = 0]
-----------------------------------------------------------------------------
(* Engine.Handle, by message type and outcome. A packet that is ignored    *)
(* only reads the clock: Observe. Packets are dropped while an Apply       *)
(* request waits.                                                          *)

Serving == up /\ applying = 0
Room(n) == sequence + n <= MaxSeq   \* bound

Owner(i) == IF byID[i] = NoAddr THEN NoEntry ELSE entries[byID[i]]

\* Handle goes on for client i: no write of its is outstanding and its
\* ownership has not run out (Tick must retire it first).
Handles(i) ==
  /\ Serving /\ ClockOK /\ ObserveClock
  /\ LET v == Owner(i) IN
     v # NoEntry => /\ v.st # "commit-pending"
                    /\ v.st \in {"offered", "bound"} => mono < v.thold

DiscoverRequest(x, hint) == [type |-> "discover", xid |-> x, rip |-> hint, ci |-> NoAddr]

\* DISCOVER of an unknown client starts a probe.
DiscoverNew(i, x, hint) ==
  /\ Handles(i) /\ Room(1)
  /\ byID[i] = NoAddr
  /\ Discover(entries, byID, bitmap, probes, 0, i, DiscoverRequest(x, hint), 1)
  /\ UNCHANGED <<clocks, process, gen, found, store, runtime, held>>

\* DISCOVER during the client's probe replaces the request to answer.
DiscoverProbing(i, x, hint) ==
  /\ Handles(i)
  /\ byID[i] # NoAddr /\ entries[byID[i]].st = "probing"
  /\ entries' = [entries EXCEPT ![byID[i]].req = DiscoverRequest(x, hint)]
  /\ UNCHANGED <<clocks, process, gen, sequence, byID, bitmap, probes, prober,
                 store, runtime, held>>

\* DISCOVER of an offered or bound client repeats its offer.
DiscoverOffer(i, x) ==
  /\ Handles(i)
  /\ byID[i] # NoAddr
  /\ entries[byID[i]].st \in {"offered", "bound"} /\ Eligible(i, byID[i])
  /\ entries' = [entries EXCEPT ![byID[i]].req = DiscoverRequest(x, NoAddr)]
  /\ UNCHANGED <<clocks, process, gen, sequence, byID, bitmap, probes, prober,
                 store, runtime, held>>

\* DISCOVER of a client whose address the configuration no longer permits:
\* an offer is dropped, a durable lease is first retired durably.
DiscoverMoved(i, x, hint) ==
  /\ Handles(i) /\ Room(1)
  /\ LET a == byID[i]
         v == entries[a]
         r == DiscoverRequest(x, hint)
     IN
     /\ a # NoAddr
     /\ v.st \in {"offered", "bound"} /\ ~Eligible(i, a)
     /\ \/ /\ ~Durable(v)
           /\ Discover([entries EXCEPT ![a] = NoEntry], Forget(byID, i, a),
                       Unmark(bitmap, a), probes, 0, i, r, 1)
           /\ UNCHANGED queue
        \/ /\ Durable(v)
           /\ LET w == Mutate(v, "put", LeaseOf(v, "quarantined"), v.texp, v.thold,
                              r, NextToken(1))
              IN /\ entries' = [entries EXCEPT ![a] = Dispatched(w)]
                 /\ queue' = Enqueued(a, w)
           /\ sequence' = sequence + 1
           /\ UNCHANGED <<byID, bitmap, probes, jobs>>
  /\ UNCHANGED <<clocks, process, gen, found, rows, lastKnown, results, storeErr,
                 runtime, held>>

\* The three forms of REQUEST: answering an offer (server identifier set),
\* rebooting with a remembered address, and renewing or rebinding (ciaddr set).
Phases == {"selecting", "rebooting", "renewing"}
RequestFor(x, a, phase) ==
  [type |-> "request", xid |-> x, rip |-> NoAddr,
   ci |-> IF phase = "renewing" THEN a ELSE NoAddr]

\* The server refuses address a to client i.
Refuses(i, a) ==
  \/ a \notin Subnet
  \/ entries[a] # NoEntry /\ entries[a].id = i /\ ~Eligible(i, a)
  \/ entries[a] # NoEntry /\ entries[a].id # i

RequestNak(i, a) ==
  /\ Handles(i)
  /\ Refuses(i, a)
  /\ IF Replies THEN Drop(a, i) ELSE UNCHANGED held
  /\ UNCHANGED <<clocks, process, gen, sequence, entries, byID, bitmap, probes,
                 prober, store, runtime>>

\* A REQUEST the server will answer with an ACK.
Grants(i, x, a, phase) ==
  /\ Handles(i)
  /\ ~Refuses(i, a) /\ byID[i] = a
  /\ LET v == entries[a] IN
     \/ v.st = "bound"
     \/ v.st = "offered" /\ phase = "selecting" /\ v.req.xid = x

\* The same request again, before half of the lease has passed.
Replays(i, x, a, phase) ==
  LET v == entries[a] IN
  /\ v.st = "bound" /\ v.ack = x
  /\ v.req.ci = RequestFor(x, a, phase).ci
  /\ 2 * mono < 2 * v.texp - Cfg.lease

RequestReplay(i, x, a, phase) ==
  /\ Grants(i, x, a, phase)
  /\ Replays(i, x, a, phase)
  /\ SendAck(a, i, entries[a].texp)
  /\ UNCHANGED <<clocks, process, gen, sequence, entries, byID, bitmap, probes,
                 prober, store, runtime>>

\* Mistake: the ACK leaves before the grant is durable.
RequestGrantAckFirst(i, x, a, phase) ==
  /\ Grants(i, x, a, phase)
  /\ ~Replays(i, x, a, phase)
  /\ Room(1)
  /\ LET w == Grant(entries[a], Cfg.lease, "bound", RequestFor(x, a, phase), NextToken(1))
     IN /\ entries' = [entries EXCEPT ![a] = Dispatched(w)]
        /\ queue' = Enqueued(a, w)
        /\ SendAck(a, i, w.mut.texp)
  /\ sequence' = sequence + 1
  /\ UNCHANGED <<clocks, process, gen, byID, bitmap, probes, prober,
                 rows, lastKnown, results, storeErr, runtime>>

RequestGrant(i, x, a, phase) ==
  /\ Grants(i, x, a, phase)
  /\ ~Replays(i, x, a, phase)
  /\ Room(1)
  /\ LET w == Grant(entries[a], Cfg.lease, "bound", RequestFor(x, a, phase), NextToken(1))
     IN /\ entries' = [entries EXCEPT ![a] = Dispatched(w)]
        /\ queue' = Enqueued(a, w)
  /\ sequence' = sequence + 1
  /\ UNCHANGED <<clocks, process, gen, byID, bitmap, probes, prober,
                 rows, lastKnown, results, storeErr, runtime, held>>

ReleaseRequest(a) == [type |-> "release", xid |-> NoXid, rip |-> NoAddr, ci |-> a]

Release(i, a) ==
  /\ Handles(i) /\ Room(1)
  /\ byID[i] = a
  /\ LET v == entries[a]
         w == Mutate(v, "delete", v.committed, v.texp, v.thold, ReleaseRequest(a),
                     NextToken(1))
     IN /\ v.st = "bound"
        /\ entries' = [entries EXCEPT ![a] = Dispatched(w)]
        /\ queue' = Enqueued(a, w)
  /\ sequence' = sequence + 1
  /\ Drop(a, i)
  /\ UNCHANGED <<clocks, process, gen, byID, bitmap, probes, prober,
                 rows, lastKnown, results, storeErr, runtime>>

\* quarantine's index rule: a durable binding keeps its identity until the
\* quarantine is durable too.
QuarantineIndex(v, a) ==
  IF ~Durable(v) \/ v.committed.st # "bound" THEN Forget(byID, v.id, a) ELSE byID

Decline(i, a) ==
  /\ Handles(i) /\ Room(1)
  /\ byID[i] = a
  /\ LET v == entries[a]
         w == Quarantine(v, NextToken(1))
     IN /\ v.st \in {"offered", "bound"}
        /\ entries' = [entries EXCEPT ![a] = Dispatched(w)]
        /\ queue' = Enqueued(a, w)
        /\ byID' = QuarantineIndex(v, a)
  /\ sequence' = sequence + 1
  /\ Drop(a, i)
  /\ UNCHANGED <<clocks, process, gen, bitmap, probes, prober,
                 rows, lastKnown, results, storeErr, runtime>>

\* A packet that changes nothing, or a tick with nothing to do.
Observe ==
  /\ up
  /\ ObserveClock
  /\ UNCHANGED <<clocks, process, gen, sequence, entries, byID, bitmap, probes,
                 prober, store, runtime, held>>
-----------------------------------------------------------------------------
(* Probes.                                                                 *)

\* A worker ends its probe: quiet, a conflict, or an error; past the deadline
\* its context is cancelled and only an error is left.
ProbeEnds(j, outcome) ==
  /\ up
  /\ mono >= j.due => outcome = "error"
  /\ jobs' = jobs \ {j}
  /\ found' = found \cup {[tok |-> j.tok, outcome |-> outcome]}
  /\ UNCHANGED <<clocks, process, engine, store, runtime, held>>

Probing(tok) == {a \in Addrs : entries[a] # NoEntry /\ entries[a].st = "probing"
                               /\ entries[a].tok = tok /\ tok.gen = gen}

\* CompleteProbe of a token nothing waits for.
ProbeStale(f) ==
  /\ up /\ ObserveClock
  /\ Probing(f.tok) = {}
  /\ found' = found \ {f}
  /\ UNCHANGED <<clocks, process, gen, sequence, entries, byID, bitmap, probes,
                 jobs, store, runtime, held>>

\* No reliable silence in time: the candidate is dropped.
ProbeFails(f) ==
  /\ up /\ ObserveClock
  /\ \E a \in Probing(f.tok) :
       LET v == entries[a] IN
       /\ ~ClockOK \/ f.outcome = "error" \/ mono >= v.due
       /\ entries' = [entries EXCEPT ![a] = NoEntry]
       /\ byID' = Forget(byID, v.id, a)
       /\ bitmap' = Unmark(bitmap, a)
       /\ probes' = probes - 1
  /\ found' = found \ {f}
  /\ UNCHANGED <<clocks, process, gen, sequence, jobs, store, runtime, held>>

ProbeQuiet(f) ==
  /\ up /\ ClockOK /\ ObserveClock
  /\ f.outcome = "quiet"
  /\ \E a \in Probing(f.tok) :
       LET v == entries[a] IN
       /\ mono < v.due
       /\ entries' = [entries EXCEPT ![a] =
            Settle([v EXCEPT !.exp = wall + OfferTime, !.hold = wall + OfferTime,
                             !.texp = mono + OfferTime, !.thold = mono + OfferTime,
                             !.due = 0, !.tries = 0, !.req.rip = NoAddr], "offered")]
  /\ probes' = probes - 1
  /\ found' = found \ {f}
  /\ UNCHANGED <<clocks, process, gen, sequence, byID, bitmap, jobs, store, runtime, held>>

\* Someone else uses the address: quarantine it and try another one.
ProbeConflict(f) ==
  /\ up /\ ClockOK /\ ObserveClock
  /\ f.outcome = "conflict" /\ Room(2)
  /\ \E a \in Probing(f.tok) :
       LET v == entries[a]
           w == Quarantine(v, NextToken(1))
       IN /\ mono < v.due
          /\ queue' = Enqueued(a, w)
          /\ Discover([entries EXCEPT ![a] = Dispatched(w)], QuarantineIndex(v, a),
                      bitmap, probes - 1, 1, v.id, v.req, v.tries + 1)
  /\ found' = found \ {f}
  /\ UNCHANGED <<clocks, process, gen, rows, lastKnown, results, storeErr, runtime, held>>
-----------------------------------------------------------------------------
(* The lease writer.                                                       *)

Effect(m) == IF m.kind = "put" THEN m.row ELSE NoRow

\* The table after the first n mutations of batch b.
After(R, b, n) ==
  [a \in Addrs |->
     LET writes == {k \in 1..n : b[k].addr = a}
     IN IF writes = {} THEN R[a]
        ELSE Effect(b[CHOOSE k \in writes : \A l \in writes : l <= k])]

\* One row changes: the statement's WHERE clause and the unique index on bound
\* identities let it through.
Accepts(R, m) ==
  IF m.kind = "put"
  THEN /\ m.row.hold >= m.row.exp
       /\ R[m.addr] # NoRow => /\ R[m.addr].id = m.row.id
                               /\ R[m.addr].hold <= m.row.hold
       /\ m.row.st = "bound" =>
            \A a \in Addrs \ {m.addr} :
              R[a] # NoRow /\ R[a].st = "bound" => R[a].id # m.row.id
  ELSE R[m.addr] = m.row

BatchAccepted(b) == \A k \in 1..Len(b) : Accepts(After(rows, b, k - 1), b[k])

BatchOf(k) == SubSeq(queue, 1, k)
Completions(b, ok) == [k \in 1..Len(b) |-> [tok |-> b[k].tok, ok |-> ok]]
Batches == {k \in 1..Len(queue) : k <= BatchCap}

\* One transaction for a batch. A failed checkpoint afterwards only stops
\* further admission.
StoreCommit(k, checkpointed) ==
  /\ up /\ storeErr = "none"
  /\ wall >= lastKnown /\ BatchAccepted(BatchOf(k))
  /\ rows' = After(rows, BatchOf(k), k)
  /\ lastKnown' = wall
  /\ queue' = SubSeq(queue, k + 1, Len(queue))
  /\ results' = results \o Completions(BatchOf(k), TRUE)
  /\ storeErr' = IF checkpointed THEN "none" ELSE "failed"
  /\ UNCHANGED <<clocks, process, engine, prober, runtime, held>>

\* Mistake: a failed batch is dropped without telling the engine.
StoreRejectSilently(k) ==
  /\ up
  /\ queue' = SubSeq(queue, k + 1, Len(queue))
  /\ UNCHANGED <<clocks, process, engine, prober, rows, lastKnown, results, storeErr,
                 runtime, held>>

\* A transaction that certainly did not happen fails its whole batch, and every
\* later one.
StoreReject(k) ==
  /\ up
  /\ queue' = SubSeq(queue, k + 1, Len(queue))
  /\ results' = results \o Completions(BatchOf(k), FALSE)
  /\ storeErr' = IF storeErr = "none" THEN "failed" ELSE storeErr
  /\ UNCHANGED <<clocks, process, engine, prober, rows, lastKnown, runtime, held>>

\* COMMIT reports an error: the batch is in the table or it is not, and nobody
\* is told.
StoreUncertain(k, applied) ==
  /\ up /\ storeErr = "none"
  /\ wall >= lastKnown /\ BatchAccepted(BatchOf(k))
  /\ rows' = IF applied THEN After(rows, BatchOf(k), k) ELSE rows
  /\ lastKnown' = IF applied THEN wall ELSE lastKnown
  /\ queue' = SubSeq(queue, k + 1, Len(queue))
  /\ storeErr' = "uncertain"
  /\ UNCHANGED <<clocks, process, engine, prober, results, runtime, held>>
-----------------------------------------------------------------------------
(* CompleteCommit: the owner takes the oldest completion and publishes.    *)

Waiting(tok) == {a \in Addrs : entries[a] # NoEntry /\ entries[a].st = "commit-pending"
                               /\ entries[a].tok = tok /\ tok.gen = gen}

Completing(a) ==
  /\ up /\ results # <<>> /\ ObserveClock
  /\ a \in Waiting(Head(results).tok)
  /\ results' = Tail(results)

CommitFailed(a) ==
  /\ Completing(a)
  /\ ~Head(results).ok
  /\ entries' = [entries EXCEPT ![a] = Fail(@)]
  /\ view' = DurableLeases(entries')
  /\ UNCHANGED <<clocks, process, gen, sequence, byID, bitmap, probes, prober,
                 rows, lastKnown, queue, storeErr, applying, held>>

CommitDeleted(a) ==
  /\ Completing(a)
  /\ Head(results).ok /\ entries[a].mut.kind = "delete"
  /\ entries' = [entries EXCEPT ![a] = NoEntry]
  /\ byID' = Forget(byID, entries[a].id, a)
  /\ bitmap' = Unmark(bitmap, a)
  /\ view' = DurableLeases(entries')
  /\ UNCHANGED <<clocks, process, gen, sequence, probes, prober,
                 rows, lastKnown, queue, storeErr, applying, held>>

CommitBound(a) ==
  /\ Completing(a)
  /\ Head(results).ok /\ entries[a].mut.kind = "put" /\ entries[a].mut.row.st = "bound"
  /\ entries' = [entries EXCEPT ![a] = Commit(@)]
  /\ view' = DurableLeases(entries')
  /\ IF ClockOK /\ mono < entries[a].mut.texp
     THEN SendAck(a, entries[a].id, entries[a].mut.texp)
     ELSE UNCHANGED held
  /\ UNCHANGED <<clocks, process, gen, sequence, byID, bitmap, probes, prober,
                 rows, lastKnown, queue, storeErr, applying>>

\* A durable quarantine frees its identity; a migration goes on with a probe.
CommitQuarantined(a) ==
  /\ Completing(a)
  /\ Head(results).ok /\ entries[a].mut.kind = "put" /\ entries[a].mut.row.st = "quarantined"
  /\ LET v == entries[a]
         E == [entries EXCEPT ![a] = [Commit(v) EXCEPT !.req = NoRequest]]
         I == Forget(byID, v.id, a)
     IN IF ClockOK /\ v.req.type = "discover"
        THEN Discover(E, I, bitmap, probes, 0, v.id, v.req, 1)
        ELSE entries' = E /\ byID' = I /\ UNCHANGED <<bitmap, probes, sequence, jobs>>
  /\ view' = DurableLeases(entries')
  /\ UNCHANGED <<clocks, process, gen, found, rows, lastKnown, queue, storeErr,
                 applying, held>>
-----------------------------------------------------------------------------
(* Tick: one scan over all ownership, in any order.                        *)

Unsaved(v) == v.dirty /\ v.st # "commit-pending"
\* Mistake: the hold is compared with the wall clock.
RanOutByWall(v) == v.st \in {"offered", "bound", "quarantined"} /\ wall >= v.hold
RanOut(v) == v.st \in {"offered", "bound", "quarantined"} /\ mono >= v.thold
ProbeOver(v) == v.st = "probing" /\ mono >= v.due

Rewrites == {a \in HeldIn(entries) : Unsaved(entries[a])}
Deletes == {a \in HeldIn(entries) \ Rewrites : RanOut(entries[a]) /\ Durable(entries[a])}
Vanishes == {a \in HeldIn(entries) \ Rewrites :
               \/ ProbeOver(entries[a])
               \/ RanOut(entries[a]) /\ ~Durable(entries[a])}

Orders(S) == {f \in [1..Cardinality(S) -> S] : \A m, n \in DOMAIN f : m # n => f[m] # f[n]}

\* The mutation of the n-th entry the scan writes.
TickMutate(a, n) ==
  LET v == entries[a] IN
  IF a \in Rewrites
  THEN Mutate(v, "put", LeaseOf(v, v.st), v.texp, v.thold, NoRequest, NextToken(n))
  ELSE Mutate(v, "delete", v.committed, v.texp, v.thold, NoRequest, NextToken(n))

Tick ==
  /\ up /\ ClockOK /\ ObserveClock
  /\ Rewrites \cup Deletes \cup Vanishes # {}
  /\ Room(Cardinality(Rewrites \cup Deletes))
  /\ \E order \in Orders(Rewrites \cup Deletes) :
       LET free == IF storeErr = "none" THEN QueueCap - Len(queue) ELSE 0
           sent == {n \in DOMAIN order : n <= free}
       IN
       /\ entries' = [a \in Addrs |->
            IF a \in Vanishes THEN NoEntry
            ELSE IF a \notin Rewrites \cup Deletes THEN entries[a]
            ELSE LET n == CHOOSE k \in DOMAIN order : order[k] = a
                 IN IF n \in sent THEN TickMutate(a, n) ELSE Fail(TickMutate(a, n))]
       /\ queue' = queue \o [n \in sent |-> Message(order[n], TickMutate(order[n], n))]
       /\ sequence' = sequence + Len(order)
  /\ byID' = [i \in Ids |-> IF byID[i] \in Vanishes THEN NoAddr ELSE byID[i]]
  /\ bitmap' = bitmap \ (Vanishes \ Reserved)
  /\ probes' = probes - Cardinality({a \in Vanishes : entries[a].st = "probing"})
  /\ UNCHANGED <<clocks, process, gen, prober, rows, lastKnown, results, storeErr,
                 runtime, held>>
-----------------------------------------------------------------------------
(* Apply: a new generation of settings.                                    *)

ApplyRequest(g) ==
  /\ up /\ applying = 0 /\ g > gen
  /\ applying' = g
  /\ UNCHANGED <<clocks, process, engine, prober, store, view, held>>

\* No write is in flight or owed.
Drained == \A a \in HeldIn(entries) : entries[a].st # "commit-pending" /\ ~entries[a].dirty

\* Ownership that a change of settings keeps.
Kept == {a \in HeldIn(entries) : Durable(entries[a]) \/ entries[a].st = "quarantined"}

\* Settings s can take over the ownership on the addresses A, held by who.
Fits(s, A, who) ==
  /\ A \subseteq s.usable
  /\ \A i \in Ids : s.res[i] \in A => who[s.res[i]].id = i
  /\ Cardinality(A \cup ReservedAt(s)) <= s.cap

\* Mistake: the kept ownership is not checked against the new settings.
ApplyUnchecked ==
  /\ up /\ applying # 0 /\ Drained
  /\ entries' = [a \in Addrs |->
                   IF a \in Kept THEN [entries[a] EXCEPT !.ack = NoXid] ELSE NoEntry]
  /\ byID' = [i \in Ids |-> IF byID[i] \in Kept THEN byID[i] ELSE NoAddr]
  /\ probes' = 0
  /\ gen' = applying
  /\ bitmap' = (Kept \cup ReservedAt(Settings[applying])) \cap Settings[applying].pool
  /\ applying' = 0
  /\ view' = DurableLeases(entries')
  /\ UNCHANGED <<clocks, process, sequence, lastTime, prober, store, held>>

ApplySettings ==
  /\ up /\ applying # 0 /\ Drained
  /\ Fits(Settings[applying], Kept, entries)
  /\ entries' = [a \in Addrs |->
                   IF a \in Kept THEN [entries[a] EXCEPT !.ack = NoXid] ELSE NoEntry]
  /\ byID' = [i \in Ids |-> IF byID[i] \in Kept THEN byID[i] ELSE NoAddr]
  /\ probes' = 0
  /\ gen' = applying
  /\ bitmap' = (Kept \cup ReservedAt(Settings[applying])) \cap Settings[applying].pool
  /\ applying' = 0
  /\ view' = DurableLeases(entries')
  /\ UNCHANGED <<clocks, process, sequence, lastTime, prober, store, held>>

\* The settings do not fit the ownership they would have to keep.
ApplyRefused ==
  /\ up /\ applying # 0 /\ Drained
  /\ ~Fits(Settings[applying], Kept, entries)
  /\ applying' = 0
  /\ UNCHANGED <<clocks, process, engine, prober, store, view, held>>

\* The caller's context has ended.
ApplyCancelled ==
  /\ up /\ applying # 0
  /\ applying' = 0
  /\ UNCHANGED <<clocks, process, engine, prober, store, view, held>>
-----------------------------------------------------------------------------
(* Processes and time.                                                     *)

Nobody == [a \in Addrs |-> NoEntry]

\* The process dies, is stopped, or sees a latched store error and ends: what
\* is not in the table is gone.
Stop ==
  /\ up' = FALSE
  /\ entries' = Nobody /\ byID' = [i \in Ids |-> NoAddr]
  /\ bitmap' = {} /\ probes' = 0 /\ sequence' = 0 /\ lastTime' = 0
  /\ jobs' = {} /\ found' = {} /\ queue' = <<>> /\ results' = <<>>
  /\ applying' = 0 /\ view' = [a \in Addrs |-> NoRow] /\ storeErr' = "none"
  /\ UNCHANGED <<clocks, restarts, gen, rows, lastKnown, held>>

Crash == up /\ restarts < MaxRestarts /\ Stop
StoreFailed == up /\ storeErr # "none" /\ Stop

Stored == {a \in Addrs : rows[a] # NoRow}

\* Restore's check of the table, under settings s.
Recoverable(s) ==
  /\ Fits(s, Stored, rows)
  /\ \A a \in Stored : rows[a].hold >= rows[a].exp
  /\ \A a, b \in Stored : a # b /\ rows[a].st = "bound" /\ rows[b].st = "bound"
                            => rows[a].id # rows[b].id

\* OpenLeaseStore, Restore and StartRuntime.
Restart(g) ==
  /\ ~up /\ restarts < MaxRestarts
  /\ wall >= lastKnown /\ Recoverable(Settings[g])
  /\ up' = TRUE /\ restarts' = restarts + 1
  /\ gen' = g /\ sequence' = 0 /\ lastTime' = wall /\ probes' = 0
  /\ entries' = [a \in Addrs |-> IF rows[a] = NoRow THEN NoEntry ELSE Recovered(rows[a])]
  /\ byID' = [i \in Ids |->
       IF \E a \in Stored : rows[a].st = "bound" /\ rows[a].id = i
       THEN CHOOSE a \in Stored : rows[a].st = "bound" /\ rows[a].id = i
       ELSE NoAddr]
  /\ bitmap' = (Stored \cup ReservedAt(Settings[g])) \cap Settings[g].pool
  /\ view' = rows
  /\ UNCHANGED <<clocks, prober, store, applying, held>>

\* A lease that has run out is forgotten by its client.
Advance ==
  /\ mono < MaxTime
  /\ mono' = mono + 1 /\ wall' = wall + 1
  /\ held' = [a \in Addrs |-> [i \in Ids |-> IF held[a][i] <= mono' THEN 0 ELSE held[a][i]]]
  /\ UNCHANGED <<stepped, process, engine, prober, store, runtime>>

\* Somebody sets the wall clock.
SetClock ==
  /\ ~stepped /\ stepped' = TRUE
  /\ \/ Forward > 0 /\ wall' = wall + Forward
     \/ Back > 0 /\ wall > Back /\ wall' = wall - Back
  /\ UNCHANGED <<mono, process, engine, prober, store, runtime, held>>
-----------------------------------------------------------------------------
Init ==
  /\ mono = 1 /\ wall = 1 /\ stepped = FALSE
  /\ up = TRUE /\ restarts = 0
  /\ gen = 1 /\ sequence = 0 /\ lastTime = 1
  /\ entries = Nobody /\ byID = [i \in Ids |-> NoAddr]
  /\ bitmap = ReservedAt(Settings[1]) \cap Settings[1].pool /\ probes = 0
  /\ jobs = {} /\ found = {}
  /\ rows = [a \in Addrs |-> NoRow] /\ lastKnown = 1
  /\ queue = <<>> /\ results = <<>> /\ storeErr = "none"
  /\ applying = 0 /\ view = [a \in Addrs |-> NoRow]
  /\ held = [a \in Addrs |-> [i \in Ids |-> 0]]

Handle ==
  \E i \in Ids :
    \/ \E x \in XIDs, hint \in Hints :
         DiscoverNew(i, x, hint) \/ DiscoverProbing(i, x, hint) \/ DiscoverMoved(i, x, hint)
    \/ \E x \in XIDs : DiscoverOffer(i, x)
    \/ \E x \in XIDs, a \in Addrs, phase \in Phases :
         RequestReplay(i, x, a, phase) \/ RequestGrant(i, x, a, phase)
    \/ \E a \in Addrs : RequestNak(i, a) \/ Release(i, a) \/ Decline(i, a)

CompleteProbe == \E f \in found : ProbeStale(f) \/ ProbeFails(f) \/ ProbeQuiet(f) \/ ProbeConflict(f)

CompleteCommit ==
  \E a \in Addrs : CommitFailed(a) \/ CommitDeleted(a) \/ CommitBound(a) \/ CommitQuarantined(a)

StoreRun ==
  \E k \in Batches :
    \/ \E ok \in BOOLEAN : StoreCommit(k, ok) \/ StoreUncertain(k, ok)
    \/ StoreReject(k)

Next ==
  \/ Handle
  \/ Observe
  \/ \E j \in jobs, outcome \in {"quiet", "conflict", "error"} : ProbeEnds(j, outcome)
  \/ CompleteProbe
  \/ StoreRun
  \/ CompleteCommit
  \/ Tick
  \/ \E g \in Generations : ApplyRequest(g)
  \/ ApplySettings
  \/ ApplyRefused
  \/ ApplyCancelled
  \/ Crash
  \/ StoreFailed
  \/ \E g \in Generations : g >= gen /\ Restart(g)
  \/ Advance
  \/ SetClock

Spec == Init /\ [][Next]_vars
-----------------------------------------------------------------------------
(* Properties.                                                             *)

\* Types; the writer's queue never holds more than storeQueue.
TypeOK ==
  /\ mono \in 1..MaxTime /\ wall \in Nat /\ stepped \in BOOLEAN
  /\ up \in BOOLEAN /\ restarts \in 0..MaxRestarts
  /\ gen \in Generations /\ sequence \in Nat /\ lastTime \in Nat
  /\ entries \in [Addrs -> Entry \cup {NoEntry}]
  /\ byID \in [Ids -> Addrs \cup {NoAddr}]
  /\ bitmap \subseteq Addrs /\ probes \in 0..MaxProbes
  /\ jobs \subseteq [tok : Token, due : Nat]
  /\ found \subseteq [tok : Token, outcome : {"quiet", "conflict", "error"}]
  /\ rows \in [Addrs -> Row \cup {NoRow}] /\ lastKnown \in Nat
  /\ queue \in Seq(Mutation) /\ Len(queue) <= QueueCap
  /\ results \in Seq([tok : Token, ok : BOOLEAN])
  /\ storeErr \in {"none", "failed", "uncertain"}
  /\ applying \in {0} \cup Generations
  /\ view \in [Addrs -> Row \cup {NoRow}]
  /\ held \in [Addrs -> [Ids -> Nat]]

\* What a restart reads from the table stands for the time it stood for when it was
\* written: the wall clock has not run ahead of real time before a restart.
Anchored == restarts = 0 \/ wall <= mono

\* No two clients hold the same address: a lease sent to one client is never
\* sent to another before it ran out or was given up, whatever probes, writes,
\* settings, clocks, crashes and restarts come between. Only a restart on a clock
\* that was set forward takes a lease for expired too early.
NoDoubleGrant ==
  Anchored => \A a \in Addrs : \A i, j \in Ids :
    held[a][i] > mono /\ held[a][j] > mono => i = j

\* Every lease a client still holds is in the durable table under its identity,
\* with a horizon that lasts at least as long as the client's lease on every clock
\* that is not ahead: a crash at any moment cannot lose it.
GrantIsDurable ==
  Anchored => \A a \in Addrs : \A i \in Ids : held[a][i] > mono =>
    /\ rows[a] # NoRow /\ rows[a].id = i
    /\ wall <= mono => rows[a].hold - wall >= held[a][i] - mono

\* The writes in flight never conflict with the table, in any batching: only
\* the disk or the clock can make a transaction fail.
WritesApply == up /\ storeErr = "none" => BatchAccepted(queue)

\* Restore accepts the table under the settings in force, whenever it is asked.
AlwaysRecoverable == Recoverable(Cfg)

\* The probe budget counts exactly the candidates being probed.
ProbesCounted ==
  up => probes = Cardinality({a \in HeldIn(entries) : entries[a].st = "probing"})

\* The two indexes agree: an identity points to an entry of its own, every
\* entry but a quarantine is pointed to, and a durable binding keeps its
\* identity through a pending or failed quarantine.
IndexesAgree ==
  up => /\ \A i \in Ids : byID[i] # NoAddr =>
             entries[byID[i]] # NoEntry /\ entries[byID[i]].id = i
        /\ \A a \in HeldIn(entries) :
             LET v == entries[a] IN
             \/ v.st \in {"probing", "offered", "bound"}
             \/ Durable(v) /\ v.committed.st = "bound"
             => byID[v.id] = a

\* The bitmap marks exactly the pool addresses that are held or reserved.
BitmapExact == up => bitmap = (HeldIn(entries) \cup Reserved) \cap Cfg.pool

\* Writes and waiting entries match one to one: a write in flight has exactly
\* one entry waiting for it, and unless the store has latched an error a waiting
\* entry has its write queued or completed exactly once. No completion is lost,
\* and none is ever delivered to an entry that has moved on.
Carries(tok) ==
  Cardinality({k \in 1..Len(queue) : queue[k].tok = tok})
    + Cardinality({k \in 1..Len(results) : results[k].tok = tok})

WritesMatched ==
  /\ \A k \in 1..Len(queue) : queue[k].addr \in Waiting(queue[k].tok)
  /\ \A k \in 1..Len(results) : Cardinality(Waiting(results[k].tok)) = 1
  /\ up /\ storeErr = "none" =>
       \A a \in HeldIn(entries) :
         entries[a].st = "commit-pending" => Carries(entries[a].tok) = 1

\* The books agree: indexes, bitmap, probe budget and writes in flight say the same
\* of every address, whatever completions, ticks and settings come in between.
Bookkeeping == TypeOK /\ IndexesAgree /\ BitmapExact /\ ProbesCounted /\ WritesMatched

\* What DNS is shown is what is durable.
ViewIsDurable == up => view = DurableLeases(entries)

\* Nobody is told of a lease, a client by an ACK or DNS by the view, that the table does not keep.
DurableFirst == GrantIsDurable /\ ViewIsDurable

\* A client is refused an address it still holds only when the settings no
\* longer permit it: no order of migrations, quarantines, lost writes, clocks and
\* restarts makes the server take an address back.
Relinquishes(i, a) == Release(i, a) \/ Decline(i, a)
NakOnlyIneligible ==
  [][Anchored' => \A a \in Addrs : \A i \in Ids :
       held[a][i] > mono' /\ held'[a][i] = 0 => ~Eligible(i, a) \/ Relinquishes(i, a)]_vars

(***************************************************************************)
(* Progress. The writer and the owner loop are goroutines the Go scheduler *)
(* keeps running, and the loop's select serves every ready channel.        *)
(***************************************************************************)
FairSpec ==
  /\ Spec
  /\ WF_vars(StoreRun) /\ WF_vars(CompleteCommit) /\ WF_vars(StoreFailed)
  /\ WF_vars(ApplySettings) /\ WF_vars(ApplyRefused)

Pending(a, n) == up /\ entries[a] # NoEntry /\ entries[a].st = "commit-pending"
                    /\ entries[a].tok.seq = n

\* Every durable write a client waits for is settled: it completes, or the
\* runtime stops.
WritesSettle == \A a \in Addrs, n \in 1..MaxSeq : Pending(a, n) ~> ~Pending(a, n)

\* An accepted change of settings is answered, although it must wait for the
\* writes in flight.
ApplyAnswered == applying # 0 ~> applying = 0
=============================================================================
