------------------------------ MODULE History ------------------------------
(***************************************************************************)
(* Query history: the collector that DNS workers record into (stats), the  *)
(* one consumer that writes batches (storage.Run, WriteBatch), retention,  *)
(* and the window queries with their claim of completeness.                *)
(*                                                                         *)
(* Time is in ticks of one unit. The wall clock does not go back, and a    *)
(* restart takes time. Counts of losses matter only as zero or not.        *)
(***************************************************************************)
EXTENDS Integers, Sequences, FiniteSets, FiniteSetsExt, SequencesExt

CONSTANTS
  Widths,       \* widths of the rollup tiers, finest first (minute, hour, day)
  Retentions,   \* retention settings the configuration may have, by level
  Capacity,     \* events the collector's channel holds
  MaxBatch,     \* events of one transaction
  ExpireLimit,  \* rows of a table that one maintenance step removes
  MaxDelay,     \* longest time from a query's arrival to its record
  MaxTime, MaxEvents, MaxBoots

Tiers == 1..Len(Widths)
Levels == 0..Len(Widths)   \* level 0 is the detail table
Boots == 1..MaxBoots
Times == 0..MaxTime

ASSUME HistoryAssumption ==
  /\ Widths \in Seq(Nat \ {0}) /\ Retentions \subseteq [Levels -> Nat \ {0}] /\ Retentions # {}
  /\ {Capacity, MaxBatch, ExpireLimit, MaxBoots} \subseteq Nat \ {0}
  /\ {MaxDelay, MaxTime, MaxEvents} \subseteq Nat

VARIABLES
  now,
  phase,      \* "down", "up" or "stopping"
  boot,       \* identity of the running process
  open,       \* history.sqlite could be opened
  started,    \* ObservedStart
  seq,        \* Sequence of the last recorded event
  dropped,    \* the channel was full at least once
  queue,      \* the collector's channel
  batch,      \* the consumer's batch
  lost,       \* a batch was discarded
  db,         \* the committed database
  recorded    \* every event ever recorded

collector == <<boot, open, started, seq, dropped, queue, recorded>>
consumer == <<batch, lost>>
vars == <<now, phase, collector, consumer, db>>

NoWriter == [mark |-> 0, snap |-> 0, from |-> 0, to |-> 0, incomplete |-> FALSE, lost |-> FALSE]

EmptyDB == [details |-> {},
            rollups |-> [k \in Tiers |-> [b \in Times |-> 0]],
            cutoff  |-> [k \in Levels |-> 0],
            writer  |-> [b \in Boots |-> NoWriter]]

\* The first process has just started; it goes on without history when the database
\* cannot be opened (newObservability, start).
Init ==
  /\ now = 0 /\ phase = "up" /\ boot = 1 /\ open \in BOOLEAN /\ started = 0
  /\ seq = 0 /\ dropped = FALSE /\ queue = <<>>
  /\ batch = <<>> /\ lost = FALSE
  /\ db = EmptyDB /\ recorded = {}

Bucket(t, w) == t - (t % w)

(***************************************************************************)
(* Recording. RecordWith numbers the event and never waits for the         *)
(* consumer: a full channel drops the event. The timestamp is the arrival  *)
(* of the query, which may be earlier.                                     *)
(***************************************************************************)
Record(delay) ==
  LET e == [boot |-> boot, seq |-> seq + 1, ts |-> now - delay, late |-> delay > 0] IN
  /\ phase = "up" /\ Cardinality(recorded) < MaxEvents
  /\ now - delay >= started
  /\ seq' = seq + 1
  /\ recorded' = recorded \cup {e}
  /\ IF Len(queue) < Capacity
     THEN queue' = Append(queue, e) /\ UNCHANGED dropped
     ELSE dropped' = TRUE /\ UNCHANGED queue
  /\ UNCHANGED <<now, phase, boot, open, started, consumer, db>>

(***************************************************************************)
(* Writing. One transaction stores the new events, adds them to every tier *)
(* that still keeps them, and moves the watermark, the snapshot and the    *)
(* observed interval of this boot.                                         *)
(***************************************************************************)
New(D, events) == {e \in ToSet(events) : e.seq > D.writer[boot].mark}

\* A sequence number was skipped.
Gap(mark, S) == \E e \in S : e.seq # mark + 1 /\ \A f \in S : f.seq # e.seq - 1

AddTo(D, S) ==
  [k \in Tiers |-> [b \in Times |-> D.rollups[k][b]
     + Cardinality({e \in S : Bucket(e.ts, Widths[k]) = b /\ b + Widths[k] > D.cutoff[k]})]]

\* The interval this boot has observed so far, with the one that ends now.
Observed(w) ==
  IF now = started THEN w
  ELSE [w EXCEPT !.from = IF w.from = w.to THEN started ELSE Min({@, started}),
                 !.to = Max({@, now})]

Writer(w, S) ==
  Observed([w EXCEPT !.mark = Max({w.mark} \cup {e.seq : e \in S}), !.snap = seq,
                     !.incomplete = @ \/ Gap(w.mark, S) \/ dropped,
                     !.lost = @ \/ lost])

WriteBatch(D, events) ==
  LET S == New(D, events) IN
  [D EXCEPT !.details = @ \cup {e \in S : e.ts >= D.cutoff[0]},
            !.rollups = AddTo(D, S),
            !.writer[boot] = Writer(@, S)]

\* flush: a transaction that fails, or whose commit is uncertain, costs the batch.
Outcomes == {"stored", "failed", "uncertain"}

After(outcome, D, events) == IF outcome = "failed" THEN D ELSE WriteBatch(D, events)

Flush(outcome, events) ==
  /\ db' = After(outcome, db, events)
  /\ batch' = <<>>
  /\ lost' = (lost \/ (outcome # "stored" /\ events # <<>>))

Running == phase = "up" /\ open

Receive(outcome) ==
  LET b == Append(batch, Head(queue)) IN
  /\ Running /\ queue # <<>>
  /\ queue' = Tail(queue)
  /\ IF Len(b) = MaxBatch THEN Flush(outcome, b)
     ELSE outcome = "stored" /\ batch' = b /\ UNCHANGED <<lost, db>>
  /\ UNCHANGED <<now, phase, boot, open, started, seq, dropped, recorded>>

\* Every second, also with an empty batch: the interval it observes grows.
FlushTick(outcome) ==
  /\ Running /\ Flush(outcome, batch)
  /\ UNCHANGED <<now, phase, collector>>

(***************************************************************************)
(* Retention. The cutoffs move first and hide what expired; the rows go a  *)
(* limited number at a time, oldest first.                                 *)
(***************************************************************************)
Before(e, f) == \/ e.ts < f.ts
                \/ e.ts = f.ts /\ (e.boot < f.boot \/ (e.boot = f.boot /\ e.seq < f.seq))

OldestEvents(S) == {e \in S : Cardinality({f \in S : Before(f, e)}) < ExpireLimit}

OldestBuckets(S) == {b \in S : Cardinality({c \in S : c < b}) < ExpireLimit}

ExpiredEvents(D) == {e \in D.details : e.ts < D.cutoff[0]}

\* Mistake: a bucket is removed as soon as part of it expired.
ExpiredEagerly(D, k) == {b \in Times : D.rollups[k][b] > 0 /\ b <= D.cutoff[k]}

ExpiredBuckets(D, k) == {b \in Times : D.rollups[k][b] > 0 /\ b <= D.cutoff[k] - Widths[k]}

MoveCutoffs(D, r) == [D EXCEPT !.cutoff = [k \in Levels |-> Max({@[k], now - r[k]})]]

Retain(D, r) ==
  LET M == MoveCutoffs(D, r) IN
  [M EXCEPT !.details = @ \ OldestEvents(ExpiredEvents(M)),
            !.rollups = [k \in Tiers |-> [b \in Times |->
               IF b \in OldestBuckets(ExpiredBuckets(M, k)) THEN 0 ELSE @[k][b]]]]

\* The maintenance case, due every minute and again until nothing expired is left:
\* take what is queued, flush it, then retain under the setting of the moment.
Catchup(outcome, r, retained) ==
  LET n == Min({Len(queue), MaxBatch - Len(batch)})
      b == batch \o SubSeq(queue, 1, n)
      D == IF b = <<>> THEN db ELSE After(outcome, db, b)
      R == Retain(D, r)
  IN /\ Running
     /\ b = <<>> => outcome = "stored"
     /\ queue' = SubSeq(queue, n + 1, Len(queue))
     /\ batch' = <<>>
     /\ lost' = (lost \/ (outcome # "stored" /\ b # <<>>))
     /\ db' = IF retained THEN R ELSE D
     /\ UNCHANGED <<now, phase, boot, open, started, seq, dropped, recorded>>

(***************************************************************************)
(* Starting and stopping. Stopping drains what the channel holds at that   *)
(* moment and ends early when a transaction fails.                         *)
(***************************************************************************)
Gone ==
  /\ phase' = "down"
  /\ seq' = 0 /\ dropped' = FALSE /\ queue' = <<>>
  /\ batch' = <<>> /\ lost' = FALSE
  /\ UNCHANGED <<now, boot, open, started, recorded>>

Start(ok) ==
  /\ phase = "down" /\ boot < MaxBoots /\ now < MaxTime
  /\ now' = now + 1 /\ started' = now + 1
  /\ phase' = "up" /\ boot' = boot + 1 /\ open' = ok
  /\ UNCHANGED <<seq, dropped, queue, batch, lost, db, recorded>>

Stop ==
  /\ phase = "up"
  /\ IF open
     THEN /\ phase' = "stopping"
          /\ UNCHANGED <<now, collector, consumer, db>>
     ELSE Gone /\ UNCHANGED db

Drain ==
  LET b == Append(batch, Head(queue)) IN
  /\ phase = "stopping" /\ queue # <<>>
  /\ \/ /\ Len(b) < MaxBatch /\ batch' = b /\ UNCHANGED <<lost, db>>
        /\ queue' = Tail(queue)
        /\ UNCHANGED <<now, phase, boot, open, started, seq, dropped, recorded>>
     \/ /\ Len(b) = MaxBatch /\ Flush("stored", b)
        /\ queue' = Tail(queue)
        /\ UNCHANGED <<now, phase, boot, open, started, seq, dropped, recorded>>
     \/ /\ Len(b) = MaxBatch /\ Gone
        /\ \E outcome \in Outcomes \ {"stored"} : db' = After(outcome, db, b)

LastFlush(outcome) ==
  /\ phase = "stopping" /\ queue = <<>>
  /\ db' = After(outcome, db, batch) /\ Gone

\* A kill loses what is in memory; the database keeps what was committed.
Crash == phase # "down" /\ Gone /\ UNCHANGED db

Advance ==
  /\ now < MaxTime /\ now' = now + 1
  /\ UNCHANGED <<phase, collector, consumer, db>>

Next ==
  \/ \E delay \in 0..MaxDelay : Record(delay)
  \/ \E outcome \in Outcomes : Receive(outcome) \/ FlushTick(outcome) \/ LastFlush(outcome)
  \/ \E outcome \in Outcomes, retained \in BOOLEAN, r \in Retentions : Catchup(outcome, r, retained)
  \/ \E ok \in BOOLEAN : Start(ok)
  \/ Stop \/ Drain \/ Crash \/ Advance

Spec == Init /\ [][Next]_vars

(***************************************************************************)
(* Window queries. A window is split into full buckets of the widest tier  *)
(* that keeps them, and its edges into finer ones, down to detail rows.    *)
(***************************************************************************)
Span(s, e, k) == [start |-> s, end |-> e, level |-> k]

RoundUp(t, w) == IF t % w = 0 THEN t ELSE Bucket(t, w) + w

\* aggregateWindow, for the tiers up to k.
Window[k \in Levels] ==
  [w \in Times \X Times |->
    LET s == w[1] e == w[2] IN
    IF s >= e THEN {}
    ELSE IF k = 0 THEN {Span(s, e, 0)}
    ELSE LET first == Max({RoundUp(s, Widths[k]), Bucket(db.cutoff[k], Widths[k])})
             last  == Bucket(e, Widths[k])
         IN IF first >= last THEN Window[k - 1][w]
            ELSE Window[k - 1][<<s, first>>] \cup {Span(first, last, k)}
                   \cup Window[k - 1][<<last, e>>]]

SpanTotal(p) ==
  IF p.level = 0
  THEN Cardinality({e \in db.details : p.start <= e.ts /\ e.ts < p.end /\ e.ts >= db.cutoff[0]})
  ELSE MapThenSumSet(LAMBDA b : db.rollups[p.level][b],
         {b \in Times : p.start <= b /\ b < p.end /\ b + Widths[p.level] > db.cutoff[p.level]})

\* complete: no known loss, nothing expired, and observed throughout.
NothingLost == \A b \in Boots : LET w == db.writer[b] IN ~w.incomplete /\ ~w.lost /\ w.snap <= w.mark

SpanComplete(p) ==
  /\ p.end <= now /\ NothingLost
  /\ p.start >= db.cutoff[p.level]
  /\ \A t \in p.start..(p.end - 1) : \E b \in Boots : db.writer[b].from <= t /\ t < db.writer[b].to

\* Rankings: one tier (the hours), and both edges in detail.
RankingWindow(k, s, e) ==
  LET first == Max({RoundUp(s, Widths[k]), Bucket(db.cutoff[k], Widths[k])})
      last  == Bucket(e, Widths[k])
  IN IF first >= last THEN {Span(s, e, 0)}
     ELSE {Span(first, last, k)} \cup {p \in {Span(s, first, 0), Span(last, e, 0)} : p.start < p.end}

\* Performance: a point per bucket, from the tier if the bucket is whole, else from detail.
Points(k, s, e) ==
  LET w == Widths[k]
      point(t) == IF s <= t /\ t + w <= e THEN Span(t, t + w, k) ELSE Span(Max({t, s}), Min({t + w, e}), 0)
  IN {point(t) : t \in {b \in Bucket(s, w)..(e - 1) : b % w = 0}}

\* Timeseries: whole buckets of one tier.
Timeseries(k, s, e) == {Span(s, e, k)}

Aligned(k, s, e) == s % Widths[k] = 0 /\ e % Widths[k] = 0

\* What a dashboard reads about a window: each a set of spans.
Reads(s, e) ==
  {Window[Len(Widths)][<<s, e>>], {Span(s, e, 0)}}
  \cup {RankingWindow(k, s, e) : k \in Tiers} \cup {Points(k, s, e) : k \in Tiers}
  \cup {Timeseries(k, s, e) : k \in {x \in Tiers : Aligned(x, s, e)}}

Total(R) == MapThenSumSet(SpanTotal, R)

Complete(R) == \A p \in R : SpanComplete(p)

(***************************************************************************)
(* Properties.                                                             *)
(***************************************************************************)
\* A total that claims to be complete is exact, whatever was dropped, discarded, lost
\* in a crash or rolled up and expired before, and from whichever tiers it is read
\* (Summary, Rankings, Timeseries, Performance, complete). It can miss only queries
\* that were still being answered at the last flush.
CompleteIsExact ==
  NothingLost => \A s \in Times, e \in Times : s < e /\ e <= now =>
    LET inside == {x \in recorded : s <= x.ts /\ x.ts < e}
        known  == {x \in inside : x.seq <= db.writer[x.boot].snap}
    IN \A R \in Reads(s, e) :
         Complete(R) => Total(R) = Cardinality(known) /\ \A x \in inside \ known : x.late
=============================================================================
