----------------------------- MODULE LeaseNames -----------------------------
(***************************************************************************)
(* Names of DHCP leases in DNS (localdns/leases.go, app/dhcp_names.go):    *)
(* the index built from one committed view of the leases and one           *)
(* configuration, and the cache that hands it to concurrent readers while  *)
(* leases are committed, configurations are published, and the supervisor  *)
(* takes each configuration to the DHCP runtime at some later moment.      *)
(*                                                                         *)
(* A host label is <<"name", x>>, the form <<"host", a, i>> that is        *)
(* generated for address a (i = 0: without a counter), or Unnamed for one  *)
(* that is missing or malformed. All names are in the one lease domain.    *)
(***************************************************************************)
EXTENDS Integers, Sequences, FiniteSets, FiniteSetsExt

CONSTANTS
  Readers,     \* requests that capture the names
  Settings,    \* per generation: DHCP enabled, reservations, explicit local names
  Rows,        \* per address, what it may be leased with: [mac, label, expiry]
  Addresses,
  MaxViews     \* bound on the committed views

VARIABLES
  generation,  \* the published configuration
  desired,     \* the configuration the supervisor acted on last
  runtime,     \* "none", "started", "served" (the source is its last view) or "closing"
  views,       \* every view the runtimes published so far
  current,     \* the cached publication, NoPublication for none
  lock,        \* the reader that holds the mutex, NoReader for none
  reader       \* per reader: pc, captured snapshot, view read, oldest view allowed, result

vars == <<generation, desired, runtime, views, current, lock, reader>>

Unnamed == <<"name", "">>
NoReader == "none"
NoPublication == [source |-> 0, snapshot |-> 0, leases |-> {}]

\* DHCPSupervisor.View: a runtime that has just started, or is closing, is hidden.
Source == IF runtime = "served" THEN Len(views) ELSE 0

(***************************************************************************)
(* BuildLeases.                                                            *)
(***************************************************************************)
\* A label a device asked for that looks like a generated one.
AddressLabel(l) == l[1] = "host"

\* The label of a row before conflicts: a reservation's comes first.
Wanted(view, s, a) == IF a \in DOMAIN s.reservations THEN s.reservations[a] ELSE view.rows[a].label

\* Labels with explicit data, of their own or through a suffix rewrite.
Conflict(s, l) == l \in s.exists \/ l \in s.rewritten

FallsBack(view, s, a) ==
  LET l == Wanted(view, s, a)
      reserved == a \in DOMAIN s.reservations
  IN \/ l = Unnamed \/ Conflict(s, l)
     \/ /\ ~reserved
        /\ \/ \E b \in DOMAIN view.rows \ {a} : Wanted(view, s, b) = l
           \/ \E b \in DOMAIN s.reservations \ {a} : s.reservations[b] = l
           \/ AddressLabel(l)

\* The first generated label that neither explicit data nor a reservation has.
Fallback(s, a) ==
  LET taken(i) == <<"host", a, i>> \in s.exists \/ \E b \in DOMAIN s.reservations : s.reservations[b] = <<"host", a, i>>
  IN <<"host", a, Min({i \in 0 .. (Cardinality(s.exists) + Cardinality(DOMAIN s.reservations)) : ~taken(i)})>>

Published(view, s, a) == IF FallsBack(view, s, a) THEN Fallback(s, a) ELSE Wanted(view, s, a)

\* forward holds the DNS names; names the display names, where a reservation shows even without a lease.
BuildLeases(view, s) ==
  [generation |-> view.generation,
   labels |-> [a \in DOMAIN view.rows |-> view.rows[a].label],
   forward |-> [a \in DOMAIN view.rows |-> Published(view, s, a)],
   names |-> [a \in DOMAIN view.rows \cup DOMAIN s.reservations |->
     [label |-> IF a \in DOMAIN s.reservations THEN s.reservations[a] ELSE Published(view, s, a),
      mac |-> IF a \in DOMAIN view.rows THEN view.rows[a].mac ELSE "",
      reservation |-> a \in DOMAIN s.reservations]],
   expiries |-> [a \in DOMAIN view.rows |-> view.rows[a].expiry]]

\* RefreshExpiries: nothing when the rows differ in more than their expiry.
RefreshExpiries(v, rows) ==
  IF /\ DOMAIN rows = DOMAIN v.labels
     /\ \A a \in DOMAIN rows : v.labels[a] = rows[a].label /\ v.names[a].mac = rows[a].mac
  THEN {[v EXCEPT !.expiries = [a \in DOMAIN rows |-> rows[a].expiry]]} ELSE {}

(***************************************************************************)
(* The publication and its readers.                                        *)
(***************************************************************************)
RowSets == UNION {{f \in [A -> UNION {Rows[a] : a \in A}] : \A a \in A : f[a] \in Rows[a]} : A \in SUBSET Addresses}

Init ==
  /\ generation = 1 /\ desired = 1 /\ runtime = "served"
  /\ views = <<[generation |-> 1, rows |-> <<>>]>>
  /\ current = NoPublication /\ lock = NoReader
  /\ reader = [r \in Readers |-> [pc |-> "idle", snapshot |-> 0, source |-> 0, oldest |-> 0, result |-> {}]]

\* A runtime publishes a view: of its own generation, or of one it is given.
Show(g, rows) == Len(views) < MaxViews /\ views' = Append(views, [generation |-> g, rows |-> rows])

\* A batch of the lease store is committed, by a hidden runtime too: one address
\* is granted, renewed, renamed or let go. (A batch that leaves every row as it was
\* publishes an equal view, which is refreshed like one with a new expiry.)
Commit(rows) ==
  LET last == views[Len(views)] IN
  /\ runtime # "none" /\ rows # last.rows
  /\ \E a \in Addresses : \A b \in (DOMAIN rows \cup DOMAIN last.rows) \ {a} :
       b \in DOMAIN rows \cap DOMAIN last.rows /\ rows[b] = last.rows[b]
  /\ Show(last.generation, rows)
  /\ UNCHANGED <<generation, desired, runtime, current, lock, reader>>

\* The store publishes a configuration. The runtime is not told.
Publish ==
  /\ generation < Len(Settings)
  /\ generation' = generation + 1
  /\ UNCHANGED <<desired, runtime, views, current, lock, reader>>

\* The supervisor takes up a configuration that is not obsolete, perhaps one
\* that is no longer the newest, perhaps after skipping some.
Reconcile(g) ==
  /\ g \in desired .. generation
  /\ desired' = g
  /\ UNCHANGED <<generation, current, lock, reader>>

\* The running runtime is given the configuration: only now its views have the new generation.
Apply(g) ==
  /\ runtime = "served" /\ Settings[g].enabled /\ g # views[Len(views)].generation
  /\ Reconcile(g)
  /\ Show(g, views[Len(views)].rows)
  /\ UNCHANGED runtime

\* DHCP is off: the names are hidden at once, and the runtime is closed.
Disable(g) ==
  /\ runtime = "served" /\ ~Settings[g].enabled
  /\ Reconcile(g)
  /\ runtime' = "closing"
  /\ UNCHANGED views

FinishClosing ==
  /\ runtime = "closing"
  /\ runtime' = "none"
  /\ UNCHANGED <<generation, desired, views, current, lock, reader>>

\* A runtime is started with the leases that were committed, and shown later.
Start(g) ==
  /\ runtime = "none" /\ Settings[g].enabled
  /\ Reconcile(g)
  /\ Show(g, views[Len(views)].rows)
  /\ runtime' = "started"

PublishApplied ==
  /\ runtime = "started"
  /\ runtime' = "served"
  /\ UNCHANGED <<generation, desired, views, current, lock, reader>>

Become(r, change) == reader' = [reader EXCEPT ![r] = change]

Return(r, leases) == Become(r, [reader[r] EXCEPT !.pc = "done", !.source = 0, !.result = leases])

\* A request has captured a snapshot.
Begin(r) ==
  /\ reader[r].pc \in {"idle", "done"}
  /\ Become(r, [pc |-> "read", snapshot |-> generation, source |-> 0, oldest |-> Len(views), result |-> {}])
  /\ UNCHANGED <<generation, desired, runtime, views, current, lock>>

\* Mistake: any view is taken, also one of another configuration.
UsableAnyway(source, snapshot) == source # 0

\* A view of another configuration than the reader's, older or newer, names nothing.
Usable(source, snapshot) == source # 0 /\ views[source].generation = snapshot

\* The first read of the source, without the lock.
ReadSource(r) ==
  /\ reader[r].pc = "read"
  /\ Become(r, [reader[r] EXCEPT !.pc = "compare", !.source = Source])
  /\ UNCHANGED <<generation, desired, runtime, views, current, lock>>

\* The cache is compared with a source that may be retired by now.
FastPath(r) ==
  LET s == reader[r].snapshot
      hit == current.source = reader[r].source /\ current.snapshot = s
  IN /\ reader[r].pc = "compare"
     /\ IF ~Settings[s].enabled \/ ~Usable(reader[r].source, s)
        THEN current' = NoPublication /\ Return(r, {})
        ELSE /\ UNCHANGED current
             /\ IF hit THEN Return(r, current.leases) ELSE Become(r, [reader[r] EXCEPT !.pc = "lock"])
     /\ UNCHANGED <<generation, desired, runtime, views, lock>>

\* With the lock, the source is read again.
Lock(r) ==
  /\ reader[r].pc = "lock" /\ lock = NoReader
  /\ IF ~Usable(Source, reader[r].snapshot)
     THEN current' = NoPublication /\ Return(r, {}) /\ UNCHANGED lock
     ELSE /\ lock' = r /\ UNCHANGED current
          /\ Become(r, [reader[r] EXCEPT !.pc = "build", !.source = Source])
  /\ UNCHANGED <<generation, desired, runtime, views>>

Build(r) ==
  LET s == reader[r].snapshot
      view == views[reader[r].source]
      cached == current.source # 0 /\ current.snapshot = s
      hit == cached /\ current.source = reader[r].source
      refreshed == IF cached /\ views[current.source].generation = view.generation
                   THEN UNION {RefreshExpiries(l, view.rows) : l \in current.leases} ELSE {}
      leases == IF hit THEN current.leases
                ELSE IF refreshed # {} THEN refreshed ELSE {BuildLeases(view, Settings[s])}
  IN /\ reader[r].pc = "build"
     /\ current' = [source |-> reader[r].source, snapshot |-> s, leases |-> leases]
     /\ Return(r, leases)
     /\ lock' = NoReader
     /\ UNCHANGED <<generation, desired, runtime, views>>

Next ==
  \/ \E rows \in RowSets : Commit(rows)
  \/ Publish \/ FinishClosing \/ PublishApplied
  \/ \E g \in DOMAIN Settings : Apply(g) \/ Disable(g) \/ Start(g)
  \/ \E r \in Readers : Begin(r) \/ ReadSource(r) \/ FastPath(r) \/ Lock(r) \/ Build(r)

Spec == Init /\ [][Next]_vars

(***************************************************************************)
(* What must hold.                                                         *)
(***************************************************************************)
\* What a reader got is what a view of its own generation, no older than the last one at its start, says.
CapturedExactly(r) ==
  reader[r].pc = "done" => \A l \in reader[r].result :
    \E i \in reader[r].oldest .. Len(views) :
      /\ views[i].generation = reader[r].snapshot
      /\ l = BuildLeases(views[i], Settings[reader[r].snapshot])

\* Two addresses never share a DNS name, and no lease takes the name of explicit data or of a reservation.
NamesDistinct(l, s) ==
  \A a \in DOMAIN l.forward :
    /\ l.forward[a] \notin s.exists
    /\ \A b \in DOMAIN l.forward \ {a} : l.forward[a] # l.forward[b]
    /\ \A b \in DOMAIN s.reservations \ {a} : l.forward[a] # s.reservations[b]

(***************************************************************************)
(* Names handed to a reader belong to its configuration and to a view of   *)
(* it that was the last one when the reader began or came later, also when *)
(* they were refreshed from an older publication, and also while a runtime *)
(* serves an older or a newer configuration than the reader's; and they    *)
(* tell addresses apart (capture, BuildLeases, RefreshExpiries).           *)
(***************************************************************************)
CapturedNames ==
  \A r \in Readers :
    /\ CapturedExactly(r)
    /\ \A l \in reader[r].result : NamesDistinct(l, Settings[reader[r].snapshot])
=============================================================================
