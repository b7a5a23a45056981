----------------------------- MODULE Resolution -----------------------------
(***************************************************************************)
(* A question on its way to an answer (Pipeline), and what stands behind   *)
(* it: the cache (DnsCache), the names of the leases (LeaseNames), and the *)
(* clients (Routes) and connections (Connections) of the upstreams. They   *)
(* share no state that their properties look at.                           *)
(***************************************************************************)
EXTENDS DnsCache, Sequences

(******************************* the questions *****************************)

CONSTANTS Names, Hash, Devices, Questions, Config, Replies, Private, MaxLinks, MaxAsked

VARIABLES generation, request, cache, flights, asked, count
questions == <<generation, request, cache, flights, asked, count>>

PL == INSTANCE Pipeline

(*************************** the names of the leases ***********************)

CONSTANTS Readers, Settings, Rows, Addresses, MaxViews

\* A configuration names finitely many labels, and no two reservations share
\* one: a document with a duplicate is refused (dhcp/settings.go).
ASSUME LeaseNamesAssumption ==
  /\ Len(Settings) \in Nat \ {0} /\ DOMAIN Settings = 1 .. Len(Settings)
  /\ \A g \in DOMAIN Settings : LET s == Settings[g] IN
       /\ IsFiniteSet(s.exists) /\ IsFiniteSet(DOMAIN s.reservations)
       /\ \A a, b \in DOMAIN s.reservations : s.reservations[a] = s.reservations[b] => a = b

VARIABLES snapshotNumber, desired, runtime, views, current, lock, reader
leases == <<snapshotNumber, desired, runtime, views, current, lock, reader>>

LN == INSTANCE LeaseNames WITH generation <- snapshotNumber

(******************************* the upstreams *****************************)

CONSTANTS Exchanges, Snapshots, MaxRoutes, MaxClients, NoClient, MaxSockets, MaxPuts

VARIABLES snapshot, routes, client, shown, shownBy, routesClosed, exchange
upstreams == <<snapshot, routes, client, shown, shownBy, routesClosed, exchange>>

RT == INSTANCE Routes WITH
        None <- NoClient, current <- shown, generation <- shownBy, closed <- routesClosed

\* A lifetime is a context of one configuration and those that keep it: once
\* it is cancelled no later configuration has it.
ASSUME RoutesAssumption ==
  /\ Len(Snapshots) \in Nat \ {0} /\ DOMAIN Snapshots = 1 .. Len(Snapshots)
  /\ MaxRoutes \in Nat /\ NoClient \notin Nat
  /\ \A f, g, h \in DOMAIN Snapshots :
       f < g /\ g < h => RT!LifetimesOf(f) \cap RT!LifetimesOf(h) \subseteq RT!LifetimesOf(g)

VARIABLES open, sockets, idle, timers, puts, all, http, closed, closing, lease
connections == <<open, sockets, idle, timers, puts, all, http, closed, closing, lease>>

CN == INSTANCE Connections WITH used <- sockets

\* See LeaseNames: names handed to a reader are those of its configuration and of a view no older than its start.
CapturedNames == LN!CapturedNames

\* See Routes and Connections: no client and no connection of an upstream is
\* lost, found dead, or left open by its last owner.
TransportsAccounted == RT!RoutesAccounted /\ CN!SocketsAccounted
=============================================================================
