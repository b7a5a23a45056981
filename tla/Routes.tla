------------------------------- MODULE Routes -------------------------------
(***************************************************************************)
(* The transports of the routes (resolve/upstreams.go; config/snapshot.go  *)
(* RouteContext and the lifetimes of config/store.go): an exchange finds   *)
(* or creates the client of its route, and a client ends with the lifetime *)
(* of its route: by a callback, by the pruning of another exchange, or by  *)
(* Close. A lifetime that has ended never comes back.                      *)
(***************************************************************************)
EXTENDS Naturals, Sequences, FiniteSets, Functions

CONSTANTS
  Exchanges,   \* concurrent exchanges
  Snapshots,   \* per generation, the lifetime of each of its routes
  MaxRoutes,   \* clients at a time
  MaxClients,  \* bound: clients created in a behaviour
  None         \* no client

VARIABLES
  snapshot,    \* the published generation
  routes,      \* lifetime -> client
  client,      \* clients so far: lifetime, open, and the state of its callback
  current,     \* the client whose health is shown
  generation,  \* of the exchange that set it
  closed,
  exchange     \* per exchange: step, generation, route, client

vars == <<snapshot, routes, client, current, generation, closed, exchange>>

Idle == [pc |-> "idle", generation |-> 0, route |-> "default", client |-> None]

LifetimesOf(g) == {Snapshots[g][r] : r \in DOMAIN Snapshots[g]}

\* Lifetimes of the routes that are gone.
Ended == (UNION {LifetimesOf(g) : g \in 1..snapshot}) \ LifetimesOf(snapshot)

Lifetime(e) == Snapshots[e.generation][e.route]

Init ==
  /\ snapshot = 1 /\ routes = <<>> /\ client = <<>> /\ current = None /\ generation = 0 /\ closed = FALSE
  /\ exchange = [x \in Exchanges |-> Idle]

\* A new generation. The callbacks of routes that it drops start, and wait for the lock.
Publish ==
  /\ snapshot < Len(Snapshots)
  /\ snapshot' = snapshot + 1
  /\ client' = [c \in DOMAIN client |->
                  IF client[c].callback = "armed" /\ client[c].lifetime \notin LifetimesOf(snapshot + 1)
                  THEN [client[c] EXCEPT !.callback = "started"] ELSE client[c]]
  /\ UNCHANGED <<routes, current, generation, closed, exchange>>

\* A request captures a generation and its route; both checks of its lifetime come later.
Capture(x, r) ==
  /\ exchange[x] = Idle
  /\ exchange' = [exchange EXCEPT ![x] = [pc |-> "captured", generation |-> snapshot, route |-> r, client |-> None]]
  /\ UNCHANGED <<snapshot, routes, client, current, generation, closed>>

Check(x) ==
  /\ exchange[x].pc = "captured"
  /\ exchange' = [exchange EXCEPT ![x] = IF Lifetime(@) \in Ended THEN Idle ELSE [@ EXCEPT !.pc = "checked"]]
  /\ UNCHANGED <<snapshot, routes, client, current, generation, closed>>

Shut(cs) == [c \in DOMAIN client |->
               IF c \in cs THEN [client[c] EXCEPT !.open = FALSE, !.callback = IF @ = "armed" THEN "stopped" ELSE @]
               ELSE client[c]]

Dead == {routes[l] : l \in DOMAIN routes \cap Ended}

\* The client shown, once the dead ones are pruned.
PrunedCurrent == IF current \in Dead THEN None ELSE current

\* The newest generation decides which client is shown.
Show(x, c) ==
  IF exchange[x].route = "default" /\ exchange[x].generation >= generation
  THEN [current |-> c, generation |-> exchange[x].generation]
  ELSE [current |-> PrunedCurrent, generation |-> generation]

Using(x, c) == exchange' = [exchange EXCEPT ![x] = [@ EXCEPT !.pc = "using", !.client = c]]

Refuse(x) == exchange' = [exchange EXCEPT ![x] = Idle]

\* An existing client is used without further checks.
Reuse(x) ==
  LET l == Lifetime(exchange[x]) IN
  /\ exchange[x].pc = "checked" /\ ~closed /\ l \in DOMAIN routes
  /\ Using(x, routes[l])
  /\ IF exchange[x].route = "default" /\ exchange[x].generation >= generation
     THEN current' = routes[l] /\ generation' = exchange[x].generation
     ELSE UNCHANGED <<current, generation>>
  /\ UNCHANGED <<snapshot, routes, client, closed>>

\* Otherwise dead clients are pruned first: their callbacks may be waiting for the lock.
\* There may be no room for a client, no options for its route, or none can be made.
Create(x) ==
  LET l == Lifetime(exchange[x])
      c == Len(client) + 1
      kept == Restrict(routes, DOMAIN routes \ Ended)
  IN /\ exchange[x].pc = "checked" /\ ~closed /\ l \notin DOMAIN routes
     /\ Len(client) < MaxClients
     /\ \E fails \in BOOLEAN :
        IF fails \/ l \in Ended \/ Cardinality(DOMAIN kept) >= MaxRoutes
        THEN /\ routes' = kept /\ client' = Shut(Dead) /\ current' = PrunedCurrent
             /\ Refuse(x) /\ UNCHANGED generation
        ELSE /\ routes' = [k \in DOMAIN kept \cup {l} |-> IF k = l THEN c ELSE kept[k]]
             /\ client' = Append(Shut(Dead), [lifetime |-> l, open |-> TRUE, callback |-> "armed"])
             /\ current' = Show(x, c).current /\ generation' = Show(x, c).generation
             /\ Using(x, c)
     /\ UNCHANGED <<snapshot, closed>>

RefuseClosed(x) ==
  /\ exchange[x].pc = "checked" /\ closed
  /\ Refuse(x)
  /\ UNCHANGED <<snapshot, routes, client, current, generation, closed>>

\* The exchange ends, with an error where its client was closed meanwhile.
Finish(x) ==
  /\ exchange[x].pc = "using"
  /\ exchange' = [exchange EXCEPT ![x] = Idle]
  /\ UNCHANGED <<snapshot, routes, client, current, generation, closed>>

\* The callback at the end of a lifetime.
Callback(c) ==
  /\ client[c].callback = "started"
  /\ client' = [client EXCEPT ![c] = [@ EXCEPT !.open = FALSE, !.callback = "ran"]]
  /\ routes' = Restrict(routes, DOMAIN routes \ {client[c].lifetime})
  /\ current' = IF current = c THEN None ELSE current
  /\ UNCHANGED <<snapshot, generation, closed, exchange>>

Close ==
  /\ ~closed
  /\ closed' = TRUE
  /\ client' = Shut(Range(routes))
  /\ routes' = <<>> /\ current' = None
  /\ UNCHANGED <<snapshot, generation, exchange>>

Next ==
  \/ Publish \/ Close
  \/ \E x \in Exchanges : \/ \E r \in DOMAIN Snapshots[snapshot] : Capture(x, r)
                          \/ Check(x) \/ Reuse(x) \/ Create(x) \/ RefuseClosed(x) \/ Finish(x)
  \/ \E c \in DOMAIN client : Callback(c)

Spec == Init /\ [][Next]_vars

\* No client is lost and no dead one is found: a client that is open is the
\* one of its lifetime, and when that has ended its callback is on the way;
\* an exchange finds, and the health page shows, only clients that are open;
\* and there are never more than the limit.
RoutesAccounted ==
  /\ \A c \in DOMAIN client :
       client[c].open => /\ ~closed
                         /\ client[c].lifetime \in DOMAIN routes /\ routes[client[c].lifetime] = c
                         /\ client[c].lifetime \in Ended => client[c].callback = "started"
  /\ \A l \in DOMAIN routes : client[routes[l]].open
  /\ current # None => client[current].open
  /\ Cardinality({c \in DOMAIN client : client[c].open}) <= MaxRoutes
=============================================================================
