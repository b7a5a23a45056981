----------------------------- MODULE ClientNames -----------------------------
(***************************************************************************)
(* Names of devices (clients/names.go, persistence.go, sources.go,         *)
(* enrichment.go, mdns.go, mdns_graph.go, mdns_records.go; the checkpoints *)
(* of app/client_names.go and storage/client_names.go): the worker that    *)
(* resolves addresses, the multicast loop that listens to advertisements,  *)
(* the remembered names, and their copies in the database across restarts. *)
(*                                                                         *)
(* A view is one published configuration; views of one scope discover with *)
(* the same settings. An advertisement of an address stands for the        *)
(* verified chain of records behind it; its label has a rank, and category,*)
(* model and manufacturer are one detail. DNS guesses and icons only       *)
(* decorate a name and are left out.                                       *)
(***************************************************************************)
EXTENDS Naturals, Sequences, FiniteSets, FiniteSetsExt

CONSTANTS
  Plans,       \* what is published and advertised, and the room in the worker's queue
  Addresses,
  Answers,     \* names the hosts file or the router gives
  HostRank,    \* rank of a useful host name
  Life,        \* lifetime of an advertisement, and of finding nothing
  NameLife,    \* lifetime of a resolved name
  Retention,   \* how long a multicast name is remembered after it was confirmed
  Limit,       \* names in a cache
  MaxTime,     \* bound on the clock
  MaxBoots     \* bound on restarts

VARIABLES
  plan,        \* the views and advertisements of this behaviour
  clock,
  view,        \* number of the current view
  pending,     \* jobs queued or under way
  work,        \* the job the worker has taken, with what it found
  cache,       \* resolved names, each with the view it was found for
  mdnsNames,   \* multicast names
  loop,        \* the view the multicast loop works for, 0 before the first
  records,     \* advertisements the loop holds
  restored,    \* the saved names have been read in this process
  saved,       \* the names in the database, and their scope
  heard,       \* ghost: until when an advertisement was last live, by scope and address
  boots

vars == <<plan, clock, view, pending, work, cache, mdnsNames, loop, records, restored, saved, heard, boots>>

\* A view: scope, mdns, overrides, local, leases, resolves.
Views == plan.views

\* An advertisement: host, label, rank of the label, detail.
Adverts == plan.adverts

Unknown == [name |-> "", kind |-> "unknown", updated |-> 0, expires |-> 0, host |-> "", detail |-> "",
            evidence |-> {}, fresh |-> FALSE, scope |-> ""]

Compatible(v, w) == v # 0 /\ w # 0 /\ Views[v].scope = Views[w].scope

Put(f, a, e) == [x \in DOMAIN f \cup {a} |-> IF x = a THEN e ELSE f[x]]
Drop(f, S) == [x \in DOMAIN f \ S |-> f[x]]

(***************************************************************************)
(* enrichment.go.                                                          *)
(***************************************************************************)
\* retainDiscovered.
Retain(n, now) == n.name # "" /\ now < n.updated + Retention

\* enrichDiscovered: host, label and detail are chosen again from what is still live.
Enriched(n, now) ==
  LET E == {e \in n.evidence : now < e.expires}
      hosts == {e.host : e \in E}
      host == IF n.host \in hosts THEN n.host ELSE CHOOSE h \in hosts : TRUE
      best == CHOOSE e \in E : \A f \in E : e.rank >= f.rank
      details == {e.detail : e \in E} \ {""}
  IN IF ~(now < n.expires) THEN Unknown
     ELSE [n EXCEPT !.evidence = E, !.host = host, !.fresh = TRUE,
                    !.name = IF best.rank > HostRank THEN best.label ELSE host,
                    !.detail = IF details = {} THEN "" ELSE CHOOSE d \in details : TRUE]

\* preferDiscovered: an identity stays when its records vanish, not when another is confirmed.
SameHost(p, l) == p.host # "" /\ p.host = l.host

Reselected(p, l) == l.updated <= p.updated /\ (p.name # l.name \/ p.detail # l.detail)

Weaker(p, l) ==
  /\ l.name \in {p.name, l.host}
  /\ l.detail = "" \/ p.detail = "" \/ l.detail = p.detail
  /\ p.name # l.name \/ (p.detail # "" /\ l.detail = "")

Missing(p, l) == l.name = "" \/ (SameHost(p, l) /\ (Reselected(p, l) \/ Weaker(p, l)))

\* Mistake: a weaker renewal confirms the whole identity.
PreferRenewing(p, l, now) ==
  IF Retain(p, now) /\ Missing(p, l)
  THEN [p EXCEPT !.fresh = FALSE, !.updated = IF l.name = "" THEN @ ELSE l.updated] ELSE l

Prefer(p, l, now) == IF Retain(p, now) /\ Missing(p, l) THEN [p EXCEPT !.fresh = FALSE] ELSE l

\* mergeDiscovered: a multicast name where there is none, or only an old derived one.
Merge(primary, m, now) ==
  LET live == IF m.evidence # {} THEN Enriched(m, now) ELSE m
      best == Prefer(m, IF now < live.expires THEN live ELSE Unknown, now)
  IN IF best.name # "" /\ (primary.name = "" \/ (primary.kind = "resolved" /\ ~primary.fresh /\ best.fresh))
     THEN best ELSE primary

(***************************************************************************)
(* Get.                                                                    *)
(***************************************************************************)
Configured(c, name, kind) == [Unknown EXCEPT !.name = name, !.kind = kind, !.fresh = TRUE, !.scope = c.scope]

Lookup(a) ==
  LET c == Views[view] IN
  IF a \in DOMAIN c.overrides THEN Configured(c, c.overrides[a], "override")
  ELSE IF a \in DOMAIN c.local THEN Configured(c, c.local[a], "local")
  ELSE IF a \in DOMAIN cache /\ Compatible(cache[a].view, view)
  THEN [cache[a].name EXCEPT !.fresh = clock < cache[a].name.expires] ELSE Unknown

\* A lease that is live; a generated or generic label is only a last resort.
Lease(a) ==
  LET L == {l \in Views[view].leases : l.address = a /\ clock < l.expires} IN
  IF L = {} THEN [name |-> "", generic |-> TRUE] ELSE CHOOSE l \in L : TRUE

Remembered(a) ==
  IF a \in DOMAIN mdnsNames /\ Compatible(mdnsNames[a].view, view) THEN mdnsNames[a].name ELSE Unknown

Get(a) ==
  LET n == Lookup(a)
      leased == n.kind \notin {"override", "local"} /\ Lease(a).name # ""
      primary == IF leased /\ ~Lease(a).generic THEN Configured(Views[view], Lease(a).name, "lease") ELSE n
      merged == Merge(primary, Remembered(a), clock)
  IN IF merged.name = "" /\ leased THEN Configured(Views[view], Lease(a).name, "lease") ELSE merged

(***************************************************************************)
(* The worker.                                                             *)
(***************************************************************************)
NoWork == [job |-> <<0, 0>>, name |-> Unknown]

\* Observe, also from Get. A full queue drops the address.
Observe(a) ==
  /\ ~Lookup(a).fresh
  /\ <<view, a>> \notin pending /\ Cardinality(pending) < plan.queue
  /\ pending' = pending \cup {<<view, a>>}
  /\ UNCHANGED <<plan, clock, view, work, cache, mdnsNames, loop, records, restored, saved, heard, boots>>

\* discover: a name, or none; either is known for a while.
Found(v) ==
  {[Unknown EXCEPT !.name = x, !.kind = IF Views[v].resolves THEN "resolved" ELSE "unknown", !.updated = clock,
                   !.expires = clock + IF x = "" THEN Life ELSE NameLife, !.scope = Views[v].scope]
     : x \in {""} \cup (IF Views[v].resolves THEN Answers ELSE {})}

\* Run takes a job; one of an older view is dropped.
Take(j) ==
  /\ work = NoWork /\ j \in pending
  /\ IF j[1] # view THEN pending' = pending \ {j} /\ UNCHANGED work
     ELSE UNCHANGED pending /\ \E n \in Found(j[1]) : work' = [job |-> j, name |-> n]
  /\ UNCHANGED <<plan, clock, view, cache, mdnsNames, loop, records, restored, saved, heard, boots>>

\* A full cache loses some name; the result counts if its view is still current.
Store ==
  LET j == work.job IN
  /\ work # NoWork
  /\ \E E \in IF Cardinality(DOMAIN cache) >= Limit THEN {{x} : x \in DOMAIN cache} ELSE {{}} :
       cache' = IF j[1] = view THEN Put(Drop(cache, E), j[2], [view |-> j[1], name |-> work.name])
                ELSE Drop(cache, E)
  /\ pending' = pending \ {j}
  /\ work' = NoWork
  /\ UNCHANGED <<plan, clock, view, mdnsNames, loop, records, restored, saved, heard, boots>>

(***************************************************************************)
(* The multicast loop.                                                     *)
(***************************************************************************)
\* A new view: its loop starts without records; names of its scope stay.
Switch ==
  /\ loop # view
  /\ loop' = view
  /\ records' = [a \in Addresses |-> {}]
  /\ mdnsNames' = [a \in {x \in DOMAIN mdnsNames : /\ Views[view].mdns /\ Compatible(mdnsNames[x].view, view)
                                                  /\ Retain(mdnsNames[x].name, clock)}
                     |-> [mdnsNames[a] EXCEPT !.view = view]]
  /\ UNCHANGED <<plan, clock, view, pending, work, cache, restored, saved, heard, boots>>

Listening == loop # 0 /\ Views[loop].mdns

\* ingest: the advertisement, known until its records expire. A goodbye only shortens their life.
Ingest(a, d) ==
  LET e == [host |-> d.host, label |-> d.label, rank |-> d.rank, detail |-> d.detail,
            learned |-> clock, expires |-> clock + Life]
      same(x) == x.label = d.label /\ x.host = d.host
  IN /\ Listening
     /\ records' = [records EXCEPT ![a] = {x \in @ : clock < x.expires /\ ~same(x)} \cup {e}]
     /\ heard' = {x \in heard : x[1] # Views[loop].scope \/ x[2] # a \/ x[3] # d}
                 \cup {<<Views[loop].scope, a, d, clock + Life>>}
     /\ UNCHANGED <<plan, clock, view, pending, work, cache, mdnsNames, loop, restored, saved, boots>>

\* lookup, spotify's evidence included, then enrichDiscovered.
Live(a) ==
  LET E == {e \in records[a] : clock < e.expires} IN
  IF E = {} THEN Unknown
  ELSE Enriched([Unknown EXCEPT !.kind = "multicast", !.scope = Views[loop].scope, !.evidence = E,
                                !.updated = Max({e.learned : e \in E}), !.expires = Max({e.expires : e \in E})], clock)

\* The periodic publication, for the addresses asked about lately.
PublishNames(observed) ==
  LET live(a) == IF a \in observed THEN Live(a) ELSE Unknown
      old(a) == a \in DOMAIN mdnsNames /\ Compatible(mdnsNames[a].view, loop)
      new(a) == IF old(a) THEN Prefer(mdnsNames[a].name, live(a), clock) ELSE live(a)
  IN /\ Listening /\ loop = view
     /\ mdnsNames' = [a \in {x \in Addresses : new(x).name # ""} |-> [view |-> loop, name |-> new(a)]]
     /\ UNCHANGED <<plan, clock, view, pending, work, cache, loop, records, restored, saved, heard, boots>>

(***************************************************************************)
(* Checkpoints.                                                            *)
(***************************************************************************)
Persistable(n, now) ==
  /\ n.name # ""
  /\ \/ n.kind = "multicast" /\ Retain(n, now)
     \/ n.kind = "resolved" /\ now < n.expires

\* Mistake: a late recovery replaces what was discovered meanwhile.
NewerAlways(names, a, n) == TRUE

\* What is already known for this scope, and not older, stays.
Newer(names, a, n) ==
  a \in DOMAIN names /\ Compatible(names[a].view, view) => n.updated > names[a].name.updated

\* RestoreNames for one of the caches; where there is no room the first rows win.
Rehydrated(names, kind, rows) ==
  LET R == {r \in rows : /\ r[2].kind = kind /\ Persistable(r[2], clock)
                         /\ kind = "multicast" => Views[view].mdns
                         /\ Newer(names, r[1], r[2])}
      new == {r[1] : r \in R} \ DOMAIN names
      room == IF Cardinality(DOMAIN names) < Limit THEN Limit - Cardinality(DOMAIN names) ELSE 0
      added == IF Cardinality(new) <= room THEN new ELSE CHOOSE S \in SUBSET new : Cardinality(S) = room
  IN [a \in DOMAIN names \cup added |->
        IF \E r \in R : r[1] = a THEN [view |-> view, name |-> (CHOOSE r \in R : r[1] = a)[2]] ELSE names[a]]

Restore(resolved, multicast) ==
  LET rows == IF saved.scope = Views[view].scope THEN saved.rows ELSE {} IN
  [cache |-> Rehydrated(resolved, "resolved", rows), names |-> Rehydrated(multicast, "multicast", rows)]

\* NameSnapshot: what was discovered for the scope of the current view.
Snapshot(resolved, multicast) ==
  [scope |-> Views[view].scope,
   rows |-> UNION {{<<a, f[a].name>> : a \in {x \in DOMAIN f : Compatible(f[x].view, view) /\ Persistable(f[x].name, clock)}}
                     : f \in {resolved, multicast}}]

\* save: first what is in the database is read; when that fails it is left alone.
Save ==
  LET r == IF restored THEN [cache |-> cache, names |-> mdnsNames] ELSE Restore(cache, mdnsNames) IN
  /\ cache' = r.cache /\ mdnsNames' = r.names /\ restored' = TRUE
  /\ saved' \in {Snapshot(r.cache, r.names), saved}
  /\ UNCHANGED <<plan, clock, view, pending, work, loop, records, heard, boots>>

\* The process ends and starts again; reading the database may fail.
Restart ==
  /\ boots < MaxBoots
  /\ boots' = boots + 1
  /\ pending' = {} /\ work' = NoWork /\ loop' = 0 /\ records' = [a \in Addresses |-> {}]
  /\ \E ok \in BOOLEAN :
       /\ restored' = ok
       /\ cache' = IF ok THEN Restore(<<>>, <<>>).cache ELSE <<>>
       /\ mdnsNames' = IF ok THEN Restore(<<>>, <<>>).names ELSE <<>>
  /\ UNCHANGED <<plan, clock, view, saved, heard>>

Publish == view < Len(Views) /\ view' = view + 1
           /\ UNCHANGED <<plan, clock, pending, work, cache, mdnsNames, loop, records, restored, saved, heard, boots>>

\* Time passes; records expire.
Tick ==
  /\ clock < MaxTime
  /\ clock' = clock + 1
  /\ records' = [a \in Addresses |-> {e \in records[a] : clock + 1 < e.expires}]
  /\ heard' = {x \in heard : clock + 1 < x[4] + Retention}
  /\ UNCHANGED <<plan, view, pending, work, cache, mdnsNames, loop, restored, saved, boots>>

Init ==
  /\ plan \in Plans
  /\ clock = 0 /\ view = 1 /\ boots = 0
  /\ pending = {} /\ work = NoWork /\ cache = <<>> /\ mdnsNames = <<>>
  /\ loop = 0 /\ records = [a \in Addresses |-> {}]
  /\ restored = TRUE /\ saved = [scope |-> "", rows |-> {}] /\ heard = {}

Next ==
  \/ \E a \in Addresses : Observe(a)
  \/ \E j \in pending : Take(j)
  \/ \E a \in Addresses, d \in Adverts : Ingest(a, d)
  \/ \E observed \in SUBSET Addresses : PublishNames(observed)
  \/ Store \/ Switch \/ Save \/ Restart \/ Publish \/ Tick

Spec == Init /\ [][Next]_vars

(***************************************************************************)
(* What must hold.                                                         *)
(***************************************************************************)
\* A device is shown under the name its owner gave it. Otherwise a name
\* that was discovered was discovered with the settings in force, also when
\* it comes from the database; and a multicast name is forgotten in time: it
\* was advertised less than the retention ago, however often weaker records
\* of the host were renewed, the process restarted or the name was read.
ShownIsKnown ==
  \A a \in Addresses :
    LET c == Views[view]
        n == Get(a)
    IN /\ a \in DOMAIN c.overrides => n.name = c.overrides[a]
       /\ n.kind \in {"resolved", "multicast"} => n.scope = c.scope
       /\ n.kind = "multicast" =>
            \E x \in heard : x[1] = c.scope /\ x[2] = a /\ n.name \in {x[3].label, x[3].host}
                             /\ clock < x[4] + Retention

\* Within a scope what is known about an address never gets older: a
\* discovery that was overtaken and a late recovery from the database do
\* not replace a newer result.
NeverOlder ==
  [][\A a \in DOMAIN cache \cap DOMAIN cache' :
       boots' = boots /\ Compatible(cache[a].view, cache'[a].view) => cache'[a].name.updated >= cache[a].name.updated]_vars
==============================================================================
