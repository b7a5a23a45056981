------------------------------ MODULE Pipeline ------------------------------
(***************************************************************************)
(* The way of a question through the resolver (resolve/pipeline.go,        *)
(* local.go, cache.go; policy/response.go; localdns/zones.go): one         *)
(* captured configuration, local data, private reverse names, the policy   *)
(* of the device, the shared cache, shared or direct exchanges, and the    *)
(* inspection of aliases in what comes back.                               *)
(*                                                                         *)
(* A configuration holds, per device, the effective policy with and        *)
(* without a lease that vouches for its hardware address (see              *)
(* ClientPolicy). An answer is its alias records in order and its code;    *)
(* other records do not matter to any decision. Shared exchanges and their *)
(* limits are in Flights, retries in Upstream.                             *)
(***************************************************************************)
EXTENDS Policy

CONSTANTS
  Devices,
  Questions,   \* per device, what it may ask: [name, type, recursive, cacheable]
  Config,      \* per generation: local data, policies, upstream of each route
  Replies,     \* what an upstream may reply to a question about a name
  Private,     \* private reverse names
  MaxLinks,    \* aliases followed in one answer
  MaxAsked     \* bound on the questions of a device

VARIABLES
  generation,  \* the published configuration
  request,     \* per device, its question and how far it is
  cache,       \* answers by key: response, upstream it came from, fresh or not
  flights,     \* keys with a shared exchange under way, each with the configuration of its leader
  asked,       \* names sent to an upstream
  count        \* questions so far, per device

vars == <<generation, request, cache, flights, asked, count>>

NoRequest == [pc |-> "idle", name |-> <<>>, type |-> "A", recursive |-> TRUE, cacheable |-> TRUE, generation |-> 0,
              leases |-> FALSE, vouched |-> FALSE, target |-> <<>>, reply |-> {}, kind |-> "none"]

(***************************************************************************)
(* Local data (localdns/zones.go). Records of a name are its types, or one *)
(* CNAME; suffix records answer for the names below.                       *)
(***************************************************************************)
LookupLocal(c, n) ==
  LET up == {x \in Ancestors(n) \ {n} : x \in DOMAIN c.records /\ c.records[x].match = "suffix"}
  IN IF n \in DOMAIN c.records THEN {c.records[n]}
     ELSE IF up = {} THEN {} ELSE {c.records[CHOOSE x \in up : \A y \in up : Len(x) >= Len(y)]}

Zone(c, n) == Ancestors(n) \cap c.zones # {}

\* The lease domain, and names with a live lease; only with a captured view.
LeaseOwns(c, v, n) == v /\ Ancestors(n) \cap c.domain # {}
LeaseHas(c, v, n) == v /\ n \in c.leased

\* A chain of local CNAMEs, which Build keeps short and without cycles.
LocalLinks(c, n) ==
  LET step(s) == IF \E r \in LookupLocal(c, s.at) : r.cname # <<>>
                 THEN LET to == (CHOOSE r \in LookupLocal(c, s.at) : TRUE).cname
                      IN [at |-> to, links |-> Append(s.links, [type |-> "cname", owner |-> s.at, target |-> to])]
                 ELSE s
  IN FoldLeft(LAMBDA s, i : step(s), [at |-> n, links |-> <<>>], [i \in 1..MaxLinks |-> i]).links

LocalEnd(c, n) == LET L == LocalLinks(c, n) IN IF L = <<>> THEN n ELSE Last(L).target

\* AnswerWithLeases: explicit data, owned zones, then leases.
Handled(c, v, n) == LookupLocal(c, n) # {} \/ Zone(c, n) \/ LeaseOwns(c, v, n) \/ LeaseHas(c, v, n)

\* ContinuationWithLeases: the target outside of all local data, nothing when there is none.
Continuation(c, v, n, type) ==
  LET end == LocalEnd(c, n) IN
  IF type # "CNAME" /\ end # n /\ ~Handled(c, v, end) THEN {end} ELSE {}

(***************************************************************************)
(* InspectResponse: the chain of aliases from the question.                *)
(***************************************************************************)
Scan(links, at, type) ==
  LET first == [direct |-> {}, dname |-> {}, depth |-> -1, ok |-> TRUE]
      relevant(l) == l.owner = at /\ (l.type = "cname" \/ (l.type = "alias" /\ type = "HTTPS"))
      synth(l) == SubSeq(at, 1, Len(at) - Len(l.owner)) \o l.target
      add(s, l) ==
        IF relevant(l) THEN [s EXCEPT !.ok = @ /\ s.direct \subseteq {l.target}, !.direct = {l.target}]
        ELSE IF l.type = "dname" /\ l.owner \in Ancestors(at) \ {at} /\ Len(l.owner) > s.depth
        THEN [s EXCEPT !.dname = {synth(l)}, !.depth = Len(l.owner)]
        ELSE IF l.type = "dname" /\ l.owner \in Ancestors(at) \ {at} /\ Len(l.owner) = s.depth
        THEN [s EXCEPT !.ok = @ /\ s.dname = {synth(l)}]
        ELSE s
      scanned[i \in 0..Len(links)] == IF i = 0 THEN first ELSE add(scanned[i - 1], links[i])
  IN scanned[Len(links)]

\* One link more, or the end of the chain.
Follow(view, m, q, type, paused, s) ==
  LET f == Scan(m.links, s.at, type)
      next == IF f.dname # {} THEN f.dname ELSE f.direct
      to == CHOOSE x \in next : TRUE
      blocks == \E x \in next : Evaluate(view, q, x, paused).result = "block"
  IN IF s.end \/ ~s.ok THEN s
     ELSE IF ~f.ok \/ (f.dname # {} /\ f.direct \notin {{}, f.dname}) THEN [s EXCEPT !.ok = FALSE]
     ELSE IF next = {} THEN [s EXCEPT !.end = TRUE]
     ELSE IF Len(s.seen) > MaxLinks \/ to \in ToSet(s.seen) THEN [s EXCEPT !.ok = FALSE]
     ELSE [s EXCEPT !.at = to, !.seen = Append(@, to), !.blocked = @ \/ blocks]

InspectResponse(view, m, q, type, paused) ==
  LET chain[i \in 0..(MaxLinks + 2)] ==
        IF i = 0 THEN [at |-> q, seen |-> <<q>>, ok |-> TRUE, end |-> FALSE, blocked |-> FALSE]
        ELSE Follow(view, m, q, type, paused, chain[i - 1])
  IN chain[MaxLinks + 2]

(***************************************************************************)
(* Resolve.                                                                *)
(***************************************************************************)
Captured(r) == Config[r.generation]

\* Select: the policy of the device in the captured configuration.
Effective(d, r) == Captured(r).clients[d][r.vouched]

\* The views of the devices are built with the configuration (see View in Policy).
Views ==
  [g \in DOMAIN Config |-> [d \in Devices |-> [v \in BOOLEAN |->
     LET p == Config[g].clients[d][v] IN View(p.own, p.base, p.sel)]]]

ViewOf(d, r) == Views[r.generation][d][r.vouched]

\* Routes are numbered anew in every generation.
CacheKey(d, r) == [route |-> Effective(d, r).route, generation |-> r.generation, name |-> r.name, type |-> r.type]

Become(d, change) == request' = [request EXCEPT ![d] = change]

\* Only what an upstream's answer was for is remembered.
Done(d, r, kind, reply) ==
  Become(d, [(IF reply = {} THEN NoRequest ELSE r) EXCEPT !.pc = "done", !.kind = kind, !.reply = reply])

\* A question with the configuration and the leases it captures; only they can vouch for the device.
Capture(q, l) ==
  [NoRequest EXCEPT !.name = q.name, !.type = q.type, !.recursive = q.recursive, !.cacheable = q.cacheable,
                    !.generation = generation, !.leases = l # "none", !.vouched = l = "own"]

Captures(d) == {Capture(q, l) : q \in Questions[d], l \in {"none", "others", "own"}}

MayAsk(d) == request[d].pc \in {"idle", "done"} /\ count[d] < MaxAsked

Asks(d) == MayAsk(d) /\ count' = [count EXCEPT ![d] = @ + 1]

LocalAnswers(r) == Handled(Captured(r), r.leases, r.name)

AnswerLocal(d, r) ==
  /\ Asks(d) /\ LocalAnswers(r)
  /\ r.recursive => Continuation(Captured(r), r.leases, r.name, r.type) = {}
  /\ Done(d, r, "local", {})
  /\ UNCHANGED <<generation, cache, flights, asked>>

\* A private reverse target is answered as not existing.
Continues(r, target) == target \notin Private

\* completeLocal: the target of a local alias is asked for under the same configuration.
ContinueLocal(d, r) ==
  /\ Asks(d) /\ LocalAnswers(r) /\ r.recursive
  /\ \E target \in Continuation(Captured(r), r.leases, r.name, r.type) :
       IF Continues(r, target)
       THEN Become(d, [r EXCEPT !.pc = "continue", !.target = target]) /\ asked' = asked \cup {target}
       ELSE Done(d, r, "local", {}) /\ UNCHANGED asked
  /\ UNCHANGED <<generation, cache, flights>>

Refused(d, r) ==
  r.name \in Private \/ Evaluate(ViewOf(d, r), r.name, r.name, Effective(d, r).paused).result = "block"

Block(d, r) ==
  /\ Asks(d) /\ ~LocalAnswers(r) /\ Refused(d, r)
  /\ Done(d, r, "block", {})
  /\ UNCHANGED <<generation, cache, flights, asked>>

Admit(d, r) ==
  /\ Asks(d) /\ ~LocalAnswers(r) /\ ~Refused(d, r)
  /\ Become(d, [r EXCEPT !.pc = "lookup"])
  /\ UNCHANGED <<generation, cache, flights, asked>>

\* finish: the aliases are judged by the policy of this device, also in answers from the cache.
Finish(d, r, reply) ==
  LET p == Effective(d, r)
      i == InspectResponse(ViewOf(d, r), reply.message, r.name, r.type, p.paused)
  IN IF ~i.ok THEN Done(d, r, "error", {})
     ELSE IF i.blocked THEN Done(d, r, "block", {})
     ELSE Done(d, r, "answer", {reply})

Reply(k) == [message |-> cache[k].message, from |-> cache[k].from]

\* Mistake: answers from the cache are taken to have been inspected.
FinishCachedUnseen(d, r, k) == Done(d, r, "answer", {Reply(k)})

FinishCached(d, r, k) == Finish(d, r, Reply(k))

\* An exchange under way is joined, with the configuration of its leader.
Joined(k, g) == [x \in DOMAIN flights \cup {k} |-> IF x \in DOMAIN flights THEN flights[x] ELSE g]

\* A fresh answer, or an expired one where the configuration serves it at once
\* and refreshes it, unless there are too many refreshes (see Flights).
LookupHit(d) ==
  LET r == request[d]
      k == CacheKey(d, r)
  IN /\ r.pc = "lookup" /\ r.cacheable /\ k \in DOMAIN cache
     /\ cache[k].fresh \/ Captured(r).stale = "immediate"
     /\ FinishCached(d, r, k)
     /\ \/ /\ ~cache[k].fresh /\ r.recursive
           /\ flights' = Joined(k, r.generation) /\ asked' = asked \cup {r.name}
        \/ UNCHANGED <<flights, asked>>
     /\ UNCHANGED <<generation, cache, count>>

\* Without recursion nothing is asked; otherwise the exchange is shared, unless
\* there are too many (see Flights), or direct.
LookupMiss(d) ==
  LET r == request[d]
      k == CacheKey(d, r)
  IN /\ r.pc = "lookup"
     /\ ~(r.cacheable /\ k \in DOMAIN cache /\ (cache[k].fresh \/ Captured(r).stale = "immediate"))
     /\ IF ~r.recursive THEN Done(d, r, "error", {}) /\ UNCHANGED <<flights, asked>>
        ELSE \/ /\ asked' = asked \cup {r.name}
                /\ IF r.cacheable
                   THEN flights' = Joined(k, r.generation) /\ Become(d, [r EXCEPT !.pc = "wait"])
                   ELSE UNCHANGED flights /\ Become(d, [r EXCEPT !.pc = "direct"])
             \/ r.cacheable /\ Become(d, [r EXCEPT !.pc = "fallback"]) /\ UNCHANGED <<flights, asked>>
     /\ UNCHANGED <<generation, cache, count>>

Waiting(k) == {d \in Devices : request[d].pc = "wait" /\ CacheKey(d, request[d]) = k}

\* The upstream a shared exchange asks, and what it may reply.
Asked(k) == Config[flights[k]].upstream[k.route]
RepliesTo(k) == Replies[Asked(k)][k.name]

\* shared: the reply of the upstream of the key's own route goes to the cache and to everybody who waits.
FlightReplies(k, m) ==
  LET from == Asked(k) IN
  /\ k \in DOMAIN flights
  /\ flights' = Restrict(flights, DOMAIN flights \ {k})
  /\ \E kept \in BOOLEAN :
       cache' = IF kept /\ m.code # "servfail"
                THEN [x \in DOMAIN cache \cup {k} |->
                        IF x = k THEN [message |-> m, from |-> from, fresh |-> TRUE] ELSE cache[x]]
                ELSE cache
  /\ request' = [d \in Devices |->
       IF d \in Waiting(k)
       THEN [request[d] EXCEPT !.pc = IF m.code = "servfail" THEN "fallback" ELSE "finish",
                               !.reply = {[message |-> m, from |-> from]}]
       ELSE request[d]]
  /\ UNCHANGED <<generation, asked, count>>

FlightFails(k) ==
  /\ k \in DOMAIN flights
  /\ flights' = Restrict(flights, DOMAIN flights \ {k})
  /\ request' = [d \in Devices |-> IF d \in Waiting(k) THEN [request[d] EXCEPT !.pc = "fallback"] ELSE request[d]]
  /\ UNCHANGED <<generation, cache, asked, count>>

\* After a failure an expired answer serves; without one the failure is the answer.
FallBack(d) ==
  LET r == request[d]
      k == CacheKey(d, r)
      stale == k \in DOMAIN cache /\ ~cache[k].fresh /\ Captured(r).stale # "off"
  IN /\ r.pc = "fallback"
     /\ IF stale THEN FinishCached(d, r, k)
        ELSE IF r.reply = {} THEN Done(d, r, "error", {})
        ELSE \E reply \in r.reply : Finish(d, r, reply)
     /\ UNCHANGED <<generation, cache, flights, asked, count>>

FinishShared(d) ==
  /\ request[d].pc = "finish"
  /\ \E reply \in request[d].reply : Finish(d, request[d], reply)
  /\ UNCHANGED <<generation, cache, flights, asked, count>>

FinishDirect(d) ==
  LET from == Captured(request[d]).upstream[Effective(d, request[d]).route] IN
  /\ request[d].pc = "direct"
  /\ \E m \in Replies[from][request[d].name] : Finish(d, request[d], [message |-> m, from |-> from])
  /\ UNCHANGED <<generation, cache, flights, asked, count>>

\* The combined chain must be sound; local data wins over the policy of names.
FinishLocal(d) ==
  LET r == request[d]
      p == Effective(d, r)
      from == Captured(r).upstream[p.route]
      whole(m) == [m EXCEPT !.links = LocalLinks(Captured(r), r.name) \o @]
  IN /\ r.pc = "continue"
     /\ \E m \in Replies[from][r.target] :
          IF InspectResponse(ViewOf(d, r), whole(m), r.name, r.type, TRUE).ok
          THEN Done(d, r, "continued", {[message |-> whole(m), from |-> from]}) ELSE Done(d, r, "error", {})
     /\ UNCHANGED <<generation, cache, flights, asked, count>>

\* The exchange fails, or the request is cancelled while it waits.
Abandon(d) ==
  /\ request[d].pc \in {"direct", "continue", "wait"}
  /\ Done(d, request[d], "error", {})
  /\ UNCHANGED <<generation, cache, flights, asked, count>>

Publish ==
  /\ generation < Len(Config)
  /\ generation' = generation + 1
  /\ UNCHANGED <<request, cache, flights, asked, count>>

\* Answers expire and are evicted (see DnsCache).
Age(k) ==
  /\ cache' = IF cache[k].fresh THEN [cache EXCEPT ![k].fresh = FALSE] ELSE Restrict(cache, DOMAIN cache \ {k})
  /\ UNCHANGED <<generation, request, flights, asked, count>>

Init ==
  /\ generation = 1 /\ cache = <<>> /\ flights = <<>> /\ asked = {}
  /\ request = [d \in Devices |-> NoRequest]
  /\ count = [d \in Devices |-> 0]

Next ==
  \/ \E d \in Devices :
       \/ MayAsk(d) /\ \E r \in Captures(d) : AnswerLocal(d, r) \/ ContinueLocal(d, r) \/ Block(d, r) \/ Admit(d, r)
       \/ LookupHit(d) \/ LookupMiss(d) \/ FallBack(d) \/ FinishShared(d) \/ FinishDirect(d) \/ FinishLocal(d)
       \/ Abandon(d)
  \/ \E k \in DOMAIN flights : FlightFails(k) \/ \E m \in RepliesTo(k) : FlightReplies(k, m)
  \/ \E k \in DOMAIN cache : Age(k)
  \/ Publish

Spec == Init /\ [][Next]_vars

(***************************************************************************)
(* What must hold.                                                         *)
(***************************************************************************)
\* The names an answer leads to: every alias that applies, the deepest DNAME first.
LeadsTo(m, n, type) ==
  LET L == ToSet(m.links)
      D == {l \in L : l.type = "dname" /\ l.owner \in Ancestors(n) \ {n}}
  IN {l.target : l \in {x \in L : x.owner = n /\ (x.type = "cname" \/ (x.type = "alias" /\ type = "HTTPS"))}}
     \cup {SubSeq(n, 1, Len(n) - Len(l.owner)) \o l.target :
             l \in {x \in D : \A y \in D : Len(x.owner) >= Len(y.owner)}}

Reached(m, n, type) ==
  FoldLeft(LAMBDA S, i : S \cup UNION {LeadsTo(m, x, type) : x \in S}, {n}, [i \in 1..(Len(m.links) + 1) |-> i])

Blocked(p, n) == Result(Reference(ToSet(p.own) \cup ToSet(p.base), p.sel, n)) = "block"
Allowed(p, n) == Result(Reference(ToSet(p.own) \cup ToSet(p.base), p.sel, n)) = "allow"

(***************************************************************************)
(* A device is never given an answer that its policy, in the configuration *)
(* its question captured, blocks: not the name, and unless the owner       *)
(* allowed the name not any alias it leads to, whether the answer is       *)
(* fresh, shared with another device, cached for another device, stale, or *)
(* of an exchange that began before a reload (Resolve, finish).            *)
(***************************************************************************)
AnswersObeyPolicy ==
  \A d \in Devices : \A reply \in request[d].reply :
    LET r == request[d]
        p == Effective(d, r)
    IN r.pc = "done" /\ r.kind = "answer" /\ ~p.paused =>
         /\ ~Blocked(p, r.name)
         /\ Allowed(p, r.name) \/ \A n \in Reached(reply.message, r.name, r.type) : ~Blocked(p, n)

(***************************************************************************)
(* An answer comes from the upstream that the captured configuration names *)
(* for the device, also when routes got other numbers in between           *)
(* (cacheKeyRoute, exchange).                                              *)
(***************************************************************************)
AnswersFromOwnRoute ==
  \A d \in Devices : \A reply \in request[d].reply :
    LET r == request[d] IN
    r.pc = "done" => reply.from = Captured(r).upstream[Effective(d, r).route]

(***************************************************************************)
(* Private reverse names stay in the network: none is sent upstream, not   *)
(* for an allowed or paused device and not as the target of a local alias  *)
(* (PrivateReverse, completeLocal).                                        *)
(***************************************************************************)
PrivateStaysLocal == asked \cap Private = {}

\* Every answer is the device's own: allowed to it by its policy, and from
\* its upstream; and no question leaves the network that must not.
AnswersAreOwn == AnswersObeyPolicy /\ AnswersFromOwnRoute /\ PrivateStaysLocal
=============================================================================
