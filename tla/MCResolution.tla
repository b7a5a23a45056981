---------------------------- MODULE MCResolution ----------------------------
(***************************************************************************)
(* Small instances of what a question meets on its way to an answer: the   *)
(* policy of the client (ClientPolicy), and what Resolution has: the       *)
(* pipeline, the cache, the names of the leases, the clients and the       *)
(* connections of the upstreams. Their properties look at no state they    *)
(* share, so one of them is explored at a time: part says which.           *)
(***************************************************************************)
EXTENDS Resolution, TLC

(******************************** the pipeline *****************************)

q1 == <<"a", "x">>
ad == <<"ad">>
b == <<"b">>
ab == <<"a", "b">>
loc == <<"l", "h">>
locp == <<"m", "h">>
pr == <<"p">>
lan == <<"pc", "lan">>
PipelinePrivate == {pr}
PipelineNames == {q1, ad, b, ab, loc, locp, pr, lan, <<"x">>, <<"h">>, <<"lan">>}
PipelineHash == [n \in PipelineNames |-> Len(n)]
Q(n, t, r, c) == [name |-> n, type |-> t, recursive |-> r, cacheable |-> c]
\* Both ask what can be shared; the rest concerns one device alone.
Shareable == Q(q1, "A", TRUE, TRUE)
PipelineQuestions == ("tv" :> {Shareable}) @@ ("pc" :> {Shareable, Q(q1, "A", TRUE, FALSE), Q(q1, "HTTPS", TRUE, TRUE),
  Q(q1, "A", FALSE, TRUE), Q(loc, "A", TRUE, TRUE), Q(locp, "A", TRUE, TRUE), Q(pr, "A", TRUE, TRUE),
  Q(lan, "A", TRUE, TRUE), Q(ad, "A", TRUE, TRUE)})
M(links) == [code |-> "ok", links |-> links]
C(o, t) == [type |-> "cname", owner |-> o, target |-> t]
Fine == {M(<<>>), M(<<C(q1, b), C(b, ad)>>), M(<<C(q1, b), C(b, q1)>>),
  M(<<[type |-> "alias", owner |-> q1, target |-> ad]>>), M(<<[type |-> "dname", owner |-> <<"x">>, target |-> b], C(ab, ad)>>),
  [code |-> "servfail", links |-> <<>>]}
PipelineReplies == [u \in {"u1", "u2"} |-> [n \in PipelineNames |-> IF n = q1 THEN (IF u = "u1" THEN Fine ELSE {M(<<>>), M(<<C(q1, ad)>>)}) ELSE {M(<<>>)}]]
DenyAd == [id |-> 1, scope |-> "", owner |-> "", class |-> "subscription-deny", kind |-> "suffix", name |-> ad, names |-> {}, source |-> "ads"]
AllowQ == [id |-> 2, scope |-> "client", owner |-> "pc", class |-> "custom-allow", kind |-> "exact", name |-> q1, names |-> {}, source |-> "custom"]
Sel(c, s) == [profile |-> "", client |-> c, all |-> FALSE, sources |-> s]
P(route, c, s, paused) == [own |-> <<AllowQ>>, base |-> <<DenyAd>>, sel |-> Sel(c, s), paused |-> paused, route |-> route]
Local == [records |-> (loc :> [match |-> "exact", cname |-> q1]) @@ (locp :> [match |-> "exact", cname |-> pr]),
          zones |-> {}, domain |-> {<<"lan">>}, leased |-> {lan}]
\* Without and with a lease that vouches for the hardware address.
By(unknown, known) == (FALSE :> unknown) @@ (TRUE :> known)
Same(x) == By(x, x)
PipelineConfig == <<
  Local @@ [stale |-> "immediate", upstream |-> <<"u1", "u2">>,
   clients |-> ("tv" :> Same(P(1, "tv", {"ads"}, FALSE)) @@ "pc" :> By(P(1, "", {}, FALSE), P(1, "pc", {"ads"}, FALSE)))],
  Local @@ [stale |-> "on", upstream |-> <<"u2", "u1">>,
   clients |-> ("tv" :> Same(P(1, "tv", {"ads"}, FALSE)) @@ "pc" :> By(P(2, "", {"ads"}, TRUE), P(1, "", {}, FALSE)))]>>

(************ the documents, and the edits that are asked for **************)

Inherits == [blocking |-> "inherit", lists |-> <<>>, route |-> "inherit", rules |-> {}]
Selecting(address, macs, prefixes) == [addresses |-> address, macs |-> macs, prefixes |-> prefixes]
Device(sel) == [legacy |-> FALSE, sel |-> sel, profile |-> "", over |-> Inherits, paused |-> FALSE]
NoEdit == [scope |-> "network", id |-> "", create |-> FALSE, delete |-> FALSE, promote |-> "", selectors |-> {},
           lease |-> "", profile |-> {}, pause |-> "", resetAll |-> FALSE, fields |-> <<>>, subscribe |-> {}]
N1 == <<"x">>
N2 == <<"a", "x">>
PolicyNames == {N1, N2, <<"b", "a", "x">>}
PolicyHash == [n \in PolicyNames |-> Len(n) % 2]
Sub(id, class, kind, n, l) == [id |-> id, scope |-> "", owner |-> "", class |-> class, kind |-> kind, name |-> n, names |-> {}, source |-> l]
PolicyListRules == [l \in {"ads", "work"} |->
   IF l = "ads" THEN {Sub(1, "subscription-deny", "suffix", N1, l), Sub(2, "subscription-deny", "exact", N2, l)}
   ELSE {Sub(3, "subscription-allow", "suffix", N2, l)}]
PolicySpecialRules == {Sub(9, "special-deny", "exact", <<"b", "a", "x">>, "special")}
PolicyPrefix == [p \in {"wide", "narrow"} |-> IF p = "wide" THEN [bits |-> 8, addresses |-> {"10.1", "10.2"}]
                                          ELSE [bits |-> 24, addresses |-> {"10.2"}]]
\* Two IPv4 addresses, one of many hosts, and one of a link, asked from with and without the zone.
PolicyAddresses == {"10.1", "10.2", "224.1", "fe80", "fe80%eth0"}
PolicyZoneless == [a \in PolicyAddresses |-> IF a = "fe80%eth0" THEN "fe80" ELSE a]
PolicyLeaseMAC == [a \in PolicyAddresses |-> IF a = "10.2" THEN "m1" ELSE ""]
Custom(id, action, kind, n, on) == [rid |-> id, action |-> action, kind |-> kind, name |-> n, names |-> {}, enabled |-> on]
AllowRules == {Custom(1, "allow", "exact", N2, TRUE)}
DenyRules == {Custom(1, "deny", "suffix", N1, TRUE), Custom(2, "allow", "exact", N1, FALSE)}
GlobRules == {[Custom(3, "deny", "other", <<>>, TRUE) EXCEPT !.names = {N1, N2}]}
FirstDocument == [blocking |-> "inherit", route |-> "isp", rules |-> {},
   lists |-> [l \in {"ads"} |-> [enabled |-> TRUE, default |-> "inherit"]],
   profiles |-> [p \in {"kids"} |-> [Inherits EXCEPT !.rules = DenyRules, !.lists = ("ads" :> TRUE)]],
   clients |-> ("tv" :> [Device(Selecting({"10.1", "fe80"}, {}, {"wide"})) EXCEPT !.profile = "kids"])
            @@ ("address:10.2" :> [Device(Selecting({"10.2"}, {}, {})) EXCEPT !.legacy = TRUE])]
SecondDocument == [FirstDocument EXCEPT !.blocking = "off", !.lists = [l \in {"ads", "work"} |-> [enabled |-> l = "ads", default |-> "inherit"]],
   !.profiles = ("kids" :> [Inherits EXCEPT !.blocking = "on", !.route = "family"]) @@ ("guests" :> [Inherits EXCEPT !.rules = GlobRules]),
   !.clients = ("tv" :> [Device(Selecting({"fe80"}, {"m1"}, {"narrow"})) EXCEPT !.profile = "kids", !.over.rules = AllowRules])
            @@ ("address:224.1" :> [Device(Selecting({"224.1"}, {}, {})) EXCEPT !.legacy = TRUE])
            @@ ("address:fe80%eth0" :> [Device(Selecting({"fe80%eth0"}, {}, {})) EXCEPT !.legacy = TRUE])]
Field(k, v) == [key |-> k, value |-> v, list |-> "", rules |-> {}]
RulesField(r) == [Field("rules", "") EXCEPT !.rules = r]
ListField(l, v) == [Field("list", v) EXCEPT !.list = l]
FieldSeqs == {<<Field("blocking", v)>> : v \in {"on", "off", "inherit"}} \cup {<<Field("upstream", v)>> : v \in {"family", "inherit"}}
   \cup {<<RulesField(r)>> : r \in {{}, AllowRules, DenyRules, GlobRules}} \cup {<<ListField(l, v)>> : l \in {"ads", "work"}, v \in {"on", "off", "inherit"}}
   \cup {<<RulesField(GlobRules), ListField("work", "on")>>}
Owners == {<<"network", "">>, <<"profile", "kids">>, <<"profile", "guests">>, <<"client", "tv">>, <<"client", "pc">>, <<"client", "address:10.2">>, <<"client", "address:224.1">>}
Of(o) == [NoEdit EXCEPT !.scope = o[1], !.id = o[2]]
PolicyMutations ==
  {[Of(o) EXCEPT !.fields = f, !.promote = to] : o \in Owners, f \in FieldSeqs, to \in {"", "pc"}}
  \cup {[Of(o) EXCEPT !.create = TRUE, !.selectors = s, !.lease = l] : o \in Owners,
         s \in {{}, {Selecting({"10.1"}, {}, {})}, {Selecting({"fe80%eth0"}, {}, {})}, {Selecting({}, {}, {"wide"})}}, l \in {"", "10.2", "10.1"}}
  \cup {[Of(o) EXCEPT !.delete = TRUE] : o \in Owners}
  \cup {[Of(o) EXCEPT !.resetAll = TRUE] : o \in Owners}
  \cup {[Of(o) EXCEPT !.profile = {p}] : o \in Owners, p \in {"", "kids", "guests"}}
  \cup {[Of(o) EXCEPT !.pause = p] : o \in Owners, p \in {"set", "reset"}}
  \cup {[Of(o) EXCEPT !.subscribe = {[list |-> "work", enabled |-> on]}, !.fields = f] :
         o \in Owners, on \in BOOLEAN, f \in {<<>>, <<ListField("work", "on")>>}}
  \cup {[Of(o) EXCEPT !.promote = to, !.selectors = {Selecting({}, {"m1"}, {"narrow"})}] : o \in Owners, to \in {"", "pc", "tv"}}
PolicyDocuments == {FirstDocument, SecondDocument}

VARIABLES doc, edits
documents == <<doc, edits>>

CP == INSTANCE ClientPolicy WITH
        Names <- PolicyNames, Hash <- PolicyHash, ListRules <- PolicyListRules, SpecialRules <- PolicySpecialRules,
        Prefix <- PolicyPrefix, LeaseMAC <- PolicyLeaseMAC, Addresses <- PolicyAddresses, MACs <- {"m1"},
        Zoneless <- PolicyZoneless, Multicast <- {"224.1"}, Documents <- PolicyDocuments, Mutations <- PolicyMutations, MaxEdits <- 2

(********************************* the cache *******************************)

\* Three questions share a bucket of two ways, and two large answers do not fit.
CacheKeys == {"a", "b", "c"}
CacheBucket == [k \in CacheKeys |-> 0]

(*************************** the names of the leases ***********************)

tv == <<"name", "tv">>
host == <<"host", 1, 0>>

\* A host name that exists, DHCP off, and a reservation that takes the name of
\* a lease: the runtime is given the third configuration, or restarted for it.
LeaseSettings == <<
  [enabled |-> TRUE, reservations |-> <<>>, exists |-> {host}, rewritten |-> {}],
  [enabled |-> FALSE, reservations |-> <<>>, exists |-> {}, rewritten |-> {}],
  [enabled |-> TRUE, reservations |-> (2 :> tv), exists |-> {}, rewritten |-> {}]>>

LeaseRows == <<{[mac |-> "m", label |-> tv, expiry |-> 1], [mac |-> "m", label |-> tv, expiry |-> 2],
                [mac |-> "m", label |-> host, expiry |-> 1]},
               {[mac |-> "m", label |-> tv, expiry |-> 1]}>>

(******************************* the upstreams *****************************)

\* A route is replaced, and then all routes but a new one go.
RouteSnapshots == <<[default |-> 1, guest |-> 2], [default |-> 1, guest |-> 3], [default |-> 4]>>

(********************************* one at a time ***************************)

VARIABLE part

MCInit ==
  /\ part \in {"pipeline", "policy", "cache", "leases", "routes", "connections"}
  /\ CP!Init /\ (part # "policy" => doc = FirstDocument)
  /\ Init /\ PL!Init /\ LN!Init /\ RT!Init /\ CN!Init

MCNext ==
  \/ part = "pipeline" /\ PL!Next /\ UNCHANGED <<part, documents, vars, leases, upstreams, connections>>
  \/ part = "policy" /\ CP!Next /\ UNCHANGED <<part, questions, vars, leases, upstreams, connections>>
  \/ part = "cache" /\ Next /\ UNCHANGED <<part, questions, documents, leases, upstreams, connections>>
  \/ part = "leases" /\ LN!Next /\ UNCHANGED <<part, questions, documents, vars, upstreams, connections>>
  \/ part = "routes" /\ RT!Next /\ UNCHANGED <<part, questions, documents, vars, leases, connections>>
  \/ part = "connections" /\ CN!Next /\ UNCHANGED <<part, questions, documents, vars, leases, upstreams>>

MCSpec == MCInit /\ [][MCNext]_<<part, questions, documents, vars, leases, upstreams, connections>>

\* See ClientPolicy.
EffectiveMatchesDocument == part = "policy" => CP!EffectiveMatchesDocument

\* See ClientPolicy.
PreviewIsComplete == CP!PreviewIsComplete

\* See Pipeline.
AnswersAreOwn == part = "pipeline" => PL!AnswersAreOwn
=============================================================================
