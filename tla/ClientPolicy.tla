---------------------------- MODULE ClientPolicy ----------------------------
(***************************************************************************)
(* Policies of the network, of profiles and of devices (config and         *)
(* control, client_policy*.go): the edits the control service accepts, the *)
(* validation of the edited document, its compilation into the views the   *)
(* resolver uses, and the preview that tells an owner which devices an     *)
(* edit changes.                                                           *)
(*                                                                         *)
(* A document is a record; the splicing of YAML text that produces it is   *)
(* abstracted to the fields it sets, removes or appends. A setting that is *)
(* absent is "inherit". The spelling of an address, IPv4 in IPv6 included, *)
(* is removed wherever one is read; its zone is not, and is modelled.      *)
(* Limits on counts and bytes only refuse documents and are left out.      *)
(***************************************************************************)
EXTENDS Policy, TLC

CONSTANTS
  ListRules,   \* the rules a subscription contributes, per list
  SpecialRules,\* the rules of the filtering settings (canary and relay names)
  Addresses,   \* addresses devices ask from, and legacy entries name
  Zoneless,    \* per address, the address without its zone
  MACs,        \* hardware addresses a lease may vouch for
  Prefix,      \* per prefix, its length in bits and the addresses in it
  Multicast,   \* addresses that are multicast or unspecified
  LeaseMAC,    \* the authoritative hardware address of an address, "" for none
  Documents,   \* the documents the edits start from
  Mutations,   \* the edits that are asked for
  MaxEdits     \* bound: edits per behaviour

VARIABLES
  doc,         \* the saved document
  edits        \* edits so far

vars == <<doc, edits>>

Lists == DOMAIN ListRules

Inherited == [blocking |-> "inherit", lists |-> <<>>, route |-> "inherit", rules |-> {}]

Selectors(address, macs, prefixes) == [addresses |-> address, macs |-> macs, prefixes |-> prefixes]

\* The identifier of a legacy entry is its address.
NewClient(sel) == [legacy |-> FALSE, sel |-> sel, profile |-> "", over |-> Inherited, paused |-> FALSE]

\* selectorAddress: other addresses are only names, of legacy entries.
Suitable(a) == a \notin Multicast /\ Zoneless[a] = a

(***************************************************************************)
(* validateClientPolicy.                                                   *)
(***************************************************************************)
ValidOverrides(d, o) ==
  /\ DOMAIN o.lists \subseteq DOMAIN d.lists
  /\ \A r, s \in o.rules : r.rid = s.rid => r = s

SelectorSet(c) ==
  ({"address"} \X c.sel.addresses) \cup ({"mac"} \X c.sel.macs) \cup ({"prefix"} \X c.sel.prefixes)

Validate(d) ==
  /\ \A r, s \in d.rules : r.rid = s.rid => r = s
  /\ \A p \in DOMAIN d.profiles : ValidOverrides(d, d.profiles[p])
  /\ \A i \in DOMAIN d.clients :
       LET c == d.clients[i] IN
       /\ c.legacy => c.profile = "" /\ c.over = Inherited /\ ~c.paused /\ c.sel.macs \cup c.sel.prefixes = {}
       /\ c.profile # "" => c.profile \in DOMAIN d.profiles
       /\ ValidOverrides(d, c.over)
       /\ SelectorSet(c) # {}
       /\ ~c.legacy => \A a \in c.sel.addresses : Suitable(a)
       /\ \A j \in DOMAIN d.clients \ {i} : SelectorSet(c) \cap SelectorSet(d.clients[j]) = {}

(***************************************************************************)
(* scopedPolicyRules: the enabled rules of every scope, with identifiers   *)
(* that no two scopes share.                                               *)
(***************************************************************************)
RuleOf(r, kind, owner) ==
  [id |-> r.rid, scope |-> kind, owner |-> owner, kind |-> r.kind, name |-> r.name, names |-> r.names,
   class |-> IF r.action = "allow" THEN "custom-allow" ELSE "custom-deny", source |-> "custom"]

ScopedRules(d) ==
  LET own(rules, kind, owner) == {RuleOf(r, kind, owner) : r \in {x \in rules : x.enabled}}
  IN SpecialRules \cup own(d.rules, "", "")
     \cup UNION {own(d.profiles[p].rules, "profile", p) : p \in DOMAIN d.profiles}
     \cup UNION {own(d.clients[i].over.rules, "client", i) : i \in DOMAIN d.clients}

\* The rules of the enabled subscriptions, shared by every view.
BaseRules(d) == UNION {ListRules[l] : l \in {x \in DOMAIN d.lists : d.lists[x].enabled}}

(***************************************************************************)
(* compileClientPolicies.                                                  *)
(***************************************************************************)
Setting(value, source) == [value |-> value, source |-> source]

Available(d, l) == l \in DOMAIN d.lists /\ d.lists[l].enabled

\* apply: what a scope says replaces what it inherits.
Apply(d, parent, o, scope) ==
  [parent EXCEPT
     !.blocking = IF o.blocking = "inherit" THEN @ ELSE Setting(o.blocking = "on", scope),
     !.lists = [l \in DOMAIN o.lists |-> Setting(o.lists[l] /\ Available(d, l), scope)] @@ @,
     !.route = IF o.route = "inherit" THEN @ ELSE o.route,
     !.routeSource = IF o.route = "inherit" THEN @ ELSE scope]

\* finish: the selection by which matchers are interned. A scope without rules selects nothing.
Finish(e, profile, client) ==
  [e EXCEPT !.matcher = [profile |-> profile, client |-> client, all |-> FALSE,
                         sources |-> {l \in DOMAIN e.lists : e.lists[l].value}]]

NetworkPolicy(d) ==
  Finish([client |-> "", profile |-> "", paused |-> FALSE, route |-> d.route, routeSource |-> <<"", "">>,
          blocking |-> Setting(d.blocking # "off", <<"", "">>), matcher |-> Everyone,
          lists |-> [l \in DOMAIN d.lists |->
                       Setting(d.lists[l].enabled /\ d.lists[l].default # "off", <<"", "">>)]], "", "")

ProfileScope(d, p) == IF p # "" /\ d.profiles[p].rules # {} THEN p ELSE ""

ProfilePolicy(d, p) ==
  Finish([Apply(d, NetworkPolicy(d), d.profiles[p], <<"profile", p>>) EXCEPT !.profile = p], ProfileScope(d, p), "")

\* Mistake: a device with rules of its own loses the rules of its profile.
ClientPolicyAlone(d, i) ==
  LET c == d.clients[i]
      parent == IF c.profile = "" THEN NetworkPolicy(d) ELSE ProfilePolicy(d, c.profile)
  IN Finish([Apply(d, parent, c.over, <<"client", i>>) EXCEPT !.client = i, !.paused = c.paused],
            IF c.over.rules # {} THEN "" ELSE ProfileScope(d, c.profile), IF c.over.rules # {} THEN i ELSE "")

ClientPolicyOf(d, i) ==
  LET c == d.clients[i]
      parent == IF c.profile = "" THEN NetworkPolicy(d) ELSE ProfilePolicy(d, c.profile)
  IN Finish([Apply(d, parent, c.over, <<"client", i>>) EXCEPT !.client = i, !.paused = c.paused],
            ProfileScope(d, c.profile), IF c.over.rules # {} THEN i ELSE "")

Compile(d) ==
  LET C == DOMAIN d.clients
      having(x, f(_)) == {i \in C : x \in f(d.clients[i])}
      index(X, f(_)) == [x \in {y \in X : having(y, f) # {}} |-> CHOOSE i \in having(x, f) : TRUE]
  IN [network |-> NetworkPolicy(d),
      profiles |-> [p \in DOMAIN d.profiles |-> ProfilePolicy(d, p)],
      clients |-> [i \in C |-> ClientPolicyOf(d, i)],
      addresses |-> index({a \in Addresses : Suitable(a)}, LAMBDA c : c.sel.addresses),
      macs |-> index(MACs, LAMBDA c : c.sel.macs),
      prefixes |-> index(DOMAIN Prefix, LAMBDA c : c.sel.prefixes)]

\* Select: the address without its zone, then the hardware address a lease
\* vouches for, then the longest prefix.
Select(v, asked, mac) ==
  LET a == Zoneless[asked]
      within == {p \in DOMAIN v.prefixes : a \in Prefix[p].addresses}
      longest == CHOOSE p \in within : \A q \in within : Prefix[p].bits >= Prefix[q].bits
  IN IF a \in DOMAIN v.addresses THEN v.clients[v.addresses[a]]
     ELSE IF mac \in DOMAIN v.macs THEN v.clients[v.macs[mac]]
     ELSE IF within # {} THEN v.clients[v.prefixes[longest]]
     ELSE v.network

\* The decision of an effective policy about a name, with the rule that made it.
Decide(d, root, e, n) == Evaluate([root EXCEPT !.sel = e.matcher,
                                               !.fallback = HasFallback(root.own, e.matcher),
                                               !.baseFallback = HasFallback(root.base, e.matcher)],
                                  n, n, ~e.blocking.value \/ e.paused)

\* CompileOverlay: one set of indexes for all devices.
Root(d) == View(SetToSeq(ScopedRules(d)), SetToSeq(BaseRules(d)), Everyone)

\* ExplainClientPolicy: how a device was recognised. The address it asks from
\* is compared with its zone.
MatchingMethod(d, e, a, mac) ==
  IF e.client = "" THEN "network"
  ELSE IF a \in d.clients[e.client].sel.addresses THEN "address"
  ELSE IF mac \in d.clients[e.client].sel.macs THEN "dhcp_mac" ELSE "cidr"

(***************************************************************************)
(* clientPolicyCandidate. An edit is refused, or gives one document.       *)
(***************************************************************************)
Known(d, m) == m.id \in (IF m.scope = "client" THEN DOMAIN d.clients ELSE DOMAIN d.profiles)

\* The parts of an edit that name a device.
DeviceParts(m) == m.promote # "" \/ m.selectors # {} \/ m.lease # "" \/ m.profile # {} \/ m.pause # ""

Blank == [scope |-> "network", id |-> "", create |-> FALSE, delete |-> FALSE, promote |-> "", selectors |-> {},
          lease |-> "", profile |-> {}, pause |-> "", resetAll |-> FALSE, fields |-> <<>>, subscribe |-> {}]

\* A subscription of a list the document lacks, or of one that it resumes.
Subscribes(d, s) == s.list \in DOMAIN d.lists => s.enabled /\ ~d.lists[s.list].enabled

\* The edit sets, resets or appends something.
Changes(d, m) ==
  \/ m.create \/ m.delete \/ m.resetAll \/ m.fields # <<>> \/ DeviceParts(m)
  \/ \E s \in m.subscribe : Subscribes(d, s)

Accepts(d, m) ==
  /\ m.scope = "network" => m.id = "" /\ ~m.create /\ ~m.delete /\ ~DeviceParts(m) /\ ~m.resetAll
  /\ m.scope = "profile" => ~DeviceParts(m)
  /\ m.scope # "network" => m.id # "" /\ (Known(d, m) # m.create)
  /\ m.delete => m = [Blank EXCEPT !.scope = m.scope, !.id = m.id, !.delete = TRUE]
  /\ m.lease # "" => m.selectors = {} /\ LeaseMAC[m.lease] # ""
  /\ m.scope = "client" /\ ~m.create /\ ~m.delete => (m.promote # "") = d.clients[m.id].legacy
  /\ m.promote # "" => ~m.create /\ m.promote \notin DOMAIN d.clients
  /\ m.resetAll => m.fields = <<>>
  /\ m.scope = "network" => \A f \in ToSet(m.fields) : f.key = "list" => f.list \in DOMAIN d.lists \cup {s.list : s \in m.subscribe}
  /\ Changes(d, m)

\* A new source is on or off as it is asked for, and one that is off is resumed
\* when it is asked for; neither applies to more devices.
Subscribe(lists, S) ==
  LET on == {s.list : s \in {x \in S : x.enabled}} IN
  [l \in DOMAIN lists \cup {s.list : s \in S} |->
     IF l \notin DOMAIN lists THEN [enabled |-> l \in on, default |-> "off"]
     ELSE IF l \in on /\ ~lists[l].enabled
     THEN [enabled |-> TRUE, default |-> IF lists[l].default = "inherit" THEN "off" ELSE lists[l].default]
     ELSE lists[l]]

\* One field of a scope that inherits; a reset removes the key.
SetField(o, f) ==
  CASE f.key = "blocking" -> [o EXCEPT !.blocking = f.value]
    [] f.key = "upstream" -> [o EXCEPT !.route = f.value]
    [] f.key = "rules" -> [o EXCEPT !.rules = f.rules]
    [] f.key = "list" /\ f.value = "inherit" -> [o EXCEPT !.lists = Restrict(@, DOMAIN @ \ {f.list})]
    [] f.key = "list" -> [o EXCEPT !.lists = (f.list :> (f.value = "on")) @@ @]

\* The network's own settings are elsewhere in the document.
SetNetwork(d, f) ==
  CASE f.key = "blocking" -> [d EXCEPT !.blocking = f.value]
    [] f.key = "upstream" -> [d EXCEPT !.route = IF f.value = "inherit" THEN "none" ELSE f.value]
    [] f.key = "rules" -> [d EXCEPT !.rules = f.rules]
    [] f.key = "list" -> [d EXCEPT !.lists[f.list].default = f.value]

Overridden(o, m) == IF m.resetAll THEN Inherited ELSE FoldLeft(SetField, o, m.fields)

EditClient(d, m) ==
  LET id == IF m.promote # "" THEN m.promote ELSE m.id
      sel == IF m.lease # "" THEN {Selectors({}, {LeaseMAC[m.lease]}, {})} ELSE m.selectors
      old == IF m.create THEN NewClient(Selectors({}, {}, {})) ELSE d.clients[m.id]
      new == [old EXCEPT !.legacy = FALSE,
                         !.sel = IF sel = {} THEN @ ELSE CHOOSE s \in sel : TRUE,
                         !.profile = IF m.profile = {} THEN @ ELSE CHOOSE p \in m.profile : TRUE,
                         !.paused = IF m.pause = "" THEN @ ELSE m.pause = "set",
                         !.over = Overridden(@, m)]
  IN [d EXCEPT !.clients = (id :> new) @@ Restrict(@, DOMAIN @ \ {m.id})]

EditProfile(d, m) ==
  [d EXCEPT !.profiles = (m.id :> Overridden(IF m.create THEN Inherited ELSE d.profiles[m.id], m)) @@ @]

Deleted(d, m) ==
  IF m.scope = "client" THEN [d EXCEPT !.clients = Restrict(@, DOMAIN @ \ {m.id})]
  ELSE [d EXCEPT !.profiles = Restrict(@, DOMAIN @ \ {m.id})]

Candidate(d, m) ==
  LET s == [d EXCEPT !.lists = Subscribe(@, m.subscribe)] IN
  CASE m.delete -> Deleted(d, m)
    [] m.scope = "client" -> EditClient(s, m)
    [] m.scope = "profile" -> EditProfile(s, m)
    [] OTHER -> FoldLeft(SetNetwork, s, m.fields)

(***************************************************************************)
(* PreviewClientPolicy.                                                    *)
(***************************************************************************)
\* EffectivePolicy.List: a list that a policy lacks is off, at the network's scope.
List(e, l) == IF l \in DOMAIN e.lists THEN e.lists[l] ELSE Setting(FALSE, <<"", "">>)

SamePolicy(a, b) ==
  /\ a.blocking = b.blocking /\ a.profile = b.profile /\ a.paused = b.paused
  /\ a.route = b.route /\ a.routeSource = b.routeSource
  /\ \A l \in DOMAIN a.lists \cup DOMAIN b.lists : List(a, l) = List(b, l)

ProfileRules(d, p) == IF p \in DOMAIN d.profiles THEN d.profiles[p].rules ELSE {}

\* Mistake: the rules of a profile are not compared.
ChangedDescriptors(d, e) ==
  {i \in DOMAIN d.clients \cup DOMAIN e.clients :
     \/ i \notin DOMAIN d.clients \cap DOMAIN e.clients
     \/ d.rules # e.rules \/ d.clients[i] # e.clients[i]
     \/ ~SamePolicy(ClientPolicyOf(d, i), ClientPolicyOf(e, i))}

ChangedClients(d, e) ==
  {i \in DOMAIN d.clients \cup DOMAIN e.clients :
     \/ i \notin DOMAIN d.clients \cap DOMAIN e.clients
     \/ d.rules # e.rules \/ d.clients[i] # e.clients[i]
     \/ ProfileRules(d, e.clients[i].profile) # ProfileRules(e, e.clients[i].profile)
     \/ ~SamePolicy(ClientPolicyOf(d, i), ClientPolicyOf(e, i))}

NetworkChanged(d, e) == d.rules # e.rules \/ ~SamePolicy(NetworkPolicy(d), NetworkPolicy(e))

(***************************************************************************)
(* The specification: edits, one after the other.                          *)
(***************************************************************************)
Init == doc \in {d \in Documents : Validate(d)} /\ edits = 0

\* MutateClientPolicy. Saving against the revision that was read is in ConfigStore.
Mutate(m) ==
  /\ edits < MaxEdits
  /\ Accepts(doc, m)
  /\ Validate(Candidate(doc, m))
  /\ doc' = Candidate(doc, m)
  /\ edits' = edits + 1

Next == \E m \in Mutations : Mutate(m)

Spec == Init /\ [][Next]_vars

(***************************************************************************)
(* What must hold.                                                         *)
(***************************************************************************)
\* The nearest scope that says something: the device, its profile, the network.
Nearest(d, i, f(_), net) ==
  LET c == d.clients[i]
      said == (IF f(c.over) # "inherit" THEN <<f(c.over)>> ELSE <<>>)
              \o (IF c.profile # "" /\ f(d.profiles[c.profile]) # "inherit" THEN <<f(d.profiles[c.profile])>> ELSE <<>>)
  IN Head(said \o <<net>>)

\* The settings and rules of a device, straight from the document; "" is the network.
RefLists(d, i) ==
  {l \in DOMAIN d.lists :
     /\ d.lists[l].enabled
     /\ LET said(o) == IF l \notin DOMAIN o.lists THEN "inherit" ELSE IF o.lists[l] THEN "on" ELSE "off"
        IN (IF i = "" THEN d.lists[l].default ELSE Nearest(d, i, said, d.lists[l].default)) # "off"}

RefDecision(d, i, n) ==
  LET blocking == IF i = "" THEN d.blocking ELSE Nearest(d, i, LAMBDA o : o.blocking, d.blocking)
      p == IF i = "" THEN "" ELSE d.clients[i].profile
      R == Reference(ScopedRules(d) \cup UNION {ListRules[l] : l \in RefLists(d, i)},
                     [profile |-> p, client |-> i, all |-> TRUE, sources |-> {}], n)
  IN IF blocking = "off" \/ (i # "" /\ d.clients[i].paused) THEN [result |-> "paused", rule |-> {}]
     ELSE [result |-> Result(R), rule |-> R]

RefRoute(d, i) == IF i = "" THEN d.route ELSE Nearest(d, i, LAMBDA o : o.route, d.route)

\* How a device is recognised, and as which client. A zone says nothing.
RefClient(d, asked, mac) ==
  LET a == Zoneless[asked]
      S(method, x) == {i \in DOMAIN d.clients : <<method, x>> \in SelectorSet(d.clients[i])}
      in == {p \in DOMAIN Prefix : a \in Prefix[p].addresses /\ S("prefix", p) # {}}
      best == {p \in in : \A q \in in : Prefix[p].bits >= Prefix[q].bits}
  IN IF Suitable(a) /\ S("address", a) # {} THEN <<"address", S("address", a)>>
     ELSE IF S("mac", mac) # {} THEN <<"dhcp_mac", S("mac", mac)>>
     ELSE IF in # {} THEN <<"cidr", UNION {S("prefix", p) : p \in best}>>
     ELSE <<"network", {""}>>

(***************************************************************************)
(* A device gets what the document says about it: the compiled, inherited  *)
(* and shared view of the device that is recognised decides every name,    *)
(* with the same winning rule, and routes it, as the most specific         *)
(* settings of the document do, whether or not its address has a zone; and *)
(* the explanation of an address without a zone names the selector that    *)
(* recognised it (compileClientPolicies, Select, matchingMethod). With a   *)
(* zone the explanation names another one: see the README.                 *)
(***************************************************************************)
EffectiveMatchesDocument ==
  LET v == Compile(doc)
      root == Root(doc)
  IN \A a \in Addresses, mac \in MACs \cup {""} :
       LET e == Select(v, a, mac)
           ref == RefClient(doc, a, mac)
       IN /\ ref[2] = {e.client}
          /\ Zoneless[a] = a => MatchingMethod(doc, e, a, mac) = ref[1]
          /\ e.route = RefRoute(doc, e.client)
          /\ \A n \in Names : Decide(doc, root, e, n) = RefDecision(doc, e.client, n)

(***************************************************************************)
(* The preview of an edit is complete: a device it does not list decides   *)
(* every name and is routed as before, and so does the network when the    *)
(* preview says that it does not change (PreviewClientPolicy).             *)
(***************************************************************************)
PreviewIsComplete ==
  [][doc' # doc =>
     LET before == Root(doc)
         after == Root(doc')
         same(a, b) == /\ a.route = b.route
                       /\ \A n \in Names : Decide(doc, before, a, n) = Decide(doc', after, b, n)
     IN /\ \A i \in (DOMAIN doc.clients \cup DOMAIN doc'.clients) \ ChangedClients(doc, doc') :
             same(ClientPolicyOf(doc, i), ClientPolicyOf(doc', i))
        /\ NetworkChanged(doc, doc') \/ same(NetworkPolicy(doc), NetworkPolicy(doc'))]_vars
=============================================================================
