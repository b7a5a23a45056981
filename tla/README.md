# Verification of dimsum

dimsum is a DNS filter with a DHCP server for a home network: one Go process that answers DNS from
local records, a cache and upstream resolvers under a policy of block lists and client rules, leases
IPv4 addresses, keeps query history, and is administered over HTTP, MCP and a command line. This
directory holds TLA+ models of the parts of it where order, failure and time decide correctness, the
TLC configurations that check them on small instances, and proofs that TLAPS checks.

## 1. The system

| Part | State | Operations | What is hard |
|---|---|---|---|
| DHCP engine (`dhcp/engine.go`) | ownership by address and by identity, bitmap, probe budget, tokens, two clocks | `Handle`, `CompleteProbe`, `CompleteCommit`, `Tick`, `Apply`, `Restore` | completions arrive after the state moved on; clocks jump |
| DHCP lease store (`dhcp/store.go`) | lease table, last known time, bounded queue, latched error | `Submit`, the writer loop, recovery | crash and uncertain commit; batches must not conflict |
| DHCP runtime (`dhcp/runtime.go`, `probe.go`) | owner loop, pending Apply, published view | select over packets, probes, commits, ticks, Apply | one loop, several bounded queues, shutdown order |
| DHCP supervisor (`app/dhcp.go`) | current runtime, closing runtime, applied generation, gate | `Reconcile`, `Close` | callers give up while work goes on; obsolete generations |
| Shared resolution (`resolve/inflight.go`) | flights by cache key, budgets | join, wait, worker, close | last waiter against new joiner; detached workers |
| Upstream client (`upstream/`) | circuits, transaction IDs, idle connections, slots | `Exchange`, claim, record | late completions, lost probes, retries |
| Upstream routes (`resolve/upstreams.go`) | clients by configuration lifetime | acquire, retire | a generation retires while in use |
| DNS cache (`dnscache/`) | ways, CLOCK bits, arena | `Get`, `Put` | eviction under a byte bound |
| Configuration (`config/`) | file, manifest, active snapshot, revision | save, reload, watch, recover | crash between the renames; concurrent editors |
| Policy (`policy/`, `lists/`) | compiled rules, artifacts | compile, match, refresh | precedence; last known good |
| Storage and statistics (`storage/`, `stats/`) | event queue, history, rollups, watermark | record, flush, retain | loss when full; a failed batch must not look complete |
| Control and admin (`control/`, `admin/`, `mcpserver/`) | jobs, sessions, tokens | HTTP handlers | password change against login; job slots |
| Clients and names (`clients/`, `localdns/`) | observed devices, names, zones | observe, enrich, publish | sources of different authority |
| Transport (`transport/`) | request slots, TCP connections | serve | slot leaks at shutdown |
| Process (`app/lifecycle.go`, `cmd/`) | start and stop order | start, reload, stop | partial start |

The parts meet through calls and channels: the transport hands a request to the resolve pipeline,
which consults policy and local records, the cache and then a shared flight whose worker calls the
upstream client. The DHCP runtime is one goroutine that owns the engine; the writer and the probers
answer it through channels, and DNS reads its published view. Configuration publishes immutable
snapshots with a generation, and the supervisor turns them into `Apply` calls.

What makes them correct: no address is leased to two clients and no lease that was acknowledged is
forgotten; tables, indexes and counters that say the same thing agree; every admitted write or
change is answered; nobody joins dead work; no circuit breaker is stuck; a crash leaves a
configuration and tables the next start accepts. PROJECT.json lists every hazard with its line.

## 2. Modules

| Module | Models | Extended by |
|---|---|---|
| `DhcpLease` | engine, store, scheduler and owner loop, with clocks, crash and recovery | `MCDhcpLease`, `DhcpTables`, `DhcpLeaseProofs` |
| `DhcpSupervisor` | reconciliation of the configuration with one DHCP runtime, diagnostics and shutdown | `MCDhcpSupervisor`, `DhcpSupervisorProofs` |
| `Flights` | shared resolution work | `Lifecycle` |
| `ServiceLifecycle` | listeners, request slots, jobs, background workers, start and stop | instance in `Lifecycle` |
| `Lifecycle` | the two above side by side, with what is assumed of their constants | `MCLifecycle`, `LifecycleProofs` |
| `Upstream` | exchange over a pool and the circuit breakers | `MCUpstream`, `UpstreamProofs` |
| `ConfigStore` | configuration file, manifest, snapshot, watcher, restore and recovery, with lost renames | `MCConfigStore`, `ConfigStoreProofs` |
| `AdminSessions`, `ApiTokens` | logins, sessions and password changes; the token file under crashes | instances in `Administration` |
| `Policy` | compiled rules, their indexes and precedence, and the reference they are compared with | `ClientPolicy`, `Pipeline` |
| `Pipeline` | a question from the captured configuration to its answer | instance in `Resolution` |
| `ClientPolicy` | policies of network, profiles and devices: edits, validation, compilation, preview | instance in `MCResolution` |
| `DnsCache`, `AnswerCache` | one shard of the cache; what a cache promises | `Resolution`; refinement |
| `LeaseNames` | names of leases in DNS and the capture cache | instance in `Resolution` |
| `Routes`, `Connections` | transports of routes across configurations; sockets of one upstream client | instances in `Resolution` |
| `Resolution` | pipeline, cache, lease names, routes and connections side by side, with what is assumed of their constants | `MCResolution`, `ResolutionProofs` |
| `History` | collector, writer, retention and window queries | `Administration` |
| `Explanations`, `HistoryPages` | notes and rows that explain events, and their sweep; paging | instances in `Administration` |
| `Administration` | history, explanations, pages, names, sessions and tokens side by side, with what is assumed of their constants | `MCAdministration`, `AdministrationProofs` |
| `ClientNames` | naming worker, multicast names, checkpoints across restarts | instance in `Administration` |

`ClientPolicy` hands effective policies to `Pipeline` (a constant there, per device and configuration),
`Pipeline` leaves budgets to `Flights`, retries to `Upstream` and replacement to `DnsCache`, of which it
needs no more than `AnswerCache` says; `LeaseNames` reads what `DhcpLease` publishes and
`DhcpSupervisor` lets through. An MC module with several instances explores one of them in each
behaviour (`part`), because their properties share no state; the product would only multiply states.
`Lifecycle`, `Resolution` and `Administration` declare the constants and variables of such a group, make
the instances and name their properties: the run and the theorems are about the same definitions. A
behaviour of `MCSpec` takes steps of one component and leaves the others in their initial states, so it
satisfies the `Spec` of each, which is what the theorems have as their hypothesis.

Operators whose comment starts with "Mistake:" are not part of a model. Each is a plausible bug of
the definition below it, kept to show that the property it belongs to would notice.

### DhcpLease

One action per branch of `Handle` that changes state, per outcome of `CompleteProbe` and
`CompleteCommit`, and per step of the writer; an action contains the whole handler, including the
dispatch of the mutation or probe it produces (`Submit` may refuse it, and the refusal is completed
inside the same step, as in the code). `mono` is elapsed time: the engine's runtime clock and the
clients' own timers. `wall` is the clock that is stored; it may be set once. `held` is what the
clients believe: the lease an ACK gave them, until it runs out, they release it or are refused it.
`rows` and `lastKnown` survive `Crash`; everything else is rebuilt by `Restart`.

Abstractions. A client has one identity (the MAC and client-identifier forms of a reservation are
one lookup). Fields of an entry that the code never reads again are reset. A RELEASE or DECLINE is
sent by a client that gives the address up at that moment. A client keeps the longer of two leases
of one address, since the later ACK may be lost. Relays, INFORM and packets the engine ignores only
read the clock (`Observe`). The loop publishes after each completion instead of after all that are
ready. A completion whose token no entry waits for cannot occur (`WritesMatched`, a part of `Bookkeeping`). Addresses are
numbers; the pool, the usable addresses, reservations, capacity and lease time of each generation
come from `Settings`.

Bounds: `MaxTime`, `MaxSeq` (tokens of one engine), `MaxRestarts`, and one clock step of `Forward` or
`Back`. A lease lasts one to three units and offers, probes and quarantines one or two, so within the
bounds a lease is granted, renewed, expires and is granted to the other client, before or after a
restart.

### Flights

`active`, the counters and `closed` are the fields of `flights`; `running` are the goroutines,
`waiting` the callers of `wait`. Every action is one critical section of the table's lock. Flight
objects are reused once nothing refers to them.

### Upstream

`todo`, `at` and `attempts` are the loop of `Exchange`; the other variables are the circuits. The
epoch of a circuit only grows and is only compared with the one an attempt was given, so the model
keeps the outcome of that comparison (`fresh`). Time is kept as whether `RetryAt` has passed.
Latencies are abstracted: with adaptive ordering a pool may be tried in any order.

### DhcpSupervisor

`watcher` is the caller of `Reconcile`, once a second; `worker` is the goroutine that holds the gate and
may outlive its caller; `phase`, `failed`, `gen` and `request` are the runtime as its owner loop shows
it: running, stopping or gone, its error, its installed generation and the `Apply` it was sent. The
worker's stages are the places of `reconcile` between which another goroutine can observe a change.
Sockets and stores exist exactly as long as the stage or the runtime that holds them, and a setup
diagnostic opens a socket of its own behind the same gate. `Settings` is the sequence of DHCP settings that the configuration goes through; a
generation with another topology needs a disable first, which `ValidateTransition` enforces.

A disable and a re-enable published within one tick of the watcher are one change to the supervisor:
it never sees the first. `guides/dhcp.md` asks the owner to wait for the applied disable.

### ConfigStore

A document is reduced to what the code tells apart: whether it parses, its lists, the settings that
need a restart, and its credential generation. `file` and `manifest` are what a reader sees;
`fileMay` and `manifestMay` are what a power loss may leave, since a rename is durable only after the
sync of its directory. Artifacts and credential generations are durable when they are created, because
the code syncs them and their directories first, and their removal is durable at once, the worse case.
`build` is the build lock and the place of `activate` of its holder: the steps between which an
editor, a crash or a failing sync can come. A fetch may return any version of the lists (`Versions`);
the same set stands for the built-in lists of another release of the program in `RecoverBuiltins`.

Not in the model: an unreadable or missing file, the migration of `active.artifact`, the archive
format, `EnsureAdminSecret`, and the changes staged on disk (`CommitStage` is a `Save`). The contexts
that end upstream routes are in `Routes`.

Bounds: `MaxGeneration` stops saves and refreshes, `MaxEdits` the editor, `MaxCrashes` both kinds of
crash. One edit against one save is the race that matters; two crashes are needed where the first
leaves something unsynced.

### ServiceLifecycle

`service` is the step of the goroutine that stops the service; `udp`, `tcp`, `http`, `background` and
`writer` are the groups of goroutines its wait group joins. Slots are a number per size; a datagram holds
one from its receipt to the end of its write, a connection from the length prefix to the end of
resolution. A job is accepted, its hook runs, and its goroutine ends afterwards: between the two the
next job may be accepted, and `Close` joins the last one only, which suffices because hooks do not
overlap. `Shutdown` of an HTTP server waits two seconds, so a handler may outlive its server, and even
the database; the model lets it, and claims only that it can start no job then. A listener that fails
drains first and is reported afterwards. Start is one step: what fails in it is closed before anything
serves.

### Pipeline and Policy

A request captures the configuration once, and with it the effective policy of its device, its route
and whether a lease vouches for its hardware address; later steps use what was captured although
`Publish` moves on. Its steps are the returns and blocking calls of `Resolve`: local data and its
continuation, private reverse names, the block, the cache (hit, stale hit, miss), joining or leading a
flight, a direct exchange when the question is not cacheable, an expired answer when the exchange fails
or the table is full, and `finish`, which
inspects every alias again for this device. Answers are their alias records and code. `Policy` models
the indexes as they are built (open addressing with chains, suffixes by ancestors) and `Reference`, the
plain matcher of `precedence.go`, which looks at every rule; the indexed one must decide as it does.

Not modelled: forwarding without a configuration store, which has no policy and one client.

### ClientPolicy

The state is the document; an edit is a whole `MutateClientPolicy`: what the request asks, the checks of
`clientPolicyCandidate`, the fields it changes, and validation. Compilation, inheritance, sharing of
views and `Select` are operators over it, and the properties compare them with what the document says
directly (`RefDecision`, `RefRoute`, `RefClient`) for every address, hardware address and name, and
the preview of each edit with the decisions before and after it.

A subscription asks for its list on or off. A list the document lacks is added as asked, applying to nobody;
one it has is only resumed; an edit that changes nothing is refused (`Changes`). A policy that lacks a list
counts as having it off at the network's scope (`List`), so the preview of an edit that adds a list does not
name every device, and its completeness says something about those it leaves out. Addresses keep their zone:
selection removes it (`Select`), a selector may not have one, and a legacy entry that has one is only a name
(`Suitable`).

### DnsCache and AnswerCache

Every operation holds the shard's mutex. A lookup is one step. `put` finds its slot (`Put`), evicts in a
full bucket by second chance (`SecondChance`), then evicts anywhere until the blocks fit (`NoRoom`,
`Evict`) and stores (`Store`); each turn of its loops is a step, and the variable `put`, its locals, keeps
every other operation out, as the mutex does: only the clock moves meanwhile. Blocks of the arena are
numbers. `AnswerCache` says what a user may rely on: one answer per question, the last
one, which may be forgotten and never comes back. The refinement maps a question to the version in its
slot.

### LeaseNames, Routes, Connections

`LeaseNames`: a reader of `capture` goes through its steps (snapshot, published view, comparison,
lock, build) while leases are committed and configurations are published. `Publish` touches the store alone:
the runtime goes on serving views of its own generation, and committing to them, until the supervisor takes up a
generation that is not obsolete (`Reconcile`, perhaps not the newest, perhaps after skipping some) and gives
it to the runtime (`Apply`) or, when DHCP is off in it, hides the names and closes the runtime (`Disable`,
`FinishClosing`), to start another one later (`Start`, hidden until `PublishApplied`). So a reader of a new
snapshot meets a view of an old generation and a reader of an old snapshot one of a new generation, at the
first read and at the read under the lock (`dhcp_names.go` 40 and 54). Failing applies and starts and the
timeouts of the callers are in `DhcpSupervisor`; here they only delay a step. A commit that leaves every row
as it was would publish an equal view and is left out. `Routes`: an
exchange captures a generation, checks the lifetime of its route, and finds or creates the client under
the lock; the callback of an ended lifetime waits for the same lock. `Connections`: a lease of a
connection, its closer on cancellation, the idle connection and its timer, which may fire while the
connection is taken. The lock of each is held for one step.

### History, Explanations, HistoryPages

`History` keeps the collector's channel, the consumer's batch and the committed database, per boot a
writer row with its watermark, and per level a cutoff. A batch that fails is discarded and counted as
lost; it is not written again. Retention moves the cutoffs at once and removes rows a few at a time.
The windows of `Summary`, `Rankings`, `Timeseries`, `Performance` and `GetClients` are sets of spans of
levels (`Reads`). `Explanations` has the notes workers leave per slot, the rows written with the events
and the sweep with its persisted cursor. `HistoryPages` is the cursor of a listing.

The wall clock does not go back here, and a restart takes at least one tick.

### ClientNames

The worker resolves addresses of the current view; the multicast loop keeps advertisements and publishes
names; both caches are saved and restored per scope, the settings discovery depends on. An
advertisement stands for the verified chain of records behind it. `heard` is a history variable: until
when each advertisement was last live. Views, advertisements and the room of the worker's queue come
from `Plans`, so that each behaviour stays small.

### AdminSessions, ApiTokens

A login reads the hash, is admitted by the attempt window, verifies outside the lock and opens its
session under it. A change publishes in the store first and installs afterwards; the watcher installs
what the store serves. `ApiTokens` has the file, what a power loss may leave of it, and the tokens that
authenticate; a failing sync of the directory is ignored by the code, and `TokensCurrent` excuses
exactly the tokens such a sync and a power loss concern.

## 3. Runs

| Run | Instance | Shows |
|---|---|---|
| `dhcp_crash` | 2 clients, 1 address on the link and 1 off it, 1 restart, the lease time shrinks, clock set once, forward or back | `NoDoubleGrant`, `DurableFirst`, `NakOnlyIneligible` |
| `dhcp_change` | 2 addresses, the pool moves, queue and batch of 2, with fairness | `WritesApply`, `WritesSettle`, `ApplyAnswered` |
| `dhcp_reserve` | 2 addresses, the pool shrinks to one that becomes reserved, queue of 1 | `AlwaysRecoverable`, `Bookkeeping` |
| `lifecycle` | 3 requests, 2 keys, 2 workers, 1 refresh; a slot of each size, 1 worker, 1 connection, 2 jobs; with fairness | `BudgetExact`, `JoinableIsLive`, `CloseCompletes`; `ResourcesOutliveUsers`, `StopCompletes` |
| `upstream` | 2 exchanges, 2 endpoints in any order, threshold 2, with fairness | `ProbeHasOwner`, `CircuitConsistent`, `OnlyProbeCloses`, `Recovers` |
| `supervisor` | 5 generations: enable, change, refused move, disable, enable elsewhere; faults everywhere; with fairness | `ExclusiveOwner` (one owner of socket and store, and no runtime that is not the supervisor's), `VisibleIsApplied`, `Converges`, `Released` |
| `config` | a valid text, a broken one and one with other listeners; failing preparations and syncs, kills, power loss | `ReplacesWhatWasRead`, `ServedIsComplete` |
| `config_power` | a plain text, one with other lists, one with credentials; 2 power losses; with fairness | `AlwaysRecoverable`, `AckedIsDurable`, `Settles` |
| `administration` | 2 boots, 2 events, 2 tiers of width 2 and 4, channel of 1; 3 rules in 2 slots, 4 events; 4 rows in pages of 2; 1 address under 3 plans of views, 1 restart; 2 logins, a password request and a restore; 3 tokens, 2 crashes | `CompleteIsExact`; `ExplanationStays`, `SweepLeavesNothing`; `PagesExact`; `ShownIsKnown`, `NeverOlder`; `CredentialsCurrent` |
| `resolution` | 2 devices, 9 questions, 2 configurations that swap upstreams; 2 documents, 2 edits and 5 addresses, one multicast and one with a zone; 3 questions in a bucket of 2 ways and 4 blocks; 2 readers, 3 configurations with DHCP on, off and on, 3 views of leases; 3 route tables; 2 exchanges, 2 sockets | `AnswersAreOwn`; `EffectiveMatchesDocument`, `PreviewIsComplete`; `ArenaExact`, `ImplementsAnswerCache`; `CapturedNames`; `TransportsAccounted` |
| `config_cleanup`, `config_correction` | small | the findings below |

Two clients on one address is where double grants happen; the off-link address makes the server
refuse a REQUEST. Two addresses are needed to move. A queue of one makes admission fail. In
`administration` the second tier makes windows with an edge in each finer level, one boot loses what the other must not
hide, two rules that share a slot are what a wrong explanation needs, and a third version of the
password can be the first one again. In `resolution` the two
configurations exchange their upstreams, so that a route number means another server after a reload, and
one device is blocked from what the other is allowed; two large answers do not fit the arena, and three
questions do not fit their bucket; the second edit meets what the first one left. Of the three views of leases
one is there, one is committed under a configuration that is no longer the newest, and one belongs to the third
configuration, which the runtime is given or restarted for. Deadlock
checking is off where the bounds or a closed table let the system stop, and on for `upstream`.

A restart on a wall clock that was set forward is not claimed to be safe: the row keeps a wall time,
and after the restart only that is left. `Anchored` is the condition, and the client-side properties
of `DhcpLease` carry it.

Fairness. `DhcpLease`: the writer, the owner loop and its retry of a pending Apply are goroutines
that run whenever they can; nothing is assumed of clients, of the network, or of time. `Flights`:
cancelled work ends, because every exchange honours its context, and a waiter whose work is done
returns; nothing is assumed of work that is still wanted. `ServiceLifecycle`: goroutines that can go on
do; handlers and hooks return, since each has a deadline; a connection whose context is cancelled is
closed. Nothing is assumed of peers, and nothing of administration requests. `Upstream`:
requests keep coming, `order` puts each preferred endpoint first again and again (its exploration of
every sixteenth selection), attempts have deadlines, not all claims are cancelled and not all attempts
at an endpoint fail; this is the premise of `Recovers`.
`DhcpSupervisor`: the watcher ticks, the gate is handed on, and worker and runtimes run; strong
fairness of `FinishClosing` says that a caller's deadline does not beat a finished close every time.
`Converges` has the premise `Timely`: from some time on no diagnostic takes the gate and no deadline
cuts an `Apply` or its decision short, since each such cut only leads to another try. No fault is ever
forced by fairness: `RuntimeFails` is outside it. `ConfigStore`: the program is started again after a
crash, the holder of the build lock goes on, the watcher polls and gets the lock; for `Settles` also
that the daily refresh keeps coming (`RefreshingSpec`).

### Findings

* `config_cleanup`. A process killed between the rename of `active.manifest` and the sync of its
  directory restarts, recovers from the renamed manifest and removes every other artifact
  (`recovery.go` 334). If power is lost before that directory is synced, the old manifest comes back and
  its artifact is gone, so recovery fails and the program depends on the file and on the network. The
  comment before `cleanupSubscriptions` excludes removing "the durable manifest's reference". The same
  follows from a failed sync and a failed start. A sync of the state directory in `recover` would
  close it.
* `config_correction`. After an invalid edit the owner puts the active text back: `reload` finds it
  active already and returns before anything clears the error, which stays in the status until a
  save, a refresh job or the daily refresh.

`config_power` is therefore without kills and failing syncs; with them the first finding loses the
manifest. `config` has both, and checks what still holds. With a failing sync of a manifest rewritten
for other built-in lists, the next activation starts again from generation one.

Four facts beside them. When the sync of the manifest fails during a restore and an editor replaces
the file, `discardUnreferenced` (`restore.go` 210) removes the credentials that the visible manifest
names: `AlwaysRecoverable` fails with `SyncFails = TRUE` and the texts `plain` and `sealed`. A save
followed within one poll by an edit that takes it back is not
seen by the watcher, which compares with the last text it saw (`watch.go` 33), so the file waits for
the refresh. The error of a conflicting save stays in the status until the next activation. And a device that
asks from an address with a zone (`fe80::1%eth0`) is selected by the address without it (`client_policy_view.go` 88),
but the explanation compares without removing it (`client_policy_explain.go` 52) and reports "cidr" where the guide
promises "the actual matching method" (`guides/configuration.md` 303): `EffectiveMatchesDocument` fails in its first
state without the condition on zones.

## 4. Proofs

`LifecycleProofs` proves the invariants of `Flights` for all requests, keys, flights and limits. They
are not inductive by themselves. The inductive invariant adds `Attached`: a worker that is not
cancelled is the one its key leads to. It is what makes uniqueness per key follow from the table
being a function, and what makes `close`, which only walks the table, reach every worker. The proof
that the last waiter detaches only work nobody wants rests on `WaitersExact` (a flight's own count is
the number of requests that wait for it), hence on cardinalities of finite sets. `LiveCounted` is
`JoinableIsLive` in terms of that count; the theorem `JoinsLiveWork` turns it into a request that
really waits. Assumed of the constants (`FlightsAssumption`): finite sets of requests and flights,
and positive limits.

The same module proves `ResourcesOutliveUsers` of `ServiceLifecycle` for any slots, workers, connections and
jobs. `StageSound` says what has ended at each step of the stop and what is still open; `JobsSound` that at
most one hook runs, and none once the jobs are joined: the reason why waiting for the last goroutine is
enough; `HoldersSound` what a worker and a connection hold at each of their steps, and nothing once their
listener has ended; `SlotsExact` that the slots of a size add up, by cardinalities of their holders. Assumed
(`ServiceAssumption`): a number of slots per size, and finitely many workers and connections.

`UpstreamProofs` proves the safety properties of `Upstream` for every pool, threshold and number of
exchanges. `ProbeHasOwner` counts the exchanges that probe an endpoint; the induction uses `Owned`
instead, which says the same without cardinalities: an open circuit hears at most one attempt, and
hears one exactly while it is half-open. `Owned` and `CircuitConsistent` need each other: only an open
circuit is half-open, and a circuit stays consistent only because the attempt it hears is its probe.
Only `record` writes a circuit after its claim, so the lemma `RecordKeeps` treats all ways an attempt
can end at once. Assumed (`UpstreamAssumption`): pools without repetition, a primary pool that is not
empty, positive limits, a longest backoff no shorter than the first.

`DhcpTables` and `DhcpLeaseProofs` prove the safety properties of `DhcpLease` for any clients, finite
set of addresses, settings, timers, queue and batch sizes and number of restarts. The invariant has three
layers. `Books` relates the tables of the engine: both indexes, the bitmap, the probe budget, tokens that
are all different and not from the future, entries whose fields fit their state (`Sound`), and the
capacity and reservations of the settings (`Fits`). `InFlight` relates them to the store: each message is
the write of exactly one entry that waits for it, and a row of the table is what the entry calls
committed, or what its pending write makes of it where the completion has not been taken. It is what
makes every batch apply (`WritesApply`): a conflict of two writes would be a conflict of two entries. And
`Protected` relates them to the clients: a lease somebody holds is a durable entry of that client that
lasts at least as long on the monotonic clock, and that is not about to be deleted. `NoDoubleGrant` follows
because an address has one entry and an entry one client; `NakOnlyIneligible` because the engine looks up
an entry it finds. Without a runtime (`Down`) the table alone carries the promise, and `Restart` rebuilds
the three layers from it. `DhcpTables` holds the lemmas about the operators: what setting, dropping,
probing, committing and failing an entry does to `Books` and `InFlight`, what a batch does to the table,
and what `Restore` makes of it. `DhcpLeaseProofs` has one lemma per action. `NoDoubleGrant`,
`GrantIsDurable` and `NakOnlyIneligible` keep the premise `Anchored` in the theorems. Assumed
(`DhcpAssumption`, `AbsentAssumption`): a finite set of addresses, positive timers and sizes, settings whose
reservations are usable, one to one and within the capacity, as validation has it, and markers of absence that are no rows, entries or tokens.

`DhcpSupervisorProofs` proves `ExclusiveOwner` and `VisibleIsApplied` for every sequence of settings and
every placement of faults. The first needs `RuntimeKept` (where the runtime is at each stage of the
worker), `GateHeld` (the gate is the worker's exactly while it works, which is why a worker whose caller
has gone still keeps a diagnostic and a second worker out) and `ShuttingDown`. The second needs `Forward`
(generations applied, installed, requested or closed for are never beyond the desired one, and a request
not yet answered is ahead of what is installed) and `SameTopology`, which covers what a runtime may
still install for a caller that has left. Assumed (`SupervisorAssumption`): a sequence of settings, not
empty.

`ConfigStoreProofs` proves `ServedIsComplete` and `ReplacesWhatWasRead` with failing syncs, kills and
power losses: from the preparation on, the build lock keeps what the candidate needs on disk
(`Prepared`), and between the rename and the sync of the manifest it is the candidate's (`Committed`).
`AlwaysRecoverable` and `AckedIsDurable` are proved under `~SyncFails` and `~Kills`, which the theorems
name: with either the run `config_cleanup` shows that they fail. Their invariant `DInv` says that outside
of the one step between rename and sync there is a single manifest a power loss can leave, the one being
served (`Synced`).

`ResolutionProofs` proves `ArenaExact` and the refinement of `AnswerCache` for any questions, hash, number of
buckets, ways and blocks, and sizes of answers. The invariant says of the table that a slot is blank or
holds an answer of its bucket inside the arena (`Placed`), that a question has one slot (`Unique`), that
each block is marked for one answer (`Marked`) and that the statistics count them (`Counted`); of the put
under way that its question has no slot and the slot it will fill is free (`Pending`), which evictions
for space keep because they only free slots. `Clock` and `Sweep` are about the hand: what it has passed has lost
its reference, or was free, so a victim is found within the turns of the loops, and where no victim is left
the arena is free and the put fits. Hence the theorem `PutsSucceed`, which no run states: `put` never gives
up on a message that fits, and never stores at slot -1. `Store` maps to
`Store` of `AnswerCache`; the removal of a slot by a put, an eviction or a lookup to `Forget`. Assumed (`CacheAssumption`): positive
sizes, and a bucket for each question.

Four more parts are proved there. `Pipeline`, for any configurations, policies, questions and replies
(`AnswersStayOwn`: `AnswersFromOwnRoute` and `PrivateStaysLocal`): routes are numbered anew in every
configuration, so that a number alone says nothing. What is cached for a key comes from the upstream of its
route in the configuration of its generation (`KeptSound`), a shared exchange has the configuration of its key
(`FlightsSound`), also when it is joined by others or begun by a stale hit, and a request keeps its
generation, its view of the leases and hence its key while it waits (`RequestSound`); so the reply to a key
is that of the upstream of everybody who waits for it. A request that may still be sent is not about a
private name, because it was refused before it was admitted. Nothing is assumed of the constants.

The other three are proved for any configurations and any number of users. `LeaseNames`
(`CapturedNames`): whatever the cache holds is what would be built from the view and the configuration it
names (`CacheSound`), and a reader at each step has a source no older than the last view when it began
(`ReaderSound`); that a refresh of lifetimes yields what a new build would yield is the lemma `LnRefreshed`,
and that a generated label is free because some number up to the count of the taken ones is not taken
`LnFallback`. Assumed (`LeaseNamesAssumption`): finitely many names, and no label reserved twice, which
validation refuses. `Routes` (half of `TransportsAccounted`): a client is open exactly while its lifetime leads to
it, its callback is armed, started or stopped as its lifetime requires (`ClientSound`), and no lifetime ever
gets a second client (`OneClient`), since one that has ended does not return. Assumed (`RoutesAssumption`): a sequence
of configurations in which a lifetime, once gone, does not come back; it is a context. `Connections` (the
other half): a socket has one owner among exchanges, the idle place and HTTP (`OneOwner`), the closer of a lease
fits its context (`LeaseSound`), and what is open is in the table of the client with an owner, or in the hands of `Close`
(`Tracked`); so a timer or a closer that runs late finds the socket of its own lease or nothing.

`AdministrationProofs` proves the properties of five parts. `AdminSessions` and `ApiTokens` (`CredentialsCurrent`): a
session was opened with the hash that is installed, and that hash was published no earlier than the last
completed change (`AsBound`); what was reported of a token is in the file, and in everything a power loss may
leave but for mutations whose sync failed (`Reported`), at each step of a mutation (`OpSound`). Assumed: a limit of sessions
that is a number (`SessionsAssumption`), and that a missing file is told from an empty one
(`TokensAssumption`). `HistoryPages` (`PagesExact`), for pages of any size: between two pages nothing below the ceiling
is new, and what was there first and has been neither shown nor expired lies behind the last row shown
(`Underway`); the last row of a page exists because the rows are finite and their order is total. Assumed (`PagesAssumption`): a page has at
least one row, as `Query` enforces. `Explanations` (`ExplanationStays`, `SweepLeavesNothing`), for any rules, slots and
limits: event numbers are unique, a row has the text of its rule, and every row no event refers to is ahead of the
sweep's cursor and before its end, or beyond the place the sweep goes back to (`Covers` in `ExInv`). A sweep
that has reached its end and has nowhere to go back to has therefore left no orphan, also when rows were added
behind it between two steps. Nothing is assumed beyond `HistoryAssumption`.

The fifth part is `ClientNames` (`ShownIsKnown`, `NeverOlder`), for any configurations, advertisements, lifetimes and
retention. What is kept about a multicast name in memory and in the database, and each record the loop holds, is tied to
what was heard: live evidence was heard for no shorter than it is live (`Evident`, `Supported`), and a name was heard at or after the time it
was last confirmed (`Confirmed`). The second is what makes a name expire in time although weaker renewals, restarts and
recoveries keep it: `NmPrefer` and `NmEnriched` say that a name that is kept keeps its time of confirmation,
and that one chosen again is chosen from live evidence. `WorkSound` says that what the worker is about to store is
newer than all that is cached or still to be read from the database. Time is handled once, by `Later`: what was heard is
there until its retention is over. Assumed (`NamesAssumption`): a configuration from the start, overrides with names that are
not empty, finitely many addresses, and durations and ranks that are numbers.

All inductive invariants were checked by TLC on the instances of the runs before they were proved. An
invariant of an instance has the prefix of its lemmas (`SlInv`, `LnInv`, `RtInv`, `CnInv`, `AsInv`, `AtInv`,
`HpInv`, `ExInv`, `NmInv`, `PlInv`). The lemmas that an operator of the library means the same inside an instance (`LnMin`,
`HpCardinality`, ...) are there for the prover, which takes the two for different operators.

Only model-checked:

* Liveness (`WritesSettle`, `ApplyAnswered`, `CloseCompletes`, `StopCompletes`, `Recovers`, `Converges`,
  `Released`, `Settles`): it needs fairness and ENABLED, which the prover does not handle.
* What a recursive computation yields for every input needs induction over data, which the prover does not
  do: the totals of windows (`CompleteIsExact`), the chains of aliases and the indexes of rules
  (`AnswersObeyPolicy` in `AnswersAreOwn`, whose other two parts are proved; `EffectiveMatchesDocument`,
  `PreviewIsComplete`).

## 5. Plan

Modelled: all parts in the table of section 2; proved: all their safety properties but those that need
induction over data.

Worth a model later: the quarantine of UDP query identifiers (`upstream/ids.go`), the refresh of lists
with a last known good version (`lists/refresh.go`), the directory protocol of the lease store, and an
abstract configuration register that `ConfigStore` implements.

## 6. Not modelled

Encodings: DNS and DHCP packets, YAML text and its splicing, list formats, SQL text, archives. Input and
output: sockets, TLS, HTTP framing, the web interface, the command line, the MCP server. Heuristics
that only decorate: icons, device categories, guesses from DNS, device rules. The scheduling of
multicast questions, which decides how soon a name is found and not which. Schema migrations of the
history database. Live counters and latency histograms. Benchmarks, deployment scripts, embedded data.
