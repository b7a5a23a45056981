---------------------------- MODULE DhcpSupervisor ----------------------------
(***************************************************************************)
(* The DHCP supervisor (internal/app/dhcp.go): the configuration watcher   *)
(* asks it once a second to bring the one DHCP runtime to the newest       *)
(* settings. The work may outlive the caller's deadline; it then goes on   *)
(* behind the gate. A setup diagnostic borrows the gate to open a          *)
(* temporary socket, and shutdown may come at any moment.                  *)
(***************************************************************************)
EXTENDS Integers, FiniteSets, Sequences

CONSTANTS
  Settings,    \* Settings[g]: the DHCP settings of configuration generation g
  Runtimes,    \* runtime objects, reused once nothing refers to them
  None,
  Faults       \* whether sockets, stores and runtimes fail

Generations == 1..Len(Settings)
Disabled == [enabled |-> FALSE, topology |-> 0]
SettingsOf(g) == IF g = 0 THEN Disabled ELSE Settings[g]

ASSUME SupervisorAssumption ==
  /\ None \notin Runtimes
  /\ Faults \in BOOLEAN
  /\ Settings \in Seq([enabled : BOOLEAN, topology : Nat]) /\ Settings # <<>>

VARIABLES
  published,   \* generation of the newest configuration snapshot
  watcher,     \* [at, g]: the watcher is idle, at the gate, or waits for the worker
  gate,        \* who holds the gate
  worker,      \* [at, g, live]: where reconcile is, and whether its caller still waits
  desired, applied, pending,   \* generations of the status; applied also names s.applied
  enabled,     \* status.AppliedEnabled
  state,       \* status.State
  attempt,     \* [g, err]: the last generation tried while no runtime existed
  closing,     \* the generation a runtime is being closed for, 0 when none is
  runtime,     \* the supervisor's runtime, done or not
  phase,       \* phase[r]: "run", "stop" or "gone" (its done channel is closed)
  failed,      \* failed[r]: its terminal error is set
  gen,         \* gen[r]: the generation its engine has installed
  request,     \* request[r]: [g, live, reply], its pending Apply and the caller's deadline
  closed,
  closer       \* where the caller of Close is

status == <<desired, applied, pending, enabled, state, attempt, closing>>
objects == <<phase, failed, gen, request>>
vars == <<published, watcher, gate, worker, status, runtime, objects, closed, closer>>

NoRequest == [g |-> 0, live |-> FALSE, reply |-> "none"]
Idle == [at |-> "idle", g |-> 0, live |-> FALSE]

Init ==
  /\ published = 1
  /\ watcher = [at |-> "idle", g |-> 0]
  /\ gate = "free"
  /\ worker = Idle
  /\ desired = 0 /\ applied = 0 /\ pending = 0
  /\ enabled = FALSE /\ state = "disabled"
  /\ attempt = [g |-> 0, err |-> FALSE]
  /\ closing = 0
  /\ runtime = None
  /\ phase = [r \in Runtimes |-> "gone"]
  /\ failed = [r \in Runtimes |-> FALSE]
  /\ gen = [r \in Runtimes |-> 0]
  /\ request = [r \in Runtimes |-> NoRequest]
  /\ closed = FALSE /\ closer = "none"

-----------------------------------------------------------------------------
(* The configuration and the watcher's loop.                               *)

Publish ==
  /\ published < Len(Settings)
  /\ published' = published + 1
  /\ UNCHANGED <<watcher, gate, worker, status, runtime, objects, closed, closer>>

\* A tick: the watcher reads the snapshot and calls Reconcile.
Watch ==
  /\ watcher.at = "idle" /\ ~closed
  /\ watcher' = [at |-> "gate", g |-> published]
  /\ UNCHANGED <<published, gate, worker, status, runtime, objects, closed, closer>>

\* The call's deadline passes: the caller leaves, the work goes on.
Expire ==
  /\ watcher.at # "idle"
  /\ watcher' = [at |-> "idle", g |-> 0]
  /\ worker' = IF watcher.at = "call" THEN [worker EXCEPT !.live = FALSE] ELSE worker
  /\ request' = IF watcher.at = "call"
                THEN [r \in Runtimes |-> [request[r] EXCEPT !.live = FALSE]] ELSE request
  /\ UNCHANGED <<published, gate, status, runtime, phase, failed, gen, closed, closer>>

\* The worker's result reaches the caller that still waits, and the gate opens.
Release ==
  /\ worker' = Idle
  /\ gate' = "free"
  /\ watcher' = IF worker.live THEN [at |-> "idle", g |-> 0] ELSE watcher

\* reconcile returns through its failed closure.
Failed ==
  /\ attempt' = [g |-> worker.g, err |-> TRUE]
  /\ state' = IF runtime = None THEN "error" ELSE "degraded"
  /\ Release

GoTo(stage) == worker' = [worker EXCEPT !.at = stage]

-----------------------------------------------------------------------------
(* Reconcile and reconcile. The worker holds the gate in all of them.      *)

\* The call takes the gate of an open supervisor. The watcher's generations
\* never go down, so none is obsolete.
Enter ==
  /\ watcher.at = "gate" /\ gate = "free" /\ ~closed
  /\ watcher.g >= desired
  /\ gate' = "worker"
  /\ watcher' = [watcher EXCEPT !.at = "call"]
  /\ desired' = watcher.g
  /\ pending' = IF applied # watcher.g THEN watcher.g ELSE pending
  /\ worker' = [at |-> IF closing # 0 THEN "finishing" ELSE "decide",
                g |-> watcher.g, live |-> TRUE]
  /\ UNCHANGED <<published, applied, enabled, state, attempt, closing, runtime, objects,
                 closed, closer>>

\* The supervisor was closed while the call waited.
Refused ==
  /\ watcher.at = "gate" /\ gate = "free" /\ closed
  /\ watcher' = [at |-> "idle", g |-> 0]
  /\ UNCHANGED <<published, gate, worker, status, runtime, objects, closed, closer>>

Cancel(r) == phase' = IF r # None /\ phase[r] = "run" THEN [phase EXCEPT ![r] = "stop"] ELSE phase

\* Mistake: an attempt that failed while the runtime closed stays latched.
FinishClosingLatched ==
  /\ worker.at \in {"finishing", "disabling"}
  /\ phase[runtime] = "gone"
  /\ runtime' = None
  /\ closing' = 0
  /\ applied' = closing
  /\ enabled' = FALSE /\ state' = "disabled"
  /\ UNCHANGED attempt
  /\ GoTo(IF worker.at = "finishing" THEN "decide" ELSE "publish")
  /\ UNCHANGED <<published, watcher, gate, desired, pending, objects, closed, closer>>

\* The runtime that was being closed is done: the disabled boundary it was
\* closed for is recorded even when a newer generation is desired.
FinishClosing ==
  /\ worker.at \in {"finishing", "disabling"}
  /\ phase[runtime] = "gone"
  /\ runtime' = None
  /\ closing' = 0
  /\ applied' = closing
  /\ enabled' = FALSE /\ state' = "disabled"
  /\ attempt' = [g |-> 0, err |-> FALSE]
  /\ GoTo(IF worker.at = "finishing" THEN "decide" ELSE "publish")
  /\ UNCHANGED <<published, watcher, gate, desired, pending, objects, closed, closer>>

\* The caller's deadline ends the wait for the runtime; closing stays on.
FinishExpires ==
  /\ worker.at \in {"finishing", "disabling"} /\ ~worker.live
  /\ Failed
  /\ UNCHANGED <<published, desired, applied, pending, enabled, closing, runtime, objects,
                 closed, closer>>

\* Mistake: only an interface that disappears is refused.
AllowedAlways(old, next) == old.enabled /\ next.enabled => next.topology # 0

Allowed(old, next) == old.enabled /\ next.enabled => old.topology = next.topology

\* Interface, subnet or domain changed without a disable in between.
RejectTransition ==
  /\ worker.at = "decide"
  /\ ~Allowed(SettingsOf(applied), Settings[worker.g])
  /\ Failed
  /\ UNCHANGED <<published, desired, applied, pending, enabled, closing, runtime, objects,
                 closed, closer>>

\* A disable hides the dynamic names at once and cancels the runtime.
Disable ==
  /\ worker.at = "decide"
  /\ ~Settings[worker.g].enabled
  /\ enabled' = FALSE
  /\ closing' = IF runtime # None THEN worker.g ELSE closing
  /\ Cancel(runtime)
  /\ GoTo(IF runtime # None THEN "disabling" ELSE "publish")
  /\ UNCHANGED <<published, watcher, gate, desired, applied, pending, state, attempt, runtime,
                 failed, gen, request, closed, closer>>

Enabling ==
  /\ worker.at = "decide"
  /\ Settings[worker.g].enabled /\ Allowed(SettingsOf(applied), Settings[worker.g])

\* The runtime has failed for good: only a disable recovers it.
RuntimeBroken ==
  /\ Enabling /\ runtime # None
  /\ failed[runtime]
  /\ Failed
  /\ UNCHANGED <<published, desired, applied, pending, enabled, closing, runtime, objects,
                 closed, closer>>

\* An Apply that raced its caller's deadline is found installed.
AlreadyInstalled ==
  /\ Enabling /\ runtime # None
  /\ ~failed[runtime] /\ gen[runtime] = worker.g
  /\ GoTo("publish")
  /\ UNCHANGED <<published, watcher, gate, status, runtime, objects, closed, closer>>

\* The runtime takes the request, unless it stops or has one already.
SendApply ==
  /\ Enabling /\ runtime # None
  /\ ~failed[runtime] /\ gen[runtime] # worker.g
  /\ phase[runtime] = "run" /\ request[runtime].g = 0
  /\ request' = [request EXCEPT ![runtime] = [g |-> worker.g, live |-> worker.live,
                                              reply |-> "none"]]
  /\ GoTo("apply")
  /\ UNCHANGED <<published, watcher, gate, status, runtime, phase, failed, gen, closed, closer>>

ApplyNotTaken ==
  /\ Enabling /\ runtime # None
  /\ ~failed[runtime] /\ gen[runtime] # worker.g
  /\ \/ phase[runtime] # "run" \/ ~worker.live
     \/ request[runtime].g # 0 /\ request[runtime].reply = "none"
  /\ Failed
  /\ UNCHANGED <<published, desired, applied, pending, enabled, closing, runtime, objects,
                 closed, closer>>

\* The worker takes the runtime's answer.
ApplyAnswered ==
  /\ worker.at = "apply"
  /\ request[runtime].reply = "ok"
  /\ request' = [request EXCEPT ![runtime] = NoRequest]
  /\ GoTo("publish")
  /\ UNCHANGED <<published, watcher, gate, status, runtime, phase, failed, gen, closed, closer>>

\* The runtime refused, it stops, or the deadline passed. A request that it
\* has not answered yet stays with it.
ApplyFails ==
  /\ worker.at = "apply"
  /\ request[runtime].reply = "error" \/ phase[runtime] # "run" \/ ~worker.live
  /\ request' = IF request[runtime].reply \in {"none", "checked"} THEN request
                ELSE [request EXCEPT ![runtime] = NoRequest]
  /\ Failed
  /\ UNCHANGED <<published, desired, applied, pending, enabled, closing, runtime, phase, failed,
                 gen, closed, closer>>

\* A start that failed for this generation is not tried again.
StartLatched ==
  /\ Enabling /\ runtime = None
  /\ attempt.g = worker.g
  /\ Release
  /\ UNCHANGED <<published, status, runtime, objects, closed, closer>>

StartPrepare ==
  /\ Enabling /\ runtime = None
  /\ attempt.g # worker.g
  /\ state' = "starting"
  /\ GoTo("link")
  /\ UNCHANGED <<published, watcher, gate, desired, applied, pending, enabled, attempt, closing,
                 runtime, objects, closed, closer>>

\* The worker holds the link from "linked" on and the store from "stored" on.
OpenLink ==
  /\ worker.at = "link"
  /\ GoTo("linked")
  /\ UNCHANGED <<published, watcher, gate, status, runtime, objects, closed, closer>>

OpenStore ==
  /\ worker.at = "linked" /\ ~closed
  /\ GoTo("stored")
  /\ UNCHANGED <<published, watcher, gate, status, runtime, objects, closed, closer>>

\* No socket, no store, or closed in between: nothing but the link is open.
PrepareFails ==
  /\ \/ worker.at = "link" /\ Faults
     \/ worker.at = "linked" /\ (Faults \/ closed)
  /\ Failed
  /\ UNCHANGED <<published, desired, applied, pending, enabled, closing, runtime, objects,
                 closed, closer>>

\* Mistake: closed is not read again once the store is open.
StartRuntimeAnyway(r) ==
  /\ worker.at = "stored"
  /\ phase[r] = "gone"
  /\ runtime' = r
  /\ phase' = [phase EXCEPT ![r] = "run"]
  /\ failed' = [failed EXCEPT ![r] = FALSE]
  /\ gen' = [gen EXCEPT ![r] = worker.g]
  /\ request' = [request EXCEPT ![r] = NoRequest]
  /\ GoTo("publish")
  /\ UNCHANGED <<published, watcher, gate, status, closed, closer>>

\* The runtime starts under the lock that also guards closed.
StartRuntime(r) ==
  /\ worker.at = "stored" /\ ~closed
  /\ phase[r] = "gone"
  /\ runtime' = r
  /\ phase' = [phase EXCEPT ![r] = "run"]
  /\ failed' = [failed EXCEPT ![r] = FALSE]
  /\ gen' = [gen EXCEPT ![r] = worker.g]
  /\ request' = [request EXCEPT ![r] = NoRequest]
  /\ GoTo("publish")
  /\ UNCHANGED <<published, watcher, gate, status, closed, closer>>

\* Recovery rejected the table, or closed: the store is closed, then the link.
StartAbandoned ==
  /\ worker.at = "stored" /\ (Faults \/ closed)
  /\ Failed
  /\ UNCHANGED <<published, desired, applied, pending, enabled, closing, runtime, objects,
                 closed, closer>>

PublishApplied ==
  /\ worker.at = "publish" /\ ~closed
  /\ applied' = worker.g /\ pending' = 0
  /\ enabled' = Settings[worker.g].enabled
  /\ state' = IF Settings[worker.g].enabled THEN "running" ELSE "disabled"
  /\ attempt' = [g |-> worker.g, err |-> FALSE]
  /\ Release
  /\ UNCHANGED <<published, desired, closing, runtime, objects, closed, closer>>

\* Closed before the publication: nothing becomes visible.
PublishRefused ==
  /\ worker.at = "publish" /\ closed
  /\ Release
  /\ UNCHANGED <<published, status, runtime, objects, closed, closer>>

Work ==
  \/ FinishClosing \/ FinishExpires \/ RejectTransition \/ Disable
  \/ RuntimeBroken \/ AlreadyInstalled \/ SendApply \/ ApplyNotTaken
  \/ ApplyAnswered \/ ApplyFails \/ StartLatched \/ StartPrepare
  \/ OpenLink \/ OpenStore \/ PrepareFails \/ StartAbandoned
  \/ PublishApplied \/ PublishRefused
  \/ \E r \in Runtimes : StartRuntime(r)

-----------------------------------------------------------------------------
(* The runtime's owner loop, as far as the supervisor sees it.             *)

\* The worker still waits for the answer to the request r has.
Awaited(r) == worker.at = "apply" /\ runtime = r

\* The loop finds the request's deadline still open ...
RuntimeChecks(r) ==
  /\ phase[r] = "run" /\ request[r].g # 0
  /\ request[r].reply = "none" /\ request[r].live
  /\ request' = [request EXCEPT ![r].reply = "checked"]
  /\ UNCHANGED <<published, watcher, gate, worker, status, runtime, phase, failed, gen,
                 closed, closer>>

\* ... and installs the settings, even if the caller has left in between.
RuntimeInstalls(r) ==
  /\ phase[r] = "run" /\ request[r].reply = "checked"
  /\ gen' = [gen EXCEPT ![r] = request[r].g]
  /\ request' = [request EXCEPT ![r] = IF Awaited(r) THEN [@ EXCEPT !.reply = "ok"] ELSE NoRequest]
  /\ UNCHANGED <<published, watcher, gate, worker, status, runtime, phase, failed,
                 closed, closer>>

\* The deadline has passed, or the engine rejects the settings.
RuntimeRefuses(r) ==
  /\ phase[r] = "run" /\ request[r].g # 0
  /\ \/ request[r].reply = "none" /\ ~request[r].live
     \/ request[r].reply = "checked" /\ Faults
  /\ request' = [request EXCEPT ![r] = IF Awaited(r) THEN [@ EXCEPT !.reply = "error"]
                                       ELSE NoRequest]
  /\ UNCHANGED <<published, watcher, gate, worker, status, runtime, phase, failed, gen,
                 closed, closer>>

\* A terminal failure of the transport or the store ends the loop.
RuntimeFails(r) ==
  /\ Faults /\ phase[r] = "run"
  /\ failed' = [failed EXCEPT ![r] = TRUE]
  /\ phase' = [phase EXCEPT ![r] = "stop"]
  /\ UNCHANGED <<published, watcher, gate, worker, status, runtime, gen, request, closed, closer>>

\* The link and the store are closed, and done with them.
RuntimeGone(r) ==
  /\ phase[r] = "stop"
  /\ phase' = [phase EXCEPT ![r] = "gone"]
  /\ UNCHANGED <<published, watcher, gate, worker, status, runtime, failed, gen, request,
                 closed, closer>>

RuntimeStep(r) == RuntimeChecks(r) \/ RuntimeInstalls(r) \/ RuntimeRefuses(r) \/ RuntimeGone(r)

-----------------------------------------------------------------------------
(* The setup diagnostic and shutdown.                                      *)

\* Mistake: the diagnostic opens its socket beside a runtime.
DiagnoseBeside ==
  /\ gate = "free" /\ ~closed
  /\ gate' = "diagnostic"
  /\ UNCHANGED <<published, watcher, worker, status, runtime, objects, closed, closer>>

\* With no runtime the diagnostic opens a temporary link behind the gate.
Diagnose ==
  /\ gate = "free" /\ ~closed /\ runtime = None
  /\ gate' = "diagnostic"
  /\ UNCHANGED <<published, watcher, worker, status, runtime, objects, closed, closer>>

DiagnoseEnds ==
  /\ gate = "diagnostic"
  /\ gate' = "free"
  /\ UNCHANGED <<published, watcher, worker, status, runtime, objects, closed, closer>>

\* Shutdown cancels the watcher's context, then calls Close, which hides
\* everything and cancels the runtime it finds.
Close ==
  /\ closer = "none"
  /\ closed' = TRUE
  /\ enabled' = FALSE /\ state' = "degraded"
  /\ Cancel(runtime)
  /\ closer' = IF runtime = None THEN "gate" ELSE "runtime"
  /\ worker' = [worker EXCEPT !.live = FALSE]
  /\ request' = [r \in Runtimes |-> [request[r] EXCEPT !.live = FALSE]]
  /\ watcher' = IF watcher.at = "call" THEN [at |-> "idle", g |-> 0] ELSE watcher
  /\ UNCHANGED <<published, gate, desired, applied, pending, attempt, closing, runtime, failed, gen>>

CloseRuntimeDone ==
  /\ closer = "runtime"
  /\ \A r \in Runtimes : r = runtime => phase[r] = "gone"
  /\ closer' = "gate"
  /\ UNCHANGED <<published, watcher, gate, worker, status, runtime, objects, closed>>

CloseReturns ==
  /\ closer = "gate" /\ gate = "free"
  /\ enabled' = FALSE /\ state' = "disabled"
  /\ runtime' = None
  /\ closer' = "returned"
  /\ UNCHANGED <<published, watcher, gate, worker, desired, applied, pending, attempt, closing,
                 objects, closed>>

\* Two seconds have passed; the process goes on without waiting.
CloseExpires ==
  /\ closer \in {"runtime", "gate"}
  /\ closer' = "expired"
  /\ UNCHANGED <<published, watcher, gate, worker, status, runtime, objects, closed>>

Next ==
  \/ Publish \/ Watch \/ Expire \/ Enter \/ Refused \/ Work
  \/ \E r \in Runtimes : RuntimeStep(r) \/ RuntimeFails(r)
  \/ Diagnose \/ DiagnoseEnds
  \/ Close \/ CloseRuntimeDone \/ CloseReturns \/ CloseExpires

Spec == Init /\ [][Next]_vars

\* The watcher ticks, the gate is handed on, the worker and the runtime are
\* goroutines that run, and a deadline does not beat a finished close every time.
Fairness ==
  /\ WF_vars(Watch) /\ SF_vars(Enter) /\ WF_vars(Refused)
  /\ WF_vars(Work) /\ SF_vars(FinishClosing)
  /\ \A r \in Runtimes : WF_vars(RuntimeStep(r))
  /\ WF_vars(DiagnoseEnds)

FairSpec == Spec /\ Fairness

-----------------------------------------------------------------------------
(* Properties.                                                             *)

WorkerStages == {"idle", "finishing", "disabling", "decide", "apply", "link", "linked", "stored",
                 "publish"}

Watchers == [at : {"idle", "gate", "call"}, g : 0..published]
Workers == [at : WorkerStages, g : 0..published, live : BOOLEAN]
Attempts == [g : 0..published, err : BOOLEAN]
Requests == [g : 0..published, live : BOOLEAN, reply : {"none", "checked", "ok", "error"}]
States == {"disabled", "starting", "running", "degraded", "error"}

\* Types; nothing refers to a generation that is not published yet.
TypeOK ==
  /\ published \in Generations
  /\ watcher \in Watchers
  /\ gate \in {"free", "worker", "diagnostic"}
  /\ worker \in Workers
  /\ {desired, applied, pending, closing} \subseteq 0..published
  /\ enabled \in BOOLEAN /\ closed \in BOOLEAN
  /\ state \in States
  /\ attempt \in Attempts
  /\ runtime \in Runtimes \cup {None}
  /\ phase \in [Runtimes -> {"run", "stop", "gone"}]
  /\ failed \in [Runtimes -> BOOLEAN]
  /\ gen \in [Runtimes -> 0..published]
  /\ request \in [Runtimes -> Requests]
  /\ closer \in {"none", "runtime", "gate", "returned", "expired"}

\* Who holds a raw DHCP socket, and who holds the lease database.
LinkOwners ==
  {r \in Runtimes : phase[r] # "gone"}
    \cup (IF worker.at \in {"linked", "stored"} THEN {"worker"} ELSE {})
    \cup (IF gate = "diagnostic" THEN {"diagnostic"} ELSE {})

\* What DNS sees through View and Projection.
Visible == enabled /\ ~closed /\ closing = 0 /\ runtime # None

\* The socket and the lease database have one owner at a time: no new runtime is
\* prepared, and no diagnostic opens a socket, while an old one is still closing
\* (dhcp.go 306: Done, not a deadline, decides when another writer may recover).
\* When Close returns without an error nothing is open, and it stays so, whatever
\* preparation was under way. Every live runtime is the supervisor's own, so that
\* a disable or Close finds it.
ExclusiveOwner ==
  /\ Cardinality(LinkOwners) <= 1
  /\ closer = "returned" => LinkOwners = {} /\ runtime = None
  /\ \A r \in Runtimes : phase[r] # "gone" => r = runtime

\* What DNS may see is what the status calls applied: enabled settings, in a
\* runtime that has installed that generation or a newer one of the same topology.
\* Once a disable is decided nothing is visible, however long the close takes.
VisibleIsApplied ==
  Visible => /\ SettingsOf(applied).enabled
             /\ gen[runtime] >= applied
             /\ SettingsOf(gen[runtime]).topology = SettingsOf(applied).topology
             /\ SettingsOf(desired).enabled \/ worker.at = "decide"

\* From some time on a running engine answers Apply before the deadline, and no
\* diagnostic runs.
Timely == <>[][gate' # "diagnostic" /\ ~(Expire /\ worker.at \in {"decide", "apply"})]_vars

\* The supervisor applies the newest configuration, or ends in a status that reports
\* an error, however often callers give up on a slow start, on a slow close or at
\* the gate.
Converges ==
  Timely => \/ <>[](applied = published \/ closed)
            \/ <>[](state \in {"error", "degraded"})

\* After shutdown has begun, everything the supervisor opened is closed, even
\* when Close itself has given up waiting.
Released == closed ~> LinkOwners = {}
==============================================================================
