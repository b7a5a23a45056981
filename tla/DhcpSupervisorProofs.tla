------------------------- MODULE DhcpSupervisorProofs -------------------------
(***************************************************************************)
(* Proofs about DhcpSupervisor, for any sequence of settings, any number   *)
(* of runtime objects, and with or without faults.                         *)
(***************************************************************************)
EXTENDS DhcpSupervisor, FiniteSetTheorems, TLAPS

\* The gate is the worker's exactly while it works, always on the newest
\* generation a caller has brought.
GateHeld ==
  /\ gate = "worker" <=> worker.at # "idle"
  /\ worker.at # "idle" => worker.g = desired /\ worker.g # 0
  /\ watcher.at # "idle" => watcher.g # 0

\* Where the supervisor's runtime is, stage by stage: a live one is always the
\* supervisor's, a new one is prepared and a diagnostic runs only while there is
\* none, and one that is being closed is kept until it is done.
RuntimeKept ==
  /\ \A r \in Runtimes : phase[r] # "gone" => r = runtime
  /\ gate = "diagnostic" => runtime = None
  /\ worker.at \in {"link", "linked", "stored"} => runtime = None
  /\ worker.at \in {"finishing", "disabling", "apply"} => runtime # None
  /\ closing # 0 => runtime # None \/ closer = "returned"
  /\ worker.at \notin {"idle", "finishing", "disabling"} => closing = 0

\* How far Close has come: it passes the runtime only when nothing lives, and
\* returns only when nobody holds the gate.
ShuttingDown ==
  /\ closed <=> closer # "none"
  /\ closer \in {"gate", "returned"} => \A r \in Runtimes : phase[r] = "gone"
  /\ closer = "returned" => gate = "free" /\ runtime = None

\* Generations only move forward: what is applied, installed, requested or being
\* closed for is never beyond what is desired, and a request that is not answered
\* yet is ahead of what its runtime has installed.
Forward ==
  /\ applied <= desired /\ closing <= desired
  /\ runtime # None => applied <= gen[runtime]
  /\ \A r \in Runtimes :
       /\ gen[r] <= desired /\ request[r].g <= desired
       /\ request[r].g # 0 /\ request[r].reply \in {"none", "checked"} => gen[r] < request[r].g
       /\ request[r].reply # "none" => request[r].g # 0
       /\ request[r].reply = "ok" => gen[r] = request[r].g
  /\ worker.at = "apply" => request[runtime].g = worker.g

\* What the worker is about to publish: a runtime that has installed it, or a
\* disable with no runtime left.
Publishing ==
  /\ worker.at = "publish" /\ runtime # None => gen[runtime] = worker.g
  /\ worker.at = "publish" /\ Settings[worker.g].enabled => runtime # None
  /\ worker.at = "disabling" => ~Settings[worker.g].enabled
  /\ worker.at \in {"apply", "link", "linked", "stored"} => Settings[worker.g].enabled

\* The status says enabled only of enabled settings with a runtime, and everything
\* that runtime has installed, or may still install, has their topology.
SameTopology ==
  enabled =>
    /\ runtime # None
    /\ SettingsOf(applied).enabled
    /\ SettingsOf(gen[runtime]).topology = SettingsOf(applied).topology
    /\ request[runtime].g # 0 /\ request[runtime].reply \in {"none", "checked"} =>
         SettingsOf(request[runtime].g).topology = SettingsOf(applied).topology

\* Names stay visible under a generation that disables them only until the worker
\* has decided.
DecidesFirst == Visible => SettingsOf(desired).enabled \/ worker.at = "decide"

\* The inductive invariant.
Parts ==
  GateHeld /\ RuntimeKept /\ ShuttingDown /\ Forward /\ Publishing /\ SameTopology /\ DecidesFirst

IInv == TypeOK /\ Parts

\* The settings are records, and there is a first generation.
LEMMA SettingsFacts ==
  /\ Len(Settings) \in Nat /\ Len(Settings) > 0
  /\ \A g \in 1..Len(Settings) : Settings[g] \in [enabled : BOOLEAN, topology : Nat]
  <1> DEFINE S == [enabled : BOOLEAN, topology : Nat]
  <1>1. Settings \in Seq(S) /\ Settings # <<>>
    BY SupervisorAssumption
  <1> HIDE DEF S
  <1>2. Len(Settings) \in Nat /\ Len(Settings) > 0 /\ \A g \in 1..Len(Settings) : Settings[g] \in S
    BY <1>1
  <1> QED
    BY <1>2 DEF S

\* The types depend on the published generation alone.
LEMMA SameTypes ==
  ASSUME published' = published
  PROVE  /\ Watchers' = Watchers /\ Workers' = Workers
         /\ Attempts' = Attempts /\ Requests' = Requests
  BY DEF Watchers, Workers, Attempts, Requests

\* What the types say of the fields.
LEMMA Fields ==
  ASSUME TypeOK
  PROVE  /\ published \in Nat /\ published > 0 /\ published <= Len(Settings)
         /\ watcher.at \in {"idle", "gate", "call"} /\ watcher.g \in 0..published
         /\ worker.at \in WorkerStages /\ worker.g \in 0..published /\ worker.live \in BOOLEAN
         /\ \A r \in Runtimes : request[r].g \in 0..published /\ gen[r] \in 0..published
  BY SettingsFacts DEF TypeOK, Generations, Watchers, Workers, Requests

\* The records that the steps assign, and the ones they update, are well typed.
LEMMA Updates ==
  ASSUME TypeOK
  PROVE  /\ [at |-> "idle", g |-> 0] \in Watchers
         /\ [watcher EXCEPT !.at = "call"] \in Watchers
         /\ Idle \in Workers
         /\ [worker EXCEPT !.live = FALSE] \in Workers
         /\ \A s \in WorkerStages : [worker EXCEPT !.at = s] \in Workers
         /\ NoRequest \in Requests
         /\ \A r \in Runtimes :
              /\ [request[r] EXCEPT !.live = FALSE] \in Requests
              /\ \A a \in {"checked", "ok", "error"} : [request[r] EXCEPT !.reply = a] \in Requests
  <1>1. 0 \in 0..published
    BY SettingsFacts DEF TypeOK, Generations
  <1>2. [at |-> "idle", g |-> 0] \in Watchers /\ [watcher EXCEPT !.at = "call"] \in Watchers
    BY <1>1 DEF TypeOK, Watchers
  <1>3. /\ Idle \in Workers /\ [worker EXCEPT !.live = FALSE] \in Workers
        /\ \A s \in WorkerStages : [worker EXCEPT !.at = s] \in Workers
    BY <1>1 DEF TypeOK, Idle, Workers, WorkerStages
  <1>4. NoRequest \in Requests
    BY <1>1 DEF NoRequest, Requests
  <1>5. ASSUME NEW r \in Runtimes
        PROVE  /\ [request[r] EXCEPT !.live = FALSE] \in Requests
               /\ \A a \in {"checked", "ok", "error"} : [request[r] EXCEPT !.reply = a] \in Requests
    BY DEF TypeOK, Requests
  <1> QED
    BY <1>2, <1>3, <1>4, <1>5

\* Everything is idle at first, and there is no runtime.
LEMMA InitIInv == Init => IInv
  <1> SUFFICES ASSUME Init PROVE IInv
    OBVIOUS
  <1>0. 1 \in Generations /\ 0 \in 0..1
    BY SettingsFacts DEF Generations
  <1>1. TypeOK
    <2>1. NoRequest \in Requests /\ Idle \in Workers
      BY <1>0 DEF Init, NoRequest, Requests, Idle, Workers, WorkerStages
    <2> QED
      BY <1>0, <2>1 DEF Init, TypeOK, Watchers, Attempts, States
  <1>2. Parts
    BY SupervisorAssumption DEF Init, Parts, GateHeld, RuntimeKept, ShuttingDown, Forward,
       Publishing, SameTopology, DecidesFirst, Visible, NoRequest, Idle
  <1> QED
    BY <1>1, <1>2 DEF IInv

\* A newer configuration touches nothing the invariant relates.
LEMMA PublishKeeps ==
  ASSUME IInv, Publish
  PROVE  IInv'
  <1> USE SettingsFacts, SupervisorAssumption, Fields
      DEF IInv, TypeOK, Parts, Generations, Publish, status, objects
  <1>1. TypeOK'
    <2>1. published' \in Generations /\ 0..published \subseteq 0..published'
      OBVIOUS
    <2>2. watcher \in Watchers' /\ worker \in Workers' /\ attempt \in Attempts'
      BY <2>1 DEF Watchers, Workers, Attempts
    <2>3. \A r \in Runtimes : request[r] \in Requests'
      BY <2>1 DEF Requests
    <2> QED
      BY <2>1, <2>2, <2>3 DEF States
  <1>2. GateHeld' /\ RuntimeKept' /\ ShuttingDown'
    BY DEF GateHeld, RuntimeKept, ShuttingDown
  <1>3. Forward' /\ Publishing'
    BY DEF GateHeld, RuntimeKept, Forward, Publishing
  <1>4. SameTopology'
    BY DEF GateHeld, RuntimeKept, Forward, Publishing, SameTopology, SettingsOf, Disabled
  <1>5. DecidesFirst'
    BY DEF GateHeld, RuntimeKept, Publishing, SameTopology, DecidesFirst, Visible, SettingsOf,
       Disabled
  <1> QED
    BY <1>1, <1>2, <1>3, <1>4, <1>5

\* The watcher reads a published generation.
LEMMA WatchKeeps ==
  ASSUME IInv, Watch
  PROVE  IInv'
  <1> USE SettingsFacts, SupervisorAssumption, Fields
      DEF IInv, TypeOK, Parts, Generations, Watch, status, objects
  <1>1. TypeOK'
    <2>1. watcher' \in Watchers
      BY DEF Watchers
    <2> QED
      BY SameTypes, <2>1
  <1>2. GateHeld' /\ RuntimeKept' /\ ShuttingDown'
    BY DEF GateHeld, RuntimeKept, ShuttingDown
  <1>3. Forward' /\ Publishing'
    BY DEF GateHeld, RuntimeKept, Forward, Publishing
  <1>4. SameTopology'
    BY DEF GateHeld, RuntimeKept, Forward, Publishing, SameTopology, SettingsOf, Disabled
  <1>5. DecidesFirst'
    BY DEF GateHeld, RuntimeKept, Publishing, SameTopology, DecidesFirst, Visible, SettingsOf,
       Disabled
  <1> QED
    BY <1>1, <1>2, <1>3, <1>4, <1>5

\* A caller that leaves changes nothing but who listens.
LEMMA ExpireKeeps ==
  ASSUME IInv, Expire
  PROVE  IInv'
  <1> USE SettingsFacts, SupervisorAssumption, Fields
      DEF IInv, TypeOK, Parts, Generations, Expire, status, objects
  <1>1. TypeOK'
    <2>1. watcher' \in Watchers /\ worker' \in Workers
      BY Updates
    <2>2. request' \in [Runtimes -> Requests]
      BY Updates
    <2> QED
      BY SameTypes, <2>1, <2>2
  <1>2. GateHeld' /\ RuntimeKept' /\ ShuttingDown'
    BY DEF GateHeld, RuntimeKept, ShuttingDown
  <1>3. Forward' /\ Publishing'
    BY DEF GateHeld, RuntimeKept, Forward, Publishing
  <1>4. SameTopology'
    BY DEF GateHeld, RuntimeKept, Forward, Publishing, SameTopology, SettingsOf, Disabled
  <1>5. DecidesFirst'
    BY DEF GateHeld, RuntimeKept, Publishing, SameTopology, DecidesFirst, Visible, SettingsOf,
       Disabled
  <1> QED
    BY <1>1, <1>2, <1>3, <1>4, <1>5

\* The gate passes to the worker: desired moves forward, and a runtime that is still
\* being closed is finished first, so that decide never meets one.
LEMMA EnterKeeps ==
  ASSUME IInv, Enter
  PROVE  IInv'
  <1> USE SettingsFacts, SupervisorAssumption, Fields
      DEF IInv, TypeOK, Parts, Generations, Enter, status, objects
  <1>1. TypeOK'
    <2>1. watcher' \in Watchers
      BY Updates
    <2>2. worker' \in Workers
      BY DEF Workers, WorkerStages
    <2>3. {desired, pending}' \subseteq 0..published
      OBVIOUS
    <2> QED
      BY SameTypes, <2>1, <2>2, <2>3
  <1>2. GateHeld' /\ RuntimeKept' /\ ShuttingDown'
    BY DEF GateHeld, RuntimeKept, ShuttingDown
  <1>3. Forward' /\ Publishing'
    <2>1. watcher.g = desired' /\ worker'.g = desired' /\ desired <= desired'
      OBVIOUS
    <2>2. worker'.at \in {"finishing", "decide"}
      OBVIOUS
    <2>3. applied <= desired' /\ closing <= desired'
      BY <2>1 DEF Forward
    <2>4. \A r \in Runtimes : gen[r] <= desired' /\ request[r].g <= desired'
      BY <2>1 DEF Forward
    <2> QED
      BY <2>2, <2>3, <2>4 DEF Forward, Publishing
  <1>4. SameTopology'
    BY DEF GateHeld, RuntimeKept, Forward, Publishing, SameTopology, SettingsOf, Disabled
  <1>5. DecidesFirst'
    BY DEF GateHeld, RuntimeKept, Publishing, SameTopology, DecidesFirst, Visible, SettingsOf,
       Disabled
  <1> QED
    BY <1>1, <1>2, <1>3, <1>4, <1>5

\* A refused caller leaves nothing behind.
LEMMA RefusedKeeps ==
  ASSUME IInv, Refused
  PROVE  IInv'
  <1> USE SettingsFacts, SupervisorAssumption, Fields
      DEF IInv, TypeOK, Parts, Generations, Refused, status, objects
  <1>1. TypeOK'
    BY SameTypes, Updates DEF WorkerStages, States
  <1>2. GateHeld' /\ RuntimeKept' /\ ShuttingDown'
    BY DEF GateHeld, RuntimeKept, ShuttingDown
  <1>3. Forward' /\ Publishing'
    BY DEF GateHeld, RuntimeKept, Forward, Publishing
  <1>4. SameTopology'
    BY DEF GateHeld, RuntimeKept, Forward, Publishing, SameTopology, SettingsOf, Disabled
  <1>5. DecidesFirst'
    BY DEF GateHeld, RuntimeKept, Publishing, SameTopology, DecidesFirst, Visible, SettingsOf,
       Disabled
  <1> QED
    BY <1>1, <1>2, <1>3, <1>4, <1>5

\* The runtime that is done is forgotten; nothing else lives, and nothing is enabled.
LEMMA FinishClosingKeeps ==
  ASSUME IInv, FinishClosing
  PROVE  IInv'
  <1> USE SettingsFacts, SupervisorAssumption, Fields
      DEF IInv, TypeOK, Parts, Generations, FinishClosing, GoTo, status, objects
  <1>1. TypeOK'
    <2>1. worker' \in Workers
      BY Updates DEF WorkerStages
    <2>2. attempt' \in Attempts
      BY DEF Attempts
    <2>3. applied' \in 0..published /\ closing' \in 0..published /\ state' \in States
      BY DEF States
    <2> QED
      BY SameTypes, <2>1, <2>2, <2>3
  <1>2. GateHeld' /\ RuntimeKept' /\ ShuttingDown'
    BY DEF GateHeld, RuntimeKept, ShuttingDown
  <1>3. Forward' /\ Publishing'
    BY DEF GateHeld, RuntimeKept, Forward, Publishing
  <1>4. SameTopology'
    BY DEF GateHeld, RuntimeKept, Forward, Publishing, SameTopology, SettingsOf, Disabled
  <1>5. DecidesFirst'
    BY DEF GateHeld, RuntimeKept, Publishing, SameTopology, DecidesFirst, Visible, SettingsOf,
       Disabled
  <1> QED
    BY <1>1, <1>2, <1>3, <1>4, <1>5

\* A disable hides the names before anything else and keeps the runtime until it is done.
LEMMA DisableKeeps ==
  ASSUME IInv, Disable
  PROVE  IInv'
  <1> USE SettingsFacts, SupervisorAssumption, Fields
      DEF IInv, TypeOK, Parts, Generations, Disable, GoTo, Cancel, status, objects
  <1>1. TypeOK'
    <2>1. worker' \in Workers
      BY Updates DEF WorkerStages
    <2>2. phase' \in [Runtimes -> {"run", "stop", "gone"}]
      OBVIOUS
    <2>3. closing' \in 0..published
      OBVIOUS
    <2> QED
      BY SameTypes, <2>1, <2>2, <2>3
  <1>2. GateHeld' /\ RuntimeKept' /\ ShuttingDown'
    BY DEF GateHeld, RuntimeKept, ShuttingDown
  <1>3. Forward' /\ Publishing'
    BY DEF GateHeld, RuntimeKept, Forward, Publishing
  <1>4. SameTopology'
    BY DEF GateHeld, RuntimeKept, Forward, Publishing, SameTopology, SettingsOf, Disabled
  <1>5. DecidesFirst'
    BY DEF GateHeld, RuntimeKept, Publishing, SameTopology, DecidesFirst, Visible, SettingsOf,
       Disabled
  <1> QED
    BY <1>1, <1>2, <1>3, <1>4, <1>5

\* What is about to be published is what the runtime has installed.
LEMMA AlreadyInstalledKeeps ==
  ASSUME IInv, AlreadyInstalled
  PROVE  IInv'
  <1> USE SettingsFacts, SupervisorAssumption, Fields
      DEF IInv, TypeOK, Parts, Generations, AlreadyInstalled, GoTo, Enabling, status, objects
  <1>1. TypeOK'
    <2>1. worker' \in Workers
      BY Updates DEF WorkerStages
    <2> QED
      BY SameTypes, <2>1
  <1>2. GateHeld' /\ RuntimeKept' /\ ShuttingDown'
    BY DEF GateHeld, RuntimeKept, ShuttingDown
  <1>3. Forward' /\ Publishing'
    BY DEF GateHeld, RuntimeKept, Forward, Publishing
  <1>4. SameTopology'
    BY DEF GateHeld, RuntimeKept, Forward, Publishing, SameTopology, SettingsOf, Disabled
  <1>5. DecidesFirst'
    BY DEF GateHeld, RuntimeKept, Publishing, SameTopology, DecidesFirst, Visible, SettingsOf,
       Disabled
  <1> QED
    BY <1>1, <1>2, <1>3, <1>4, <1>5

\* A request is sent only for the topology that is applied, and ahead of what is installed.
LEMMA SendApplyKeeps ==
  ASSUME IInv, SendApply
  PROVE  IInv'
  <1> USE SettingsFacts, SupervisorAssumption, Fields
      DEF IInv, TypeOK, Parts, Generations, SendApply, GoTo, Enabling, status, objects
  <1>1. TypeOK'
    <2>1. worker' \in Workers
      BY Updates DEF WorkerStages
    <2>2. [g |-> worker.g, live |-> worker.live, reply |-> "none"] \in Requests
      BY DEF Requests
    <2>3. request' \in [Runtimes -> Requests]
      BY <2>2
    <2> QED
      BY SameTypes, <2>1, <2>2, <2>3
  <1>2. GateHeld' /\ RuntimeKept' /\ ShuttingDown'
    BY DEF GateHeld, RuntimeKept, ShuttingDown
  <1>3. Forward' /\ Publishing'
    BY DEF GateHeld, RuntimeKept, Forward, Publishing
  <1>4. SameTopology'
    <2>1. worker.g \in 1..Len(Settings) /\ request'[runtime].g = worker.g
      BY DEF GateHeld
    <2>2. enabled => Settings[worker.g].topology = SettingsOf(applied).topology
      BY <2>1 DEF SameTopology, Allowed, SettingsOf, Disabled
    <2> QED
      BY <2>1, <2>2 DEF SameTopology, SettingsOf
  <1>5. DecidesFirst'
    BY DEF GateHeld, RuntimeKept, Publishing, SameTopology, DecidesFirst, Visible, SettingsOf,
       Disabled
  <1> QED
    BY <1>1, <1>2, <1>3, <1>4, <1>5

\* A positive answer means that the runtime has installed the worker's generation.
LEMMA ApplyAnsweredKeeps ==
  ASSUME IInv, ApplyAnswered
  PROVE  IInv'
  <1> USE SettingsFacts, SupervisorAssumption, Fields
      DEF IInv, TypeOK, Parts, Generations, ApplyAnswered, GoTo, NoRequest, status, objects
  <1>1. TypeOK'
    <2>1. worker' \in Workers
      BY Updates DEF WorkerStages
    <2>2. request' \in [Runtimes -> Requests]
      BY Updates
    <2> QED
      BY SameTypes, <2>1, <2>2
  <1>2. GateHeld' /\ RuntimeKept' /\ ShuttingDown'
    BY DEF GateHeld, RuntimeKept, ShuttingDown
  <1>3. Forward' /\ Publishing'
    BY DEF GateHeld, RuntimeKept, Forward, Publishing
  <1>4. SameTopology'
    BY DEF GateHeld, RuntimeKept, Forward, Publishing, SameTopology, SettingsOf, Disabled
  <1>5. DecidesFirst'
    BY DEF GateHeld, RuntimeKept, Publishing, SameTopology, DecidesFirst, Visible, SettingsOf,
       Disabled
  <1> QED
    BY <1>1, <1>2, <1>3, <1>4, <1>5

\* A start is prepared only without a runtime.
LEMMA StartPrepareKeeps ==
  ASSUME IInv, StartPrepare
  PROVE  IInv'
  <1> USE SettingsFacts, SupervisorAssumption, Fields
      DEF IInv, TypeOK, Parts, Generations, StartPrepare, GoTo, Enabling, status, objects
  <1>1. TypeOK'
    BY SameTypes, Updates DEF WorkerStages, States
  <1>2. GateHeld' /\ RuntimeKept' /\ ShuttingDown'
    BY DEF GateHeld, RuntimeKept, ShuttingDown
  <1>3. Forward' /\ Publishing'
    BY DEF GateHeld, RuntimeKept, Forward, Publishing
  <1>4. SameTopology'
    BY DEF GateHeld, RuntimeKept, Forward, Publishing, SameTopology, SettingsOf, Disabled
  <1>5. DecidesFirst'
    BY DEF GateHeld, RuntimeKept, Publishing, SameTopology, DecidesFirst, Visible, SettingsOf,
       Disabled
  <1> QED
    BY <1>1, <1>2, <1>3, <1>4, <1>5

\* The worker's link is the only one: there is no runtime and no diagnostic.
LEMMA OpenLinkKeeps ==
  ASSUME IInv, OpenLink
  PROVE  IInv'
  <1> USE SettingsFacts, SupervisorAssumption, Fields
      DEF IInv, TypeOK, Parts, Generations, OpenLink, GoTo, status, objects
  <1>1. TypeOK'
    <2>1. worker' \in Workers
      BY Updates DEF WorkerStages
    <2> QED
      BY SameTypes, <2>1
  <1>2. GateHeld' /\ RuntimeKept' /\ ShuttingDown'
    BY DEF GateHeld, RuntimeKept, ShuttingDown
  <1>3. Forward' /\ Publishing'
    BY DEF GateHeld, RuntimeKept, Forward, Publishing
  <1>4. SameTopology'
    BY DEF GateHeld, RuntimeKept, Forward, Publishing, SameTopology, SettingsOf, Disabled
  <1>5. DecidesFirst'
    BY DEF GateHeld, RuntimeKept, Publishing, SameTopology, DecidesFirst, Visible, SettingsOf,
       Disabled
  <1> QED
    BY <1>1, <1>2, <1>3, <1>4, <1>5

\* The same holds of the lease database.
LEMMA OpenStoreKeeps ==
  ASSUME IInv, OpenStore
  PROVE  IInv'
  <1> USE SettingsFacts, SupervisorAssumption, Fields
      DEF IInv, TypeOK, Parts, Generations, OpenStore, GoTo, status, objects
  <1>1. TypeOK'
    <2>1. worker' \in Workers
      BY Updates DEF WorkerStages
    <2> QED
      BY SameTypes, <2>1
  <1>2. GateHeld' /\ RuntimeKept' /\ ShuttingDown'
    BY DEF GateHeld, RuntimeKept, ShuttingDown
  <1>3. Forward' /\ Publishing'
    BY DEF GateHeld, RuntimeKept, Forward, Publishing
  <1>4. SameTopology'
    BY DEF GateHeld, RuntimeKept, Forward, Publishing, SameTopology, SettingsOf, Disabled
  <1>5. DecidesFirst'
    BY DEF GateHeld, RuntimeKept, Publishing, SameTopology, DecidesFirst, Visible, SettingsOf,
       Disabled
  <1> QED
    BY <1>1, <1>2, <1>3, <1>4, <1>5

\* The new runtime becomes the supervisor's own before anybody can look for it.
LEMMA StartRuntimeKeeps ==
  ASSUME IInv, NEW r \in Runtimes, StartRuntime(r)
  PROVE  IInv'
  <1> USE SettingsFacts, SupervisorAssumption, Fields
      DEF IInv, TypeOK, Parts, Generations, StartRuntime, GoTo, NoRequest, status, objects
  <1>1. TypeOK'
    <2>1. worker' \in Workers
      BY Updates DEF WorkerStages
    <2>2. request' \in [Runtimes -> Requests]
      BY Updates
    <2>3. phase' \in [Runtimes -> {"run", "stop", "gone"}] /\ gen' \in [Runtimes -> 0..published]
      OBVIOUS
    <2> QED
      BY SameTypes, <2>1, <2>2, <2>3
  <1>2. GateHeld' /\ RuntimeKept' /\ ShuttingDown'
    BY DEF GateHeld, RuntimeKept, ShuttingDown
  <1>3. Forward' /\ Publishing'
    BY DEF GateHeld, RuntimeKept, Forward, Publishing
  <1>4. SameTopology'
    BY DEF GateHeld, RuntimeKept, Forward, Publishing, SameTopology, SettingsOf, Disabled
  <1>5. DecidesFirst'
    BY DEF GateHeld, RuntimeKept, Publishing, SameTopology, DecidesFirst, Visible, SettingsOf,
       Disabled
  <1> QED
    BY <1>1, <1>2, <1>3, <1>4, <1>5

\* The publication: the runtime has the generation, and no request of another
\* generation can still be under way in it.
LEMMA PublishAppliedKeeps ==
  ASSUME IInv, PublishApplied
  PROVE  IInv'
  <1> USE SettingsFacts, SupervisorAssumption, Fields
      DEF IInv, TypeOK, Parts, Generations, PublishApplied, Release, Idle, status, objects
  <1>1. TypeOK'
    <2>1. worker' \in Workers /\ watcher' \in Watchers
      BY Updates
    <2>2. attempt' \in Attempts /\ state' \in States
      BY DEF Attempts, States
    <2>3. enabled' \in BOOLEAN
      BY DEF GateHeld
    <2>4. applied' \in 0..published /\ pending' \in 0..published
      OBVIOUS
    <2> QED
      BY SameTypes, <2>1, <2>2, <2>3, <2>4
  <1>2. GateHeld' /\ RuntimeKept' /\ ShuttingDown'
    BY DEF GateHeld, RuntimeKept, ShuttingDown
  <1>3. Forward' /\ Publishing'
    BY DEF GateHeld, RuntimeKept, Forward, Publishing
  <1>4. SameTopology'
    <2>1. worker.g \in 1..Len(Settings) /\ worker.g = desired
      BY DEF GateHeld
    <2>2. SUFFICES ASSUME Settings[worker.g].enabled PROVE SameTopology'
      BY DEF SameTopology
    <2>3. runtime \in Runtimes /\ gen[runtime] = worker.g
      BY <2>2 DEF Publishing
    <2>4. request[runtime].g = 0 \/ request[runtime].reply \notin {"none", "checked"}
      BY <2>1, <2>3 DEF Forward
    <2> QED
      BY <2>1, <2>2, <2>3, <2>4 DEF SameTopology, SettingsOf
  <1>5. DecidesFirst'
    BY DEF GateHeld, RuntimeKept, Publishing, SameTopology, DecidesFirst, Visible, SettingsOf,
       Disabled
  <1> QED
    BY <1>1, <1>2, <1>3, <1>4, <1>5

\* The runtime looks at its request.
LEMMA RuntimeChecksKeeps ==
  ASSUME IInv, NEW r \in Runtimes, RuntimeChecks(r)
  PROVE  IInv'
  <1> USE SettingsFacts, SupervisorAssumption, Fields
      DEF IInv, TypeOK, Parts, Generations, RuntimeChecks, status, objects
  <1>1. TypeOK'
    <2>1. request' \in [Runtimes -> Requests]
      BY Updates
    <2> QED
      BY SameTypes, <2>1
  <1>2. GateHeld' /\ RuntimeKept' /\ ShuttingDown'
    BY DEF GateHeld, RuntimeKept, ShuttingDown
  <1>3. Forward' /\ Publishing'
    BY DEF GateHeld, RuntimeKept, Forward, Publishing
  <1>4. SameTopology'
    <2>1. \A s \in Runtimes : request'[s].g = request[s].g
      BY DEF Requests
    <2>2. \A s \in Runtimes : request'[s].reply = request[s].reply \/ request[s].reply = "none"
      BY DEF Requests
    <2> QED
      BY <2>1, <2>2 DEF SameTopology, SettingsOf
  <1>5. DecidesFirst'
    BY DEF GateHeld, RuntimeKept, Publishing, SameTopology, DecidesFirst, Visible, SettingsOf,
       Disabled
  <1> QED
    BY <1>1, <1>2, <1>3, <1>4, <1>5

\* A late installation moves the runtime forward, within the applied topology.
LEMMA RuntimeInstallsKeeps ==
  ASSUME IInv, NEW r \in Runtimes, RuntimeInstalls(r)
  PROVE  IInv'
  <1> USE SettingsFacts, SupervisorAssumption, Fields
      DEF IInv, TypeOK, Parts, Generations, RuntimeInstalls, Awaited, NoRequest, status, objects
  <1>1. TypeOK'
    <2>1. request' \in [Runtimes -> Requests]
      BY Updates
    <2>2. gen' \in [Runtimes -> 0..published]
      OBVIOUS
    <2> QED
      BY SameTypes, <2>1, <2>2
  <1>2. GateHeld' /\ RuntimeKept' /\ ShuttingDown'
    BY DEF GateHeld, RuntimeKept, ShuttingDown
  <1>3. Forward' /\ Publishing'
    <2>1. \A s \in Runtimes \ {r} : request'[s] = request[s] /\ gen'[s] = gen[s]
      OBVIOUS
    <2>2. gen'[r] = request[r].g /\ request[r].g # 0
      BY DEF Forward
    <2>3. \/ request'[r].g = 0 /\ request'[r].reply = "none" /\ ~Awaited(r)
          \/ request'[r].g = request[r].g /\ request'[r].reply = "ok"
      BY DEF Requests
    <2>4. r = runtime
      BY DEF RuntimeKept
    <2>5. gen[r] < request[r].g /\ request[r].g <= desired
      BY DEF Forward
    <2>6. Forward'
      BY <2>1, <2>2, <2>3, <2>4, <2>5 DEF Forward
    <2>7. worker.at # "publish"
      BY <2>4, <2>5 DEF Publishing, GateHeld
    <2> QED
      BY <2>6, <2>7 DEF Publishing
  <1>4. SameTopology'
    <2>1. \A s \in Runtimes \ {r} : request'[s] = request[s] /\ gen'[s] = gen[s]
      OBVIOUS
    <2>2. gen'[r] = request[r].g /\ request[r].g # 0
      BY DEF Forward
    <2>3. \/ request'[r].g = 0 /\ request'[r].reply = "none" /\ ~Awaited(r)
          \/ request'[r].g = request[r].g /\ request'[r].reply = "ok"
      BY DEF Requests
    <2>4. r = runtime
      BY DEF RuntimeKept
    <2> QED
      BY <2>2, <2>3, <2>4 DEF SameTopology
  <1>5. DecidesFirst'
    BY DEF GateHeld, RuntimeKept, Publishing, SameTopology, DecidesFirst, Visible, SettingsOf,
       Disabled
  <1> QED
    BY <1>1, <1>2, <1>3, <1>4, <1>5

\* A refused request leaves what is installed.
LEMMA RuntimeRefusesKeeps ==
  ASSUME IInv, NEW r \in Runtimes, RuntimeRefuses(r)
  PROVE  IInv'
  <1> USE SettingsFacts, SupervisorAssumption, Fields
      DEF IInv, TypeOK, Parts, Generations, RuntimeRefuses, Awaited, NoRequest, status, objects
  <1>1. TypeOK'
    <2>1. request' \in [Runtimes -> Requests]
      BY Updates
    <2> QED
      BY SameTypes, <2>1
  <1>2. GateHeld' /\ RuntimeKept' /\ ShuttingDown'
    BY DEF GateHeld, RuntimeKept, ShuttingDown
  <1>3. Forward' /\ Publishing'
    BY DEF GateHeld, RuntimeKept, Forward, Publishing
  <1>4. SameTopology'
    BY DEF GateHeld, RuntimeKept, Forward, Publishing, SameTopology, SettingsOf, Disabled
  <1>5. DecidesFirst'
    BY DEF GateHeld, RuntimeKept, Publishing, SameTopology, DecidesFirst, Visible, SettingsOf,
       Disabled
  <1> QED
    BY <1>1, <1>2, <1>3, <1>4, <1>5

\* A runtime that fails remains the supervisor's until it is gone.
LEMMA RuntimeFailsKeeps ==
  ASSUME IInv, NEW r \in Runtimes, RuntimeFails(r)
  PROVE  IInv'
  <1> USE SettingsFacts, SupervisorAssumption, Fields
      DEF IInv, TypeOK, Parts, Generations, RuntimeFails, status, objects
  <1>1. TypeOK'
    BY SameTypes, Updates DEF WorkerStages, States
  <1>2. GateHeld' /\ RuntimeKept' /\ ShuttingDown'
    BY DEF GateHeld, RuntimeKept, ShuttingDown
  <1>3. Forward' /\ Publishing'
    BY DEF GateHeld, RuntimeKept, Forward, Publishing
  <1>4. SameTopology'
    BY DEF GateHeld, RuntimeKept, Forward, Publishing, SameTopology, SettingsOf, Disabled
  <1>5. DecidesFirst'
    BY DEF GateHeld, RuntimeKept, Publishing, SameTopology, DecidesFirst, Visible, SettingsOf,
       Disabled
  <1> QED
    BY <1>1, <1>2, <1>3, <1>4, <1>5

\* A runtime that is gone holds nothing.
LEMMA RuntimeGoneKeeps ==
  ASSUME IInv, NEW r \in Runtimes, RuntimeGone(r)
  PROVE  IInv'
  <1> USE SettingsFacts, SupervisorAssumption, Fields
      DEF IInv, TypeOK, Parts, Generations, RuntimeGone, status, objects
  <1>1. TypeOK'
    BY SameTypes, Updates DEF WorkerStages, States
  <1>2. GateHeld' /\ RuntimeKept' /\ ShuttingDown'
    BY DEF GateHeld, RuntimeKept, ShuttingDown
  <1>3. Forward' /\ Publishing'
    BY DEF GateHeld, RuntimeKept, Forward, Publishing
  <1>4. SameTopology'
    BY DEF GateHeld, RuntimeKept, Forward, Publishing, SameTopology, SettingsOf, Disabled
  <1>5. DecidesFirst'
    BY DEF GateHeld, RuntimeKept, Publishing, SameTopology, DecidesFirst, Visible, SettingsOf,
       Disabled
  <1> QED
    BY <1>1, <1>2, <1>3, <1>4, <1>5

\* A diagnostic starts only when nobody else can own a socket.
LEMMA DiagnoseKeeps ==
  ASSUME IInv, Diagnose
  PROVE  IInv'
  <1> USE SettingsFacts, SupervisorAssumption, Fields
      DEF IInv, TypeOK, Parts, Generations, Diagnose, status, objects
  <1>1. TypeOK'
    BY SameTypes, Updates DEF WorkerStages, States
  <1>2. GateHeld' /\ RuntimeKept' /\ ShuttingDown'
    BY DEF GateHeld, RuntimeKept, ShuttingDown
  <1>3. Forward' /\ Publishing'
    BY DEF GateHeld, RuntimeKept, Forward, Publishing
  <1>4. SameTopology'
    BY DEF GateHeld, RuntimeKept, Forward, Publishing, SameTopology, SettingsOf, Disabled
  <1>5. DecidesFirst'
    BY DEF GateHeld, RuntimeKept, Publishing, SameTopology, DecidesFirst, Visible, SettingsOf,
       Disabled
  <1> QED
    BY <1>1, <1>2, <1>3, <1>4, <1>5

\* The diagnostic gives the gate back.
LEMMA DiagnoseEndsKeeps ==
  ASSUME IInv, DiagnoseEnds
  PROVE  IInv'
  <1> USE SettingsFacts, SupervisorAssumption, Fields
      DEF IInv, TypeOK, Parts, Generations, DiagnoseEnds, status, objects
  <1>1. TypeOK'
    BY SameTypes, Updates DEF WorkerStages, States
  <1>2. GateHeld' /\ RuntimeKept' /\ ShuttingDown'
    BY DEF GateHeld, RuntimeKept, ShuttingDown
  <1>3. Forward' /\ Publishing'
    BY DEF GateHeld, RuntimeKept, Forward, Publishing
  <1>4. SameTopology'
    BY DEF GateHeld, RuntimeKept, Forward, Publishing, SameTopology, SettingsOf, Disabled
  <1>5. DecidesFirst'
    BY DEF GateHeld, RuntimeKept, Publishing, SameTopology, DecidesFirst, Visible, SettingsOf,
       Disabled
  <1> QED
    BY <1>1, <1>2, <1>3, <1>4, <1>5

\* Close hides everything and finds whatever runs.
LEMMA CloseKeeps ==
  ASSUME IInv, Close
  PROVE  IInv'
  <1> USE SettingsFacts, SupervisorAssumption, Fields
      DEF IInv, TypeOK, Parts, Generations, Close, Cancel, status, objects
  <1>1. TypeOK'
    <2>1. watcher' \in Watchers /\ worker' \in Workers
      BY Updates
    <2>2. request' \in [Runtimes -> Requests]
      BY Updates
    <2>3. phase' \in [Runtimes -> {"run", "stop", "gone"}] /\ state' \in States
      BY DEF States
    <2> QED
      BY SameTypes, <2>1, <2>2, <2>3
  <1>2. GateHeld' /\ RuntimeKept' /\ ShuttingDown'
    BY DEF GateHeld, RuntimeKept, ShuttingDown
  <1>3. Forward' /\ Publishing'
    <2>1. \A r \in Runtimes : request'[r].g = request[r].g /\ request'[r].reply = request[r].reply
      BY DEF Requests
    <2>2. worker'.at = worker.at /\ worker'.g = worker.g
      OBVIOUS
    <2>3. UNCHANGED <<applied, closing, desired, runtime, gen>>
      OBVIOUS
    <2> QED
      BY ONLY <2>1, <2>2, <2>3, Forward, Publishing, RuntimeKept,
         runtime \in Runtimes \cup {None} DEF Forward, Publishing, RuntimeKept
  <1>4. SameTopology'
    BY DEF GateHeld, RuntimeKept, Forward, Publishing, SameTopology, SettingsOf, Disabled
  <1>5. DecidesFirst'
    BY DEF GateHeld, RuntimeKept, Publishing, SameTopology, DecidesFirst, Visible, SettingsOf,
       Disabled
  <1> QED
    BY <1>1, <1>2, <1>3, <1>4, <1>5

\* Close goes on only when the one runtime is gone.
LEMMA CloseRuntimeDoneKeeps ==
  ASSUME IInv, CloseRuntimeDone
  PROVE  IInv'
  <1> USE SettingsFacts, SupervisorAssumption, Fields
      DEF IInv, TypeOK, Parts, Generations, CloseRuntimeDone, status, objects
  <1>1. TypeOK'
    BY SameTypes, Updates DEF WorkerStages, States
  <1>2. GateHeld' /\ RuntimeKept' /\ ShuttingDown'
    BY DEF GateHeld, RuntimeKept, ShuttingDown
  <1>3. Forward' /\ Publishing'
    BY DEF GateHeld, RuntimeKept, Forward, Publishing
  <1>4. SameTopology'
    BY DEF GateHeld, RuntimeKept, Forward, Publishing, SameTopology, SettingsOf, Disabled
  <1>5. DecidesFirst'
    BY DEF GateHeld, RuntimeKept, Publishing, SameTopology, DecidesFirst, Visible, SettingsOf,
       Disabled
  <1> QED
    BY <1>1, <1>2, <1>3, <1>4, <1>5

\* With the gate in hand and everything gone, Close may forget the runtime.
LEMMA CloseReturnsKeeps ==
  ASSUME IInv, CloseReturns
  PROVE  IInv'
  <1> USE SettingsFacts, SupervisorAssumption, Fields
      DEF IInv, TypeOK, Parts, Generations, CloseReturns, status, objects
  <1>1. TypeOK'
    BY SameTypes, Updates DEF WorkerStages, States
  <1>2. GateHeld' /\ RuntimeKept' /\ ShuttingDown'
    BY DEF GateHeld, RuntimeKept, ShuttingDown
  <1>3. Forward' /\ Publishing'
    BY DEF GateHeld, RuntimeKept, Forward, Publishing
  <1>4. SameTopology'
    BY DEF GateHeld, RuntimeKept, Forward, Publishing, SameTopology, SettingsOf, Disabled
  <1>5. DecidesFirst'
    BY DEF GateHeld, RuntimeKept, Publishing, SameTopology, DecidesFirst, Visible, SettingsOf,
       Disabled
  <1> QED
    BY <1>1, <1>2, <1>3, <1>4, <1>5

\* A Close that gives up promises nothing.
LEMMA CloseExpiresKeeps ==
  ASSUME IInv, CloseExpires
  PROVE  IInv'
  <1> USE SettingsFacts, SupervisorAssumption, Fields
      DEF IInv, TypeOK, Parts, Generations, CloseExpires, status, objects
  <1>1. TypeOK'
    BY SameTypes, Updates DEF WorkerStages, States
  <1>2. GateHeld' /\ RuntimeKept' /\ ShuttingDown'
    BY DEF GateHeld, RuntimeKept, ShuttingDown
  <1>3. Forward' /\ Publishing'
    BY DEF GateHeld, RuntimeKept, Forward, Publishing
  <1>4. SameTopology'
    BY DEF GateHeld, RuntimeKept, Forward, Publishing, SameTopology, SettingsOf, Disabled
  <1>5. DecidesFirst'
    BY DEF GateHeld, RuntimeKept, Publishing, SameTopology, DecidesFirst, Visible, SettingsOf,
       Disabled
  <1> QED
    BY <1>1, <1>2, <1>3, <1>4, <1>5

\* The worker gives the gate back with nothing changed but the attempt, the state and
\* a request that was answered: every way in which reconcile ends without success.
LEMMA ReleaseKeeps ==
  ASSUME IInv, worker.at # "idle", worker.at = "decide" => Settings[worker.g].enabled,
         Release,
         attempt' \in Attempts, state' \in States,
         UNCHANGED <<published, desired, applied, pending, enabled, closing, runtime, phase,
                     failed, gen, closed, closer>>,
         \/ request' = request
         \/ runtime # None /\ request' = [request EXCEPT ![runtime] = NoRequest]
  PROVE  IInv'
  <1> USE SettingsFacts, SupervisorAssumption, Fields
      DEF IInv, TypeOK, Parts, Generations, Release, Idle
  <1>1. TypeOK'
    <2>1. watcher' \in Watchers /\ worker' \in Workers
      BY Updates
    <2>2. request' \in [Runtimes -> Requests]
      BY Updates
    <2> QED
      BY SameTypes, <2>1, <2>2
  <1>2. GateHeld' /\ RuntimeKept' /\ ShuttingDown'
    BY DEF GateHeld, RuntimeKept, ShuttingDown
  <1>3. Forward' /\ Publishing'
    <2>1. \A r \in Runtimes :
            request'[r] = request[r] \/ (request'[r].g = 0 /\ request'[r].reply = "none")
      <3>1. CASE request' = request
        BY <3>1
      <3>2. CASE runtime # None /\ request' = [request EXCEPT ![runtime] = NoRequest]
        BY <3>2 DEF NoRequest
      <3> QED
        BY <3>1, <3>2
    <2>2. worker'.at = "idle"
      OBVIOUS
    <2> QED
      BY <2>1, <2>2 DEF Forward, Publishing
  <1>4. SameTopology'
    BY DEF SameTopology, NoRequest
  <1>5. DecidesFirst'
    BY DEF GateHeld, DecidesFirst, Visible, SettingsOf
  <1> QED
    BY <1>1, <1>2, <1>3, <1>4, <1>5

\* reconcile's failed closure.
LEMMA FailedKeeps ==
  ASSUME IInv, worker.at # "idle", worker.at = "decide" => Settings[worker.g].enabled,
         Failed,
         UNCHANGED <<published, desired, applied, pending, enabled, closing, runtime, phase,
                     failed, gen, closed, closer>>,
         \/ request' = request
         \/ runtime # None /\ request' = [request EXCEPT ![runtime] = NoRequest]
  PROVE  IInv'
  <1>1. attempt' \in Attempts
    BY DEF Failed, IInv, TypeOK, Workers, Attempts
  <1>2. state' \in States
    BY DEF Failed, States
  <1>3. Release
    BY DEF Failed
  <1> QED
    BY <1>1, <1>2, <1>3, ReleaseKeeps

\* One step of reconcile.
LEMMA WorkKeeps ==
  ASSUME IInv, Work
  PROVE  IInv'
  <1>1. CASE FinishExpires
    BY <1>1, FailedKeeps DEF FinishExpires, objects
  <1>2. CASE RejectTransition
    <2>1. worker.g \in 1..Len(Settings)
      BY <1>2, SettingsFacts DEF RejectTransition, IInv, TypeOK, Parts, GateHeld, Generations
    <2>2. Settings[worker.g].enabled
      BY <1>2, <2>1, SettingsFacts DEF RejectTransition, Allowed
    <2> QED
      BY <1>2, <2>2, FailedKeeps DEF RejectTransition, objects
  <1>3. CASE RuntimeBroken
    BY <1>3, FailedKeeps DEF RuntimeBroken, Enabling, objects
  <1>4. CASE ApplyNotTaken
    BY <1>4, FailedKeeps DEF ApplyNotTaken, Enabling, objects
  <1>5. CASE ApplyFails
    <2>1. runtime # None
      BY <1>5 DEF ApplyFails, IInv, Parts, RuntimeKept
    <2> QED
      BY <1>5, <2>1, FailedKeeps DEF ApplyFails
  <1>6. CASE PrepareFails
    BY <1>6, FailedKeeps DEF PrepareFails, objects
  <1>7. CASE StartAbandoned
    BY <1>7, FailedKeeps DEF StartAbandoned, objects
  <1>8. CASE StartLatched
    BY <1>8, ReleaseKeeps DEF StartLatched, Enabling, status, objects, IInv, TypeOK
  <1>9. CASE PublishRefused
    BY <1>9, ReleaseKeeps DEF PublishRefused, status, objects, IInv, TypeOK
  <1>10. CASE \E r \in Runtimes : StartRuntime(r)
    BY <1>10, StartRuntimeKeeps
  <1> QED
    BY <1>1, <1>2, <1>3, <1>4, <1>5, <1>6, <1>7, <1>8, <1>9, <1>10, FinishClosingKeeps,
       DisableKeeps, AlreadyInstalledKeeps, SendApplyKeeps, ApplyAnsweredKeeps, StartPrepareKeeps,
       OpenLinkKeeps, OpenStoreKeeps, PublishAppliedKeeps DEF Work

\* Every step keeps the inductive invariant.
LEMMA NextIInv ==
  ASSUME IInv, [Next]_vars
  PROVE  IInv'
  <1>1. CASE \E r \in Runtimes : RuntimeStep(r) \/ RuntimeFails(r)
    BY <1>1, RuntimeChecksKeeps, RuntimeInstallsKeeps, RuntimeRefusesKeeps, RuntimeGoneKeeps,
       RuntimeFailsKeeps DEF RuntimeStep
  <1>2. CASE UNCHANGED vars
    <2>1. TypeOK'
      BY <1>2, SameTypes DEF vars, status, objects, IInv, TypeOK
    <2>2. Parts'
      BY <1>2 DEF vars, status, objects, IInv, Parts, GateHeld, RuntimeKept, ShuttingDown, Forward,
         Publishing, SameTopology, DecidesFirst, Visible
    <2> QED
      BY <2>1, <2>2 DEF IInv
  <1> QED
    BY <1>1, <1>2, WorkKeeps, PublishKeeps, WatchKeeps, ExpireKeeps, EnterKeeps, RefusedKeeps,
       DiagnoseKeeps, DiagnoseEndsKeeps, CloseKeeps, CloseRuntimeDoneKeeps, CloseReturnsKeeps,
       CloseExpiresKeeps DEF Next

\* The inductive invariant holds throughout.
THEOREM Invariance == Spec => []IInv
  BY InitIInv, NextIInv, PTL DEF Spec

\* Types are kept, and no part of the supervisor refers to a generation that is not
\* published yet, for any sequence of settings.
THEOREM TypeCorrect == Spec => []TypeOK
  BY Invariance, PTL DEF IInv

\* The raw socket and the lease database never have two owners, and once Close has
\* returned they have none, for any number of runtimes and any edits.
THEOREM OneOwner == Spec => []ExclusiveOwner
  <1>1. IInv => ExclusiveOwner
    <2> SUFFICES ASSUME IInv PROVE ExclusiveOwner
      OBVIOUS
    <2> USE SupervisorAssumption DEF IInv, TypeOK, Parts, GateHeld, RuntimeKept, ShuttingDown
    <2>1. \A o, p \in LinkOwners : o = p
      BY DEF LinkOwners
    <2>2. LinkOwners = {} \/ \E o \in LinkOwners : LinkOwners = {o}
      BY ONLY <2>1
    <2>3. Cardinality(LinkOwners) \in {0, 1}
      BY ONLY <2>2, FS_EmptySet, FS_Singleton, Zenon
    <2>4. closer = "returned" => LinkOwners = {} /\ runtime = None
      BY DEF LinkOwners
    <2> QED
      BY <2>3, <2>4 DEF ExclusiveOwner
  <1> QED
    BY <1>1, Invariance, PTL

\* DNS only sees names of settings that are applied and enabled, from a runtime that
\* has installed them or a newer generation of the same topology, for any edits.
THEOREM OnlyAppliedIsVisible == Spec => []VisibleIsApplied
  <1>1. IInv => VisibleIsApplied
    BY SettingsFacts, SupervisorAssumption DEF IInv, TypeOK, Parts, Forward, SameTopology,
       DecidesFirst, VisibleIsApplied, Visible, Generations
  <1> QED
    BY <1>1, Invariance, PTL
==============================================================================
