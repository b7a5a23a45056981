------------------------------ MODULE Upstream ------------------------------
(***************************************************************************)
(* A DNS exchange over a pool of upstream endpoints (internal/upstream,    *)
(* udp.go Exchange and pool.go order) and the circuit breaker of every     *)
(* endpoint (health.go claimDetailed and record).                          *)
(*                                                                         *)
(* A circuit's epoch only grows and is only compared with the epoch an     *)
(* attempt got when it claimed the endpoint, so the model keeps the result *)
(* of that comparison: fresh[x]. Raising an endpoint's epoch makes every   *)
(* attempt in flight on it stale. RetryAt is kept as whether it has passed *)
(* (cooling); the jitter only moves it.                                    *)
(***************************************************************************)
EXTENDS Integers, Sequences, FiniteSets, SequencesExt

CONSTANTS
  Exchanges,        \* concurrent calls of Exchange
  Primary,          \* primary endpoints, in configured order
  Fallback,         \* fallback endpoints, in configured order
  Adaptive,         \* mode: adaptive ordering within a pool
  NoEndpoint,
  MaxOutstanding, MaxAttempts, FailureThreshold,
  OpenInterval, MaxBackoff

Endpoints == Range(Primary) \cup Range(Fallback)

ASSUME UpstreamAssumption ==
  /\ Primary \in Seq(Range(Primary)) /\ Fallback \in Seq(Range(Fallback))
  /\ Primary # <<>> /\ IsInjective(Primary \o Fallback)
  /\ NoEndpoint \notin Endpoints
  /\ Adaptive \in BOOLEAN
  /\ {MaxOutstanding, MaxAttempts, FailureThreshold, OpenInterval} \subseteq Nat \ {0}
  /\ MaxBackoff \in Nat /\ MaxBackoff >= OpenInterval

VARIABLES
  open,         \* RetryAt is set
  cooling,      \* now is before RetryAt
  probe,        \* a half-open probe is outstanding
  consecutive,  \* failures in a row, up to the threshold
  backoff,
  todo,         \* todo[x]: the endpoints x has not tried yet
  at,           \* at[x]: the endpoint x is trying, or NoEndpoint
  fresh,        \* the epoch x claimed is still the endpoint's
  attempts,
  retried,      \* what the attempt has been repeated for: "tcp", "conn"
  busy          \* exchanges holding a slot

circuit == <<open, cooling, probe, consecutive, backoff>>
vars == <<circuit, todo, at, fresh, attempts, retried, busy>>

Init ==
  /\ open = [e \in Endpoints |-> FALSE] /\ cooling = [e \in Endpoints |-> FALSE]
  /\ probe = [e \in Endpoints |-> FALSE]
  /\ consecutive = [e \in Endpoints |-> 0] /\ backoff = [e \in Endpoints |-> 0]
  /\ todo = [x \in Exchanges |-> <<>>] /\ at = [x \in Exchanges |-> NoEndpoint]
  /\ fresh = [x \in Exchanges |-> FALSE] /\ attempts = [x \in Exchanges |-> 0]
  /\ retried = [x \in Exchanges |-> {}] /\ busy = {}
-----------------------------------------------------------------------------
(* Exchange.                                                               *)

\* order: as configured, or by measured latency within each pool.
Orders ==
  IF Adaptive
  THEN {p \o f : p \in SetToSeqs(Range(Primary)), f \in SetToSeqs(Range(Fallback))}
  ELSE {Primary \o Fallback}

Begin(x) ==
  /\ x \notin busy /\ Cardinality(busy) < MaxOutstanding
  /\ busy' = busy \cup {x}
  /\ \E o \in Orders : todo' = [todo EXCEPT ![x] = o]
  /\ attempts' = [attempts EXCEPT ![x] = 0]
  /\ UNCHANGED <<circuit, at, fresh, retried>>

\* The exchange returns and gives its slot back.
Return(x) ==
  /\ busy' = busy \ {x}
  /\ todo' = [todo EXCEPT ![x] = <<>>]
  /\ attempts' = [attempts EXCEPT ![x] = 0]

\* Nothing left to try, or its own deadline has passed.
GiveUp(x) ==
  /\ x \in busy /\ at[x] = NoEndpoint
  /\ Return(x)
  /\ UNCHANGED <<circuit, at, fresh, retried>>

Choosing(x) == x \in busy /\ at[x] = NoEndpoint /\ todo[x] # <<>> /\ attempts[x] < MaxAttempts

\* claimDetailed refuses an open circuit before its retry time, or while
\* another exchange probes it.
Skip(x) ==
  LET e == Head(todo[x]) IN
  /\ Choosing(x)
  /\ open[e] /\ (probe[e] \/ cooling[e])
  /\ todo' = [todo EXCEPT ![x] = Tail(@)]
  /\ UNCHANGED <<circuit, at, fresh, attempts, retried, busy>>

\* Raising the epoch of e: every attempt in flight on it is late now.
Outdate(F, e) == [x \in Exchanges |-> F[x] /\ at[x] # e]

\* Mistake: several exchanges probe a half-open circuit at once.
ClaimTogether(x) ==
  LET e == Head(todo[x]) IN
  /\ Choosing(x)
  /\ ~open[e] \/ ~cooling[e]
  /\ probe' = [probe EXCEPT ![e] = open[e]]
  /\ fresh' = [fresh EXCEPT ![x] = TRUE]
  /\ at' = [at EXCEPT ![x] = e]
  /\ todo' = [todo EXCEPT ![x] = Tail(@)]
  /\ attempts' = [attempts EXCEPT ![x] = @ + 1]
  /\ UNCHANGED <<open, cooling, consecutive, backoff, retried, busy>>

Claim(x) ==
  LET e == Head(todo[x]) IN
  /\ Choosing(x)
  /\ \/ ~open[e] /\ UNCHANGED probe /\ fresh' = [fresh EXCEPT ![x] = TRUE]
     \/ /\ open[e] /\ ~probe[e] /\ ~cooling[e]
        /\ probe' = [probe EXCEPT ![e] = TRUE]
        /\ fresh' = [Outdate(fresh, e) EXCEPT ![x] = TRUE]
  /\ at' = [at EXCEPT ![x] = e]
  /\ todo' = [todo EXCEPT ![x] = Tail(@)]
  /\ attempts' = [attempts EXCEPT ![x] = @ + 1]
  /\ UNCHANGED <<open, cooling, consecutive, backoff, retried, busy>>

\* A truncated datagram is asked again over TCP, and a retired idle connection
\* is replaced by a fresh one, in this order; both count as attempts.
Retry(x, why) ==
  /\ at[x] # NoEndpoint /\ why \notin retried[x] /\ attempts[x] < MaxAttempts
  /\ why = "tcp" => retried[x] = {}
  /\ retried' = [retried EXCEPT ![x] = @ \cup {why}]
  /\ attempts' = [attempts EXCEPT ![x] = @ + 1]
  /\ UNCHANGED <<circuit, todo, at, fresh, busy>>
-----------------------------------------------------------------------------
(* record, for the attempt x has on its endpoint.                          *)

Min2(m, n) == IF m < n THEN m ELSE n

\* Mistake: opening a circuit leaves the attempts in flight their say.
TripKeepsEpoch(x, e, failures) ==
  /\ open' = [open EXCEPT ![e] = TRUE] /\ cooling' = [cooling EXCEPT ![e] = TRUE]
  /\ backoff' = [backoff EXCEPT ![e] = IF @ = 0 THEN OpenInterval ELSE Min2(2 * @, MaxBackoff)]
  /\ consecutive' = [consecutive EXCEPT ![e] = Min2(failures, FailureThreshold)]
  /\ fresh' = [fresh EXCEPT ![x] = FALSE]

Trip(x, e, failures) ==
  /\ open' = [open EXCEPT ![e] = TRUE] /\ cooling' = [cooling EXCEPT ![e] = TRUE]
  /\ backoff' = [backoff EXCEPT ![e] = IF @ = 0 THEN OpenInterval ELSE Min2(2 * @, MaxBackoff)]
  /\ consecutive' = [consecutive EXCEPT ![e] = Min2(failures, FailureThreshold)]
  /\ fresh' = [Outdate(fresh, e) EXCEPT ![x] = FALSE]

\* The circuit stays as it is; the attempt is over.
Unmoved(x) == fresh' = [fresh EXCEPT ![x] = FALSE]

\* A late completion changes nothing.
RecordLate(x) ==
  /\ ~fresh[x]
  /\ UNCHANGED <<circuit, fresh>>

\* A cancelled attempt only gives a probe back.
RecordCancelled(x) ==
  /\ fresh[x]
  /\ probe' = [probe EXCEPT ![at[x]] = FALSE]
  /\ Unmoved(x)
  /\ UNCHANGED <<open, cooling, consecutive, backoff>>

\* Mistake: a circuit that closes keeps its backoff.
RecordAnswerKeepsBackoff(x, refused) ==
  LET e == at[x] IN
  /\ fresh[x]
  /\ probe' = [probe EXCEPT ![e] = FALSE]
  /\ \/ /\ ~(probe[e] /\ refused)
        /\ open' = [open EXCEPT ![e] = FALSE] /\ cooling' = [cooling EXCEPT ![e] = FALSE]
        /\ consecutive' = [consecutive EXCEPT ![e] = 0]
        /\ Unmoved(x)
        /\ UNCHANGED backoff
     \/ probe[e] /\ refused /\ Trip(x, e, 0)

\* An answer. SERVFAIL and REFUSED from a probe keep the circuit open.
RecordAnswer(x, refused) ==
  LET e == at[x] IN
  /\ fresh[x]
  /\ probe' = [probe EXCEPT ![e] = FALSE]
  /\ \/ /\ ~(probe[e] /\ refused)
        /\ open' = [open EXCEPT ![e] = FALSE] /\ cooling' = [cooling EXCEPT ![e] = FALSE]
        /\ backoff' = [backoff EXCEPT ![e] = 0]
        /\ consecutive' = [consecutive EXCEPT ![e] = 0]
        /\ Unmoved(x)
     \/ probe[e] /\ refused /\ Trip(x, e, 0)

RecordFailure(x) ==
  LET e == at[x]
      failures == consecutive[e] + 1
  IN
  /\ fresh[x]
  /\ probe' = [probe EXCEPT ![e] = FALSE]
  /\ \/ (probe[e] \/ failures >= FailureThreshold) /\ Trip(x, e, failures)
     \/ /\ ~(probe[e] \/ failures >= FailureThreshold)
        /\ consecutive' = [consecutive EXCEPT ![e] = failures]
        /\ Unmoved(x)
        /\ UNCHANGED <<open, cooling, backoff>>

Ended(x) == at' = [at EXCEPT ![x] = NoEndpoint] /\ retried' = [retried EXCEPT ![x] = {}]
-----------------------------------------------------------------------------
(* How an attempt ends.                                                    *)

\* A usable answer is returned.
Answered(x) ==
  /\ at[x] # NoEndpoint
  /\ RecordLate(x) \/ RecordAnswer(x, FALSE)
  /\ Ended(x) /\ Return(x)

\* SERVFAIL or REFUSED: the next endpoint is tried.
Refused(x) ==
  /\ at[x] # NoEndpoint
  /\ RecordLate(x) \/ RecordAnswer(x, TRUE)
  /\ Ended(x)
  /\ UNCHANGED <<todo, attempts, busy>>

\* No answer, or not a valid one: the next endpoint is tried.
Failed(x) ==
  /\ at[x] # NoEndpoint
  /\ RecordLate(x) \/ RecordFailure(x)
  /\ Ended(x)
  /\ UNCHANGED <<todo, attempts, busy>>

\* Mistake: an exchange that ends without an endpoint outcome forgets its claim.
AbandonedUnrecorded(x) ==
  /\ at[x] # NoEndpoint
  /\ Unmoved(x)
  /\ Ended(x) /\ Return(x)
  /\ UNCHANGED circuit

\* The caller or the client went away, a truncated answer exhausted the attempts,
\* or the ID table is full: no outcome is recorded for the endpoint.
Abandoned(x) ==
  /\ at[x] # NoEndpoint
  /\ RecordLate(x) \/ RecordCancelled(x)
  /\ Ended(x) /\ Return(x)

\* Time reaches RetryAt.
CoolDown(e) ==
  /\ cooling[e] /\ cooling' = [cooling EXCEPT ![e] = FALSE]
  /\ UNCHANGED <<open, probe, consecutive, backoff, todo, at, fresh, attempts, retried, busy>>

Next ==
  \/ \E x \in Exchanges :
       \/ Begin(x) \/ GiveUp(x) \/ Skip(x) \/ Claim(x)
       \/ Retry(x, "tcp") \/ Retry(x, "conn")
       \/ Answered(x) \/ Refused(x) \/ Failed(x) \/ Abandoned(x)
  \/ \E e \in Endpoints : CoolDown(e)

Spec == Init /\ [][Next]_vars
-----------------------------------------------------------------------------
\* Types; the backoff stays under its cap and an exchange within its attempts.
TypeOK ==
  /\ {open, cooling, probe} \subseteq [Endpoints -> BOOLEAN]
  /\ consecutive \in [Endpoints -> 0..FailureThreshold]
  /\ backoff \in [Endpoints -> 0..MaxBackoff]
  /\ todo \in [Exchanges -> Seq(Endpoints)]
  /\ at \in [Exchanges -> Endpoints \cup {NoEndpoint}]
  /\ fresh \in [Exchanges -> BOOLEAN]
  /\ attempts \in [Exchanges -> 0..MaxAttempts]
  /\ retried \in [Exchanges -> SUBSET {"tcp", "conn"}]
  /\ busy \subseteq Exchanges

Probers(e) == {x \in Exchanges : at[x] = e /\ fresh[x]}

\* A half-open circuit has exactly one exchange that will report on it, and an
\* open circuit that is not half-open has none: a probe is never shared and
\* its place is never lost, however attempts are retried, cancelled or late.
ProbeHasOwner ==
  \A e \in Endpoints : open[e] => Cardinality(Probers(e)) = IF probe[e] THEN 1 ELSE 0

\* Only an open circuit is half-open or cooling, it has a backoff, and a closed
\* one has fewer failures in a row than open it.
CircuitConsistent ==
  \A e \in Endpoints :
    /\ probe[e] => open[e] /\ ~cooling[e]
    /\ cooling[e] => open[e]
    /\ open[e] <=> backoff[e] # 0
    /\ ~open[e] => consecutive[e] < FailureThreshold

\* Only its own probe closes an open circuit: an answer to an attempt that was
\* sent before the circuit opened does not.
OnlyProbeCloses == [][\A e \in Endpoints : open[e] /\ ~open'[e] => probe[e]]_vars

(***************************************************************************)
(* Recovery. Requests keep coming, and order puts every endpoint it may    *)
(* prefer first again and again (the exploration of the adaptive mode);    *)
(* not every exchange is cancelled before it claims an endpoint, and not   *)
(* every attempt at an endpoint fails. Attempts have deadlines.            *)
(***************************************************************************)
Preferred == {o[1] : o \in Orders}

FairSpec ==
  /\ Spec
  /\ \A e \in Preferred :
       /\ SF_vars(\E x \in Exchanges : Begin(x) /\ todo'[x][1] = e)
       /\ SF_vars(\E x \in Exchanges : Claim(x) /\ at'[x] = e)
       /\ SF_vars(\E x \in Exchanges : at[x] = e /\ Answered(x))
  /\ \A x \in Exchanges : WF_vars(GiveUp(x))
  /\ \A e \in Endpoints : WF_vars(CoolDown(e))

\* The circuit of an endpoint that answers again, if only now and then, does not
\* stay open: its probe is never lost with the exchange that made it.
Recovers == \A e \in Preferred : []<>(~open[e])
=============================================================================
