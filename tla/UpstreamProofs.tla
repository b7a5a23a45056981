--------------------------- MODULE UpstreamProofs ---------------------------
(***************************************************************************)
(* Proofs about Upstream, for any number of exchanges, any pools and any   *)
(* limits.                                                                 *)
(***************************************************************************)
EXTENDS Upstream, FiniteSetTheorems, TLAPS

\* The attempt x has at e will be heard when it ends.
Heard(x, e) == at[x] = e /\ fresh[x]

\* ProbeHasOwner without counting: an open circuit hears at most one attempt, and
\* it hears one exactly while it is half-open.
Owned ==
  \A e \in Endpoints : open[e] =>
    /\ probe[e] => \E x \in Exchanges : Heard(x, e)
    /\ ~probe[e] => \A x \in Exchanges : ~Heard(x, e)
    /\ \A x, y \in Exchanges : Heard(x, e) /\ Heard(y, e) => x = y

\* The inductive invariant. Owned needs to know that only open circuits are
\* half-open, and a circuit stays consistent only because its probe is heard.
IInv == TypeOK /\ CircuitConsistent /\ Owned

\* A sequence's elements are finitely many.
LEMMA RangeFinite ==
  ASSUME NEW S, NEW s \in Seq(S)
  PROVE  IsFiniteSet(Range(s))
  <1>1. Len(s) \in Nat /\ DOMAIN s = 1..Len(s)
    OBVIOUS
  <1>2. s \in [1..Len(s) -> Range(s)]
    BY <1>1 DEF Range
  <1>3. s \in Surjection(1..Len(s), Range(s))
    BY <1>1, <1>2 DEF Surjection, Range
  <1> QED
    BY <1>1, <1>3, FS_Interval, FS_Surjection

\* An ordering of a finite set is a sequence of its elements.
LEMMA SetToSeqsType ==
  ASSUME NEW S, IsFiniteSet(S)
  PROVE  SetToSeqs(S) \subseteq Seq(S)
  <1>1. Cardinality(S) \in Nat
    BY FS_CardinalityType
  <1> QED
    BY <1>1 DEF SetToSeqs

\* Every order of the pools lists endpoints.
LEMMA OrdersType == Orders \subseteq Seq(Endpoints)
  <1>1. IsFiniteSet(Range(Primary)) /\ IsFiniteSet(Range(Fallback))
    BY RangeFinite, UpstreamAssumption
  <1>2. SetToSeqs(Range(Primary)) \subseteq Seq(Range(Primary))
    BY <1>1, SetToSeqsType
  <1>3. SetToSeqs(Range(Fallback)) \subseteq Seq(Range(Fallback))
    BY <1>1, SetToSeqsType
  <1>4. \A p \in Seq(Range(Primary)), f \in Seq(Range(Fallback)) : p \o f \in Seq(Endpoints)
    BY DEF Endpoints
  <1>5. CASE Adaptive
    <2>1. Orders = {p \o f : p \in SetToSeqs(Range(Primary)), f \in SetToSeqs(Range(Fallback))}
      BY <1>5 DEF Orders
    <2> SUFFICES ASSUME NEW o \in Orders PROVE o \in Seq(Endpoints)
      OBVIOUS
    <2>2. PICK p \in SetToSeqs(Range(Primary)), f \in SetToSeqs(Range(Fallback)) : o = p \o f
      BY <2>1
    <2> QED
      BY <2>2, <1>2, <1>3, <1>4
  <1>6. CASE ~Adaptive
    BY <1>6, <1>4, UpstreamAssumption DEF Orders
  <1> QED
    BY <1>5, <1>6

\* The invariant holds at the start.
LEMMA InitIInv == Init => IInv
  <1> SUFFICES ASSUME Init PROVE IInv
    OBVIOUS
  <1>1. TypeOK
    BY UpstreamAssumption DEF Init, TypeOK
  <1>2. CircuitConsistent
    BY UpstreamAssumption DEF Init, CircuitConsistent
  <1>3. Owned
    BY DEF Init, Owned, Heard
  <1> QED
    BY <1>1, <1>2, <1>3 DEF IInv

\* The attempt of x ends and its outcome reaches its endpoint, or comes too late.
Recorded(x) ==
  RecordLate(x) \/ RecordAnswer(x, FALSE) \/ RecordAnswer(x, TRUE) \/ RecordFailure(x)
    \/ RecordCancelled(x)

\* record keeps the circuits in order, whatever the outcome: a failure that does not
\* open a circuit cannot be a probe's, and only the probe of an open circuit is heard.
LEMMA RecordKeeps ==
  ASSUME IInv, NEW x \in Exchanges, at[x] # NoEndpoint, Recorded(x),
         at' = [at EXCEPT ![x] = NoEndpoint]
  PROVE  /\ {open, cooling, probe}' \subseteq [Endpoints -> BOOLEAN]
         /\ consecutive' \in [Endpoints -> 0..FailureThreshold]
         /\ backoff' \in [Endpoints -> 0..MaxBackoff]
         /\ at' \in [Exchanges -> Endpoints \cup {NoEndpoint}]
         /\ fresh' \in [Exchanges -> BOOLEAN]
         /\ CircuitConsistent' /\ Owned'
         /\ \A e \in Endpoints : open[e] /\ ~open'[e] => probe[e]
  <1> DEFINE e == at[x]
  <1>0. e \in Endpoints /\ at' \in [Exchanges -> Endpoints \cup {NoEndpoint}]
    BY DEF IInv, TypeOK
  <1>a. /\ open \in [Endpoints -> BOOLEAN] /\ cooling \in [Endpoints -> BOOLEAN]
        /\ probe \in [Endpoints -> BOOLEAN] /\ consecutive \in [Endpoints -> 0..FailureThreshold]
        /\ backoff \in [Endpoints -> 0..MaxBackoff] /\ fresh \in [Exchanges -> BOOLEAN]
        /\ at \in [Exchanges -> Endpoints \cup {NoEndpoint}]
    BY DEF IInv, TypeOK
  <1>b. NoEndpoint \notin Endpoints
    BY UpstreamAssumption
  <1>c. /\ FailureThreshold \in Nat /\ FailureThreshold > 0
        /\ OpenInterval \in Nat /\ OpenInterval > 0
        /\ MaxBackoff \in Nat /\ MaxBackoff >= OpenInterval
    BY UpstreamAssumption
  <1>1. CASE RecordLate(x)
    <2>1. UNCHANGED circuit /\ fresh' = fresh /\ ~fresh[x]
      BY <1>1 DEF RecordLate
    <2>2. UNCHANGED <<open, cooling, probe, consecutive, backoff>>
      BY <2>1 DEF circuit
    <2>3. \A y \in Exchanges, f \in Endpoints : Heard(y, f)' <=> Heard(y, f)
      BY <2>1, <1>0, <1>a, <1>b DEF Heard
    <2>4. Owned'
      BY <2>2, <2>3 DEF Owned, IInv
    <2> QED
      BY <2>1, <2>2, <2>4, <1>0, <1>a DEF IInv, CircuitConsistent
  \* The circuit of e is closed, by an answer.
  <1>2. ASSUME fresh[x], ~(probe[e] /\ open'[e]), probe' = [probe EXCEPT ![e] = FALSE],
               open' = [open EXCEPT ![e] = FALSE], cooling' = [cooling EXCEPT ![e] = FALSE],
               backoff' = [backoff EXCEPT ![e] = 0],
               consecutive' = [consecutive EXCEPT ![e] = 0], Unmoved(x)
        PROVE  /\ {open, cooling, probe}' \subseteq [Endpoints -> BOOLEAN]
               /\ consecutive' \in [Endpoints -> 0..FailureThreshold]
               /\ backoff' \in [Endpoints -> 0..MaxBackoff]
               /\ fresh' \in [Exchanges -> BOOLEAN]
               /\ CircuitConsistent' /\ Owned'
               /\ \A f \in Endpoints : open[f] /\ ~open'[f] => probe[f]
    <2>1. \A y \in Exchanges, f \in Endpoints : f # e => (Heard(y, f)' <=> Heard(y, f))
      BY <1>2, <1>0, <1>a, <1>b DEF Heard, Unmoved
    <2>2. Owned'
      BY <2>1, <1>2, <1>0, <1>a DEF Owned, IInv
    <2>3. CircuitConsistent'
      BY <1>2, <1>0, <1>a, <1>c DEF CircuitConsistent, IInv
    <2>4. open[e] => probe[e]
      BY <1>2, <1>0 DEF IInv, Owned, Heard
    <2>5. \A f \in Endpoints : open[f] /\ ~open'[f] => probe[f]
      BY <2>4, <1>2, <1>0, <1>a
    <2> QED
      BY <2>2, <2>3, <2>5, <1>2, <1>a, <1>c DEF Unmoved
  \* The circuit of e opens or stays open, with a longer backoff.
  <1>3. ASSUME NEW n \in Nat, fresh[x], probe' = [probe EXCEPT ![e] = FALSE], Trip(x, e, n)
        PROVE  /\ {open, cooling, probe}' \subseteq [Endpoints -> BOOLEAN]
               /\ consecutive' \in [Endpoints -> 0..FailureThreshold]
               /\ backoff' \in [Endpoints -> 0..MaxBackoff]
               /\ fresh' \in [Exchanges -> BOOLEAN]
               /\ CircuitConsistent' /\ Owned'
               /\ \A f \in Endpoints : open[f] /\ ~open'[f] => probe[f]
    <2>0. fresh' = [y \in Exchanges |-> y # x /\ fresh[y] /\ at[y] # e]
      BY <1>3, <1>a DEF Trip, Outdate
    <2>1. \A y \in Exchanges, f \in Endpoints : f # e => (Heard(y, f)' <=> Heard(y, f))
      BY <2>0, <1>0, <1>a, <1>b DEF Heard
    <2>2. \A y \in Exchanges, f \in Endpoints : f = e => ~Heard(y, f)'
      BY <2>0, <1>0, <1>a, <1>b DEF Heard
    <2>3. Owned'
      BY <2>1, <2>2, <1>3, <1>0, <1>a DEF Owned, IInv, Trip
    <2>4. Min2(n, FailureThreshold) \in 0..FailureThreshold
      BY <1>c, <1>3 DEF Min2
    <2>5. /\ (IF backoff[e] = 0 THEN OpenInterval ELSE Min2(2 * backoff[e], MaxBackoff)) \in 1..MaxBackoff
      BY <1>c, <1>0, <1>a DEF Min2
    <2>6. /\ consecutive' = [consecutive EXCEPT ![e] = Min2(n, FailureThreshold)]
          /\ backoff' = [backoff EXCEPT ![e] =
               IF backoff[e] = 0 THEN OpenInterval ELSE Min2(2 * backoff[e], MaxBackoff)]
          /\ open' = [open EXCEPT ![e] = TRUE] /\ cooling' = [cooling EXCEPT ![e] = TRUE]
      BY <1>3 DEF Trip
    <2>7. backoff'[e] # 0 /\ \A f \in Endpoints : f # e => backoff'[f] = backoff[f]
      BY <2>5, <2>6, <1>0, <1>a
    <2>8. CircuitConsistent'
      BY <2>6, <2>7, <1>3, <1>0, <1>a DEF CircuitConsistent, IInv
    <2>9. consecutive' \in [Endpoints -> 0..FailureThreshold]
      BY <2>4, <2>6, <1>a
    <2>10. backoff' \in [Endpoints -> 0..MaxBackoff]
      BY <2>5, <2>6, <1>a, <1>c
    <2>11. \A f \in Endpoints : open[f] => open'[f]
      BY <2>6, <1>a
    <2>12. fresh' \in [Exchanges -> BOOLEAN]
      BY <2>0, <1>a
    <2> QED
      BY <2>3, <2>8, <2>9, <2>10, <2>11, <2>12, <2>6, <1>3, <1>a
  <1>4. CASE RecordAnswer(x, FALSE) \/ RecordAnswer(x, TRUE)
    <2>1. fresh[x] /\ probe' = [probe EXCEPT ![e] = FALSE]
      BY <1>4 DEF RecordAnswer
    <2>2. CASE Trip(x, e, 0)
      BY <2>1, <2>2, <1>3, <1>0
    <2>3. CASE ~Trip(x, e, 0)
      <3>1. /\ open' = [open EXCEPT ![e] = FALSE] /\ cooling' = [cooling EXCEPT ![e] = FALSE]
            /\ backoff' = [backoff EXCEPT ![e] = 0]
            /\ consecutive' = [consecutive EXCEPT ![e] = 0] /\ Unmoved(x)
        BY <1>4, <2>3 DEF RecordAnswer
      <3>2. ~open'[e]
        BY <3>1, <1>0, <1>a
      <3> QED
        BY <2>1, <3>1, <3>2, <1>2, <1>0
    <2> QED
      BY <2>2, <2>3
  <1>5. CASE RecordFailure(x)
    <2>1. fresh[x] /\ probe' = [probe EXCEPT ![e] = FALSE]
      BY <1>5 DEF RecordFailure
    <2>2. CASE Trip(x, e, consecutive[e] + 1)
      <3>1. consecutive[e] + 1 \in Nat
        BY <1>0, <1>a, <1>c
      <3> QED
        BY <2>1, <2>2, <3>1, <1>3, <1>0
    <2>3. CASE ~Trip(x, e, consecutive[e] + 1)
      <3>1. /\ ~probe[e] /\ ~(consecutive[e] + 1 >= FailureThreshold)
            /\ consecutive' = [consecutive EXCEPT ![e] = consecutive[e] + 1]
            /\ Unmoved(x) /\ UNCHANGED <<open, cooling, backoff>>
        BY <1>5, <2>3 DEF RecordFailure
      <3>2. probe' = probe
        BY <2>1, <3>1, <1>0, <1>a
      <3>3. ~open[e]
        BY <2>1, <3>1, <1>0 DEF IInv, Owned, Heard
      <3>4. \A y \in Exchanges, f \in Endpoints : f # e => (Heard(y, f)' <=> Heard(y, f))
        BY <3>1, <1>0, <1>a, <1>b DEF Heard, Unmoved
      <3>5. Owned'
        BY <3>1, <3>2, <3>3, <3>4 DEF Owned, IInv
      <3>6. consecutive[e] + 1 \in 0..FailureThreshold /\ consecutive[e] + 1 < FailureThreshold
        BY <3>1, <1>0, <1>a, <1>c
      <3>7. CircuitConsistent'
        BY <3>1, <3>2, <3>6, <1>0, <1>a DEF CircuitConsistent, IInv
      <3> QED
        BY <3>1, <3>2, <3>5, <3>6, <3>7, <1>0, <1>a DEF Unmoved
    <2> QED
      BY <2>2, <2>3
  <1>6. CASE RecordCancelled(x)
    <2>1. /\ fresh[x] /\ probe' = [probe EXCEPT ![e] = FALSE] /\ Unmoved(x)
          /\ UNCHANGED <<open, cooling, consecutive, backoff>>
      BY <1>6 DEF RecordCancelled
    <2>2. \A y \in Exchanges, f \in Endpoints : f # e => (Heard(y, f)' <=> Heard(y, f))
      BY <2>1, <1>0, <1>a, <1>b DEF Heard, Unmoved
    <2>3. \A y \in Exchanges, f \in Endpoints : f = e /\ open[f] => ~Heard(y, f)'
      BY <2>1, <1>0, <1>a, <1>b DEF Heard, Unmoved, IInv, Owned
    <2>4. Owned'
      BY <2>1, <2>2, <2>3, <1>0, <1>a DEF Owned, IInv
    <2>5. CircuitConsistent'
      BY <2>1, <1>0, <1>a DEF CircuitConsistent, IInv
    <2> QED
      BY <2>1, <2>4, <2>5, <1>0, <1>a DEF Unmoved
  <1> QED
    BY <1>1, <1>4, <1>5, <1>6, <1>0 DEF Recorded

\* The rest of TypeOK: where every exchange is.
Progress ==
  /\ todo \in [Exchanges -> Seq(Endpoints)]
  /\ attempts \in [Exchanges -> 0..MaxAttempts]
  /\ retried \in [Exchanges -> SUBSET {"tcp", "conn"}]
  /\ busy \subseteq Exchanges

\* An exchange that returns is in no place.
LEMMA ReturnKeeps ==
  ASSUME IInv, NEW x \in Exchanges, Return(x),
         retried' = retried \/ retried' = [retried EXCEPT ![x] = {}]
  PROVE  Progress'
  <1>1. <<>> \in Seq(Endpoints) /\ 0 \in 0..MaxAttempts
    BY UpstreamAssumption
  <1> QED
    BY <1>1 DEF IInv, TypeOK, Progress, Return

\* Whatever the outcome of an attempt, the invariant holds afterwards and only the
\* probe of a circuit has closed it.
LEMMA EndKeeps ==
  ASSUME IInv, NEW x \in Exchanges, Answered(x) \/ Refused(x) \/ Failed(x) \/ Abandoned(x)
  PROVE  IInv' /\ \A e \in Endpoints : open[e] /\ ~open'[e] => probe[e]
  <1>1. /\ at[x] # NoEndpoint /\ Recorded(x)
        /\ at' = [at EXCEPT ![x] = NoEndpoint] /\ retried' = [retried EXCEPT ![x] = {}]
    BY DEF Answered, Refused, Failed, Abandoned, Recorded, Ended
  <1>2. CASE Return(x)
    <2>1. Progress'
      BY <1>1, <1>2, ReturnKeeps
    <2> QED
      BY <1>1, <2>1, RecordKeeps DEF IInv, TypeOK, Progress
  <1>3. CASE UNCHANGED <<todo, attempts, busy>>
    <2>1. Progress'
      BY <1>1, <1>3 DEF IInv, TypeOK, Progress
    <2> QED
      BY <1>1, <2>1, RecordKeeps DEF IInv, TypeOK, Progress
  <1> QED
    BY <1>2, <1>3 DEF Answered, Refused, Failed, Abandoned

\* Every step keeps the invariant.
LEMMA NextIInv == IInv /\ [Next]_vars => IInv'
  <1> SUFFICES ASSUME IInv, [Next]_vars PROVE IInv'
    OBVIOUS
  <1> USE DEF circuit
  <1>0. TypeOK /\ CircuitConsistent /\ Owned
    BY DEF IInv
  \* Steps that touch neither a circuit nor an attempt.
  <1>u. ASSUME UNCHANGED <<circuit, at, fresh>>, Progress' PROVE IInv'
    <2>1. TypeOK'
      BY <1>0, <1>u DEF TypeOK, Progress
    <2>2. CircuitConsistent' /\ Owned'
      BY <1>0, <1>u DEF CircuitConsistent, Owned, Heard
    <2> QED
      BY <2>1, <2>2 DEF IInv
  <1>1. ASSUME NEW x \in Exchanges, Begin(x) PROVE IInv'
    <2>1. \A o \in Orders : o \in Seq(Endpoints)
      BY OrdersType
    <2>2. todo' \in [Exchanges -> Seq(Endpoints)]
      BY <1>1, <2>1, <1>0 DEF Begin, TypeOK
    <2>3. 0 \in 0..MaxAttempts
      BY UpstreamAssumption
    <2>4. Progress'
      BY <1>1, <2>2, <2>3, <1>0 DEF Begin, TypeOK, Progress
    <2> QED
      BY <1>1, <2>4, <1>u DEF Begin
  <1>2. ASSUME NEW x \in Exchanges, GiveUp(x) PROVE IInv'
    <2>1. Progress'
      BY <1>2, ReturnKeeps DEF GiveUp
    <2> QED
      BY <1>2, <2>1, <1>u DEF GiveUp
  <1>3. ASSUME NEW x \in Exchanges, Skip(x) PROVE IInv'
    <2>1. Tail(todo[x]) \in Seq(Endpoints)
      BY <1>3, <1>0 DEF Skip, Choosing, TypeOK
    <2>2. Progress'
      BY <1>3, <2>1, <1>0 DEF Skip, TypeOK, Progress
    <2> QED
      BY <1>3, <2>2, <1>u DEF Skip
  <1>4. ASSUME NEW x \in Exchanges, Claim(x) PROVE IInv'
    <2>1. PICK e \in Endpoints : e = Head(todo[x])
      BY <1>4, <1>0 DEF Claim, Choosing, TypeOK
    <2>2. Tail(todo[x]) \in Seq(Endpoints) /\ attempts[x] + 1 \in 0..MaxAttempts
      <3>1. todo[x] \in Seq(Endpoints) /\ todo[x] # <<>>
        BY <1>4, <1>0 DEF Claim, Choosing, TypeOK
      <3>2. attempts[x] \in 0..MaxAttempts /\ attempts[x] < MaxAttempts
        BY <1>4, <1>0 DEF Claim, Choosing, TypeOK
      <3>3. {MaxOutstanding, MaxAttempts, FailureThreshold, OpenInterval} \subseteq Nat \ {0}
        BY ONLY UpstreamAssumption
      <3>4. MaxAttempts \in Nat
        BY ONLY <3>3
      <3>5. attempts[x] + 1 \in 0..MaxAttempts
        BY ONLY <3>2, <3>4
      <3> QED
        BY <3>1, <3>5
    <2>3. Progress'
      BY <1>4, <2>2, <1>0 DEF Claim, TypeOK, Progress
    <2>4. /\ at' = [at EXCEPT ![x] = e] /\ at[x] = NoEndpoint
          /\ UNCHANGED <<open, cooling, consecutive, backoff>>
      BY <1>4, <2>1 DEF Claim, Choosing
    <2>5. /\ open \in [Endpoints -> BOOLEAN] /\ probe \in [Endpoints -> BOOLEAN]
          /\ cooling \in [Endpoints -> BOOLEAN] /\ fresh \in [Exchanges -> BOOLEAN]
          /\ at \in [Exchanges -> Endpoints \cup {NoEndpoint}] /\ NoEndpoint \notin Endpoints
      BY <1>0, UpstreamAssumption DEF TypeOK
    <2>6. CASE ~open[e] /\ UNCHANGED probe /\ fresh' = [fresh EXCEPT ![x] = TRUE]
      <3>1. TypeOK'
        BY <2>3, <2>4, <2>5, <2>6, <1>0 DEF TypeOK, Progress
      <3>2. CircuitConsistent'
        BY <2>4, <2>6, <1>0 DEF CircuitConsistent
      <3>3. \A y \in Exchanges, f \in Endpoints : f # e => (Heard(y, f)' <=> Heard(y, f))
        BY <2>4, <2>5, <2>6 DEF Heard
      <3>4. Owned'
        BY <3>3, <2>4, <2>6, <1>0 DEF Owned
      <3> QED
        BY <3>1, <3>2, <3>4 DEF IInv
    <2>7. CASE /\ open[e] /\ ~probe[e] /\ ~cooling[e]
               /\ probe' = [probe EXCEPT ![e] = TRUE]
               /\ fresh' = [Outdate(fresh, e) EXCEPT ![x] = TRUE]
      <3>0. fresh' = [y \in Exchanges |-> y = x \/ (fresh[y] /\ at[y] # e)]
        BY <2>7, <2>5 DEF Outdate
      <3>1. TypeOK'
        BY <2>3, <2>4, <2>5, <2>7, <3>0, <1>0 DEF TypeOK, Progress
      <3>2. CircuitConsistent'
        BY <2>4, <2>5, <2>7, <1>0 DEF CircuitConsistent
      <3>3. \A y \in Exchanges, f \in Endpoints : f # e => (Heard(y, f)' <=> Heard(y, f))
        BY <2>4, <2>5, <3>0 DEF Heard
      <3>4. \A y \in Exchanges : Heard(y, e)' <=> y = x
        BY <2>4, <2>5, <3>0 DEF Heard
      <3>5. Owned'
        BY <3>3, <3>4, <2>4, <2>5, <2>7, <1>0 DEF Owned
      <3> QED
        BY <3>1, <3>2, <3>5 DEF IInv
    <2> QED
      BY <1>4, <2>1, <2>6, <2>7 DEF Claim
  <1>5. ASSUME NEW x \in Exchanges, NEW why \in {"tcp", "conn"}, Retry(x, why) PROVE IInv'
    <2>1. attempts[x] + 1 \in 0..MaxAttempts
      BY <1>5, <1>0, UpstreamAssumption DEF Retry, TypeOK
    <2>2. Progress'
      BY <1>5, <2>1, <1>0 DEF Retry, TypeOK, Progress
    <2> QED
      BY <1>5, <2>2, <1>u DEF Retry
  <1>6. ASSUME NEW e \in Endpoints, CoolDown(e) PROVE IInv'
    <2>1. TypeOK' /\ CircuitConsistent'
      BY <1>6, <1>0 DEF CoolDown, TypeOK, CircuitConsistent
    <2>2. Owned'
      BY <1>6, <1>0 DEF CoolDown, Owned, Heard
    <2> QED
      BY <2>1, <2>2 DEF IInv
  <1>7. CASE UNCHANGED vars
    <2>1. Progress'
      BY <1>7, <1>0 DEF vars, TypeOK, Progress
    <2> QED
      BY <1>7, <2>1, <1>u DEF vars
  <1> QED
    BY <1>1, <1>2, <1>3, <1>4, <1>5, <1>6, <1>7, EndKeeps DEF Next

\* The inductive invariant holds always.
THEOREM Invariance == Spec => []IInv
  BY InitIInv, NextIInv, PTL DEF Spec

\* Backoff, failure counts and attempts stay within their limits, and every exchange
\* is at an endpoint of the pool (Exchange, record).
THEOREM TypeCorrect == Spec => []TypeOK
  <1>1. IInv => TypeOK
    BY DEF IInv
  <1> QED
    BY <1>1, Invariance, PTL

\* The parts of a circuit agree: half-open, cooling, backoff and failures (record).
THEOREM CircuitsAgree == Spec => []CircuitConsistent
  <1>1. IInv => CircuitConsistent
    BY DEF IInv
  <1> QED
    BY <1>1, Invariance, PTL

\* A probe is never shared and never lost: a half-open circuit has exactly one
\* exchange that will report on it (claimDetailed, record, and the abandoned
\* attempts of Exchange).
THEOREM ProbesOwned == Spec => []ProbeHasOwner
  <1>1. IInv => ProbeHasOwner
    <2> SUFFICES ASSUME IInv, NEW e \in Endpoints, open[e]
                 PROVE  Cardinality(Probers(e)) = IF probe[e] THEN 1 ELSE 0
      BY DEF ProbeHasOwner
    <2>1. CASE probe[e]
      <3>1. PICK x \in Exchanges : Heard(x, e)
        BY <2>1 DEF IInv, Owned
      <3>2. Probers(e) = {x}
        BY <3>1 DEF IInv, Owned, Probers, Heard
      <3> QED
        BY <2>1, <3>2, FS_Singleton
    <2>2. CASE ~probe[e]
      <3>1. Probers(e) = {}
        BY <2>2 DEF IInv, Owned, Probers, Heard
      <3> QED
        BY <2>2, <3>1, FS_EmptySet
    <2> QED
      BY <2>1, <2>2
  <1> QED
    BY <1>1, Invariance, PTL

\* No answer but that of its own probe closes a circuit: what was sent before it
\* opened comes too late (record's comparison of epochs).
THEOREM ProbesClose == Spec => OnlyProbeCloses
  <1>1. IInv /\ [Next]_vars =>
          [\A e \in Endpoints : open[e] /\ ~open'[e] => probe[e]]_vars
    <2> SUFFICES ASSUME IInv, Next
                 PROVE  \A e \in Endpoints : open[e] /\ ~open'[e] => probe[e]
      OBVIOUS
    <2>1. ASSUME NEW x \in Exchanges, Begin(x) \/ GiveUp(x) \/ Skip(x) \/ Claim(x)
          PROVE  UNCHANGED open
      BY <2>1 DEF Begin, GiveUp, Skip, Claim, circuit
    <2>2. ASSUME NEW x \in Exchanges, NEW why \in {"tcp", "conn"}, Retry(x, why)
          PROVE  UNCHANGED open
      BY <2>2 DEF Retry, circuit
    <2>3. ASSUME NEW e \in Endpoints, CoolDown(e) PROVE UNCHANGED open
      BY <2>3 DEF CoolDown
    <2> QED
      BY <2>1, <2>2, <2>3, EndKeeps DEF Next
  <1> QED
    BY <1>1, Invariance, PTL DEF Spec, OnlyProbeCloses
=============================================================================
