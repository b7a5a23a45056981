--------------------------- MODULE LifecycleProofs ---------------------------
(***************************************************************************)
(* Proofs about Lifecycle: about Flights, for any number of requests, keys *)
(* and flights and any limits, and about ServiceLifecycle, for any sizes   *)
(* and numbers of slots, workers and connections and any number of jobs.   *)
(***************************************************************************)
EXTENDS Lifecycle, FiniteSetTheorems, TLAPS

Waits(f) == {c \in Clients : waiting[c] = f}
Refreshing == {f \in running : refresh[f]}

\* A worker that is not cancelled is the one its key leads to.
Attached == \A f \in running : ~cancelled[f] => active[key[f]] = f

\* A flight's own count is the number of requests waiting for it.
WaitersExact == \A f \in Works : waiters[f] = Cardinality({c \in Clients : waiting[c] = f})

\* JoinableIsLive in the terms the code decides by: the flight's own count.
LiveCounted ==
  \A k \in Keys : LET f == active[k] IN f # NoWork =>
    /\ f \in running /\ key[f] = k
    /\ closed \/ ~cancelled[f]
    /\ refresh[f] \/ waiters[f] > 0

\* The inductive invariant. Attached is what makes work unique per key and
\* reachable by close; WaitersExact is what makes "the last waiter" mean it.
IInv ==
  /\ TypeOK /\ BudgetExact /\ WaitersExact /\ LiveCounted
  /\ Attached /\ ClosedCancelsAll

\* A finite set gains an element it did not have.
LEMMA Gains ==
  ASSUME NEW S, IsFiniteSet(S), NEW x, x \notin S
  PROVE  IsFiniteSet(S \cup {x}) /\ Cardinality(S) \in Nat
         /\ Cardinality(S \cup {x}) = Cardinality(S) + 1
  BY FS_AddElement, FS_CardinalityType

\* A finite set loses an element it had, so it had at least one.
LEMMA Loses ==
  ASSUME NEW S, IsFiniteSet(S), NEW x \in S
  PROVE  IsFiniteSet(S \ {x}) /\ Cardinality(S) \in Nat /\ Cardinality(S) > 0
         /\ Cardinality(S \ {x}) = Cardinality(S) - 1
  <1>1. Cardinality(S) \in Nat
    BY FS_CardinalityType
  <1>2. S # {}
    OBVIOUS
  <1>3. Cardinality(S) # 0
    BY <1>2, FS_EmptySet
  <1> QED
    BY <1>1, <1>3, FS_RemoveElement

\* The sets the counters count are finite.
LEMMA Finite ==
  ASSUME TypeOK
  PROVE  /\ IsFiniteSet(running) /\ IsFiniteSet(Refreshing)
         /\ \A f \in Works : IsFiniteSet(Waits(f))
  <1>1. IsFiniteSet(Works) /\ IsFiniteSet(Clients)
    BY FlightsAssumption
  <1>2. running \subseteq Works
    BY DEF TypeOK
  <1>3. IsFiniteSet(running)
    BY <1>1, <1>2, FS_Subset
  <1>4. Refreshing \subseteq running
    BY DEF Refreshing
  <1>5. \A f \in Works : Waits(f) \subseteq Clients
    BY DEF Waits
  <1> QED
    BY <1>1, <1>3, <1>4, <1>5, FS_Subset

\* Initially nothing runs and nobody waits.
LEMMA InitIInv == Init => IInv
  <1> SUFFICES ASSUME Init PROVE IInv
    OBVIOUS
  <1>1. TypeOK
    BY FlightsAssumption DEF Init, TypeOK
  <1>2. Cardinality({}) = 0
    BY FS_EmptySet
  <1>3. {f \in running : refresh[f]} = {}
    BY DEF Init
  <1>4. BudgetExact
    BY <1>2, <1>3, FlightsAssumption DEF Init, BudgetExact
  <1>5. \A f \in Works : {c \in Clients : waiting[c] = f} = {}
    BY FlightsAssumption DEF Init
  <1>6. WaitersExact
    BY <1>2, <1>5 DEF Init, WaitersExact
  <1> QED
    BY <1>1, <1>4, <1>6 DEF IInv, Init, LiveCounted, Attached, ClosedCancelsAll

\* A new worker for key k keeps every part but the waiting one, whatever the
\* number n of requests that lead it, if that is 1 unless it is a refresh.
LEMMA StartKeeps ==
  ASSUME IInv, NEW k \in Keys, NEW f \in Works, NEW isRefresh \in BOOLEAN, NEW n \in Nat,
         Start(k, f, isRefresh, n), isRefresh \/ n > 0,
         refreshes' = IF isRefresh THEN refreshes + 1 ELSE refreshes,
         isRefresh => refreshes < MaxRefresh
  PROVE  BudgetExact' /\ LiveCounted' /\ Attached' /\ ClosedCancelsAll'
  <1>1. f \notin running /\ f # NoWork
    BY FlightsAssumption DEF Start, Unused
  <1>2. \A j \in Keys : active[j] # f
    BY <1>1 DEF IInv, LiveCounted
  <1>3. BudgetExact'
    <2>1. Cardinality(running \cup {f}) = Cardinality(running) + 1 /\ Cardinality(running) \in Nat
      BY <1>1, Finite, Gains DEF IInv
    <2>2. workers' = Cardinality(running') /\ workers' <= MaxFlights
      BY <2>1, FlightsAssumption DEF IInv, BudgetExact, TypeOK, Start
    <2>3. CASE isRefresh
      <3>1. {g \in running' : refresh'[g]} = Refreshing \cup {f}
        BY <1>1, <2>3 DEF Start, Refreshing, IInv, TypeOK
      <3>2. f \notin Refreshing
        BY <1>1 DEF Refreshing
      <3>3. Cardinality(Refreshing \cup {f}) = Cardinality(Refreshing) + 1
        BY <3>2, Finite, Gains DEF IInv
      <3>4. refreshes = Cardinality(Refreshing) /\ refreshes \in Nat /\ MaxRefresh \in Nat
        BY FlightsAssumption DEF IInv, BudgetExact, TypeOK, Refreshing
      <3>5. refreshes' = Cardinality(Refreshing \cup {f}) /\ refreshes' <= MaxRefresh
        BY <2>3, <3>3, <3>4
      <3> QED
        BY <2>2, <3>1, <3>5 DEF BudgetExact
    <2>4. CASE ~isRefresh
      <3>1. {g \in running' : refresh'[g]} = {g \in running : refresh[g]}
        BY <1>1, <2>4 DEF Start, IInv, TypeOK
      <3> QED
        BY <2>2, <2>4, <3>1 DEF IInv, BudgetExact
    <2> QED
      BY <2>3, <2>4
  <1>4. LiveCounted'
    <2> SUFFICES ASSUME NEW j \in Keys, active'[j] # NoWork
                 PROVE  /\ active'[j] \in running' /\ key'[active'[j]] = j
                        /\ closed' \/ ~cancelled'[active'[j]]
                        /\ refresh'[active'[j]] \/ waiters'[active'[j]] > 0
      BY DEF LiveCounted
    <2>1. CASE j = k
      BY <2>1 DEF Start, IInv, TypeOK
    <2>2. CASE j # k
      <3>1. active'[j] = active[j] /\ active[j] # f /\ active[j] \in Works
        BY <1>2, <2>2 DEF Start, IInv, TypeOK
      <3>2. /\ active[j] \in running /\ key[active[j]] = j
            /\ closed \/ ~cancelled[active[j]]
            /\ refresh[active[j]] \/ waiters[active[j]] > 0
        BY <3>1 DEF IInv, LiveCounted
      <3> QED
        BY <3>1, <3>2 DEF Start, IInv, TypeOK
    <2> QED
      BY <2>1, <2>2
  <1>5. Attached'
    <2> SUFFICES ASSUME NEW g \in running', ~cancelled'[g] PROVE active'[key'[g]] = g
      BY DEF Attached
    <2>1. CASE g = f
      BY <2>1 DEF Start, IInv, TypeOK
    <2>2. CASE g # f
      <3>1. g \in running /\ g \in Works /\ key'[g] = key[g] /\ cancelled'[g] = cancelled[g]
        BY <2>2 DEF Start, IInv, TypeOK
      <3>2. active[key[g]] = g /\ key[g] \in Keys
        BY <3>1 DEF IInv, Attached, TypeOK
      <3>3. key[g] # k
        BY <3>1, <3>2, FlightsAssumption DEF Start
      <3> QED
        BY <3>1, <3>2, <3>3 DEF Start, IInv, TypeOK
    <2> QED
      BY <2>1, <2>2
  <1>6. ClosedCancelsAll'
    BY DEF Start, ClosedCancelsAll
  <1> QED
    BY <1>3, <1>4, <1>5, <1>6

\* Every step keeps the invariant.
LEMMA NextIInv == IInv /\ [Next]_vars => IInv'
  <1> SUFFICES ASSUME IInv, [Next]_vars PROVE IInv'
    OBVIOUS
  <1>1. ASSUME NEW c \in Clients, NEW k \in Keys, NEW f \in Works, Lead(c, k, f) PROVE IInv'
    <2>1. TypeOK'
      BY <1>1 DEF Lead, Start, IInv, TypeOK
    <2>2. BudgetExact' /\ LiveCounted' /\ Attached' /\ ClosedCancelsAll'
      <3>1. Start(k, f, FALSE, 1) /\ refreshes' = IF FALSE THEN refreshes + 1 ELSE refreshes
        BY <1>1 DEF Lead
      <3>2. FALSE \in BOOLEAN /\ 1 \in Nat /\ 1 > 0
        OBVIOUS
      <3> QED
        BY <3>1, <3>2, StartKeeps
    <2>3. WaitersExact'
      <3> SUFFICES ASSUME NEW g \in Works
                   PROVE  waiters'[g] = Cardinality({d \in Clients : waiting'[d] = g})
        BY DEF WaitersExact
      <3>1. CASE g = f
        <4>1. {d \in Clients : waiting'[d] = g} = {c}
          BY <1>1, <3>1 DEF Lead, Start, Unused, IInv, TypeOK
        <4> QED
          BY <1>1, <3>1, <4>1, FS_Singleton DEF Lead, Start, IInv, TypeOK
      <3>2. CASE g # f
        <4>1. {d \in Clients : waiting'[d] = g} = {d \in Clients : waiting[d] = g}
          BY <1>1, <3>2, FlightsAssumption DEF Lead, IInv, TypeOK
        <4> QED
          BY <1>1, <3>2, <4>1 DEF Lead, Start, IInv, TypeOK, WaitersExact
      <3> QED
        BY <3>1, <3>2
    <2> QED
      BY <2>1, <2>2, <2>3 DEF IInv
  <1>2. ASSUME NEW c \in Clients, NEW k \in Keys, Join(c, k) PROVE IInv'
    <2> DEFINE f == active[k]
    <2>1. f \in Works /\ f # NoWork
      BY <1>2 DEF Join, IInv, TypeOK
    <2>2. TypeOK'
      BY <1>2, <2>1 DEF Join, IInv, TypeOK
    <2>3. BudgetExact' /\ Attached' /\ ClosedCancelsAll'
      BY <1>2 DEF Join, IInv, BudgetExact, Attached, ClosedCancelsAll
    <2>4. \A g \in Works : waiters'[g] >= waiters[g]
      BY <1>2, <2>1 DEF Join, IInv, TypeOK
    <2>5. LiveCounted'
      BY <1>2, <2>4, <2>2 DEF Join, IInv, LiveCounted, TypeOK
    <2>6. WaitersExact'
      <3> SUFFICES ASSUME NEW g \in Works
                   PROVE  waiters'[g] = Cardinality({d \in Clients : waiting'[d] = g})
        BY DEF WaitersExact
      <3>1. CASE g = f
        <4>1. {d \in Clients : waiting'[d] = g} = Waits(f) \cup {c}
          BY <1>2, <3>1 DEF Join, IInv, TypeOK, Waits
        <4>2. c \notin Waits(f)
          BY <1>2, <2>1 DEF Join, Waits
        <4>3. Cardinality(Waits(f) \cup {c}) = Cardinality(Waits(f)) + 1
          BY <2>1, <4>2, Finite, Gains DEF IInv
        <4> QED
          BY <1>2, <2>1, <3>1, <4>1, <4>3 DEF Join, IInv, TypeOK, WaitersExact, Waits
      <3>2. CASE g # f
        <4>1. {d \in Clients : waiting'[d] = g} = {d \in Clients : waiting[d] = g}
          BY <1>2, <3>2, FlightsAssumption DEF Join, IInv, TypeOK
        <4> QED
          BY <1>2, <3>2, <4>1 DEF Join, IInv, TypeOK, WaitersExact
      <3> QED
        BY <3>1, <3>2
    <2> QED
      BY <2>2, <2>3, <2>5, <2>6 DEF IInv
  <1>3. ASSUME NEW k \in Keys, NEW f \in Works, Refresh(k, f) PROVE IInv'
    <2>1. TypeOK'
      BY <1>3 DEF Refresh, Start, IInv, TypeOK
    <2>2. BudgetExact' /\ LiveCounted' /\ Attached' /\ ClosedCancelsAll'
      BY <1>3, StartKeeps DEF Refresh
    <2>3. WaitersExact'
      <3>1. {d \in Clients : waiting'[d] = f} = {}
        BY <1>3 DEF Refresh, Start, Unused
      <3>2. \A g \in Works : {d \in Clients : waiting'[d] = g} = {d \in Clients : waiting[d] = g}
        BY <1>3 DEF Refresh
      <3>3. waiters' = [waiters EXCEPT ![f] = 0]
        BY <1>3 DEF Refresh, Start
      <3> QED
        BY <3>1, <3>2, <3>3, FS_EmptySet DEF IInv, TypeOK, WaitersExact
    <2> QED
      BY <2>1, <2>2, <2>3 DEF IInv
  <1>4. ASSUME NEW f \in Works, Finish(f) PROVE IInv'
    <2>0. f \in running /\ running' = running \ {f} /\ key[f] \in Keys
      BY <1>4 DEF Finish, IInv, TypeOK
    <2>1. Cardinality(running) \in Nat /\ Cardinality(running) > 0
          /\ Cardinality(running \ {f}) = Cardinality(running) - 1
      BY <2>0, Finite, Loses DEF IInv
    <2>2. BudgetExact' /\ refreshes' \in Nat
      <3>1. workers' = Cardinality(running') /\ workers' <= MaxFlights
        BY <1>4, <2>0, <2>1, FlightsAssumption DEF Finish, IInv, BudgetExact, TypeOK
      <3>2. CASE refresh[f]
        <4>1. f \in Refreshing /\ {g \in running' : refresh'[g]} = Refreshing \ {f}
          BY <1>4, <2>0, <3>2 DEF Finish, Refreshing
        <4>2. Cardinality(Refreshing \ {f}) = Cardinality(Refreshing) - 1
              /\ Cardinality(Refreshing) > 0
          BY <4>1, Finite, Loses DEF IInv
        <4>3. refreshes = Cardinality(Refreshing) /\ refreshes <= MaxRefresh
              /\ refreshes \in Nat /\ MaxRefresh \in Nat /\ refreshes' = refreshes - 1
          BY <1>4, <3>2, FlightsAssumption DEF Finish, IInv, BudgetExact, TypeOK, Refreshing
        <4>4. refreshes' = Cardinality(Refreshing \ {f}) /\ refreshes' <= MaxRefresh
              /\ refreshes' \in Nat
          BY <4>2, <4>3
        <4> QED
          BY <3>1, <4>1, <4>4 DEF BudgetExact
      <3>3. CASE ~refresh[f]
        <4>1. {g \in running' : refresh'[g]} = {g \in running : refresh[g]}
          BY <1>4, <2>0, <3>3 DEF Finish
        <4> QED
          BY <1>4, <3>1, <3>3, <4>1 DEF Finish, IInv, BudgetExact, TypeOK
      <3> QED
        BY <3>2, <3>3
    <2>3. TypeOK'
      BY <1>4, <2>0, <2>1, <2>2 DEF Finish, IInv, TypeOK, BudgetExact
    <2>4. \A j \in Keys : active'[j] # NoWork => active'[j] = active[j] /\ active[j] # f
      BY <1>4, <2>0 DEF Finish, IInv, TypeOK, LiveCounted
    <2>5. LiveCounted'
      BY <1>4, <2>0, <2>4 DEF Finish, IInv, LiveCounted
    <2>6. Attached'
      <3> SUFFICES ASSUME NEW g \in running', ~cancelled'[g] PROVE active'[key'[g]] = g
        BY DEF Attached
      <3>1. g \in running /\ g # f /\ active[key[g]] = g /\ key[g] \in Keys /\ key' = key
        BY <1>4, <2>0 DEF Finish, IInv, Attached, TypeOK
      <3> QED
        BY <1>4, <2>0, <3>1 DEF Finish, IInv, TypeOK
    <2>7. WaitersExact' /\ ClosedCancelsAll'
      BY <1>4, <2>0 DEF Finish, IInv, WaitersExact, ClosedCancelsAll
    <2> QED
      BY <2>2, <2>3, <2>5, <2>6, <2>7 DEF IInv
  <1>5. ASSUME NEW c \in Clients, Leave(c) PROVE IInv'
    <2> DEFINE f == waiting[c]
    <2>1. f \in Works /\ f # NoWork /\ key[f] \in Keys
      BY <1>5 DEF Leave, IInv, TypeOK
    <2>2. waiters[f] = Cardinality(Waits(f)) /\ Cardinality(Waits(f)) \in Nat
          /\ waiters[f] > 0 /\ Cardinality(Waits(f) \ {c}) = waiters[f] - 1
      <3>1. c \in Waits(f) /\ IsFiniteSet(Waits(f))
        BY <2>1, Finite DEF Waits, IInv
      <3>2. waiters[f] = Cardinality(Waits(f))
        BY <2>1 DEF IInv, WaitersExact, Waits
      <3> QED
        BY <3>1, <3>2, Loses
    <2>3. TypeOK'
      BY <1>5, <2>1, <2>2 DEF Leave, IInv, TypeOK
    <2>4. BudgetExact'
      BY <1>5 DEF Leave, IInv, BudgetExact
    <2>5. WaitersExact'
      <3> SUFFICES ASSUME NEW g \in Works
                   PROVE  waiters'[g] = Cardinality({d \in Clients : waiting'[d] = g})
        BY DEF WaitersExact
      <3>1. CASE g = f
        <4>1. {d \in Clients : waiting'[d] = g} = Waits(f) \ {c}
          BY <1>5, <2>1, <3>1 DEF Leave, IInv, TypeOK, Waits
        <4> QED
          BY <1>5, <2>1, <2>2, <3>1, <4>1 DEF Leave, IInv, TypeOK
      <3>2. CASE g # f
        <4>1. {d \in Clients : waiting'[d] = g} = {d \in Clients : waiting[d] = g}
          BY <1>5, <3>2, FlightsAssumption DEF Leave, IInv, TypeOK
        <4> QED
          BY <1>5, <3>2, <4>1 DEF Leave, IInv, TypeOK, WaitersExact
      <3> QED
        BY <3>1, <3>2
    <2>6. CASE waiters[f] = 1 /\ ~refresh[f]
      <3>1. cancelled' = [cancelled EXCEPT ![f] = TRUE]
        BY <1>5, <2>6 DEF Leave
      <3>2. active' = IF active[key[f]] = f THEN [active EXCEPT ![key[f]] = NoWork] ELSE active
        BY <1>5, <2>6 DEF Leave
      <3>3. \A j \in Keys : active'[j] # NoWork => active'[j] = active[j] /\ active[j] # f
        BY <2>1, <3>2 DEF IInv, TypeOK, LiveCounted
      <3>4. \A g \in Works : g # f => waiters'[g] = waiters[g] /\ cancelled'[g] = cancelled[g]
        BY <1>5, <3>1 DEF Leave, IInv, TypeOK
      <3>5. LiveCounted'
        BY <1>5, <3>3, <3>4 DEF Leave, IInv, LiveCounted, TypeOK
      <3>6. Attached'
        <4> SUFFICES ASSUME NEW g \in running', ~cancelled'[g] PROVE active'[key'[g]] = g
          BY DEF Attached
        <4>1. g \in running /\ g # f /\ ~cancelled[g] /\ key' = key
          BY <1>5, <2>1, <3>1, <3>4 DEF Leave, IInv, TypeOK
        <4>2. active[key[g]] = g /\ key[g] \in Keys
          BY <4>1 DEF IInv, Attached, TypeOK
        <4> QED
          BY <2>1, <3>2, <4>1, <4>2 DEF IInv, TypeOK
      <3>7. ClosedCancelsAll'
        BY <1>5, <2>1, <3>1 DEF Leave, IInv, ClosedCancelsAll, TypeOK
      <3> QED
        BY <2>3, <2>4, <2>5, <3>5, <3>6, <3>7 DEF IInv
    <2>7. CASE ~(waiters[f] = 1 /\ ~refresh[f])
      <3>1. cancelled' = cancelled /\ active' = active /\ key' = key /\ refresh' = refresh
            /\ running' = running /\ closed' = closed
        BY <1>5, <2>7 DEF Leave
      <3>2. \A g \in Works : refresh[g] \/ waiters[g] > 0 => refresh[g] \/ waiters'[g] > 0
        BY <1>5, <2>1, <2>7 DEF Leave, IInv, TypeOK
      <3>3. LiveCounted' /\ Attached' /\ ClosedCancelsAll'
        BY <3>1, <3>2 DEF IInv, LiveCounted, Attached, ClosedCancelsAll, TypeOK
      <3> QED
        BY <2>3, <2>4, <2>5, <3>3 DEF IInv
    <2> QED
      BY <2>6, <2>7
  <1>6. ASSUME Close PROVE IInv'
    <2>1. TypeOK'
      BY <1>6 DEF Close, IInv, TypeOK
    <2>2. BudgetExact' /\ WaitersExact' /\ LiveCounted'
      BY <1>6 DEF Close, IInv, BudgetExact, WaitersExact, LiveCounted
    <2>3. \A f \in running : cancelled'[f]
      BY <1>6 DEF Close, IInv, Attached, TypeOK
    <2>4. Attached' /\ ClosedCancelsAll'
      BY <1>6, <2>3 DEF Close, Attached, ClosedCancelsAll
    <2> QED
      BY <2>1, <2>2, <2>4 DEF IInv
  <1>7. CASE CloseReturns
    <2>1. TypeOK'
      BY <1>7 DEF CloseReturns, IInv, TypeOK
    <2>2. BudgetExact' /\ WaitersExact' /\ LiveCounted' /\ Attached' /\ ClosedCancelsAll'
      BY <1>7 DEF CloseReturns, IInv, BudgetExact, WaitersExact, LiveCounted, Attached,
                  ClosedCancelsAll
    <2> QED
      BY <2>1, <2>2 DEF IInv
  <1>8. CASE UNCHANGED vars
    BY <1>8 DEF vars, IInv, TypeOK, BudgetExact, WaitersExact, LiveCounted, Attached,
                ClosedCancelsAll
  <1> QED
    BY <1>1, <1>2, <1>3, <1>4, <1>5, <1>6, <1>7, <1>8 DEF Next

\* The invariant holds always, and with it every invariant of the runs.
THEOREM Invariance == Spec => []IInv
  BY InitIInv, NextIInv, PTL DEF Spec

\* The counters never leave their types, however workers, waiters and close
\* interleave (joinStatus, wait, close).
THEOREM TypeCorrect == Spec => []TypeOK
  <1>1. IInv => TypeOK
    BY DEF IInv
  <1> QED
    BY <1>1, Invariance, PTL

\* The budgets count exactly the running workers, abandoned ones included.
THEOREM BudgetsHold == Spec => []BudgetExact
  <1>1. IInv => BudgetExact
    BY DEF IInv
  <1> QED
    BY <1>1, Invariance, PTL

\* No request ever joins abandoned work, and no worker outlives its last waiter
\* unnoticed.
THEOREM JoinsLiveWork == Spec => []JoinableIsLive
  <1>1. IInv => JoinableIsLive
    <2> SUFFICES ASSUME IInv, NEW k \in Keys, active[k] # NoWork,
                        ~refresh[active[k]]
                 PROVE  \E c \in Clients : waiting[c] = active[k]
      BY DEF IInv, LiveCounted, JoinableIsLive
    <2>1. active[k] \in Works /\ waiters[active[k]] > 0
      BY DEF IInv, TypeOK, LiveCounted
    <2>2. Cardinality({c \in Clients : waiting[c] = active[k]}) > 0
      BY <2>1 DEF IInv, WaitersExact
    <2>3. {c \in Clients : waiting[c] = active[k]} # {}
      BY <2>2, FS_EmptySet
    <2> QED
      BY <2>3
  <1> QED
    BY <1>1, Invariance, PTL

\* At most one live worker resolves a key.
THEOREM UniqueWork == Spec => []OneFlightPerKey
  <1>1. IInv => OneFlightPerKey
    BY DEF IInv, Attached, OneFlightPerKey
  <1> QED
    BY <1>1, Invariance, PTL

\* close reaches every worker, although it only walks the attached ones.
THEOREM CloseReachesAll == Spec => []ClosedCancelsAll
  <1>1. IInv => ClosedCancelsAll
    BY DEF IInv
  <1> QED
    BY <1>1, Invariance, PTL

(***************************************************************************)
(* The service around the shared work.                                     *)
(***************************************************************************)

\* Steps of the service at which everything is open.
Up == {"running", "not ready", "cancelled"}
Unbound == {"unbound", "joining", "waiting", "joined"}
JobsClosed == {"joining", "waiting", "joined", "piped", "flushed", "done"}
JobsJoined == JobsClosed \ {"joining"}
AllJoined == {"joined", "piped", "flushed", "done"}

\* What the step of the stop says of what is open, and of who has ended.
StageSound ==
  /\ \/ service = "new" /\ open = {}
     \/ service \in Up /\ open = {"sockets", "pipeline", "db"}
     \/ service \in Unbound /\ open = {"pipeline", "db"}
     \/ service \in {"piped", "flushed"} /\ open = {"db"}
     \/ service = "done" /\ open = {}
  /\ service \in AllJoined \cup {"new"} => udp = "ended" /\ tcp = "ended" /\ http = "ended" /\ background = "ended"
  /\ service \in {"new", "flushed", "done"} => writer = "ended"
  /\ service = "new" => request = FALSE

\* What the step of the stop says of the jobs: one hook at a time, none once they are joined.
JobsSound ==
  /\ jobs \in [running : BOOLEAN, closed : BOOLEAN, next : Nat]
  /\ hook \subseteq {jobs.next} \cap goroutine /\ (hook # {} => jobs.running)
  /\ service = "new" => hook = {}
  /\ service \in JobsClosed => jobs.closed
  /\ service \in JobsJoined => hook = {}

\* What is known about a connection.
ConnSteps == [pc : {"none", "reading", "body", "resolving", "writing"}, slot : SL!Size \cup {None}]

\* Who holds a slot.
HoldersSound ==
  /\ worker \in [Workers -> SL!Size \cup {None}] /\ conn \in [Connections -> ConnSteps]
  /\ \A c \in Connections : conn[c].slot = None <=> conn[c].pc \in {"none", "reading", "writing"}
  /\ udp = "ended" => queue = SL!NoSlots /\ \A w \in Workers : worker[w] = None
  /\ tcp = "ended" => \A c \in Connections : conn[c] = SL!NoConn

\* Who holds a slot of a size.
WorkersWith(size) == {w \in Workers : worker[w] = size}
ConnsWith(size) == {c \in Connections : conn[c].slot = size}

\* No slot is lost or made: each one is free, queued or held.
SlotsExact ==
  /\ free \in [SL!Size -> Nat] /\ queue \in [SL!Size -> Nat]
  /\ \A size \in SL!Size : Slots[size] = free[size] + queue[size] + Cardinality(WorkersWith(size)) + Cardinality(ConnsWith(size))

\* The inductive invariant of ServiceLifecycle.
SlInv == StageSound /\ JobsSound /\ HoldersSound /\ SlotsExact

\* ServiceAssumption, in the words of ServiceLifecycle.
LEMMA SlSizes ==
  /\ Slots \in [SL!Size -> Nat] /\ None \notin SL!Size
  /\ IsFiniteSet(Workers) /\ IsFiniteSet(Connections)
  BY ServiceAssumption DEF SL!Size

\* Cardinality is the same in ServiceLifecycle.
LEMMA SlCardinality == \A S : SL!Cardinality(S) = Cardinality(S)
  BY DEF SL!Cardinality, Cardinality

\* The sizes of sets that differ in one element.
LEMMA SlCount ==
  ASSUME NEW S, IsFiniteSet(S), NEW A \in SUBSET S, NEW B \in SUBSET S, NEW x, A \ {x} = B \ {x}
  PROVE  /\ Cardinality(A) \in Nat /\ Cardinality(B) \in Nat
         /\ Cardinality(B) + (IF x \in A THEN 1 ELSE 0) = Cardinality(A) + (IF x \in B THEN 1 ELSE 0)
<1>1. IsFiniteSet(A) /\ IsFiniteSet(B)
  BY FS_Subset
<1>2. Cardinality(A) \in Nat /\ Cardinality(B) \in Nat
  BY <1>1, FS_CardinalityType
<1>3. CASE x \in A /\ x \notin B
  <2>1. A = B \cup {x}
    BY <1>3
  <2>2. Cardinality(A) = Cardinality(B) + 1
    BY <1>1, <1>3, <2>1, FS_AddElement
  <2> QED
    BY <1>2, <1>3, <2>2
<1>4. CASE x \notin A /\ x \in B
  <2>1. B = A \cup {x}
    BY <1>4
  <2>2. Cardinality(B) = Cardinality(A) + 1
    BY <1>1, <1>4, <2>1, FS_AddElement
  <2> QED
    BY <1>2, <1>4, <2>2
<1>5. CASE x \in A <=> x \in B
  <2>1. A = B
    BY <1>5
  <2> QED
    BY <1>2, <2>1
<1> QED
  BY <1>3, <1>4, <1>5

\* A worker takes or gives a slot.
LEMMA SlWorker ==
  ASSUME SlInv, NEW w \in Workers, NEW v \in SL!Size \cup {None}, worker' = [worker EXCEPT ![w] = v]
  PROVE  /\ worker' \in [Workers -> SL!Size \cup {None}] /\ worker'[w] = v
         /\ \A size \in SL!Size :
              /\ Cardinality(WorkersWith(size)) \in Nat /\ Cardinality(WorkersWith(size)') \in Nat
              /\ Cardinality(WorkersWith(size)') + (IF worker[w] = size THEN 1 ELSE 0)
                   = Cardinality(WorkersWith(size)) + (IF v = size THEN 1 ELSE 0)
<1>1. worker \in [Workers -> SL!Size \cup {None}] /\ IsFiniteSet(Workers)
  BY SlSizes DEF SlInv, HoldersSound
<1>2. worker' \in [Workers -> SL!Size \cup {None}] /\ worker'[w] = v /\ \A x \in Workers \ {w} : worker'[x] = worker[x]
  BY <1>1
<1>3. ASSUME NEW size \in SL!Size
      PROVE  /\ Cardinality(WorkersWith(size)) \in Nat /\ Cardinality(WorkersWith(size)') \in Nat
             /\ Cardinality(WorkersWith(size)') + (IF worker[w] = size THEN 1 ELSE 0)
                  = Cardinality(WorkersWith(size)) + (IF v = size THEN 1 ELSE 0)
  <2> DEFINE A == WorkersWith(size)
             B == WorkersWith(size)'
  <2>1. /\ A \in SUBSET Workers /\ B \in SUBSET Workers /\ A \ {w} = B \ {w}
        /\ w \in A <=> worker[w] = size
        /\ w \in B <=> v = size
    BY <1>2 DEF WorkersWith
  <2> HIDE DEF A, B
  <2>2. /\ Cardinality(A) \in Nat /\ Cardinality(B) \in Nat
        /\ Cardinality(B) + (IF w \in A THEN 1 ELSE 0) = Cardinality(A) + (IF w \in B THEN 1 ELSE 0)
    BY <1>1, <2>1, SlCount
  <2> QED
    BY <2>1, <2>2 DEF A, B
<1> QED
  BY <1>2, <1>3

\* A connection moves.
LEMMA SlConn ==
  ASSUME SlInv, NEW c \in Connections, NEW pc \in {"none", "reading", "body", "resolving", "writing"},
         NEW v \in SL!Size \cup {None}, SL!SetConn(c, pc, v), v = None <=> pc \in {"none", "reading", "writing"}
  PROVE  /\ conn' \in [Connections -> ConnSteps]
         /\ \A d \in Connections : conn'[d].slot = None <=> conn'[d].pc \in {"none", "reading", "writing"}
         /\ \A d \in Connections \ {c} : conn'[d] = conn[d]
         /\ \A size \in SL!Size :
              /\ Cardinality(ConnsWith(size)) \in Nat /\ Cardinality(ConnsWith(size)') \in Nat
              /\ Cardinality(ConnsWith(size)') + (IF conn[c].slot = size THEN 1 ELSE 0)
                   = Cardinality(ConnsWith(size)) + (IF v = size THEN 1 ELSE 0)
<1>1. conn \in [Connections -> ConnSteps] /\ IsFiniteSet(Connections)
  BY SlSizes DEF SlInv, HoldersSound
<1>2. [pc |-> pc, slot |-> v] \in ConnSteps
  BY DEF ConnSteps
<1>3. /\ conn' \in [Connections -> ConnSteps] /\ conn'[c] = [pc |-> pc, slot |-> v]
      /\ conn'[c].slot = v /\ conn'[c].pc = pc
      /\ \A d \in Connections \ {c} : conn'[d] = conn[d]
  BY <1>1, <1>2 DEF SL!SetConn
<1>4. \A d \in Connections : conn'[d].slot = None <=> conn'[d].pc \in {"none", "reading", "writing"}
  <2> SUFFICES ASSUME NEW d \in Connections PROVE conn'[d].slot = None <=> conn'[d].pc \in {"none", "reading", "writing"}
    OBVIOUS
  <2>1. CASE d = c
    BY <1>3, <2>1
  <2>2. CASE d # c
    BY <1>3, <2>2 DEF SlInv, HoldersSound
  <2> QED
    BY <2>1, <2>2
<1>5. ASSUME NEW size \in SL!Size
      PROVE  /\ Cardinality(ConnsWith(size)) \in Nat /\ Cardinality(ConnsWith(size)') \in Nat
             /\ Cardinality(ConnsWith(size)') + (IF conn[c].slot = size THEN 1 ELSE 0)
                  = Cardinality(ConnsWith(size)) + (IF v = size THEN 1 ELSE 0)
  <2> DEFINE A == ConnsWith(size)
             B == ConnsWith(size)'
  <2>1. /\ A \in SUBSET Connections /\ B \in SUBSET Connections /\ A \ {c} = B \ {c}
        /\ c \in A <=> conn[c].slot = size
        /\ c \in B <=> v = size
    BY <1>3 DEF ConnsWith
  <2> HIDE DEF A, B
  <2>2. /\ Cardinality(A) \in Nat /\ Cardinality(B) \in Nat
        /\ Cardinality(B) + (IF c \in A THEN 1 ELSE 0) = Cardinality(A) + (IF c \in B THEN 1 ELSE 0)
    BY <1>1, <2>1, SlCount
  <2> QED
    BY <2>1, <2>2 DEF A, B
<1> QED
  BY <1>3, <1>4, <1>5

\* The counts of the holders that do not move.
LEMMA SlCounts ==
  ASSUME SlInv, NEW size \in SL!Size
  PROVE  /\ free[size] \in Nat /\ queue[size] \in Nat
         /\ Cardinality(WorkersWith(size)) \in Nat /\ Cardinality(ConnsWith(size)) \in Nat
         /\ Slots[size] = free[size] + queue[size] + Cardinality(WorkersWith(size)) + Cardinality(ConnsWith(size))
         /\ worker' = worker => WorkersWith(size)' = WorkersWith(size)
         /\ conn' = conn => ConnsWith(size)' = ConnsWith(size)
<1>1. WorkersWith(size) \subseteq Workers /\ ConnsWith(size) \subseteq Connections
  BY DEF WorkersWith, ConnsWith
<1>2. IsFiniteSet(WorkersWith(size)) /\ IsFiniteSet(ConnsWith(size))
  BY <1>1, FS_Subset, SlSizes
<1>3. Cardinality(WorkersWith(size)) \in Nat /\ Cardinality(ConnsWith(size)) \in Nat
  BY <1>2, FS_CardinalityType
<1>4. free[size] \in Nat /\ queue[size] \in Nat
  BY DEF SlInv, SlotsExact
<1>5. worker' = worker => WorkersWith(size)' = WorkersWith(size)
  BY DEF WorkersWith
<1>6. conn' = conn => ConnsWith(size)' = ConnsWith(size)
  BY DEF ConnsWith
<1> QED
  BY <1>3, <1>4, <1>5, <1>6 DEF SlInv, SlotsExact

\* A step of the listeners: it leaves the stage alone, and moves what is counted.
LEMMA SlDns ==
  ASSUME SlInv, UNCHANGED <<SL!control, SL!others>>, udp = "ended" => udp' = "ended", tcp = "ended" => tcp' = "ended",
         worker' \in [Workers -> SL!Size \cup {None}], conn' \in [Connections -> ConnSteps],
         \A d \in Connections : conn'[d].slot = None <=> conn'[d].pc \in {"none", "reading", "writing"},
         udp' = "ended" => queue' = SL!NoSlots /\ \A w \in Workers : worker'[w] = None,
         tcp' = "ended" => \A c \in Connections : conn'[c] = SL!NoConn,
         free' \in [SL!Size -> Nat], queue' \in [SL!Size -> Nat],
         \A size \in SL!Size : Slots[size] = free'[size] + queue'[size]
                                             + Cardinality(WorkersWith(size)') + Cardinality(ConnsWith(size)')
  PROVE  SlInv'
<1>1. StageSound'
  BY DEF SlInv, StageSound, SL!control, SL!others
<1>2. JobsSound'
  BY DEF SlInv, JobsSound, SL!control, SL!others
<1>3. HoldersSound'
  BY DEF HoldersSound
<1>4. SlotsExact'
  BY DEF SlotsExact
<1> QED
  BY <1>1, <1>2, <1>3, <1>4 DEF SlInv

\* What holds of the listeners while nothing is told of them.
LEMMA SlHolders ==
  ASSUME SlInv
  PROVE  /\ worker \in [Workers -> SL!Size \cup {None}] /\ conn \in [Connections -> ConnSteps]
         /\ \A c \in Connections : conn[c].slot = None <=> conn[c].pc \in {"none", "reading", "writing"}
         /\ udp = "ended" => queue = SL!NoSlots /\ \A w \in Workers : worker[w] = None
         /\ tcp = "ended" => \A c \in Connections : conn[c] = SL!NoConn
         /\ free \in [SL!Size -> Nat] /\ queue \in [SL!Size -> Nat]
  BY DEF SlInv, HoldersSound, SlotsExact

\* One slot more or less of a size.
LEMMA SlSlot ==
  ASSUME NEW f \in [SL!Size -> Nat], NEW g, NEW x \in SL!Size
  PROVE  /\ g = [f EXCEPT ![x] = @ + 1] =>
              g \in [SL!Size -> Nat] /\ \A e \in SL!Size : g[e] = f[e] + (IF e = x THEN 1 ELSE 0)
         /\ f[x] > 0 /\ g = [f EXCEPT ![x] = @ - 1] =>
              g \in [SL!Size -> Nat] /\ \A e \in SL!Size : f[e] = g[e] + (IF e = x THEN 1 ELSE 0)
<1>1. ASSUME g = [f EXCEPT ![x] = @ + 1]
      PROVE  g \in [SL!Size -> Nat] /\ \A e \in SL!Size : g[e] = f[e] + (IF e = x THEN 1 ELSE 0)
  BY <1>1
<1>2. ASSUME f[x] > 0, g = [f EXCEPT ![x] = @ - 1]
      PROVE  g \in [SL!Size -> Nat] /\ \A e \in SL!Size : f[e] = g[e] + (IF e = x THEN 1 ELSE 0)
  BY <1>2
<1> QED
  BY <1>1, <1>2

\* A datagram takes a slot from the pool to the queue.
LEMMA SlReceive == ASSUME SlInv, NEW size \in SL!Size, SL!Receive(size) PROVE SlInv'
<1>1. /\ udp = "serving" /\ UNCHANGED <<SL!control, SL!others, udp, tcp, worker, conn>> /\ free[size] > 0
      /\ free' = [free EXCEPT ![size] = @ - 1] /\ queue' = [queue EXCEPT ![size] = @ + 1]
  BY DEF SL!Receive, SL!Take
<1>2. /\ free' \in [SL!Size -> Nat] /\ queue' \in [SL!Size -> Nat]
      /\ \A e \in SL!Size : free[e] = free'[e] + (IF e = size THEN 1 ELSE 0)
      /\ \A e \in SL!Size : queue'[e] = queue[e] + (IF e = size THEN 1 ELSE 0)
  BY <1>1, SlHolders, SlSlot
<1>3. ASSUME NEW e \in SL!Size
      PROVE  Slots[e] = free'[e] + queue'[e] + Cardinality(WorkersWith(e)') + Cardinality(ConnsWith(e)')
  BY <1>1, <1>2, SlCounts
<1> QED
  BY <1>1, <1>2, <1>3, SlHolders, SlDns

\* A worker takes a slot from the queue.
LEMMA SlWork == ASSUME SlInv, NEW w \in Workers, NEW size \in SL!Size, SL!Work(w, size) PROVE SlInv'
<1>1. /\ udp # "ended" /\ worker[w] = None /\ queue[size] > 0 /\ UNCHANGED <<SL!control, SL!others, udp, tcp, conn>>
      /\ queue' = [queue EXCEPT ![size] = @ - 1]
  BY DEF SL!Work
<1>2. queue' \in [SL!Size -> Nat] /\ \A e \in SL!Size : queue[e] = queue'[e] + (IF e = size THEN 1 ELSE 0)
  BY <1>1, SlHolders, SlSlot
<1>3. CASE free' = [free EXCEPT ![size] = @ + 1] /\ UNCHANGED worker
  <2>1. free' \in [SL!Size -> Nat] /\ \A e \in SL!Size : free'[e] = free[e] + (IF e = size THEN 1 ELSE 0)
    BY <1>3, SlHolders, SlSlot
  <2>2. ASSUME NEW e \in SL!Size
        PROVE  Slots[e] = free'[e] + queue'[e] + Cardinality(WorkersWith(e)') + Cardinality(ConnsWith(e)')
    BY <1>1, <1>2, <1>3, <2>1, SlCounts
  <2> QED
    BY <1>1, <1>2, <1>3, <2>1, <2>2, SlHolders, SlDns
<1>4. CASE worker' = [worker EXCEPT ![w] = size] /\ UNCHANGED free
  <2>1. /\ worker' \in [Workers -> SL!Size \cup {None}]
        /\ \A e \in SL!Size : /\ Cardinality(WorkersWith(e)) \in Nat /\ Cardinality(WorkersWith(e)') \in Nat
                              /\ Cardinality(WorkersWith(e)') + (IF worker[w] = e THEN 1 ELSE 0)
                                   = Cardinality(WorkersWith(e)) + (IF size = e THEN 1 ELSE 0)
    BY <1>4, SlWorker
  <2>2. ASSUME NEW e \in SL!Size
        PROVE  Slots[e] = free'[e] + queue'[e] + Cardinality(WorkersWith(e)') + Cardinality(ConnsWith(e)')
    <3>1. worker[w] # e
      BY <1>1, SlSizes
    <3> QED
      BY <1>1, <1>2, <1>4, <2>1, <3>1, SlCounts
  <2> QED
    BY <1>1, <1>2, <1>4, <2>1, <2>2, SlHolders, SlDns
<1> QED
  BY <1>3, <1>4 DEF SL!Work, SL!Give

\* A worker gives its slot back.
LEMMA SlResolved == ASSUME SlInv, NEW w \in Workers, SL!Resolved(w) PROVE SlInv'
<1> DEFINE size == worker[w]
<1>1. /\ size # None /\ UNCHANGED <<SL!control, SL!others, udp, tcp, queue, conn>>
      /\ free' = [free EXCEPT ![size] = @ + 1] /\ worker' = [worker EXCEPT ![w] = None]
  BY DEF SL!Resolved, SL!Give
<1>2. size \in SL!Size /\ udp # "ended"
  BY <1>1, SlHolders
<1> HIDE DEF size
<1>3. free' \in [SL!Size -> Nat] /\ \A e \in SL!Size : free'[e] = free[e] + (IF e = size THEN 1 ELSE 0)
  BY <1>1, <1>2, SlHolders, SlSlot
<1>4. /\ worker' \in [Workers -> SL!Size \cup {None}]
      /\ \A e \in SL!Size : /\ Cardinality(WorkersWith(e)) \in Nat /\ Cardinality(WorkersWith(e)') \in Nat
                            /\ Cardinality(WorkersWith(e)') + (IF worker[w] = e THEN 1 ELSE 0)
                                 = Cardinality(WorkersWith(e)) + (IF None = e THEN 1 ELSE 0)
  BY <1>1, SlWorker
<1>5. ASSUME NEW e \in SL!Size
      PROVE  Slots[e] = free'[e] + queue'[e] + Cardinality(WorkersWith(e)') + Cardinality(ConnsWith(e)')
  <2>1. None # e
    BY SlSizes
  <2> QED
    BY <1>1, <1>3, <1>4, <2>1, SlCounts DEF size
<1> QED
  BY <1>1, <1>2, <1>3, <1>4, <1>5, SlHolders, SlDns

\* A step of a connection that holds no slot before or after it, or the same.
LEMMA SlConnStep ==
  ASSUME SlInv, NEW c \in Connections, NEW pc \in {"none", "reading", "body", "resolving", "writing"},
         NEW v \in SL!Size \cup {None}, SL!SetConn(c, pc, v), v = None <=> pc \in {"none", "reading", "writing"},
         tcp # "ended", UNCHANGED <<SL!control, SL!others, udp, tcp, queue, worker>>, free' \in [SL!Size -> Nat],
         \A e \in SL!Size : free'[e] + (IF v = e THEN 1 ELSE 0) = free[e] + (IF conn[c].slot = e THEN 1 ELSE 0)
  PROVE  SlInv'
<1>1. /\ conn' \in [Connections -> ConnSteps]
      /\ \A d \in Connections : conn'[d].slot = None <=> conn'[d].pc \in {"none", "reading", "writing"}
      /\ \A e \in SL!Size : /\ Cardinality(ConnsWith(e)) \in Nat /\ Cardinality(ConnsWith(e)') \in Nat
                            /\ Cardinality(ConnsWith(e)') + (IF conn[c].slot = e THEN 1 ELSE 0)
                                 = Cardinality(ConnsWith(e)) + (IF v = e THEN 1 ELSE 0)
  BY SlConn
<1>2. ASSUME NEW e \in SL!Size
      PROVE  Slots[e] = free'[e] + queue'[e] + Cardinality(WorkersWith(e)') + Cardinality(ConnsWith(e)')
  <2>1. /\ free'[e] \in Nat
        /\ free'[e] + (IF v = e THEN 1 ELSE 0) = free[e] + (IF conn[c].slot = e THEN 1 ELSE 0)
    OBVIOUS
  <2>2. /\ free[e] \in Nat /\ queue[e] \in Nat /\ Cardinality(WorkersWith(e)) \in Nat
        /\ Slots[e] = free[e] + queue[e] + Cardinality(WorkersWith(e)) + Cardinality(ConnsWith(e))
        /\ Cardinality(WorkersWith(e)') = Cardinality(WorkersWith(e)) /\ queue' = queue
    BY SlCounts
  <2>3. /\ Cardinality(ConnsWith(e)) \in Nat /\ Cardinality(ConnsWith(e)') \in Nat
        /\ Cardinality(ConnsWith(e)') + (IF conn[c].slot = e THEN 1 ELSE 0)
             = Cardinality(ConnsWith(e)) + (IF v = e THEN 1 ELSE 0)
    BY <1>1
  <2> QED
    BY <2>1, <2>2, <2>3
<1> QED
  BY <1>1, <1>2, SlHolders, SlDns

\* A connection that is at work is served by a listener that has not ended.
LEMMA SlBusy ==
  ASSUME SlInv, NEW c \in Connections, conn[c].pc # "none"
  PROVE  /\ tcp # "ended" /\ conn[c].slot \in SL!Size \cup {None}
         /\ conn[c].pc \in {"reading", "body", "resolving", "writing"}
         /\ conn[c].slot = None <=> conn[c].pc \in {"none", "reading", "writing"}
<1>1. SL!NoConn.pc = "none"
  BY DEF SL!NoConn
<1>2. tcp # "ended"
  BY <1>1, SlHolders
<1> QED
  BY <1>2, SlHolders DEF ConnSteps

\* A connection is accepted without a slot.
LEMMA SlAccept == ASSUME SlInv, NEW c \in Connections, SL!Accept(c) PROVE SlInv'
<1>1. /\ tcp = "serving" /\ conn[c].slot = None /\ SL!SetConn(c, "reading", None)
      /\ UNCHANGED <<SL!control, SL!others, free, udp, tcp, queue, worker>>
  BY DEF SL!Accept, SL!NoConn
<1> QED
  BY <1>1, SlHolders, SlConnStep

\* A connection takes a slot once the length is read.
LEMMA SlPrefix == ASSUME SlInv, NEW c \in Connections, NEW size \in SL!Size, SL!Prefix(c, size) PROVE SlInv'
<1>1. conn[c].pc = "reading" /\ UNCHANGED <<SL!control, SL!others, udp, tcp, queue, worker>>
  BY DEF SL!Prefix
<1>2. tcp # "ended" /\ conn[c].slot = None /\ \A e \in SL!Size : e # None
  BY <1>1, SlBusy, SlSizes
<1>3. CASE free[size] > 0 /\ free' = [free EXCEPT ![size] = @ - 1] /\ SL!SetConn(c, "body", size)
  <2>1. free' \in [SL!Size -> Nat] /\ \A e \in SL!Size : free[e] = free'[e] + (IF e = size THEN 1 ELSE 0)
    BY <1>3, SlHolders, SlSlot
  <2>2. \A e \in SL!Size : free'[e] + (IF size = e THEN 1 ELSE 0) = free[e] + (IF conn[c].slot = e THEN 1 ELSE 0)
    BY <1>2, <2>1
  <2> QED
    BY <1>1, <1>2, <1>3, <2>1, <2>2, SlConnStep
<1>4. CASE SL!SetConn(c, "none", None) /\ UNCHANGED free
  BY <1>1, <1>2, <1>4, SlHolders, SlConnStep
<1> QED
  BY <1>3, <1>4 DEF SL!Prefix, SL!Take

\* The message is read into the slot.
LEMMA SlBody == ASSUME SlInv, NEW c \in Connections, SL!Body(c) PROVE SlInv'
<1>1. /\ conn[c].pc = "body" /\ SL!SetConn(c, "resolving", conn[c].slot)
      /\ UNCHANGED <<SL!control, SL!others, free, udp, tcp, queue, worker>>
  BY DEF SL!Body
<1>2. tcp # "ended" /\ conn[c].slot \in SL!Size \cup {None} /\ conn[c].slot # None
  BY <1>1, SlBusy
<1> QED
  BY <1>1, <1>2, SlHolders, SlConnStep

\* A connection gives its slot back.
LEMMA SlGive ==
  ASSUME SlInv, NEW c \in Connections, conn[c].pc \in {"body", "resolving"}, SL!Give(conn[c].slot),
         NEW pc \in {"none", "reading", "writing"}, SL!SetConn(c, pc, None),
         UNCHANGED <<SL!control, SL!others, udp, tcp, queue, worker>>
  PROVE  SlInv'
<1>1. tcp # "ended" /\ conn[c].slot \in SL!Size /\ \A e \in SL!Size : e # None
  BY SlBusy, SlSizes
<1>2. free' \in [SL!Size -> Nat] /\ \A e \in SL!Size : free'[e] = free[e] + (IF e = conn[c].slot THEN 1 ELSE 0)
  BY <1>1, SlHolders, SlSlot DEF SL!Give
<1>3. \A e \in SL!Size : free'[e] + (IF None = e THEN 1 ELSE 0) = free[e] + (IF conn[c].slot = e THEN 1 ELSE 0)
  BY <1>1, <1>2
<1> QED
  BY <1>1, <1>2, <1>3, SlConnStep

\* The slot goes back before the answer is written.
LEMMA SlAnswered == ASSUME SlInv, NEW c \in Connections, SL!Answered(c) PROVE SlInv'
<1>1. PICK pc \in {"writing", "none"} : SL!SetConn(c, pc, None)
  BY DEF SL!Answered
<1> QED
  BY <1>1, SlGive DEF SL!Answered

\* The answer is written, and the connection read again.
LEMMA SlWritten == ASSUME SlInv, NEW c \in Connections, SL!Written(c) PROVE SlInv'
<1>1. PICK pc \in {"none", "reading"} : SL!SetConn(c, pc, None)
  BY DEF SL!Written
<1>2. conn[c].pc = "writing" /\ UNCHANGED <<SL!control, SL!others, free, udp, tcp, queue, worker>>
  BY DEF SL!Written
<1>3. tcp # "ended" /\ conn[c].slot = None
  BY <1>2, SlBusy
<1> QED
  BY <1>1, <1>2, <1>3, SlHolders, SlConnStep

\* A connection that ends gives back the slot it has.
LEMMA SlHangup == ASSUME SlInv, NEW c \in Connections, SL!Hangup(c) PROVE SlInv'
<1>1. /\ conn[c].pc \in {"reading", "body", "writing"} /\ SL!SetConn(c, "none", None)
      /\ UNCHANGED <<SL!control, SL!others, udp, tcp, queue, worker>>
      /\ IF conn[c].pc = "body" THEN SL!Give(conn[c].slot) ELSE UNCHANGED free
  BY DEF SL!Hangup
<1>2. CASE conn[c].pc = "body"
  BY <1>1, <1>2, SlGive
<1>3. CASE conn[c].pc # "body"
  <2>1. tcp # "ended" /\ conn[c].slot = None /\ UNCHANGED free
    BY <1>1, <1>3, SlBusy
  <2> QED
    BY <1>1, <2>1, SlHolders, SlConnStep
<1> QED
  BY <1>2, <1>3

\* The slots stay where they are.
LEMMA SlSlotsStay ==
  ASSUME SlInv, UNCHANGED <<free, queue, worker, conn>>
  PROVE  SlotsExact'
<1>1. ASSUME NEW e \in SL!Size
      PROVE  Slots[e] = free'[e] + queue'[e] + Cardinality(WorkersWith(e)') + Cardinality(ConnsWith(e)')
  BY SlCounts
<1> QED
  BY <1>1, SlHolders DEF SlotsExact

\* Listeners and their workers end.
LEMMA SlListeners ==
  ASSUME SlInv, SL!ReaderEnds \/ SL!WorkersEnd \/ SL!AcceptEnds \/ SL!ConnectionsEnd \/ SL!TransportFails
  PROVE  SlInv'
<1>1. /\ UNCHANGED <<SL!control, SL!others, free, queue, worker, conn>>
      /\ udp = "ended" => udp' = "ended"
      /\ tcp = "ended" => tcp' = "ended"
  BY DEF SL!ReaderEnds, SL!WorkersEnd, SL!AcceptEnds, SL!ConnectionsEnd, SL!TransportFails
<1>2. udp' = "ended" => queue = SL!NoSlots /\ \A w \in Workers : worker[w] = None
  BY SlHolders DEF SL!ReaderEnds, SL!WorkersEnd, SL!AcceptEnds, SL!ConnectionsEnd, SL!TransportFails
<1>3. tcp' = "ended" => \A c \in Connections : conn[c] = SL!NoConn
  BY SlHolders DEF SL!ReaderEnds, SL!WorkersEnd, SL!AcceptEnds, SL!ConnectionsEnd, SL!TransportFails, SL!Serving
<1>4. SlotsExact'
  BY <1>1, SlSlotsStay
<1>5. HoldersSound'
  BY <1>1, <1>2, <1>3, SlHolders DEF HoldersSound
<1>6. StageSound' /\ JobsSound'
  BY <1>1 DEF SlInv, StageSound, JobsSound, SL!control, SL!others
<1> QED
  BY <1>4, <1>5, <1>6 DEF SlInv

\* Everything else leaves the slots alone.
LEMMA SlOther ==
  ASSUME SlInv, UNCHANGED <<free, queue, worker, conn>>, udp' = "ended" => udp = "ended", tcp' = "ended" => tcp = "ended",
         StageSound', JobsSound'
  PROVE  SlInv'
<1>1. HoldersSound'
  BY SlHolders DEF HoldersSound
<1> QED
  BY <1>1, SlSlotsStay DEF SlInv

\* A start opens everything.
LEMMA SlStart == ASSUME SlInv, SL!Start PROVE SlInv'
<1>1. StageSound'
  BY DEF SL!Start, StageSound, Up, Unbound, AllJoined, JobsClosed
<1>2. JobsSound'
  BY DEF SL!Start, JobsSound, SlInv, JobsClosed, JobsJoined
<1> QED
  BY <1>1, <1>2, SlOther DEF SL!Start

\* Steps of the background and of requests.
LEMMA SlQuiet ==
  ASSUME SlInv, SL!BackgroundEnds \/ SL!Request \/ SL!RequestEnds \/ SL!HTTPEnds \/ SL!ContextDone PROVE SlInv'
<1>1. /\ UNCHANGED <<service, open, SL!dns, jobs, hook, goroutine, writer>>
      /\ (http = "ended" => http' = "ended" /\ (request' => request)) /\ (background = "ended" => background' = "ended")
  BY DEF SL!BackgroundEnds, SL!Request, SL!RequestEnds, SL!HTTPEnds, SL!ContextDone, SL!control, SL!others
<1>2. UNCHANGED <<free, queue, worker, conn, udp, tcp>>
  BY <1>1 DEF SL!dns
<1>3. service = "new" => request' = FALSE
  <2> SUFFICES ASSUME service = "new" PROVE request' = FALSE
    OBVIOUS
  <2>1. request = FALSE /\ http = "ended"
    BY DEF SlInv, StageSound
  <2> QED
    BY <2>1 DEF SL!BackgroundEnds, SL!Request, SL!RequestEnds, SL!HTTPEnds, SL!ContextDone, SL!control, SL!others
<1>4. StageSound'
  BY <1>1, <1>2, <1>3 DEF SlInv, StageSound
<1>5. JobsSound'
  BY <1>1 DEF SlInv, JobsSound
<1> QED
  BY <1>2, <1>4, <1>5, SlOther

\* Jobs start, return and end.
LEMMA SlJob ==
  ASSUME SlInv, SL!StartJob \/ (\E j \in 1 .. MaxJobs : SL!HookReturns(j) \/ SL!JobEnds(j)) PROVE SlInv'
<1>1. UNCHANGED <<SL!control, SL!dns, http, background, writer, request>>
  BY DEF SL!StartJob, SL!HookReturns, SL!JobEnds
<1>2. UNCHANGED <<free, queue, worker, conn, udp, tcp, service, open>>
  BY <1>1 DEF SL!dns, SL!control
<1>3. StageSound'
  BY <1>1, <1>2 DEF SlInv, StageSound
<1>4. jobs \in [running : BOOLEAN, closed : BOOLEAN, next : Nat]
  BY DEF SlInv, JobsSound
<1>5. CASE SL!StartJob
  <2>1. ~jobs.closed /\ ~jobs.running /\ request
    BY <1>5 DEF SL!StartJob, SL!Accepts
  <2>2. service # "new" /\ service \notin JobsClosed /\ hook = {}
    BY <2>1 DEF SlInv, JobsSound, StageSound
  <2>3. /\ jobs' \in [running : BOOLEAN, closed : BOOLEAN, next : Nat] /\ jobs'.next = jobs.next + 1
        /\ jobs'.running /\ jobs'.closed = jobs.closed
    <3> DEFINE n == jobs.next + 1
    <3>1. jobs' = [jobs EXCEPT !.running = TRUE, !.next = n] /\ n \in Nat
      BY <1>4, <1>5 DEF SL!StartJob
    <3> HIDE DEF n
    <3>2. jobs' \in [running : BOOLEAN, closed : BOOLEAN, next : Nat] /\ jobs'.next = n /\ jobs'.closed = jobs.closed
      BY <1>4, <3>1
    <3>3. jobs'.running = TRUE
      BY <1>4, <3>1
    <3> QED
      BY <3>2, <3>3 DEF n
  <2>4. hook' = {jobs.next + 1} /\ jobs.next + 1 \in goroutine'
    BY <1>5, <2>2 DEF SL!StartJob
  <2> QED
    BY <1>2, <1>3, <2>2, <2>3, <2>4, SlOther DEF JobsSound, JobsJoined
<1>6. CASE \E j \in 1 .. MaxJobs : SL!HookReturns(j)
  <2>1. PICK j : j \in hook /\ hook' = hook \ {j} /\ jobs' = [jobs EXCEPT !.running = FALSE] /\ UNCHANGED goroutine
    BY <1>6 DEF SL!HookReturns
  <2>2. hook' = {}
    BY <2>1 DEF SlInv, JobsSound
  <2>3. jobs' \in [running : BOOLEAN, closed : BOOLEAN, next : Nat] /\ jobs'.closed = jobs.closed
    BY <1>4, <2>1
  <2> QED
    BY <1>2, <1>3, <2>2, <2>3, SlOther DEF SlInv, JobsSound
<1>7. CASE \E j \in 1 .. MaxJobs : SL!JobEnds(j)
  <2>1. PICK j : j \notin hook /\ goroutine' = goroutine \ {j} /\ UNCHANGED <<jobs, hook>>
    BY <1>7 DEF SL!JobEnds
  <2>2. JobsSound'
    BY <1>2, <2>1 DEF SlInv, JobsSound
  <2> QED
    BY <1>2, <1>3, <2>2, SlOther
<1> QED
  BY <1>5, <1>6, <1>7

\* The steps of a stop, in their order.
LEMMA SlStop == ASSUME SlInv, SL!Quit \/ SL!Stopping PROVE SlInv'
<1> USE DEF Up, Unbound, JobsClosed, JobsJoined, AllJoined
<1>1. CASE SL!Quit \/ SL!Cancel \/ SL!CloseListeners
  <2>1. UNCHANGED <<SL!dns, SL!others>> /\ UNCHANGED <<free, queue, worker, conn, udp, tcp>>
    BY <1>1 DEF SL!Quit, SL!Cancel, SL!CloseListeners, SL!dns
  <2>2. StageSound'
    BY <1>1, <2>1 DEF SlInv, StageSound, SL!Quit, SL!Cancel, SL!CloseListeners, SL!Step, SL!others
  <2>3. JobsSound'
    BY <1>1, <2>1 DEF SlInv, JobsSound, SL!Quit, SL!Cancel, SL!CloseListeners, SL!Step, SL!others
  <2> QED
    BY <2>1, <2>2, <2>3, SlOther
<1>2. CASE SL!CloseJobs
  <2>1. UNCHANGED <<free, queue, worker, conn, udp, tcp>>
    BY <1>2 DEF SL!CloseJobs, SL!dns
  <2>2. StageSound'
    BY <1>2, <2>1 DEF SlInv, StageSound, SL!CloseJobs, SL!Step
  <2>3. JobsSound'
    BY <1>2 DEF SlInv, JobsSound, SL!CloseJobs, SL!Step
  <2> QED
    BY <2>1, <2>2, <2>3, SlOther
<1>3. CASE SL!JoinJobs
  <2>1. UNCHANGED <<SL!dns, SL!others>> /\ UNCHANGED <<free, queue, worker, conn, udp, tcp>> /\ hook = {}
    BY <1>3 DEF SL!JoinJobs, SL!dns, SlInv, JobsSound
  <2>2. StageSound'
    BY <1>3, <2>1 DEF SlInv, StageSound, SL!JoinJobs, SL!Step, SL!others
  <2>3. JobsSound'
    BY <1>3, <2>1 DEF SlInv, JobsSound, SL!JoinJobs, SL!Step, SL!others
  <2> QED
    BY <2>1, <2>2, <2>3, SlOther
<1>4. CASE SL!WaitWorkers \/ SL!ClosePipeline \/ SL!CloseDatabase
  <2>1. UNCHANGED <<SL!dns, SL!others>> /\ UNCHANGED <<free, queue, worker, conn, udp, tcp>>
    BY <1>4 DEF SL!WaitWorkers, SL!ClosePipeline, SL!CloseDatabase, SL!dns
  <2>2. StageSound'
    BY <1>4, <2>1 DEF SlInv, StageSound, SL!WaitWorkers, SL!ClosePipeline, SL!CloseDatabase, SL!Step, SL!others
  <2>3. JobsSound'
    BY <1>4, <2>1 DEF SlInv, JobsSound, SL!WaitWorkers, SL!ClosePipeline, SL!CloseDatabase, SL!Step, SL!others
  <2> QED
    BY <2>1, <2>2, <2>3, SlOther
<1>5. CASE SL!FlushHistory
  <2>1. UNCHANGED <<free, queue, worker, conn, udp, tcp>>
    BY <1>5 DEF SL!FlushHistory, SL!dns
  <2>2. StageSound'
    BY <1>5, <2>1 DEF SlInv, StageSound, SL!FlushHistory, SL!Step
  <2>3. JobsSound'
    BY <1>5 DEF SlInv, JobsSound, SL!FlushHistory, SL!Step
  <2> QED
    BY <2>1, <2>2, <2>3, SlOther
<1> QED
  BY <1>1, <1>2, <1>3, <1>4, <1>5 DEF SL!Stopping

\* At first nothing is open and every slot is free.
LEMMA SlInit == SL!Init => SlInv
<1> SUFFICES ASSUME SL!Init PROVE SlInv
  OBVIOUS
<1>1. StageSound
  BY DEF SL!Init, StageSound, AllJoined, Up, Unbound
<1>2. JobsSound
  BY DEF SL!Init, JobsSound, JobsClosed, JobsJoined
<1>3. \A c \in Connections : conn[c] = SL!NoConn /\ conn[c].slot = None /\ conn[c].pc = "none" /\ conn[c] \in ConnSteps
  BY DEF SL!Init, SL!NoConn, ConnSteps
<1>4. HoldersSound
  BY <1>3 DEF SL!Init, HoldersSound
<1>5. ASSUME NEW e \in SL!Size PROVE WorkersWith(e) = {} /\ ConnsWith(e) = {}
  BY <1>3, SlSizes DEF SL!Init, WorkersWith, ConnsWith
<1>6. Cardinality({}) = 0
  BY FS_EmptySet
<1>7. free = Slots /\ queue = [e \in SL!Size |-> 0] /\ Slots \in [SL!Size -> Nat]
  BY SlSizes DEF SL!Init, SL!NoSlots
<1>8. SlotsExact
  BY <1>5, <1>6, <1>7 DEF SlotsExact
<1> QED
  BY <1>1, <1>2, <1>4, <1>8 DEF SlInv

\* A step that changes nothing.
LEMMA SlStill == ASSUME SlInv, UNCHANGED SL!vars PROVE SlInv'
<1>1. StageSound' /\ JobsSound'
  BY DEF SL!vars, SlInv, StageSound, JobsSound
<1> QED
  BY <1>1, SlOther DEF SL!vars

\* Every step keeps the invariant.
LEMMA SlNext == SlInv /\ [SL!Next]_SL!vars => SlInv'
<1> SUFFICES ASSUME SlInv, [SL!Next]_SL!vars PROVE SlInv'
  OBVIOUS
<1>1. CASE SL!Start \/ SL!ContextDone \/ SL!TransportFails \/ SL!Quit \/ SL!Stopping
  BY <1>1, SlStart, SlQuiet, SlListeners, SlStop
<1>2. CASE \E size \in SL!Size : SL!Receive(size) \/ (\E w \in Workers : SL!Work(w, size)) \/ (\E c \in Connections : SL!Prefix(c, size))
  BY <1>2, SlReceive, SlWork, SlPrefix
<1>3. CASE \E w \in Workers : SL!Resolved(w)
  BY <1>3, SlResolved
<1>4. CASE \E c \in Connections : SL!Accept(c) \/ SL!Body(c) \/ SL!Answered(c) \/ SL!Written(c) \/ SL!Hangup(c)
  BY <1>4, SlAccept, SlBody, SlAnswered, SlWritten, SlHangup
<1>5. CASE SL!Ends \/ SL!Request \/ SL!RequestEnds \/ SL!StartJob
  BY <1>5, SlListeners, SlQuiet, SlJob DEF SL!Ends
<1>6. CASE \E j \in 1 .. MaxJobs : SL!HookReturns(j) \/ SL!JobEnds(j)
  BY <1>6, SlJob
<1>7. CASE UNCHANGED SL!vars
  BY <1>7, SlStill
<1> QED
  BY <1>1, <1>2, <1>3, <1>4, <1>5, <1>6, <1>7 DEF SL!Next

\* The invariant says what ResourcesOutliveUsers asks.
LEMMA SlOutlive == SlInv => SL!ResourcesOutliveUsers
<1> SUFFICES ASSUME SlInv PROVE SL!ResourcesOutliveUsers
  OBVIOUS
<1>1. (udp # "ended" \/ tcp # "ended" \/ background # "ended" \/ hook # {}) => {"pipeline", "db"} \subseteq open
  BY DEF SlInv, StageSound, JobsSound, Up, Unbound, AllJoined, JobsClosed, JobsJoined
<1>2. writer # "ended" => "db" \in open
  BY DEF SlInv, StageSound, Up, Unbound
<1>3. \A size \in SL!Size :
        Slots[size] = free[size] + queue[size] + Cardinality({w \in Workers : worker[w] = size})
                      + Cardinality({c \in Connections : conn[c].slot = size})
  BY DEF SlInv, SlotsExact, WorkersWith, ConnsWith
<1>4. ASSUME udp = "ended", tcp = "ended" PROVE free = Slots
  <2>1. ASSUME NEW e \in SL!Size PROVE free[e] = Slots[e]
    <3>1. WorkersWith(e) = {} /\ ConnsWith(e) = {} /\ queue[e] = 0
      BY <1>4, SlHolders, SlSizes DEF WorkersWith, ConnsWith, SL!NoConn, SL!NoSlots
    <3>2. Cardinality({}) = 0
      BY FS_EmptySet
    <3> QED
      BY <3>1, <3>2, SlCounts
  <2>2. free \in [SL!Size -> Nat] /\ Slots \in [SL!Size -> Nat]
    BY SlHolders, SlSizes
  <2> QED
    BY <2>1, <2>2
<1> QED
  BY <1>1, <1>2, <1>3, <1>4, SlCardinality DEF SL!ResourcesOutliveUsers

\* Nothing is used after it is closed and no slot is lost, whatever is still
\* running when the service stops (ServiceLifecycle: app/lifecycle.go, transport/).
THEOREM ServiceOutlives == SL!Spec => []ResourcesOutliveUsers
<1>1. SL!Spec => []SL!ResourcesOutliveUsers
  BY SlInit, SlNext, SlOutlive, PTL DEF SL!Spec
<1>2. SL!ResourcesOutliveUsers => ResourcesOutliveUsers
  BY DEF ResourcesOutliveUsers
<1> QED
  BY <1>1, <1>2, PTL
=============================================================================
