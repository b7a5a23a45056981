------------------------------- MODULE Flights -------------------------------
(***************************************************************************)
(* Shared resolution work (internal/resolve/inflight.go): requests for the *)
(* same cache key join one worker, a worker nobody waits for is cancelled  *)
(* and detached from its key, background refreshes have a budget of their  *)
(* own, and close cancels and joins everything. Every step holds the       *)
(* table's lock.                                                           *)
(***************************************************************************)
EXTENDS Integers, FiniteSets

CONSTANTS
  Clients,     \* requests being resolved
  Keys,        \* cache keys
  Works,       \* flight objects, reused once nothing refers to them
  NoWork,
  MaxFlights, MaxWaiters, MaxRefresh

ASSUME FlightsAssumption ==
  /\ NoWork \notin Works
  /\ IsFiniteSet(Works) /\ IsFiniteSet(Clients)
  /\ {MaxFlights, MaxWaiters, MaxRefresh} \subseteq Nat \ {0}

VARIABLES
  active,     \* active[k]: the flight requests for k join
  key,        \* the key a flight was created for
  waiters,    \* the flight's own count
  refresh,    \* created by a background refresh
  cancelled,  \* its context is cancelled
  running,    \* flights whose worker has not finished
  workers, refreshes,
  closed,
  joined,     \* close has returned
  waiting     \* waiting[c]: the flight client c waits for

vars == <<active, key, waiters, refresh, cancelled, running, workers, refreshes,
          closed, joined, waiting>>

Init ==
  /\ active = [k \in Keys |-> NoWork]
  /\ key \in [Works -> Keys]
  /\ waiters = [f \in Works |-> 0]
  /\ refresh = [f \in Works |-> FALSE]
  /\ cancelled = [f \in Works |-> FALSE]
  /\ running = {}
  /\ workers = 0 /\ refreshes = 0
  /\ closed = FALSE /\ joined = FALSE
  /\ waiting = [c \in Clients |-> NoWork]

Unused(f) == f \notin running /\ \A c \in Clients : waiting[c] # f

\* A new worker for key k.
Start(k, f, isRefresh, n) ==
  /\ ~closed /\ active[k] = NoWork
  /\ workers < MaxFlights
  /\ Unused(f)
  /\ active' = [active EXCEPT ![k] = f]
  /\ key' = [key EXCEPT ![f] = k]
  /\ waiters' = [waiters EXCEPT ![f] = n]
  /\ refresh' = [refresh EXCEPT ![f] = isRefresh]
  /\ cancelled' = [cancelled EXCEPT ![f] = FALSE]
  /\ running' = running \cup {f}
  /\ workers' = workers + 1
  /\ UNCHANGED <<closed, joined>>

\* A request that finds no work for its key leads a new flight.
Lead(c, k, f) ==
  /\ waiting[c] = NoWork
  /\ Start(k, f, FALSE, 1)
  /\ waiting' = [waiting EXCEPT ![c] = f]
  /\ UNCHANGED refreshes

\* A request joins the work its key has, up to the waiter limit.
Join(c, k) ==
  LET f == active[k] IN
  /\ waiting[c] = NoWork
  /\ ~closed /\ f # NoWork
  /\ waiters[f] < MaxWaiters
  /\ waiters' = [waiters EXCEPT ![f] = @ + 1]
  /\ waiting' = [waiting EXCEPT ![c] = f]
  /\ UNCHANGED <<active, key, refresh, cancelled, running, workers, refreshes, closed, joined>>

\* A stale answer starts a background refresh nobody waits for; one that finds
\* work for its key leaves it alone.
Refresh(k, f) ==
  /\ refreshes < MaxRefresh
  /\ Start(k, f, TRUE, 0)
  /\ refreshes' = refreshes + 1
  /\ UNCHANGED waiting

\* Mistake: only a worker that is still attached gives its place back.
FinishAttached(f) ==
  /\ f \in running
  /\ running' = running \ {f}
  /\ active' = IF active[key[f]] = f THEN [active EXCEPT ![key[f]] = NoWork] ELSE active
  /\ workers' = IF active[key[f]] = f THEN workers - 1 ELSE workers
  /\ refreshes' = IF refresh[f] THEN refreshes - 1 ELSE refreshes
  /\ UNCHANGED <<key, waiters, refresh, cancelled, closed, joined, waiting>>

\* The worker ends, with an answer or an error.
Finish(f) ==
  /\ f \in running
  /\ running' = running \ {f}
  /\ active' = IF active[key[f]] = f THEN [active EXCEPT ![key[f]] = NoWork] ELSE active
  /\ workers' = workers - 1
  /\ refreshes' = IF refresh[f] THEN refreshes - 1 ELSE refreshes
  /\ UNCHANGED <<key, waiters, refresh, cancelled, closed, joined, waiting>>

\* Mistake: the last waiter cancels the work but leaves it joinable.
LeaveAttached(c) ==
  LET f == waiting[c] IN
  /\ f # NoWork
  /\ waiting' = [waiting EXCEPT ![c] = NoWork]
  /\ waiters' = [waiters EXCEPT ![f] = @ - 1]
  /\ cancelled' = IF waiters[f] = 1 /\ ~refresh[f]
                  THEN [cancelled EXCEPT ![f] = TRUE] ELSE cancelled
  /\ UNCHANGED <<active, key, refresh, running, workers, refreshes, closed, joined>>

\* A waiter leaves, because the work is done or its own context ended. The last
\* waiter of abandoned work cancels it and detaches it from its key.
Leave(c) ==
  LET f == waiting[c]
      abandoned == waiters[f] = 1 /\ ~refresh[f]
  IN
  /\ f # NoWork
  /\ waiting' = [waiting EXCEPT ![c] = NoWork]
  /\ waiters' = [waiters EXCEPT ![f] = @ - 1]
  /\ cancelled' = IF abandoned THEN [cancelled EXCEPT ![f] = TRUE] ELSE cancelled
  /\ active' = IF abandoned /\ active[key[f]] = f
               THEN [active EXCEPT ![key[f]] = NoWork] ELSE active
  /\ UNCHANGED <<key, refresh, running, workers, refreshes, closed, joined>>

\* Mistake: closing cancels only the refreshes.
CloseRefreshes ==
  /\ ~closed /\ closed' = TRUE
  /\ cancelled' = [f \in Works |-> cancelled[f] \/ (refresh[f] /\ \E k \in Keys : active[k] = f)]
  /\ UNCHANGED <<active, key, waiters, refresh, running, workers, refreshes, joined, waiting>>

Close ==
  /\ ~closed /\ closed' = TRUE
  /\ cancelled' = [f \in Works |-> cancelled[f] \/ \E k \in Keys : active[k] = f]
  /\ UNCHANGED <<active, key, waiters, refresh, running, workers, refreshes, joined, waiting>>

\* close returns once its wait group is empty.
CloseReturns ==
  /\ closed /\ running = {} /\ ~joined
  /\ joined' = TRUE
  /\ UNCHANGED <<active, key, waiters, refresh, cancelled, running, workers, refreshes,
                 closed, waiting>>

Next ==
  \/ \E c \in Clients, k \in Keys : Join(c, k) \/ \E f \in Works : Lead(c, k, f)
  \/ \E k \in Keys, f \in Works : Refresh(k, f)
  \/ \E f \in Works : Finish(f)
  \/ \E c \in Clients : Leave(c)
  \/ Close
  \/ CloseReturns

Spec == Init /\ [][Next]_vars

(***************************************************************************)
(* A worker whose context is cancelled ends: every exchange it makes       *)
(* honours that context. A waiter whose work is done returns. Nothing is   *)
(* assumed of work that is still wanted.                                   *)
(***************************************************************************)
Fairness ==
  /\ \A f \in Works : WF_vars(cancelled[f] /\ Finish(f))
  /\ \A c \in Clients : WF_vars(waiting[c] \notin running /\ Leave(c))
  /\ WF_vars(CloseReturns)

FairSpec == Spec /\ Fairness
-----------------------------------------------------------------------------
\* Types of the table, the counters and the flights; the counters never go below zero.
TypeOK ==
  /\ active \in [Keys -> Works \cup {NoWork}]
  /\ key \in [Works -> Keys]
  /\ waiters \in [Works -> Nat]
  /\ refresh \in [Works -> BOOLEAN]
  /\ cancelled \in [Works -> BOOLEAN]
  /\ running \subseteq Works
  /\ workers \in Nat /\ refreshes \in Nat
  /\ closed \in BOOLEAN /\ joined \in BOOLEAN
  /\ waiting \in [Clients -> Works \cup {NoWork}]

\* The two budgets count exactly the workers that are running, abandoned ones
\* included, and are never exceeded.
BudgetExact ==
  /\ workers = Cardinality(running) /\ workers <= MaxFlights
  /\ refreshes = Cardinality({f \in running : refresh[f]}) /\ refreshes <= MaxRefresh

\* A live request never joins abandoned work: what a key leads to is running
\* for that key, is not cancelled before close, and some request really waits for
\* it unless it is a refresh, whatever the flight's own count of waiters says.
JoinableIsLive ==
  \A k \in Keys : LET f == active[k] IN f # NoWork =>
    /\ f \in running /\ key[f] = k
    /\ closed \/ ~cancelled[f]
    /\ refresh[f] \/ \E c \in Clients : waiting[c] = f

\* At most one worker that is not cancelled runs for a key.
OneFlightPerKey ==
  \A f, g \in running : ~cancelled[f] /\ ~cancelled[g] /\ key[f] = key[g] => f = g

\* After close every worker that still runs is cancelled, the detached ones too.
ClosedCancelsAll == closed => \A f \in running : cancelled[f]

\* close returns.
CloseCompletes == closed ~> joined
=============================================================================
