-------------------------- MODULE ServiceLifecycle --------------------------
(***************************************************************************)
(* The life of the service (app/lifecycle.go, app/http.go): the DNS        *)
(* listeners and the pool of request slots (transport/), the jobs of the   *)
(* control service (control/jobs.go), the background workers, and the      *)
(* order in which a stop takes them down before the pipeline and the       *)
(* history database are closed.                                            *)
(***************************************************************************)
EXTENDS Naturals, FiniteSets

CONSTANTS
  Slots,           \* request slots per size
  Workers,         \* workers of the UDP listener
  Connections,     \* TCP connections
  MaxConnections,  \* served at a time
  MaxJobs,         \* bound: jobs accepted
  None             \* no slot

VARIABLES
  service,   \* "new", "running" or the step of the stop
  ready,
  cancelled, \* the context of the workers
  open,      \* of "sockets", "pipeline", "db"
  free,      \* per size: slots of the pool
  udp, tcp, http, background, writer,  \* "serving", "draining" or "ended"
  queue,     \* per size: slots of datagrams that wait for a worker
  worker,    \* per worker: the slot it resolves
  conn,      \* per connection: step and slot
  request,   \* an administration request is being handled
  jobs,      \* running, closed, how many were accepted
  hook,      \* jobs whose hook runs
  goroutine  \* jobs whose goroutine has not ended

vars == <<service, ready, cancelled, open, free, udp, tcp, http, background, writer,
          queue, worker, conn, request, jobs, hook, goroutine>>

dns == <<free, udp, tcp, queue, worker, conn>>
others == <<http, background, writer, request, jobs, hook, goroutine>>
control == <<service, ready, cancelled, open>>

NoConn == [pc |-> "none", slot |-> None]
Size == DOMAIN Slots
NoSlots == [size \in Size |-> 0]

Init ==
  /\ service = "new" /\ ready = FALSE /\ cancelled = FALSE /\ open = {}
  /\ free = Slots /\ queue = NoSlots
  /\ udp = "ended" /\ tcp = "ended" /\ http = "ended" /\ background = "ended" /\ writer = "ended"
  /\ worker = [w \in Workers |-> None] /\ conn = [c \in Connections |-> NoConn]
  /\ request = FALSE
  /\ jobs = [running |-> FALSE, closed |-> FALSE, next |-> 0]
  /\ hook = {} /\ goroutine = {}

(*************************** start and the workers *************************)

\* Everything is bound and opened before anything serves; a failure on the way
\* closes what was opened, and the service can be started again.
Start ==
  /\ service = "new"
  /\ service' = "running" /\ ready' = TRUE /\ open' = {"sockets", "pipeline", "db"}
  /\ udp' = "serving" /\ tcp' = "serving" /\ http' = "serving" /\ background' = "serving" /\ writer' = "serving"
  /\ UNCHANGED <<cancelled, free, queue, worker, conn, request, jobs, hook, goroutine>>

\* The sockets are closed by the stop, or by the cancelled context.
Listening == "sockets" \in open /\ ~cancelled

Take(size) == free' = [free EXCEPT ![size] = @ - 1]
Give(size) == free' = [free EXCEPT ![size] = @ + 1]

\* A datagram gets a slot of its size and waits for a worker, or is dropped.
Receive(size) ==
  /\ udp = "serving" /\ Listening /\ free[size] > 0
  /\ Take(size) /\ queue' = [queue EXCEPT ![size] = @ + 1]
  /\ UNCHANGED <<control, others, udp, tcp, worker, conn>>

\* The reader ends when its socket is closed; the workers empty the queue.
ReaderEnds ==
  /\ udp = "serving" /\ ~Listening
  /\ udp' = "draining"
  /\ UNCHANGED <<control, others, free, tcp, queue, worker, conn>>

\* A worker resolves what waits, and after the cancellation only gives the slot back.
Work(w, size) ==
  /\ udp # "ended" /\ worker[w] = None /\ queue[size] > 0
  /\ queue' = [queue EXCEPT ![size] = @ - 1]
  /\ IF cancelled \/ udp = "draining" THEN Give(size) /\ UNCHANGED worker
     ELSE worker' = [worker EXCEPT ![w] = size] /\ UNCHANGED free
  /\ UNCHANGED <<control, others, udp, tcp, conn>>

\* The handler honours its deadline and the cancellation; the slot goes back after the write.
Resolved(w) ==
  /\ worker[w] # None
  /\ Give(worker[w]) /\ worker' = [worker EXCEPT ![w] = None]
  /\ UNCHANGED <<control, others, udp, tcp, queue, conn>>

WorkersEnd ==
  /\ udp = "draining" /\ queue = NoSlots /\ \A w \in Workers : worker[w] = None
  /\ udp' = "ended"
  /\ UNCHANGED <<control, others, free, tcp, queue, worker, conn>>

Serving == {c \in Connections : conn[c] # NoConn}

SetConn(c, pc, slot) == conn' = [conn EXCEPT ![c] = [pc |-> pc, slot |-> slot]]

\* A connection above the limit is dropped at once.
Accept(c) ==
  /\ tcp = "serving" /\ Listening /\ conn[c] = NoConn /\ Cardinality(Serving) < MaxConnections
  /\ SetConn(c, "reading", None)
  /\ UNCHANGED <<control, others, free, udp, tcp, queue, worker>>

\* The length arrives, perhaps just before the connection is closed; without a slot the connection ends.
Prefix(c, size) ==
  /\ conn[c].pc = "reading"
  /\ IF free[size] > 0 THEN Take(size) /\ SetConn(c, "body", size)
     ELSE SetConn(c, "none", None) /\ UNCHANGED free
  /\ UNCHANGED <<control, others, udp, tcp, queue, worker>>

Body(c) ==
  /\ conn[c].pc = "body"
  /\ SetConn(c, "resolving", conn[c].slot)
  /\ UNCHANGED <<control, others, free, udp, tcp, queue, worker>>

\* The slot goes back before a slow write.
Answered(c) ==
  /\ conn[c].pc = "resolving"
  /\ Give(conn[c].slot)
  /\ \E pc \in {"writing", "none"} : SetConn(c, pc, None)
  /\ UNCHANGED <<control, others, udp, tcp, queue, worker>>

\* The next request of the connection, unless its context has ended.
Written(c) ==
  /\ conn[c].pc = "writing"
  /\ SetConn(c, IF cancelled \/ tcp = "draining" THEN "none" ELSE "reading", None)
  /\ UNCHANGED <<control, others, free, udp, tcp, queue, worker>>

\* The peer goes away, a deadline passes, or the cancellation closes the connection.
Hangup(c) ==
  /\ conn[c].pc \in {"reading", "body", "writing"}
  /\ IF conn[c].pc = "body" THEN Give(conn[c].slot) ELSE UNCHANGED free
  /\ SetConn(c, "none", None)
  /\ UNCHANGED <<control, others, udp, tcp, queue, worker>>

AcceptEnds ==
  /\ tcp = "serving" /\ ~Listening
  /\ tcp' = "draining"
  /\ UNCHANGED <<control, others, free, udp, queue, worker, conn>>

ConnectionsEnd ==
  /\ tcp = "draining" /\ Serving = {}
  /\ tcp' = "ended"
  /\ UNCHANGED <<control, others, free, udp, queue, worker, conn>>

\* The configuration watcher, the naming and the saving of names, and the refresh of the managed runtime.
BackgroundEnds ==
  /\ background = "serving" /\ cancelled
  /\ background' = "ended"
  /\ UNCHANGED <<control, dns, http, writer, request, jobs, hook, goroutine>>

(***************************** requests and jobs ***************************)

Request ==
  /\ http = "serving" /\ Listening /\ ~request
  /\ request' = TRUE
  /\ UNCHANGED <<control, dns, http, background, writer, jobs, hook, goroutine>>

RequestEnds ==
  /\ request
  /\ request' = FALSE
  /\ UNCHANGED <<control, dns, http, background, writer, jobs, hook, goroutine>>

\* Mistake: Shutdown has no deadline.
HTTPEndsIdle ==
  /\ http = "serving" /\ (cancelled \/ ~Listening) /\ ~request
  /\ http' = "ended"
  /\ UNCHANGED <<control, dns, background, writer, request, jobs, hook, goroutine>>

\* Shutdown waits two seconds for requests, and no longer: one may outlive its server.
HTTPEnds ==
  /\ http = "serving" /\ (cancelled \/ ~Listening)
  /\ http' = "ended"
  /\ UNCHANGED <<control, dns, background, writer, request, jobs, hook, goroutine>>

\* Mistake: a job that comes after Close is accepted.
AcceptsAlways == ~jobs.running

Accepts == ~jobs.closed /\ ~jobs.running

\* A request starts a job, which does not end with the request.
StartJob ==
  /\ request /\ Accepts /\ jobs.next < MaxJobs
  /\ jobs' = [jobs EXCEPT !.running = TRUE, !.next = @ + 1]
  /\ hook' = hook \cup {jobs.next + 1} /\ goroutine' = goroutine \cup {jobs.next + 1}
  /\ UNCHANGED <<control, dns, http, background, writer, request>>

\* The hook returns, by itself, by its timeout or by its cancellation; the next job may start.
HookReturns(j) ==
  /\ j \in hook
  /\ hook' = hook \ {j} /\ jobs' = [jobs EXCEPT !.running = FALSE]
  /\ UNCHANGED <<control, dns, http, background, writer, request, goroutine>>

\* Only then is the job's channel closed.
JobEnds(j) ==
  /\ j \in goroutine \ hook
  /\ goroutine' = goroutine \ {j}
  /\ UNCHANGED <<control, dns, http, background, writer, request, jobs, hook>>

(********************************* the stop ********************************)

\* The stop begins: Close was called, the context is done, or a listener has ended.
Quit ==
  /\ service = "running"
  /\ service' = "not ready" /\ ready' = FALSE
  /\ UNCHANGED <<cancelled, open, dns, others>>

\* The context of the caller also cancels the workers, before the stop has noticed.
ContextDone ==
  /\ service = "running" /\ ~cancelled
  /\ cancelled' = TRUE
  /\ UNCHANGED <<service, ready, open, dns, others>>

\* The socket of a listener fails; the failure is reported when its workers have ended.
TransportFails ==
  /\ service = "running" /\ ~cancelled
  /\ \/ udp = "serving" /\ udp' = "draining" /\ UNCHANGED tcp
     \/ tcp = "serving" /\ tcp' = "draining" /\ UNCHANGED udp
  /\ UNCHANGED <<control, free, queue, worker, conn, others>>

Step(from, to) == service = from /\ service' = to

Cancel ==
  /\ Step("not ready", "cancelled")
  /\ cancelled' = TRUE
  /\ UNCHANGED <<ready, open, dns, others>>

\* The DHCP supervisor gets two seconds; then the listeners are closed.
CloseListeners ==
  /\ Step("cancelled", "unbound")
  /\ open' = open \ {"sockets"}
  /\ UNCHANGED <<ready, cancelled, dns, others>>

\* No further job is accepted, and the last one is cancelled.
CloseJobs ==
  /\ Step("unbound", "joining")
  /\ jobs' = [jobs EXCEPT !.closed = TRUE]
  /\ UNCHANGED <<ready, cancelled, open, dns, http, background, writer, request, hook, goroutine>>

JoinJobs ==
  /\ jobs.next \notin goroutine
  /\ Step("joining", "waiting")
  /\ UNCHANGED <<ready, cancelled, open, dns, others>>

WaitWorkers ==
  /\ udp = "ended" /\ tcp = "ended" /\ http = "ended" /\ background = "ended"
  /\ Step("waiting", "joined")
  /\ UNCHANGED <<ready, cancelled, open, dns, others>>

ClosePipeline ==
  /\ Step("joined", "piped")
  /\ open' = open \ {"pipeline"}
  /\ UNCHANGED <<ready, cancelled, dns, others>>

\* The names are saved while the database is open, and the history is flushed.
FlushHistory ==
  /\ Step("piped", "flushed")
  /\ writer' = "ended"
  /\ UNCHANGED <<ready, cancelled, open, dns, http, background, request, jobs, hook, goroutine>>

CloseDatabase ==
  /\ Step("flushed", "done")
  /\ open' = open \ {"db"}
  /\ UNCHANGED <<ready, cancelled, dns, others>>

Stopping ==
  \/ Cancel \/ CloseListeners \/ CloseJobs \/ JoinJobs \/ WaitWorkers
  \/ ClosePipeline \/ FlushHistory \/ CloseDatabase

\* Each of these happens once.
Ends == ReaderEnds \/ WorkersEnd \/ AcceptEnds \/ ConnectionsEnd \/ BackgroundEnds \/ HTTPEnds

Next ==
  \/ Start \/ ContextDone \/ TransportFails \/ Quit \/ Stopping
  \/ \E size \in Size : Receive(size) \/ (\E w \in Workers : Work(w, size)) \/ (\E c \in Connections : Prefix(c, size))
  \/ \E w \in Workers : Resolved(w)
  \/ \E c \in Connections : Accept(c) \/ Body(c) \/ Answered(c) \/ Written(c) \/ Hangup(c)
  \/ Ends \/ Request \/ RequestEnds \/ StartJob
  \/ \E j \in 1..MaxJobs : HookReturns(j) \/ JobEnds(j)

MustStop == cancelled \/ udp = "ended" \/ tcp = "ended"

\* Fair: the scheduler runs every goroutine that can run, and handlers,
\* hooks and connections end once they are cancelled, as their contract says.
Fairness ==
  /\ WF_vars(Stopping \/ (MustStop /\ Quit))
  /\ WF_vars(Ends)
  /\ \A w \in Workers : WF_vars(Resolved(w) \/ \E size \in Size : Work(w, size))
  /\ \A c \in Connections : WF_vars(Answered(c) \/ ((cancelled \/ tcp = "draining") /\ Hangup(c)))
  /\ WF_vars(\E j \in 1..MaxJobs : HookReturns(j) \/ JobEnds(j))

Spec == Init /\ [][Next]_vars /\ Fairness

(******************************** properties *******************************)

\* Nothing is used after it is closed, and no slot is lost: the pipeline is
\* closed only when no datagram, connection or background worker can use it,
\* the database only after the last job, whose requests may still be running
\* and whose successors are refused; and the slots of the pool and of those
\* that hold one are all there are.
ResourcesOutliveUsers ==
  /\ (udp # "ended" \/ tcp # "ended" \/ background # "ended" \/ hook # {}) => {"pipeline", "db"} \subseteq open
  /\ writer # "ended" => "db" \in open
  /\ \A size \in Size :
       Slots[size] = free[size] + queue[size] + Cardinality({w \in Workers : worker[w] = size})
                     + Cardinality({c \in Connections : conn[c].slot = size})
  /\ (udp = "ended" /\ tcp = "ended") => free = Slots

\* Close returns: whatever the service was doing, once it is told to stop or
\* one of its listeners fails it ends, with its database closed.
StopCompletes ==
  (cancelled \/ service = "not ready" \/ "draining" \in {udp, tcp}) ~> (service = "done" /\ open = {})
=============================================================================
