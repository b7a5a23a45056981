---------------------------- MODULE Connections ----------------------------
(***************************************************************************)
(* The sockets of an upstream client (upstream/connections.go, with the    *)
(* leases of tcp.go and the dials of dot.go and doh.go): exclusive leases  *)
(* of TCP connections to an endpoint, one idle connection with a timer,    *)
(* cancellation that closes a socket under its lease, the connections HTTP *)
(* owns, and Close.                                                        *)
(***************************************************************************)
EXTENDS Naturals, FiniteSets

CONSTANTS
  Exchanges,   \* concurrent exchanges
  MaxSockets,  \* bound: sockets opened in a behaviour
  MaxPuts      \* bound: connections given back

VARIABLES
  open,        \* sockets that are open
  used,        \* sockets so far
  idle,        \* the idle connection: socket, and the timer that ends it; 0 for none
  timers,      \* timers that have fired and wait for the lock, with their socket
  puts,        \* timers so far
  all,         \* tracked sockets
  http,        \* sockets HTTP owns
  closed,
  closing,     \* tracked sockets Close still has to close
  lease        \* per exchange: step, socket, cancelled, state of the closer, outcome

vars == <<open, used, idle, timers, puts, all, http, closed, closing, lease>>

NoIdle == [socket |-> 0, timer |-> 0]
NoLease == [pc |-> "idle", socket |-> 0, cancelled |-> FALSE, closer |-> "none", healthy |-> FALSE]

Init ==
  /\ open = {} /\ used = 0 /\ idle = NoIdle /\ timers = {} /\ puts = 0
  /\ all = {} /\ http = {} /\ closed = FALSE /\ closing = {}
  /\ lease = [x \in Exchanges |-> NoLease]

Become(x, l) == lease' = [lease EXCEPT ![x] = l]

(***************************************************************************)
(* take.                                                                   *)
(***************************************************************************)
TakeIdle(x) ==
  /\ lease[x] = NoLease /\ ~closed /\ idle # NoIdle
  /\ Become(x, [NoLease EXCEPT !.pc = "held", !.socket = idle.socket, !.closer = "armed"])
  /\ idle' = NoIdle
  /\ UNCHANGED <<open, used, timers, puts, all, http, closed, closing>>

\* There is none, or a fresh one is wanted: the dial is outside of the lock.
StartDial(x) ==
  /\ lease[x] = NoLease /\ ~closed
  /\ Become(x, [NoLease EXCEPT !.pc = "dial"])
  /\ UNCHANGED <<open, used, idle, timers, puts, all, http, closed, closing>>

DialFails(x) ==
  /\ lease[x].pc = "dial"
  /\ Become(x, NoLease)
  /\ UNCHANGED <<open, used, idle, timers, puts, all, http, closed, closing>>

\* The client may have been closed meanwhile; then the socket is closed again.
Dialled(x) ==
  /\ lease[x].pc = "dial" /\ used < MaxSockets
  /\ used' = used + 1
  /\ IF closed THEN Become(x, NoLease) /\ UNCHANGED <<open, all>>
     ELSE /\ open' = open \cup {used + 1} /\ all' = all \cup {used + 1}
          /\ Become(x, [lease[x] EXCEPT !.pc = "held", !.socket = used + 1,
                                        !.closer = IF lease[x].cancelled THEN "started" ELSE "armed"])
  /\ UNCHANGED <<idle, timers, puts, http, closed, closing>>

(***************************************************************************)
(* The exchange. Its context ends by itself or with the client.            *)
(***************************************************************************)
Cancelled(l) == [l EXCEPT !.cancelled = TRUE, !.closer = IF @ = "armed" THEN "started" ELSE @]

Cancel(x) ==
  /\ lease[x].pc # "idle" /\ ~lease[x].cancelled
  /\ Become(x, Cancelled(lease[x]))
  /\ UNCHANGED <<open, used, idle, timers, puts, all, http, closed, closing>>

CloserRuns(x) ==
  /\ lease[x].closer = "started"
  /\ open' = open \ {lease[x].socket}
  /\ Become(x, IF lease[x].pc = "idle" THEN NoLease ELSE [lease[x] EXCEPT !.closer = "ran"])
  /\ UNCHANGED <<used, idle, timers, puts, all, http, closed, closing>>

\* Mistake: an answer that arrived is enough to keep the connection.
HealthyAnswer(l, ok) == ok

\* An answer on a socket whose cancellation has not even started.
Healthy(l, ok) == ok /\ l.closer = "armed" /\ ~l.cancelled

\* The answer is read, or not; the closer is stopped if it has not started.
EndExchange(x, ok) ==
  /\ lease[x].pc = "held"
  /\ ok => lease[x].socket \in open
  /\ Become(x, [lease[x] EXCEPT !.pc = "put", !.healthy = Healthy(lease[x], ok),
                                !.closer = IF @ = "armed" THEN "stopped" ELSE @])
  /\ UNCHANGED <<open, used, idle, timers, puts, all, http, closed, closing>>

\* put. A closer that has started may still run after the lease has ended.
Return(x) ==
  LET l == lease[x]
      keep == ~closed /\ l.healthy /\ idle = NoIdle
  IN /\ l.pc = "put" /\ (keep => puts < MaxPuts)
     /\ IF keep THEN /\ idle' = [socket |-> l.socket, timer |-> puts + 1] /\ puts' = puts + 1
                     /\ UNCHANGED <<open, all>>
        ELSE /\ open' = open \ {l.socket} /\ all' = all \ {l.socket}
             /\ UNCHANGED <<idle, puts>>
     /\ Become(x, IF l.closer = "started" THEN [l EXCEPT !.pc = "idle"] ELSE NoLease)
     /\ UNCHANGED <<used, timers, http, closed, closing>>

(***************************************************************************)
(* The idle timer. One that has fired can no longer be stopped.            *)
(***************************************************************************)
TimerFires ==
  /\ idle # NoIdle /\ idle \notin timers
  /\ timers' = timers \cup {idle}
  /\ UNCHANGED <<open, used, idle, puts, all, http, closed, closing, lease>>

TimerRuns(t) ==
  /\ t \in timers
  /\ timers' = timers \ {t}
  /\ IF idle = t
     THEN idle' = NoIdle /\ all' = all \ {t.socket} /\ open' = open \ {t.socket}
     ELSE UNCHANGED <<idle, all, open>>
  /\ UNCHANGED <<used, puts, http, closed, closing, lease>>

(***************************************************************************)
(* Sockets of HTTP, and Close.                                             *)
(***************************************************************************)
Track ==
  /\ used < MaxSockets
  /\ used' = used + 1
  /\ IF closed THEN UNCHANGED <<open, all, http>>
     ELSE /\ open' = open \cup {used + 1} /\ all' = all \cup {used + 1}
          /\ http' = http \cup {used + 1}
  /\ UNCHANGED <<idle, timers, puts, closed, closing, lease>>

HttpCloses(s) ==
  /\ s \in http
  /\ http' = http \ {s} /\ open' = open \ {s} /\ all' = all \ {s}
  /\ UNCHANGED <<used, idle, timers, puts, closed, closing, lease>>

Close ==
  /\ ~closed
  /\ closed' = TRUE
  /\ lease' = [x \in Exchanges |-> IF lease[x].pc = "idle" THEN lease[x] ELSE Cancelled(lease[x])]
  /\ closing' = all /\ all' = {} /\ idle' = NoIdle
  /\ UNCHANGED <<open, used, timers, puts, http>>

CloseSocket(s) ==
  /\ s \in closing
  /\ closing' = closing \ {s} /\ open' = open \ {s}
  /\ UNCHANGED <<used, idle, timers, puts, all, http, closed, lease>>

Next ==
  \/ \E x \in Exchanges :
       \/ TakeIdle(x) \/ StartDial(x) \/ DialFails(x) \/ Dialled(x) \/ Cancel(x) \/ CloserRuns(x)
       \/ \E ok \in BOOLEAN : EndExchange(x, ok)
       \/ Return(x)
  \/ TimerFires \/ \E t \in timers : TimerRuns(t)
  \/ Track \/ \E s \in http : HttpCloses(s)
  \/ Close \/ \E s \in closing : CloseSocket(s)

Spec == Init /\ [][Next]_vars

Holders(s) == {x \in Exchanges : lease[x].pc \in {"held", "put"} /\ lease[x].socket = s}

\* Every socket has one owner, and nobody else closes it: an open socket is
\* leased once, or idle, or HTTP's, or about to be closed; a lease that was
\* not cancelled has an open socket, and an idle one is open, whatever timers
\* and cancellations of earlier leases still run. Close leaves none open.
SocketsAccounted ==
  /\ \A s \in open : \/ s \in closing
                     \/ s \in all /\ (IF idle.socket = s THEN Holders(s) = {} ELSE s \in http \/ Cardinality(Holders(s)) = 1)
  /\ ~closed => /\ \A x \in Exchanges : lease[x].pc = "held" /\ ~lease[x].cancelled => lease[x].socket \in open
                /\ idle # NoIdle => idle.socket \in open
  /\ closed /\ closing = {} => open = {}
=============================================================================
