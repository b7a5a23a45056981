----------------------------- MODULE Lifecycle -----------------------------
(***************************************************************************)
(* The work that requests share (Flights) beside the service around it     *)
(* (ServiceLifecycle): listeners, jobs and workers, and the stop that      *)
(* closes the pipeline, and with it the shared work, last. They share no   *)
(* state that their properties look at.                                    *)
(***************************************************************************)
EXTENDS Flights

CONSTANTS Slots, Workers, Connections, MaxConnections, MaxJobs, None

\* Slots come in sizes, so many of each; a worker without one holds none of them.
ASSUME ServiceAssumption ==
  /\ Slots \in [DOMAIN Slots -> Nat] /\ None \notin DOMAIN Slots
  /\ IsFiniteSet(Workers) /\ IsFiniteSet(Connections)

VARIABLES service, ready, stopped, open, free, udp, tcp, http, background, writer,
          queue, worker, conn, request, jobs, hook, goroutine
lifecycle == <<service, ready, stopped, open, free, udp, tcp, http, background, writer,
               queue, worker, conn, request, jobs, hook, goroutine>>

SL == INSTANCE ServiceLifecycle WITH cancelled <- stopped

\* See ServiceLifecycle: whoever still works finds open what it uses.
ResourcesOutliveUsers == SL!ResourcesOutliveUsers

\* See ServiceLifecycle: a stop ends.
StopCompletes == SL!StopCompletes
=============================================================================
