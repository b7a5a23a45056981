---------------------------- MODULE MCLifecycle ----------------------------
(***************************************************************************)
(* Small instances of Lifecycle. The properties of the shared work and of  *)
(* the service look at no state they share, so one of them is explored at  *)
(* a time: part says which. Until a part has started no fair action of it  *)
(* is enabled, so the fairness of one says nothing about the other.        *)
(***************************************************************************)
EXTENDS Lifecycle, TLC

\* One slot of each size, for a worker and a connection that compete for them.
OneOfEach == ("small" :> 1) @@ ("large" :> 1)

VARIABLE part

MCInit ==
  /\ part \in {"flights", "service"}
  /\ Init /\ (part # "flights" => key = [f \in Works |-> CHOOSE k \in Keys : TRUE])
  /\ SL!Init

MCNext ==
  \/ part = "flights" /\ Next /\ UNCHANGED <<part, lifecycle>>
  \/ part = "service" /\ SL!Next /\ UNCHANGED <<part, vars>>

MCSpec ==
  /\ MCInit /\ [][MCNext]_<<part, vars, lifecycle>>
  /\ Fairness /\ SL!Fairness
=============================================================================
