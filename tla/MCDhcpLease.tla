----------------------------- MODULE MCDhcpLease -----------------------------
(* Small instances of DhcpLease for TLC.                                   *)
EXTENDS DhcpLease, TLC

CONSTANTS c1, c2

MCAddrs == {1, 2}
MCAddrs1 == {1}   \* address 2 is off the link
NoReservation == [i \in Ids |-> NoAddr]

Plain(lease) == [pool |-> Subnet, usable |-> Subnet, res |-> NoReservation,
                 cap |-> Cardinality(Subnet), lease |-> lease]

\* The second generation shortens the lease.
Shortening == <<Plain(2), Plain(1)>>

\* The second generation moves the pool, and with it every client, to address 2.
Moving == <<[Plain(3) EXCEPT !.pool = {1}], [Plain(1) EXCEPT !.pool = {2}]>>

\* The second generation shrinks the pool to address 2 and reserves it for c1.
ReserveMove == <<Plain(3), [Plain(1) EXCEPT !.pool = {2}, !.res[c1] = 2]>>

Clients == Permutations(Ids)
==============================================================================
