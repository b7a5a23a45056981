--------------------------- MODULE MCDhcpSupervisor ---------------------------
(* Small instances of DhcpSupervisor for TLC.                              *)
EXTENDS DhcpSupervisor, TLC

On(t) == [enabled |-> TRUE, topology |-> t]
Off == [enabled |-> FALSE, topology |-> 0]

\* Enable, edit, change the topology at once, disable, enable again.
Edits == <<On(1), On(1), On(2), Off, On(2)>>
==============================================================================
