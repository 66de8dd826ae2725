------------------------------ MODULE MCTunnel ------------------------------
(* Instances of TunnelManagers for TLC.                                     *)
EXTENDS TunnelManagers

CONSTANTS v4, v6, exit, office

\* An exit for one family, and a connection to some networks of both.
MCAllowed ==
  [n \in Nodes |-> [f \in Families |->
     IF n = exit THEN IF f = v4 THEN {"default"} ELSE {} ELSE {"nets"}]]

\* A configuration saved when there was nothing to save yet.
MCImports == {Nothing}
=============================================================================
