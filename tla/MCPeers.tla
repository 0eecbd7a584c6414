------------------------------ MODULE MCPeers ------------------------------
(* Two sessions of one agent group that write to another one, and back. *)
EXTENDS Peers
CONSTANTS a1, a2, b1, alpha, beta
GroupDef == [s \in {a1, a2, b1} |-> IF s = b1 THEN beta ELSE alpha]
=============================================================================
