--------------------------- MODULE MCConnections ---------------------------
(* Small instance of Connections for TLC. *)
EXTENDS Connections, TLC

CONSTANTS c1, c2, c3, a1, a2, none

One        == {c1}
ThreeConns == {c1, c2, c3}
TwoAddrs   == {a1, a2}

\* c1 and c2 come from one address, one after the other.
Sources == (c1 :> a1) @@ (c2 :> a1) @@ (c3 :> a2)
=============================================================================
