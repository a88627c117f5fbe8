--------------------------- MODULE MCMineSuccess ---------------------------
(* Small instances of MineSuccess for TLC. *)
EXTENDS MineSuccess, TLC

CONSTANTS alice, bob, n1, n2

TwoMiners == {alice, bob}
TwoNonces == {n1, n2}

\* Both miners, with either as the better one, or only one of them.
Sub(diff, nonce)  == [diff |-> diff, nonce |-> nonce]
ThreeRosters ==
    { (alice :> Sub(12, n1)) @@ (bob :> Sub(13, n2)),
      (alice :> Sub(13, n2)) @@ (bob :> Sub(12, n1)),
      (alice :> Sub(12, n2)) @@ (bob :> None) }
=============================================================================
