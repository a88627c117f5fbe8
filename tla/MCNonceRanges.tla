--------------------------- MODULE MCNonceRanges ---------------------------
(* Small instance of NonceRanges for TLC. *)
EXTENDS NonceRanges, TLC

CONSTANTS a1, a2, alice, bob

TwoAddrs  == {a1, a2}
TwoMiners == {alice, bob}
OneEach   == (a1 :> alice) @@ (a2 :> bob)
=============================================================================
