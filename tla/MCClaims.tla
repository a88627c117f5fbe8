------------------------------ MODULE MCClaims ------------------------------
(* Small instances of Claims for TLC. *)
EXTENDS Claims

CONSTANTS alice, ore, r1, r2

OneUser     == {alice}
OneMint     == {ore}
NoMints     == {}
OneRequest  == {r1}
TwoRequests == {r1, r2}
=============================================================================
