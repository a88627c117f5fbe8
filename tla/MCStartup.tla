----------------------------- MODULE MCStartup -----------------------------
(* Small instance of Startup for TLC. *)
EXTENDS Startup, TLC

CONSTANTS alice, pool_owner, r1, r2

TwoMiners   == {alice, pool_owner}
TwoRequests == {r1, r2}
=============================================================================
