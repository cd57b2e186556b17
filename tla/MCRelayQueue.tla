---------------------------- MODULE MCRelayQueue ----------------------------
(* A small instance of RelayQueue for TLC.                                 *)
EXTENDS RelayQueue

CONSTANTS r1, r2, r3, relay1, relay2
=============================================================================
