----------------------------- MODULE MCLifecycle -----------------------------
(* Small instances of ServiceLifecycle for TLC.                            *)
EXTENDS ServiceLifecycle
=============================================================================
