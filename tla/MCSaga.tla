------------------------------- MODULE MCSaga -------------------------------
(* Small instances of SagaSystem for TLC.                                  *)
EXTENDS SagaInvariant, TLC

(* Copies of a service whose relay does not run are interchangeable: no    *)
(* definition of the specification singles one out.                        *)
Symmetry ==
  Permutations(OrderProcs \ RelayProcs) \cup Permutations(MarketProcs \ RelayProcs)
=============================================================================
