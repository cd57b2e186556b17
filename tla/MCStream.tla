------------------------------ MODULE MCStream ------------------------------
(* Small instances of StreamSystem for TLC.                                *)
EXTENDS StreamSystem

CONSTANT AnOrder

WatchAnOrder == [s \in Streams |-> AnOrder]

(* Bound: a stream that has returned changes no more, and nothing is asked *)
(* of it; what the saga does then is the subject of its own runs.          *)
SomeoneWatches == \E s \in Streams : stream[s].at # "returned"
=============================================================================
