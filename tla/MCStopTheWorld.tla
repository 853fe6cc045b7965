--------------------------- MODULE MCStopTheWorld ---------------------------
(* StopTheWorld on a few threads. *)
EXTENDS StopTheWorld, TLC

\* Threads are interchangeable; used for the runs without liveness.
ThreadSymmetry == Permutations(Mutators)
=============================================================================
