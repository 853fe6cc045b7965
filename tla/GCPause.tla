------------------------------ MODULE GCPause ------------------------------
(***************************************************************************)
(* What the stop-the-world handshake of the binding promises, with no      *)
(* flags, locks or threads of its own.  A pause goes through four phases:  *)
(*                                                                         *)
(*   "mutating"    Julia threads run, park and resume freely;              *)
(*   "blocked"     one thread waits inside mmtk_block_thread_for_gc;       *)
(*   "collecting"  MMTk visits the mutators and collects;                  *)
(*   "done"        the collection is over, the waiting thread may return.  *)
(*                                                                         *)
(* A thread runs Julia code (is in "active") only while the phase is       *)
(* "mutating", and every return from mmtk_block_thread_for_gc follows one  *)
(* collection of its own.  StopTheWorld implements this module.            *)
(***************************************************************************)
CONSTANT Mutators

VARIABLES phase, active

pauseVars == <<phase, active>>

PauseInit == /\ phase = "mutating"
             /\ active = Mutators

\* A thread stops running Julia code: it reached a safepoint or asked for a GC.
Park(m) == /\ phase = "mutating"
           /\ m \in active
           /\ active' = active \ {m}
           /\ UNCHANGED phase

\* A thread goes back to Julia code.
Unpark(m) == /\ phase = "mutating"
             /\ m \notin active
             /\ active' = active \cup {m}
             /\ UNCHANGED phase

Block == /\ phase = "mutating"
         /\ active = {}
         /\ phase' = "blocked"
         /\ UNCHANGED active

Collect == /\ phase = "blocked"
           /\ phase' = "collecting"
           /\ UNCHANGED active

Finish == /\ phase = "collecting"
          /\ phase' = "done"
          /\ UNCHANGED active

Release == /\ phase = "done"
           /\ phase' = "mutating"
           /\ UNCHANGED active

PauseNext == \/ \E m \in Mutators : Park(m) \/ Unpark(m)
             \/ Block
             \/ Collect
             \/ Finish
             \/ Release

PauseSpec == PauseInit /\ [][PauseNext]_pauseVars
=============================================================================
