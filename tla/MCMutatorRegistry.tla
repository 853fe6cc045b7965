-------------------------- MODULE MCMutatorRegistry --------------------------
(* Two threads that come and go, with one box to spare, and two visitors.  *)
EXTENDS MutatorRegistry
=============================================================================
