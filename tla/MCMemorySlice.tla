---------------------------- MODULE MCMemorySlice ----------------------------
(* A small memory, in which every pair of slices is copied, repeatedly. *)
EXTENDS MemorySlice
=============================================================================
