---------------------------- MODULE MCGCTrigger ----------------------------
(* GCTrigger with small sizes: an interval and a limit of a few pages. *)
EXTENDS GCTrigger
=============================================================================
