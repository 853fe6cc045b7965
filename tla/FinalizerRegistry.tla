-------------------------- MODULE FinalizerRegistry --------------------------
(***************************************************************************)
(* What the finalizer lists of Julia and the binding promise together, with *)
(* no lists and no loops: a registered finalizer stays registered until a  *)
(* collection does not keep its object, and is then pending until it is    *)
(* run.  None is lost, none becomes pending twice, and none does while its *)
(* object is in use.  Finalizers implements this module.                   *)
(***************************************************************************)
EXTENDS Naturals

CONSTANTS
  Pairs,          \* an object, or a raw pointer, with its finalizer
  Object,         \* the object of each pair
  AtQuiescence    \* the pairs to be run at the next collection

VARIABLES
  registered,  \* how often each pair is registered
  pending,     \* how often each pair waits to be run
  collecting,  \* is a collection under way?
  kept         \* what it keeps because of the roots, or because it is old

NoPairs == [p \in Pairs |-> 0]

RegistryInit == /\ registered = NoPairs
                /\ pending = NoPairs
                /\ collecting = FALSE
                /\ kept = {}

Register(p) == /\ ~collecting
               /\ registered' = [registered EXCEPT ![p] = @ + 1]
               /\ UNCHANGED <<pending, collecting, kept>>

\* finalize(o): the program itself runs all finalizers of an object.
RunNow(o) == /\ ~collecting
             /\ registered' = [p \in Pairs |-> IF Object[p] = o THEN 0 ELSE registered[p]]
             /\ UNCHANGED <<pending, collecting, kept>>

RunPending == /\ ~collecting
              /\ pending' = NoPairs
              /\ UNCHANGED <<registered, collecting, kept>>

StartCollection(objects) == /\ ~collecting
                            /\ collecting' = TRUE
                            /\ kept' = objects
                            /\ UNCHANGED <<registered, pending>>

EndCollection ==
  LET moves(p) == p \in AtQuiescence \/ Object[p] \notin kept
  IN  /\ collecting
      /\ collecting' = FALSE
      /\ kept' = {}
      /\ registered' = [p \in Pairs |-> IF moves(p) THEN 0 ELSE registered[p]]
      /\ pending' = [p \in Pairs |-> IF moves(p) THEN pending[p] + registered[p]
                                                 ELSE pending[p]]

RegistryNext ==
  LET objects == {Object[p] : p \in Pairs}
  IN  \/ \E p \in Pairs : Register(p)
      \/ \E o \in objects : RunNow(o)
      \/ RunPending
      \/ \E kept1 \in SUBSET objects : StartCollection(kept1)
      \/ EndCollection

RegistrySpec == RegistryInit /\ [][RegistryNext]_<<registered, pending, collecting, kept>>
=============================================================================
