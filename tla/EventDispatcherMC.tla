------------------------- MODULE EventDispatcherMC --------------------------
(***************************************************************************)
(* Values for the model checker: dispatchers are alike, and so are the     *)
(* streams that stay.                                                      *)
(***************************************************************************)
EXTENDS EventDispatcher, TLC

Symmetry == Permutations(Dispatchers) \cup Permutations(Streams \ Closing)
=============================================================================
