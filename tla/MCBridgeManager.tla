-------------------------- MODULE MCBridgeManager --------------------------
(* The bridge manager and its refinement of BridgeLinks. *)
EXTENDS BridgeManagerRefinement, TLC

Symmetry == Permutations(Keys) \cup Permutations(Clients) \cup Permutations(Goroutines)
               \cup Permutations(Topics)

=============================================================================
