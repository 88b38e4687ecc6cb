------------------------ MODULE MCCheckoutCoordinator -------------------------
(* CheckoutCoordinator for TLC: operations are interchangeable.            *)
EXTENDS CheckoutCoordinator, TLC

Symmetry == Permutations(Op)
================================================================================
