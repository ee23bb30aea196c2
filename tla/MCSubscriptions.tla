--------------------------- MODULE MCSubscriptions ---------------------------
(* One subscription, of whose every charge two transactions are notified.        *)
EXTENDS Subscriptions, TLC

Symmetry == Permutations(Copies) \cup Permutations(Handlers)
==============================================================================
