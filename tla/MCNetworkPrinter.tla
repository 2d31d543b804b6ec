-------------------------- MODULE MCNetworkPrinter --------------------------
(* NetworkPrinter with its clients as model values. *)
EXTENDS NetworkPrinter, TLC

CONSTANTS c1, c2

\* A job worker and the drawer button do the same things to the adapter.
ClientSymmetry == Permutations({c1, c2})

=============================================================================
