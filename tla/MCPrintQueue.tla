---------------------------- MODULE MCPrintQueue ----------------------------
(* The print queue and all that is said of it, on small instances: the     *)
(* README tells what each .cfg is for.                                     *)
EXTENDS PrintQueueDispatch, PrintQueueLedger, PrintQueueLive, TLC

\* Keys are only compared.
KeySymmetry == Permutations(Keys)

=============================================================================
