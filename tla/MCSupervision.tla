--------------------------- MODULE MCSupervision ---------------------------
(* Supervision with its PIDs as model values. *)
EXTENDS Supervision, TLC

CONSTANTS s1, s2, s3

=============================================================================
