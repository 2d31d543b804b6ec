---------------------------- MODULE MCUsbPrinter ----------------------------
(* UsbPrinter for TLC: two who print and nobody else, or one of them and a  *)
(* manager. The proofs take any number of both.                             *)
EXTENDS UsbPrinter, TLC

CONSTANTS c1, c2, m1

\* Who stays away.
Scenes == {{m1}, {c2}}

SceneSpec ==
    /\ \E away \in Scenes : InitWithout(away)
    /\ [][Next]_vars
    /\ Fairness

=============================================================================
