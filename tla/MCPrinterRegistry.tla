-------------------------- MODULE MCPrinterRegistry --------------------------
(* PrinterRegistry for TLC: three kinds of entry; printers, requests and      *)
(* adapters are interchangeable. Two requests for one printer overlap in      *)
(* behaviours in which the file has loaded, nobody edits it and the disk has  *)
(* room; in the others requests come one at a time. A save is one step, and   *)
(* what matters to it is what the file was before.                            *)
EXTENDS PrinterRegistry, TLC

CONSTANTS p1, p2, a1, a2, a3, r1, r2

\* A printer that is the default, one of which the request does not say whether
\* it is enabled, one without a queue.
ThreeEntries == {[usable |-> TRUE, isDefault |-> TRUE, enabled |-> "yes"],
                 [usable |-> TRUE, isDefault |-> FALSE, enabled |-> "unsaid"],
                 [usable |-> FALSE, isDefault |-> FALSE, enabled |-> "yes"]}

\* The example has every printer.
FullExample == [p \in Printers |-> [usable |-> TRUE, isDefault |-> TRUE, enabled |-> "yes"]]

OneAtATime ==
    edits > 0 \/ loadFailed =>
        /\ Cardinality({r \in Requests : request[r] # NoRequest}) <= 1
        /\ ~overlapped

MCSpec == Init /\ [][Next /\ OneAtATime']_vars

Symmetry == Permutations(Printers) \cup Permutations(Adapters) \cup Permutations(Requests)

=============================================================================
