--------------------------- MODULE MCQueueHealing ---------------------------
(* Two printers of different models and their queues, and the name that a   *)
(* reinstalled driver gives the first one's queue.                          *)
EXTENDS QueueHealing

CONSTANTS kitchen, receipt, XP, XPCopy, TM

TwoNames == [p \in {kitchen, receipt} |-> IF p = kitchen THEN XP ELSE TM]

TwoPorts == [p \in {kitchen, receipt} |-> IF p = kitchen THEN {"USB1", "USB2"}
                                          ELSE {"USB3", "USB4"}]

TwoModels == [p \in {kitchen, receipt} |-> IF p = kitchen THEN "XP-80" ELSE "TM-T20"]

\* Names that differ by a copy suffix are as good as one. The others have a
\* word in common.
Scores == [pair \in {XP, XPCopy, TM} \X {XP, XPCopy, TM} |->
              IF TM \in {pair[1], pair[2]} /\ pair[1] # pair[2] THEN 200 ELSE 850]

NoResemblance == {}
=============================================================================
