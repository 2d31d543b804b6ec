----------------------------- MODULE JobLedger ------------------------------
(***************************************************************************)
(* What the print queue promises of each job, whatever the store, the      *)
(* dispatcher and the process do meanwhile: a job is accepted once, its    *)
(* ticket comes out only while it is in flight and then only once, a       *)
(* cancelled job never comes out, and a job is forgotten only when it is   *)
(* finished.                                                               *)
(***************************************************************************)
EXTENDS Naturals

CONSTANT Jobs

VARIABLES ledger,   \* where each job stands
          paper     \* how many times its ticket came out

States == {"unknown", "waiting", "in_flight", "printed", "done",
           "given_up", "withdrawn", "forgotten"}

TypeOK == /\ ledger \in [Jobs -> States]
          /\ paper \in [Jobs -> 0 .. 1]

Init == /\ ledger = [i \in Jobs |-> "unknown"]
        /\ paper = [i \in Jobs |-> 0]

\* The steps of one job that put nothing on paper.
Silent == {<<"unknown", "waiting">>,        \* accepted
           <<"waiting", "in_flight">>,      \* dispatched
           <<"waiting", "given_up">>,       \* its printer is gone
           <<"waiting", "withdrawn">>,      \* cancelled
           <<"in_flight", "waiting">>,      \* failed, to be retried
           <<"in_flight", "given_up">>,     \* failed for good
           <<"printed", "done">>,           \* its drawer was opened
           <<"given_up", "waiting">>,       \* retried by the operator
           <<"done", "forgotten">>,
           <<"given_up", "forgotten">>,
           <<"withdrawn", "forgotten">>}

\* The steps that print the ticket.
Printing == {<<"in_flight", "printed">>, <<"in_flight", "done">>}

Move(i) == \/ /\ <<ledger[i], ledger'[i]>> \in Silent
              /\ paper'[i] = paper[i]
           \/ /\ <<ledger[i], ledger'[i]>> \in Printing
              /\ paper'[i] = paper[i] + 1

Stay(i) == ledger'[i] = ledger[i] /\ paper'[i] = paper[i]

\* One step of the service may move several jobs: a poll takes a batch.
Next == /\ ledger' \in [Jobs -> States]
        /\ paper' \in [Jobs -> 0 .. 1]
        /\ \A i \in Jobs : Move(i) \/ Stay(i)

Spec == Init /\ [][Next]_<<ledger, paper>>

\* A ticket is on paper exactly when its job says that it printed, and a
\* withdrawn job has none.
PaperMatchesLedger ==
    \A i \in Jobs :
        /\ ledger[i] \in {"printed", "done"} => paper[i] = 1
        /\ ledger[i] \in {"unknown", "waiting", "in_flight", "given_up",
                          "withdrawn"} => paper[i] = 0

=============================================================================
