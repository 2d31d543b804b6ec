-------------------------- MODULE PrintQueueLedger --------------------------
(***************************************************************************)
(* PrintQueue implements JobLedger as long as no failure strikes the       *)
(* process or the database: through retries, cancellations, operator       *)
(* retries, cleanups, clean stops and restarts.                            *)
(***************************************************************************)
EXTENDS PrintQueue

\* Where job i stands, read off the table a restart would find.
Standing(i) ==
    LET status == Durable[i].status
    IN  CASE status = "absent" /\ i \notin forgotten -> "unknown"
          [] status = "absent" /\ i \in forgotten    -> "forgotten"
          [] status \in Waiting                      -> "waiting"
          [] status = "processing" /\ worker[i] = "drawer" -> "printed"
          [] status = "processing" /\ worker[i] # "drawer" -> "in_flight"
          [] status = "completed"                    -> "done"
          [] status = "cancelled"                    -> "withdrawn"
          [] status = "dead_letter"                  -> "given_up"

Ledger == INSTANCE JobLedger
          WITH Jobs   <- Ids,
               ledger <- [i \in Ids |-> Standing(i)],
               paper  <- printed

\* Exactly-once printing, from acceptance to the sweep of the row.
ImplementsLedger == Ledger!Spec

\* What is on paper is what the table says: a job reported as completed came
\* out once, and one that is waiting, given up or cancelled never did.
PaperMatchesStanding == Ledger!PaperMatchesLedger

=============================================================================
