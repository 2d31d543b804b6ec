--------------------------- MODULE PrintQueueLive ---------------------------
(***************************************************************************)
(* What the print queue must eventually do.                                *)
(***************************************************************************)
EXTENDS PrintQueue

CONSTANT Wedged     \* printers whose adapter never answers

ASSUME WedgedAssumption == Wedged \subseteq Printers

\* The poll timer and the retry delays run for as long as the process does,
\* the adapters answer or time out, and the supervisor restarts a process
\* that has exited.  Nothing makes a client, an operator or a fault act.
Fairness ==
    /\ WF_vars(Poll)
    /\ WF_vars(Save)
    /\ WF_vars(Start)
    /\ WF_vars(Die)
    /\ WF_vars(StopProcessor)
    /\ WF_vars(Close)
    /\ \A i \in Ids :
          /\ WF_vars(RetryDue(i))
          /\ WF_vars(job[i] # NoJob /\ job[i].printer \notin Wedged
                        /\ Worker(i))

FairSpec == Spec /\ Fairness

\* Every job the service has, or will load at its next start, is settled in
\* the end: printed, cancelled or given up; a wedged printer delays only its
\* own jobs.
JobsSettle ==
    \A i \in Ids :
        (Durable[i].status \in Unfinished /\ job[i].printer \notin Wedged)
            ~> (Durable[i].status \notin Unfinished)

=============================================================================
