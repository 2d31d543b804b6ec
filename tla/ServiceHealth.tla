--------------------------- MODULE ServiceHealth ---------------------------
(***************************************************************************)
(* What the service says of itself and whom it tells: the printers and the *)
(* queue, counted by getSummary and judged by decideHealth, sampled by     *)
(* HealthMonitor and turned into alerts by HealthAlerter.                  *)
(*                                                                         *)
(* One step is one change of the world or one sample.  Samples are         *)
(* pollIntervalMs apart, so time is counted in them.                       *)
(***************************************************************************)
EXTENDS Naturals, Sequences, FiniteSets

CONSTANTS
    Stations,        \* configured printers
    ConfirmSamples,  \* alerts.confirmSamples
    MinInterval      \* alerts.minIntervalMs, in samples

ASSUME HealthAssumption ==
    /\ IsFiniteSet(Stations)
    /\ ConfirmSamples \in Nat \ {0}
    /\ MinInterval \in Nat

VARIABLES
    shown,        \* the status of each printer's adapter
    enabled,      \* enabled in each printer's configuration
    initializing, \* connectAll() is on
    abandoned,    \* jobs in the dead letter
    oldest,       \* the oldest unfinished job
    confirmed,    \* the status that the alerter believes
    candidate,    \* the one that gathers evidence
    candidateCount,
    sinceAlert,   \* samples since the last alert, at most MinInterval
    told,         \* history: what this process has alerted of last
    heard,        \* history: what the last alert said, whichever process sent it
    recent        \* history: the last verdicts, and which was alerted of

world   == <<shown, enabled, initializing, abandoned, oldest>>
alerter == <<confirmed, candidate, candidateCount, sinceAlert, told, heard, recent>>
healthVars == <<world, alerter>>

\* Statuses that count differently. "MISCONFIGURED" has no adapter at all.
Shown == {"ONLINE", "BUSY", "OFFLINE", "PAPER_OUT", "MISCONFIGURED"}

Ages == {"none", "young", "stalled"}

Verdicts == {"healthy", "degraded"}

HealthTypeOK ==
    /\ shown \in [Stations -> Shown]
    /\ enabled \in [Stations -> BOOLEAN]
    /\ initializing \in BOOLEAN
    /\ abandoned \in BOOLEAN
    /\ oldest \in Ages
    /\ confirmed \in Verdicts \cup {"nothing"}
    /\ candidate \in Verdicts \cup {"nothing"}
    /\ candidateCount \in 0 .. ConfirmSamples
    /\ sinceAlert \in 0 .. MinInterval
    /\ told \in Verdicts \cup {"nothing"}
    /\ heard \in Verdicts \cup {"nothing"}
    /\ recent \in [verdicts : Seq(Verdicts), alert : Verdicts \cup {"nothing"}]

-----------------------------------------------------------------------------
(* getSummary, bucketPrinterStates and decideHealth *)

\* Printers that were switched off are not counted.
Counted(states) == Cardinality({p \in Stations : enabled[p] /\ shown[p] \in states})

\* BUSY counts as a fault: it may be printing, it may be out of paper.
Faults == Counted({"BUSY", "PAPER_OUT", "MISCONFIGURED"})

\* No printer at all is a fault when there are jobs for it, and so is one
\* printer that is not online.
CannotPrint ==
    IF Counted(Shown) = 0 THEN abandoned \/ oldest # "none"
    ELSE Counted({"ONLINE"}) = 0 \/ Faults + Counted({"OFFLINE"}) > 0

Verdict == IF CannotPrint \/ oldest = "stalled" THEN "degraded" ELSE "healthy"

-----------------------------------------------------------------------------
(* HealthAlerter.observe *)

\* Mutant: a sample that agrees leaves the candidate with its evidence.
AgreesQuietly(status) ==
    /\ status = confirmed
    /\ UNCHANGED <<confirmed, candidate, candidateCount>>

\* The first sample is believed and not alerted; one that agrees with what is
\* believed leaves no candidate.
Agrees(status) ==
    /\ status = confirmed
    /\ UNCHANGED confirmed
    /\ candidate' = status
    /\ candidateCount' = ConfirmSamples

First(status) ==
    /\ confirmed = "nothing"
    /\ confirmed' = status
    /\ candidate' = status
    /\ candidateCount' = ConfirmSamples

\* One more sample that is not what is believed.
Gathers(status) ==
    /\ candidate' = status
    /\ candidateCount' = IF status = candidate THEN candidateCount + 1 ELSE 1

\* Mutant: the window is kept by recoveries, too.
LimitedAlways(status) == sinceAlert < MinInterval

\* A recovery is never limited.
Limited(status) == status # "healthy" /\ sinceAlert < MinInterval

\* A sample that is not what is believed: evidence, then belief, then an alert
\* unless there was one a short time ago.
Disagrees(status) ==
    /\ confirmed \notin {status, "nothing"}
    /\ Gathers(status)
    /\ confirmed' = IF candidateCount' < ConfirmSamples THEN confirmed ELSE status

Alerts(status) ==
    /\ confirmed \notin {status, "nothing"}
    /\ candidateCount' >= ConfirmSamples
    /\ ~Limited(status)

\* The verdicts that count, newest first, as many as an alert takes.
Noted(status) ==
    [verdicts |-> SubSeq(<<status>> \o recent.verdicts, 1,
                         IF Len(recent.verdicts) < ConfirmSamples
                         THEN Len(recent.verdicts) + 1 ELSE ConfirmSamples),
     alert    |-> IF Alerts(status) THEN status ELSE "nothing"]

\* tick(): a service that is starting up is not judged.
Sample ==
    /\ \/ /\ initializing
          /\ sinceAlert' = IF sinceAlert < MinInterval THEN sinceAlert + 1 ELSE MinInterval
          /\ recent' = [recent EXCEPT !.alert = "nothing"]
          /\ UNCHANGED <<confirmed, candidate, candidateCount, told, heard>>
       \/ /\ ~initializing
          /\ Agrees(Verdict) \/ First(Verdict) \/ Disagrees(Verdict)
          /\ recent' = Noted(Verdict)
          /\ \/ /\ Alerts(Verdict)
                /\ told' = Verdict /\ heard' = Verdict
                /\ sinceAlert' = IF MinInterval = 0 THEN 0 ELSE 1
             \/ /\ ~Alerts(Verdict)
                /\ sinceAlert' = IF sinceAlert < MinInterval THEN sinceAlert + 1
                                 ELSE MinInterval
                /\ UNCHANGED <<told, heard>>
    /\ UNCHANGED world

-----------------------------------------------------------------------------
(* The world *)

\* An adapter's status changes, by a health check, a print or a repair.
StatusChanges(p) ==
    /\ \E s \in Shown \ {shown[p]} : shown' = [shown EXCEPT ![p] = s]
    /\ UNCHANGED <<enabled, initializing, abandoned, oldest, alerter>>

\* enablePrinter, disablePrinter.
Switches(p) ==
    /\ enabled' = [enabled EXCEPT ![p] = ~@]
    /\ UNCHANGED <<shown, initializing, abandoned, oldest, alerter>>

\* connectAll() begins and ends.
Initializes ==
    /\ initializing' = ~initializing
    /\ UNCHANGED <<shown, enabled, abandoned, oldest, alerter>>

\* Jobs wait, print, and are given up.
QueueChanges ==
    /\ \/ abandoned' = ~abandoned /\ UNCHANGED oldest
       \/ \E a \in Ages \ {oldest} : oldest' = a /\ UNCHANGED abandoned
    /\ UNCHANGED <<shown, enabled, initializing, alerter>>

HealthInit ==
    /\ shown \in [Stations -> {"OFFLINE", "MISCONFIGURED"}]
    /\ enabled = [p \in Stations |-> TRUE]
    /\ initializing = TRUE
    /\ abandoned = FALSE
    /\ oldest = "none"
    /\ confirmed = "nothing"
    /\ candidate = "nothing"
    /\ candidateCount = 0
    /\ sinceAlert = MinInterval
    /\ told = "nothing"
    /\ heard = "nothing"
    /\ recent = [verdicts |-> <<>>, alert |-> "nothing"]

\* The process starts again: what is configured and queued is kept in files,
\* what the alerter believed was in memory.
HealthRestarts ==
    /\ shown' \in [Stations -> {"OFFLINE", "MISCONFIGURED"}]
    /\ initializing' = TRUE
    /\ confirmed' = "nothing"
    /\ candidate' = "nothing"
    /\ candidateCount' = 0
    /\ sinceAlert' = MinInterval
    /\ told' = "nothing"
    /\ recent' = [verdicts |-> <<>>, alert |-> "nothing"]
    /\ UNCHANGED <<enabled, abandoned, oldest, heard>>

HealthNext ==
    \/ Sample
    \/ \E p \in Stations : StatusChanges(p) \/ Switches(p)
    \/ Initializes
    \/ QueueChanges
    \/ HealthRestarts

-----------------------------------------------------------------------------
(* Properties *)

\* "A printer that drops and recovers between two polls never produces an
\* alert": an alert has as many samples in a row behind it as it takes, and
\* flapping, however long, alerts of nothing that did not hold.
AlertsConfirmed ==
    recent.alert # "nothing" =>
        /\ Len(recent.verdicts) = ConfirmSamples
        /\ \A i \in DOMAIN recent.verdicts : recent.verdicts[i] = recent.alert

\* A process that has told of a fault tells when it is over, whatever the rate
\* limit and however often the verdict has changed since: "Someone holding a
\* degraded message needs to know".
ToldOfRecovery ==
    <>[](~initializing /\ Verdict = "healthy") => <>[](told # "degraded")

\* The same of whoever was told, by this process or by one before it: "returning
\* to healthy is always worth sending".
RecoveryAlwaysTold ==
    <>[](~initializing /\ Verdict = "healthy") => <>[](heard # "degraded")

\* A service that calls itself healthy prints at every station that is switched
\* on: "No single failure may be both silent and permanent".
HealthyMeansPrints ==
    ~initializing /\ Verdict = "healthy" =>
        /\ \A p \in Stations : enabled[p] => shown[p] = "ONLINE"
        /\ (\A p \in Stations : ~enabled[p]) => ~abandoned /\ oldest = "none"

\* What a fault that stays should come to: an alert.
LastingFaultTold ==
    <>[](~initializing /\ Verdict = "degraded") => <>[](told = "degraded")
=============================================================================
