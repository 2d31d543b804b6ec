----------------------------- MODULE MCServices -----------------------------
(* The services that run beside the print queue: backups, health alerts,    *)
(* the watch on devices and updates.  They share no state, so each is       *)
(* explored with the others at rest, which leaves out no behaviour of any.  *)
EXTENDS Backup, ServiceHealth, DeviceWatch, Updates

VARIABLE service  \* the one that is explored

vars == <<service, backupVars, healthVars, watchVars, updateVars>>

Services == {"backup", "health", "watch", "updates"}

Backs(step) ==
    /\ service = "backup" /\ step
    /\ UNCHANGED <<service, healthVars, watchVars, updateVars>>

Judges(step) ==
    /\ service = "health" /\ step
    /\ UNCHANGED <<service, backupVars, watchVars, updateVars>>

Watches(step) ==
    /\ service = "watch" /\ step
    /\ UNCHANGED <<service, backupVars, healthVars, updateVars>>

Updating(step) ==
    /\ service = "updates" /\ step
    /\ UNCHANGED <<service, backupVars, healthVars, watchVars>>

Init ==
    /\ service \in Services
    /\ BackupInit /\ HealthInit /\ WatchBegins(service # "watch")
    /\ service # "health" => \A p \in Stations : shown[p] = "OFFLINE"
    /\ UpdatesInit
    /\ service # "updates" => installKind = "none" /\ \A s \in Sources : announced[s] = 1

Next == Backs(BackupNext) \/ Judges(HealthNext) \/ Watches(WatchNext) \/ Updating(UpdatesNext)

\* The poll's timer and the supervisor's: one of them is on.
Polls == (up /\ PollBegins) \/ ProcessStarts \/ Proceeds("poll")

\* The poll's timer and the supervisor; mongodump and mongorestore end, by
\* timeoutMs if not before, and so do the copies; fetches have a timeout.
BackupFairness ==
    /\ WF_vars(Backs(Polls))
    /\ WF_vars(Backs(Proceeds("order")))

\* The monitor's timer.
HealthFairness == WF_vars(Judges(Sample))

\* Timers, PowerShell's looks, which have a timeout, and a child that starts
\* and ends when it is told to.
WatchFairness ==
    /\ WF_vars(Watches(LookTaken))
    /\ WF_vars(Watches(LookExpires))
    /\ WF_vars(Watches(Manager))
    /\ WF_vars(Watches(Checker))
    /\ WF_vars(Watches(Supervises))

Spec == Init /\ [][Next]_vars /\ BackupFairness /\ HealthFairness /\ WatchFairness

TypeOK == BackupTypeOK /\ HealthTypeOK /\ WatchTypeOK /\ UpdatesTypeOK
=============================================================================
