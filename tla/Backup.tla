------------------------------- MODULE Backup -------------------------------
(***************************************************************************)
(* The backups of the POS database: BackupScheduler, which asks the POS    *)
(* for policy and requests, and BackupManager, which dumps the database,   *)
(* copies the dump to every path and prunes there what has expired.        *)
(*                                                                         *)
(* Two may be at work, cut at their awaits: the scheduler's poll and what  *)
(* an operator asked for at the box.  They share the manager's running     *)
(* flag.  The process may end at any point.                                *)
(***************************************************************************)
EXTENDS Naturals, FiniteSets

CONSTANTS
    Dirs,            \* backup paths of the POS that are not inactive
    RetentionDays,   \* backupRetention of each of them
    MaxDays,         \* days that pass
    MaxRequests,     \* "Run Backup Now" on the POS dashboard, at most
    MaxOrders,       \* runs and restores ordered at the box, at most
    BackupFaults,    \* what may go wrong
    MaxBackupFaults  \* at most so many times

FaultKinds == {"pos", "dump", "copy", "end"}

ASSUME BackupAssumption ==
    /\ Dirs # {}
    /\ RetentionDays \in Nat \ {0}
    /\ MaxDays \in Nat /\ MaxRequests \in Nat /\ MaxOrders \in Nat
    /\ BackupFaults \subseteq FaultKinds
    /\ MaxBackupFaults \in Nat

VARIABLES
    clock,      \* two steps a day: the backup hour, and the rest of the day
    request,    \* POS: backupRunRequestedAt, 0 for none so far
    lastBackup, \* POS: lastBackupAt
    up,         \* the process runs
    running,    \* BackupManager.running
    handled,    \* lastHandledRequestKey
    scheduled,  \* lastScheduledYmd
    at,         \* where the poll, and the operator's order, are
    work,       \* their run of the manager
    files,      \* each path's archives
    orders,     \* orders at the box so far
    mishaps,    \* faults so far
    attended    \* history: the last request that came to a report

memoryB == <<running, handled, scheduled>>
posB    == <<request, lastBackup>>
boundsB == <<orders, mishaps>>
backupVars == <<clock, posB, up, memoryB, at, work, files, boundsB, attended>>

Actors == {"poll", "order"}

Never == 2 * (MaxDays + 1)

DayOf(time) == time \div 2

InBackupHour == clock % 2 = 0

\* An archive: when its dump was made, and whether the copy is complete.
Archives == [made : 0 .. Never, whole : BOOLEAN]

\* A run of the manager: the request that it answers or 0, when its dump was
\* made, the paths that are left, the one that it is at, and whether any path
\* has its copy.
NoWork == [answers |-> 0, made |-> Never, left |-> {}, path |-> {}, copied |-> FALSE]

Works == [answers : 0 .. MaxRequests, made : 0 .. Never,
          left : SUBSET Dirs, path : {{}} \cup {{d} : d \in Dirs}, copied : BOOLEAN]

Places == {"idle", "policy", "restore policy", "dump", "copy", "copying", "prune",
           "restore", "report"}

\* Inside the manager, between running = true and the finally.
Inside == {"dump", "copy", "copying", "prune", "restore"}

BackupTypeOK ==
    /\ clock \in 0 .. Never
    /\ request \in 0 .. MaxRequests
    /\ lastBackup \in 0 .. Never
    /\ up \in BOOLEAN
    /\ running \in BOOLEAN
    /\ handled \in 0 .. MaxRequests
    /\ scheduled \in 0 .. MaxDays + 1
    /\ at \in [Actors -> Places]
    /\ work \in [Actors -> Works]
    /\ files \in [Dirs -> SUBSET Archives]
    /\ orders \in 0 .. MaxOrders
    /\ mishaps \in 0 .. MaxBackupFaults
    /\ attended \in 0 .. MaxRequests

-----------------------------------------------------------------------------
(* Steps of a run *)

Mishap(kind) ==
    /\ kind \in BackupFaults
    /\ mishaps < MaxBackupFaults
    /\ mishaps' = mishaps + 1

GoesTo(a, place) == at' = [at EXCEPT ![a] = place]

\* poll(): not while a poll is on, nor while the manager is busy.
PollBegins ==
    /\ at["poll"] = "idle"
    /\ ~running
    /\ GoesTo("poll", "policy")
    /\ UNCHANGED <<clock, posB, up, memoryB, work, files, boundsB, attended>>

\* handleBackupRun and handleBackupRestore: the policy is asked for first.
Order ==
    /\ at["order"] = "idle"
    /\ orders < MaxOrders
    /\ orders' = orders + 1
    /\ \E place \in {"policy", "restore policy"} : GoesTo("order", place)
    /\ UNCHANGED <<clock, posB, up, memoryB, work, files, mishaps, attended>>

\* execute(): the manager begins, or refuses because it is busy. A refusal is
\* reported like any result.
Executes(a, answers) ==
    /\ GoesTo(a, IF running THEN "report" ELSE "dump")
    /\ work' = [work EXCEPT ![a] = [NoWork EXCEPT !.answers = answers]]
    /\ running' = TRUE

Requested == request # 0 /\ request # handled

Due ==
    /\ InBackupHour
    /\ scheduled # DayOf(clock)
    /\ lastBackup # Never => DayOf(lastBackup) # DayOf(clock)

\* poll() has the policy: a request goes first, then the daily run.
PollDecides ==
    /\ at["poll"] = "policy"
    /\ \/ /\ Requested
          /\ handled' = request
          /\ Executes("poll", request)
          /\ UNCHANGED scheduled
       \/ /\ ~Requested /\ Due
          /\ scheduled' = DayOf(clock)
          /\ Executes("poll", 0)
          /\ UNCHANGED handled
       \/ /\ ~Requested /\ ~Due
          /\ GoesTo("poll", "idle")
          /\ UNCHANGED <<memoryB, work>>
    /\ UNCHANGED <<clock, posB, up, files, boundsB, attended>>

\* triggerNow() has the policy.
OrderedRun ==
    /\ at["order"] = "policy"
    /\ Executes("order", 0)
    /\ UNCHANGED <<clock, posB, up, handled, scheduled, files, boundsB, attended>>

\* restore() has the paths: it begins, or it is refused because the manager is
\* busy or the file is none of theirs.
OrderedRestore ==
    /\ at["order"] = "restore policy"
    /\ \/ ~running /\ running' = TRUE /\ GoesTo("order", "restore")
       \/ UNCHANGED running /\ GoesTo("order", "idle")
    /\ UNCHANGED <<clock, posB, up, handled, scheduled, work, files, boundsB, attended>>

\* The process is gone, and with it all that it remembers.
Ends ==
    /\ up' = FALSE
    /\ at' = [a \in Actors |-> "idle"]
    /\ work' = [a \in Actors |-> NoWork]
    /\ running' = FALSE
    /\ handled' = 0
    /\ scheduled' = MaxDays + 1

\* The POS does not answer. A poll tries again, triggerNow() is logged, and
\* nobody catches what handleBackupRestore throws: it ends the process.
PolicyFails(a) ==
    /\ Mishap("pos")
    /\ \/ /\ at[a] = "policy"
          /\ GoesTo(a, "idle")
          /\ UNCHANGED <<up, memoryB, work>>
       \/ at[a] = "restore policy" /\ Ends
    /\ UNCHANGED <<clock, posB, files, orders, attended>>

\* Mutant: the flag is reset where the dump has succeeded.
RunOverBusy(a) ==
    /\ GoesTo(a, "report")
    /\ running' = (work[a].made = Never)
    /\ UNCHANGED <<handled, scheduled>>

\* A run is over: the finally of run(), and the report that execute() makes.
RunOver(a) ==
    /\ GoesTo(a, "report")
    /\ running' = FALSE
    /\ UNCHANGED <<handled, scheduled>>

\* mongodump ends well.
Dumped(a) ==
    /\ at[a] = "dump"
    /\ work' = [work EXCEPT ![a].made = clock, ![a].left = Dirs]
    /\ GoesTo(a, "copy")
    /\ UNCHANGED <<clock, posB, up, memoryB, files, boundsB, attended>>

\* It fails, or is killed after timeoutMs, or cannot be started.
DumpFails(a) ==
    /\ at[a] = "dump"
    /\ Mishap("dump")
    /\ RunOver(a)
    /\ UNCHANGED <<clock, posB, up, work, files, orders, attended>>

Copy(a, whole) == [made |-> work[a].made, whole |-> whole]

\* copyFile() writes under the name that the copy is to have. The paths are
\* taken in the order of the policy.
CopyBegins(a, d) ==
    /\ at[a] = "copy"
    /\ work[a].left # {}
    /\ d = CHOOSE e \in work[a].left : TRUE
    /\ files' = [files EXCEPT ![d] = @ \cup {Copy(a, FALSE)}]
    /\ work' = [work EXCEPT ![a].left = @ \ {d}, ![a].path = {d}]
    /\ GoesTo(a, "copying")
    /\ UNCHANGED <<clock, posB, up, memoryB, boundsB, attended>>

\* Expired: what was made before the retention's days.
Expired(d) ==
    {f \in files[d] : f.made + 2 * RetentionDays < clock}

\* Mutant: the path is cleared of what has expired though its copy failed.
PrunesAnyway(d, kept) == files' = [files EXCEPT ![d] = kept \ Expired(d)]

\* The path that is being copied to has its copy, or is left without.
Settles(d, kept) == files' = [files EXCEPT ![d] = kept]

\* The copy is complete.
Copied(a, d) ==
    /\ at[a] = "copying"
    /\ d \in work[a].path
    /\ work' = [work EXCEPT ![a].copied = TRUE]
    /\ Settles(d, (files[d] \ {Copy(a, FALSE)}) \cup {Copy(a, TRUE)})
    /\ GoesTo(a, "prune")
    /\ UNCHANGED <<clock, posB, up, memoryB, boundsB, attended>>

\* A full disk, a drive that is gone: this path is reported, the others go on.
CopyFails(a, d) ==
    /\ at[a] = "copying"
    /\ d \in work[a].path
    /\ Mishap("copy")
    /\ Settles(d, files[d] \ {Copy(a, FALSE)})
    /\ GoesTo(a, "copy")
    /\ UNCHANGED <<clock, posB, up, memoryB, work, orders, attended>>

\* prune() removes what has expired from the path, one file after the other.
Prunes(a, d) ==
    /\ at[a] = "prune"
    /\ d \in work[a].path
    /\ \/ /\ Expired(d) # {}
          /\ \E f \in Expired(d) : files' = [files EXCEPT ![d] = @ \ {f}]
          /\ UNCHANGED at
       \/ /\ Expired(d) = {}
          /\ GoesTo(a, "copy")
          /\ UNCHANGED files
    /\ UNCHANGED <<clock, posB, up, memoryB, work, boundsB, attended>>

AllCopied(a) ==
    /\ at[a] = "copy"
    /\ work[a].left = {}
    /\ RunOver(a)
    /\ UNCHANGED <<clock, posB, up, work, files, boundsB, attended>>

\* report(): a report that the POS does not get is not repeated. The POS is
\* taken to note when a run with a copy began.
Report(a) ==
    /\ at[a] = "report"
    /\ GoesTo(a, "idle")
    /\ work' = [work EXCEPT ![a] = NoWork]
    /\ attended' = IF work[a].answers > attended THEN work[a].answers ELSE attended
    /\ \/ /\ lastBackup' = IF work[a].copied THEN work[a].made ELSE lastBackup
          /\ UNCHANGED mishaps
       \/ Mishap("pos") /\ UNCHANGED lastBackup
    /\ UNCHANGED <<clock, request, up, memoryB, files, orders>>

\* mongorestore ends, well or not, or is killed after timeoutMs.
Restored ==
    /\ at["order"] = "restore"
    /\ GoesTo("order", "idle")
    /\ running' = FALSE
    /\ UNCHANGED <<clock, posB, up, handled, scheduled, work, files, boundsB, attended>>

-----------------------------------------------------------------------------
(* Outside *)

\* "Run Backup Now".
PosRequests ==
    /\ request < MaxRequests
    /\ request' = request + 1
    /\ UNCHANGED <<clock, lastBackup, up, memoryB, at, work, files, boundsB, attended>>

\* Time passes; the runs that are on do not take a day.
TimePasses ==
    /\ clock < 2 * MaxDays
    /\ \A a \in Actors : work[a].made \in {clock, Never}
    /\ clock' = clock + 1
    /\ UNCHANGED <<posB, up, memoryB, at, work, files, boundsB, attended>>

\* The process ends, for whatever reason. A copy stays as far as it got.
ProcessEnds ==
    /\ up
    /\ Mishap("end")
    /\ Ends
    /\ UNCHANGED <<clock, posB, files, orders, attended>>

ProcessStarts ==
    /\ ~up
    /\ up' = TRUE
    /\ UNCHANGED <<clock, posB, memoryB, at, work, files, boundsB, attended>>

BackupInit ==
    /\ clock = 0
    /\ request = 0
    /\ lastBackup = Never
    /\ up = TRUE
    /\ running = FALSE
    /\ handled = 0
    /\ scheduled = MaxDays + 1
    /\ at = [a \in Actors |-> "idle"]
    /\ work = [a \in Actors |-> NoWork]
    /\ files = [d \in Dirs |-> {}]
    /\ orders = 0
    /\ mishaps = 0
    /\ attended = 0

\* One is at its next await.
Proceeds(a) ==
    /\ up
    /\ \/ a = "poll" /\ PollDecides
       \/ a = "order" /\ (OrderedRun \/ OrderedRestore \/ Restored)
       \/ PolicyFails(a)
       \/ Dumped(a) \/ DumpFails(a)
       \/ AllCopied(a)
       \/ Report(a)
       \/ \E d \in Dirs : CopyBegins(a, d) \/ Copied(a, d) \/ CopyFails(a, d) \/ Prunes(a, d)

BackupNext ==
    \/ up /\ (PollBegins \/ Order)
    \/ \E a \in Actors : Proceeds(a)
    \/ PosRequests
    \/ TimePasses
    \/ ProcessEnds
    \/ ProcessStarts

-----------------------------------------------------------------------------
(* Properties *)

HasWhole(archives) == \E f \in archives : f.whole

\* A path that has a complete backup keeps one: whatever fails, expires or is
\* cut short, the last good archive of a path is never the one that goes.
BackupsKept == [][\A d \in Dirs : HasWhole(files[d]) => HasWhole(files'[d])]_backupVars

\* A "Run Backup Now" of the POS comes to a report, whatever failed before it
\* and whatever the operator does at the box: no failure leaves the scheduler
\* or the manager busy for good.
RequestsAttended == []<>(attended = request)
=============================================================================
