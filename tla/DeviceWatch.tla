---------------------------- MODULE DeviceWatch ----------------------------
(***************************************************************************)
(* How the service learns of a change to devices and queues: DeviceWatcher *)
(* with its PowerShell child, the reconciliation that it sets off in       *)
(* PrinterManager, the health check that goes on without it, and the look  *)
(* at Windows that all of them share (WindowsPrintSystem.getSnapshot).     *)
(*                                                                         *)
(* Changes are numbered; what is known of Windows is the number of the     *)
(* last change that was seen.                                              *)
(***************************************************************************)
EXTENDS Naturals

CONSTANTS
    MaxDeviceChanges,  \* changes of devices and queues, at most
    MaxChildFailures   \* ends, silences and failed starts of the child, at most

ASSUME WatchAssumption == MaxDeviceChanges \in Nat /\ MaxChildFailures \in Nat

VARIABLES
    device,      \* Windows: changes so far
    known,       \* the last change that the adapters' states show
    snapshot,    \* the last look, while it is fresh: a set of one, or none
    inFlight,    \* the look that is being taken: a set of one, or none
    watcher,     \* the child, and what becomes of it
    event,       \* an event that the child was given and we have not read
    attempts,    \* restartAttempts, at most 4
    restartDue,  \* restartTimer
    silenceDue,  \* silenceTimer
    debounce,    \* debounceTimer
    reconciling, \* reconcile() is on, and where
    queued,      \* reconcileQueued
    checking,    \* a health check is on
    interval,    \* activeHealthInterval, or none: the timer is off
    stopped,     \* PrinterManager.shutdown() was called
    failures,    \* failures of the child so far
    asked,       \* history: the last change when reconcile() was last called
    begun        \* history: the last change when its last pass began

looks  == <<snapshot, inFlight>>
child  == <<watcher, event, attempts, restartDue, silenceDue, failures>>
pass   == <<reconciling, queued, asked, begun>>
checks == <<checking, interval>>
watchVars == <<device, known, looks, child, debounce, pass, checks, stopped>>

\* The child: there is none, it starts, it reports, it says nothing any more
\* though it runs, it was killed and has not ended.
Children == {"none", "starting", "ready", "silent", "killed"}

WatchTypeOK ==
    /\ device \in 0 .. MaxDeviceChanges
    /\ known \in 0 .. MaxDeviceChanges
    /\ snapshot \in SUBSET (0 .. MaxDeviceChanges)
    /\ inFlight \in SUBSET (0 .. MaxDeviceChanges)
    /\ watcher \in Children
    /\ event \in BOOLEAN
    /\ attempts \in 0 .. 4
    /\ restartDue \in BOOLEAN /\ silenceDue \in BOOLEAN /\ debounce \in BOOLEAN
    /\ reconciling \in {"no", "asks", "waits", "looked"}
    /\ queued \in BOOLEAN
    /\ checking \in {"no", "asks", "waits"}
    /\ interval \in {"slow", "fast", "none"}
    /\ stopped \in BOOLEAN
    /\ failures \in 0 .. MaxChildFailures
    /\ asked \in 0 .. MaxDeviceChanges
    /\ begun \in 0 .. MaxDeviceChanges

-----------------------------------------------------------------------------
(* getSnapshot. One adapter stands for all: they share the look. *)

\* The last look is fresh.
Fresh(next, where) ==
    /\ snapshot # {}
    /\ known' \in snapshot
    /\ where' = next
    /\ UNCHANGED looks

\* A caller waits for the look that is being taken, or begins one.
Waits(where) ==
    /\ snapshot = {}
    /\ inFlight' = IF inFlight = {} THEN {device} ELSE inFlight
    /\ where' = "waits"
    /\ UNCHANGED <<known, snapshot>>

\* buildSnapshot() is done, and whoever waited has it.
LookTaken ==
    /\ inFlight # {}
    /\ snapshot' = inFlight
    /\ known' \in inFlight
    /\ inFlight' = {}
    /\ reconciling' = IF reconciling = "waits" THEN "looked" ELSE reconciling
    /\ checking' = IF checking = "waits" THEN "no" ELSE checking
    /\ UNCHANGED <<device, child, debounce, queued, asked, begun, interval, stopped>>

\* SNAPSHOT_TTL_MS pass.
LookExpires ==
    /\ snapshot # {}
    /\ snapshot' = {}
    /\ UNCHANGED <<device, known, inFlight, child, debounce, pass, checks, stopped>>

-----------------------------------------------------------------------------
(* reconcile *)

\* A pass begins: invalidate().
PassBegins ==
    /\ reconciling' = "asks"
    /\ snapshot' = {}
    /\ begun' = device

\* The debounce runs out, and the manager is told of a change.
DebounceEnds ==
    /\ debounce
    /\ debounce' = FALSE
    /\ asked' = device
    /\ \/ reconciling = "no" /\ PassBegins /\ UNCHANGED queued
       \/ reconciling # "no" /\ queued' = TRUE /\ UNCHANGED <<reconciling, snapshot, begun>>
    /\ UNCHANGED <<device, known, inFlight, child, checks, stopped>>

ReconcileAsks ==
    /\ reconciling = "asks"
    /\ Fresh("looked", reconciling) \/ Waits(reconciling)
    /\ UNCHANGED <<device, child, debounce, queued, asked, begun, checks, stopped>>

\* Mutant: what was queued during the pass is taken to be done by it.
NextPassNone ==
    /\ reconciling' = "no"
    /\ UNCHANGED <<snapshot, begun>>

\* What was queued during the pass gets another one.
NextPass ==
    \/ queued /\ PassBegins
    \/ ~queued /\ reconciling' = "no" /\ UNCHANGED <<snapshot, begun>>

ReconcileEnds ==
    /\ reconciling = "looked"
    /\ NextPass
    /\ queued' = FALSE
    /\ UNCHANGED <<device, known, inFlight, child, debounce, asked, checks, stopped>>

-----------------------------------------------------------------------------
(* The health check *)

HealthCheck ==
    /\ interval # "none"
    /\ checking = "no"
    /\ checking' = "asks"
    /\ UNCHANGED <<device, known, looks, child, debounce, pass, interval, stopped>>

CheckAsks ==
    /\ checking = "asks"
    /\ Fresh("no", checking) \/ Waits(checking)
    /\ UNCHANGED <<device, child, debounce, pass, interval, stopped>>

\* Mutant: the timer is stopped for the faster one, which is not started.
FasterNever == "none"

\* setHealthInterval: only if the health check is on.
Faster == IF interval = "none" THEN "none" ELSE "fast"

-----------------------------------------------------------------------------
(* DeviceWatcher *)

\* Mutant: the watcher that keeps failing is left to the health check.
RestartsTwice(count) == ~stopped /\ count < 3

\* After the child's end it is started again, however often it has failed.
Restarts(count) == ~stopped

\* handleExit, so many times: the child's end takes the timers and what was
\* pending with it.  The manager polls faster after the third.
HandleExits(times) ==
    LET count == IF attempts + times < 4 THEN attempts + times ELSE 4
    IN  /\ watcher' = "none"
        /\ event' = FALSE
        /\ silenceDue' = FALSE
        /\ debounce' = FALSE
        /\ attempts' = IF stopped THEN attempts ELSE count
        /\ restartDue' = Restarts(count)
        /\ interval' = IF ~stopped /\ attempts < 3 /\ count >= 3 THEN Faster ELSE interval
        /\ UNCHANGED <<device, known, looks, pass, checking, stopped>>

Fails ==
    /\ failures < MaxChildFailures
    /\ failures' = failures + 1

\* PowerShell ends.
ChildEnds ==
    /\ watcher \in {"starting", "ready", "silent"}
    /\ Fails
    /\ HandleExits(1)

\* It cannot be started: 'error', and then 'close', both count as an exit.
StartFails ==
    /\ watcher = "starting"
    /\ Fails
    /\ HandleExits(2)

\* It runs, and says nothing.
ChildSilent ==
    /\ watcher \in {"starting", "ready"}
    /\ Fails
    /\ watcher' = "silent"
    /\ event' = FALSE
    /\ UNCHANGED <<device, known, looks, attempts, restartDue, silenceDue, debounce,
                   pass, checks, stopped>>

\* A child that was killed has ended.
ChildClosed ==
    /\ watcher = "killed"
    /\ HandleExits(1)
    /\ UNCHANGED failures

Spawn ==
    /\ restartDue
    /\ restartDue' = FALSE
    /\ watcher' = "starting"
    /\ silenceDue' = TRUE
    /\ UNCHANGED <<device, known, looks, event, attempts, failures, debounce, pass, checks,
                   stopped>>

Ready ==
    /\ watcher = "starting"
    /\ watcher' = "ready"
    /\ attempts' = 0
    /\ UNCHANGED <<device, known, looks, event, restartDue, silenceDue, failures, debounce,
                   pass, checks, stopped>>

\* consume(): an event starts the debounce anew. What a killed child had
\* written is still read.
ReadsEvent ==
    /\ event
    /\ event' = FALSE
    /\ silenceDue' = TRUE
    /\ debounce' = TRUE
    /\ UNCHANGED <<device, known, looks, watcher, attempts, restartDue, failures, pass,
                   checks, stopped>>

\* restartNow(): no event and no heartbeat for SILENCE_TIMEOUT_MS.
SilenceEnds ==
    /\ silenceDue
    /\ watcher \in {"silent", "killed", "none"}
    /\ silenceDue' = FALSE
    /\ watcher' = IF watcher = "silent" THEN "killed" ELSE watcher
    /\ UNCHANGED <<device, known, looks, event, attempts, restartDue, failures, debounce,
                   pass, checks, stopped>>

\* shutdown(): the watcher and the health check stop; a pass goes on.
ShutDown ==
    /\ ~stopped
    /\ stopped' = TRUE
    /\ restartDue' = FALSE
    /\ silenceDue' = FALSE
    /\ debounce' = FALSE
    /\ watcher' = IF watcher = "none" THEN "none" ELSE "killed"
    /\ interval' = "none"
    /\ UNCHANGED <<device, known, looks, event, attempts, failures, pass, checking>>

-----------------------------------------------------------------------------

\* A cable, a switch, a queue: Windows tells a child that listens.
DeviceChanges ==
    /\ device < MaxDeviceChanges
    /\ device' = device + 1
    /\ event' = (event \/ watcher = "ready")
    /\ UNCHANGED <<known, looks, watcher, attempts, restartDue, silenceDue, failures,
                   debounce, pass, checks, stopped>>

\* The manager's constructor starts the watcher; connectAll() the health check.
\* Once the manager is shut down neither runs.
WatchBegins(over) ==
    /\ device = 0 /\ known = 0
    /\ snapshot = {} /\ inFlight = {}
    /\ watcher = IF over THEN "none" ELSE "starting"
    /\ event = FALSE
    /\ attempts = 0
    /\ restartDue = FALSE /\ silenceDue = ~over /\ debounce = FALSE
    /\ reconciling = "no" /\ queued = FALSE
    /\ checking = "no"
    /\ interval = IF over THEN "none" ELSE "slow"
    /\ stopped = over
    /\ failures = 0
    /\ asked = 0 /\ begun = 0

WatchInit == WatchBegins(FALSE)

\* What runs of itself: looks, passes, checks.
Manager == ReconcileAsks \/ ReconcileEnds

Checker == HealthCheck \/ CheckAsks

\* What the child and its timers do when nothing fails.
Supervises == ChildClosed \/ Spawn \/ Ready \/ SilenceEnds \/ ReadsEvent \/ DebounceEnds

WatchNext ==
    \/ LookTaken \/ LookExpires
    \/ Manager \/ Checker
    \/ Supervises
    \/ ChildEnds \/ StartFails \/ ChildSilent
    \/ ShutDown
    \/ DeviceChanges

-----------------------------------------------------------------------------
(* Properties *)

\* Every change comes to be seen, whatever becomes of the watcher and of the
\* event: "the manager falls back to faster polling so behaviour degrades
\* rather than breaks".
ChangesSeen == []<>(known = device \/ stopped)

\* A change that is reported while a pass is on gets a pass of its own, and so
\* does one that is reported during that.
PassAfterChange == []<>(begun >= asked)

\* The watcher comes back from every failure, and never after the shutdown.
WatcherSupervised == []<>(watcher = IF stopped THEN "none" ELSE "ready")

\* A pass ends with a look that is not older than the pass.
PassSees == reconciling = "looked" => known >= begun
=============================================================================
