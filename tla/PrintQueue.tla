----------------------------- MODULE PrintQueue -----------------------------
(***************************************************************************)
(* The print queue of the service: JobStore (a SQLite database held in     *)
(* memory and written to one file), JobQueue (admission, dispatch, retry), *)
(* JobProcessor (one worker per job in flight) and the life of the process *)
(* that holds them (start, drain, stop, and the ways it can end early).    *)
(*                                                                         *)
(* One JavaScript turn is one step: code between two awaits runs without   *)
(* interleaving, so a handler is cut only at its awaits.  A worker awaits  *)
(* the printer's status, then the print, then (on some printers) the cash  *)
(* drawer pulse.                                                           *)
(***************************************************************************)
EXTENDS Naturals, FiniteSets

CONSTANTS
    MaxJobs,            \* bound: jobs created in one behaviour
    Keys,               \* idempotency keys
    Printers,           \* printer ids
    DrawerPrinters,     \* printers whose receipts also pulse a cash drawer
    Priorities,         \* JobPriority, a set of naturals
    MaxConcurrentJobs,  \* ProcessorConfig.maxConcurrentJobs
    MaxRetries,         \* QueueConfig.maxRetries, a job's max_attempts
    MaxQueueDepth,      \* QueueConfig.maxQueueDepth, 0 switches it off
    MaxTerminalRows,    \* MAX_TERMINAL_ROWS
    Ops,                \* the operator's operations that are enabled
    Faults,             \* the kinds of failure that may strike
    MaxFaults,          \* bound: failures in one behaviour
    SlowRestarts        \* every restart comes over a minute after the exit

OpKinds == {"cancel", "retry", "clear", "cleanup", "pause", "printers",
            "test", "stop"}

FaultKinds == {"kill",       \* power cut or TerminateProcess, at any point
               "exception",  \* uncaughtException: flush, then exit in 1s
               "overrun",    \* a drain that outlasts its time limit
               "wasm",       \* sql.js dies, the database is read back
               "corrupt",    \* the file does not load at the next start
               "diskfull",   \* the last save of a clean shutdown fails
               "ambiguous"}  \* a print reported as failed did come out

ASSUME QueueAssumption ==
    /\ MaxJobs \in Nat
    /\ Priorities \subseteq Nat
    /\ DrawerPrinters \subseteq Printers
    /\ MaxConcurrentJobs \in Nat
    /\ MaxRetries \in Nat
    /\ MaxQueueDepth \in Nat
    /\ MaxTerminalRows \in Nat
    /\ Ops \subseteq OpKinds
    /\ Faults \subseteq FaultKinds
    /\ MaxFaults \in Nat
    /\ SlowRestarts \in BOOLEAN

VARIABLES
    job,            \* columns no statement ever updates: key, printer, priority
    db,             \* the jobs table in memory, by id
    disk,           \* the jobs table in the file
    dirty,          \* JobStore.dirty
    phase,          \* where the process is in its life
    paused,         \* JobQueue.paused
    processingJobs, \* JobQueue.processingJobs
    active,         \* the ids JobProcessor.activeJobs holds
    worker,         \* the await at which each job's processJob is suspended
    aborted,        \* jobs whose AbortController fired before their print
    cached,         \* jobs handed out with raw_commands already rendered
    due,            \* retry_scheduled rows whose scheduled_at has passed
    registered,     \* printers PrinterManager knows
    printed,        \* ghost: times a job's ticket came out, 2 means "again"
    withdrawn,      \* ghost: jobs whose cancellation was confirmed
    forgotten,      \* ghost: finished jobs whose row was deleted on purpose
    faults          \* failures so far

storeVars   == <<db, disk, dirty, due>>
workerVars  == <<processingJobs, active, worker, aborted, cached>>
ghostVars   == <<withdrawn, forgotten>>
vars == <<job, storeVars, phase, paused, workerVars, registered, printed,
          ghostVars, faults>>

-----------------------------------------------------------------------------
(* Rows and jobs *)

Ids == 1 .. MaxJobs     \* in order of created_at

Waiting  == {"pending", "retry_scheduled"}
Terminal == {"completed", "cancelled", "dead_letter"}
Unfinished == Waiting \cup {"processing"}

\* payload: the row still holds what was asked for, not '{}'.
\* blob: raw_commands holds the rendered ticket.
Row == [status : Unfinished \cup Terminal, attempts : Nat,
        payload : BOOLEAN, blob : BOOLEAN]

NoRow == [status |-> "absent", attempts |-> 0,
          payload |-> FALSE, blob |-> FALSE]

NoJob == [key |-> "none"]

Table == [Ids -> Row \cup {NoRow}]

EmptyTable == [i \in Ids |-> NoRow]

Present(t) == {i \in Ids : t[i] # NoRow}
InStatus(t, statuses) == {i \in Ids : t[i].status \in statuses}

Created == {i \in Ids : job[i] # NoJob}

\* The process exists; it answers requests; it polls.
Alive     == phase # "down"
Accepting == phase \in {"up", "dying", "draining"}
Running   == phase \in {"up", "dying", "draining"}

\* Rows of a table after an UPDATE ... WHERE id IN S: a missing row stays so.
Updated(t, S, NewRow(_)) ==
    [i \in Ids |-> IF i \in S \cap Present(t) THEN NewRow(t[i]) ELSE t[i]]

NewPending(r)   == [r EXCEPT !.status = "pending"]

NewProcessing(r) == [r EXCEPT !.status = "processing"]
NewCancelled(r) == [r EXCEPT !.status = "cancelled", !.payload = FALSE,
                             !.blob = FALSE]
NewCompleted(r) == [r EXCEPT !.status = "completed", !.payload = FALSE,
                             !.blob = FALSE]
NewRetried(r)   == [r EXCEPT !.status = "pending", !.attempts = 0]
Recovered(r)    == [r EXCEPT !.status = "retry_scheduled"]
Rendered(r)     == [r EXCEPT !.blob = r.status \notin Terminal]

\* Mutant: giving up clears the payload as completing does.
FailedDroppingPayload(r, retryable) ==
    LET attempts == r.attempts + 1
    IN  IF retryable /\ attempts < MaxRetries
        THEN [r EXCEPT !.status = "retry_scheduled", !.attempts = attempts]
        ELSE [r EXCEPT !.status = "dead_letter", !.attempts = attempts,
                       !.payload = FALSE, !.blob = FALSE]

Failed(r, retryable) ==
    LET attempts == r.attempts + 1
    IN  IF retryable /\ attempts < MaxRetries
        THEN [r EXCEPT !.status = "retry_scheduled", !.attempts = attempts]
        ELSE [r EXCEPT !.status = "dead_letter", !.attempts = attempts,
                       !.blob = FALSE]

NewRefused(r) == Failed(r, FALSE)

\* Mutant: a statement forgets markDirty.
WriteUnmarked(t) ==
    /\ db' = t
    /\ UNCHANGED <<dirty, disk>>

\* The statements every mutation shares: the new table, marked dirty.
Write(t) ==
    /\ db' = t
    /\ dirty' = TRUE
    /\ UNCHANGED disk

Delete(t, S) == [i \in Ids |-> IF i \in S THEN NoRow ELSE t[i]]

-----------------------------------------------------------------------------
(* The client's and the operator's operations (JobQueue) *)

\* Mutant: a key is free again once its job is finished.
KeyInUse(k) == \E i \in InStatus(db, Unfinished) : job[i].key = k

KeyTaken(k) == \E i \in Present(db) : job[i].key = k

\* Mutant: jobs in flight are not counted.
WaitingCount == Cardinality(InStatus(db, Waiting))

UnfinishedCount == Cardinality(InStatus(db, Unfinished))

BelowCeiling == MaxQueueDepth = 0 \/ UnfinishedCount < MaxQueueDepth

NewRow == [status |-> "pending", attempts |-> 0, payload |-> TRUE,
           blob |-> FALSE]

\* The INSERT.  A key already on a row returns that row and changes nothing.
CreateJob(k, p, prio) ==
    /\ ~KeyTaken(k)
    /\ \E i \in Ids \ Created :
          /\ \A j \in Ids : j < i => j \in Created
          /\ job' = [job EXCEPT ![i] = [key |-> k, printer |-> p,
                                        priority |-> prio]]
          /\ Write([db EXCEPT ![i] = NewRow])
    /\ UNCHANGED <<phase, paused, workerVars, due, registered, printed,
                   ghostVars, faults>>

\* POST /print, for a printer the registry knows.
Enqueue(k, p, prio) ==
    /\ Accepting
    /\ p \in registered
    /\ BelowCeiling
    /\ CreateJob(k, p, prio)

\* POST /printers/:id/test: no ceiling, no check that the printer exists.
CreateTestJob(k, p, prio) ==
    /\ "test" \in Ops
    /\ Accepting
    /\ \A q \in Priorities : q <= prio
    /\ CreateJob(k, p, prio)

\* Mutant: a job in flight may be cancelled too.
CancellableUnfinished(i) == db[i].status \in Unfinished

Cancellable(i) == db[i].status \in Waiting

Cancel(i) ==
    /\ "cancel" \in Ops
    /\ Accepting
    /\ Cancellable(i)
    /\ Write(Updated(db, {i}, NewCancelled))
    /\ withdrawn' = withdrawn \cup {i}
    /\ due' = due \ {i}
    /\ UNCHANGED <<job, phase, paused, workerVars, registered, printed,
                   forgotten, faults>>

\* Mutant: a completed job may be retried too.
RetryableTerminal(i) == db[i].status \in {"dead_letter", "completed"}

Retryable(i) == db[i].status = "dead_letter"

RetryJob(i) ==
    /\ "retry" \in Ops
    /\ Accepting
    /\ Retryable(i)
    /\ Write(Updated(db, {i}, NewRetried))
    /\ UNCHANGED <<job, phase, paused, workerVars, due, registered, printed,
                   ghostVars, faults>>

ClearFailedJobs ==
    /\ "clear" \in Ops
    /\ Accepting
    /\ LET failed == InStatus(db, {"dead_letter"})
       IN  /\ failed # {}
           /\ Write(Delete(db, failed))
           /\ forgotten' = forgotten \cup failed
    /\ UNCHANGED <<job, phase, paused, workerVars, due, registered, printed,
                   withdrawn, faults>>

\* Mutant: the age of a row alone decides.
SweepsByAge(t) == SUBSET Present(t)

\* What one cleanup of table t may delete: the terminal rows past
\* maxJobAgeMs, then the oldest beyond MAX_TERMINAL_ROWS.
Sweeps(t) ==
    LET finished == InStatus(t, Terminal)
    IN  {S \in SUBSET finished :
            Cardinality(finished \ S) <= MaxTerminalRows}

Cleanup ==
    /\ "cleanup" \in Ops
    /\ Alive
    /\ \E S \in Sweeps(db) :
          /\ Write(Delete(db, S))
          /\ forgotten' = forgotten \cup (S \cap InStatus(db, Terminal))
    /\ UNCHANGED <<job, phase, paused, workerVars, due, registered, printed,
                   withdrawn, faults>>

Pause ==
    /\ "pause" \in Ops
    /\ Accepting
    /\ paused' = TRUE
    /\ UNCHANGED <<job, storeVars, phase, workerVars, registered, printed,
                   ghostVars, faults>>

Resume ==
    /\ "pause" \in Ops
    /\ Accepting
    /\ paused' = FALSE
    /\ UNCHANGED <<job, storeVars, phase, workerVars, registered, printed,
                   ghostVars, faults>>

\* A printer is added to or removed from the registry.
ChangePrinter(p) ==
    /\ "printers" \in Ops
    /\ Accepting
    /\ registered' = IF p \in registered THEN registered \ {p}
                     ELSE registered \cup {p}
    /\ UNCHANGED <<job, storeVars, phase, paused, workerVars, printed,
                   ghostVars, faults>>

-----------------------------------------------------------------------------
(* Dispatch (JobProcessor.poll, JobQueue.dequeueBatch, JobStore.getPending) *)

FreeSlots == MaxConcurrentJobs - Cardinality(active)

BusyPrinters == {job[i].printer : i \in active}

Ready(i) == \/ db[i].status = "pending"
            \/ db[i].status = "retry_scheduled" /\ i \in due

\* ORDER BY priority DESC, created_at ASC
Precedes(i, j) == \/ job[i].priority > job[j].priority
                  \/ job[i].priority = job[j].priority /\ i < j

Candidates == {i \in Ids : /\ Ready(i)
                           /\ i \notin processingJobs
                           /\ job[i].printer \notin BusyPrinters}

\* Mutant: the batch does not make its own printers busy.
HeadsUnfiltered == Candidates

\* The busy set grows as the batch fills: of one printer, only its first.
Heads == {i \in Candidates :
             \A j \in Candidates \ {i} :
                job[j].printer = job[i].printer => Precedes(i, j)}

Batch == {i \in Heads :
             Cardinality({j \in Heads : Precedes(j, i)}) < FreeSlots}

\* poll: take a batch and start its workers.  A worker runs up to its first
\* await; with an unknown printer it throws before it, and the job has failed
\* for good when poll returns.
Poll ==
    /\ Running
    /\ ~paused
    /\ MaxConcurrentJobs > Cardinality(active)
    /\ LET batch   == Batch
           started == {i \in batch : job[i].printer \in registered}
           refused == batch \ started
       IN  /\ batch # {}
           /\ Write(Updated(Updated(db, started, NewProcessing),
                            refused, NewRefused))
           /\ processingJobs' = processingJobs \cup started
           /\ active' = active \cup started
           /\ worker' = [i \in Ids |-> IF i \in started THEN "status"
                                       ELSE worker[i]]
           /\ cached' = cached \cup {i \in started : db[i].blob}
           /\ due' = due \ batch
    /\ UNCHANGED <<job, phase, paused, aborted, registered, printed,
                   ghostVars, faults>>

\* The scheduled_at of a row passes.
RetryDue(i) ==
    /\ Running
    /\ db[i].status = "retry_scheduled"
    /\ due' = due \cup {i}
    /\ UNCHANGED <<job, db, disk, dirty, phase, paused, workerVars,
                   registered, printed, ghostVars, faults>>

-----------------------------------------------------------------------------
(* One worker (JobProcessor.processJob) *)

\* The end of every worker: queue.complete or queue.fail, then the finally.
Leave(i) ==
    /\ processingJobs' = processingJobs \ {i}
    /\ active' = active \ {i}
    /\ worker' = [worker EXCEPT ![i] = "idle"]
    /\ aborted' = aborted \ {i}
    /\ cached' = cached \ {i}

\* queue.fail on table t: nothing to update when the row is gone.
Fail(i, t, retryable) ==
    /\ Write([j \in Ids |-> IF j = i /\ j \in Present(t)
                            THEN Failed(t[j], retryable) ELSE t[j]])
    /\ due' = due \ {i}
    /\ Leave(i)

\* jobTimeoutMs passes.  The flag is read once, just before the print.
JobTimeout(i) ==
    /\ Alive
    /\ worker[i] = "status"
    /\ aborted' = aborted \cup {i}
    /\ UNCHANGED <<job, storeVars, phase, paused, processingJobs, active,
                   worker, cached, registered, printed, ghostVars, faults>>

\* The status is OFFLINE, or asking for it failed.
StatusFails(i) ==
    /\ worker[i] = "status"
    /\ Fail(i, db, TRUE)
    /\ UNCHANGED <<job, phase, paused, registered, printed, ghostVars, faults>>

\* The template rejects the payload; a cached rendering is not rendered again.
RenderFails(i) ==
    /\ worker[i] = "status"
    /\ i \notin cached
    /\ \E retryable \in BOOLEAN : Fail(i, db, retryable)
    /\ UNCHANGED <<job, phase, paused, registered, printed, ghostVars, faults>>

\* The table once the ticket is rendered and stored (setRawCommands).
WithRendering(i) ==
    IF i \in cached THEN db ELSE Updated(db, {i}, Rendered)

\* Rendered, and then: aborted, or the printer is gone, or on to the print.
AbortedBeforePrint(i) ==
    /\ worker[i] = "status"
    /\ i \in aborted
    /\ Fail(i, WithRendering(i), TRUE)
    /\ UNCHANGED <<job, phase, paused, registered, printed, ghostVars, faults>>

PrinterGone(i) ==
    /\ worker[i] = "status"
    /\ i \notin aborted
    /\ job[i].printer \notin registered
    /\ Fail(i, WithRendering(i), FALSE)
    /\ UNCHANGED <<job, phase, paused, registered, printed, ghostVars, faults>>

SendToPrinter(i) ==
    /\ worker[i] = "status"
    /\ i \notin aborted
    /\ job[i].printer \in registered
    /\ db' = WithRendering(i)
    /\ dirty' = (dirty \/ i \notin cached)
    /\ worker' = [worker EXCEPT ![i] = "print"]
    /\ cached' = cached \ {i}
    /\ UNCHANGED <<job, disk, due, phase, paused, processingJobs, active,
                   aborted, registered, printed, ghostVars, faults>>

\* The ticket of job i came out once more.
CameOut(S) == [i \in Ids |-> IF i \in S /\ printed[i] < 2 THEN printed[i] + 1
                             ELSE printed[i]]

\* queue.complete
Complete(i) ==
    /\ Write(Updated(db, {i}, NewCompleted))
    /\ due' = due \ {i}
    /\ Leave(i)

\* Mutant: printResult.success is not looked at.
PrintFailsUnnoticed(i) ==
    /\ worker[i] = "print"
    /\ Complete(i)
    /\ UNCHANGED <<job, phase, paused, registered, printed, ghostVars, faults>>

\* An error of the print is retried unless its wording says that it is no use:
\* that of the manager, whose printer is gone by now, or of the driver.
PrintFails(i) ==
    /\ worker[i] = "print"
    /\ \E retryable \in BOOLEAN : Fail(i, db, retryable)
    /\ \/ UNCHANGED <<printed, faults>>
       \/ /\ "ambiguous" \in Faults
          /\ faults < MaxFaults
          /\ faults' = faults + 1
          /\ printed' = CameOut({i})
    /\ UNCHANGED <<job, phase, paused, registered, ghostVars>>

\* The print succeeded; some jobs go on to open the drawer.
PrintSucceeds(i) ==
    /\ worker[i] = "print"
    /\ printed' = CameOut({i})
    /\ \/ /\ job[i].printer \notin DrawerPrinters
          /\ Complete(i)
       \/ /\ job[i].printer \in DrawerPrinters
          /\ worker' = [worker EXCEPT ![i] = "drawer"]
          /\ UNCHANGED <<storeVars, processingJobs, active, aborted, cached>>
    /\ UNCHANGED <<job, phase, paused, registered, ghostVars, faults>>

\* The pulse was sent, or failed: only a warning either way.
DrawerDone(i) ==
    /\ worker[i] = "drawer"
    /\ Complete(i)
    /\ UNCHANGED <<job, phase, paused, registered, printed, ghostVars, faults>>

-----------------------------------------------------------------------------
(* Persistence (JobStore) *)

\* The five-second timer finds the database dirty: export, write, rename.
Save ==
    /\ Alive
    /\ dirty
    /\ disk' = db
    /\ dirty' = FALSE
    /\ UNCHANGED <<job, db, due, phase, paused, workerVars, registered,
                   printed, ghostVars, faults>>

Strike(kind) ==
    /\ kind \in Faults
    /\ faults < MaxFaults
    /\ faults' = faults + 1

\* safeDbOp: a crash inside sql.js, the last saved file replaces the table.
RebuildDatabase ==
    /\ Strike("wasm")
    /\ Alive
    /\ db' = disk
    /\ due' = {}
    /\ UNCHANGED <<job, disk, dirty, phase, paused, workerVars, registered,
                   printed, ghostVars>>

-----------------------------------------------------------------------------
(* The process (ThermalPrintService, runServer) *)

\* The process is gone, and with it every worker.  Bytes already handed to
\* a printer may still come out.
Exit ==
    /\ phase' = "down"
    /\ processingJobs' = {}
    /\ active' = {}
    /\ worker' = [i \in Ids |-> "idle"]
    /\ aborted' = {}
    /\ cached' = {}
    /\ due' = {}
    /\ paused' = FALSE
    /\ \E S \in SUBSET {i \in Ids : worker[i] = "print"} :
          printed' = CameOut(S)
    /\ UNCHANGED <<job, registered, ghostVars>>

\* A signal, the tray, the trigger file or the daily recycle: doStop pauses
\* the queue and waits for the workers, still answering requests.
BeginStop ==
    /\ "stop" \in Ops
    /\ phase = "up"
    /\ phase' = "draining"
    /\ paused' = TRUE
    /\ UNCHANGED <<job, storeVars, workerVars, registered, printed,
                   ghostVars, faults>>

\* processor.stop: every job still active is aborted and released.
Release ==
    /\ Write(Updated(db, active, NewPending))
    /\ aborted' = aborted \cup {i \in active : worker[i] = "status"}
    /\ processingJobs' = processingJobs \ active
    /\ active' = {}
    /\ phase' = "stopped"
    /\ UNCHANGED <<job, due, paused, worker, cached, registered, printed,
                   ghostVars>>

\* The drain ends with no job active: nothing to release, nothing written.
StopProcessor ==
    /\ phase = "draining"
    /\ active = {}
    /\ phase' = "stopped"
    /\ UNCHANGED <<job, storeVars, paused, workerVars, registered, printed,
                   ghostVars, faults>>

\* The drain outlasts ten seconds.
StopProcessorLate ==
    /\ phase = "draining"
    /\ active # {}
    /\ Strike("overrun")
    /\ Release

\* jobQueue.close, then process.exit: the last save, unless it fails.
Close ==
    /\ phase = "stopped"
    /\ \/ /\ disk' = db
          /\ UNCHANGED faults
       \/ /\ Strike("diskfull")
          /\ UNCHANGED disk
    /\ dirty' = FALSE
    /\ db' = EmptyTable
    /\ Exit

\* restart() races the drain against 8s and flushes; the 15s timer of
\* shutdown() exits as things stand.
ForcedExit ==
    /\ phase \in {"draining", "stopped"}
    /\ Strike("overrun")
    /\ disk' \in {db, disk}
    /\ dirty' = FALSE
    /\ db' = EmptyTable
    /\ Exit

\* uncaughtException or unhandledRejection: flush now, exit a second later.
FatalException ==
    /\ phase = "up"
    /\ Strike("exception")
    /\ phase' = "dying"
    /\ disk' = IF dirty THEN db ELSE disk
    /\ dirty' = FALSE
    /\ UNCHANGED <<job, db, due, paused, workerVars, registered, printed,
                   ghostVars>>

Die ==
    /\ phase = "dying"
    /\ dirty' = FALSE
    /\ db' = EmptyTable
    /\ Exit
    /\ UNCHANGED <<disk, faults>>

Kill ==
    /\ Alive
    /\ Strike("kill")
    /\ dirty' = FALSE
    /\ db' = EmptyTable
    /\ Exit
    /\ UNCHANGED disk

\* Mutant: nothing is recovered.
StaleNever(t) == {{}}

\* recoverStaleJobs on table t: rows in flight not touched for a minute.
Stale(t) ==
    LET inFlight == InStatus(t, {"processing"})
    IN  IF SlowRestarts THEN {inFlight} ELSE SUBSET inFlight

\* Load the file (a fresh table when it does not load), recover what the
\* last process left in flight, sweep, and mark the database dirty.
StartWith(file) ==
    /\ \E stale \in Stale(file) :
         LET recovered == Updated(file, stale, Recovered)
         IN  \E S \in IF "cleanup" \in Ops THEN Sweeps(recovered) ELSE {{}} :
                /\ db' = Delete(recovered, S)
                /\ forgotten' = forgotten \cup
                                   (S \cap InStatus(recovered, Terminal))
    /\ dirty' = TRUE
    /\ phase' = "up"
    /\ UNCHANGED <<job, paused, workerVars, due, registered, printed,
                   withdrawn>>

Start ==
    /\ phase = "down"
    /\ \/ /\ StartWith(disk)
          /\ UNCHANGED <<disk, faults>>
       \/ /\ Strike("corrupt")
          /\ StartWith(EmptyTable)
          /\ disk' = EmptyTable

-----------------------------------------------------------------------------
(* The specification *)

Init ==
    /\ job = [i \in Ids |-> NoJob]
    /\ db = EmptyTable
    /\ disk = EmptyTable
    /\ dirty = FALSE
    /\ phase = "down"
    /\ paused = FALSE
    /\ processingJobs = {}
    /\ active = {}
    /\ worker = [i \in Ids |-> "idle"]
    /\ aborted = {}
    /\ cached = {}
    /\ due = {}
    /\ registered = Printers
    /\ printed = [i \in Ids |-> 0]
    /\ withdrawn = {}
    /\ forgotten = {}
    /\ faults = 0

Request ==
    \/ \E k \in Keys, p \in Printers, prio \in Priorities :
          Enqueue(k, p, prio) \/ CreateTestJob(k, p, prio)
    \/ \E i \in Ids : Cancel(i) \/ RetryJob(i)
    \/ ClearFailedJobs
    \/ Pause
    \/ Resume
    \/ \E p \in Printers : ChangePrinter(p)

Worker(i) ==
    \/ StatusFails(i)
    \/ RenderFails(i)
    \/ AbortedBeforePrint(i)
    \/ PrinterGone(i)
    \/ SendToPrinter(i)
    \/ PrintFails(i)
    \/ PrintSucceeds(i)
    \/ DrawerDone(i)

Timer ==
    \/ Poll
    \/ Save
    \/ Cleanup
    \/ \E i \in Ids : RetryDue(i) \/ JobTimeout(i)

Process ==
    \/ Start
    \/ BeginStop
    \/ StopProcessor
    \/ StopProcessorLate
    \/ Close
    \/ ForcedExit
    \/ FatalException
    \/ Die
    \/ Kill
    \/ RebuildDatabase

Next ==
    \/ Request
    \/ Timer
    \/ \E i \in Ids : Worker(i)
    \/ Process

Spec == Init /\ [][Next]_vars

-----------------------------------------------------------------------------
(* Properties *)

JobRecord == [key : Keys, printer : Printers, priority : Priorities]

TypeOK ==
    /\ job \in [Ids -> JobRecord \cup {NoJob}]
    /\ db \in Table
    /\ disk \in Table
    /\ dirty \in BOOLEAN
    /\ phase \in {"down", "up", "dying", "draining", "stopped"}
    /\ paused \in BOOLEAN
    /\ processingJobs \in SUBSET Ids
    /\ active \in SUBSET Ids
    /\ worker \in [Ids -> {"idle", "status", "print", "drawer"}]
    /\ aborted \in SUBSET Ids
    /\ cached \in SUBSET Ids
    /\ due \in SUBSET Ids
    /\ registered \in SUBSET Printers
    /\ printed \in [Ids -> 0 .. 2]
    /\ withdrawn \in SUBSET Ids
    /\ forgotten \in SUBSET Ids
    /\ faults \in 0 .. MaxFaults

InFlight == {i \in Ids : worker[i] # "idle"}

\* Two workers never drive the same printer, not even one released by a stop
\* and one started since: "a broken printer can only ever hold ONE slot".
OneJobPerPrinter ==
    \A i, j \in InFlight : i # j => job[i].printer # job[j].printer

\* While the service runs, the three records of what is in flight (the
\* processor's map, the queue's set, the suspended workers) agree; a stopped
\* processor holds nothing; and the workers never exceed the configured
\* concurrency, not even those a stop has released.
WorkersTracked ==
    /\ Running => active = InFlight /\ processingJobs = InFlight
    /\ ~Running => active = {} /\ processingJobs = {}
    /\ ~Alive => InFlight = {}
    /\ Cardinality(InFlight) <= MaxConcurrentJobs

\* Rows and workers are of jobs that were created, in both copies.
RowsHaveJobs == Present(db) \cup Present(disk) \cup InFlight \subseteq Created

\* OneJobPerPrinter made inductive: it needs the records dispatch consults to
\* be right, and the printer of a row or worker to be settled once for all.
DispatchInv ==
    /\ RowsHaveJobs
    /\ WorkersTracked
    /\ OneJobPerPrinter

\* A row that says 'processing' has a worker that will settle it: none was
\* left behind by an earlier process or by a failed handler.
NoOrphan == Running => InStatus(db, {"processing"}) \subseteq InFlight

\* A worker's row says so, so that nobody cancels or redelivers it meanwhile.
InFlightRowsProcessing ==
    Running => InFlight \subseteq InStatus(db, {"processing"})

\* The table a restart would find: the file, or what close will write to it.
Durable == IF phase = "down" THEN disk ELSE db

\* A job that was acknowledged keeps its row until it is finished and swept
\* or cleared on purpose.
AcceptedJobsKept == Created \subseteq Present(Durable) \cup forgotten

\* Nothing to save means that the file is the table in memory.
CleanMeansSaved == Alive /\ ~dirty => disk = db

\* No two rows share an idempotency key.
UniqueKeys ==
    \A i, j \in Present(Durable) : i # j => job[i].key # job[j].key

\* A job reported as completed did come out.
CompletedMeansPrinted ==
    \A i \in InStatus(Durable, {"completed"}) : printed[i] > 0

\* After the client was told that its job is cancelled, nothing comes out.
CancelledNeverPrints ==
    [][\A i \in withdrawn : printed'[i] = printed[i]]_vars

\* A row that may still print, or be retried by the operator, still holds
\* what to print; a finished row holds no rendered ticket.
RowsKeepWhatTheyNeed ==
    \A i \in Present(Durable) :
        LET r == Durable[i]
        IN  /\ r.status \in Unfinished \cup {"dead_letter"} => r.payload
            /\ r.status \in Terminal => ~r.blob

\* The backlog stays below its ceiling.
BacklogBounded ==
    MaxQueueDepth > 0 =>
        Cardinality(InStatus(db, Unfinished)) <= MaxQueueDepth

=============================================================================
