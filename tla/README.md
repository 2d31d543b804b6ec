# A verified model of the XP Thermal Service

TLA+ modules that model the print service of this repository, the TLC
configurations that check them on small instances, and the TLAPS proofs of the
theorems that hold for every instance. Paths are relative to the repository;
line numbers are those of the commit the modules were written from.

- [1. The system](#1-the-system)
- [2. The modules](#2-the-modules)
- [3. The print queue](#3-the-print-queue)
- [4. The network printer](#4-the-network-printer)
- [5. The supervisor, the servers and the lock](#5-the-supervisor-the-servers-and-the-lock)
- [6. USB printers](#6-usb-printers)
- [7. The registry of printers](#7-the-registry-of-printers)
- [8. Backups, alerts, the device watch, updates](#8-backups-alerts-the-device-watch-updates)
- [9. What is checked](#9-what-is-checked)
- [10. What is proved](#10-what-is-proved)
- [11. Where the code and its documents disagree](#11-where-the-code-and-its-documents-disagree)
- [12. What is not modelled](#12-what-is-not-modelled)

## 1. The system

A point-of-sale program posts receipts and kitchen tickets over HTTP to a
service on the same Windows machine, which renders them to ESC/POS and prints
them on USB printers (through the Windows spooler) and on network printers
(over TCP port 9100). A small supervisor keeps the service running.

    supervisor process (src/app/supervisor.ts)
      | spawns, respawns, asks to shut down (IPC)
      v
    server process (src/index.ts: runServer, ThermalPrintService)
      InstanceLock ---- one server per data directory
      ApiServer ------> JobQueue ------> JobStore (sql.js, one file)
                           ^
      JobProcessor --------+  one worker per job in flight
        |  status, print, drawer
        v
      PrinterManager ---> NetworkPrinterAdapter   TCP
        ^                 USBPrinterAdapter ----> PowerShell, spooler
      DeviceWatcher  (device events)
      HealthMonitor, HealthAlerter, BackupScheduler, BackupManager

The server is one JavaScript thread. Code between two `await`s (or between two
callbacks) is never interleaved; everything else is: job workers, HTTP
handlers, two health-check intervals, the reconnect timer, socket events, the
poll and save timers, the shutdown sequence. Persistence is a table in memory,
written as a whole to a file (temporary file, then rename) every five seconds
when it is dirty; a process that ends without the last save loses what came
after the previous one.

### Components

| component | state it keeps | operations | what makes it correct |
|---|---|---|---|
| **JobStore** `src/queue/job-store.ts` | the jobs table in memory, its file, the dirty flag | create, update, mark started/completed/failed, retry, dead-letter, delete, cleanup, save, load, stale recovery, rebuild after a crash of sql.js | a clean table equals the file; rows keep what they need; no accepted job is deleted before it is finished; keys are unique |
| **JobQueue** `src/queue/job-queue.ts` | `paused`, `processingJobs` | enqueue, dequeue(Batch), complete, fail, cancel, release, retryJob, clearFailedJobs, pause, resume | a ceiling on the backlog; no cancelled job is dispatched; attempts are bounded |
| **JobProcessor** `src/queue/processor.ts` | `activeJobs`, timers | poll, processJob (status, render, print, drawer), start, stop | one job per printer, bounded concurrency, every job settles, a dead printer delays only its own jobs |
| **NetworkPrinterAdapter** `src/printers/network-adapter.ts` | socket, connection promise, reconnect ladder, write queue, status, idle release | connect, disconnect, write, getStatus, heal, timers and socket events | one connection, one write at a time, every write answered, a printer that comes back is connected again |
| **USBPrinterAdapter** `src/printers/usb-adapter.ts` | resolved queue name, write queue, heal bookkeeping, remembered hints | connect, disconnect, write (with one heal and a second pass), heal, getStatus | one spooler write at a time, every write answered, a printer that can be repaired prints again with nobody at the station |
| **PrinterManager** `src/printers/printer-manager.ts` | registry, default printer, health timer, reconcile flags | register, unregister, reconnect, connectAll, print, health check, reconcile | what is driven is what is configured, there is a default, coalesced changes are not lost |
| **InstanceLock** `src/utils/instance-lock.ts` | the lock file, heartbeat | acquire, write, heartbeat, release, staleReason | at most one server serves a data directory; a dead owner never blocks for good |
| **Supervisor** `src/app/supervisor.ts` | child, respawn timer, deference to an installed service | launch, startChild, respawn, defer, quit | the service comes back after every exit; Quit ends everything |
| **Server process** `src/index.ts` | phase of life, shutdown flag, watchdog | start, drain, stop, restart, the fatal handlers, recycling | acknowledged jobs survive a clean stop; every stop ends |
| **ApiServer** `src/api/*.ts` | port, pairing | routes: print, cancel, retry, pause, printers, settings, restart, backup | each accepted request is one job (per copy), an idempotency key answers with the job it made |
| **HealthMonitor, HealthAlerter, health verdict** `src/health`, `src/api/health-verdict.ts` | candidate and confirmed status, last alert | tick, observe | no alert without its samples, a recovery is never suppressed |
| **BackupManager, BackupScheduler** `src/backup` | `running`, last handled request, last scheduled day | run, restore, prune, poll, triggerNow | requests are attended to, a path never loses its last complete archive |
| **DeviceWatcher** `src/printers/device-watcher.ts` | child process, debounce timer, restarts | start, stop, queueChange, handleExit | a change is reported, a dead watcher is replaced or reported |
| **Discovery and naming** `src/printers/{printer-resolver,discovery,network-discovery,windows-printers,winspool,printer-roles,network-diagnosis}.ts` | cached snapshots | resolve a configured name to a queue, scan, classify | a printer is found again after a rename or a port change, and never confused with another |
| **ESC/POS and templates** `src/escpos`, `src/templates` | none | build bytes from a payload | the ticket says what was asked for |
| **Configuration** `src/utils/config.ts` | the settings, the printers, the deleted ids, the stamp of the file | load, addPrinter, updatePrinter, removePrinter, save with merge | a bad file falls back, nobody's printer is dropped by a save |
| **Updates** `src/app/updates.ts` | latest release, download | check, download, install | what is launched is what was announced, whole and signed |
| **Origin policy and pairing, tray, start-up, migration, installer, dashboard, CLI, metrics, logger** | small | see section 12 | |

### How they interact

- An HTTP handler runs in one turn: it validates, inserts a row (or finds the
  row of its idempotency key) and answers. It does not wake the processor: the
  poll timer (`pollIntervalMs`) does (`JobProcessor.triggerPoll`, line 113,
  fires only while no timer is set, which is never while it runs).
- A poll takes a batch in one turn: it leaves out printers that already have a
  worker, marks each row 'processing', and starts a worker, which runs until
  its first `await`. A worker then awaits the printer's status, the print, and
  on some printers the drawer pulse; whatever ends it calls `queue.complete` or
  `queue.fail` and takes its entry out of `activeJobs`.
- `PrinterManager` and the adapter each run a health check; both, the ladder,
  the workers, the write queue and the operator may call `connect()`.
- Adapters of USB printers share one snapshot of Windows, and each other's queue
  names; handlers that add, edit, delete or reconnect a printer share the
  configuration and the registry, with nothing that keeps two of them apart.
- The server tells the supervisor nothing but its exit; the supervisor tells
  the server 'shutdown' or, by dying, closes the channel. Two servers meet only
  through the lock file.

### What is hard

State that an `await` leaves behind: the status read before a print, the socket
that another handler has replaced, the row that a stop has released while its
worker still prints. Three records of what is in flight (a map, a set, the
rows) kept by three objects. Six callers of one `connect()` and one flag shared
by "we are hanging up", "the ladder runs" and "do not start the ladder". Timers
that outlive what they were set for. A process that can end at any point, with
a file five seconds old, and whose successor cannot tell its predecessor's work
in flight from its own. PIDs that are given out again. `PROJECT.json` lists
each of these hazards with its line and the properties aimed at it.

## 2. The modules

| module | what it is |
|---|---|
| `PrintQueue` | JobStore, JobQueue, JobProcessor and the life of the server process that holds them, composed |
| `PrintQueueDispatch` | the loop by which a batch is dequeued, against the set that `PrintQueue` takes |
| `JobLedger` | the abstract specification: what the queue promises of each job |
| `PrintQueueLedger` | `PrintQueue` implements `JobLedger` (refinement mapping) |
| `PrintQueueLive` | fairness and the liveness of the queue |
| `NetworkPrinter` | one network printer: adapter, PrinterManager's use of it, its clients, the operator |
| `Supervision` | supervisor, servers, copies started by hand, lock file, installed service |
| `UsbPrinter` | one USB printer: adapter, PrinterManager's use of it, its clients, the operator, the health check and device changes |
| `QueueHealing` | several USB printers at one station: queues, ports and devices that move, and the repairs of all adapters at once |
| `PrinterRegistry` | config.json, ConfigManager's copy, PrinterManager's registry, and the requests that change them |
| `Backup`, `ServiceHealth`, `DeviceWatch`, `Updates` | the services that run beside the queue |
| `PrintQueueProofs`, `PrintQueueSafety`, `NetworkPrinterProofs`, `SupervisionProofs`, `UsbPrinterProofs`, `QueueHealingProofs`, `PrinterRegistryProofs`, `ServicesProofs` | the proofs, each module with those of the component it is named for; `PrintQueueSafety` has the invariants of the queue that rest on one another, and the refinement |
| `MCPrintQueue`, `MCNetworkPrinter`, `MCSupervision`, `MCUsbPrinter`, `MCQueueHealing`, `MCPrinterRegistry` | the same modules for TLC: model values, symmetry |
| `MCServices` | the four services in one specification, explored one at a time; their fairness |

No module that is proved about uses a RECURSIVE operator. Operators named
"Mutant: ..." in a comment are plausible mistakes in the code; no action uses
them. Each is the counterpart of a definition next to it: with the definition
replaced by it, TLC finds the property violated that is meant to catch that
mistake (`PROJECT.json`, "mutants"), which shows that the property can fail.

## 3. The print queue

### State and actions

| `PrintQueue` | code |
|---|---|
| `db`, `disk`, `dirty` | the table of sql.js, `queue.db`, `JobStore.dirty` |
| `job` | the columns no statement updates: idempotency key, printer, priority. Ids are in order of `created_at` |
| a row | `status`, `attempts`, `payload` (the row still holds what was asked for, not `{}`), `blob` (`raw_commands` is there) |
| `due` | the retry_scheduled rows whose `scheduled_at` has passed |
| `processingJobs`, `active`, `paused` | `JobQueue.processingJobs`, `JobProcessor.activeJobs`, `JobQueue.paused` |
| `worker` | the `await` at which each `processJob` is suspended: "status", "print", "drawer" |
| `aborted`, `cached` | the AbortController of a worker has fired; the worker was handed a rendered ticket |
| `phase` | "up"; "draining" and "stopped" (`doStop`, before and after `processor.stop`); "dying" (the second between an uncaught exception and the exit); "down" |
| `registered` | the printers PrinterManager knows |
| `printed`, `withdrawn`, `forgotten` | history: tickets that came out, cancellations that were confirmed, finished jobs deleted on purpose |
| `Enqueue`, `CreateTestJob`, `Cancel`, `RetryJob`, `ClearFailedJobs`, `Pause`, `Resume`, `ChangePrinter` | the HTTP handlers |
| `Poll`, `RetryDue`, `JobTimeout`, `Save`, `Cleanup` | the timers |
| `StatusFails` ... `DrawerDone` | the continuations of `processJob`, one for each way out of an `await` |
| `Start`, `BeginStop`, `StopProcessor(Late)`, `Close`, `ForcedExit`, `FatalException`, `Die`, `Kill` | the life of the process |
| `RebuildDatabase` | `safeDbOp` after sql.js has crashed |

### Abstractions

- One JavaScript turn is one step. A crash of sql.js happens between handlers,
  not in the middle of one.
- The age of a row, against the minute of stale recovery and against the
  cleanup's limit, is a choice: `Stale` lets a start find any subset of the
  rows in flight stale, or all of them when `SlowRestarts` says that restarts
  come later than the minute.
- A request whose key exists changes nothing and is left out: it is a stutter.
- `save` is atomic, as rename makes it. `Close` saves or, under "diskfull",
  does not.
- An uncaught exception strikes while the service is up; one during a drain is
  `ForcedExit` (the file may or may not have the last changes).
- `paused` and the registry: the pause is lost with the process, as in the
  code; the registry is the configuration and survives.
- `printed` stops at 2, which reads "more than once".
- A poll that finds nothing to take changes nothing and is not a step.
- Bounds: `MaxJobs` jobs are created in one behaviour and `MaxFaults` failures
  strike. Where both are used up the service may have nothing left to do: the
  one run without requests that would keep it going (`queue_restart`) and the
  violation run say `CHECK_DEADLOCK FALSE`, the others check deadlock.

### The abstract specification

`JobLedger` gives each job a standing (unknown, waiting, in flight, printed,
done, given up, withdrawn, forgotten) and a count of tickets on paper, and says
which moves a job may make and that the count grows only on the move from "in
flight" to "printed" or "done". `PrintQueueLedger` reads the standing of a job
off the table a restart would find (`Durable`) and the await of its worker.
`ImplementsLedger` is the refinement: without failures, through retries,
cancellations, operator retries, cleanups, drains and restarts, each job is
printed exactly once or given up or withdrawn. With failures it does not hold,
nor does the code claim it: a kill between the print and the save prints twice.

## 4. The network printer

### State and actions

| `NetworkPrinter` | code |
|---|---|
| `socket`, `closing` | `this.socket`: none, open, half-closed by us ("ending"), destroyed but still referenced ("dead"); the event a destroyed socket has yet to deliver |
| `connecting` | `connectionPromise` is pending |
| `released` | `releasedForIdle` |
| `reconnecting`, `timer`, `attempts` | the reconnect ladder; `timer` "waiting" is its callback inside `await this.connect()` |
| `status`, `connected` | `_state.status`, `_state.isConnected` |
| `quiet`, `checking`, `probe` | `idleReleaseMs` has passed since `lastJobAt`; the adapter's own health interval runs; it awaits the printer |
| `check` | PrinterManager's health check, and what it awaits |
| `pc[c]` | a job worker or the drawer button: resting, awaiting the status, awaiting `connect()`, in the write queue, in the writer's hand ("opening" while it connects first, "sending") |
| `admin`, `reaper` | the operator's Reconnect or Delete; the two-second timer of `disconnect()` |
| `registered`, `crashed` | PrinterManager still has the adapter (and its listeners); an 'error' event without a listener ended the process |
| `peer` | the printer takes our connection and answers |

A socket event, a timer and the continuation of an `await` are one step each; a
promise that settles runs its waiters in the same step (`Connected` moves all
who waited). A socket that was destroyed here delivers 'error' or 'close'
before a later timer fires or a connection opens: Node emits them in the same
or the next turn.

### Abstractions

- "up" means that the printer answers and says ONLINE. While it is down a live
  connection may still answer anything that `getStatus` can make of it.
- The order of the write queue is left open, with strong fairness for each
  ticket in place of first come, first served; every order is safe.
- `connect()` succeeds when the printer is up and fails when it is not. A
  refused connection delivers an 'error' event, one not answered in time does
  not.
- The printer's configuration is enabled; the socket's own 120 s 'timeout'
  event and `ping` (a connection of its own, for diagnosis) are not modelled.
- Next is disabled once `crashed`: the process is gone. The runs therefore say
  `CHECK_DEADLOCK FALSE`.
- PrinterManager's health check looks at one printer again only after it has
  finished with it: the 30 s interval does not wait for that, but, with the default timeouts, the look (three
  status timeouts, then a connect timeout) is shorter.
- `MaxReconnectAttempts = 1` in the runs: the ladder has a first step, a last
  step and the state after it. The proofs take any bound.

## 5. The supervisor, the servers and the lock

### State and actions

| `Supervision` | code |
|---|---|
| `sup`, `watch`, `misses` | `runSupervisor`: running or quitting; the search for a machine-wide service, and `deferLoop`'s misses |
| `child`, `respawn` | `child`, the timer that will call `startChild` |
| `pc[p]` | `runServer` of process p: "delay" (start-up delay), "waiting" and "taking" (`acquire()`: the poll of the lock; between the look that found it free and the write), "starting", "running", "draining", "hung", "gone" |
| `linked`, `asked` | the IPC channel is open; a 'shutdown' (or the channel's end) waits to be heard |
| `lock`, `cold`, `reused` | the PID in the file; its heartbeat is over 90 s old or from before the boot; the PID is a dead server's and some other program has it now |
| `held`, `beating` | `acquired`, `heartbeatTimer` |
| `weakened` | history: a failure that the lock does not claim to withstand has happened |

Processes are named by their PIDs, which are used again. A PID that is now some
other program's is not given to a server, and `staleReason` sees it alive.
Reading the lock and writing it are two steps, as in `acquire()`.

A message waits in the channel until the server listens: `process.on('message')`
starts the delivery. The end of the channel does not wait: 'disconnect' is
emitted to whoever listens then. Handlers are registered in the same turn as
the lock is written, so from "taking" on it is heard.

### Abstractions

- A start takes less than the 90 s of the heartbeat limit, unless "cold"
  strikes.
- Four faults weaken the lock, and the safety properties are stated for
  behaviours without them: "race" (two servers between look and write at once),
  "cold" (a server that serves has an old heartbeat, after a sleep), "torn" (a
  look falls between the owner's opening of the file and its write, and a file
  that does not parse is no lock), "readonly" (the file cannot be written and the
  server goes on without). `OneServing` is false with each of them: they are the
  lock's limits, not claims of the code. A file that a crash leaves torn is a
  stale lock: both are taken. That a heartbeat or a release may meet a torn file
  of another server is left out; it takes one of the four to have another
  server's lock there while one still beats.
- The respawn delays (5, 10, 30 s) and the daily recycle are steps without
  times.
- `ServiceReturns` leaves out a server that hangs: the supervisor watches for an
  exit only. The server's own watchdog on `/health` (`src/index.ts`) acts when
  its event loop still runs, and is part of `Recycle`.

## 6. USB printers

### One printer: `UsbPrinter`

| `UsbPrinter` | code |
|---|---|
| `windows` | the printer's Windows queue, by what `classifyStatus` makes of it: ready, flagged (a stale "Use Printer Offline"), stuck (paused, in error, on a port that moved), paper, unplugged, gone |
| `past` | what a snapshot that is still fresh, or was begun before the last change, may say |
| `status`, `connected`, `healable`, `failures` | `_state` |
| `cooling` | a repair began less than `HEAL_COOLDOWN_MS` ago |
| `queue`, `writing` | `writeQueue`, `isWriting` |
| `file`, `pass` | the temporary file of a ticket; the passes of `sendToPrinter` begun for it |
| `pc[a]`, `inConnect[a]` | the await of each caller, and whether it is inside `connect()`: job workers and the drawer button (`Clients`), the health interval, a device change and the operator (`Managers`), and the repair that `connect()` starts and does not wait for ("background") |
| `errand[m]` | what the manager is about: its round, a reconcile, Repair, Reconnect |
| `operations`, `cut` | the bound on operations; history: a `disconnect()` has met a write |

Each caller stops at every `await` for a PowerShell process, and the others run
meanwhile. A look is any of `View`: Windows as it is, or as it was within the
life of a snapshot. Abstractions: Windows changes at most once in that life; a
pass fails only when the file is missing or Windows is not well; the thirty
seconds of a send run out in the same cases.

### Several printers: `QueueHealing`

Each adapter is bound to a queue by name, the queue points at a port, a device
is plugged into a port, and a ticket comes out where that chain ends.

| `QueueHealing` | code |
|---|---|
| `queue`, `socket`, `spooler` | Windows: the queues (port, offline flag, state), the port of each device, the Print Spooler |
| `cache` | `WindowsPrintSystem.snapshot` while it is fresh |
| `bound`, `hints` | `printerName` and the remembered port and hardware id, in memory and in config.json |
| `status`, `healable`, `cooled` | `_state`, and whether `HEAL_COOLDOWN_MS` have passed |
| `pc`, `plan`, `held` | where the adapter's caller is in `connect()` or `heal()`, the repairs that are left, the hints read before the repair |
| `changes`, `guessed` | the bound on what happens; history: a port was chosen for a printer whose device was not attached, or a queue of an unrelated name adopted |
| `Score`, `Penalty`, `Adoptable`, `Resolves` | `resolveQueue` and `resolveTarget` |
| `Suggested` | `pickMigrationPort` |
| `Verdict`, `Plan` | `classifyStatus`, `planHealing` |
| `GetStatus`, `Connects`, `ConnectFails`, `MakesPlan`, `Rebinds`, `RepairsWindows`, `Healed`, `Verifies` | the adapter between its awaits |
| `Move`, `Power`, `Disturb`, `Rename`, `Remove`, `SpoolerStops`, `Restart` | what happens to the station |

Abstractions: an adapter has one caller at a time here (`UsbPrinter` has them
all); all queues have the driver that is remembered and look like a thermal
printer's, so that names, ports and live devices decide; the score of two names
is a constant of the module (850 but for a copy suffix). A look in which
PowerShell fails shows nothing; the degraded look through the registry is not
modelled.

## 7. The registry of printers

| `PrinterRegistry` | code |
|---|---|
| `file`, `broken`, `changed` | the printers in config.json; it does not parse; it is not as `lastSeenStamp` says |
| `mem`, `loadFailed`, `deleted` | `ConfigManager.config.printers`, `loadFailed`, `deletedPrinterIds` |
| `registry`, `built`, `default` | `PrinterManager.printers`, the entry each adapter was built from, `defaultPrinterId` |
| `live`, `lingering` | adapters that have a connection or try for one; those of them that were told to disconnect before |
| `request[r]` | a handler: whether it awaits a look, a `disconnect()` or a `connect()`, and what it holds meanwhile |
| `unapplied`, `overlapped` | history: entries in the configuration that the manager was not told of; two requests were under way for one printer |

The handlers are add, update, set-up by role (which looks at Windows between
its decision and its save), delete and reconnect; `Learns` is the adapter's own
save of what it has found out. `Save` is `saveConfig`: refused after a file that
did not load, failing after the merge when the disk is full, or writing. The
process ends at any point (`Restart`); in place of a file that does not parse
`Loaded` takes config.example.json (`Example`) or no printers.

An entry is what the registry tells apart: whether an adapter can be built from
it, whether it says that it is the default, and whether it is enabled, which a
request may leave unsaid. `Parsed` is the schema, which fills that in:
ConfigManager keeps the parsed entry, while `handleAddPrinter` registers the
request's words, so that `built` and `mem` may differ. `connectPrinter` refuses
what is not said to be enabled. The other defaults of the schema (timeout,
capabilities) are not told apart, a PUT does not change the id, and `mem` and
`built` hold values where the code may share an object.

Being told to disconnect does not end an adapter's connections: a network
adapter's own 'close' listener may start its ladder again (`NetworkPrinter`).
`LetGo` therefore leaves the adapter at rest or `lingering`, `Dials` is the
health check or a print that connects an enabled printer's adapter, and
`GivesUp` the end of a connection and of the ladder. `Adapters` are objects: one
that nobody refers to, and that has no connection, may stand for a new one.

## 8. Backups, alerts, the device watch, updates

These share no state with each other or with the queue but the printers'
statuses, which `ServiceHealth` lets change at any time. `MCServices` puts them
into one specification and explores them one at a time.

- **`Backup`**: `BackupScheduler.poll` and an order at the box (run or restore),
  each cut at its awaits, over one `running` flag. A run dumps, copies to each
  path under the final name, prunes there what has expired and reports. `files`
  has each path's archives, when each was made and whether it is whole; `clock`
  has two steps a day, the backup hour and the rest. The POS does not answer,
  the dump or a copy fails, or the process ends, at any point; a restart forgets
  `lastHandledRequestKey` and the day of the last scheduled run. Runs do not
  take a day; the end of a restore that is killed is immediate; the POS notes
  when the last run with a copy began.
- **`ServiceHealth`**: `getSummary`, `decideHealth`, `HealthMonitor`'s sample and
  `HealthAlerter.observe`, over stations whose status, switch and jobs change at
  will. Time is counted in samples; `sinceAlert` stops at the rate limit. The
  process may start again at any time (`HealthRestarts`): what the alerter
  believed was in memory, and the first sample of a process is a silent baseline.
  `told` is what this process has alerted of last, `heard` what the last alert
  said, whichever process sent it.
- **`DeviceWatch`**: the PowerShell child (starting, ready, silent, killed), its
  restarts, the debounce, the reconcile with its queued pass, the health check
  and the look at Windows that they share. Changes of the world are numbered,
  and `known` is the last one that the adapters' states show. Delays are steps. A
  child that cannot be started counts as two exits ('error' and 'close').
- **`Updates`**: `check` (the manifest, then GitHub), `download` and `install`,
  which overlap at their awaits, over releases that are announced and withdrawn
  and files that are damaged after their download. The hash that `install` takes
  and the launch are one step, and a second launch of the same release is not
  looked at.

## 9. What is checked

| run | instance | distinct states | what it shows |
|---|---|---|---|
| `queue_clean` | 2 jobs, 2 printers (one with a drawer), 2 workers, 2 attempts, cleanup to 1 row; cancel, retry, clear, cleanup, stop; no failures | 458 thousand | `AcceptedJobsKept`, `RowsKeepWhatTheyNeed`, `CancelledNeverPrints`, and `PrintQueue` implements `JobLedger` |
| `queue_dispatch` | 3 jobs, 2 printers of which one never answers, 2 workers, a scan window of 1 | 80 thousand | `OneJobPerPrinter`, `LoopTakesBatch`, and `JobsSettle` for the jobs of the other printer |
| `queue_faults` | 2 jobs, 2 priorities, 1 printer; cancel, retry, stop, pause, changes of the registry, test prints; any one of the seven failures at any point | 1.4 million | `CleanMeansSaved`, `CompletedMeansPrinted`, `UniqueKeys`, `DispatchInv` (the invariant that several proofs rest on) |
| `queue_restart` | 2 jobs, a ceiling of 1, kills and exceptions, 2 of them, each restart after the staleness window | 75 thousand | `NoOrphan`, `BacklogBounded`, `JobsSettle` across crashes |
| `orphan_after_crash` | the same, restarts at any time | violation | `NoOrphan` fails |
| `network_safety` | 2 clients, Reconnect and Delete, idle release, 1 reconnect attempt | 860 thousand | `OneConnection`, `LadderAlive`, `OneWriter` |
| `network_live` | the same without the operator | 157 thousand | `TicketsAnswered`, `Recovers` |
| `supervision` | 3 PIDs, all eight faults, 2 of them, an installed service that comes and goes | 188 thousand | `OneServing`, `ServiceReturns`, `QuitEnds` |
| `usb` | a write queue of one; two who print and nobody else, or one of them and a manager with one operation of the operator; a queue that begins gone and is then ready or stuck | 198 thousand | `OneSend`, `WritesAnswered`, `RepairedUnattended` |
| `healing` | 2 printers of two models, 4 ports, 3 names of which two differ by a copy suffix; any two things that may happen to the station | 111 thousand | `RightStationIfAttached`, `OneQueueEach`, `FindsItself` |
| `registry` | 2 printers, 2 requests, 3 adapters, 3 kinds of entry of which one leaves unsaid whether it is enabled; one edit of the file by others or a disk that fills up; restarts | 496 thousand | `RegistryFollowsConfig`, `DefaultServes`, `NoneForgotten`, `PrintersKept` |
| `services` | 2 backup paths, 3 days, one request, one order, one failure; 2 stations, alerts after 2 samples and 3 apart; 2 device changes, 3 failures of the watcher; 3 releases of which one is signed, one announcement | 384 thousand | `BackupsKept`, `RequestsAttended`, `AlertsConfirmed`, `ToldOfRecovery`, `ChangesSeen`, `PassAfterChange`, `WatcherSupervised`, `InstallsAnnounced` |

The other configurations, which section 11 names, are refuted by TLC and are no
runs of `PROJECT.json`: each reproduces a counterexample.

No run lists a `TypeOK`: the theorems `TypeCorrect` of section 10 prove the type
invariant of every module but `JobLedger`, whose `Next` says it.

### Why the bounds are enough

- Two jobs meet in every way two jobs can: same printer, different printers,
  same key (a second request with the key of the first, before and after the
  first is swept), one cancelled while the other prints. Three jobs are needed
  where a wedged printer has one in flight and one behind it while the other
  printer works, hence `queue_dispatch`.
- Two attempts: a first failure that is retried and a last one that is not;
  one attempt where retries are not the question.
- One failure at any point of a behaviour, and two in `queue_restart`: a crash
  during the recovery from a crash.
- A scan window of one row makes the window as short as it can be against the
  rows of a busy printer, which is what the loop must survive.
- One priority suffices for `LoopTakesBatch`, which compares two ways of
  choosing by the same order; `queue_faults` has two.
- Two clients contend for the writer and for one connection; a third waits like
  the second. One reconnect attempt has the ladder's start, its end and the
  state after it.
- Three PIDs: a server that serves or drains, its successor, and a copy started
  by hand or a PID that is dead. Two failures: a crash, and a race with the
  successor.
- `usb` takes its callers in two scenes, two who write or one beside a manager
  and the background repair: every pair of callers that share a step of the
  adapter is in one of them. The one operation is any of Reconnect, Repair, a
  registration and a reconcile.
- `healing`: a chain from printer to paper is broken at one link by one change;
  two changes break it at two links, undo the first, or break the chains of both
  printers at once.
- `registry`: two requests overlap in behaviours in which the file has loaded,
  nobody edits it and the disk has room; in the others requests come one at a
  time (`OneAtATime`). What a save makes of an edit depends on the file and on the
  copy, whoever else is under way, and none of the proofs about the registry
  needs such a restriction. The three entries have a default and another printer,
  words that the schema completes, and one of which no adapter can be built.
- `services`: three days hold a dump, its expiry after one day and the prune that
  follows; three failures of the child are what it takes for the fall back to
  fast polling; a rate limit longer than the confirmation lets a recovery fall
  inside it.

The theorems of section 10 hold without these bounds.

### Fairness

`PrintQueueLive`: weak fairness of the poll timer, of each row's retry delay, of
the save timer, of the steps of the process's life that a timer bounds (start
by the supervisor, the end of a drain, `close`, the second before the exit) and
of each worker. A worker's await ends because the adapters answer or time out
(status: the adapter's query timeout; print: its write timeout); the printers in
`Wedged` are exempt, as an adapter that never answers. No request, operator or
failure is fair. `JobsSettle` needs no fairness of the outcome: a job that fails
often enough is given up.

`NetworkPrinter`: weak fairness of everything a timer or a socket event ends,
strong fairness of `NextWrite` for each ticket in place of the queue's order
(see 4). The printer's coming and going, the clients and the operator are not
fair; `Recovers` assumes only that the printer is up from some point on.

`Supervision`: weak fairness of each process's own turns and timers, and strong
fairness of the poll of the lock, because a server that polls each 500 ms finds
the lock free if it is free again and again for long enough (what disables it
is another process between look and write, which is milliseconds). Time passes:
the lock of a process that does not serve grows cold. No server recycles by
fairness, and none is started by hand.

`UsbPrinter` and `QueueHealing`: weak fairness of each caller's next step (a
PowerShell process ends or is killed by its timeout), of the ends of snapshot and
cooldown, of the next write, and of the health interval. Windows, those who print
and the operator are not fair: `RepairedUnattended` and `FindsItself` assume only
that the world stays repairable from some point on, and nobody at the dashboard.

`MCServices`: weak fairness of the scheduler's poll or the supervisor's restart,
of the steps of a run (`timeoutMs`, and fetches have timeouts), of the monitor's
sample, of looks and their expiry, of reconcile and health check, and of the
watcher's timers. No fairness of the POS, of requests, of device changes, of
`ChildEnds`, or of an update.

## 10. What is proved

TLAPS checks every theorem below from nothing, for all values of the constants
that satisfy the modules' assumptions (bounds are naturals, drawer printers are
printers, "none" is not a PID, ports have one owner, and the like; each is a
named ASSUME that TLC evaluates in the runs).

The print queue, in `PrintQueueProofs` (the first three) and `PrintQueueSafety`:

- **`TypeCorrect`**: `Spec => []TypeOK`. Inductive as it
  stands; a lemma for each shape of update (`Updated`, `Delete`, `Fail`,
  `Complete`, `Exit`), then one for each group of actions.
- **`CompletedIsPrinted`**: what is reported as completed has come out, under
  every failure. A restart reads the file, so `PrintedInv` says it of the table,
  of the file, and of a worker at its drawer, whose ticket is out before its
  row says so.
- **`OrphansRecovered`**: no row of a running service is 'processing' without a
  worker. Assumes `SlowRestarts` (restarts come after the minute of stale
  recovery), without which the run `orphan_after_crash` refutes it, and that
  sql.js does not crash, after which `rebuildDatabase` may bring back rows
  'processing' of workers that have ended since the last save.
- **`CleanIsSaved`**: a table not marked dirty equals its file,
  whatever fails. Inductive with `TypeOK`: every action either goes through
  `Write`, which marks, or leaves table and file alone, or makes them equal.
- **`SingleFlight`, `WorkersAreTracked`, `DispatchSound`**: two
  workers never drive one printer; the processor's map, the queue's set and
  the suspended workers agree; their number keeps to `maxConcurrentJobs`.
  `OneJobPerPrinter` alone is not inductive: a poll leaves out the printers of
  `active`, so `active` must be exactly the workers that exist (else a printer
  with a worker looks free), and a job's printer must not change under it, so
  rows and workers must belong to jobs that were created. `DispatchInv` is the
  conjunction of the three. The step that needs an argument is `Poll`
  (`PollStep`): the batch has at most one job of each printer (`BatchPrinters`),
  none of a printer that is busy, and at most `FreeSlots` jobs
  (`BatchBounded`: the heads of the queue are linearly ordered by `Precedes`,
  so the ones with fewer than n before them number at most n).
- **`RowsKeep`**: a row that may still print or be retried keeps its payload, a
  finished one no rendered ticket, under every failure but a crash of sql.js.
  `RowsInv` says it of the table and of the file, with `RowsHeld`: a worker's
  row is still 'processing' when it comes back to it, or 'pending' if a stop has
  given it back. Without `RowsHeld` a worker that fails could turn a cancelled
  row, whose payload is gone, into one to be retried. That is what a crash of
  sql.js does (section 11), so the assumption is needed.
- **`KeysUnique`**: no two rows share a key, under every failure; of the table
  and of the file (`KeysInv`): a row that is lost frees its key, and comes back
  only with the whole file.
- **`BacklogStaysBounded`**: the backlog keeps to any ceiling, if neither test
  prints nor the operator's retry are used (the code does not hold them to it)
  and sql.js does not crash. `BacklogInv` is of table and file, and each action
  leaves the backlog within the one or the other but `Enqueue`, which looks at
  the ceiling. It rests on `RowsHeld`: a worker never brings a finished row back.
- **`LedgerImplemented`**: `Spec /\ [](faults = 0) => ImplementsLedger`, the
  refinement of `JobLedger` for every number of jobs, printers and workers:
  `Init` maps to `Ledger!Init`, and each step to `Ledger!Next` or a stutter.
  It needs `LedgerInv`: until the first failure, `CleanLedger`. Of each job
  (`JobClean`) status, worker, paper, withdrawal and sweep agree, so that a
  ticket is out exactly if its row is completed or its worker at the drawer.
  `JobStep` says what a step may do to one job, a lemma for each action shows
  that it does that (and no more), and `JobStepMoves` that a job step is a move
  of the ledger. From the same invariant: **`CancelledStay`** (nothing comes out
  after a cancellation was confirmed), **`AcceptedKept`** (an acknowledged job
  keeps its row) and **`PaperMatches`** (a job is on paper once or not at all, as
  its standing says). `queue_clean` checks them with `Faults = {}`; here they
  hold, in a service that may fail, until it first does.
- **`LoopIsBatch`**: the loop of dequeue calls takes the batch that `Poll`
  takes, for any scan window of at least one row. The loop is a recursive
  function of the number of calls. Its value is stated outright (`First(n)`,
  the n first of the heads) and shown by a least counterexample, with the
  library's well-foundedness of the naturals in place of its induction rule.

The printers:

- **`NetworkPrinterProofs!TypeCorrect`, `OneConnectionSafe`, `LadderSafe`,
  `OneWriterSafe`**: for any number of clients, any number of attempts and any
  operations. `OneConnection` is inductive with the types; `LadderAlive` needs
  that a timer which waits has a connection under way, and is stated with it;
  `OneWriter` needs that whoever waits for a connection waits for one that is
  being made, and is stated with it.
- **`SupervisionProofs!TypeCorrect`, `LockHeld`, `OneServingSafe`**: for any
  number of processes, failures and copies started by hand. The types need
  `CountsMisses` (while the search defers, its misses are below the limit).
  `ServerHoldsLock` needs `TakingAlone`: unless weakened, at most one process is
  between its look at the lock and its write, and while one is, nobody serves.
  That is what makes "look, then write" safe, and exactly what the fault "race"
  breaks.
- **`UsbPrinterProofs!TypeCorrect`, `OneSendSafe`**: for any number of clients,
  managers and operations. A client's repair is part of its send unless it is
  inside `connect()`, so `OneSend` needs `ConnectsInside`: a client at an
  await of `connect()` is marked as such.
- **`QueueHealingProofs!TypeCorrect`, `OneQueueEachSafe`**: for any station. A
  queue is adopted only from those that no sibling is bound to, and `bound`
  changes nowhere else; the types need that an adapter that acts has a plan
  (`ActHasPlan`) and that the cache holds looks. `OneQueueEachSafe` assumes that
  the printers are configured with different queues.
- **`QueueHealingProofs!RightStationSafe`**: until a guess had to be made no
  printer's tickets come out at another's device. `Station(owner)` is what it
  assumes of the station: the names of queues tell whose they are (a copy's
  suffix keeps the owner), no device is named like another's queue, and no two
  printers are of one model. (A remembered hardware id does not tell two
  printers of one model apart; what a guess may do is in `wrong_station`.) The
  inductive `HomeInv` says that all that is known or planned is at home: each
  queue points at a port of its owner, as it does in each look that is cached;
  what an adapter is bound to, remembers, holds across a repair or is about to
  do is its own. One change at a time breaks none of it, and each repair
  starts from a look, which may be old but is at home.
- **`PrinterRegistryProofs!TypeCorrect`, `DefaultServesSafe`,
  `PrintersKeptSafe`, `RegistryFollows`, `NoneForgottenSafe`**: for any printers and
  requests that overlap in any way, with edits and full disks at any time, which
  is more than the run allows.
  `PrintersKept` needs `FileKnown`: while the file parses and is as we last saw
  it, its printers are in the copy or were deleted here. The types need `MeantRecords`:
  a request that waits for an adapter holds one, for a printer.
  `RegistryFollowsConfig` speaks of moments without requests and is far from
  inductive; `FollowInv` says of each printer at any moment that its adapter is
  built from words that the schema reads as the present entry, or the manager was
  not told of the entry, or a request that awaits a `disconnect()` will settle it
  when it returns. It does not say that the words are the entry: they are not
  (`added_disabled`). `NoneForgotten` needs, while no two requests were about one
  printer, that a request that waits for an adapter waits for the registered one
  (`HoldsIts`). It does not say that an adapter that was told to disconnect stays
  away: that is the adapter's, and it does not (`removed_reconnects`).
- **`ServicesProofs!TypeCorrect`, `BackupsKeptSafe`, `AlertsConfirmedSafe`,
  `InstallsAnnouncedSafe`**: the types of all four services. `BackupsKept` needs
  that a run is young (its dump is of this step of the clock or the last one,
  which no retention reaches) and that a path is pruned only once it has its whole copy
  (`RunIsYoung`, `PrunedPathHasCopy`). `AlertsConfirmed` needs `EvidenceCounted`:
  a candidate has been seen as often as is counted, in a row, and less often than
  it takes as long as it is not believed. `InstallsAnnounced` needs `OnlyNewer`: what is downloaded or
  about to be installed is newer than what runs, and trusted only if signed.

Every invariant, every action property and the refinement that a passing run
checks is proved in this way; where a theorem has an assumption, it is named above
and the reason with it. Model-checked only is liveness (`JobsSettle`,
`TicketsAnswered`, `Recovers`, `ServiceReturns`, `QuitEnds`, `WritesAnswered`,
`RepairedUnattended`, `FindsItself`, `RequestsAttended`, `ToldOfRecovery`,
`ChangesSeen`, `PassAfterChange`, `WatcherSupervised`), which needs fairness and
ENABLED, out of the prover's reach.

## 11. Where the code and its documents disagree

`orphan_after_crash` is a run of `PROJECT.json` and its finding. The others are
reproduced by the configuration named (`tlc -config X.cfg MCmodule`), which TLC
refutes.

- **A job in flight when the process dies may stay 'processing'.**
  `recoverStaleJobs` takes only rows untouched for a minute and runs only at the
  start; the supervisor restarts the server after five seconds.
  (`orphan_after_crash`; with restarts after the minute, `queue_restart` shows
  that no row is orphaned and every job settles.)
- **A job given up may have lost what it should print.** After a crash of sql.js
  `rebuildDatabase` loads the last saved file (`src/queue/job-store.ts`
  186-212), in which a job that prints may still be 'pending'; it can then be
  cancelled, which drops its payload (427), and the failure of its worker afterwards
  makes the row 'dead_letter', or due for a retry, without one, against
  "dead_letter rows DO keep their payload: the Retry button re-renders from it"
  (`src/queue/job-store.ts` 757-758). (`payload_lost`, `MCPrintQueue`; without
  such a crash `RowsKeep` is proved)
- **A deleted printer is dialled again.** `disconnect()` clears the flag
  ("Prevent reconnection", `src/printers/network-adapter.ts` 259) by which its own
  'close' listener would know that it was meant, and the listener starts the
  ladder of an adapter that nobody knows any more. (`removed_reconnects`, `MCNetworkPrinter`)
- **A printer saved as enabled is driven as disabled.** `handleAddPrinter`
  registers the request's words (`src/api/server.ts` 1878) and ConfigManager keeps
  what the schema makes of them (`src/utils/config.ts` 616), where 'enabled' is
  true unless said otherwise. The manager refuses to connect a printer of which it
  was not said, though the answer is "it will connect automatically when it
  becomes reachable" (1910), until a restart. (`added_disabled`, `MCPrinterRegistry`; apart from what
  the schema fills in the two agree, `RegistryFollows`)
- **The first job after an idle release fails.** The worker asks for the status
  before it would connect, and no socket means OFFLINE. The job is charged an
  attempt and retried, so it prints later. (`idle_printer_refuses`,
  `MCNetworkPrinter`)
- **Reconnect cuts its own new connection.** The two-second timer of
  `disconnect()` is not cleared and destroys the socket of the moment.
  (`reconnect_cut_short`, `MCNetworkPrinter`)
- **A server can outlive its supervisor.** The channel's end is not heard during
  the start-up delay and the wait for the lock. (`supervisor_orphan`,
  `MCSupervision`)
- **A USB ticket is sent while the adapter believes the printer is gone.** The
  status is looked at when a write is queued, and the second pass and the next
  of the queue start whatever has been seen since. (`sends_disconnected`,
  `MCUsbPrinter`)
- **Another printer's registration removes a ticket's file.** The constructor's
  `cleanStaleTempFiles` cannot tell a crashed process's files from its own, and
  a file may go before PowerShell has read it; the second pass finds none
  either. (`ticket_file_removed`, `MCUsbPrinter`)
- **A disconnect that meets a write** drops the queued promises unsettled and
  clears `isWriting`: `OneSend` and `WritesAnswered` are claimed only for
  behaviours without it (`cut`).
- **A queue is moved to another station's device.** `pickMigrationPort` says
  "moving onto it would hijack that printer's device", yet a device with the
  remembered hardware id is taken before claimed ports are looked at
  (`src/printers/printer-resolver.ts` 419-424), and the only live port is taken
  as no guess (430) though the printer's own device may just be switched off.
  (`wrong_station`, `MCQueueHealing`; with the printer's own device attached,
  `RightStationIfAttached` holds)
- **A config.json that does not parse is overwritten.** `loadFailed` protects a
  file that was broken at the start; one that is broken later is merged as
  nothing and written over. (`broken_config_overwritten`, `MCPrinterRegistry`)
- **A degradation that stays may never be alerted.** One confirmed inside the
  rate limit is believed and silent (`src/health/health-alerter.ts` 123-128, on
  purpose), against "No single failure may be both silent and permanent"
  (`src/printers/printer-manager.ts` 68). (`lasting_fault_untold`, `MCServices`)
- **A restart swallows a recovery.** What was alerted is in memory, and the first
  sample of a process is believed in silence (`src/health/health-alerter.ts` 59,
  91-96), so nobody hears that a fault is over that ended during a restart,
  against "returning to healthy is always worth sending" (22). Of its own alerts a
  process takes back each (`ToldOfRecovery`). (`recovery_untold`, `MCServices`)
- **A reconcile may rest on a look from before the change.** `invalidate()`
  leaves a look that is under way, and the pass joins it, against "re-read
  Windows" (`src/printers/printer-manager.ts` 217-220). A later look corrects it
  (`ChangesSeen`). (`pass_sees_old_look`, `MCServices`)
- **A downloaded update may be one that cannot be installed.** After a check that
  finds a newer or an older release, `install()` says "Check for updates
  again", and only another download helps. (`ready_cannot_install`,
  `MCServices`)

Read in the code while modelling, and in the models as they are:

- `handleBackupRestore` (`src/api/server.ts` 1186-1207) awaits a fetch with no
  catch: a POS that does not answer is an unhandled rejection, which ends the
  whole process (`PolicyFails`). The dump's and the restore's streams have no
  'error' handler (`src/backup/backup-manager.ts` 125, 293).
- A request of the POS counts as handled before it runs, so one that is refused
  because an order began meanwhile gets a report and no backup
  (`src/backup/backup-scheduler.ts` 139-146); after a restart a handled one runs
  again; a report that is lost is not repeated; a backup hour that was missed is
  not made up for.
- A `mongodump` that cannot be started leaves its temporary file
  (`src/backup/backup-manager.ts` 141-146).
- The watcher's exit clears a debounce that was pending
  (`src/printers/device-watcher.ts` 302-305); the health check sees that change
  later. The fast interval after 'unavailable' is never slowed down again.

## 12. What is not modelled

Of the parts that the modules do model:

- *Two servers on one queue file.* A server that drains has given up the lock
  (`doStop`, `src/index.ts` 283-286) and still saves `queue.db` at the end;
  its successor may have loaded it already. `Supervision` shows that only one
  serves; that the drain's last save and the successor's saves are of one
  file is not in `PrintQueue`, which has one process at a time.
- *What the operating system does with bytes.* A print is done when the socket
  has taken them (`network-adapter.ts` 378-391) or the spooler has; what the
  printer loses after that is not seen by the code and not by the model
  ("ambiguous" covers the opposite: a failed print that came out). A USB send
  that timed out may print beside its second pass.
- *Which reply belongs to which query.* Two status queries at once share one
  socket and no tag (`network-adapter.ts` 434-518); `Answers` leaves the answer
  of a printer that is up at ONLINE.
- *Copies, schedules of retry delays, priorities of the templates*: a request for
  n copies is n requests, a delay is `RetryDue`.
- *The composition of `UsbPrinter` and `QueueHealing`*: the callers of one
  adapter and several adapters at one station are separate models, since their
  product is beyond TLC. Nor are the adapters composed with `PrintQueue`, in which
  a print succeeds or fails as it may.
- *The registry's rollback of names and metadata*: entries are what the registry
  tells apart, and an adapter that learns its queue's new name is a save.
- *Delivery of alerts*: a webhook that fails is not tried again by the code.

Parts that no module models: the origin policy and pairing (a decision on one
request and one list), network discovery and diagnosis, the roles of printers,
the decoding of status bytes (pure), ESC/POS bytes and templates (layout), the
validation and migration of settings (data), the dashboard's HTML and script, the
installer, tray and start-up, build and QA scripts, logging and metrics, the
PowerShell and C# helpers, the legacy installer. Nothing in most of them is a
matter of states and steps; the origin policy and the status bytes would be
operators checked against a reference definition, and are what to add first.

What would be proved next: what remains true of `AcceptedJobsKept` and of the
ledger after a failure (a job that a save has seen is not forgotten; a kill
prints at most one ticket too many for each worker), and the refinement of the
printers' part in `PrintQueue` by `NetworkPrinter` and `UsbPrinter`, which has no
abstract specification yet.

The hazards in `PROJECT.json` without properties say why.
