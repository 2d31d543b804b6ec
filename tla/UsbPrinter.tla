----------------------------- MODULE UsbPrinter -----------------------------
(***************************************************************************)
(* One USB printer: USBPrinterAdapter over a queue of the Windows spooler, *)
(* and what PrinterManager, the print workers, the drawer button and the   *)
(* operator do with it.                                                    *)
(*                                                                         *)
(* Everything the adapter knows it asks a PowerShell process: a step is    *)
(* the code between two awaits of one caller, and callers interleave.      *)
(***************************************************************************)
EXTENDS Naturals, Sequences, FiniteSets

CONSTANTS
    Clients,        \* those who print: a job's worker, the drawer button
    Managers,       \* the health interval, a device change, an operator
    AtFirst,        \* how the Windows queue may be at the start
    World,          \* what may become of it
    Operations,     \* what an operator may do, and the device watcher
    MaxOperations,  \* at most so many of these
    MaxWriteQueue   \* MAX_WRITE_QUEUE_SIZE

\* What classifyStatus makes of the queue in each state of the world.
\* flagged: a stale "Use Printer Offline".  stuck: paused, in error, on a port
\* that moved.  gone: no queue of this name, and none to take its place.
Verdict ==
    [ready     |-> [status |-> "ONLINE",    printable |-> TRUE,  healable |-> FALSE],
     flagged   |-> [status |-> "ONLINE",    printable |-> TRUE,  healable |-> TRUE],
     stuck     |-> [status |-> "ERROR",     printable |-> FALSE, healable |-> TRUE],
     paper     |-> [status |-> "PAPER_OUT", printable |-> FALSE, healable |-> FALSE],
     unplugged |-> [status |-> "OFFLINE",   printable |-> FALSE, healable |-> FALSE],
     gone      |-> [status |-> "OFFLINE",   printable |-> FALSE, healable |-> TRUE]]

Statuses == {"UNKNOWN", "ONLINE", "OFFLINE", "ERROR", "PAPER_OUT"}

\* reconnect: the dashboard's Reconnect.  repair: its Repair.  register:
\* another USB printer is added or edited, which constructs an adapter.
\* reconcile: a device is plugged in or out.
OperationKinds == {"reconnect", "repair", "register", "reconcile"}

\* What a manager is about; "check" is the health interval's round.
Errands == {"check", "reconcile", "repair", "reconnect"}

\* background: the repair that connect() starts and does not wait for.
Callers == Clients \cup Managers \cup {"background"}

ASSUME UsbPrinterAssumption ==
    /\ Clients \cap Managers = {}
    /\ "background" \notin Clients \cup Managers
    /\ World \subseteq DOMAIN Verdict
    /\ AtFirst \subseteq DOMAIN Verdict
    /\ "ready" \in World
    /\ Operations \subseteq OperationKinds
    /\ MaxOperations \in Nat
    /\ MaxWriteQueue \in Nat

VARIABLES
    windows,    \* the Windows queue as it is
    past,       \* what a snapshot of the last seconds may still say
    status,     \* _state.status
    connected,  \* _state.isConnected
    healable,   \* _state.healable
    failures,   \* _state.consecutiveFailures, up to 3
    cooling,    \* a repair began less than HEAL_COOLDOWN_MS ago
    queue,      \* writeQueue
    writing,    \* isWriting
    file,       \* the client's temporary file exists
    pass,       \* how many passes sendToPrinter has begun for the client
    inConnect,  \* the caller is inside connect()
    errand,     \* what the manager is about, or was
    pc,         \* the await of each caller
    operations, \* operations so far
    cut         \* history: disconnect() has met a write

world == <<windows, past>>
state == <<status, connected, healable, failures>>
sends == <<queue, writing, file, pass>>
ops   == <<operations, cut>>
vars == <<world, state, cooling, sends, inConnect, errand, pc, ops>>

\* The awaits.  lost: for ever, for a promise that nobody will settle.
Healing == {"heal.look", "heal.act", "heal.after"}
Awaits  == Healing \cup {"rest", "status", "pause", "resolve", "recheck",
                         "queued", "send", "spool", "lost"}

\* c has a send under way, or the repair between its two passes.
Sends(c) == pc[c] \in {"send", "spool"} \/ (pc[c] \in Healing /\ ~inConnect[c])

TypeOK ==
    /\ windows \in AtFirst \cup World
    /\ past \subseteq AtFirst \cup World
    /\ status \in Statuses
    /\ connected \in BOOLEAN
    /\ healable \in BOOLEAN
    /\ failures \in 0..3
    /\ cooling \in BOOLEAN
    /\ queue \in Seq(Clients)
    /\ writing \in BOOLEAN
    /\ file \in [Clients -> BOOLEAN]
    /\ pass \in [Clients -> 0..2]
    /\ inConnect \in [Callers -> BOOLEAN]
    /\ errand \in [Managers -> Errands]
    /\ pc \in [Callers -> Awaits]
    /\ operations \in 0..MaxOperations
    /\ cut \in BOOLEAN

\* At the start all callers rest, but for those who stay away altogether.
InitWithout(away) ==
    /\ windows \in AtFirst
    /\ past = {}
    /\ status = "UNKNOWN"
    /\ connected = FALSE
    /\ healable = FALSE
    /\ failures = 0
    /\ cooling = FALSE
    /\ queue = <<>>
    /\ writing = FALSE
    /\ file = [c \in Clients |-> FALSE]
    /\ pass = [c \in Clients |-> 0]
    /\ inConnect = [a \in Callers |-> FALSE]
    /\ errand = [m \in Managers |-> "check"]
    /\ pc = [a \in Callers |-> IF a \in away THEN "lost" ELSE "rest"]
    /\ operations = 0
    /\ cut = FALSE

Init == InitWithout({})

Move(a, to) == pc' = [pc EXCEPT ![a] = to]

\* Three failures in a row make an ERROR, and more do not make more of one.
Failed == IF failures < 3 THEN failures + 1 ELSE 3

\* getSnapshot: a cached one, or one that was begun before the last change.
View == {windows} \cup past

-----------------------------------------------------------------------------
(* What the adapter concludes *)

\* applyVerdict
Apply(v) ==
    /\ status' = Verdict[v].status
    /\ connected' = Verdict[v].printable
    /\ healable' = Verdict[v].healable
    /\ UNCHANGED failures

\* handleConnectionError
ConnectionError ==
    /\ status' = "ERROR"
    /\ connected' = FALSE
    /\ failures' = Failed
    /\ UNCHANGED healable

\* The end of connect(): applyVerdict, and handleConnectionSuccess.
Settle(v) ==
    /\ status' = Verdict[v].status
    /\ connected' = Verdict[v].printable
    /\ healable' = Verdict[v].healable
    /\ failures' = IF Verdict[v].printable THEN 0 ELSE failures

\* push, then processQueue: the head of the queue is sent unless one is.
\* The callers that do something else now are given in base.
Enqueue(c, base) ==
    IF Len(queue) >= MaxWriteQueue
    THEN /\ pc' = [base EXCEPT ![c] = "rest"]
         /\ UNCHANGED sends
    ELSE LET q == Append(queue, c)
         IN  IF writing
             THEN /\ queue' = q
                  /\ pc' = [base EXCEPT ![c] = "queued"]
                  /\ UNCHANGED <<writing, file, pass>>
             ELSE /\ queue' = Tail(q)
                  /\ writing' = TRUE
                  /\ file' = [file EXCEPT ![Head(q)] = TRUE]
                  /\ pass' = [pass EXCEPT ![Head(q)] = 1]
                  /\ pc' = [base EXCEPT ![c] = "queued", ![Head(q)] = "send"]

\* connect() has settled, and its caller goes on: a client writes if the
\* adapter is connected now.
AfterConnect(a, isConnected, base) ==
    /\ inConnect' = [inConnect EXCEPT ![a] = FALSE]
    /\ IF a \in Clients /\ isConnected
       THEN Enqueue(a, base)
       ELSE /\ pc' = [base EXCEPT ![a] = "rest"]
            /\ UNCHANGED sends

Connect(a) ==
    /\ Move(a, "resolve")
    /\ inConnect' = [inConnect EXCEPT ![a] = TRUE]

-----------------------------------------------------------------------------
(* Windows *)

\* Bound: once in the life of a snapshot, repairs not counted.
WorldChanges ==
    /\ past = {}
    /\ \E w \in World \ {windows} :
          /\ windows' = w
          /\ past' = {windows}
    /\ UNCHANGED <<state, cooling, sends, inConnect, errand, pc, errand, ops>>

\* Snapshots from before the last change are too old, and none is being made.
ViewExpires ==
    /\ past # {}
    /\ past' = {}
    /\ UNCHANGED <<windows, state, cooling, sends, inConnect, errand, pc, errand, ops>>

CooldownEnds ==
    /\ cooling
    /\ cooling' = FALSE
    /\ UNCHANGED <<world, state, sends, inConnect, errand, pc, errand, ops>>

-----------------------------------------------------------------------------
(* PrinterManager.print *)

\* A worker asks for the status first.
BeginJob(c) ==
    /\ pc[c] = "rest"
    /\ Move(c, "status")
    /\ UNCHANGED <<world, state, cooling, sends, inConnect, errand, ops>>

\* A printer that is OFFLINE fails the job, one that is not connected is
\* connected first.
JobStatus(c) ==
    /\ pc[c] = "status"
    /\ \E v \in View :
          /\ Apply(v)
          /\ \/ /\ Verdict[v].status = "OFFLINE"
                /\ Move(c, "rest")
                /\ UNCHANGED <<sends, inConnect>>
             \/ /\ Verdict[v].printable
                /\ Enqueue(c, pc)
                /\ UNCHANGED inConnect
             \/ /\ ~Verdict[v].printable
                /\ Verdict[v].status # "OFFLINE"
                /\ Connect(c)
                /\ UNCHANGED sends
    /\ UNCHANGED <<world, cooling, errand, ops>>

\* The drawer button prints without asking.
OpenDrawer(c) ==
    /\ pc[c] = "rest"
    /\ IF connected
       THEN Enqueue(c, pc) /\ UNCHANGED inConnect
       ELSE Connect(c) /\ UNCHANGED sends
    /\ UNCHANGED <<world, state, cooling, errand, ops>>

-----------------------------------------------------------------------------
(* connect() *)

\* resolveTarget finds no queue, and connect() throws.
ResolvesNothing(a) ==
    /\ pc[a] = "resolve"
    /\ "gone" \in View
    /\ ConnectionError
    /\ AfterConnect(a, FALSE, pc)
    /\ UNCHANGED <<world, cooling, errand, ops>>

\* A queue that does not print but may be repaired is, and looked at again.
ResolvesBroken(a) ==
    /\ pc[a] = "resolve"
    /\ \E v \in View \ {"gone"} : ~Verdict[v].printable /\ Verdict[v].healable
    /\ Move(a, IF cooling THEN "recheck" ELSE "heal.look")
    /\ cooling' = TRUE
    /\ UNCHANGED <<world, state, sends, inConnect, errand, ops>>

\* Any other is taken as it is; one with a stale flag is repaired meanwhile.
Resolves(a) ==
    /\ pc[a] = "resolve"
    /\ \E v \in View :
          LET verdict == Verdict[v]
              repairs == verdict.healable /\ ~cooling
                         /\ pc["background"] = "rest"
          IN  /\ verdict.printable \/ ~verdict.healable
              /\ Settle(v)
              /\ AfterConnect(a, verdict.printable,
                     IF repairs THEN [pc EXCEPT !["background"] = "heal.look"]
                     ELSE pc)
              /\ cooling' = (cooling \/ repairs)
    /\ UNCHANGED <<world, errand, ops>>

\* The look after the repair.
Rechecks(a) ==
    /\ pc[a] = "recheck"
    /\ \E v \in View :
          Settle(v) /\ AfterConnect(a, Verdict[v].printable, pc)
    /\ UNCHANGED <<world, cooling, errand, ops>>

-----------------------------------------------------------------------------
(* heal() *)

\* The first look, and the plan made of it: only flagged and stuck queues
\* have anything that may be done about them.
HealLooks(a) ==
    /\ pc[a] = "heal.look"
    /\ \E v \in View :
          Move(a, IF v \in {"flagged", "stuck"} THEN "heal.act"
                  ELSE "heal.after")
    /\ UNCHANGED <<world, state, cooling, sends, inConnect, errand, ops>>

\* The repairs run; a queue that is not broken any more is not harmed.
HealActs(a) ==
    /\ pc[a] = "heal.act"
    /\ IF windows \in {"flagged", "stuck"}
       THEN windows' = "ready" /\ past' = past \cup {windows}
       ELSE UNCHANGED world
    /\ Move(a, "heal.after")
    /\ UNCHANGED <<state, cooling, sends, inConnect, errand, ops>>

\* Where heal()'s caller goes on, now that the verdict is v: connect() looks
\* again, sendToPrinter has its second pass, the others connect what is not.
AfterHeal(a, v) ==
    IF inConnect[a] THEN Move(a, "recheck") /\ UNCHANGED inConnect
    ELSE IF a \in Clients THEN Move(a, "send") /\ UNCHANGED inConnect
    ELSE IF a \in Managers /\ errand[a] = "check"
            /\ Verdict[v].status # "ONLINE" THEN Connect(a)
    ELSE Move(a, "rest") /\ UNCHANGED inConnect

\* The last look and its verdict.
HealEnds(a) ==
    /\ pc[a] = "heal.after"
    /\ \E v \in View : Apply(v) /\ AfterHeal(a, v)
    /\ pass' = IF a \in Clients /\ ~inConnect[a]
               THEN [pass EXCEPT ![a] = 2] ELSE pass
    /\ UNCHANGED <<world, cooling, queue, writing, file, errand, ops>>

-----------------------------------------------------------------------------
(* sendToPrinter *)

\* PowerShell reads the temporary file.
ReadsFile(c) ==
    /\ pc[c] = "send"
    /\ file[c]
    /\ Move(c, "spool")
    /\ UNCHANGED <<world, state, cooling, sends, inConnect, errand, ops>>

\* The write is answered: the file goes, and the next in the queue is sent.
Answered(c) ==
    /\ pass' = [pass EXCEPT ![c] = 0]
    /\ file' = [file EXCEPT ![c] = FALSE]
    /\ writing' = FALSE
    /\ Move(c, "rest")
    /\ UNCHANGED <<world, cooling, queue, inConnect, errand, ops>>

\* The spooler took the bytes, which it does for a printer out of paper too.
Spooled(c) ==
    /\ pc[c] = "spool"
    /\ windows # "gone"
    /\ status' = "ONLINE"
    /\ connected' = TRUE
    /\ failures' = 0
    /\ UNCHANGED healable
    /\ Answered(c)

\* A pass may fail when the file is not there, or Windows is not well; the
\* thirty seconds run out in the same case.
PassMayFail(c) ==
    \/ pc[c] = "send" /\ ~file[c]
    \/ pc[c] = "spool" /\ windows # "ready"

\* The first pass fails: heal(true), whatever the cooldown.
FirstPassFails(c) ==
    /\ PassMayFail(c)
    /\ pass[c] = 1
    /\ Move(c, "heal.look")
    /\ cooling' = TRUE
    /\ UNCHANGED <<world, state, sends, inConnect, errand, ops>>

\* Mutant: the flag that a write is under way is left set.
GivesUpStuck(c) ==
    /\ PassMayFail(c)
    /\ pass[c] = 2
    /\ failures' = Failed
    /\ IF Failed = 3
       THEN status' = "ERROR" /\ connected' = FALSE
       ELSE UNCHANGED <<status, connected>>
    /\ pass' = [pass EXCEPT ![c] = 0]
    /\ file' = [file EXCEPT ![c] = FALSE]
    /\ Move(c, "rest")
    /\ UNCHANGED <<world, cooling, queue, inConnect, healable, writing, errand, ops>>

\* The second one does.
GivesUp(c) ==
    /\ PassMayFail(c)
    /\ pass[c] = 2
    /\ failures' = Failed
    /\ IF Failed = 3
       THEN status' = "ERROR" /\ connected' = FALSE
       ELSE UNCHANGED <<status, connected>>
    /\ UNCHANGED healable
    /\ Answered(c)

\* Mutant: isWriting is not looked at.
NextWriteAnyway ==
    /\ queue # <<>>
    /\ queue' = Tail(queue)
    /\ writing' = TRUE
    /\ file' = [file EXCEPT ![Head(queue)] = TRUE]
    /\ pass' = [pass EXCEPT ![Head(queue)] = 1]
    /\ Move(Head(queue), "send")
    /\ UNCHANGED <<world, state, cooling, inConnect, errand, ops>>

\* processQueue, from setImmediate
NextWrite ==
    /\ ~writing
    /\ NextWriteAnyway

-----------------------------------------------------------------------------
(* The health interval, a device change, the operator *)

Operate(kind) ==
    /\ kind \in Operations
    /\ operations < MaxOperations
    /\ operations' = operations + 1

Begin(m, kind, to) ==
    /\ pc[m] = "rest"
    /\ errand' = [errand EXCEPT ![m] = kind]
    /\ Move(m, to)

\* The health interval fires: getStatus.
Asks(m) ==
    /\ Begin(m, "check", "status")
    /\ UNCHANGED <<world, state, cooling, sends, inConnect, ops>>

\* A change is reconciled: the same.
Reconcile(m) ==
    /\ Operate("reconcile")
    /\ Begin(m, "reconcile", "status")
    /\ UNCHANGED <<world, state, cooling, sends, inConnect, cut>>

\* Mutant: the health check only looks.
CheckLooks(m) ==
    /\ m \in Managers
    /\ pc[m] = "status"
    /\ \E v \in View : Apply(v)
    /\ Move(m, "rest")
    /\ UNCHANGED <<world, cooling, sends, inConnect, errand, ops>>

\* A printer that is OFFLINE or in ERROR is repaired, if it can be and none
\* was lately; the health check then connects it.
Checks(m) ==
    /\ m \in Managers
    /\ pc[m] = "status"
    /\ \E v \in View :
          LET broken  == Verdict[v].status \in {"OFFLINE", "ERROR"}
              repairs == broken /\ Verdict[v].healable /\ ~cooling
          IN  /\ Apply(v)
              /\ cooling' = (cooling \/ repairs)
              /\ IF repairs THEN Move(m, "heal.look") /\ UNCHANGED inConnect
                 ELSE IF broken /\ errand[m] = "check" THEN Connect(m)
                 ELSE Move(m, "rest") /\ UNCHANGED inConnect
    /\ UNCHANGED <<world, sends, errand, ops>>

\* The dashboard's Repair: heal(true).
Repair(m) ==
    /\ Operate("repair")
    /\ Begin(m, "repair", "heal.look")
    /\ cooling' = TRUE
    /\ UNCHANGED <<world, state, sends, inConnect, cut>>

\* Reconnect hangs up first: disconnect() drops the writes that wait.
Reconnect(m) ==
    /\ Operate("reconnect")
    /\ pc[m] = "rest"
    /\ errand' = [errand EXCEPT ![m] = "reconnect"]
    /\ cut' = (cut \/ (connected /\ (writing \/ queue # <<>>)))
    /\ IF connected
       THEN /\ queue' = <<>>
            /\ writing' = FALSE
            /\ status' = "OFFLINE"
            /\ connected' = FALSE
            /\ pc' = [a \in Callers |-> IF a = m THEN "pause"
                                        ELSE IF pc[a] = "queued" THEN "lost"
                                        ELSE pc[a]]
       ELSE /\ Move(m, "pause")
            /\ UNCHANGED <<queue, writing, status, connected>>
    /\ UNCHANGED <<world, healable, failures, cooling, file, pass, inConnect>>

\* Half a second later it connects.
ReconnectGoesOn(m) ==
    /\ m \in Managers
    /\ pc[m] = "pause"
    /\ Connect(m)
    /\ UNCHANGED <<world, state, cooling, sends, errand, ops>>

\* The constructor of another adapter: cleanStaleTempFiles.
RegisterAnother ==
    /\ Operate("register")
    /\ \E c \in Clients : file[c]
    /\ file' = [c \in Clients |-> FALSE]
    /\ UNCHANGED <<world, state, cooling, queue, writing, pass, inConnect, errand, pc, cut>>

-----------------------------------------------------------------------------
Goes(a) ==
    \/ ResolvesNothing(a)
    \/ ResolvesBroken(a)
    \/ Resolves(a)
    \/ Rechecks(a)
    \/ HealLooks(a)
    \/ HealActs(a)
    \/ HealEnds(a)
    \/ Checks(a)

Writes(c) ==
    \/ JobStatus(c)
    \/ ReadsFile(c)
    \/ Spooled(c)
    \/ FirstPassFails(c)
    \/ GivesUp(c)

Next ==
    \/ WorldChanges
    \/ ViewExpires
    \/ CooldownEnds
    \/ \E a \in Callers : Goes(a)
    \/ \E c \in Clients : BeginJob(c) \/ OpenDrawer(c) \/ Writes(c)
    \/ NextWrite
    \/ \E m \in Managers : \/ Asks(m)
                          \/ Reconcile(m)
                          \/ Repair(m)
                          \/ Reconnect(m)
                          \/ ReconnectGoesOn(m)
    \/ RegisterAnother

Spec == Init /\ [][Next]_vars

\* What a timer or the end of a process brings about.  The world, those who
\* print and the operator are not fair.
Fairness ==
    /\ WF_vars(ViewExpires)
    /\ WF_vars(CooldownEnds)
    /\ \A a \in Callers : WF_vars(Goes(a))
    /\ \A c \in Clients : WF_vars(Writes(c))
    /\ WF_vars(NextWrite)
    /\ \A m \in Managers : WF_vars(Asks(m)) /\ WF_vars(ReconnectGoesOn(m))

FairSpec == Spec /\ Fairness

-----------------------------------------------------------------------------
(* Properties *)

\* At most one ticket is on its way to the spooler, the repair between its two
\* passes included, and isWriting says so (processQueue): raw bytes of two
\* tickets sent by two processes at once arrive in any order.
OneSend ==
    ~cut => /\ \A c, d \in Clients : Sends(c) /\ Sends(d) => c = d
            /\ \A c \in Clients : Sends(c) => writing

\* Every write is answered: whoever has called write() gets a result, through
\* failed passes, repairs and the writes before it.
WritesAnswered ==
    \A c \in Clients :
        pc[c] \in {"queued", "send", "spool"} ~> pc[c] = "rest" \/ cut

\* A printer that is left able to print, if need be after the repairs that the
\* service knows, ends up connected with nobody at the dashboard, as long as the
\* health interval runs.
RepairedUnattended ==
    /\ \E m \in Managers : pc[m] # "lost"
    /\ <>[][~WorldChanges]_vars
    /\ <>[](windows \in {"ready", "flagged", "stuck"})
    => <>[]connected

\* A ticket's temporary file is there until it has been read:
\* cleanStaleTempFiles removes "stale .bin temp files left behind by previous
\* process crashes".
TicketFileKept == \A c \in Clients : pc[c] = "send" => file[c]

\* A send starts only on a printer that the adapter believes connected: "Refuse
\* the write so the job stays in our queue and retries, rather than spooling
\* into Windows where it would surface hours later".
SendsOnlyWhenConnected ==
    [][\A c \in Clients : pc[c] # "send" /\ pc'[c] = "send" => connected']_vars

=============================================================================
