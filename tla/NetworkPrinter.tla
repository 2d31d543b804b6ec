--------------------------- MODULE NetworkPrinter ---------------------------
(***************************************************************************)
(* One network printer: the adapter that holds its TCP connection          *)
(* (NetworkPrinterAdapter) and what PrinterManager does with it: the       *)
(* prints of the job workers and of the drawer button, the health check,   *)
(* and the operator's Reconnect and Delete.                                *)
(*                                                                         *)
(* One step is one turn of the event loop: a socket event, a timer, or the *)
(* continuation of an await.  A promise that settles runs its waiters in   *)
(* the same step.  A socket that was destroyed reports it ('error',        *)
(* 'close') before any later timer fires or connection opens.              *)
(***************************************************************************)
EXTENDS Naturals

CONSTANTS
    Clients,                \* those who print: job workers, the drawer button
    MaxReconnectAttempts,   \* maxReconnectAttempts
    IdleRelease,            \* idleReleaseMs > 0
    Operations              \* what the operator does

OperationKinds == {"reconnect", "unregister"}

ASSUME NetworkPrinterAssumption ==
    /\ MaxReconnectAttempts \in Nat
    /\ IdleRelease \in BOOLEAN
    /\ Operations \subseteq OperationKinds

VARIABLES
    peer,           \* "up": the printer takes our connection and answers
    socket,         \* this.socket, and what has become of it
    closing,        \* the event a destroyed socket has yet to report
    connecting,     \* connectionPromise is pending
    released,       \* releasedForIdle
    reconnecting,   \* reconnecting
    timer,          \* reconnectTimer: set, or its callback awaits connect
    attempts,       \* reconnectAttempts
    status,         \* _state.status
    connected,      \* _state.isConnected
    quiet,          \* idleReleaseMs has passed since lastJobAt
    checking,       \* healthCheckInterval runs
    probe,          \* the adapter's own health check awaits the printer
    check,          \* PrinterManager's health check, and what it awaits
    pc,             \* where each client is
    admin,          \* the operator's operation under way
    reaper,         \* the two-second timer of disconnect() is set
    registered,     \* PrinterManager still has the adapter
    crashed         \* an 'error' event that nobody listens to

link    == <<socket, closing, connecting>>
ladder  == <<reconnecting, timer, attempts>>
view    == <<status, connected>>
control == <<admin, reaper, registered>>
vars == <<peer, link, released, ladder, view, quiet, checking, probe, check,
          pc, control, crashed>>

-----------------------------------------------------------------------------

\* this.socket && !this.socket.destroyed
Live == socket \in {"open", "ending"}

\* What getStatus may find; a printer that says nothing counts as ONLINE.
Answers == IF peer = "up" THEN {"ONLINE"} ELSE {"ONLINE", "OFFLINE", "ERROR"}

Resting == {"idle", "printed", "failed"}
Writing == {"opening", "sending"}

\* Mutant: connect() does not look at the socket it has.
DiallingAnyway == TRUE

\* connect(): a connection is being made after the call, and its caller waits.
Dialling == connecting \/ ~Live

\* Mutant: giving up leaves the flag set.
ScheduleStuck(s, r) ==
    IF attempts >= MaxReconnectAttempts
    THEN /\ status' = "OFFLINE"
         /\ reconnecting' = r
         /\ timer' = "off"
         /\ UNCHANGED attempts
    ELSE /\ status' = s
         /\ reconnecting' = r
         /\ timer' = "set"
         /\ attempts' = attempts + 1

\* scheduleReconnect, with status s and the reconnecting flag at r.
Schedule(s, r) ==
    IF attempts >= MaxReconnectAttempts
    THEN /\ status' = "OFFLINE"
         /\ reconnecting' = FALSE
         /\ timer' = "off"
         /\ UNCHANGED attempts
    ELSE /\ status' = s
         /\ reconnecting' = r
         /\ timer' = "set"
         /\ attempts' = attempts + 1

HandleDisconnect ==
    /\ socket' = "none"
    /\ connected' = FALSE
    /\ IF reconnecting
       THEN status' = "OFFLINE" /\ UNCHANGED ladder
       ELSE Schedule("OFFLINE", TRUE)

\* settle(s), the end of every getStatus
Settle(s) ==
    /\ status' = s
    /\ connected' = (s # "OFFLINE" /\ Live)

\* sendStatusRequest: writing to a socket already ended destroys it.
AskStatus ==
    /\ socket' = IF socket = "ending" THEN "dead" ELSE socket
    /\ closing' = IF socket = "ending" THEN "error" ELSE closing
    /\ UNCHANGED connecting

-----------------------------------------------------------------------------
(* Printing *)

\* PrinterManager.print by client c, the adapter calling itself connected or
\* not.  A connect() that returns at once has not made it so.
SendTicket(c, isConnected) ==
    /\ pc' = [pc EXCEPT ![c] = IF ~registered THEN "failed"
                               ELSE IF isConnected THEN "queued"
                               ELSE IF Dialling THEN "connect" ELSE "failed"]
    /\ connecting' = IF registered /\ ~isConnected THEN Dialling
                     ELSE connecting
    /\ UNCHANGED <<socket, closing>>

\* A worker asks for the status first: no socket is OFFLINE, and the job fails.
BeginJob(c) ==
    /\ registered
    /\ pc[c] \in Resting
    /\ IF Live
       THEN /\ pc' = [pc EXCEPT ![c] = "status"]
            /\ AskStatus
            /\ UNCHANGED view
       ELSE /\ pc' = [pc EXCEPT ![c] = "failed"]
            /\ Settle("OFFLINE")
            /\ UNCHANGED link
    /\ UNCHANGED <<peer, released, ladder, quiet, checking, probe, check,
                   control, crashed>>

JobAnswered(c) ==
    /\ pc[c] = "status"
    /\ \E s \in Answers :
          /\ Settle(s)
          /\ IF s = "OFFLINE"
             THEN pc' = [pc EXCEPT ![c] = "failed"] /\ UNCHANGED link
             ELSE SendTicket(c, Live)
    /\ UNCHANGED <<peer, released, ladder, quiet, checking, probe, check,
                   control, crashed>>

\* The drawer button prints without asking.
OpenDrawer(c) ==
    /\ registered
    /\ pc[c] \in Resting
    /\ SendTicket(c, connected)
    /\ UNCHANGED <<peer, released, ladder, view, quiet, checking, probe,
                   check, control, crashed>>

\* Mutant: isWriting is not looked at.
MayAlwaysWrite == TRUE

\* ~isWriting
MayWrite == \A c \in Clients : pc[c] \notin Writing

\* processWriteQueue.  The queue's order is left open.
NextWrite(c) ==
    /\ pc[c] = "queued"
    /\ MayWrite
    /\ \/ /\ ~Live
          /\ released' = FALSE
          /\ connecting' = Dialling
          /\ pc' = [pc EXCEPT ![c] = "opening"]
          /\ UNCHANGED <<socket, closing, quiet>>
       \/ /\ socket = "open"
          /\ quiet' = FALSE
          /\ pc' = [pc EXCEPT ![c] = "sending"]
          /\ UNCHANGED <<link, released>>
       \/ /\ socket = "ending"
          /\ quiet' = FALSE
          /\ pc' = [pc EXCEPT ![c] = "failed"]
          /\ socket' = "dead"
          /\ closing' = "error"
          /\ UNCHANGED <<connecting, released>>
    /\ UNCHANGED <<peer, ladder, view, checking, probe, check, control,
                   crashed>>

\* The bytes are with the operating system.
WriteDone(c) ==
    /\ pc[c] = "sending"
    /\ Live
    /\ pc' = [pc EXCEPT ![c] = "printed"]
    /\ quiet' = FALSE
    /\ UNCHANGED <<peer, link, released, ladder, view, checking, probe, check,
                   control, crashed>>

WriteTimesOut(c) ==
    /\ pc[c] = "sending"
    /\ Live
    /\ pc' = [pc EXCEPT ![c] = "failed"]
    /\ socket' = "dead"
    /\ closing' = "close"
    /\ UNCHANGED <<peer, connecting, released, ladder, view, quiet, checking,
                   probe, check, control, crashed>>

-----------------------------------------------------------------------------
(* Connecting *)

\* doConnect succeeds, and all who waited go on.
Connected ==
    /\ connecting
    /\ peer = "up"
    /\ closing = "no"
    /\ connecting' = FALSE
    /\ socket' = "open"
    /\ status' = "ONLINE"
    /\ connected' = TRUE
    /\ attempts' = 0
    /\ checking' = TRUE
    /\ timer' = IF timer = "waiting" THEN "off" ELSE timer
    /\ reconnecting' = (reconnecting /\ timer # "waiting")
    /\ check' = IF check = "connect" THEN "idle" ELSE check
    /\ pc' = [c \in Clients |-> IF pc[c] = "connect" THEN "queued"
                                ELSE IF pc[c] = "opening" THEN "sending"
                                ELSE pc[c]]
    /\ quiet' = (quiet /\ \A c \in Clients : pc[c] # "opening")
    /\ UNCHANGED <<peer, closing, released, probe, control, crashed>>

\* Mutant: a write that waits for the connection is not told.
RejectedCallers ==
    [c \in Clients |-> IF pc[c] = "connect" THEN "failed" ELSE pc[c]]

\* All who wait for the connection fail with it.
Rejected ==
    [c \in Clients |-> IF pc[c] \in {"connect", "opening"} THEN "failed"
                       ELSE pc[c]]

\* Refused, or not answered in time.
ConnectFails ==
    /\ connecting
    /\ peer = "down"
    /\ connecting' = FALSE
    /\ connected' = FALSE
    /\ \E refused \in BOOLEAN :
          /\ crashed' = (refused /\ ~registered)
          /\ LET s == IF refused THEN "ERROR" ELSE "OFFLINE"
             IN  IF timer = "waiting" THEN Schedule(s, reconnecting)
                 ELSE status' = s /\ UNCHANGED ladder
    /\ check' = IF check = "connect" THEN "idle" ELSE check
    /\ pc' = Rejected
    /\ UNCHANGED <<peer, socket, closing, released, quiet, checking, probe,
                   control>>

\* The reconnect timer: connect(), and no more ladder when that succeeds.
TimerFires ==
    /\ timer = "set"
    /\ closing = "no"
    /\ connecting' = Dialling
    /\ timer' = IF Dialling THEN "waiting" ELSE "off"
    /\ reconnecting' = (reconnecting /\ Dialling)
    /\ UNCHANGED <<peer, socket, closing, released, attempts, view, quiet,
                   checking, probe, check, pc, control, crashed>>

\* Start-up, or the machine wakes from sleep: connectAll.  Also what is left
\* of reconnect() for a printer that is not connected.
ConnectAll ==
    /\ registered
    /\ connecting' = Dialling
    /\ UNCHANGED <<peer, socket, closing, released, ladder, view, quiet,
                   checking, probe, check, pc, control, crashed>>

-----------------------------------------------------------------------------
(* Losing the connection *)

AdminAfter == IF admin = "reconnect" THEN "pause" ELSE "idle"

Disconnecting == admin \in OperationKinds

\* The operation whose disconnect() has just resolved goes on.
DisconnectResolved ==
    /\ admin' = AdminAfter
    /\ registered' = (registered /\ admin # "unregister")

\* The socket is destroyed and reports it: 'error' if err, then 'close'.
\* Its write fails with it.
SocketGone(err) ==
    /\ closing' = "no"
    /\ pc' = [c \in Clients |-> IF pc[c] = "sending" THEN "failed" ELSE pc[c]]
    /\ crashed' = (err /\ ~registered)
    /\ \/ /\ ~reconnecting
          /\ err \/ ~released
          /\ HandleDisconnect
       \/ /\ reconnecting \/ (released /\ ~err)
          /\ socket' = IF released \/ Disconnecting \/ socket = "none"
                       THEN "none" ELSE "dead"
          /\ status' = IF Disconnecting THEN "OFFLINE"
                       ELSE IF err THEN "ERROR" ELSE status
          /\ connected' = (connected /\ ~err /\ ~Disconnecting)
          /\ UNCHANGED ladder
    /\ IF Disconnecting THEN DisconnectResolved
       ELSE UNCHANGED <<admin, registered>>
    /\ UNCHANGED <<peer, connecting, released, quiet, checking, probe, check,
                   reaper>>

\* The printer or the network ends the connection.
ConnectionLost ==
    /\ Live
    /\ \E err \in BOOLEAN : SocketGone(err)

\* A socket destroyed here reports it.
DestroyedSocketReports ==
    /\ closing # "no"
    /\ SocketGone(closing = "error")

PeerChanges ==
    /\ peer' = IF peer = "up" THEN "down" ELSE "up"
    /\ UNCHANGED <<link, released, ladder, view, quiet, checking, probe,
                   check, pc, control, crashed>>

-----------------------------------------------------------------------------
(* Health checks *)

TimePasses ==
    /\ IdleRelease
    /\ ~quiet
    /\ quiet' = TRUE
    /\ UNCHANGED <<peer, link, released, ladder, view, checking, probe, check,
                   pc, control, crashed>>

\* maybeReleaseIdle would hang up.
Releasable ==
    /\ IdleRelease
    /\ quiet
    /\ Live
    /\ MayWrite
    /\ \A c \in Clients : pc[c] # "queued"

\* The adapter's thirty-second interval, one of three.
NoticeLoss ==
    /\ checking
    /\ ~Live
    /\ HandleDisconnect
    /\ UNCHANGED <<peer, closing, connecting, released, quiet, checking,
                   probe, check, pc, control, crashed>>

ReleaseIdle ==
    /\ checking
    /\ Releasable
    /\ released' = TRUE
    /\ checking' = FALSE
    /\ status' = "ONLINE"
    /\ connected' = FALSE
    /\ socket' = "ending"
    /\ UNCHANGED <<peer, closing, connecting, ladder, quiet, probe, check, pc,
                   control, crashed>>

Probe ==
    /\ checking
    /\ probe = "idle"
    /\ Live
    /\ ~Releasable
    /\ probe' = "status"
    /\ AskStatus
    /\ UNCHANGED <<peer, released, ladder, view, quiet, checking, check, pc,
                   control, crashed>>

ProbeAnswered ==
    /\ probe = "status"
    /\ probe' = "idle"
    /\ \E s \in Answers : Settle(s)
    /\ UNCHANGED <<peer, link, released, ladder, quiet, checking, check, pc,
                   control, crashed>>

\* Mutant: only a faulty printer is connected to again.
ConnectIfFaulty(s) ==
    IF registered /\ s = "ERROR" /\ Dialling
    THEN check' = "connect" /\ connecting' = TRUE
    ELSE check' = "idle" /\ UNCHANGED connecting

\* After a check of PrinterManager's that found s: connect() unless it is well.
ConnectUnlessWell(s) ==
    IF registered /\ s \in {"OFFLINE", "ERROR"} /\ Dialling
    THEN check' = "connect" /\ connecting' = TRUE
    ELSE check' = "idle" /\ UNCHANGED connecting

\* PrinterManager's own thirty-second check.
Check ==
    /\ registered
    /\ check = "idle"
    /\ IF Live
       THEN check' = "status" /\ AskStatus /\ UNCHANGED view
       ELSE /\ Settle("OFFLINE")
            /\ ConnectUnlessWell("OFFLINE")
            /\ UNCHANGED <<socket, closing>>
    /\ UNCHANGED <<peer, released, ladder, quiet, checking, probe, pc,
                   control, crashed>>

CheckAnswered ==
    /\ check = "status"
    /\ \E s \in Answers : Settle(s) /\ ConnectUnlessWell(s)
    /\ UNCHANGED <<peer, socket, closing, released, ladder, quiet, checking,
                   probe, pc, control, crashed>>

-----------------------------------------------------------------------------
(* The operator *)

\* unregisterPrinter, or reconnect() of a printer that is connected: both
\* await disconnect(), which returns at once when there is no socket.
Disconnect(op) ==
    /\ op \in Operations
    /\ admin = "idle"
    /\ registered
    /\ op = "reconnect" => connected
    /\ checking' = FALSE
    /\ reconnecting' = FALSE
    /\ timer' = IF timer = "set" THEN "off" ELSE timer
    /\ \/ /\ socket = "none"
          /\ admin' = IF op = "reconnect" THEN "pause" ELSE "idle"
          /\ registered' = (op # "unregister")
          /\ UNCHANGED <<socket, reaper>>
       \/ /\ socket # "none"
          /\ admin' = op
          /\ socket' = IF socket = "open" THEN "ending" ELSE socket
          /\ reaper' = TRUE
          /\ UNCHANGED registered
    /\ UNCHANGED <<peer, closing, connecting, released, attempts, view, quiet,
                   probe, check, pc, crashed>>

\* Two seconds after disconnect() ended its socket, whatever this.socket is
\* by now is destroyed.
ReaperFires ==
    /\ reaper
    /\ reaper' = FALSE
    /\ closing' = IF Live THEN "close" ELSE closing
    /\ IF Disconnecting
       THEN /\ socket' = "none"
            /\ status' = "OFFLINE"
            /\ connected' = FALSE
            /\ DisconnectResolved
       ELSE /\ socket' = IF Live THEN "dead" ELSE socket
            /\ UNCHANGED <<view, admin, registered>>
    /\ UNCHANGED <<peer, connecting, released, ladder, quiet, checking, probe,
                   check, pc, crashed>>

\* Half a second later, reconnect() connects.
Reconnect ==
    /\ admin = "pause"
    /\ admin' = "idle"
    /\ connecting' = Dialling
    /\ UNCHANGED <<peer, socket, closing, released, ladder, view, quiet,
                   checking, probe, check, pc, reaper, registered, crashed>>

-----------------------------------------------------------------------------
(* The specification *)

Init ==
    /\ peer = "up"
    /\ socket = "none"
    /\ closing = "no"
    /\ connecting = FALSE
    /\ released = FALSE
    /\ reconnecting = FALSE
    /\ timer = "off"
    /\ attempts = 0
    /\ status = "UNKNOWN"
    /\ connected = FALSE
    /\ quiet = FALSE
    /\ checking = FALSE
    /\ probe = "idle"
    /\ check = "idle"
    /\ pc = [c \in Clients |-> "idle"]
    /\ admin = "idle"
    /\ reaper = FALSE
    /\ registered = TRUE
    /\ crashed = FALSE

Client(c) ==
    \/ BeginJob(c)
    \/ JobAnswered(c)
    \/ OpenDrawer(c)
    \/ NextWrite(c)
    \/ WriteDone(c)
    \/ WriteTimesOut(c)

Connection ==
    \/ Connected
    \/ ConnectFails
    \/ TimerFires
    \/ ConnectAll
    \/ ConnectionLost
    \/ DestroyedSocketReports

Health ==
    \/ TimePasses
    \/ NoticeLoss
    \/ ReleaseIdle
    \/ Probe
    \/ ProbeAnswered
    \/ Check
    \/ CheckAnswered

Operator ==
    \/ \E op \in OperationKinds : Disconnect(op)
    \/ ReaperFires
    \/ Reconnect

Next ==
    /\ ~crashed
    /\ \/ \E c \in Clients : Client(c)
       \/ Connection
       \/ PeerChanges
       \/ Health
       \/ Operator

Spec == Init /\ [][Next]_vars

\* A timer that is set fires, a destroyed socket reports it, an answer comes
\* or its wait ends, and the write queue is first come, first served.
Running(A) == ~crashed /\ A

Fairness ==
    /\ WF_vars(Running(Connected \/ ConnectFails))
    /\ WF_vars(Running(DestroyedSocketReports))
    /\ WF_vars(Running(TimerFires))
    /\ WF_vars(Running(Check))
    /\ WF_vars(Running(CheckAnswered))
    /\ WF_vars(Running(ReaperFires))
    /\ WF_vars(Running(Reconnect))
    /\ \A c \in Clients :
          /\ WF_vars(Running(JobAnswered(c)))
          /\ WF_vars(Running(WriteDone(c) \/ WriteTimesOut(c)))
          /\ SF_vars(Running(NextWrite(c)))

FairSpec == Spec /\ Fairness

-----------------------------------------------------------------------------
(* Properties *)

\* Every variable keeps the values the code can give it.
TypeOK ==
    /\ peer \in {"up", "down"}
    /\ socket \in {"none", "open", "ending", "dead"}
    /\ closing \in {"no", "close", "error"}
    /\ connecting \in BOOLEAN
    /\ released \in BOOLEAN
    /\ reconnecting \in BOOLEAN
    /\ timer \in {"off", "set", "waiting"}
    /\ attempts \in 0 .. MaxReconnectAttempts
    /\ status \in {"UNKNOWN", "ONLINE", "OFFLINE", "ERROR"}
    /\ connected \in BOOLEAN
    /\ quiet \in BOOLEAN
    /\ checking \in BOOLEAN
    /\ probe \in {"idle", "status"}
    /\ check \in {"idle", "status", "connect"}
    /\ pc \in [Clients -> Resting \cup Writing
                            \cup {"status", "connect", "queued"}]
    /\ admin \in OperationKinds \cup {"idle", "pause"}
    /\ reaper \in BOOLEAN
    /\ registered \in BOOLEAN
    /\ crashed \in BOOLEAN

\* The printer takes one connection at a time: of the six callers of connect()
\* - ladder, two health checks, workers, write queue, operator - none dials
\* while the printer still has the last connection.
OneConnection == connecting => ~Live

\* The reconnecting flag keeps every other path from starting the ladder, so
\* it must not outlive it: while it is set a timer is set, or the timer's
\* connect() is under way.
LadderAlive ==
    /\ reconnecting => timer \in {"set", "waiting"}
    /\ timer = "waiting" => connecting

\* The write queue sends one ticket at a time over the one connection, and
\* never waits for a connection that nobody is making.
OneWriter ==
    /\ \A c, d \in Clients : {pc[c], pc[d]} \subseteq Writing => c = d
    /\ \A c \in Clients : pc[c] \in {"connect", "opening"} => connecting

\* Whoever handed the adapter a ticket learns what became of it, whatever the
\* printer, the network and the operator do meanwhile.
TicketsAnswered ==
    \A c \in Clients : pc[c] \notin Resting ~> pc[c] \in Resting \/ crashed

\* A printer that comes back and stays is connected again, and again after
\* every idle release, even when the reconnect ladder has given up.
Recovers == <>[](peer = "up" /\ registered) => []<>connected

\* disconnect() means to prevent reconnection: nothing dials a printer that
\* has been removed.
RemovedStaysAway == [][~registered /\ connecting' => connecting]_vars

\* A connection let go for idleness comes back with the next job: no job fails
\* because its printer, which is well, had been idle.
IdlePrinterPrints ==
    [][\A c \in Clients :
          released /\ socket = "none" /\ peer = "up" /\ pc[c] \in Resting
          /\ pc'[c] # pc[c] => pc'[c] # "failed"]_vars

\* disconnect() forces its own connection closed after a timeout, and not one
\* that was made since: nobody here destroys an open connection while no
\* operation is under way, but a write that timed out.
NewConnectionKept ==
    [][socket = "open" /\ closing' # "no" /\ admin = "idle"
       => \E c \in Clients : pc[c] = "sending" /\ pc'[c] = "failed"]_vars

=============================================================================
