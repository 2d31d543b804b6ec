---------------------------- MODULE QueueHealing ----------------------------
(***************************************************************************)
(* How the printers of one station find their Windows queues again, and    *)
(* their queues the USB ports: printer-resolver and what USBPrinterAdapter *)
(* and WindowsPrintSystem do with it, for several printers at one spooler. *)
(*                                                                         *)
(* A printer has one adapter and one device.  Its adapter is bound to a    *)
(* queue by name; the queue points at a port; a device is plugged into a   *)
(* port.  Tickets come out wherever that chain ends.  Adapters repair it   *)
(* on their own, each from its own look at Windows.  UsbPrinter has the    *)
(* callers of one adapter; here an adapter has one caller at a time.       *)
(***************************************************************************)
EXTENDS Naturals, Sequences, FiniteSets

CONSTANTS
    Printers,   \* configured printers, and their devices
    Names,      \* names of queues
    PortsOf,    \* the USB ports that each device has, one for each socket it
                \* may be plugged into: Windows gives a port to one device
    ModelOf,    \* the hardware id of each printer's device
    FirstName,  \* the queue that each printer is configured with
    NameScore,  \* resolveQueue's score of two names: 850 but for a copy suffix
    DeviceNamedLike, \* which devices have a name that resembles a queue's
    Changes,    \* what may happen to the station
    MaxChanges  \* at most so many times

NoPort  == "no port"
NoModel == "no model"

Ports == UNION {PortsOf[p] : p \in Printers}

Models == {ModelOf[p] : p \in Printers}

ChangeKinds == {"move", "power", "flag", "jam", "rename", "remove",
                "spooler", "look", "repair", "restart"}

ASSUME HealingAssumption ==
    /\ IsFiniteSet(Printers)
    /\ NoPort \notin Ports
    /\ NoModel \notin Models
    /\ \A p \in Printers : PortsOf[p] # {}
    /\ \A p, q \in Printers : p # q => PortsOf[p] \cap PortsOf[q] = {}
    /\ FirstName \in [Printers -> Names]
    /\ NameScore \in [Names \X Names -> 0 .. 850]
    /\ DeviceNamedLike \subseteq Printers \X Names
    /\ Changes \subseteq ChangeKinds
    /\ MaxChanges \in Nat

VARIABLES
    queue,      \* Windows: the queues
    socket,     \* Windows: the port that each device is plugged into
    spooler,    \* Windows: the Print Spooler runs
    cache,      \* WindowsPrintSystem.cache: the last look, while it is fresh
    bound,      \* printerName of each adapter, and of config.json
    hints,      \* metadata of each printer, in memory and in config.json
    status,     \* _state.status
    healable,   \* _state.healable
    cooled,     \* HEAL_COOLDOWN_MS have passed since the last repair
    pc,         \* where each adapter's caller is
    plan,       \* the repairs it has left
    held,       \* what connect() will remember, read before the repair
    changes,    \* changes so far
    guessed     \* history: printers for which a port was chosen while their
                \* own device was not attached, or a queue of another name

windows == <<queue, socket, spooler>>
memory  == <<bound, hints>>
caller  == <<pc, plan, held>>
vars == <<windows, cache, memory, status, healable, cooled, caller, changes, guessed>>

QueueStates == {"ready", "paused", "error", "paper", "unreachable"}

NoQueue == [port |-> NoPort, offline |-> FALSE, state |-> "absent"]

Queues == [port : Ports, offline : BOOLEAN, state : QueueStates]

Hints == [port : Ports \cup {NoPort}, model : Models \cup {NoModel}]

NoHints == [port |-> NoPort, model |-> NoModel]

\* HealAction. A setPort has the ports that it may be about.
Repairs == [kind : {"restart", "rebind", "setPort", "clear", "resume"},
            name : Names, ports : SUBSET Ports]

Repair(k, n, ports) == [kind |-> k, name |-> n, ports |-> ports]

TypeOK ==
    /\ queue \in [Names -> Queues \cup {NoQueue}]
    /\ socket \in [Printers -> Ports \cup {NoPort}]
    /\ spooler \in BOOLEAN
    /\ bound \in [Printers -> Names]
    /\ hints \in [Printers -> Hints]
    /\ held \in [Printers -> Hints]
    /\ status \in [Printers -> {"UNKNOWN", "ONLINE", "OFFLINE", "ERROR", "PAPER_OUT"}]
    /\ healable \in [Printers -> BOOLEAN]
    /\ cooled \in [Printers -> BOOLEAN]
    /\ pc \in [Printers -> {"idle", "connect", "plan", "act", "after", "verify"}]
    /\ plan \in [Printers -> Seq(Repairs)]
    /\ changes \in 0 .. MaxChanges
    /\ guessed \subseteq Printers

-----------------------------------------------------------------------------
(* Looking at Windows *)

World == [queue |-> queue, socket |-> socket, spooler |-> spooler]

\* What is left of a look whose PowerShell failed: nothing, and no spooler.
EmptyView == [queue   |-> [n \in Names |-> NoQueue],
              socket  |-> [p \in Printers |-> NoPort],
              spooler |-> FALSE]

\* getSnapshot(0).  A look may fail.
Looks(v) ==
    /\ cache' = {v}
    /\ \/ v = World /\ UNCHANGED changes
       \/ /\ "look" \in Changes /\ changes < MaxChanges
          /\ v = EmptyView
          /\ changes' = changes + 1

Views == {World, EmptyView}

\* getSnapshot(): the last look for as long as it is fresh.
Sees(v) ==
    IF cache # {} THEN v \in cache /\ UNCHANGED <<cache, changes>> ELSE Looks(v)

SeenViews == IF cache # {} THEN cache ELSE Views

Live(v) == {v.socket[d] : d \in Printers} \ {NoPort}

-----------------------------------------------------------------------------
(* pickMigrationPort *)

\* The ports of devices with the model that we remember: the code takes the
\* first that Windows lists.
SameModel(p, v) ==
    {v.socket[d] : d \in {e \in Printers : ModelOf[e] = hints[p].model}} \ {NoPort}

\* Live ports that no other queue points at.
Unclaimed(n, v) ==
    Live(v) \ {v.queue[m].port : m \in {k \in Names \ {n} : v.queue[k] # NoQueue}}

NamedLike(n, v) ==
    {v.socket[d] : d \in {e \in Printers : <<e, n>> \in DeviceNamedLike}}

\* Mutant: any live port that no other queue points at.
SuggestedFree(p, n, v) == Unclaimed(n, v)

\* The ports that queue n of p may be moved to: the first of those that
\* Windows lists, and none when that would be a guess.
Suggested(p, n, v) ==
    LET free == Unclaimed(n, v)
    IN  CASE SameModel(p, v) # {} -> SameModel(p, v)
          [] SameModel(p, v) = {} /\ Cardinality(free) = 1 -> free
          [] SameModel(p, v) = {} /\ Cardinality(free) # 1 -> free \cap NamedLike(n, v)

-----------------------------------------------------------------------------
(* classifyStatus and planHealing *)

Says(s, printable, helps) == [status |-> s, printable |-> printable, healable |-> helps]

Attached(q, v) == q.port \in Live(v)

Migrated(q, v) == ~Attached(q, v) /\ Live(v) # {}

\* classifyStatus of a queue that is there: a real fault first, then a port
\* that moved; an offline printer only when two signs agree.
QueueVerdict(p, n, v) ==
    LET q == v.queue[n]
    IN  IF q.state = "paper" THEN Says("PAPER_OUT", FALSE, FALSE)
        ELSE IF Migrated(q, v) THEN Says("OFFLINE", FALSE, Suggested(p, n, v) # {})
        ELSE IF ~Attached(q, v) /\ (q.offline \/ q.state = "unreachable")
        THEN Says("OFFLINE", FALSE, FALSE)
        ELSE IF q.state \in {"error", "paused"} THEN Says("ERROR", FALSE, TRUE)
        ELSE Says("ONLINE", TRUE, q.offline)

\* What p makes of queue n: status, whether a ticket can be printed, whether a
\* repair may help.
Verdict(p, n, v) ==
    IF v.queue[n] = NoQueue THEN Says("OFFLINE", FALSE, TRUE)
    ELSE IF ~v.spooler THEN Says("ERROR", FALSE, TRUE)
    ELSE QueueVerdict(p, n, v)

\* Mutant: the queue is left at its port.
QueuePlanInPlace(p, n, v) ==
    IF v.queue[n].state \in {"paused", "error"} THEN <<Repair("resume", n, {})>> ELSE <<>>

If(condition, repair) == IF condition THEN <<repair>> ELSE <<>>

\* planHealing of a queue that is there: the repairs, in this order.
QueuePlan(p, n, v) ==
    LET q == v.queue[n]
    IN  If(Migrated(q, v) /\ Suggested(p, n, v) # {},
           Repair("setPort", n, Suggested(p, n, v)))
        \o If(q.offline /\ Attached(q, v), Repair("clear", n, {}))
        \o If(q.state \in {"paused", "error"}, Repair("resume", n, {}))

Plan(p, n, v) ==
    IF ~v.spooler THEN <<Repair("restart", n, {})>>
    ELSE IF v.queue[n] = NoQueue THEN <<Repair("rebind", n, {})>>
    ELSE QueuePlan(p, n, v)

-----------------------------------------------------------------------------
(* resolveQueue *)

\* Mutant: the queues of other printers are as good as any.
ClaimedNever(p) == {}

\* siblingQueueNames, which the manager keeps up to date.
Claimed(p) == {bound[q] : q \in Printers \ {p}}

\* How well queue n of view v fits p: its name, its port of old, a live port.
\* All queues here have the driver that we remember (260) and look like a
\* thermal printer's (90).
Score(p, n, v) ==
    NameScore[<<bound[p], n>>] + 350
    + (IF v.queue[n].port = hints[p].port THEN 140 ELSE 0)
    + (IF v.queue[n].port \in Live(v) THEN 150 ELSE 0)

\* Scores are compared after 300 were taken off a sibling's queue.
Penalty(p, n) == IF n \in Claimed(p) THEN 300 ELSE 0

\* The queues that p may adopt in place of one that is gone: the best, if it is
\* good, ahead of the others by 150, and nobody else's.
Adoptable(p, v) ==
    LET there == {n \in Names : v.queue[n] # NoQueue}
    IN  {n \in there \ Claimed(p) :
            /\ Score(p, n, v) >= 600
            /\ \A m \in there \ {n} :
                  Score(p, n, v) >= Score(p, m, v) + 150 - Penalty(p, m)}

\* resolveTarget: the queue of this name, or one that is adopted in its place,
\* or none. It leaves p bound to name n.
Resolves(p, v, n) ==
    /\ IF v.queue[bound[p]] = NoQueue /\ Adoptable(p, v) # {}
       THEN n \in Adoptable(p, v)
       ELSE n = bound[p]
    /\ bound' = [bound EXCEPT ![p] = n]
    /\ guessed' = IF n # bound[p] /\ NameScore[<<bound[p], n>>] < 850
                  THEN guessed \cup {p} ELSE guessed

-----------------------------------------------------------------------------
(* USBPrinterAdapter *)

\* buildHints: the port of queue q and the model of the device at it.
HintsOf(q, v) ==
    [port  |-> q.port,
     model |-> IF Attached(q, v)
               THEN ModelOf[CHOOSE d \in Printers : v.socket[d] = q.port]
               ELSE NoModel]

\* applyVerdict, and rememberIdentity of what is remembered if it can print.
Applies(p, d, remembered) ==
    /\ status' = [status EXCEPT ![p] = d.status]
    /\ healable' = [healable EXCEPT ![p] = d.healable]
    /\ hints' = IF d.printable THEN [hints EXCEPT ![p] = remembered] ELSE hints

Goes(p, where) == pc' = [pc EXCEPT ![p] = where]

Holds(p, h) == held' = [held EXCEPT ![p] = h]

\* getStatus, which anybody may ask for at any time.
GetStatus(p) ==
    \E v \in SeenViews, n \in Names :
        /\ Sees(v)
        /\ Resolves(p, v, n)
        /\ Applies(p, Verdict(p, n, v), HintsOf(v.queue[n], v))
        /\ UNCHANGED <<windows, cooled, caller>>

\* connect() begins: at start-up, in a health check, for a ticket, for the
\* operator.
Connect(p) ==
    /\ pc[p] = "idle"
    /\ status[p] # "ONLINE"
    /\ Goes(p, "connect")
    /\ UNCHANGED <<windows, cache, memory, status, healable, cooled, plan, held,
                   changes, guessed>>

\* connect() finds no queue.
ConnectFails(p) ==
    /\ pc[p] = "connect"
    /\ \E v \in SeenViews :
          /\ Sees(v)
          /\ v.queue[bound[p]] = NoQueue
          /\ Adoptable(p, v) = {}
    /\ status' = [status EXCEPT ![p] = "ERROR"]
    /\ Goes(p, "idle")
    /\ UNCHANGED <<windows, memory, healable, cooled, plan, held, guessed>>

\* connect() finds a queue, and asks for a repair if one may help: it waits
\* for that unless a ticket can be printed as it is.
Connects(p) ==
    /\ pc[p] = "connect"
    /\ \E v \in SeenViews, n \in Names :
          LET d == Verdict(p, n, v)
              waits == d.healable /\ ~d.printable
          IN  /\ Sees(v)
              /\ Resolves(p, v, n)
              /\ v.queue[n] # NoQueue
              /\ cooled' = [cooled EXCEPT ![p] = cooled[p] /\ ~d.healable]
              /\ Goes(p, IF d.healable /\ cooled[p] THEN "plan"
                         ELSE IF waits THEN "verify" ELSE "idle")
              /\ Holds(p, IF waits THEN HintsOf(v.queue[n], v) ELSE NoHints)
              /\ IF waits THEN UNCHANGED <<status, healable, hints>>
                 ELSE Applies(p, d, HintsOf(v.queue[n], v))
    /\ UNCHANGED <<windows, plan>>

\* heal() begins.
Heals(p) ==
    /\ pc[p] = "idle"
    /\ cooled' = [cooled EXCEPT ![p] = FALSE]
    /\ Goes(p, "plan")
    /\ UNCHANGED <<windows, cache, memory, status, healable, plan, held, guessed>>

\* The health check, and a device change, repair what may be repaired. When a
\* repair ran moments ago, or did not do, the check goes on with Connect.
AutoRepair(p) ==
    /\ status[p] \in {"OFFLINE", "ERROR"}
    /\ healable[p]
    /\ cooled[p]
    /\ Heals(p)
    /\ UNCHANGED changes

\* HEAL_COOLDOWN_MS pass.
CoolsDown(p) ==
    /\ pc[p] \in {"idle", "connect", "verify"}
    /\ ~cooled[p]
    /\ cooled' = [cooled EXCEPT ![p] = TRUE]
    /\ UNCHANGED <<windows, cache, memory, status, healable, caller, changes, guessed>>

\* heal() looks, and makes its plan.
MakesPlan(p) ==
    /\ pc[p] = "plan"
    /\ \E v \in Views :
          LET repairs == Plan(p, bound[p], v)
          IN  /\ Looks(v)
              /\ plan' = [plan EXCEPT ![p] = repairs]
              /\ Goes(p, IF repairs = <<>> THEN "after" ELSE "act")
              /\ guessed' = IF v.socket[p] = NoPort
                               /\ \E i \in DOMAIN repairs : repairs[i].kind = "setPort"
                            THEN guessed \cup {p} ELSE guessed
    /\ UNCHANGED <<windows, memory, status, healable, cooled, held>>

\* The next repair is over.
Repaired(p) ==
    /\ plan' = [plan EXCEPT ![p] = Tail(@)]
    /\ Goes(p, IF Tail(plan[p]) = <<>> THEN "after" ELSE "act")
    /\ UNCHANGED <<status, healable, hints, cooled, held>>

\* rebind is another resolveTarget().
Rebinds(p) ==
    /\ pc[p] = "act"
    /\ Head(plan[p]).kind = "rebind"
    /\ \E v \in SeenViews, n \in Names : Sees(v) /\ Resolves(p, v, n)
    /\ Repaired(p)
    /\ UNCHANGED windows

\* What becomes of queue q by a repair.
After(q, repair, port) ==
    CASE q = NoQueue               -> q
      [] q # NoQueue /\ repair.kind = "setPort" -> [q EXCEPT !.port = port]
      [] q # NoQueue /\ repair.kind = "clear"   -> [q EXCEPT !.offline = FALSE]
      [] q # NoQueue /\ repair.kind = "resume"  ->
             [q EXCEPT !.state = IF @ \in {"paused", "error"} THEN "ready" ELSE @]

\* setPort, clearWorkOffline, resumeQueue, restartSpooler: a PowerShell each,
\* after which the last look is worthless. It may fail.
RepairsWindows(p) ==
    LET repair == Head(plan[p])
    IN  /\ pc[p] = "act"
        /\ repair.kind # "rebind"
        /\ \/ /\ repair.kind = "restart"
              /\ spooler' = TRUE
              /\ UNCHANGED <<queue, changes>>
           \/ /\ repair.kind # "restart"
              /\ \E port \in repair.ports \cup {NoPort} :
                    /\ repair.kind = "setPort" => port # NoPort
                    /\ queue' = [queue EXCEPT ![repair.name] = After(@, repair, port)]
              /\ UNCHANGED <<spooler, changes>>
           \/ /\ "look" \in Changes
              /\ changes < MaxChanges
              /\ changes' = changes + 1
              /\ UNCHANGED <<queue, spooler>>
        /\ cache' = {}
        /\ Repaired(p)
        /\ UNCHANGED <<socket, bound, guessed>>

\* heal() looks again, and is done.
Healed(p) ==
    /\ pc[p] = "after"
    /\ \E v \in Views :
          /\ Looks(v)
          /\ Applies(p, Verdict(p, bound[p], v), HintsOf(v.queue[bound[p]], v))
    /\ Goes(p, IF held[p] = NoHints THEN "idle" ELSE "verify")
    /\ UNCHANGED <<windows, bound, cooled, plan, held, guessed>>

\* connect() looks a last time. What it remembers then is the queue as it was
\* before the repair.
Verifies(p) ==
    /\ pc[p] = "verify"
    /\ \E v \in Views :
          /\ Looks(v)
          /\ Applies(p, Verdict(p, bound[p], v), held[p])
    /\ Goes(p, "idle")
    /\ Holds(p, NoHints)
    /\ UNCHANGED <<windows, bound, cooled, plan, guessed>>

\* SNAPSHOT_TTL_MS pass, or a change is reported: invalidate().
CacheExpires ==
    /\ cache # {}
    /\ cache' = {}
    /\ UNCHANGED <<windows, memory, status, healable, cooled, caller, changes, guessed>>

-----------------------------------------------------------------------------
(* Outside *)

Change(kind) ==
    /\ kind \in Changes
    /\ changes < MaxChanges
    /\ changes' = changes + 1

\* The dashboard's Repair.
OperatorRepairs(p) ==
    /\ Change("repair")
    /\ Heals(p)

\* A device is plugged into another socket, or with its hub.
Move(d, port) ==
    /\ Change("move")
    /\ socket[d] \notin {NoPort, port}
    /\ socket' = [socket EXCEPT ![d] = port]
    /\ UNCHANGED <<queue, spooler>>

\* A device is switched off or unplugged, and on again in some socket.
Power(d, port) ==
    /\ Change("power")
    /\ (socket[d] = NoPort) # (port = NoPort)
    /\ socket' = [socket EXCEPT ![d] = port]
    /\ UNCHANGED <<queue, spooler>>

\* Windows, a user or the printer changes a queue.
Disturb(n, q) ==
    /\ \/ Change("flag") /\ q = [queue[n] EXCEPT !.offline = TRUE]
       \/ Change("jam") /\ \E s \in QueueStates \ {queue[n].state} :
                                q = [queue[n] EXCEPT !.state = s]
    /\ queue' = [queue EXCEPT ![n] = q]
    /\ UNCHANGED <<socket, spooler>>

\* A queue comes back from a reinstalled driver with a copy suffix, or without.
Rename(n, m) ==
    /\ Change("rename")
    /\ NameScore[<<n, m>>] = 850
    /\ queue[m] = NoQueue
    /\ queue' = [queue EXCEPT ![m] = queue[n], ![n] = NoQueue]
    /\ UNCHANGED <<socket, spooler>>

\* A queue is gone: its driver was uninstalled, or a user deleted it.
Remove(n) ==
    /\ Change("remove")
    /\ queue' = [queue EXCEPT ![n] = NoQueue]
    /\ UNCHANGED <<socket, spooler>>

SpoolerStops ==
    /\ Change("spooler")
    /\ spooler
    /\ spooler' = FALSE
    /\ UNCHANGED <<queue, socket>>

WindowsChanges ==
    /\ \/ \E d \in Printers : \E port \in PortsOf[d] \cup {NoPort} :
             Power(d, port) \/ (port # NoPort /\ Move(d, port))
       \/ \E n \in {m \in Names : queue[m] # NoQueue} :
             \/ \E q \in Queues : Disturb(n, q)
             \/ \E m \in Names : Rename(n, m)
             \/ Remove(n)
       \/ SpoolerStops
    /\ UNCHANGED <<cache, memory, status, healable, cooled, caller, guessed>>

All(value) == [p \in Printers |-> value]

\* The station as it was set up: the queues are there, each device in its
\* first socket, and the printers have been seen.
Init ==
    /\ socket = [p \in Printers |-> CHOOSE port \in PortsOf[p] : TRUE]
    /\ queue = [n \in Names |->
                   IF \E p \in Printers : FirstName[p] = n
                   THEN [port |-> socket[CHOOSE p \in Printers : FirstName[p] = n],
                         offline |-> FALSE, state |-> "ready"]
                   ELSE NoQueue]
    /\ spooler = TRUE
    /\ bound = FirstName
    /\ hints = [p \in Printers |-> [port |-> socket[p], model |-> ModelOf[p]]]
    /\ cache = {}
    /\ status = All("UNKNOWN")
    /\ healable = All(FALSE)
    /\ cooled = All(TRUE)
    /\ pc = All("connect")
    /\ plan = All(<<>>)
    /\ held = All(NoHints)
    /\ changes = 0
    /\ guessed = {}

\* The process ends at any point and another one starts, in which every adapter
\* connects, all at once.
Restart ==
    /\ Change("restart")
    /\ cache' = {}
    /\ status' = All("UNKNOWN")
    /\ healable' = All(FALSE)
    /\ cooled' = All(TRUE)
    /\ pc' = All("connect")
    /\ plan' = All(<<>>)
    /\ held' = All(NoHints)
    /\ UNCHANGED <<windows, memory, guessed>>

Step(p) ==
    \/ Connects(p) \/ ConnectFails(p)
    \/ MakesPlan(p) \/ Rebinds(p) \/ RepairsWindows(p)
    \/ Healed(p) \/ Verifies(p)

Next ==
    \/ \E p \in Printers :
          \/ Step(p)
          \/ GetStatus(p)
          \/ Connect(p)
          \/ AutoRepair(p)
          \/ OperatorRepairs(p)
          \/ CoolsDown(p)
    \/ CacheExpires
    \/ WindowsChanges
    \/ Restart

Spec == Init /\ [][Next]_vars

\* Timers run: the health check asks and repairs, PowerShell ends or is
\* killed, the cooldown and the cache run out.
Fairness ==
    /\ WF_vars(CacheExpires)
    /\ \A p \in Printers :
          /\ WF_vars(Step(p))
          /\ WF_vars(GetStatus(p))
          /\ WF_vars(AutoRepair(p))
          /\ WF_vars(CoolsDown(p))

FairSpec == Spec /\ Fairness

-----------------------------------------------------------------------------
(* Properties *)

\* A printer's tickets come out at another printer's device.
WrongStation(p) ==
    /\ queue[bound[p]] # NoQueue
    /\ \E d \in Printers \ {p} : socket[d] = queue[bound[p]].port

\* Whatever moves, whoever repairs at once, no printer's tickets come out at
\* another's device: "A wrong guess would send order tickets to the bar, so
\* this one is left for a human to decide" (pickMigrationPort).
RightStation == \A p \in Printers : ~WrongStation(p)

\* The same, as long as no queue was moved to a port while the device of its
\* own printer was not attached, and none adopted that has another name.
RightStationIfAttached == guessed = {} => RightStation

\* No two printers come to use one queue, whatever is renamed and whoever
\* looks for a queue at the same time.
OneQueueEach == \A p, q \in Printers : p # q => bound[p] # bound[q]

Prints(p) ==
    /\ status[p] = "ONLINE"
    /\ spooler
    /\ queue[bound[p]] # NoQueue
    /\ queue[bound[p]].port = socket[p]

\* p can be found: its device is attached and known, and there is a queue that
\* is its own or may be adopted, and nothing that takes a human.
Findable(p) ==
    /\ socket[p] # NoPort
    /\ hints[p].model = ModelOf[p]
    /\ guessed = {}
    /\ IF queue[bound[p]] = NoQueue THEN Adoptable(p, World) # {}
       ELSE queue[bound[p]].state \notin {"paper", "unreachable"}

\* A printer that stays findable prints again, whatever became of its port,
\* its flags, its queue's name, the spooler, and with nobody at the station.
FindsItself == \A p \in Printers : <>[]Findable(p) => <>[]Prints(p)

=============================================================================

