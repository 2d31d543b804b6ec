----------------------------- MODULE Supervision -----------------------------
(***************************************************************************)
(* The processes of one data directory: the supervisor (runSupervisor),    *)
(* the print servers it spawns (runServer), copies started by hand, and    *)
(* the lock file that lets one of them serve (InstanceLock).               *)
(*                                                                         *)
(* One step is one turn of one process, and processes interleave; reading  *)
(* the lock file and writing one's own into it are two steps.  A process   *)
(* is named by its PID, which is given out again after it ends.            *)
(***************************************************************************)
EXTENDS Naturals, FiniteSets

CONSTANTS
    Servers,        \* the PIDs that servers get
    Faults,         \* the kinds of failure that may happen
    MaxFaults,      \* at most so many failures and copies started by hand
    Installed       \* a machine-wide service may answer, and is deferred to

\* kill: a server dies at once.  hang: it does nothing more.  supervisor: the
\* supervisor dies at once.  byhand: another copy is started in the directory.
\* cold: a live server's heartbeat is 90 s old (sleep, a start that slow).
\* race: two servers take the lock at once.  torn: a look falls into the moment
\* in which the owner writes the file.  readonly: it cannot be written.
FaultKinds == {"kill", "hang", "supervisor", "byhand", "cold", "race", "torn",
               "readonly"}

None == "none"

\* Those that InstanceLock does not claim to withstand.
Weakening == {"cold", "race", "torn", "readonly"}

ASSUME SupervisionAssumption ==
    /\ None \notin Servers
    /\ Faults \subseteq FaultKinds
    /\ MaxFaults \in Nat
    /\ Installed \in BOOLEAN

VARIABLES
    sup,        \* the supervisor: "off", "up" or "quitting"
    watch,      \* its search for an installed service
    misses,     \* misses of deferLoop
    respawn,    \* a timer will call startChild
    child,      \* the server it spawned
    answering,  \* the installed service answers
    pc,         \* how far each server is
    linked,     \* its IPC channel is open
    asked,      \* a 'shutdown', or the channel's end, waits to be heard
    lock,       \* whose PID the lock file holds
    cold,       \* the file is older than the boot, or its heartbeat than 90 s
    reused,     \* its PID, of a dead server, now names some other program
    held,       \* acquired
    beating,    \* heartbeatTimer is set
    faults,     \* failures so far
    weakened    \* history: a weakening one was among them

supVars    == <<sup, watch, misses, respawn, child, answering>>
lockVars   == <<lock, cold, reused>>
serverVars == <<pc, linked, asked, held, beating>>
failVars   == <<faults, weakened>>
vars == <<supVars, lockVars, serverVars, failVars>>

\* The states in which runServer has registered its handlers.
Listening == {"starting", "running", "draining"}
Serving   == {"starting", "running"}
Alive     == {"delay", "waiting", "taking"} \cup Listening \cup {"hung"}

\* A PID that a new process may get.
Free(p) == pc[p] = "gone" /\ ~(lock = p /\ reused)

Fail(kind) ==
    /\ kind \in Faults
    /\ faults < MaxFaults
    /\ faults' = faults + 1
    /\ weakened' = (weakened \/ kind \in Weakening)

-----------------------------------------------------------------------------
(* The lock file (InstanceLock) *)

\* Mutant: the PID alone decides, as it once did.
StalePid == lock # None /\ pc[lock] = "gone" /\ ~reused

\* staleReason: before this boot, heartbeat gone cold, no such process.
Stale ==
    /\ lock # None
    /\ cold \/ (pc[lock] = "gone" /\ ~reused)

\* release by p: a lock of one's own is deleted, once.
Release(p) ==
    /\ held' = [held EXCEPT ![p] = FALSE]
    /\ beating' = [beating EXCEPT ![p] = FALSE]
    /\ IF held[p] /\ lock = p
       THEN lock' = None /\ cold' = FALSE /\ reused' = FALSE
       ELSE UNCHANGED lockVars

\* One look at the file by acquire().  A file that does not parse, which its
\* owner has opened and not yet written, is no lock.
Look(p) ==
    /\ pc[p] = "waiting"
    /\ \/ /\ lock = None \/ Stale
          /\ IF \E q \in Servers : pc[q] = "taking" THEN Fail("race")
             ELSE UNCHANGED failVars
       \/ /\ lock # None /\ ~Stale
          /\ pc[lock] \in Listening
          /\ Fail("torn")
    /\ pc' = [pc EXCEPT ![p] = "taking"]
    /\ UNCHANGED <<supVars, lockVars, linked, asked, held, beating>>

\* It writes its own PID; a file that cannot be written does not stop it.
\* The handlers are registered now, and a 'shutdown' that waits is heard.
Take(p) ==
    /\ pc[p] = "taking"
    /\ \/ /\ lock' = p
          /\ cold' = FALSE
          /\ reused' = FALSE
          /\ held' = [held EXCEPT ![p] = TRUE]
          /\ UNCHANGED failVars
       \/ /\ Fail("readonly")
          /\ UNCHANGED <<lockVars, held>>
    /\ pc' = [pc EXCEPT ![p] = "starting"]
    /\ UNCHANGED <<supVars, linked, asked, beating>>

\* A beat of the heartbeat: not over a lock that another process took.
Beat(p) ==
    /\ pc[p] \in Listening
    /\ beating[p]
    /\ IF lock \in {None, p}
       THEN lock' = p /\ cold' = FALSE /\ UNCHANGED <<reused, beating>>
       ELSE beating' = [beating EXCEPT ![p] = FALSE] /\ UNCHANGED lockVars
    /\ UNCHANGED <<supVars, pc, linked, asked, held, failVars>>

\* Ninety seconds without a beat, or a boot.
GrowsCold ==
    /\ lock # None
    /\ ~cold
    /\ IF pc[lock] \in Serving
       THEN Fail("cold")
       ELSE UNCHANGED failVars
    /\ cold' = TRUE
    /\ UNCHANGED <<supVars, serverVars, lock, reused>>

-----------------------------------------------------------------------------
(* A server ends *)

\* What the supervisor makes of the end of p.
ChildGone(p) ==
    IF child = p
    THEN child' = None /\ respawn' = (respawn \/ sup = "up")
    ELSE UNCHANGED <<child, respawn>>

\* process.exit(): the exit hook releases the lock.
Exit(p) ==
    /\ pc' = [pc EXCEPT ![p] = "gone"]
    /\ linked' = [linked EXCEPT ![p] = FALSE]
    /\ asked' = [asked EXCEPT ![p] = FALSE]
    /\ Release(p)
    /\ ChildGone(p)
    /\ UNCHANGED <<sup, watch, misses, answering>>

\* TerminateProcess: it does not.
Die(p) ==
    /\ pc' = [pc EXCEPT ![p] = "gone"]
    /\ linked' = [linked EXCEPT ![p] = FALSE]
    /\ asked' = [asked EXCEPT ![p] = FALSE]
    /\ held' = [held EXCEPT ![p] = FALSE]
    /\ beating' = [beating EXCEPT ![p] = FALSE]
    /\ \E r \in BOOLEAN : reused' = IF lock = p THEN r ELSE reused
    /\ UNCHANGED <<lock, cold>>
    /\ ChildGone(p)
    /\ UNCHANGED <<sup, watch, misses, answering>>

-----------------------------------------------------------------------------
(* The server (runServer) *)

\* The start-up delay is over.
Begin(p) ==
    /\ pc[p] = "delay"
    /\ pc' = [pc EXCEPT ![p] = "waiting"]
    /\ UNCHANGED <<supVars, lockVars, linked, asked, held, beating, failVars>>

\* Mutant: after the wait it starts all the same.
StartAnyway(p) ==
    /\ pc[p] = "waiting"
    /\ lock # None
    /\ ~Stale
    /\ pc' = [pc EXCEPT ![p] = "taking"]
    /\ UNCHANGED <<supVars, lockVars, linked, asked, held, beating, failVars>>

\* Twenty seconds, and the holder still lives.
StandDown(p) ==
    /\ pc[p] = "waiting"
    /\ lock # None
    /\ ~Stale
    /\ Exit(p)
    /\ UNCHANGED failVars

\* service.start() returns, and the heartbeat starts.
Started(p) ==
    /\ pc[p] = "starting"
    /\ pc' = [pc EXCEPT ![p] = "running"]
    /\ beating' = [beating EXCEPT ![p] = held[p]]
    /\ UNCHANGED <<supVars, lockVars, linked, asked, held, failVars>>

\* service.start() fails, or an uncaught exception: no drain.
Fails(p) ==
    /\ pc[p] \in Listening
    /\ Fail("kill")
    /\ Exit(p)

\* shutdown(): a server that runs hands the lock over and drains; one still
\* starting has nothing to stop.
Shutdown(p) ==
    \/ /\ pc[p] = "running"
       /\ pc' = [pc EXCEPT ![p] = "draining"]
       /\ Release(p)
       /\ UNCHANGED <<supVars, linked, asked>>
    \/ /\ pc[p] = "starting"
       /\ Exit(p)

\* A signal, the restart API, the trigger file, memory, age, a long sleep, or
\* the watchdog on /health.
Recycle(p) ==
    /\ pc[p] = "running"
    /\ Shutdown(p)
    /\ UNCHANGED failVars

\* The supervisor's 'shutdown' is heard once the handlers are there.
Hear(p) ==
    /\ asked[p]
    /\ Shutdown(p)
    /\ UNCHANGED failVars

\* The drain ends, or its fifteen seconds do.
Drained(p) ==
    /\ pc[p] = "draining"
    /\ Exit(p)
    /\ UNCHANGED failVars

Kill(p) ==
    /\ pc[p] \in Alive
    /\ Fail("kill")
    /\ Die(p)

Hang(p) ==
    /\ pc[p] \in Serving
    /\ Fail("hang")
    /\ pc' = [pc EXCEPT ![p] = "hung"]
    /\ UNCHANGED <<supVars, lockVars, linked, asked, held, beating>>

\* Somebody starts the program again in the same directory.
StartByHand(p) ==
    /\ Free(p)
    /\ Fail("byhand")
    /\ pc' = [pc EXCEPT ![p] = "delay"]
    /\ UNCHANGED <<supVars, lockVars, linked, asked, held, beating>>

-----------------------------------------------------------------------------
(* The supervisor (runSupervisor) *)

\* startChild, unless quitting or with a child; s is what starts it.
StartChild ==
    IF sup # "up" \/ child # None
    THEN UNCHANGED <<child, pc, linked>>
    ELSE \E p \in Servers :
            /\ Free(p)
            /\ child' = p
            /\ pc' = [pc EXCEPT ![p] = "delay"]
            /\ linked' = [linked EXCEPT ![p] = TRUE]

\* claimInstance: a second supervisor finds the pipe taken and leaves.
Launch ==
    /\ sup = "off"
    /\ sup' = "up"
    /\ watch' = "looking"
    /\ misses' = 0
    /\ respawn' = FALSE
    /\ UNCHANGED <<child, answering, lockVars, serverVars, failVars>>

\* The first look for an installed service decides who prints.
Decide ==
    /\ sup # "off"
    /\ watch = "looking"
    /\ IF answering
       THEN watch' = "deferring" /\ UNCHANGED <<child, pc, linked>>
       ELSE watch' = "done" /\ StartChild
    /\ UNCHANGED <<sup, misses, respawn, answering, lockVars, asked, held,
                   beating, failVars>>

\* DEFER_TAKEOVER_MISSES
TakeoverMisses == 3

\* deferLoop, a minute later.
DeferAgain ==
    /\ sup = "up"
    /\ watch = "deferring"
    /\ IF answering
       THEN misses' = 0 /\ UNCHANGED <<watch, child, pc, linked>>
       ELSE /\ misses' = misses + 1
            /\ IF misses + 1 >= TakeoverMisses
               THEN watch' = "done" /\ StartChild
               ELSE UNCHANGED <<watch, child, pc, linked>>
    /\ UNCHANGED <<sup, respawn, answering, lockVars, asked, held, beating,
                   failVars>>

Respawn ==
    /\ respawn
    /\ respawn' = FALSE
    /\ StartChild
    /\ UNCHANGED <<sup, watch, misses, answering, lockVars, asked, held,
                   beating, failVars>>

\* quit(): the child is asked to shut down.
Quit ==
    /\ sup = "up"
    /\ sup' = "quitting"
    /\ asked' = IF child = None THEN asked ELSE [asked EXCEPT ![child] = TRUE]
    /\ UNCHANGED <<watch, misses, respawn, child, answering, lockVars, pc,
                   linked, held, beating, failVars>>

\* Mutant: a child that does not answer is waited for.
StopChildNever == FALSE

\* After twenty seconds it is killed.
StopChild ==
    /\ sup = "quitting"
    /\ child # None
    /\ Die(child)
    /\ UNCHANGED failVars

SupervisorExits ==
    /\ sup = "quitting"
    /\ child = None
    /\ sup' = "off"
    /\ respawn' = FALSE
    /\ watch' = "done"
    /\ UNCHANGED <<misses, child, answering, lockVars, serverVars, failVars>>

\* The channel closes, which a child that has handlers, or is in the turn that
\* registers them, takes as a 'shutdown'; before that, nobody hears of it.
KillSupervisor ==
    /\ sup # "off"
    /\ Fail("supervisor")
    /\ sup' = "off"
    /\ respawn' = FALSE
    /\ watch' = "done"
    /\ child' = None
    /\ linked' = [p \in Servers |-> FALSE]
    /\ asked' = [p \in Servers |->
                  \/ asked[p]
                  \/ child = p /\ pc[p] \in Listening \cup {"taking"}]
    /\ UNCHANGED <<misses, answering, pc, held, beating, lockVars>>

InstalledChanges ==
    /\ Installed
    /\ answering' = ~answering
    /\ UNCHANGED <<sup, watch, misses, respawn, child, lockVars, serverVars,
                   failVars>>

-----------------------------------------------------------------------------
(* The specification *)

Init ==
    /\ sup = "off"
    /\ watch = "done"
    /\ misses = 0
    /\ respawn = FALSE
    /\ child = None
    /\ answering \in {FALSE, Installed}
    /\ pc = [p \in Servers |-> "gone"]
    /\ linked = [p \in Servers |-> FALSE]
    /\ asked = [p \in Servers |-> FALSE]
    /\ lock = None
    /\ cold = FALSE
    /\ reused = FALSE
    /\ held = [p \in Servers |-> FALSE]
    /\ beating = [p \in Servers |-> FALSE]
    /\ faults = 0
    /\ weakened = FALSE

Locking(p) == Look(p) \/ StandDown(p) \/ Take(p)

Server(p) ==
    \/ Begin(p)
    \/ Locking(p)
    \/ Beat(p)
    \/ Started(p)
    \/ Fails(p)
    \/ Recycle(p)
    \/ Hear(p)
    \/ Drained(p)
    \/ Kill(p)
    \/ Hang(p)
    \/ StartByHand(p)

Supervisor ==
    \/ Launch
    \/ Decide
    \/ DeferAgain
    \/ Respawn
    \/ Quit
    \/ StopChild
    \/ SupervisorExits
    \/ KillSupervisor

Next ==
    \/ \E p \in Servers : Server(p)
    \/ Supervisor
    \/ GrowsCold
    \/ InstalledChanges

Spec == Init /\ [][Next]_vars

\* Every process gets its turn, every timer fires, and time passes; who polls
\* the lock does not look only while another is taking it.  Nothing says that
\* a server ever recycles, or that a supervisor is ever started.
Fairness ==
    /\ \A p \in Servers :
          /\ WF_vars(Begin(p))
          /\ SF_vars(Locking(p))
          /\ WF_vars(Started(p))
          /\ WF_vars(Hear(p))
          /\ WF_vars(Drained(p))
    /\ WF_vars(Decide)
    /\ WF_vars(DeferAgain)
    /\ WF_vars(Respawn)
    /\ WF_vars(StopChild)
    /\ WF_vars(SupervisorExits)
    /\ WF_vars(lock # None /\ pc[lock] \notin Serving /\ GrowsCold)

FairSpec == Spec /\ Fairness

-----------------------------------------------------------------------------
(* Properties *)

\* Every variable keeps the values the code can give it.
TypeOK ==
    /\ sup \in {"off", "up", "quitting"}
    /\ watch \in {"looking", "deferring", "done"}
    /\ misses \in 0 .. 3
    /\ respawn \in BOOLEAN
    /\ child \in Servers \cup {None}
    /\ answering \in BOOLEAN
    /\ pc \in [Servers -> Alive \cup {"gone"}]
    /\ linked \in [Servers -> BOOLEAN]
    /\ asked \in [Servers -> BOOLEAN]
    /\ lock \in Servers \cup {None}
    /\ cold \in BOOLEAN
    /\ reused \in BOOLEAN
    /\ held \in [Servers -> BOOLEAN]
    /\ beating \in [Servers -> BOOLEAN]
    /\ faults \in 0 .. MaxFaults
    /\ weakened \in BOOLEAN

\* Two copies would overwrite each other's configuration: whoever is started,
\* killed, restarted or given a dead one's PID, at most one server of the
\* directory serves, the ones that drain aside.
OneServing ==
    ~weakened => \A p, q \in Servers :
                    pc[p] \in Serving /\ pc[q] \in Serving => p = q

\* A server that serves holds the lock, and nobody finds its lock stale.
ServerHoldsLock ==
    ~weakened => \A p \in Servers : pc[p] \in Serving => lock = p /\ ~cold

\* A supervisor that stays up has a server again and again, whatever died and
\* whatever lock it left behind - unless an installed service prints, or the
\* server hangs, which nobody but itself would notice.
ServiceReturns ==
    <>[](sup = "up" /\ ~answering /\ \A p \in Servers : pc[p] # "hung")
    => []<>(\E p \in Servers : pc[p] = "running")

\* Quit ends the supervisor, with its server, even one that hangs.
QuitEnds == sup = "quitting" ~> sup = "off"

\* "Leave cleanly rather than linger as an orphan holding the port": a server
\* whose supervisor is gone ends.
OrphansLeave ==
    \A p \in Servers : pc[p] # "gone" /\ ~linked[p] ~> pc[p] = "gone"

=============================================================================
