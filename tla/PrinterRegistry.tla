--------------------------- MODULE PrinterRegistry ---------------------------
(***************************************************************************)
(* Which printers there are: config.json, ConfigManager's copy of it, and  *)
(* PrinterManager's adapters, with the requests that change all three.     *)
(*                                                                         *)
(* A request is a handler of ApiServer. It runs in one turn up to the end  *)
(* of an adapter's disconnect(), a look at Windows, or a connect(), and    *)
(* other requests run meanwhile. Nothing keeps two of them off one printer.*)
(***************************************************************************)
EXTENDS Naturals, FiniteSets

CONSTANTS
    Printers,   \* printer ids
    Entries,    \* what may be said of a printer
    Adapters,   \* adapter objects that may exist at once
    Requests,   \* requests that may be under way at once
    Example,    \* the printers of config.example.json
    MaxEdits    \* at most so many edits by others, and disks that fill up

\* A printer's entry. Not usable: it passes the schema, but no adapter can be
\* built for it (a USB printer without a queue name). A request need not say
\* whether the printer is enabled.
Confs == [usable : BOOLEAN, isDefault : BOOLEAN, enabled : {"yes", "no", "unsaid"}]

\* The schema fills in what is not said. What has been through it says it all.
Parsed(c) == IF c.enabled = "unsaid" THEN [c EXCEPT !.enabled = "yes"] ELSE c

ParsedConfs == {c \in Confs : c.enabled # "unsaid"}

NoConf    == [usable |-> FALSE, isDefault |-> FALSE, enabled |-> "nowhere"]
NoAdapter == "no adapter"
NoPrinter == "no printer"

ASSUME RegistryAssumption ==
    /\ Entries \subseteq Confs
    /\ Example \in [Printers -> ParsedConfs \cup {NoConf}]
    /\ NoAdapter \notin Adapters
    /\ NoPrinter \notin Printers
    /\ MaxEdits \in Nat

VARIABLES
    mem,        \* ConfigManager.config.printers
    file,       \* what config.json says of printers, as long as it parses
    broken,     \* config.json does not parse, or not validate
    changed,    \* config.json is not as we last read or wrote it
    loadFailed, \* ConfigManager.loadFailed
    deleted,    \* ConfigManager.deletedPrinterIds
    registry,   \* PrinterManager.printers
    built,      \* the entry that a registered adapter was built from
    default,    \* PrinterManager.defaultPrinterId
    live,       \* adapters that hold a connection, or try to have one
    lingering,  \* adapters that do so although they were told to disconnect
    request,    \* the requests under way
    diskFull,   \* config.json cannot be written
    edits,      \* edits so far
    unapplied,  \* history: entries that ConfigManager has and PrinterManager
                \* has not heard of: merged from the file, or not saved
    overlapped  \* history: two requests were under way for one printer

config  == <<mem, file, broken, changed, deleted, unapplied>>
manager == <<registry, built, default>>
links   == <<live, lingering>>
outside == <<loadFailed, diskFull, edits>>
vars == <<config, manager, links, request, overlapped, outside>>

\* A request: where it waits, for what, and what it holds.
NoRequest == [await |-> "nothing", kind |-> "none", printer |-> NoPrinter,
              entry |-> NoConf, adapter |-> NoAdapter]

RequestRecords ==
    [await : {"nothing", "look", "disconnect", "connect"},
     kind : {"none", "add", "update", "delete", "reconnect"},
     printer : Printers \cup {NoPrinter},
     entry : Entries \cup {NoConf},
     adapter : Adapters \cup {NoAdapter}]

TypeOK ==
    /\ mem \in [Printers -> ParsedConfs \cup {NoConf}]
    /\ file \in [Printers -> ParsedConfs \cup {NoConf}]
    /\ broken \in BOOLEAN
    /\ changed \in BOOLEAN
    /\ loadFailed \in BOOLEAN
    /\ deleted \subseteq Printers
    /\ registry \in [Printers -> Adapters \cup {NoAdapter}]
    /\ built \in [Printers -> Confs \cup {NoConf}]
    /\ default \in Printers \cup {NoPrinter}
    /\ live \subseteq Adapters
    /\ lingering \subseteq Adapters
    /\ request \in [Requests -> RequestRecords]
    /\ diskFull \in BOOLEAN
    /\ edits \in 0..MaxEdits
    /\ unapplied \subseteq Printers
    /\ overlapped \in BOOLEAN

Configured(conf) == {p \in Printers : conf[p] # NoConf}
Registered(reg)  == {p \in Printers : reg[p] # NoAdapter}

-----------------------------------------------------------------------------
(* ConfigManager *)

\* Mutant: the changes of others are not looked for.
MergedBlindly(conf, gone) == conf

\* mergeExternalChanges: entries that we do not know come back, unless we have
\* deleted them. A file that cannot be read gives nothing back.
Merged(conf, gone) ==
    IF changed /\ ~broken
    THEN [p \in Printers |->
            IF conf[p] = NoConf /\ p \notin gone THEN file[p] ELSE conf[p]]
    ELSE conf

Saves == ~loadFailed /\ ~diskFull

\* The copy is conf now, in which the entries of touched are new, and
\* saveConfig() follows: it is refused, fails after the merge, or writes.
Save(conf, gone, touched) ==
    LET merged == IF loadFailed THEN conf ELSE Merged(conf, gone)
        found  == Configured(merged) \ Configured(conf)
    IN  /\ mem' = merged
        /\ deleted' = gone
        /\ IF Saves
           THEN /\ file' = merged
                /\ broken' = FALSE
                /\ changed' = FALSE
                /\ unapplied' = (unapplied \ touched) \cup found
           ELSE /\ unapplied' = unapplied \cup touched \cup found
                /\ UNCHANGED <<file, broken, changed>>

-----------------------------------------------------------------------------
(* PrinterManager *)

\* An object that nobody refers to any more may stand for a new one.
Fresh == {a \in Adapters \ (live \cup lingering) :
            /\ \A p \in Printers : registry[p] # a
            /\ \A r \in Requests : request[r].adapter # a}

\* Mutant: the default is left as it was.
DefaultLeft(p) == {default}

\* Mutant: an adapter is taken for the default, and not its id.
DefaultAdapter(p) ==
    LET rest == Registered(registry) \ {p}
    IN  IF default # p THEN {default}
        ELSE IF rest = {} THEN {NoPrinter} ELSE {registry[q] : q \in rest}

\* unregisterPrinter's choice of a default without p: the first of the rest,
\* whichever that is.
DefaultWithout(p) ==
    LET rest == Registered(registry) \ {p}
    IN  IF default # p THEN {default}
        ELSE IF rest = {} THEN {NoPrinter} ELSE rest

Goes(r, to) == request' = [request EXCEPT ![r] = to]

Answer(r) == Goes(r, NoRequest)

\* The request waits for adapter a of printer p.
Waits(r, k, p, a, await) ==
    Goes(r, [await |-> await, kind |-> k, printer |-> p, entry |-> NoConf, adapter |-> a])

\* registerPrinter for p from entry c, when the map and the default are reg
\* and def: a new adapter, or its constructor throws. connectPrinter, which is
\* next, connects it if c says that it is enabled, and throws if it does not.
Register(r, k, p, c, reg, def) ==
    IF c.usable
    THEN \E a \in Fresh :
            /\ registry' = [reg EXCEPT ![p] = a]
            /\ built' = [built EXCEPT ![p] = c]
            /\ default' = IF c.isDefault \/ def = NoPrinter THEN p ELSE def
            /\ IF c.enabled = "yes" THEN Waits(r, k, p, a, "connect") ELSE Answer(r)
    ELSE /\ registry' = reg
         /\ built' = [built EXCEPT ![p] = NoConf]
         /\ default' = def
         /\ Answer(r)

\* The rest of unregisterPrinter, once the adapter it found has disconnected:
\* the map is without p, whatever adapter it has for p by now. An update then
\* registers p as ConfigManager has it, if it still does.
ReRegister(r, p, conf) ==
    \E def \in DefaultWithout(p) :
        Register(r, "update", p, conf[p], [registry EXCEPT ![p] = NoAdapter], def)

\* unregisterPrinter and reconnect wait for the adapter to disconnect.
Disconnect(r, k, p) ==
    /\ Waits(r, k, p, registry[p], "disconnect")
    /\ UNCHANGED manager

-----------------------------------------------------------------------------
(* The requests *)

\* A request about p arrives.
Arrive(r, p) ==
    /\ request[r] = NoRequest
    /\ overlapped' = (overlapped \/ \E s \in Requests : request[s].printer = p)

\* addPrinter for c, and if that did not throw, registerPrinter for said and
\* connectPrinter.
Adds(r, p, c, said) ==
    /\ mem[p] = NoConf
    /\ Save([mem EXCEPT ![p] = Parsed(c)], deleted, {p})
    /\ IF Saves THEN Register(r, "add", p, said, registry, default)
       ELSE Answer(r) /\ UNCHANGED manager

\* updatePrinter to c, which is what the request says over what there was, and
\* if that did not throw, unregisterPrinter.
Updates(r, p, c) ==
    LET conf == [mem EXCEPT ![p] = Parsed(c)]
    IN  /\ mem[p] # NoConf
        /\ Save(conf, deleted, {p})
        /\ CASE ~Saves -> Answer(r) /\ UNCHANGED manager
             [] Saves /\ registry[p] = NoAdapter -> ReRegister(r, p, conf)
             [] Saves /\ registry[p] # NoAdapter -> Disconnect(r, "update", p)

\* handleAddPrinter, and each printer of handleAutoSetupPrinters. An id that is
\* taken is a conflict. The entry is registered as the request has it.
AddPrinter(r, p, c) ==
    /\ Arrive(r, p)
    /\ Adds(r, p, c, c)
    /\ UNCHANGED <<links, outside>>

\* handleUpdatePrinterConfig
UpdatePrinter(r, p, c) ==
    /\ Arrive(r, p)
    /\ Updates(r, p, c)
    /\ UNCHANGED <<links, outside>>

\* handleSetupPrinterByRole sees whether there is a printer of this role, and
\* then waits for a fresh look at Windows. The entry is the role's, and enabled.
SetUpPrinter(r, p, c) ==
    /\ Arrive(r, p)
    /\ c.enabled = "yes"
    /\ Goes(r, [await |-> "look", kind |-> IF mem[p] = NoConf THEN "add" ELSE "update",
                printer |-> p, entry |-> c, adapter |-> NoAdapter])
    /\ UNCHANGED <<config, manager, links, outside>>

\* It goes by what it saw: addPrinter and updatePrinter throw if that is past.
\* It registers the entry as ConfigManager has it.
SetUpGoesOn(r) ==
    LET q == request[r]
    IN  /\ q.await = "look"
        /\ \/ q.kind = "add" /\ Adds(r, q.printer, q.entry, Parsed(q.entry))
           \/ q.kind = "update" /\ Updates(r, q.printer, q.entry)
           \/ /\ (q.kind = "add") # (mem[q.printer] = NoConf)
              /\ Answer(r)
              /\ UNCHANGED <<config, manager>>
        /\ UNCHANGED <<links, overlapped, outside>>

\* Mutant: the entry is removed, and the printer stays registered.
RemovesOnly(r, p) ==
    /\ IF mem[p] = NoConf THEN UNCHANGED config
       ELSE Save([mem EXCEPT ![p] = NoConf], deleted \cup {p}, {p})
    /\ UNCHANGED manager
    /\ Answer(r)

\* The end of a delete: the rest of unregisterPrinter, and removePrinter.
Removes(r, p) ==
    /\ registry' = [registry EXCEPT ![p] = NoAdapter]
    /\ built' = [built EXCEPT ![p] = NoConf]
    /\ default' \in DefaultWithout(p)
    /\ IF mem[p] = NoConf THEN UNCHANGED config
       ELSE Save([mem EXCEPT ![p] = NoConf], deleted \cup {p}, {p})
    /\ Answer(r)

\* handleDeletePrinterConfig unregisters first.
DeletePrinter(r, p) ==
    /\ Arrive(r, p)
    /\ IF registry[p] = NoAdapter THEN Removes(r, p)
       ELSE Disconnect(r, "delete", p) /\ UNCHANGED config
    /\ UNCHANGED <<links, outside>>

\* PrinterManager.reconnect takes the adapter of an enabled printer, disconnects
\* it if it is connected, and half a second later connects that same adapter.
ReconnectPrinter(r, p) ==
    /\ Arrive(r, p)
    /\ registry[p] # NoAdapter
    /\ built[p].enabled = "yes"
    /\ \/ Disconnect(r, "reconnect", p)
       \/ Waits(r, "reconnect", p, registry[p], "connect") /\ UNCHANGED manager
    /\ UNCHANGED <<config, links, outside>>

\* Mutant: the adapter is not told to disconnect.
LetGoNot(r) == UNCHANGED links

\* The adapter has been told to disconnect. A network adapter that had a
\* connection hears of its end by a 'close' that looks like any other, and
\* starts its ladder.
LetGo(r) ==
    LET a == request[r].adapter
    IN  /\ live' = live \ {a}
        /\ \/ lingering' = lingering \ {a}
           \/ a \in live \cup lingering /\ lingering' = lingering \cup {a}

\* disconnect() has returned.
Disconnected(r) ==
    LET q == request[r]
    IN  /\ q.await = "disconnect"
        /\ LetGo(r)
        /\ \/ q.kind = "update" /\ ReRegister(r, q.printer, mem) /\ UNCHANGED config
           \/ q.kind = "delete" /\ Removes(r, q.printer)
           \/ /\ q.kind = "reconnect"
              /\ Waits(r, "reconnect", q.printer, q.adapter, "connect")
              /\ UNCHANGED <<config, manager>>
        /\ UNCHANGED <<overlapped, outside>>

\* connect() has returned: the adapter has a connection, or its ladder tries
\* for one.
Connected(r) ==
    /\ request[r].await = "connect"
    /\ live' = live \cup {request[r].adapter}
    /\ lingering' = lingering \ {request[r].adapter}
    /\ Answer(r)
    /\ UNCHANGED <<config, manager, overlapped, outside>>

\* An adapter has found its queue under a new name, or learned what it is:
\* savePrinterUpdate, which does not mind if that fails.
Learns(p) ==
    /\ registry[p] # NoAdapter
    /\ mem[p] # NoConf
    /\ Save(mem, deleted, {})
    /\ UNCHANGED <<manager, links, request, overlapped, outside>>

\* The health check or a print finds an enabled printer without a connection,
\* and connects its adapter.
Dials(p) ==
    /\ registry[p] # NoAdapter
    /\ built[p].enabled = "yes"
    /\ live' = live \cup {registry[p]}
    /\ lingering' = lingering \ {registry[p]}
    /\ UNCHANGED <<config, manager, request, overlapped, outside>>

\* An adapter's connection is lost, and its ladder, if it has one, at its end.
GivesUp(a) ==
    /\ a \in live \cup lingering
    /\ live' = live \ {a}
    /\ lingering' = lingering \ {a}
    /\ UNCHANGED <<config, manager, request, overlapped, outside>>

-----------------------------------------------------------------------------
(* Outside *)

\* config.json is edited by hand, or by another instance.
Edit ==
    /\ edits < MaxEdits
    /\ edits' = edits + 1
    /\ changed' = TRUE
    /\ \/ \E p \in Printers, c \in Entries \cup {NoConf} :
             file' = [file EXCEPT ![p] = Parsed(c)] /\ broken' = FALSE
       \/ ~broken /\ broken' = TRUE /\ UNCHANGED file
    /\ UNCHANGED <<mem, deleted, unapplied, manager, links, request, overlapped,
                   loadFailed, diskFull>>

\* The disk fills up, and has room again.
DiskFills ==
    /\ edits < MaxEdits
    /\ edits' = edits + 1
    /\ diskFull' = TRUE
    /\ UNCHANGED <<config, manager, links, request, overlapped, loadFailed>>

DiskHasRoom ==
    /\ diskFull
    /\ diskFull' = FALSE
    /\ UNCHANGED <<config, manager, links, request, overlapped, loadFailed, edits>>

\* loadConfig: in place of a file that does not parse it takes the example, if
\* there is one, and in place of one that does not validate, no printers.
Loaded(conf, isBroken) ==
    IF isBroken THEN {Example, [p \in Printers |-> NoConf]} ELSE {conf}

Usable(conf) == {p \in Printers : conf[p].usable}

\* connectAll takes those that are enabled.
Driven(reg, conf) == {reg[p] : p \in {q \in Usable(conf) : conf[q].enabled = "yes"}}

\* The constructor of PrinterManager registers what can be, and the last of
\* those that say so is the default, or else the first.
Registries(conf) ==
    {reg \in [Printers -> Adapters \cup {NoAdapter}] :
        /\ Registered(reg) = Usable(conf)
        /\ \A p, q \in Usable(conf) : reg[p] = reg[q] => p = q}

Defaults(conf) ==
    LET chosen == {p \in Usable(conf) : conf[p].isDefault}
    IN  IF Usable(conf) = {} THEN {NoPrinter}
        ELSE IF chosen = {} THEN Usable(conf) ELSE chosen

Built(conf) == [p \in Printers |-> IF conf[p].usable THEN conf[p] ELSE NoConf]

Init ==
    /\ file \in [Printers -> {Parsed(c) : c \in Entries} \cup {NoConf}]
    /\ broken \in BOOLEAN
    /\ mem \in Loaded(file, broken)
    /\ loadFailed = broken
    /\ changed = FALSE
    /\ deleted = {}
    /\ registry \in Registries(mem)
    /\ built = Built(mem)
    /\ default \in Defaults(mem)
    /\ live = Driven(registry, mem)
    /\ lingering = {}
    /\ request = [r \in Requests |-> NoRequest]
    /\ diskFull = FALSE
    /\ edits = 0
    /\ unapplied = {}
    /\ overlapped = FALSE

\* The process ends, at any point, and another one starts.
Restart ==
    /\ mem' \in Loaded(file, broken)
    /\ loadFailed' = broken
    /\ changed' = FALSE
    /\ deleted' = {}
    /\ registry' \in Registries(mem')
    /\ built' = Built(mem')
    /\ default' \in Defaults(mem')
    /\ live' = Driven(registry', mem')
    /\ lingering' = {}
    /\ request' = [r \in Requests |-> NoRequest]
    /\ unapplied' = {}
    /\ overlapped' = FALSE
    /\ UNCHANGED <<file, broken, diskFull, edits>>

Handles(r) ==
    \/ \E p \in Printers, c \in Entries :
          AddPrinter(r, p, c) \/ UpdatePrinter(r, p, c) \/ SetUpPrinter(r, p, c)
    \/ \E p \in Printers : DeletePrinter(r, p) \/ ReconnectPrinter(r, p)
    \/ SetUpGoesOn(r)
    \/ Disconnected(r)
    \/ Connected(r)

Next ==
    \/ \E r \in Requests : Handles(r)
    \/ \E p \in Printers : Learns(p) \/ Dials(p)
    \/ \E a \in Adapters : GivesUp(a)
    \/ Edit
    \/ DiskFills
    \/ DiskHasRoom
    \/ Restart

Spec == Init /\ [][Next]_vars

-----------------------------------------------------------------------------
(* Properties *)

Quiet == \A r \in Requests : request[r] = NoRequest

\* When the requests have been answered, in whatever order they ran, the
\* printers that have adapters are those that the configuration has and that can
\* be built, each with an adapter built from words that the schema reads as its
\* present entry. Not those whose save was refused, nor those that came back by
\* a merge, which wait for a restart.
RegistryFollowsConfig ==
    Quiet => \A p \in Printers \ unapplied :
                /\ registry[p] # NoAdapter <=> mem[p].usable
                /\ mem[p].usable => Parsed(built[p]) = mem[p]

\* A printer that was saved as enabled is one that the manager connects and
\* prints on: "Printer saved. It is not responding yet — it will connect
\* automatically when it becomes reachable".
EnabledIsDriven ==
    Quiet => \A p \in Printers \ unapplied :
                mem[p].usable /\ mem[p].enabled = "yes" => built[p].enabled = "yes"

\* There is a default printer as long as there is a registered one, and it is
\* one of those: handlePrint and the drawer take it when a request names none.
DefaultServes ==
    /\ default = NoPrinter => Registered(registry) = {}
    /\ default # NoPrinter => default \in Registered(registry)

\* As long as no two requests for one printer overlap, an adapter that has a
\* connection, or tries to, is the registry's or a request's, or was told to
\* disconnect: a network printer takes one connection, and an adapter that was
\* dropped in silence would keep it for as long as the process lives. What an
\* adapter makes of being told is the adapter's (NetworkPrinter).
NoneForgotten ==
    ~overlapped =>
        live \subseteq {registry[p] : p \in Printers}
                       \cup {request[r].adapter : r \in Requests}

\* A save never drops a printer that somebody else has put in the file, unless
\* it was deleted here: "Fold any printers we do not know about back in".
PrintersKept ==
    [][~broken /\ edits' = edits =>
          Configured(file) \ Configured(file') \subseteq deleted']_vars

\* A config.json that does not parse stays until somebody edits it: "A config
\* that fails to parse is backed up as config.corrupt.*.json and never
\* overwritten".
BrokenFileKept == [][broken /\ edits' = edits => broken']_vars

=============================================================================
