------------------------ MODULE PrinterRegistryProofs ------------------------
(***************************************************************************)
(* PrinterRegistry for any number of printers, adapters and requests, in   *)
(* any order, with any edits by others:                                    *)
(*   - the types;                                                          *)
(*   - the default printer serves as long as one is registered;            *)
(*   - a save keeps the printers that others have added;                   *)
(*   - once requests are done the registry is what the configuration says; *)
(*   - no adapter is forgotten: one that nobody refers to any more has     *)
(*     been told to disconnect.                                            *)
(***************************************************************************)
EXTENDS PrinterRegistry, TLAPS

ConfOrNone    == Confs \cup {NoConf}
ParsedOrNone  == ParsedConfs \cup {NoConf}
AdapterOrNone == Adapters \cup {NoAdapter}

\* What the default has to do with the map.
Serves(def, reg) ==
    /\ def \in Printers \cup {NoPrinter}
    /\ def = NoPrinter => Registered(reg) = {}
    /\ def # NoPrinter => def \in Registered(reg)

\* A file that is as we left it has no printers that we do not know, or know to
\* have been deleted.
FileKnown ==
    ~changed /\ ~broken /\ ~loadFailed =>
        Configured(file) \subseteq Configured(mem) \cup deleted

\* A request's record, which has what its wait is about.
MeantRecords ==
    {q \in RequestRecords :
        /\ q.await = "look" =>
              q.printer \in Printers /\ q.entry \in Entries /\ q.kind \in {"add", "update"}
        /\ q.await \in {"disconnect", "connect"} =>
              q.printer \in Printers /\ q.adapter \in Adapters}

RequestsOK == request \in [Requests -> MeantRecords]

Inv == TypeOK /\ DefaultServes /\ FileKnown /\ RequestsOK

\* The types of the manager's part, and that the default serves.
ManagerOK ==
    /\ registry \in [Printers -> AdapterOrNone]
    /\ built \in [Printers -> ConfOrNone]
    /\ Serves(default, registry)

\* The types of ConfigManager's part, and what the file has.
ConfigOK ==
    /\ mem \in [Printers -> ParsedOrNone]
    /\ file \in [Printers -> ParsedOrNone]
    /\ broken \in BOOLEAN
    /\ changed \in BOOLEAN
    /\ deleted \subseteq Printers
    /\ unapplied \subseteq Printers
    /\ FileKnown

LinksOK == live \subseteq Adapters /\ lingering \subseteq Adapters

OutsideOK == loadFailed \in BOOLEAN /\ diskFull \in BOOLEAN /\ edits \in 0 .. MaxEdits

\* The invariant in these parts.
LEMMA Parts ==
    Inv <=> /\ ManagerOK /\ ConfigOK /\ OutsideOK /\ RequestsOK
            /\ LinksOK /\ overlapped \in BOOLEAN
<1>1. RequestsOK => request \in [Requests -> RequestRecords]
  BY DEF RequestsOK, MeantRecords
<1>2. QED
  BY <1>1 DEF Inv, TypeOK, DefaultServes, ManagerOK, ConfigOK, OutsideOK, Serves,
     LinksOK, ConfOrNone, ParsedOrNone, AdapterOrNone

\* The parts of the next state make up its invariant.
LEMMA PartsNext ==
    ManagerOK' /\ ConfigOK' /\ OutsideOK' /\ RequestsOK' /\ LinksOK'
    /\ overlapped' \in BOOLEAN => Inv'
<1>1. RequestsOK' => request' \in [Requests -> RequestRecords]
  BY DEF RequestsOK, MeantRecords
<1>2. QED
  BY <1>1 DEF Inv, TypeOK, DefaultServes, ManagerOK, ConfigOK, OutsideOK, Serves,
     LinksOK, ConfOrNone, ParsedOrNone, AdapterOrNone

-----------------------------------------------------------------------------

\* What the schema makes of an entry says it all, is as usable, and is read as
\* itself.
LEMMA ParsedSays ==
    /\ \A c \in Confs : Parsed(c) \in ParsedConfs /\ Parsed(c).usable = c.usable
    /\ \A c \in ParsedOrNone : Parsed(c) = c
    /\ \A c \in ConfOrNone : /\ Parsed(c) \in ParsedOrNone
                             /\ Parsed(c) = NoConf <=> c = NoConf
    /\ NoConf \notin Confs
    /\ ParsedOrNone \subseteq ConfOrNone
<1>1. \A c \in Confs : Parsed(c) \in ParsedConfs /\ Parsed(c).usable = c.usable
  BY DEF Parsed, ParsedConfs, Confs
<1>2. NoConf \notin Confs /\ NoConf.enabled # "unsaid"
  BY DEF NoConf, Confs
<1>3. \A c \in ParsedOrNone : Parsed(c) = c
  BY <1>2 DEF Parsed, ParsedOrNone, ParsedConfs
<1>4. \A c \in ConfOrNone : /\ Parsed(c) \in ParsedOrNone
                            /\ Parsed(c) = NoConf <=> c = NoConf
  BY <1>1, <1>2, <1>3 DEF ConfOrNone, ParsedOrNone, ParsedConfs
<1>5. ParsedOrNone \subseteq ConfOrNone
  BY DEF ParsedOrNone, ConfOrNone, ParsedConfs
<1>6. QED
  BY <1>1, <1>2, <1>3, <1>4, <1>5

\* A save merges and writes, or is refused or fails: the file has nothing that
\* ConfigManager does not know.
LEMMA SaveSafe ==
    ASSUME ConfigOK, OutsideOK, UNCHANGED loadFailed,
           NEW conf \in [Printers -> ParsedOrNone], NEW gone \in SUBSET Printers,
           NEW touched \in SUBSET Printers,
           deleted \subseteq gone,
           Configured(mem) \subseteq Configured(conf) \cup gone,
           Save(conf, gone, touched)
    PROVE  ConfigOK'
<1> DEFINE merged == IF loadFailed THEN conf ELSE Merged(conf, gone)
           found  == Configured(merged) \ Configured(conf)
<1>1. merged \in [Printers -> ParsedOrNone]
  BY DEF Merged, ConfigOK
<1>2. found \subseteq Printers
  BY DEF Configured
<1>3. mem' = merged /\ deleted' = gone
  BY DEF Save
<1>4. unapplied' \subseteq Printers
  BY <1>2 DEF Save, ConfigOK
<1>5. CASE Saves
  <2>1. file' = merged /\ broken' = FALSE /\ changed' = FALSE
    BY <1>5 DEF Save
  <2>2. FileKnown'
    BY <1>3, <2>1 DEF FileKnown, Configured
  <2> HIDE DEF merged
  <2>3. QED
    BY <1>1, <1>3, <1>4, <2>1, <2>2 DEF ConfigOK
<1>6. CASE ~Saves
  <2>1. UNCHANGED <<file, broken, changed>>
    BY <1>6 DEF Save
  <2>2. FileKnown'
    <3> SUFFICES ASSUME ~changed, ~broken, ~loadFailed
                 PROVE  Configured(file) \subseteq Configured(merged) \cup gone
      BY <1>3, <2>1 DEF FileKnown, Configured
    <3>1. merged = conf
      BY DEF Merged
    <3>2. Configured(file) \subseteq Configured(mem) \cup deleted
      BY DEF ConfigOK, FileKnown
    <3>3. QED
      BY <3>1, <3>2
  <2> HIDE DEF merged
  <2>3. QED
    BY <1>1, <1>3, <1>4, <2>1, <2>2 DEF ConfigOK
<1>7. QED
  BY <1>5, <1>6

\* Who is default once p is not registered any more.
LEMMA DefaultFound ==
    ASSUME ManagerOK, NEW p \in Printers, NEW def \in DefaultWithout(p)
    PROVE  Serves(def, [registry EXCEPT ![p] = NoAdapter])
<1> DEFINE reg == [registry EXCEPT ![p] = NoAdapter]
<1>1. Registered(reg) = Registered(registry) \ {p}
  BY DEF ManagerOK, Registered
<1>2. NoPrinter \notin Printers /\ Registered(reg) \subseteq Printers
  BY RegistryAssumption DEF Registered
<1> HIDE DEF reg
<1>3. Serves(def, reg)
  BY <1>1, <1>2 DEF ManagerOK, Serves, DefaultWithout
<1>4. QED
  BY <1>3 DEF reg

\* A request's record is one.
LEMMA GoesTyped ==
    ASSUME RequestsOK, NEW r, NEW to \in MeantRecords, Goes(r, to)
    PROVE  RequestsOK'
  BY DEF RequestsOK, Goes

\* A request that is answered leaves requests what they are.
LEMMA AnswerTyped ==
    ASSUME RequestsOK, NEW r, Answer(r)
    PROVE  RequestsOK'
<1>1. NoRequest \in MeantRecords
  BY DEF NoRequest, RequestRecords, MeantRecords
<1>2. QED
  BY <1>1, GoesTyped DEF Answer

\* So does one that waits for an adapter.
LEMMA WaitsTyped ==
    ASSUME RequestsOK, NEW r, NEW k \in {"add", "update", "delete", "reconnect"},
           NEW p \in Printers, NEW a \in Adapters,
           NEW await \in {"disconnect", "connect"}, Waits(r, k, p, a, await)
    PROVE  RequestsOK'
<1>1. [await |-> await, kind |-> k, printer |-> p, entry |-> NoConf, adapter |-> a]
        \in MeantRecords
  BY DEF RequestRecords, MeantRecords
<1>2. QED
  BY <1>1, GoesTyped DEF Waits

\* A printer is registered with a new adapter, or cannot be.
LEMMA RegisterSafe ==
    ASSUME RequestsOK, NEW r, NEW k \in {"add", "update"}, NEW p \in Printers,
           NEW c \in ConfOrNone, NEW reg \in [Printers -> AdapterOrNone], NEW def,
           built \in [Printers -> ConfOrNone], Serves(def, reg), Register(r, k, p, c, reg, def)
    PROVE  ManagerOK' /\ RequestsOK'
<1>1. CASE c.usable
  <2>1. PICK a \in Fresh :
            /\ registry' = [reg EXCEPT ![p] = a]
            /\ built' = [built EXCEPT ![p] = c]
            /\ default' = IF c.isDefault \/ def = NoPrinter THEN p ELSE def
            /\ Waits(r, k, p, a, "connect") \/ Answer(r)
    BY <1>1 DEF Register
  <2>2. a \in Adapters /\ a # NoAdapter /\ a \in AdapterOrNone
    BY RegistryAssumption DEF Fresh, AdapterOrNone
  <2>3. Registered(registry') = Registered(reg) \cup {p}
    BY <2>1, <2>2 DEF Registered
  <2>4. default' \in {p, def} /\ (def = NoPrinter => default' = p)
    BY <2>1
  <2>5. Serves(default', registry')
    BY <2>3, <2>4, RegistryAssumption DEF Serves
  <2>6. RequestsOK'
    BY <2>1, <2>2, WaitsTyped, AnswerTyped
  <2>7. registry' \in [Printers -> AdapterOrNone] /\ built' \in [Printers -> ConfOrNone]
    BY <2>1, <2>2
  <2>8. QED
    BY <2>5, <2>6, <2>7 DEF ManagerOK
<1>2. CASE ~c.usable
  <2>1. /\ registry' = reg /\ built' = [built EXCEPT ![p] = NoConf] /\ default' = def
        /\ Answer(r)
    BY <1>2 DEF Register
  <2>2. built' \in [Printers -> ConfOrNone]
    BY <2>1 DEF ConfOrNone
  <2>3. QED
    BY <2>1, <2>2, AnswerTyped DEF ManagerOK
<1>3. QED
  BY <1>1, <1>2

\* The second half of an update registers the printer again, or leaves it out.
LEMMA ReRegisterSafe ==
    ASSUME ManagerOK, RequestsOK, NEW r, NEW p \in Printers,
           NEW conf \in [Printers -> ParsedOrNone], ReRegister(r, p, conf)
    PROVE  ManagerOK' /\ RequestsOK'
<1>1. PICK def \in DefaultWithout(p) :
          Register(r, "update", p, conf[p], [registry EXCEPT ![p] = NoAdapter], def)
  BY DEF ReRegister
<1>2. [registry EXCEPT ![p] = NoAdapter] \in [Printers -> AdapterOrNone]
      /\ built \in [Printers -> ConfOrNone] /\ conf[p] \in ConfOrNone
  BY ParsedSays DEF ManagerOK, AdapterOrNone
<1>3. Serves(def, [registry EXCEPT ![p] = NoAdapter])
  BY DefaultFound
<1>4. QED
  BY <1>1, <1>2, <1>3, RegisterSafe

\* A request that waits for a disconnect() changes no printer.
LEMMA DisconnectSafe ==
    ASSUME ManagerOK, RequestsOK, NEW r, NEW k \in {"update", "delete", "reconnect"},
           NEW p \in Printers, registry[p] # NoAdapter, Disconnect(r, k, p)
    PROVE  ManagerOK' /\ RequestsOK'
<1>1. registry[p] \in Adapters
  BY DEF ManagerOK, AdapterOrNone
<1>2. RequestsOK'
  BY <1>1, WaitsTyped DEF Disconnect
<1>3. ManagerOK'
  BY DEF Disconnect, manager, ManagerOK
<1>4. QED
  BY <1>2, <1>3

\* What the mutating requests make of the two parts.
LEMMA AddsSafe ==
    ASSUME ManagerOK, ConfigOK, OutsideOK, RequestsOK, UNCHANGED loadFailed,
           NEW r, NEW p \in Printers, NEW c \in Entries, NEW said \in ConfOrNone,
           Adds(r, p, c, said) \/ Updates(r, p, c)
    PROVE  ManagerOK' /\ ConfigOK' /\ RequestsOK'
<1> DEFINE conf == [mem EXCEPT ![p] = Parsed(c)]
<1>1. Parsed(c) \in ParsedOrNone /\ Parsed(c) # NoConf
  BY ParsedSays, RegistryAssumption DEF ConfOrNone
<1>2. conf \in [Printers -> ParsedOrNone] /\ deleted \in SUBSET Printers
  BY <1>1 DEF ConfigOK
<1>3. Configured(mem) \subseteq Configured(conf) \cup deleted
  BY <1>1 DEF Configured, ConfigOK
<1>4. Save(conf, deleted, {p})
  BY DEF Adds, Updates
<1>5. ConfigOK'
  <2> HIDE DEF conf
  <2>1. deleted \subseteq deleted /\ {p} \in SUBSET Printers
    OBVIOUS
  <2>2. QED
    BY <1>2, <1>3, <1>4, <2>1, SaveSafe
<1>6. CASE Adds(r, p, c, said) /\ Saves
  <2>1. Register(r, "add", p, said, registry, default)
    BY <1>6 DEF Adds
  <2>2. /\ registry \in [Printers -> AdapterOrNone] /\ built \in [Printers -> ConfOrNone]
        /\ Serves(default, registry)
    BY DEF ManagerOK
  <2>3. ManagerOK' /\ RequestsOK'
    BY <2>1, <2>2, RegisterSafe
  <2>4. QED
    BY <1>5, <2>3
<1>7. CASE Updates(r, p, c) /\ Saves
  <2>1. CASE registry[p] = NoAdapter
    <3>1. ReRegister(r, p, conf)
      BY <1>7, <2>1 DEF Updates
    <3> HIDE DEF conf
    <3>2. ManagerOK' /\ RequestsOK'
      BY <1>2, <3>1, ReRegisterSafe
    <3>3. QED
      BY <1>5, <3>2
  <2>2. CASE registry[p] # NoAdapter
    <3>1. Disconnect(r, "update", p)
      BY <1>7, <2>2 DEF Updates
    <3>2. QED
      BY <1>5, <2>2, <3>1, DisconnectSafe
  <2>3. QED
    BY <2>1, <2>2
<1>8. CASE ~Saves
  <2>1. Answer(r) /\ UNCHANGED manager
    BY <1>8 DEF Adds, Updates
  <2>2. QED
    BY <1>5, <2>1, AnswerTyped DEF manager, ManagerOK
<1>9. QED
  BY <1>5, <1>6, <1>7, <1>8

\* removePrinter, and the rest of unregisterPrinter before it.
LEMMA RemovesSafe ==
    ASSUME ManagerOK, ConfigOK, OutsideOK, RequestsOK, UNCHANGED loadFailed,
           NEW r, NEW p \in Printers, Removes(r, p)
    PROVE  ManagerOK' /\ ConfigOK' /\ RequestsOK'
<1>1. RequestsOK'
  BY AnswerTyped DEF Removes
<1>2. ManagerOK'
  BY DefaultFound DEF Removes, ManagerOK, AdapterOrNone, ConfOrNone
<1>3. ConfigOK'
  <2>1. CASE mem[p] = NoConf
    BY <2>1 DEF Removes, config, ConfigOK, FileKnown
  <2>2. CASE mem[p] # NoConf
    <3> DEFINE conf == [mem EXCEPT ![p] = NoConf]
               gone == deleted \cup {p}
    <3>1. conf \in [Printers -> ParsedOrNone] /\ gone \in SUBSET Printers
      BY DEF ConfigOK, ParsedOrNone
    <3>2. Configured(mem) \subseteq Configured(conf) \cup gone
      BY DEF Configured, ConfigOK
    <3>3. Save(conf, gone, {p})
      BY <2>2 DEF Removes
    <3>4. deleted \subseteq gone
      OBVIOUS
    <3> HIDE DEF conf, gone
    <3>5. QED
      BY <3>1, <3>2, <3>3, <3>4, SaveSafe
  <2>3. QED
    BY <2>1, <2>2
<1>4. QED
  BY <1>1, <1>2, <1>3

\* A handler of ApiServer.
LEMMA HandlesSafe ==
    ASSUME Inv, NEW r \in Requests, Handles(r)
    PROVE  Inv'
<1>1. /\ ManagerOK /\ ConfigOK /\ OutsideOK /\ RequestsOK
      /\ LinksOK /\ overlapped \in BOOLEAN
  BY Parts
<1>2. request[r] \in MeantRecords
  BY <1>1 DEF RequestsOK
<1>3. OutsideOK' /\ UNCHANGED loadFailed /\ overlapped' \in BOOLEAN
  BY <1>1 DEF Handles, AddPrinter, UpdatePrinter, SetUpPrinter, DeletePrinter,
     ReconnectPrinter, SetUpGoesOn, Disconnected, Connected, Arrive, outside, OutsideOK
<1>4. ASSUME ManagerOK', ConfigOK', RequestsOK', LinksOK'
      PROVE  Inv'
  BY <1>3, <1>4, PartsNext
<1>5. ASSUME NEW p \in Printers, NEW c \in Entries, AddPrinter(r, p, c) \/ UpdatePrinter(r, p, c)
      PROVE  Inv'
  <2>1. c \in ConfOrNone
    BY RegistryAssumption DEF ConfOrNone
  <2>2. LinksOK'
    BY <1>1, <1>5 DEF AddPrinter, UpdatePrinter, links, LinksOK
  <2>3. QED
    BY <1>1, <1>3, <1>4, <1>5, <2>1, <2>2, AddsSafe DEF AddPrinter, UpdatePrinter
<1>6. ASSUME NEW p \in Printers, NEW c \in Entries, SetUpPrinter(r, p, c)
      PROVE  Inv'
  <2>1. PICK k \in {"add", "update"} :
            Goes(r, [await |-> "look", kind |-> k, printer |-> p, entry |-> c,
                     adapter |-> NoAdapter])
    BY <1>6 DEF SetUpPrinter
  <2>2. [await |-> "look", kind |-> k, printer |-> p, entry |-> c, adapter |-> NoAdapter]
          \in MeantRecords
    BY DEF MeantRecords, RequestRecords
  <2>3. RequestsOK'
    BY <1>1, <2>1, <2>2, GoesTyped
  <2>4. ManagerOK' /\ ConfigOK' /\ LinksOK'
    BY <1>1, <1>6 DEF SetUpPrinter, links, LinksOK, config, manager, outside, ManagerOK, ConfigOK, FileKnown
  <2>5. QED
    BY <1>1, <1>4, <2>3, <2>4
<1>7. ASSUME NEW p \in Printers, DeletePrinter(r, p) PROVE Inv'
  <2>1. LinksOK'
    BY <1>1, <1>7 DEF DeletePrinter, links, LinksOK
  <2>2. CASE registry[p] = NoAdapter
    BY <1>1, <1>3, <1>4, <1>7, <2>1, <2>2, RemovesSafe DEF DeletePrinter
  <2>3. CASE registry[p] # NoAdapter
    <3>1. Disconnect(r, "delete", p) /\ UNCHANGED config
      BY <1>7, <2>3 DEF DeletePrinter
    <3>2. ManagerOK' /\ RequestsOK'
      BY <1>1, <2>3, <3>1, DisconnectSafe
    <3>3. ConfigOK'
      BY <1>1, <1>3, <3>1 DEF config, ConfigOK, FileKnown
    <3>4. QED
      BY <1>1, <1>4, <2>1, <3>2, <3>3
  <2>4. QED
    BY <2>2, <2>3
<1>8. ASSUME NEW p \in Printers, ReconnectPrinter(r, p) PROVE Inv'
  <2>1. ManagerOK' /\ RequestsOK'
    <3>1. CASE Disconnect(r, "reconnect", p)
      BY <1>1, <1>8, <3>1, DisconnectSafe DEF ReconnectPrinter
    <3>2. CASE Waits(r, "reconnect", p, registry[p], "connect") /\ UNCHANGED manager
      <4>1. registry[p] \in Adapters
        BY <1>1, <1>8 DEF ReconnectPrinter, ManagerOK, AdapterOrNone
      <4>2. QED
        BY <1>1, <3>2, <4>1, WaitsTyped DEF manager, ManagerOK
    <3>3. QED
      BY <1>8, <3>1, <3>2 DEF ReconnectPrinter
  <2>2. ConfigOK' /\ LinksOK'
    BY <1>1, <1>8 DEF ReconnectPrinter, config, outside, links, ConfigOK, FileKnown, LinksOK
  <2>3. QED
    BY <1>1, <1>4, <2>1, <2>2
<1>9. CASE SetUpGoesOn(r)
  <2> DEFINE q == request[r]
  <2>1. q.await = "look" /\ LinksOK'
    BY <1>1, <1>9 DEF SetUpGoesOn, links, LinksOK
  <2>2. q.printer \in Printers /\ q.entry \in Entries
    BY <1>2, <2>1 DEF MeantRecords
  <2>3. CASE \/ Adds(r, q.printer, q.entry, Parsed(q.entry))
             \/ Updates(r, q.printer, q.entry)
    <3>1. Parsed(q.entry) \in ConfOrNone
      BY <2>2, ParsedSays, RegistryAssumption DEF ConfOrNone, ParsedConfs
    <3>2. QED
      BY <1>1, <1>3, <1>4, <2>1, <2>2, <2>3, <3>1, AddsSafe
  <2>4. CASE Answer(r) /\ UNCHANGED <<config, manager>>
    BY <1>1, <1>3, <1>4, <2>1, <2>4, AnswerTyped
       DEF config, manager, ManagerOK, ConfigOK, FileKnown
  <2>5. QED
    BY <1>9, <2>3, <2>4 DEF SetUpGoesOn
<1>10. CASE Disconnected(r)
  <2> DEFINE q == request[r]
  <2>1. q.await = "disconnect" /\ LetGo(r)
    BY <1>10 DEF Disconnected
  <2>2. q.printer \in Printers /\ q.adapter \in Adapters
    BY <1>2, <2>1 DEF MeantRecords
  <2> LinksOK'
    BY <1>1, <2>1, <2>2 DEF LetGo, LinksOK
  <2>3. CASE ReRegister(r, q.printer, mem) /\ UNCHANGED config
    <3>1. mem \in [Printers -> ParsedOrNone]
      BY <1>1 DEF ConfigOK
    <3>2. ManagerOK' /\ RequestsOK'
      BY <1>1, <2>2, <2>3, <3>1, ReRegisterSafe
    <3>3. ConfigOK'
      BY <1>1, <1>3, <2>3 DEF config, ConfigOK, FileKnown
    <3>4. QED
      BY <1>1, <1>4, <2>1, <3>2, <3>3
  <2>4. CASE Removes(r, q.printer)
    BY <1>1, <1>3, <1>4, <2>1, <2>2, <2>4, RemovesSafe
  <2>5. CASE Waits(r, "reconnect", q.printer, q.adapter, "connect") /\ UNCHANGED <<config, manager>>
    <3>1. RequestsOK'
      BY <1>1, <2>2, <2>5, WaitsTyped
    <3>2. ManagerOK' /\ ConfigOK'
      BY <1>1, <1>3, <2>5 DEF config, manager, ManagerOK, ConfigOK, FileKnown
    <3>3. QED
      BY <1>1, <1>4, <2>1, <3>1, <3>2
  <2>6. QED
    BY <1>10, <2>3, <2>4, <2>5 DEF Disconnected
<1>11. CASE Connected(r)
  <2>1. request[r].adapter \in Adapters
    BY <1>2, <1>11 DEF Connected, MeantRecords
  <2>2. LinksOK'
    BY <1>1, <1>11, <2>1 DEF Connected, LinksOK
  <2>3. RequestsOK' /\ ManagerOK' /\ ConfigOK'
    BY <1>1, <1>11, AnswerTyped
       DEF Connected, config, manager, outside, ManagerOK, ConfigOK, FileKnown
  <2>4. QED
    BY <1>4, <2>2, <2>3
<1>12. QED
  BY <1>5, <1>6, <1>7, <1>8, <1>9, <1>10, <1>11 DEF Handles

\* What a printer learns is saved with all the rest.
LEMMA LearnsSafe ==
    ASSUME Inv, NEW p \in Printers, Learns(p)
    PROVE  Inv'
<1>1. /\ ManagerOK /\ ConfigOK /\ OutsideOK /\ RequestsOK
      /\ LinksOK /\ overlapped \in BOOLEAN
  BY Parts
<1>2. /\ Save(mem, deleted, {})
      /\ UNCHANGED <<manager, links, request, overlapped, outside>>
  BY DEF Learns
<1>3. mem \in [Printers -> ParsedOrNone] /\ deleted \in SUBSET Printers /\ {} \in SUBSET Printers
      /\ deleted \subseteq deleted /\ Configured(mem) \subseteq Configured(mem) \cup deleted
  BY <1>1 DEF ConfigOK
<1>4. UNCHANGED loadFailed
  BY <1>2 DEF outside
<1>5. ConfigOK'
  BY <1>1, <1>2, <1>3, <1>4, SaveSafe
<1>6. ManagerOK' /\ OutsideOK' /\ RequestsOK' /\ LinksOK' /\ overlapped' \in BOOLEAN
  BY <1>1, <1>2 DEF manager, outside, links, ManagerOK, OutsideOK, RequestsOK, LinksOK
<1>7. QED
  BY <1>5, <1>6, PartsNext

\* Other people's edits, and the disk.
LEMMA OthersSafe ==
    ASSUME Inv, Edit \/ DiskFills \/ DiskHasRoom
    PROVE  Inv'
<1>1. /\ ManagerOK /\ ConfigOK /\ OutsideOK /\ RequestsOK
      /\ LinksOK /\ overlapped \in BOOLEAN
  BY Parts
<1>2. UNCHANGED <<manager, links, request, overlapped, loadFailed>>
  BY DEF Edit, DiskFills, DiskHasRoom
<1>3. edits' \in 0 .. MaxEdits /\ diskFull' \in BOOLEAN
  <2>1. edits \in 0 .. MaxEdits /\ MaxEdits \in Nat /\ diskFull \in BOOLEAN
    BY <1>1, RegistryAssumption DEF OutsideOK
  <2>2. edits' = edits \/ (edits < MaxEdits /\ edits' = edits + 1)
    BY DEF Edit, DiskFills, DiskHasRoom
  <2>3. edits' \in 0 .. MaxEdits
    BY <2>1, <2>2
  <2>4. diskFull' \in BOOLEAN
    BY <2>1 DEF Edit, DiskFills, DiskHasRoom
  <2>5. QED
    BY <2>3, <2>4
<1>4. ConfigOK'
  <2>1. CASE Edit
    <3>1. changed' = TRUE /\ UNCHANGED <<mem, deleted, unapplied>>
      BY <2>1 DEF Edit
    <3>2. file' \in [Printers -> ParsedOrNone] /\ broken' \in BOOLEAN
      <4>1. CASE \E p \in Printers, c \in Entries \cup {NoConf} :
                    file' = [file EXCEPT ![p] = Parsed(c)] /\ broken' = FALSE
        <5>1. \A c \in Entries \cup {NoConf} : Parsed(c) \in ParsedOrNone
          BY ParsedSays, RegistryAssumption DEF ConfOrNone
        <5>2. QED
          BY <1>1, <4>1, <5>1 DEF ConfigOK
      <4>2. CASE broken' = TRUE /\ UNCHANGED file
        BY <1>1, <4>2 DEF ConfigOK
      <4>3. QED
        BY <2>1, <4>1, <4>2 DEF Edit
    <3>3. QED
      BY <1>1, <3>1, <3>2 DEF ConfigOK, FileKnown
  <2>2. CASE DiskFills \/ DiskHasRoom
    BY <1>1, <2>2 DEF DiskFills, DiskHasRoom, config, ConfigOK, FileKnown
  <2>3. QED
    BY <2>1, <2>2
<1>5. ManagerOK' /\ RequestsOK' /\ OutsideOK' /\ LinksOK' /\ overlapped' \in BOOLEAN
  BY <1>1, <1>2, <1>3 DEF manager, links, ManagerOK, RequestsOK, OutsideOK, LinksOK
<1>6. QED
  BY <1>4, <1>5, PartsNext

\* Connections come and go.
LEMMA LinksSafe ==
    ASSUME Inv, (\E p \in Printers : Dials(p)) \/ \E a \in Adapters : GivesUp(a)
    PROVE  Inv'
<1>1. /\ ManagerOK /\ ConfigOK /\ OutsideOK /\ RequestsOK
      /\ LinksOK /\ overlapped \in BOOLEAN
  BY Parts
<1>2. UNCHANGED <<config, manager, request, overlapped, outside>>
  BY DEF Dials, GivesUp
<1>3. LinksOK'
  BY <1>1 DEF Dials, GivesUp, LinksOK, ManagerOK, AdapterOrNone
<1>4. ManagerOK' /\ ConfigOK' /\ OutsideOK' /\ RequestsOK' /\ overlapped' \in BOOLEAN
  BY <1>1, <1>2
     DEF config, manager, outside, ManagerOK, ConfigOK, FileKnown, OutsideOK, RequestsOK
<1>5. QED
  BY <1>3, <1>4, PartsNext

\* What the constructors make of a file.
LEMMA Begins ==
    ASSUME NEW conf \in [Printers -> ParsedOrNone], NEW reg \in Registries(conf),
           NEW def \in Defaults(conf)
    PROVE  /\ reg \in [Printers -> AdapterOrNone]
           /\ Built(conf) \in [Printers -> ConfOrNone]
           /\ Serves(def, reg)
           /\ Driven(reg, conf) \subseteq Adapters
<1>1. reg \in [Printers -> AdapterOrNone] /\ Registered(reg) = Usable(conf)
  BY DEF Registries, AdapterOrNone
<1>2. Built(conf) \in [Printers -> ConfOrNone]
  BY ParsedSays DEF Built, ConfOrNone
<1>3. Usable(conf) \subseteq Printers /\ NoPrinter \notin Printers
  BY RegistryAssumption DEF Usable
<1>4. Serves(def, reg)
  BY <1>1, <1>3 DEF Serves, Defaults
<1>5. Driven(reg, conf) \subseteq Adapters
  BY <1>1 DEF Driven, Registered, AdapterOrNone
<1>6. QED
  BY <1>1, <1>2, <1>4, <1>5

\* A process begins with no request.
LEMMA NothingAsked == [r \in Requests |-> NoRequest] \in [Requests -> MeantRecords]
  BY DEF NoRequest, RequestRecords, MeantRecords

\* loadConfig gives entries, or none.
LEMMA LoadedTyped ==
    ASSUME NEW conf \in [Printers -> ParsedOrNone], NEW isBroken \in BOOLEAN,
           NEW loaded \in Loaded(conf, isBroken)
    PROVE  /\ loaded \in [Printers -> ParsedOrNone]
           /\ ~isBroken => loaded = conf
  BY RegistryAssumption DEF Loaded, ParsedOrNone

\* A process that starts with any file.
LEMMA InitInv == Init => Inv
<1> SUFFICES ASSUME Init PROVE Inv
  OBVIOUS
<1>1. /\ file \in [Printers -> ParsedOrNone] /\ broken \in BOOLEAN /\ loadFailed = broken
      /\ changed = FALSE /\ deleted = {} /\ unapplied = {} /\ diskFull = FALSE
      /\ edits = 0 /\ overlapped = FALSE /\ request = [r \in Requests |-> NoRequest]
      /\ live = Driven(registry, mem) /\ lingering = {} /\ built = Built(mem)
      /\ registry \in Registries(mem) /\ default \in Defaults(mem)
      /\ mem \in Loaded(file, broken)
  <2>1. \A c \in Entries : Parsed(c) \in ParsedOrNone
    BY ParsedSays, RegistryAssumption DEF ConfOrNone
  <2>2. QED
    BY <2>1 DEF Init, ParsedOrNone
<1>2. mem \in [Printers -> ParsedOrNone] /\ (~broken => mem = file)
  BY <1>1, LoadedTyped
<1>3. ManagerOK /\ LinksOK
  BY <1>1, <1>2, Begins DEF ManagerOK, LinksOK
<1>4. ConfigOK
  BY <1>1, <1>2 DEF ConfigOK, FileKnown
<1>5. OutsideOK /\ RequestsOK /\ overlapped \in BOOLEAN
  <2>1. 0 \in 0 .. MaxEdits
    BY RegistryAssumption
  <2>2. OutsideOK /\ overlapped \in BOOLEAN
    BY <1>1, <2>1 DEF OutsideOK
  <2>3. RequestsOK
    BY <1>1, NothingAsked DEF RequestsOK
  <2>4. QED
    BY <2>2, <2>3
<1>6. QED
  BY <1>3, <1>4, <1>5, Parts

\* Another one starts.
LEMMA RestartSafe ==
    ASSUME Inv, Restart
    PROVE  Inv'
<1>1. ConfigOK /\ OutsideOK
  BY Parts
<1>2. /\ loadFailed' = broken /\ changed' = FALSE /\ deleted' = {} /\ unapplied' = {}
      /\ overlapped' = FALSE /\ request' = [r \in Requests |-> NoRequest]
      /\ live' = Driven(registry', mem') /\ lingering' = {} /\ built' = Built(mem')
      /\ registry' \in Registries(mem') /\ default' \in Defaults(mem')
      /\ mem' \in Loaded(file, broken) /\ UNCHANGED <<file, broken, diskFull, edits>>
  BY DEF Restart
<1>3. mem' \in [Printers -> ParsedOrNone] /\ (~broken => mem' = file)
  BY <1>1, <1>2, LoadedTyped DEF ConfigOK
<1>4. ManagerOK' /\ LinksOK'
  BY <1>2, <1>3, Begins DEF ManagerOK, LinksOK
<1>5. ConfigOK'
  BY <1>1, <1>2, <1>3 DEF ConfigOK, FileKnown
<1>6. OutsideOK' /\ RequestsOK' /\ overlapped' \in BOOLEAN
  BY <1>1, <1>2, NothingAsked DEF ConfigOK, OutsideOK, RequestsOK
<1>7. QED
  BY <1>4, <1>5, <1>6, PartsNext

\* Every step keeps the invariant.
LEMMA InvStep == Inv /\ [Next]_vars => Inv'
<1> SUFFICES ASSUME Inv, [Next]_vars PROVE Inv'
  OBVIOUS
<1>1. CASE UNCHANGED vars
  BY <1>1 DEF Inv, TypeOK, DefaultServes, FileKnown, RequestsOK, vars, config, manager,
     links, outside
<1>2. CASE Next
  BY <1>2, HandlesSafe, LearnsSafe, LinksSafe, OthersSafe, RestartSafe DEF Next
<1>3. QED
  BY <1>1, <1>2

-----------------------------------------------------------------------------

\* A save that is not blocked puts back what is in the file and not deleted.
LEMMA SaveKeeps ==
    ASSUME ConfigOK, ~broken, NEW conf \in [Printers -> ParsedOrNone], NEW gone, NEW touched,
           deleted \subseteq gone,
           Configured(mem) \subseteq Configured(conf) \cup gone,
           Save(conf, gone, touched)
    PROVE  Configured(file) \ Configured(file') \subseteq deleted'
<1>1. deleted' = gone
  BY DEF Save
<1>2. CASE ~Saves
  BY <1>2 DEF Save
<1>3. CASE Saves
  <2>1. file' = Merged(conf, gone) /\ ~loadFailed
    BY <1>3 DEF Save, Saves
  <2>2. CASE changed
    BY <1>1, <2>1, <2>2 DEF Merged, Configured
  <2>3. CASE ~changed
    <3>1. file' = conf
      BY <2>1, <2>3 DEF Merged
    <3>2. Configured(file) \subseteq Configured(mem) \cup deleted
      BY <2>1, <2>3 DEF ConfigOK, FileKnown
    <3>3. QED
      BY <1>1, <3>1, <3>2
  <2>4. QED
    BY <2>2, <2>3 DEF ConfigOK
<1>4. QED
  BY <1>2, <1>3

\* What the requests save drops nobody from ConfigManager but who is deleted.
LEMMA AddsKeep ==
    ASSUME ConfigOK, ~broken, NEW r, NEW p \in Printers, NEW c \in Entries, NEW said,
           Adds(r, p, c, said) \/ Updates(r, p, c)
    PROVE  Configured(file) \ Configured(file') \subseteq deleted'
<1> DEFINE conf == [mem EXCEPT ![p] = Parsed(c)]
<1> Parsed(c) \in ParsedOrNone /\ Parsed(c) # NoConf
  BY ParsedSays, RegistryAssumption DEF ConfOrNone
<1>1. conf \in [Printers -> ParsedOrNone]
  BY DEF ConfigOK
<1>2. Configured(mem) \subseteq Configured(conf) \cup deleted
  BY DEF Configured, ConfigOK
<1>3. Save(conf, deleted, {p})
  BY DEF Adds, Updates
<1> HIDE DEF conf
<1>4. deleted \subseteq deleted
  OBVIOUS
<1>5. QED
  BY <1>1, <1>2, <1>3, <1>4, SaveKeeps

\* A delete drops from the file only what it deletes.
LEMMA RemovesKeep ==
    ASSUME ConfigOK, ~broken, NEW r, NEW p \in Printers, Removes(r, p)
    PROVE  Configured(file) \ Configured(file') \subseteq deleted'
<1> DEFINE conf == [mem EXCEPT ![p] = NoConf]
           gone == deleted \cup {p}
<1>1. CASE mem[p] = NoConf
  BY <1>1 DEF Removes, config
<1>2. CASE mem[p] # NoConf
  <2>1. conf \in [Printers -> ParsedOrNone]
    BY DEF ConfigOK, ParsedOrNone
  <2>2. Configured(mem) \subseteq Configured(conf) \cup gone /\ deleted \subseteq gone
    BY DEF Configured, ConfigOK
  <2>3. Save(conf, gone, {p})
    BY <1>2 DEF Removes
  <2> HIDE DEF conf, gone
  <2>4. QED
    BY <2>1, <2>2, <2>3, SaveKeeps
<1>3. QED
  BY <1>1, <1>2

\* Every step keeps in the file what others have put there.
LEMMA StepKeeps ==
    ASSUME Inv, Next, ~broken, edits' = edits
    PROVE  Configured(file) \ Configured(file') \subseteq deleted'
<1>1. ConfigOK /\ RequestsOK /\ edits \in 0 .. MaxEdits
  BY Parts DEF OutsideOK
<1>2. CASE UNCHANGED file
  BY <1>2
<1>3. ASSUME NEW r \in Requests, Handles(r), ~UNCHANGED file
      PROVE  Configured(file) \ Configured(file') \subseteq deleted'
  <2>1. request[r] \in MeantRecords
    BY <1>1 DEF RequestsOK
  <2>2. \/ \E p \in Printers, c \in Entries :
              Updates(r, p, c) \/ \E said : Adds(r, p, c, said)
        \/ \E p \in Printers : Removes(r, p)
    <3>1. CASE \E p \in Printers, c \in Entries : AddPrinter(r, p, c) \/ UpdatePrinter(r, p, c)
      BY <3>1 DEF AddPrinter, UpdatePrinter
    <3>2. CASE \E p \in Printers, c \in Entries : SetUpPrinter(r, p, c)
      BY <1>3, <3>2 DEF SetUpPrinter, config
    <3>3. CASE \E p \in Printers : DeletePrinter(r, p)
      BY <1>3, <3>3 DEF DeletePrinter, config
    <3>4. CASE (\E p \in Printers : ReconnectPrinter(r, p)) \/ Connected(r)
      BY <1>3, <3>4 DEF ReconnectPrinter, Connected, config
    <3>5. CASE SetUpGoesOn(r)
      BY <1>3, <2>1, <3>5 DEF SetUpGoesOn, config, MeantRecords
    <3>6. CASE Disconnected(r)
      BY <1>3, <2>1, <3>6 DEF Disconnected, config, MeantRecords
    <3>7. QED
      BY <1>3, <3>1, <3>2, <3>3, <3>4, <3>5, <3>6 DEF Handles
  <2>3. QED
    BY <1>1, <2>2, AddsKeep, RemovesKeep
<1>4. ASSUME NEW p \in Printers, Learns(p)
      PROVE  Configured(file) \ Configured(file') \subseteq deleted'
  <2>1. /\ Save(mem, deleted, {}) /\ mem \in [Printers -> ParsedOrNone]
        /\ deleted \subseteq deleted /\ Configured(mem) \subseteq Configured(mem) \cup deleted
    BY <1>1, <1>4 DEF Learns, ConfigOK
  <2>2. QED
    BY <1>1, <2>1, SaveKeeps
<1>5. CASE Edit \/ DiskFills
  BY <1>1, <1>5 DEF Edit, DiskFills
<1>6. CASE \/ DiskHasRoom \/ Restart
           \/ \E p \in Printers : Dials(p)
           \/ \E a \in Adapters : GivesUp(a)
  BY <1>6 DEF DiskHasRoom, Restart, Dials, GivesUp, config
<1>7. QED
  BY <1>2, <1>3, <1>4, <1>5, <1>6 DEF Next

-----------------------------------------------------------------------------

\* The fields of ConfigManager and PrinterManager keep their types.
THEOREM TypeCorrect == Spec => []TypeOK
<1>1. Inv => TypeOK
  BY DEF Inv
<1>2. QED
  BY InitInv, InvStep, <1>1, PTL DEF Spec

\* The default printer is a registered one, and there is one as long as any is
\* registered (registerPrinter, unregisterPrinter), whatever overlaps.
THEOREM DefaultServesSafe == Spec => []DefaultServes
<1>1. Inv => DefaultServes
  BY DEF Inv
<1>2. QED
  BY InitInv, InvStep, <1>1, PTL DEF Spec

\* No save drops a printer that somebody else has added (mergeExternalChanges),
\* with edits and requests in any order.
THEOREM PrintersKeptSafe == Spec => PrintersKept
<1>1. Inv /\ [Next]_vars =>
          [~broken /\ edits' = edits =>
              Configured(file) \ Configured(file') \subseteq deleted']_vars
  BY StepKeeps
<1>2. QED
  BY InitInv, InvStep, <1>1, PTL DEF Spec, PrintersKept

-----------------------------------------------------------------------------
(* The registry follows the configuration *)

\* A request will still settle what is registered for p: it waits for the
\* adapter to let go.
Settles(q, p) ==
    /\ q.await = "disconnect"
    /\ q.kind \in {"update", "delete"}
    /\ q.printer = p

Pending(p) == \E r \in Requests : Settles(request[r], p)

\* RegistryFollowsConfig of one printer, before the requests are answered.
PrinterSound(p) ==
    /\ mem[p] = NoConf => registry[p] = NoAdapter
    /\ registry[p] # NoAdapter <=> built[p] # NoConf
    /\ p \in unapplied \/ Parsed(built[p]) = Built(mem)[p] \/ Pending(p)

FollowInv == \A p \in Printers : PrinterSound(p)

\* A step that is about another printer, or about none.
Apart(p) ==
    /\ registry'[p] = registry[p] /\ built'[p] = built[p]
    /\ mem'[p] = NoConf => mem[p] = NoConf
    /\ p \in unapplied' \/ (p \notin unapplied /\ mem'[p] = mem[p])
    /\ Pending(p) => Pending(p)'

LEMMA ApartSound ==
    ASSUME NEW p \in Printers, PrinterSound(p), Apart(p)
    PROVE  PrinterSound(p)'
  BY DEF PrinterSound, Apart, Built

\* What a save does to the printers it is not about, and to the one it is.
LEMMA SaveApart ==
    ASSUME ConfigOK, NEW conf \in [Printers -> ParsedOrNone], NEW gone, NEW touched,
           Save(conf, gone, touched), NEW p \in Printers
    PROVE  /\ conf[p] # NoConf \/ p \in gone => mem'[p] = conf[p]
           /\ p \in touched /\ ~Saves => p \in unapplied'
           /\ p \notin touched =>
                 p \in unapplied' \/ (p \notin unapplied /\ mem'[p] = conf[p])
           /\ mem'[p] = NoConf => conf[p] = NoConf
<1> DEFINE merged == IF loadFailed THEN conf ELSE Merged(conf, gone)
           found  == Configured(merged) \ Configured(conf)
<1>1. merged \in [Printers -> ParsedOrNone] /\ mem' = merged
  BY DEF Merged, ConfigOK, Save
<1>2. /\ merged[p] # conf[p] => conf[p] = NoConf /\ p \notin gone
      /\ conf[p] # NoConf => merged[p] = conf[p]
  BY DEF Merged
<1>3. unapplied' = IF Saves THEN (unapplied \ touched) \cup found
                   ELSE unapplied \cup touched \cup found
  BY DEF Save
<1>4. p \notin found => merged[p] = conf[p]
  BY <1>2 DEF Configured
<1> HIDE DEF merged, found
<1>5. QED
  BY <1>1, <1>2, <1>3, <1>4

\* A request that settles nothing for p, or another's, leaves what does.
LEMMA PendingStays ==
    ASSUME RequestsOK, NEW r \in Requests, NEW p, ~Settles(request[r], p),
           \E to : Goes(r, to)
    PROVE  Pending(p) => Pending(p)'
  BY DEF RequestsOK, Pending, Goes

\* A request moves on, and neither the configuration nor the manager does.
LEMMA MovesApart ==
    ASSUME RequestsOK, NEW r \in Requests, NEW p \in Printers,
           ~Settles(request[r], p), \E to : Goes(r, to), UNCHANGED <<config, manager>>
    PROVE  Apart(p)
<1>1. Pending(p) => Pending(p)'
  BY PendingStays
<1>2. QED
  BY <1>1 DEF Apart, config, manager

\* Registering p makes its adapter from the entry given, or makes none.
LEMMA RegisterMakes ==
    ASSUME NEW r, NEW k, NEW p \in Printers, NEW c \in ConfOrNone,
           NEW reg \in [Printers -> AdapterOrNone], NEW def,
           built \in [Printers -> ConfOrNone], reg[p] = NoAdapter,
           Register(r, k, p, c, reg, def)
    PROVE  /\ \E to : Goes(r, to)
           /\ built'[p] = IF c.usable THEN c ELSE NoConf
           /\ registry'[p] # NoAdapter <=> built'[p] # NoConf
           /\ c = NoConf => registry'[p] = NoAdapter
           /\ \A q \in Printers \ {p} : registry'[q] = reg[q] /\ built'[q] = built[q]
<1>1. CASE c.usable
  <2>1. PICK a \in Fresh :
            /\ registry' = [reg EXCEPT ![p] = a]
            /\ built' = [built EXCEPT ![p] = c]
            /\ Waits(r, k, p, a, "connect") \/ Answer(r)
    BY <1>1 DEF Register
  <2>2. a # NoAdapter /\ c # NoConf
    BY <1>1, RegistryAssumption DEF Fresh, NoConf
  <2>3. QED
    BY <1>1, <2>1, <2>2 DEF Waits, Answer
<1>2. CASE ~c.usable
  <2>1. registry' = reg /\ built' = [built EXCEPT ![p] = NoConf] /\ Answer(r)
    BY <1>2 DEF Register
  <2>2. QED
    BY <1>2, <2>1 DEF Answer
<1>3. QED
  BY <1>1, <1>2

LEMMA ReRegisterMakes ==
    ASSUME ManagerOK, NEW r, NEW p \in Printers,
           NEW conf \in [Printers -> ParsedOrNone], ReRegister(r, p, conf)
    PROVE  /\ \E to : Goes(r, to)
           /\ built'[p] = Built(conf)[p]
           /\ registry'[p] # NoAdapter <=> built'[p] # NoConf
           /\ conf[p] = NoConf => registry'[p] = NoAdapter
           /\ \A q \in Printers \ {p} :
                 registry'[q] = registry[q] /\ built'[q] = built[q]
<1> DEFINE reg == [registry EXCEPT ![p] = NoAdapter]
<1>1. PICK def : Register(r, "update", p, conf[p], reg, def)
  BY DEF ReRegister
<1>2. /\ reg \in [Printers -> AdapterOrNone] /\ reg[p] = NoAdapter
      /\ \A q \in Printers \ {p} : reg[q] = registry[q]
      /\ built \in [Printers -> ConfOrNone] /\ conf[p] \in ConfOrNone
  BY ParsedSays DEF ManagerOK, AdapterOrNone
<1> HIDE DEF reg
<1>3. QED
  BY <1>1, <1>2, RegisterMakes DEF Built

\* A printer is added, or its entry replaced.
LEMMA AddsFollow ==
    ASSUME ManagerOK, ConfigOK, RequestsOK, FollowInv,
           NEW r \in Requests, NEW p \in Printers, NEW c \in Entries,
           NEW said \in ConfOrNone, Parsed(said) = Parsed(c), said.usable = c.usable,
           request[r].await # "disconnect",
           Adds(r, p, c, said) \/ Updates(r, p, c)
    PROVE  FollowInv'
<1> DEFINE conf == [mem EXCEPT ![p] = Parsed(c)]
<1>1. /\ Parsed(c) \in ParsedOrNone /\ Parsed(c) # NoConf
      /\ Parsed(c).usable = c.usable
      /\ Parsed(NoConf) = NoConf
  BY ParsedSays, RegistryAssumption DEF ConfOrNone, ParsedOrNone
<1>2. /\ conf \in [Printers -> ParsedOrNone] /\ conf[p] = Parsed(c)
      /\ \A q \in Printers \ {p} : conf[q] = mem[q]
  BY <1>1 DEF ConfigOK
<1>3. Save(conf, deleted, {p})
  BY DEF Adds, Updates
<1>4. \A q \in Printers : ~Settles(request[r], q)
  BY DEF Settles
<1> HIDE DEF conf
<1>5. mem'[p] = Parsed(c) /\ (~Saves => p \in unapplied')
  BY <1>1, <1>2, <1>3, SaveApart
<1>6. ASSUME NEW q \in Printers \ {p}, registry'[q] = registry[q], built'[q] = built[q],
             \E to : Goes(r, to)
      PROVE  PrinterSound(q)'
  <2>1. /\ mem'[q] = NoConf => mem[q] = NoConf
        /\ q \in unapplied' \/ (q \notin unapplied /\ mem'[q] = mem[q])
    BY <1>2, <1>3, SaveApart
  <2>2. Pending(q) => Pending(q)'
    BY <1>4, <1>6, PendingStays
  <2>3. Apart(q)
    BY <1>6, <2>1, <2>2 DEF Apart
  <2>4. QED
    BY <2>3, ApartSound DEF FollowInv
<1>7. Built(mem')[p] = (IF c.usable THEN Parsed(c) ELSE NoConf)
  BY <1>1, <1>5 DEF Built
<1>8. CASE ~Saves
  <2>1. Answer(r) /\ UNCHANGED manager
    BY <1>8 DEF Adds, Updates
  <2>2. PrinterSound(p)'
    BY <1>1, <1>5, <1>8, <2>1 DEF PrinterSound, FollowInv, manager
  <2>3. QED
    BY <1>6, <2>1, <2>2 DEF manager, Answer, FollowInv
<1>9. CASE Adds(r, p, c, said) /\ Saves
  <2>1. Register(r, "add", p, said, registry, default) /\ mem[p] = NoConf
    BY <1>9 DEF Adds
  <2>2. registry[p] = NoAdapter
    BY <2>1 DEF FollowInv, PrinterSound
  <2>3. registry \in [Printers -> AdapterOrNone] /\ built \in [Printers -> ConfOrNone]
    BY DEF ManagerOK
  <2>4. /\ \E to : Goes(r, to)
        /\ built'[p] = IF said.usable THEN said ELSE NoConf
        /\ registry'[p] # NoAdapter <=> built'[p] # NoConf
        /\ \A q \in Printers \ {p} : registry'[q] = registry[q] /\ built'[q] = built[q]
    BY <2>1, <2>2, <2>3, RegisterMakes
  <2>5. PrinterSound(p)'
    BY <1>1, <1>5, <1>7, <2>4 DEF PrinterSound
  <2>6. QED
    BY <1>6, <2>4, <2>5 DEF FollowInv
<1>10. CASE Updates(r, p, c) /\ Saves /\ registry[p] = NoAdapter
  <2>1. ReRegister(r, p, conf)
    BY <1>10 DEF Updates, conf
  <2>2. /\ \E to : Goes(r, to)
        /\ built'[p] = Built(conf)[p]
        /\ registry'[p] # NoAdapter <=> built'[p] # NoConf
        /\ \A q \in Printers \ {p} : registry'[q] = registry[q] /\ built'[q] = built[q]
    BY <1>2, <2>1, ReRegisterMakes
  <2>3. PrinterSound(p)'
    <3>1. Parsed(Parsed(c)) = Parsed(c)
      BY <1>1, ParsedSays
    <3>2. built'[p] = IF c.usable THEN Parsed(c) ELSE NoConf
      BY <1>1, <1>2, <2>2 DEF Built
    <3>3. QED
      BY <1>1, <1>5, <1>7, <2>2, <3>1, <3>2 DEF PrinterSound
  <2>4. QED
    BY <1>6, <2>2, <2>3 DEF FollowInv
<1>11. CASE Updates(r, p, c) /\ Saves /\ registry[p] # NoAdapter
  <2>1. Waits(r, "update", p, registry[p], "disconnect") /\ UNCHANGED manager
    BY <1>11 DEF Updates, Disconnect
  <2>2. Pending(p)'
    BY <2>1 DEF Waits, Goes, Pending, Settles, RequestsOK
  <2>3. PrinterSound(p)'
    BY <1>1, <1>5, <2>1, <2>2 DEF PrinterSound, FollowInv, manager
  <2>4. QED
    BY <1>6, <2>1, <2>3 DEF manager, Waits, FollowInv
<1>12. QED
  BY <1>8, <1>9, <1>10, <1>11

\* A printer is deleted.
LEMMA RemovesFollow ==
    ASSUME ManagerOK, ConfigOK, RequestsOK, FollowInv,
           NEW r \in Requests, NEW p \in Printers,
           \A q \in Printers \ {p} : ~Settles(request[r], q), Removes(r, p)
    PROVE  FollowInv'
<1> DEFINE conf == [mem EXCEPT ![p] = NoConf]
           gone == deleted \cup {p}
<1>1. /\ registry' = [registry EXCEPT ![p] = NoAdapter]
      /\ built' = [built EXCEPT ![p] = NoConf]
      /\ Answer(r)
  BY DEF Removes
<1>2. /\ conf \in [Printers -> ParsedOrNone] /\ conf[p] = NoConf /\ p \in gone
      /\ \A q \in Printers \ {p} : conf[q] = mem[q]
  BY DEF ConfigOK, ParsedOrNone
<1>3. \/ mem[p] = NoConf /\ UNCHANGED config
      \/ Save(conf, gone, {p})
  BY DEF Removes
<1> HIDE DEF conf, gone
<1>4. mem'[p] = NoConf
  BY <1>2, <1>3, SaveApart DEF config
<1>5. PrinterSound(p)'
  <2>1. registry'[p] = NoAdapter /\ built'[p] = NoConf
    BY <1>1 DEF ManagerOK
  <2>2. Built(mem')[p] = NoConf
    BY <1>4 DEF Built, NoConf
  <2>3. QED
    BY <1>4, <2>1, <2>2, ParsedSays DEF PrinterSound, ParsedOrNone
<1>6. ASSUME NEW q \in Printers \ {p}  PROVE PrinterSound(q)'
  <2>1. registry'[q] = registry[q] /\ built'[q] = built[q]
    BY <1>1 DEF ManagerOK
  <2>2. /\ mem'[q] = NoConf => mem[q] = NoConf
        /\ q \in unapplied' \/ (q \notin unapplied /\ mem'[q] = mem[q])
    BY <1>2, <1>3, SaveApart DEF config
  <2>3. Pending(q) => Pending(q)'
    BY <1>1, PendingStays DEF Answer
  <2>4. QED
    BY <2>1, <2>2, <2>3, ApartSound DEF Apart, FollowInv
<1>7. QED
  BY <1>5, <1>6 DEF FollowInv

\* An update that registers its printer again settles it.
LEMMA ReRegistersFollow ==
    ASSUME Inv, FollowInv, NEW r \in Requests, NEW p \in Printers,
           \A q \in Printers \ {p} : ~Settles(request[r], q),
           ReRegister(r, p, mem), UNCHANGED config
    PROVE  FollowInv'
<1>1. ManagerOK /\ ConfigOK /\ RequestsOK
  BY Parts
<1>2. mem' = mem /\ unapplied' = unapplied
  BY DEF config
<1>3. mem \in [Printers -> ParsedOrNone]
  BY <1>1 DEF ConfigOK
<1>4. /\ \E to : Goes(r, to)
      /\ built'[p] = Built(mem)[p]
      /\ registry'[p] # NoAdapter <=> built'[p] # NoConf
      /\ mem[p] = NoConf => registry'[p] = NoAdapter
      /\ \A q \in Printers \ {p} : registry'[q] = registry[q] /\ built'[q] = built[q]
  BY <1>1, <1>3, ReRegisterMakes
<1>5. Built(mem)' = Built(mem)
  BY <1>2 DEF Built
<1>6. PrinterSound(p)'
  <2>1. Built(mem)[p] \in ParsedOrNone
    BY <1>3 DEF Built, ParsedOrNone
  <2>2. QED
    BY <1>2, <1>4, <1>5, <2>1, ParsedSays DEF PrinterSound
<1>7. ASSUME NEW q \in Printers \ {p}  PROVE PrinterSound(q)'
  <2>1. Pending(q) => Pending(q)'
    BY <1>1, <1>4, PendingStays
  <2>2. PrinterSound(q)
    BY DEF FollowInv
  <2>3. QED
    BY <1>2, <1>4, <1>5, <2>1, <2>2 DEF PrinterSound
<1>8. QED
  BY <1>6, <1>7 DEF FollowInv

\* A handler of ApiServer keeps every printer sound, whatever the other
\* handlers wait for.
LEMMA HandlesFollow ==
    ASSUME Inv, FollowInv, NEW r \in Requests, Handles(r)
    PROVE  FollowInv'
<1>1. ManagerOK /\ ConfigOK /\ RequestsOK
  BY Parts
<1>2. request[r] \in MeantRecords
  BY <1>1 DEF RequestsOK
<1>3. ASSUME \A p \in Printers : ~Settles(request[r], p),
             \E to : Goes(r, to), UNCHANGED <<config, manager>>
      PROVE  FollowInv'
  BY <1>1, <1>3, MovesApart, ApartSound DEF FollowInv
<1>4. request[r].await # "disconnect" => \A p \in Printers : ~Settles(request[r], p)
  BY DEF Settles
<1>5. request[r] = NoRequest => request[r].await # "disconnect"
  BY DEF NoRequest
<1>6. CASE \E p \in Printers, c \in Entries : AddPrinter(r, p, c) \/ UpdatePrinter(r, p, c)
  <2>1. Entries \subseteq ConfOrNone
    BY RegistryAssumption DEF ConfOrNone
  <2>2. QED
    BY <1>1, <1>5, <1>6, <2>1, AddsFollow DEF AddPrinter, UpdatePrinter, Arrive
<1>7. CASE \E p \in Printers, c \in Entries : SetUpPrinter(r, p, c)
  BY <1>3, <1>4, <1>5, <1>7 DEF SetUpPrinter, Arrive
<1>8. ASSUME NEW p \in Printers, DeletePrinter(r, p)  PROVE FollowInv'
  <2>1. \A q \in Printers : ~Settles(request[r], q)
    BY <1>4, <1>5, <1>8 DEF DeletePrinter, Arrive
  <2>2. CASE registry[p] = NoAdapter
    BY <1>1, <1>8, <2>1, <2>2, RemovesFollow DEF DeletePrinter
  <2>3. CASE registry[p] # NoAdapter
    BY <1>3, <1>8, <2>1, <2>3 DEF DeletePrinter, Disconnect, Waits
  <2>4. QED
    BY <2>2, <2>3
<1>9. CASE \E p \in Printers : ReconnectPrinter(r, p)
  BY <1>3, <1>4, <1>5, <1>9 DEF ReconnectPrinter, Arrive, Disconnect, Waits, manager
<1>10. CASE SetUpGoesOn(r)
  <2>1. request[r].await = "look"
    BY <1>10 DEF SetUpGoesOn
  <2>2. request[r].printer \in Printers /\ request[r].entry \in Entries
    BY <1>2, <2>1 DEF MeantRecords
  <2>3. CASE Answer(r) /\ UNCHANGED <<config, manager>>
    BY <1>3, <1>4, <2>1, <2>3 DEF Answer
  <2>4. CASE \/ Adds(r, request[r].printer, request[r].entry, Parsed(request[r].entry))
             \/ Updates(r, request[r].printer, request[r].entry)
    <3> DEFINE c == request[r].entry
    <3>1. /\ Parsed(c) \in ConfOrNone /\ Parsed(Parsed(c)) = Parsed(c)
          /\ Parsed(c).usable = c.usable
      BY <2>2, ParsedSays, RegistryAssumption DEF ConfOrNone, ParsedOrNone
    <3>2. QED
      BY <1>1, <2>1, <2>2, <2>4, <3>1, AddsFollow
  <2>5. QED
    BY <1>10, <2>3, <2>4 DEF SetUpGoesOn
<1>11. CASE Disconnected(r)
  <2> DEFINE p == request[r].printer
  <2>1. p \in Printers /\ \A q \in Printers \ {p} : ~Settles(request[r], q)
    BY <1>2, <1>11 DEF Disconnected, MeantRecords, Settles
  <2>2. CASE ReRegister(r, p, mem) /\ UNCHANGED config
    BY <2>1, <2>2, ReRegistersFollow
  <2>3. CASE Removes(r, p)
    BY <1>1, <2>1, <2>3, RemovesFollow
  <2>4. CASE /\ request[r].kind = "reconnect"
             /\ Waits(r, "reconnect", p, request[r].adapter, "connect")
             /\ UNCHANGED <<config, manager>>
    BY <1>3, <2>4 DEF Settles, Waits
  <2>5. QED
    BY <1>11, <2>2, <2>3, <2>4 DEF Disconnected
<1>12. CASE Connected(r)
  BY <1>3, <1>4, <1>12 DEF Connected, Answer
<1>13. QED
  BY <1>6, <1>7, <1>8, <1>9, <1>10, <1>11, <1>12 DEF Handles

\* The constructors register what the configuration has.
LEMMA BeginsSound ==
    ASSUME NEW conf \in [Printers -> ParsedOrNone], NEW reg \in Registries(conf),
           NEW p \in Printers
    PROVE  /\ conf[p] = NoConf => reg[p] = NoAdapter
           /\ reg[p] # NoAdapter <=> Built(conf)[p] # NoConf
           /\ Parsed(Built(conf)[p]) = Built(conf)[p]
<1>1. reg[p] # NoAdapter <=> conf[p].usable
  BY DEF Registries, Registered, Usable
<1>2. conf[p].usable <=> Built(conf)[p] # NoConf
  BY DEF Built, NoConf
<1>3. Built(conf)[p] \in ParsedOrNone
  BY DEF Built, ParsedOrNone
<1>4. QED
  BY <1>1, <1>2, <1>3, ParsedSays DEF NoConf

LEMMA FollowInit == Init => FollowInv
<1> SUFFICES ASSUME Init, NEW p \in Printers  PROVE PrinterSound(p)
  BY DEF FollowInv
<1>1. mem \in [Printers -> ParsedOrNone]
  BY InitInv DEF Inv, TypeOK, ParsedOrNone
<1>2. registry \in Registries(mem) /\ built = Built(mem)
  BY DEF Init
<1>3. QED
  BY <1>1, <1>2, BeginsSound DEF PrinterSound

LEMMA FollowStep == Inv /\ FollowInv /\ [Next]_vars => FollowInv'
<1> SUFFICES ASSUME Inv, FollowInv, [Next]_vars  PROVE FollowInv'
  OBVIOUS
<1>1. ManagerOK /\ ConfigOK /\ RequestsOK
  BY Parts
<1>2. CASE UNCHANGED <<mem, unapplied, manager, request>>
  BY <1>2, ApartSound DEF Apart, Pending, FollowInv, manager
<1>3. ASSUME NEW l \in Printers, Learns(l)  PROVE FollowInv'
  <2>1. Save(mem, deleted, {}) /\ UNCHANGED <<manager, request>>
    BY <1>3 DEF Learns
  <2>2. ASSUME NEW p \in Printers  PROVE Apart(p)
    <3>1. /\ mem'[p] = NoConf => mem[p] = NoConf
          /\ p \in unapplied' \/ (p \notin unapplied /\ mem'[p] = mem[p])
      BY <1>1, <2>1, SaveApart DEF ConfigOK
    <3>2. QED
      BY <2>1, <3>1 DEF Apart, Pending, manager
  <2>3. QED
    BY <2>2, ApartSound DEF FollowInv
<1>4. CASE \/ Edit \/ DiskFills \/ DiskHasRoom
           \/ \E p \in Printers : Dials(p)
           \/ \E a \in Adapters : GivesUp(a)
  BY <1>2, <1>4 DEF Edit, DiskFills, DiskHasRoom, Dials, GivesUp, config
<1>5. CASE Restart
  <2>1. mem' \in [Printers -> ParsedOrNone]
    BY <1>1, <1>5, LoadedTyped DEF Restart, ConfigOK
  <2>2. registry' \in Registries(mem') /\ built' = Built(mem')
    BY <1>5 DEF Restart
  <2>3. \A p \in Printers : PrinterSound(p)'
    BY <2>1, <2>2, BeginsSound DEF PrinterSound
  <2>4. QED
    BY <2>3 DEF FollowInv
<1>6. CASE UNCHANGED vars
  BY <1>2, <1>6 DEF vars, config
<1>7. QED
  BY <1>3, <1>4, <1>5, <1>6, HandlesFollow DEF Next

\* Once the requests are answered, in whatever order they ran, the adapters are
\* those of the configuration.
THEOREM RegistryFollows == Spec => []RegistryFollowsConfig
<1>1. Inv /\ FollowInv => RegistryFollowsConfig
  <2> SUFFICES ASSUME Inv, FollowInv, Quiet, NEW p \in Printers \ unapplied
               PROVE  /\ registry[p] # NoAdapter <=> mem[p].usable
                      /\ mem[p].usable => Parsed(built[p]) = mem[p]
    BY DEF RegistryFollowsConfig
  <2>1. ~Pending(p)
    BY DEF Quiet, Pending, Settles, NoRequest
  <2>2. Parsed(built[p]) = Built(mem)[p] /\ (registry[p] # NoAdapter <=> built[p] # NoConf)
    BY <2>1 DEF FollowInv, PrinterSound
  <2>3. Parsed(built[p]) = NoConf <=> built[p] = NoConf
    BY ParsedSays, Parts DEF ManagerOK
  <2>4. Built(mem)[p] = IF mem[p].usable THEN mem[p] ELSE NoConf
    BY DEF Built
  <2>5. mem[p].usable => mem[p] # NoConf
    BY DEF NoConf
  <2>6. QED
    BY <2>2, <2>3, <2>4, <2>5
<1>2. QED
  BY InitInv, InvStep, FollowInit, FollowStep, <1>1, PTL DEF Spec

-----------------------------------------------------------------------------
(* No adapter that nobody knows is left as it was *)

\* The requests under way are about different printers.
OneEach ==
    \A r, s \in Requests :
        r # s /\ request[r].printer \in Printers => request[s].printer # request[r].printer

Attends(q) == q.await \in {"disconnect", "connect"}

\* A request that waits for an adapter waits for the one that is registered.
HoldsIts ==
    \A r \in Requests :
        request[r].adapter =
            IF Attends(request[r]) THEN registry[request[r].printer] ELSE NoAdapter

Known == {registry[p] : p \in Printers} \cup {request[r].adapter : r \in Requests}

StrayInv == ~overlapped => OneEach /\ HoldsIts /\ live \subseteq Known

\* Request r is about p alone, or done, and holds the adapter of p, if any.
Tells(r, p) ==
    \E to :
        /\ Goes(r, to)
        /\ to.printer \in {p, NoPrinter}
        /\ Attends(to) => to.printer = p
        /\ to.adapter = IF Attends(to) THEN registry'[p] ELSE NoAdapter

\* A step of request r about p: an adapter that p loses has been told to let go.
OwnStep(r, p) ==
    /\ Tells(r, p)
    /\ \A q \in Printers \ {p} : registry'[q] = registry[q]
    /\ \A a \in live' : /\ a \in live \cup {registry'[p]}
                        /\ a = registry[p] => a = registry'[p]

\* No other request is about p.
Alone(r, p) == \A s \in Requests \ {r} : request[s].printer # p

LEMMA OwnStepSafe ==
    ASSUME Inv, OneEach, HoldsIts, live \subseteq Known, live' \subseteq Adapters,
           NEW r \in Requests, NEW p \in Printers, Alone(r, p),
           request[r].printer \in {p, NoPrinter},
           OwnStep(r, p)
    PROVE  OneEach' /\ HoldsIts' /\ live' \subseteq Known'
<1>1. ManagerOK /\ RequestsOK
  BY Parts
<1>2. PICK to :
        /\ Goes(r, to)
        /\ to.printer \in {p, NoPrinter}
        /\ Attends(to) => to.printer = p
        /\ to.adapter = IF Attends(to) THEN registry'[p] ELSE NoAdapter
  BY DEF OwnStep, Tells
<1>3. request'[r] = to /\ \A s \in Requests \ {r} : request'[s] = request[s]
  BY <1>1, <1>2 DEF Goes, RequestsOK
<1>4. \A q \in Printers \ {p} : registry'[q] = registry[q]
  BY DEF OwnStep
<1>5. NoPrinter \notin Printers /\ NoAdapter \notin Adapters
  BY RegistryAssumption
<1>6. OneEach'
  <2> SUFFICES ASSUME NEW s \in Requests, NEW t \in Requests, s # t,
                      request'[s].printer \in Printers
               PROVE  request'[t].printer # request'[s].printer
    BY DEF OneEach
  <2>1. CASE s = r
    BY <1>2, <1>3, <1>5, <2>1 DEF Alone
  <2>2. CASE t = r
    BY <1>2, <1>3, <1>5, <2>2 DEF Alone
  <2>3. CASE s # r /\ t # r
    BY <1>3, <2>3 DEF OneEach
  <2>4. QED
    BY <2>1, <2>2, <2>3
<1>7. HoldsIts'
  <2> SUFFICES ASSUME NEW s \in Requests
               PROVE  request'[s].adapter =
                        IF Attends(request'[s]) THEN registry'[request'[s].printer]
                        ELSE NoAdapter
    BY DEF HoldsIts, Attends
  <2>1. CASE s = r
    BY <1>2, <1>3, <2>1
  <2>2. CASE s # r
    <3>1. request'[s] = request[s] /\ request[s].printer # p
      BY <1>3, <2>2 DEF Alone
    <3>2. Attends(request[s]) => request[s].printer \in Printers
      BY <1>1 DEF RequestsOK, MeantRecords, Attends
    <3>3. QED
      BY <1>4, <3>1, <3>2 DEF HoldsIts
  <2>3. QED
    BY <2>1, <2>2
<1>8. live' \subseteq Known'
  <2> SUFFICES ASSUME NEW a \in live', a # registry'[p]  PROVE a \in Known'
    BY DEF Known
  <2>1. a \in live /\ a # registry[p] /\ a # NoAdapter
    BY <1>5 DEF OwnStep
  <2>2. request[r].adapter \in {registry[p], NoAdapter}
    <3>1. Attends(request[r]) => request[r].printer \in Printers
      BY <1>1 DEF RequestsOK, MeantRecords, Attends
    <3>2. QED
      BY <1>5, <3>1 DEF HoldsIts
  <2>3. CASE \E q \in Printers : a = registry[q]
    BY <1>4, <2>1, <2>3 DEF Known
  <2>4. CASE \E s \in Requests : a = request[s].adapter
    BY <1>3, <2>1, <2>2, <2>4 DEF Known
  <2>5. QED
    BY <2>1, <2>3, <2>4 DEF Known
<1>9. QED
  BY <1>6, <1>7, <1>8

\* What the requests make of the registry, as steps of their own printer.
LEMMA WaitsTells ==
    ASSUME NEW r, NEW k, NEW p, NEW a, NEW await \in {"disconnect", "connect"},
           Waits(r, k, p, a, await), a = registry'[p]
    PROVE  Tells(r, p)
  BY DEF Waits, Tells, Attends

LEMMA AnswerTells ==
    ASSUME NEW r, NEW p, Answer(r)
    PROVE  Tells(r, p)
  BY DEF Answer, Tells, NoRequest, Attends

\* Its new adapter is the one that p has now.
LEMMA RegisterOwn ==
    ASSUME NEW r, NEW k, NEW p \in Printers, NEW c, NEW def,
           NEW reg \in [Printers -> AdapterOrNone],
           Register(r, k, p, c, reg, def)
    PROVE  /\ Tells(r, p)
           /\ \A q \in Printers \ {p} : registry'[q] = reg[q]
<1>1. CASE c.usable
  <2>1. PICK a \in Fresh :
            /\ registry' = [reg EXCEPT ![p] = a]
            /\ Waits(r, k, p, a, "connect") \/ Answer(r)
    BY <1>1 DEF Register
  <2>2. a = registry'[p]
    BY <2>1
  <2>3. QED
    BY <2>1, <2>2, WaitsTells, AnswerTells
<1>2. CASE ~c.usable
  BY <1>2, AnswerTells DEF Register
<1>3. QED
  BY <1>1, <1>2

LEMMA ReRegisterOwn ==
    ASSUME ManagerOK, NEW r, NEW p \in Printers, NEW conf, ReRegister(r, p, conf)
    PROVE  /\ Tells(r, p)
           /\ \A q \in Printers \ {p} : registry'[q] = registry[q]
<1> DEFINE reg == [registry EXCEPT ![p] = NoAdapter]
<1>1. PICK def : Register(r, "update", p, conf[p], reg, def)
  BY DEF ReRegister
<1>2. reg \in [Printers -> AdapterOrNone] /\ \A q \in Printers \ {p} : reg[q] = registry[q]
  BY DEF ManagerOK, AdapterOrNone
<1> HIDE DEF reg
<1>3. QED
  BY <1>1, <1>2, RegisterOwn

LEMMA RemovesOwn ==
    ASSUME ManagerOK, NEW r, NEW p \in Printers, Removes(r, p)
    PROVE  /\ Tells(r, p)
           /\ \A q \in Printers \ {p} : registry'[q] = registry[q]
  BY AnswerTells DEF Removes, ManagerOK

\* A printer that has no adapter has none to lose.
LEMMA BareOwn ==
    ASSUME NEW r, NEW p \in Printers, live \subseteq Adapters, UNCHANGED live,
           registry[p] = NoAdapter, Tells(r, p),
           \A q \in Printers \ {p} : registry'[q] = registry[q]
    PROVE  OwnStep(r, p)
  BY RegistryAssumption DEF OwnStep

\* Nor has one whose adapter stays.
LEMMA SameOwn ==
    ASSUME NEW r, NEW p \in Printers, UNCHANGED live, UNCHANGED registry, Tells(r, p)
    PROVE  OwnStep(r, p)
  BY DEF OwnStep

LEMMA AddsOwn ==
    ASSUME Inv, FollowInv, NEW r \in Requests, NEW p \in Printers, NEW c \in Entries, NEW said,
           UNCHANGED live, Adds(r, p, c, said) \/ Updates(r, p, c)
    PROVE  OwnStep(r, p)
<1>1. ManagerOK /\ live \subseteq Adapters
  BY Parts DEF LinksOK
<1>2. CASE ~Saves
  BY <1>2, AnswerTells, SameOwn DEF Adds, Updates, manager
<1>3. CASE Adds(r, p, c, said) /\ Saves
  <2>1. registry[p] = NoAdapter
    BY <1>3 DEF Adds, FollowInv, PrinterSound
  <2>2. Register(r, "add", p, said, registry, default)
    BY <1>3 DEF Adds
  <2>3. QED
    BY <1>1, <2>1, <2>2, RegisterOwn, BareOwn DEF ManagerOK
<1>4. CASE Updates(r, p, c) /\ Saves /\ registry[p] = NoAdapter
  <2>1. ReRegister(r, p, [mem EXCEPT ![p] = Parsed(c)])
    BY <1>4 DEF Updates
  <2>2. QED
    BY <1>1, <1>4, <2>1, ReRegisterOwn, BareOwn
<1>5. CASE Updates(r, p, c) /\ Saves /\ registry[p] # NoAdapter
  <2>1. Waits(r, "update", p, registry[p], "disconnect") /\ registry' = registry
    BY <1>5 DEF Updates, Disconnect, manager
  <2>2. Tells(r, p)
    BY <2>1, WaitsTells
  <2>3. QED
    BY <2>1, <2>2, SameOwn
<1>6. QED
  BY <1>2, <1>3, <1>4, <1>5

\* Every handler is a step of its own printer, as long as its adapter is the
\* registered one.
LEMMA ArrivesOwn ==
    ASSUME Inv, FollowInv, NEW r \in Requests, NEW p \in Printers,
           \/ \E c \in Entries : \/ AddPrinter(r, p, c)
                                 \/ UpdatePrinter(r, p, c)
                                 \/ SetUpPrinter(r, p, c)
           \/ DeletePrinter(r, p)
           \/ ReconnectPrinter(r, p)
    PROVE  OwnStep(r, p)
<1>1. ManagerOK /\ live \subseteq Adapters
  BY Parts DEF LinksOK
<1>2. CASE \E c \in Entries : AddPrinter(r, p, c) \/ UpdatePrinter(r, p, c)
  BY <1>2, AddsOwn DEF AddPrinter, UpdatePrinter, links
<1>3. CASE \E c \in Entries : SetUpPrinter(r, p, c)
  <2>1. Tells(r, p) /\ UNCHANGED <<live, registry>>
    BY <1>3 DEF SetUpPrinter, Tells, Attends, manager, links
  <2>2. QED
    BY <2>1, SameOwn
<1>4. CASE DeletePrinter(r, p) /\ registry[p] = NoAdapter
  <2>1. Removes(r, p) /\ UNCHANGED live
    BY <1>4 DEF DeletePrinter, links
  <2>2. QED
    BY <1>1, <1>4, <2>1, RemovesOwn, BareOwn
<1>5. ASSUME NEW k, Disconnect(r, k, p), UNCHANGED live  PROVE OwnStep(r, p)
  <2>1. Waits(r, k, p, registry[p], "disconnect") /\ registry' = registry
    BY <1>5 DEF Disconnect, manager
  <2>2. Tells(r, p)
    BY <2>1, WaitsTells
  <2>3. QED
    BY <1>5, <2>1, <2>2, SameOwn
<1>6. CASE DeletePrinter(r, p) /\ registry[p] # NoAdapter
  BY <1>5, <1>6 DEF DeletePrinter, links
<1>7. CASE ReconnectPrinter(r, p)
  <2>1. CASE Waits(r, "reconnect", p, registry[p], "connect") /\ UNCHANGED manager
    <3>1. registry' = registry /\ UNCHANGED live
      BY <1>7, <2>1 DEF ReconnectPrinter, manager, links
    <3>2. Tells(r, p)
      BY <2>1, <3>1, WaitsTells
    <3>3. QED
      BY <3>1, <3>2, SameOwn
  <2>2. QED
    BY <1>5, <1>7, <2>1 DEF ReconnectPrinter, links
<1>8. QED
  BY <1>2, <1>3, <1>4, <1>6, <1>7

LEMMA ContinuesOwn ==
    ASSUME Inv, FollowInv, HoldsIts, NEW r \in Requests,
           SetUpGoesOn(r) \/ Disconnected(r) \/ Connected(r)
    PROVE  request[r].printer \in Printers /\ OwnStep(r, request[r].printer)
<1>1. ManagerOK /\ RequestsOK /\ live \subseteq Adapters
  BY Parts DEF LinksOK
<1>2. request[r] \in MeantRecords /\ request[r].await \in {"look", "disconnect", "connect"}
  BY <1>1 DEF RequestsOK, SetUpGoesOn, Disconnected, Connected
<1>3. PICK p \in Printers : p = request[r].printer
  BY <1>2 DEF MeantRecords
<1>4. CASE SetUpGoesOn(r)
  <2>1. request[r].entry \in Entries /\ UNCHANGED live
    BY <1>2, <1>4 DEF MeantRecords, SetUpGoesOn, links
  <2>2. CASE Answer(r) /\ UNCHANGED <<config, manager>>
    BY <1>3, <2>1, <2>2, AnswerTells, SameOwn DEF manager
  <2>3. QED
    BY <1>3, <1>4, <2>1, <2>2, AddsOwn DEF SetUpGoesOn
<1>5. ASSUME request[r].await # "look"  PROVE request[r].adapter = registry[p]
  BY <1>2, <1>3, <1>5 DEF HoldsIts, Attends
<1>6. CASE Connected(r)
  <2>1. /\ live' \subseteq live \cup {registry[p]} /\ registry' = registry
        /\ Tells(r, p)
    BY <1>5, <1>6, AnswerTells DEF Connected, manager
  <2>2. QED
    BY <1>3, <2>1 DEF OwnStep
<1>7. CASE Disconnected(r)
  <2>1. live' = live \ {registry[p]}
    BY <1>5, <1>7 DEF Disconnected, LetGo
  <2>2. /\ Tells(r, p)
        /\ \A q \in Printers \ {p} : registry'[q] = registry[q]
    <3>1. CASE ReRegister(r, p, mem)
      BY <1>1, <3>1, ReRegisterOwn
    <3>2. CASE Removes(r, p)
      BY <1>1, <3>2, RemovesOwn
    <3>3. CASE /\ Waits(r, "reconnect", p, request[r].adapter, "connect")
               /\ UNCHANGED <<config, manager>>
      <4>1. registry' = registry /\ request[r].adapter = registry'[p]
        BY <1>5, <1>7, <3>3 DEF manager, Disconnected
      <4>2. QED
        BY <3>3, <4>1, WaitsTells
    <3>4. QED
      BY <1>3, <1>7, <3>1, <3>2, <3>3 DEF Disconnected
  <2>3. QED
    BY <1>3, <2>1, <2>2 DEF OwnStep
<1>8. QED
  BY <1>3, <1>4, <1>6, <1>7

LEMMA StrayInit == Init => StrayInv
<1> SUFFICES ASSUME Init  PROVE OneEach /\ HoldsIts /\ live \subseteq Known
  BY DEF StrayInv
<1>1. \A r \in Requests : request[r] = NoRequest
  BY DEF Init
<1>2. OneEach /\ HoldsIts
  BY <1>1, RegistryAssumption DEF OneEach, HoldsIts, NoRequest, Attends
<1>3. live \subseteq Known
  BY DEF Init, Known, Usable, Driven
<1>4. QED
  BY <1>2, <1>3

LEMMA StrayStep == Inv /\ Inv' /\ FollowInv /\ StrayInv /\ [Next]_vars => StrayInv'
<1> SUFFICES ASSUME Inv, Inv', FollowInv, StrayInv, [Next]_vars, ~overlapped'
             PROVE  OneEach' /\ HoldsIts' /\ live' \subseteq Known'
  BY DEF StrayInv
<1>1. live' \subseteq Adapters
  BY DEF Inv, TypeOK
<1>2. ASSUME UNCHANGED <<registry, live, request, overlapped>>
      PROVE  OneEach' /\ HoldsIts' /\ live' \subseteq Known'
  BY <1>2 DEF StrayInv, OneEach, HoldsIts, Known, Attends
<1>3. ASSUME NEW r \in Requests, NEW p \in Printers,
             \/ \E c \in Entries : \/ AddPrinter(r, p, c)
                                   \/ UpdatePrinter(r, p, c)
                                   \/ SetUpPrinter(r, p, c)
             \/ DeletePrinter(r, p)
             \/ ReconnectPrinter(r, p)
      PROVE  OneEach' /\ HoldsIts' /\ live' \subseteq Known'
  <2>1. Arrive(r, p)
    BY <1>3 DEF AddPrinter, UpdatePrinter, SetUpPrinter, DeletePrinter, ReconnectPrinter
  <2>2. ~overlapped /\ Alone(r, p) /\ request[r].printer = NoPrinter
    <3>1. ~(overlapped \/ \E s \in Requests : request[s].printer = p)
      BY <2>1, Zenon DEF Arrive
    <3>2. request[r].printer = NoPrinter
      BY <2>1 DEF Arrive, NoRequest
    <3>3. QED
      BY <3>1, <3>2 DEF Alone
  <2>3. OwnStep(r, p)
    BY <1>3, ArrivesOwn
  <2>4. QED
    BY <1>1, <2>2, <2>3, OwnStepSafe DEF StrayInv
<1>4. ASSUME NEW r \in Requests, SetUpGoesOn(r) \/ Disconnected(r) \/ Connected(r)
      PROVE  OneEach' /\ HoldsIts' /\ live' \subseteq Known'
  <2>1. ~overlapped
    BY <1>4 DEF SetUpGoesOn, Disconnected, Connected
  <2>2. request[r].printer \in Printers /\ OwnStep(r, request[r].printer)
    BY <1>4, <2>1, ContinuesOwn DEF StrayInv
  <2>3. Alone(r, request[r].printer)
    BY <2>1, <2>2 DEF StrayInv, OneEach, Alone
  <2>4. QED
    BY <1>1, <2>1, <2>2, <2>3, OwnStepSafe DEF StrayInv
<1>5. ASSUME NEW r \in Requests, Handles(r)
      PROVE  OneEach' /\ HoldsIts' /\ live' \subseteq Known'
  BY <1>3, <1>4, <1>5 DEF Handles
<1>6. CASE Restart
  <2>1. \A r \in Requests : request'[r] = NoRequest
    BY <1>6 DEF Restart
  <2>2. OneEach' /\ HoldsIts'
    BY <2>1, RegistryAssumption DEF OneEach, HoldsIts, NoRequest, Attends
  <2>3. live' \subseteq Known'
    BY <1>6 DEF Restart, Known, Usable, Driven
  <2>4. QED
    BY <2>2, <2>3
<1>7. CASE UNCHANGED vars
  BY <1>2, <1>7 DEF vars, manager, links
<1>8. CASE (\E p \in Printers : Learns(p)) \/ Edit \/ DiskFills \/ DiskHasRoom
  BY <1>2, <1>8 DEF Learns, Edit, DiskFills, DiskHasRoom, manager, links
<1>9. CASE (\E p \in Printers : Dials(p)) \/ \E a \in Adapters : GivesUp(a)
  <2>1. UNCHANGED <<registry, request, overlapped>> /\ live' \subseteq live \cup Known
    BY <1>9 DEF Dials, GivesUp, manager, Known
  <2>2. QED
    BY <2>1 DEF StrayInv, OneEach, HoldsIts, Known, Attends
<1>10. QED
  BY <1>5, <1>6, <1>7, <1>8, <1>9 DEF Next

\* As long as no two requests for one printer overlap, whatever else does, no
\* adapter keeps a printer's connection without having been told to disconnect,
\* unless the registry or a request still knows it (unregisterPrinter, reconnect,
\* registerPrinter).
THEOREM NoneForgottenSafe == Spec => []NoneForgotten
<1>1. StrayInv => NoneForgotten
  BY DEF StrayInv, NoneForgotten, Known
<1>2. QED
  BY InitInv, InvStep, FollowInit, FollowStep, StrayInit, StrayStep, <1>1, PTL DEF Spec

=============================================================================
