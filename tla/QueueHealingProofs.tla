-------------------------- MODULE QueueHealingProofs --------------------------
(***************************************************************************)
(* QueueHealing for any number of printers, queues and ports, and for      *)
(* whatever happens to them:                                               *)
(*   - the types;                                                          *)
(*   - no two printers come to use one queue;                              *)
(*   - until a guess has to be made no ticket comes out at another station.*)
(***************************************************************************)
EXTENDS QueueHealing, FiniteSetTheorems, SequenceTheorems, TLAPS

WindowsQueues == [Names -> Queues \cup {NoQueue}]

Sockets == [Printers -> Ports \cup {NoPort}]

\* A look at Windows, whole or failed.
ViewRecords == [queue : WindowsQueues, socket : Sockets, spooler : BOOLEAN]

Verdicts == [status : {"UNKNOWN", "ONLINE", "OFFLINE", "ERROR", "PAPER_OUT"},
             printable : BOOLEAN, healable : BOOLEAN]

\* Who acts has a repair left.
ActHasPlan == \A p \in Printers : pc[p] = "act" => plan[p] # <<>>

Inv == TypeOK /\ cache \subseteq ViewRecords /\ ActHasPlan

-----------------------------------------------------------------------------
(* Views, and what is made of them *)

\* What a look may show is a view: Windows as it is, or nothing.
LEMMA ViewsTyped ==
    ASSUME Inv
    PROVE  Views \subseteq ViewRecords /\ SeenViews \subseteq ViewRecords
<1>1. World \in ViewRecords
  BY DEF Inv, TypeOK, World, ViewRecords, WindowsQueues, Sockets
<1>2. EmptyView \in ViewRecords
  BY DEF EmptyView, ViewRecords, WindowsQueues, Sockets
<1>3. QED
  BY <1>1, <1>2 DEF Inv, Views, SeenViews

\* A look leaves the cache with views, and counts a failure at most.
LEMMA LooksTyped ==
    ASSUME Inv, NEW v \in ViewRecords, Looks(v) \/ Sees(v)
    PROVE  cache' \subseteq ViewRecords /\ changes' \in 0 .. MaxChanges
<1>1. changes \in 0 .. MaxChanges /\ MaxChanges \in Nat
  BY HealingAssumption DEF Inv, TypeOK
<1>2. changes' = changes \/ (changes < MaxChanges /\ changes' = changes + 1)
  BY DEF Looks, Sees
<1>3. cache' = {v} \/ cache' = cache
  BY DEF Looks, Sees
<1>4. QED
  BY <1>1, <1>2, <1>3 DEF Inv

\* classifyStatus answers with a status of an adapter.
LEMMA VerdictTyped ==
    ASSUME NEW p \in Printers, NEW n \in Names, NEW v \in ViewRecords
    PROVE  Verdict(p, n, v) \in Verdicts
<1>1. v.queue[n] \in Queues \cup {NoQueue} /\ v.spooler \in BOOLEAN
  BY DEF ViewRecords, WindowsQueues
<1>2. CASE v.queue[n] = NoQueue \/ ~v.spooler
  BY <1>2 DEF Verdict, Says, Verdicts
<1>3. CASE v.queue[n] # NoQueue /\ v.spooler
  <2>1. v.queue[n].offline \in BOOLEAN
    BY <1>1, <1>3 DEF Queues
  <2>2. QueueVerdict(p, n, v) \in Verdicts
    BY <2>1 DEF QueueVerdict, Says, Verdicts
  <2>3. QED
    BY <1>3, <2>2 DEF Verdict
<1>4. QED
  BY <1>2, <1>3

\* buildHints makes hints of a queue that is there.
LEMMA HintsTyped ==
    ASSUME NEW n \in Names, NEW v \in ViewRecords
    PROVE  HintsOf(v.queue[n], v) \in Hints
<1> DEFINE q == v.queue[n]
<1>1. q.port \in Ports \cup {NoPort}
  BY DEF ViewRecords, WindowsQueues, Queues, NoQueue
<1>2. Attached(q, v) => ModelOf[CHOOSE d \in Printers : v.socket[d] = q.port] \in Models
  BY DEF Attached, Live, Models
<1>3. QED
  BY <1>1, <1>2 DEF HintsOf, Hints

\* pickMigrationPort names ports that exist.
LEMMA SuggestedTyped ==
    ASSUME NEW p \in Printers, NEW n \in Names, NEW v \in ViewRecords
    PROVE  Suggested(p, n, v) \subseteq Ports
<1>1. v.socket \in Sockets
  BY DEF ViewRecords
<1>2. Live(v) \subseteq Ports
  BY <1>1 DEF Live, Sockets
<1>3. SameModel(p, v) \subseteq Ports /\ Unclaimed(n, v) \subseteq Ports
  BY <1>1, <1>2 DEF SameModel, Unclaimed, Sockets
<1>4. QED
  BY <1>3 DEF Suggested

\* A repair is a HealAction.
LEMMA RepairTyped ==
    ASSUME NEW k \in {"restart", "rebind", "setPort", "clear", "resume"}, NEW n \in Names,
           NEW ports \in SUBSET Ports
    PROVE  Repair(k, n, ports) \in Repairs
  BY DEF Repair, Repairs

\* A repair that a condition adds to a plan.
LEMMA IfIn ==
    ASSUME NEW S, NEW condition, NEW repair \in S
    PROVE  If(condition, repair) \in Seq(S)
  BY DEF If

\* planHealing makes a sequence of repairs.
LEMMA PlanTyped ==
    ASSUME NEW p \in Printers, NEW n \in Names, NEW v \in ViewRecords
    PROVE  Plan(p, n, v) \in Seq(Repairs)
<1>1. {} \in SUBSET Ports /\ Suggested(p, n, v) \in SUBSET Ports
  BY SuggestedTyped
<1>2. QueuePlan(p, n, v) \in Seq(Repairs)
  <2> DEFINE q      == v.queue[n]
             first  == If(Migrated(q, v) /\ Suggested(p, n, v) # {},
                          Repair("setPort", n, Suggested(p, n, v)))
             second == If(q.offline /\ Attached(q, v), Repair("clear", n, {}))
             third  == If(q.state \in {"paused", "error"}, Repair("resume", n, {}))
  <2>1. first \in Seq(Repairs) /\ second \in Seq(Repairs) /\ third \in Seq(Repairs)
    BY <1>1, RepairTyped, IfIn
  <2>2. QueuePlan(p, n, v) = first \o second \o third
    BY DEF QueuePlan
  <2> HIDE DEF first, second, third
  <2>3. first \o second \in Seq(Repairs)
    BY <2>1, ConcatProperties
  <2>4. QED
    BY <2>1, <2>2, <2>3, ConcatProperties
<1>3. /\ <<Repair("restart", n, {})>> \in Seq(Repairs)
      /\ <<Repair("rebind", n, {})>> \in Seq(Repairs)
  BY <1>1, RepairTyped
<1>4. QED
  BY <1>2, <1>3 DEF Plan

-----------------------------------------------------------------------------
(* What the steps of an adapter change *)

\* resolveTarget leaves the printer bound to a name.
LEMMA ResolvesTyped ==
    ASSUME Inv, NEW p \in Printers, NEW v \in ViewRecords, NEW n \in Names, Resolves(p, v, n)
    PROVE  bound' \in [Printers -> Names] /\ guessed' \subseteq Printers
  BY DEF Inv, TypeOK, Resolves

\* Whatever happens to the station is counted up to MaxChanges.
LEMMA ChangeTyped ==
    ASSUME changes \in 0 .. MaxChanges, NEW kind, Change(kind)
    PROVE  changes' \in 0 .. MaxChanges
<1>1. MaxChanges \in Nat /\ changes < MaxChanges /\ changes' = changes + 1
  BY HealingAssumption DEF Change
<1>2. QED
  BY <1>1

\* status, healable and hints.
JudgedOK ==
    /\ status \in [Printers -> {"UNKNOWN", "ONLINE", "OFFLINE", "ERROR", "PAPER_OUT"}]
    /\ healable \in [Printers -> BOOLEAN]
    /\ hints \in [Printers -> Hints]

\* pc, plan and held, and what comes with them.
CallerOK ==
    /\ pc \in [Printers -> {"idle", "connect", "plan", "act", "after", "verify"}]
    /\ plan \in [Printers -> Seq(Repairs)]
    /\ held \in [Printers -> Hints]
    /\ cooled \in [Printers -> BOOLEAN]
    /\ ActHasPlan

\* What the adapters know of Windows.
KnownOK ==
    /\ bound \in [Printers -> Names]
    /\ guessed \subseteq Printers
    /\ cache \subseteq ViewRecords
    /\ changes \in 0 .. MaxChanges

WindowsOK == queue \in WindowsQueues /\ socket \in Sockets /\ spooler \in BOOLEAN

\* The invariant, taken apart by what steps touch together.
LEMMA Parts == Inv <=> JudgedOK /\ CallerOK /\ KnownOK /\ WindowsOK
  BY DEF Inv, TypeOK, JudgedOK, CallerOK, KnownOK, WindowsOK, WindowsQueues, Sockets

\* The parts of the next state make up its invariant.
LEMMA PartsNext == JudgedOK' /\ CallerOK' /\ KnownOK' /\ WindowsOK' => Inv'
  BY DEF Inv, TypeOK, JudgedOK, CallerOK, KnownOK, WindowsOK, WindowsQueues, Sockets

\* applyVerdict and rememberIdentity set a status, a flag and hints.
LEMMA AppliesTyped ==
    ASSUME JudgedOK, NEW p \in Printers, NEW d \in Verdicts, NEW h \in Hints, Applies(p, d, h)
    PROVE  JudgedOK'
<1>1. d.status \in {"UNKNOWN", "ONLINE", "OFFLINE", "ERROR", "PAPER_OUT"} /\ d.healable \in BOOLEAN
  BY DEF Verdicts
<1>2. QED
  BY <1>1 DEF Applies, JudgedOK

\* A caller that goes on with no repair but what it has.
LEMMA GoesTyped ==
    ASSUME CallerOK, NEW p \in Printers,
           NEW where \in {"idle", "connect", "plan", "after", "verify"},
           Goes(p, where), UNCHANGED plan,
           held' \in [Printers -> Hints], cooled' \in [Printers -> BOOLEAN]
    PROVE  CallerOK'
  BY DEF CallerOK, Goes, ActHasPlan

\* Nothing remembered is a value of the hints, too.
LEMMA NoHintsTyped == NoHints \in Hints
  BY DEF NoHints, Hints

\* Asking, connecting, beginning to repair.
LEMMA ConnectsSafe ==
    ASSUME Inv, NEW p \in Printers,
           \/ GetStatus(p) \/ Connect(p) \/ ConnectFails(p) \/ Connects(p)
           \/ AutoRepair(p) \/ OperatorRepairs(p) \/ CoolsDown(p)
    PROVE  Inv'
<1>1. JudgedOK /\ CallerOK /\ KnownOK /\ WindowsOK
  BY Parts
<1>2. WindowsOK'
  BY <1>1 DEF GetStatus, Connect, ConnectFails, Connects, AutoRepair, OperatorRepairs,
     CoolsDown, Heals, windows, WindowsOK
<1>3. cooled \in [Printers -> BOOLEAN] /\ held \in [Printers -> Hints]
  BY <1>1 DEF CallerOK
<1>4. CASE GetStatus(p)
  <2>1. PICK v \in SeenViews, n \in Names :
            /\ Sees(v)
            /\ Resolves(p, v, n)
            /\ Applies(p, Verdict(p, n, v), HintsOf(v.queue[n], v))
            /\ UNCHANGED <<windows, cooled, caller>>
    BY <1>4 DEF GetStatus
  <2>2. v \in ViewRecords
    BY ViewsTyped
  <2>3. JudgedOK'
    BY <1>1, <2>1, <2>2, VerdictTyped, HintsTyped, AppliesTyped
  <2>4. KnownOK'
    BY <2>1, <2>2, LooksTyped, ResolvesTyped DEF KnownOK
  <2>5. CallerOK'
    BY <1>1, <2>1 DEF CallerOK, caller, ActHasPlan
  <2>6. QED
    BY <1>2, <2>3, <2>4, <2>5, PartsNext
<1>5. CASE Connect(p)
  <2>1. CallerOK'
    BY <1>1, <1>3, <1>5, GoesTyped DEF Connect
  <2>2. JudgedOK' /\ KnownOK'
    BY <1>1, <1>5 DEF Connect, memory, JudgedOK, KnownOK
  <2>3. QED
    BY <1>2, <2>1, <2>2, PartsNext
<1>6. CASE ConnectFails(p)
  <2>1. PICK v \in SeenViews : Sees(v)
    BY <1>6 DEF ConnectFails
  <2>2. v \in ViewRecords
    BY ViewsTyped
  <2>3. KnownOK'
    BY <1>1, <1>6, <2>1, <2>2, LooksTyped DEF ConnectFails, memory, KnownOK
  <2>4. CallerOK'
    BY <1>1, <1>3, <1>6, GoesTyped DEF ConnectFails
  <2>5. JudgedOK'
    BY <1>1, <1>6 DEF ConnectFails, memory, JudgedOK
  <2>6. QED
    BY <1>2, <2>3, <2>4, <2>5, PartsNext
<1>7. CASE Connects(p)
  <2>1. PICK v \in SeenViews, n \in Names :
            LET d == Verdict(p, n, v)
                waits == d.healable /\ ~d.printable
            IN  /\ Sees(v)
                /\ Resolves(p, v, n)
                /\ v.queue[n] # NoQueue
                /\ cooled' = [cooled EXCEPT ![p] = cooled[p] /\ ~d.healable]
                /\ Goes(p, IF d.healable /\ cooled[p] THEN "plan"
                           ELSE IF waits THEN "verify" ELSE "idle")
                /\ Holds(p, IF waits THEN HintsOf(v.queue[n], v) ELSE NoHints)
                /\ IF waits THEN UNCHANGED <<status, healable, hints>>
                   ELSE Applies(p, d, HintsOf(v.queue[n], v))
    BY <1>7 DEF Connects
  <2> DEFINE d == Verdict(p, n, v)
             h == HintsOf(v.queue[n], v)
             waits == d.healable /\ ~d.printable
  <2>2. v \in ViewRecords
    BY ViewsTyped
  <2>3. d \in Verdicts /\ h \in Hints
    BY <2>2, VerdictTyped, HintsTyped
  <2>4. PICK where \in {"plan", "verify", "idle"} : Goes(p, where)
    BY <2>1
  <2>5. held' \in [Printers -> Hints]
    <3>1. (IF waits THEN h ELSE NoHints) \in Hints
      BY <2>3, NoHintsTyped
    <3>2. QED
      BY <1>3, <2>1, <3>1 DEF Holds
  <2>6. cooled' \in [Printers -> BOOLEAN]
    BY <1>3, <2>1
  <2>7. CallerOK'
    BY <1>1, <1>7, <2>4, <2>5, <2>6, GoesTyped DEF Connects
  <2>8. JudgedOK'
    <3>1. CASE waits
      BY <1>1, <2>1, <3>1 DEF JudgedOK
    <3>2. CASE ~waits
      <4>1. Applies(p, d, h)
        BY <2>1, <3>2
      <4> HIDE DEF d, h
      <4>2. QED
        BY <1>1, <2>3, <4>1, AppliesTyped
    <3>3. QED
      BY <3>1, <3>2
  <2>9. KnownOK'
    <3>1. Sees(v) /\ Resolves(p, v, n)
      BY <2>1
    <3>2. QED
      BY <2>2, <3>1, LooksTyped, ResolvesTyped DEF KnownOK
  <2>10. QED
    BY <1>2, <2>7, <2>8, <2>9, PartsNext
<1>8. CASE AutoRepair(p) \/ OperatorRepairs(p)
  <2>1. Heals(p)
    BY <1>8 DEF AutoRepair, OperatorRepairs
  <2>2. cooled' \in [Printers -> BOOLEAN]
    BY <1>3, <2>1 DEF Heals
  <2>3. CallerOK'
    BY <1>1, <1>3, <2>1, <2>2, GoesTyped DEF Heals
  <2>4. changes' \in 0 .. MaxChanges
    BY <1>1, <1>8, ChangeTyped DEF AutoRepair, OperatorRepairs, KnownOK
  <2>5. JudgedOK' /\ KnownOK'
    BY <1>1, <2>1, <2>4 DEF Heals, memory, JudgedOK, KnownOK
  <2>6. QED
    BY <1>2, <2>3, <2>5, PartsNext
<1>9. CASE CoolsDown(p)
  <2>1. cooled' \in [Printers -> BOOLEAN]
    BY <1>3, <1>9 DEF CoolsDown
  <2>2. CallerOK'
    BY <1>1, <1>9, <2>1 DEF CoolsDown, caller, CallerOK, ActHasPlan
  <2>3. JudgedOK' /\ KnownOK'
    BY <1>1, <1>9 DEF CoolsDown, memory, JudgedOK, KnownOK
  <2>4. QED
    BY <1>2, <2>2, <2>3, PartsNext
<1>10. QED
  BY <1>4, <1>5, <1>6, <1>7, <1>8, <1>9

\* A repair of a queue leaves a queue, or none where there was none.
LEMMA AfterTyped ==
    ASSUME NEW q \in Queues \cup {NoQueue}, NEW repair \in Repairs,
           repair.kind \in {"setPort", "clear", "resume"},
           NEW port \in Ports \cup {NoPort}, repair.kind = "setPort" => port # NoPort
    PROVE  After(q, repair, port) \in Queues \cup {NoQueue}
<1>1. CASE q = NoQueue
  BY <1>1 DEF After
<1>2. CASE q # NoQueue
  <2>1. q \in Queues
    BY <1>2
  <2>2. CASE repair.kind = "setPort"
    BY <1>2, <2>1, <2>2 DEF After, Queues
  <2>3. CASE repair.kind = "clear"
    BY <1>2, <2>1, <2>3 DEF After, Queues
  <2>4. CASE repair.kind = "resume"
    BY <1>2, <2>1, <2>4 DEF After, Queues, QueueStates
  <2>5. QED
    BY <2>2, <2>3, <2>4
<1>3. QED
  BY <1>1, <1>2

\* The next repair of who acts, and who goes on after it.
LEMMA RepairedTyped ==
    ASSUME JudgedOK, CallerOK, NEW p \in Printers, pc[p] = "act", Repaired(p)
    PROVE  Head(plan[p]) \in Repairs /\ JudgedOK' /\ CallerOK'
<1>1. plan[p] \in Seq(Repairs) /\ plan[p] # <<>>
  BY DEF CallerOK, ActHasPlan
<1>2. Head(plan[p]) \in Repairs /\ Tail(plan[p]) \in Seq(Repairs)
  BY <1>1, HeadTailProperties
<1>3. /\ plan' = [plan EXCEPT ![p] = Tail(plan[p])]
      /\ pc' = [pc EXCEPT ![p] = IF Tail(plan[p]) = <<>> THEN "after" ELSE "act"]
      /\ UNCHANGED <<status, healable, hints, cooled, held>>
  BY DEF Repaired, Goes
<1>4. CallerOK'
  <2> DEFINE rest == Tail(plan[p])
  <2>1. rest \in Seq(Repairs)
    BY <1>2
  <2> HIDE DEF rest
  <2>2. plan' \in [Printers -> Seq(Repairs)] /\ pc' \in [Printers -> {"idle", "connect", "plan", "act", "after", "verify"}]
    BY <1>3, <2>1 DEF CallerOK, rest
  <2>3. ActHasPlan'
    BY <1>3 DEF CallerOK, ActHasPlan
  <2>4. QED
    BY <1>3, <2>2, <2>3 DEF CallerOK
<1>5. QED
  BY <1>2, <1>3, <1>4 DEF JudgedOK

\* heal(), and connect()'s last look.
LEMMA HealsSafe ==
    ASSUME Inv, NEW p \in Printers,
           MakesPlan(p) \/ Rebinds(p) \/ RepairsWindows(p) \/ Healed(p) \/ Verifies(p)
    PROVE  Inv'
<1>1. JudgedOK /\ CallerOK /\ KnownOK /\ WindowsOK
  BY Parts
<1>2. bound[p] \in Names /\ held[p] \in Hints /\ held \in [Printers -> Hints]
      /\ cooled \in [Printers -> BOOLEAN]
  BY <1>1 DEF KnownOK, CallerOK
<1>3. CASE MakesPlan(p)
  <2>1. PICK v \in Views :
            LET repairs == Plan(p, bound[p], v)
            IN  /\ Looks(v)
                /\ plan' = [plan EXCEPT ![p] = repairs]
                /\ Goes(p, IF repairs = <<>> THEN "after" ELSE "act")
                /\ guessed' = IF v.socket[p] = NoPort
                                 /\ \E i \in DOMAIN repairs : repairs[i].kind = "setPort"
                              THEN guessed \cup {p} ELSE guessed
    BY <1>3 DEF MakesPlan
  <2> DEFINE repairs == Plan(p, bound[p], v)
  <2>2. v \in ViewRecords
    BY ViewsTyped
  <2>3. repairs \in Seq(Repairs)
    BY <1>2, <2>2, PlanTyped
  <2>4. /\ plan' = [plan EXCEPT ![p] = repairs]
        /\ pc' = [pc EXCEPT ![p] = IF repairs = <<>> THEN "after" ELSE "act"]
        /\ guessed' \in {guessed, guessed \cup {p}}
    BY <2>1 DEF Goes
  <2> HIDE DEF repairs
  <2>5. UNCHANGED <<windows, memory, status, healable, cooled, held>>
    BY <1>3 DEF MakesPlan
  <2>6. CallerOK'
    <3>1. plan' \in [Printers -> Seq(Repairs)]
          /\ pc' \in [Printers -> {"idle", "connect", "plan", "act", "after", "verify"}]
      BY <1>1, <2>3, <2>4 DEF CallerOK
    <3>2. ActHasPlan'
      BY <1>1, <2>4 DEF CallerOK, ActHasPlan
    <3>3. QED
      BY <1>2, <2>5, <3>1, <3>2 DEF CallerOK
  <2>7. KnownOK'
    <3>1. cache' \subseteq ViewRecords /\ changes' \in 0 .. MaxChanges
      BY <2>1, <2>2, LooksTyped
    <3>2. QED
      BY <1>1, <2>4, <2>5, <3>1 DEF KnownOK, memory
  <2>8. JudgedOK' /\ WindowsOK'
    BY <1>1, <2>5 DEF JudgedOK, WindowsOK, memory, windows
  <2>9. QED
    BY <2>6, <2>7, <2>8, PartsNext
<1>4. CASE Rebinds(p)
  <2>1. PICK v \in SeenViews, n \in Names : Sees(v) /\ Resolves(p, v, n)
    BY <1>4 DEF Rebinds
  <2>2. v \in ViewRecords
    BY ViewsTyped
  <2>3. KnownOK'
    BY <2>1, <2>2, LooksTyped, ResolvesTyped DEF KnownOK
  <2>4. JudgedOK' /\ CallerOK'
    BY <1>1, <1>4, RepairedTyped DEF Rebinds
  <2>5. WindowsOK'
    BY <1>1, <1>4 DEF Rebinds, windows, WindowsOK
  <2>6. QED
    BY <2>3, <2>4, <2>5, PartsNext
<1>5. CASE RepairsWindows(p)
  <2> DEFINE repair == Head(plan[p])
  <2>1. pc[p] = "act" /\ Repaired(p) /\ cache' = {} /\ UNCHANGED <<socket, bound, guessed>>
    BY <1>5 DEF RepairsWindows
  <2>2. repair \in Repairs /\ JudgedOK' /\ CallerOK'
    BY <1>1, <2>1, RepairedTyped
  <2>3. changes' \in 0 .. MaxChanges
    <3>1. changes \in 0 .. MaxChanges /\ MaxChanges \in Nat
      BY <1>1, HealingAssumption DEF KnownOK
    <3>2. changes' = changes \/ (changes < MaxChanges /\ changes' = changes + 1)
      BY <1>5 DEF RepairsWindows
    <3>3. QED
      BY <3>1, <3>2
  <2>4. KnownOK'
    BY <1>1, <2>1, <2>3 DEF KnownOK
  <2>5. queue' \in WindowsQueues /\ spooler' \in BOOLEAN
    <3>1. CASE /\ repair.kind # "restart" /\ repair.kind # "rebind"
               /\ \E port \in repair.ports \cup {NoPort} :
                     /\ repair.kind = "setPort" => port # NoPort
                     /\ queue' = [queue EXCEPT ![repair.name] = After(@, repair, port)]
               /\ UNCHANGED <<spooler, changes>>
      <4>1. PICK port \in repair.ports \cup {NoPort} :
                /\ repair.kind = "setPort" => port # NoPort
                /\ queue' = [queue EXCEPT ![repair.name] = After(queue[repair.name], repair, port)]
        BY <3>1
      <4>2. /\ repair.kind \in {"setPort", "clear", "resume"} /\ repair.name \in Names
            /\ port \in Ports \cup {NoPort}
        BY <2>2, <3>1 DEF Repairs
      <4>3. queue[repair.name] \in Queues \cup {NoQueue}
        BY <1>1, <4>2 DEF WindowsOK, WindowsQueues
      <4>4. After(queue[repair.name], repair, port) \in Queues \cup {NoQueue}
        BY <2>2, <4>1, <4>2, <4>3, AfterTyped
      <4>5. queue' \in WindowsQueues
        BY <1>1, <4>1, <4>4 DEF WindowsOK, WindowsQueues
      <4>6. QED
        BY <1>1, <3>1, <4>5 DEF WindowsOK
    <3>2. CASE UNCHANGED queue /\ spooler' \in {spooler, TRUE}
      BY <1>1, <3>2 DEF WindowsOK
    <3>3. QED
      BY <1>5, <3>1, <3>2 DEF RepairsWindows
  <2>6. WindowsOK'
    BY <1>1, <2>1, <2>5 DEF WindowsOK
  <2>7. QED
    BY <2>2, <2>4, <2>6, PartsNext
<1>6. CASE Healed(p) \/ Verifies(p)
  <2>1. PICK v \in Views, h \in Hints :
            Looks(v) /\ Applies(p, Verdict(p, bound[p], v), h)
    <3>1. CASE Healed(p)
      BY <1>2, <3>1, ViewsTyped, HintsTyped DEF Healed
    <3>2. CASE Verifies(p)
      BY <1>2, <3>2 DEF Verifies
    <3>3. QED
      BY <1>6, <3>1, <3>2
  <2>2. v \in ViewRecords
    BY ViewsTyped
  <2>3. JudgedOK'
    BY <1>1, <1>2, <2>1, <2>2, VerdictTyped, AppliesTyped
  <2>4. /\ held' \in [Printers -> Hints]
        /\ UNCHANGED <<windows, bound, cooled, plan, guessed>>
        /\ \E where \in {"idle", "verify"} : Goes(p, where)
    BY <1>2, <1>6, NoHintsTyped DEF Healed, Verifies, Holds
  <2>5. CallerOK'
    BY <1>1, <1>2, <2>4, GoesTyped
  <2>6. KnownOK'
    BY <1>1, <2>1, <2>2, <2>4, LooksTyped DEF KnownOK
  <2>7. WindowsOK'
    BY <1>1, <2>4 DEF windows, WindowsOK
  <2>8. QED
    BY <2>3, <2>5, <2>6, <2>7, PartsNext
<1>7. QED
  BY <1>3, <1>4, <1>5, <1>6

-----------------------------------------------------------------------------
(* Windows, the start, and every step *)

\* What becomes of Windows and the cables keeps the invariant.
LEMMA WindowsSafe ==
    ASSUME Inv, WindowsChanges
    PROVE  Inv'
<1>1. JudgedOK /\ CallerOK /\ KnownOK /\ WindowsOK
  BY Parts
<1>2. UNCHANGED <<cache, memory, status, healable, cooled, caller, guessed>>
  BY DEF WindowsChanges
<1>3. changes' \in 0 .. MaxChanges
  <2>1. PICK kind \in {"move", "power", "flag", "jam", "rename", "remove", "spooler"} :
            Change(kind)
    <3>1. ASSUME NEW d \in Printers, NEW port, Power(d, port) \/ Move(d, port)
          PROVE  Change("power") \/ Change("move")
      BY <3>1 DEF Power, Move
    <3>2. ASSUME NEW n, NEW q, Disturb(n, q)
          PROVE  Change("flag") \/ Change("jam")
      BY <3>2 DEF Disturb
    <3>3. ASSUME NEW n, NEW m, Rename(n, m)
          PROVE  Change("rename")
      BY <3>3 DEF Rename
    <3>4. ASSUME NEW n, Remove(n)
          PROVE  Change("remove")
      BY <3>4 DEF Remove
    <3>5. SpoolerStops => Change("spooler")
      BY DEF SpoolerStops
    <3>6. QED
      BY <3>1, <3>2, <3>3, <3>4, <3>5 DEF WindowsChanges
  <2>2. QED
    BY <1>1, <2>1, ChangeTyped DEF KnownOK
<1>4. WindowsOK'
  <2>1. ASSUME NEW d \in Printers, NEW port \in PortsOf[d] \cup {NoPort},
               Power(d, port) \/ Move(d, port)
        PROVE  WindowsOK'
    <3>1. port \in Ports \cup {NoPort}
      BY DEF Ports
    <3>2. QED
      BY <1>1, <2>1, <3>1 DEF Power, Move, WindowsOK, Sockets
  <2>2. ASSUME NEW n \in {m \in Names : queue[m] # NoQueue}, NEW q \in Queues, Disturb(n, q)
        PROVE  WindowsOK'
    BY <1>1, <2>2 DEF Disturb, WindowsOK, WindowsQueues
  <2>3. ASSUME NEW n \in Names, NEW m \in Names, Rename(n, m) PROVE WindowsOK'
    <3>1. queue[n] \in Queues \cup {NoQueue}
      BY <1>1 DEF WindowsOK, WindowsQueues
    <3>2. [queue EXCEPT ![m] = queue[n], ![n] = NoQueue] \in WindowsQueues
      BY <1>1, <3>1 DEF WindowsOK, WindowsQueues
    <3>3. QED
      BY <1>1, <2>3, <3>2 DEF Rename, WindowsOK
  <2>4. ASSUME NEW n \in Names, Remove(n) PROVE WindowsOK'
    BY <1>1, <2>4 DEF Remove, WindowsOK, WindowsQueues
  <2>5. CASE SpoolerStops
    BY <1>1, <2>5 DEF SpoolerStops, WindowsOK
  <2>6. QED
    BY <2>1, <2>2, <2>3, <2>4, <2>5 DEF WindowsChanges
<1>5. JudgedOK' /\ CallerOK' /\ KnownOK'
  BY <1>1, <1>2, <1>3 DEF memory, caller, JudgedOK, CallerOK, ActHasPlan, KnownOK
<1>6. QED
  BY <1>4, <1>5, PartsNext

\* What every adapter begins with.
LEMMA BeginsTyped ==
    /\ All("UNKNOWN") \in [Printers -> {"UNKNOWN", "ONLINE", "OFFLINE", "ERROR", "PAPER_OUT"}]
    /\ All(FALSE) \in [Printers -> BOOLEAN]
    /\ All(TRUE) \in [Printers -> BOOLEAN]
    /\ All("connect") \in [Printers -> {"idle", "connect", "plan", "act", "after", "verify"}]
    /\ All(<<>>) \in [Printers -> Seq(Repairs)]
    /\ All(NoHints) \in [Printers -> Hints]
    /\ \A p \in Printers : All("connect")[p] # "act"
<1>1. <<>> \in Seq(Repairs)
  OBVIOUS
<1>2. QED
  BY <1>1, NoHintsTyped DEF All

\* So does a new process.
LEMMA RestartSafe ==
    ASSUME Inv, Restart
    PROVE  Inv'
<1>1. JudgedOK /\ CallerOK /\ KnownOK /\ WindowsOK
  BY Parts
<1>2. changes' \in 0 .. MaxChanges
  BY <1>1, ChangeTyped DEF Restart, KnownOK
<1>3. KnownOK' /\ WindowsOK'
  BY <1>1, <1>2 DEF Restart, windows, memory, KnownOK, WindowsOK
<1>4. JudgedOK' /\ CallerOK'
  BY <1>1, BeginsTyped DEF Restart, memory, JudgedOK, CallerOK, ActHasPlan
<1>5. QED
  BY <1>3, <1>4, PartsNext

\* The station as it was set up.
LEMMA InitInv == Init => Inv
<1> SUFFICES ASSUME Init PROVE Inv
  OBVIOUS
<1>1. \A p \in Printers : (CHOOSE port \in PortsOf[p] : TRUE) \in Ports
  BY HealingAssumption DEF Ports
<1>2. socket \in [Printers -> Ports]
  BY <1>1 DEF Init
<1>3. queue \in WindowsQueues
  <2>1. ASSUME NEW n \in Names
        PROVE  (IF \E p \in Printers : FirstName[p] = n
                THEN [port |-> socket[CHOOSE p \in Printers : FirstName[p] = n],
                      offline |-> FALSE, state |-> "ready"]
                ELSE NoQueue) \in Queues \cup {NoQueue}
    <3>1. CASE \E p \in Printers : FirstName[p] = n
      <4>1. socket[CHOOSE p \in Printers : FirstName[p] = n] \in Ports
        BY <1>2, <3>1
      <4>2. QED
        BY <3>1, <4>1 DEF Queues, QueueStates
    <3>2. CASE ~ \E p \in Printers : FirstName[p] = n
      BY <3>2
    <3>3. QED
      BY <3>1, <3>2
  <2>2. queue = [n \in Names |->
                   IF \E p \in Printers : FirstName[p] = n
                   THEN [port |-> socket[CHOOSE p \in Printers : FirstName[p] = n],
                         offline |-> FALSE, state |-> "ready"]
                   ELSE NoQueue]
    BY DEF Init
  <2>3. QED
    BY <2>1, <2>2 DEF WindowsQueues
<1>4. WindowsOK
  BY <1>2, <1>3 DEF Init, WindowsOK, Sockets
<1>5. hints \in [Printers -> Hints]
  BY <1>2 DEF Init, Hints, Models
<1>6. 0 \in 0 .. MaxChanges
  BY HealingAssumption
<1>7. KnownOK
  BY <1>6, HealingAssumption DEF Init, KnownOK
<1>8. JudgedOK /\ CallerOK
  BY <1>5, BeginsTyped DEF Init, JudgedOK, CallerOK, ActHasPlan
<1>9. QED
  BY <1>4, <1>7, <1>8, Parts

\* Every step keeps the invariant.
LEMMA InvStep == Inv /\ [Next]_vars => Inv'
<1> SUFFICES ASSUME Inv, [Next]_vars PROVE Inv'
  OBVIOUS
<1>1. JudgedOK /\ CallerOK /\ KnownOK /\ WindowsOK
  BY Parts
<1>2. CASE CacheExpires
  <2>1. JudgedOK' /\ CallerOK' /\ KnownOK' /\ WindowsOK'
    BY <1>1, <1>2 DEF CacheExpires, windows, memory, caller, JudgedOK, CallerOK, ActHasPlan,
       KnownOK, WindowsOK
  <2>2. QED
    BY <2>1, PartsNext
<1>3. CASE UNCHANGED vars
  <2>1. JudgedOK' /\ CallerOK' /\ KnownOK' /\ WindowsOK'
    BY <1>1, <1>3 DEF vars, windows, memory, caller, JudgedOK, CallerOK, ActHasPlan,
       KnownOK, WindowsOK
  <2>2. QED
    BY <2>1, PartsNext
<1>4. CASE Next
  BY <1>2, <1>4, ConnectsSafe, HealsSafe, WindowsSafe, RestartSafe DEF Next, Step
<1>5. QED
  BY <1>3, <1>4

\* A queue is adopted only if no other printer is bound to it.
LEMMA ResolvesApart ==
    ASSUME Inv, OneQueueEach, NEW p \in Printers, NEW v, NEW n, Resolves(p, v, n)
    PROVE  OneQueueEach'
<1>1. n = bound[p] \/ n \notin Claimed(p)
  BY DEF Resolves, Adoptable
<1>2. bound' = [bound EXCEPT ![p] = n] /\ bound \in [Printers -> Names]
  BY DEF Resolves, Inv, TypeOK
<1>3. \A q \in Printers \ {p} : bound[q] # n
  BY <1>1 DEF Claimed, OneQueueEach
<1>4. QED
  BY <1>2, <1>3 DEF OneQueueEach

\* Every step leaves the printers their own queues.
LEMMA StepApart == Inv /\ OneQueueEach /\ [Next]_vars => OneQueueEach'
<1> SUFFICES ASSUME Inv, OneQueueEach, [Next]_vars PROVE OneQueueEach'
  OBVIOUS
<1>1. CASE UNCHANGED bound
  BY <1>1 DEF OneQueueEach
<1>2. ASSUME NEW p \in Printers, GetStatus(p) \/ Connects(p) \/ Rebinds(p)
      PROVE  OneQueueEach'
  <2>1. PICK v \in SeenViews, n \in Names : Resolves(p, v, n)
    BY <1>2 DEF GetStatus, Connects, Rebinds
  <2>2. QED
    BY <2>1, ResolvesApart
<1>3. ASSUME NEW p \in Printers,
             \/ ConnectFails(p) \/ MakesPlan(p) \/ RepairsWindows(p) \/ Healed(p) \/ Verifies(p)
             \/ Connect(p) \/ AutoRepair(p) \/ OperatorRepairs(p) \/ CoolsDown(p)
      PROVE  UNCHANGED bound
  BY <1>3 DEF ConnectFails, MakesPlan, RepairsWindows, Healed, Verifies, Connect, AutoRepair,
     OperatorRepairs, CoolsDown, Heals, memory
<1>4. CASE CacheExpires \/ WindowsChanges \/ Restart \/ UNCHANGED vars
  BY <1>1, <1>4 DEF CacheExpires, WindowsChanges, Restart, memory, vars
<1>5. QED
  BY <1>1, <1>2, <1>3, <1>4 DEF Next, Step

\* The fields of the adapters, and what Windows may be, keep their types.
THEOREM TypeCorrect == Spec => []TypeOK
<1>1. Inv => TypeOK
  BY DEF Inv
<1>2. QED
  BY InitInv, InvStep, <1>1, PTL DEF Spec

\* Printers that are configured with different queues never come to use one
\* (resolveQueue with siblingQueueNames), whatever is renamed or removed, and
\* whoever looks at once.
THEOREM OneQueueEachSafe ==
    ASSUME \A p, q \in Printers : p # q => FirstName[p] # FirstName[q]
    PROVE  Spec => []OneQueueEach
<1>1. Init => OneQueueEach
  BY DEF Init, OneQueueEach
<1>2. QED
  BY InitInv, InvStep, StepApart, <1>1, PTL DEF Spec

-----------------------------------------------------------------------------
(* Tickets come out at the right station *)

\* The station: owner says whose each name of a queue is. A copy suffix keeps
\* it, no device is named like another's queue, and no two printers are of one
\* model.
Station(owner) ==
    /\ owner \in [Names -> Printers]
    /\ \A p \in Printers : owner[FirstName[p]] = p
    /\ \A m, n \in Names : NameScore[<<m, n>>] = 850 => owner[m] = owner[n]
    /\ \A d \in Printers, n \in Names : <<d, n>> \in DeviceNamedLike => owner[n] = d
    /\ \A p, q \in Printers : ModelOf[p] = ModelOf[q] => p = q

\* Queues q point at their owners' ports, one of each owner, and the devices
\* are in their own sockets s.
AtHome(owner, q, s) ==
    /\ \A n \in Names : q[n] # NoQueue => q[n].port \in PortsOf[owner[n]]
    /\ \A d \in Printers : s[d] \in PortsOf[d] \cup {NoPort}
    /\ \A m, n \in Names :
          q[m] # NoQueue /\ q[n] # NoQueue /\ owner[m] = owner[n] => m = n

HomeView(owner, v) == AtHome(owner, v.queue, v.socket)

\* A port that a queue may be moved to is its owner's.
HomeRepair(owner, repair) ==
    repair.kind = "setPort" => repair.ports \subseteq PortsOf[owner[repair.name]]

HomePlan(owner, repairs) == \A i \in DOMAIN repairs : HomeRepair(owner, repairs[i])

OwnModel(p, h) == h.model \in {ModelOf[p], NoModel}

WindowsHome(owner) == AtHome(owner, queue, socket)
CacheHome(owner)   == \A v \in cache : HomeView(owner, v)
BoundHome(owner)   == \A p \in Printers : owner[bound[p]] = p
HintsHome          == \A p \in Printers : OwnModel(p, hints[p])
HeldHome           == \A p \in Printers : OwnModel(p, held[p])
PlansHome(owner)   == \A p \in Printers : HomePlan(owner, plan[p])

Home(owner) ==
    /\ WindowsHome(owner) /\ CacheHome(owner) /\ BoundHome(owner)
    /\ HintsHome /\ HeldHome /\ PlansHome(owner)

HomeInv(owner) == guessed = {} => Home(owner)

\* Nobody has the ports of another.
LEMMA PortsApart ==
    ASSUME NEW p \in Printers, NEW q \in Printers, NEW port \in PortsOf[p],
           port \in PortsOf[q]
    PROVE  p = q
  BY HealingAssumption

LEMMA NoPortApart == ASSUME NEW p \in Printers PROVE NoPort \notin PortsOf[p]
  BY HealingAssumption DEF Ports

\* There are no more ports in use than printers.
LEMMA LiveFinite ==
    ASSUME NEW v \in ViewRecords
    PROVE  IsFiniteSet(Live(v))
<1> DEFINE used == {v.socket[d] : d \in Printers}
<1>1. v.socket \in Surjection(Printers, used)
  BY DEF ViewRecords, Sockets, Surjection
<1>2. IsFiniteSet(Printers)
  BY HealingAssumption
<1> HIDE DEF used
<1>3. IsFiniteSet(used)
  BY <1>1, <1>2, FS_Surjection
<1>4. Live(v) \subseteq used
  BY DEF Live, used
<1>5. QED
  BY <1>3, <1>4, FS_Subset

\* The code behind "same model", "the only one free" and "named alike" finds
\* the device of the queue's own printer, if that is attached.
LEMMA SuggestedHome ==
    ASSUME NEW owner, Station(owner), NEW p \in Printers, NEW n \in Names, owner[n] = p,
           NEW v \in ViewRecords, HomeView(owner, v),
           v.queue[n] # NoQueue, v.socket[p] # NoPort, OwnModel(p, hints[p])
    PROVE  Suggested(p, n, v) \subseteq PortsOf[p]
<1> DEFINE free == Unclaimed(n, v)
<1>1. v.socket[p] \in PortsOf[p] /\ \A d \in Printers : v.socket[d] \in PortsOf[d] \cup {NoPort}
  BY DEF HomeView, AtHome
<1>2. SameModel(p, v) \subseteq PortsOf[p]
  <2> SUFFICES ASSUME NEW d \in Printers, ModelOf[d] = hints[p].model, v.socket[d] # NoPort
               PROVE  v.socket[d] \in PortsOf[p]
    BY DEF SameModel
  <2>1. ModelOf[d] # NoModel
    BY HealingAssumption DEF Models
  <2>2. d = p
    BY <2>1 DEF OwnModel, Station
  <2>3. QED
    BY <1>1, <2>2
<1>3. v.socket[p] \in free
  <2> SUFFICES ASSUME NEW m \in Names \ {n}, v.queue[m] # NoQueue,
                      v.queue[m].port = v.socket[p]
               PROVE  FALSE
    BY DEF Unclaimed, Live
  <2>1. v.queue[m].port \in PortsOf[owner[m]] /\ owner[m] \in Printers
    BY DEF HomeView, AtHome, Station
  <2>2. owner[m] = p
    BY <1>1, <2>1, PortsApart
  <2>3. QED
    BY <2>2 DEF HomeView, AtHome
<1>4. free \cap NamedLike(n, v) \subseteq PortsOf[p]
  <2> SUFFICES ASSUME NEW d \in Printers, <<d, n>> \in DeviceNamedLike, v.socket[d] \in free
               PROVE  v.socket[d] \in PortsOf[p]
    BY DEF NamedLike
  <2>1. d = p
    BY DEF Station
  <2>2. QED
    BY <1>1, <2>1
<1>5. Cardinality(free) = 1 => free = {v.socket[p]}
  <2> SUFFICES ASSUME Cardinality(free) = 1  PROVE free = {v.socket[p]}
    OBVIOUS
  <2>1. PICK port : free = {port}
    <3>1. IsFiniteSet(free)
      BY LiveFinite, FS_Subset DEF Unclaimed
    <3>2. QED
      BY <3>1, FS_Singleton
  <2>2. QED
    BY <1>3, <2>1
<1> HIDE DEF free
<1>6. Suggested(p, n, v) \in {SameModel(p, v), {v.socket[p]}, free \cap NamedLike(n, v)}
  BY <1>5 DEF Suggested, free
<1>7. QED
  BY <1>1, <1>2, <1>4, <1>6

\* planHealing moves a queue to its own printer's port, or the printer's device
\* is not attached.
LEMMA PlanHome ==
    ASSUME NEW owner, Station(owner), NEW p \in Printers, NEW n \in Names, owner[n] = p,
           NEW v \in ViewRecords, HomeView(owner, v), OwnModel(p, hints[p]),
           \/ v.socket[p] # NoPort
           \/ \A i \in DOMAIN Plan(p, n, v) : Plan(p, n, v)[i].kind # "setPort"
    PROVE  HomePlan(owner, Plan(p, n, v))
<1> DEFINE q     == v.queue[n]
           move  == Repair("setPort", n, Suggested(p, n, v))
           clear == Repair("clear", n, {})
           wake  == Repair("resume", n, {})
<1>1. CASE v.socket[p] = NoPort
  BY <1>1 DEF HomePlan, HomeRepair
<1>2. CASE ~v.spooler
  <2>1. HomeRepair(owner, Repair("restart", n, {}))
    BY DEF HomeRepair, Repair
  <2>2. QED
    BY <1>2, <2>1 DEF Plan, HomePlan
<1>3. CASE v.spooler /\ q = NoQueue
  <2>1. HomeRepair(owner, Repair("rebind", n, {}))
    BY DEF HomeRepair, Repair
  <2>2. QED
    BY <1>3, <2>1 DEF Plan, HomePlan
<1>4. CASE v.spooler /\ q # NoQueue /\ v.socket[p] # NoPort
  <2> DEFINE kinds  == {move, clear, wake}
             first  == If(Migrated(q, v) /\ Suggested(p, n, v) # {}, move)
             second == If(q.offline /\ Attached(q, v), clear)
             third  == If(q.state \in {"paused", "error"}, wake)
  <2>1. \A repair \in kinds : HomeRepair(owner, repair)
    <3>1. HomeRepair(owner, move)
      BY <1>4, SuggestedHome DEF HomeRepair, Repair
    <3>2. HomeRepair(owner, clear) /\ HomeRepair(owner, wake)
      BY DEF HomeRepair, Repair
    <3>3. QED
      BY <3>1, <3>2
  <2>2. Plan(p, n, v) = first \o second \o third
    BY <1>4 DEF Plan, QueuePlan
  <2> HIDE DEF move, clear, wake
  <2>3. first \in Seq(kinds) /\ second \in Seq(kinds) /\ third \in Seq(kinds)
    <3>1. move \in kinds /\ clear \in kinds /\ wake \in kinds
      OBVIOUS
    <3> HIDE DEF kinds
    <3>2. QED
      BY <3>1, IfIn
  <2> HIDE DEF first, second, third, kinds
  <2>4. first \o second \in Seq(kinds)
    BY <2>3, ConcatProperties
  <2>5. Plan(p, n, v) \in Seq(kinds)
    BY <2>2, <2>3, <2>4, ConcatProperties
  <2>6. \A i \in DOMAIN Plan(p, n, v) : Plan(p, n, v)[i] \in kinds
    BY <2>5
  <2>7. QED
    BY <2>1, <2>6 DEF HomePlan
<1>5. QED
  BY <1>1, <1>2, <1>3, <1>4

\* The device at the port of a queue that is home is its owner's.
LEMMA HintsAtHome ==
    ASSUME NEW owner, Station(owner), NEW p \in Printers, NEW n \in Names, owner[n] = p,
           NEW v \in ViewRecords, HomeView(owner, v)
    PROVE  OwnModel(p, HintsOf(v.queue[n], v))
<1> DEFINE q == v.queue[n]
           d == CHOOSE e \in Printers : v.socket[e] = q.port
<1>1. CASE ~Attached(q, v)
  BY <1>1 DEF HintsOf, OwnModel
<1>2. CASE Attached(q, v)
  <2>1. q # NoQueue
    BY <1>2 DEF Attached, Live, NoQueue
  <2>2. q.port \in PortsOf[p]
    BY <2>1 DEF HomeView, AtHome
  <2>3. d \in Printers /\ v.socket[d] = q.port
    BY <1>2 DEF Attached, Live
  <2>4. v.socket[d] \in PortsOf[d]
    BY <2>2, <2>3, NoPortApart DEF HomeView, AtHome
  <2>5. d = p
    BY <2>2, <2>3, <2>4, PortsApart
  <2>6. QED
    BY <1>2, <2>5 DEF HintsOf, OwnModel
<1>3. QED
  BY <1>1, <1>2

LEMMA NoHintsHome == ASSUME NEW p PROVE OwnModel(p, NoHints)
  BY DEF OwnModel, NoHints

\* A printer adopts a queue of its own, or guesses.
LEMMA ResolvesHome ==
    ASSUME Inv, NEW owner, Station(owner), BoundHome(owner), NEW p \in Printers,
           NEW v, NEW n \in Names, Resolves(p, v, n), guessed' = {}
    PROVE  BoundHome(owner)' /\ owner[n] = p /\ guessed = {}
<1>1. bound \in [Printers -> Names] /\ bound' = [bound EXCEPT ![p] = n]
  BY DEF Inv, TypeOK, Resolves
<1>2. guessed = {} /\ (n = bound[p] \/ ~(NameScore[<<bound[p], n>>] < 850))
  BY DEF Resolves
<1>3. NameScore[<<bound[p], n>>] \in 0 .. 850
  BY <1>1, HealingAssumption
<1>4. n = bound[p] \/ NameScore[<<bound[p], n>>] = 850
  BY <1>2, <1>3
<1>5. owner[n] = p
  BY <1>1, <1>4 DEF Station, BoundHome
<1>6. QED
  BY <1>1, <1>2, <1>5 DEF BoundHome

\* What is looked at is home, and so is what is kept of it.
LEMMA SeesHome ==
    ASSUME Inv, NEW owner, WindowsHome(owner), CacheHome(owner),
           NEW v \in Views \cup SeenViews, Sees(v) \/ Looks(v)
    PROVE  HomeView(owner, v) /\ CacheHome(owner)'
<1>1. HomeView(owner, World)
  BY DEF World, HomeView, WindowsHome
<1>2. HomeView(owner, EmptyView)
  BY DEF EmptyView, HomeView, AtHome
<1>3. HomeView(owner, v)
  BY <1>1, <1>2 DEF Views, SeenViews, CacheHome
<1>4. cache' = cache \/ cache' = {v}
  BY DEF Sees, Looks
<1>5. QED
  BY <1>3, <1>4 DEF CacheHome, HomeView

\* What an adapter remembers of its own device.
LEMMA AppliesHome ==
    ASSUME Inv, HintsHome, NEW p \in Printers, NEW d, NEW h, OwnModel(p, h), Applies(p, d, h)
    PROVE  HintsHome'
<1>1. hints \in [Printers -> Hints]
  BY DEF Inv, TypeOK
<1>2. hints' = [hints EXCEPT ![p] = h] \/ hints' = hints
  BY DEF Applies
<1>3. QED
  BY <1>1, <1>2 DEF HintsHome, OwnModel

LEMMA HoldsHome ==
    ASSUME Inv, HeldHome, NEW p \in Printers, NEW h, OwnModel(p, h), Holds(p, h)
    PROVE  HeldHome'
  BY DEF Inv, TypeOK, HeldHome, OwnModel, Holds

\* Who has done a repair has those left that it had.
LEMMA RepairedHome ==
    ASSUME Inv, NEW owner, PlansHome(owner), NEW p \in Printers, pc[p] = "act", Repaired(p)
    PROVE  PlansHome(owner)' /\ HomeRepair(owner, Head(plan[p]))
<1>1. plan \in [Printers -> Seq(Repairs)] /\ plan[p] \in Seq(Repairs) /\ plan[p] # <<>>
  BY DEF Inv, TypeOK, ActHasPlan
<1>2. plan' = [plan EXCEPT ![p] = Tail(plan[p])]
  BY DEF Repaired
<1>3. HomePlan(owner, plan[p])
  BY DEF PlansHome
<1>4. Head(plan[p]) = plan[p][1] /\ 1 \in DOMAIN plan[p]
  BY <1>1
<1>5. \A i \in DOMAIN Tail(plan[p]) : i + 1 \in DOMAIN plan[p] /\ Tail(plan[p])[i] = plan[p][i + 1]
  BY <1>1
<1>6. HomePlan(owner, Tail(plan[p]))
  BY <1>3, <1>5 DEF HomePlan
<1>7. PlansHome(owner)'
  BY <1>1, <1>2, <1>6 DEF PlansHome
<1>8. QED
  BY <1>3, <1>4, <1>7 DEF HomePlan

\* A repair makes no queue, and moves one to a port that it is about.
LEMMA AfterHome ==
    ASSUME NEW q \in Queues \cup {NoQueue}, NEW repair \in Repairs,
           repair.kind \in {"setPort", "clear", "resume"}, NEW port,
           After(q, repair, port) # NoQueue
    PROVE  /\ q # NoQueue
           /\ After(q, repair, port).port = IF repair.kind = "setPort" THEN port ELSE q.port
<1>1. q # NoQueue
  BY DEF After
<1>2. q \in Queues
  BY <1>1
<1>3. CASE repair.kind = "setPort"
  BY <1>1, <1>2, <1>3 DEF After, Queues
<1>4. CASE repair.kind = "clear"
  BY <1>1, <1>2, <1>4 DEF After, Queues
<1>5. CASE repair.kind = "resume"
  BY <1>1, <1>2, <1>5 DEF After, Queues
<1>6. QED
  BY <1>1, <1>3, <1>4, <1>5

\* What is repaired at Windows leaves the queues home.
LEMMA RepairsHome ==
    ASSUME Inv, NEW owner, Station(owner), WindowsHome(owner), PlansHome(owner),
           NEW p \in Printers, RepairsWindows(p)
    PROVE  WindowsHome(owner)' /\ PlansHome(owner)' /\ CacheHome(owner)'
<1> DEFINE repair == Head(plan[p])
<1>1. pc[p] = "act" /\ Repaired(p) /\ cache' = {} /\ UNCHANGED <<socket, bound, guessed>>
  BY DEF RepairsWindows
<1>2. PlansHome(owner)' /\ HomeRepair(owner, repair)
  BY <1>1, RepairedHome
<1>3. JudgedOK /\ CallerOK /\ WindowsOK
  BY Parts
<1>4. repair \in Repairs
  BY <1>1, <1>3, RepairedTyped
<1>5. CASE UNCHANGED queue
  BY <1>1, <1>2, <1>5 DEF WindowsHome, AtHome, CacheHome
<1>6. ASSUME NEW port \in repair.ports \cup {NoPort}, repair.kind # "restart",
             repair.kind # "rebind", repair.kind = "setPort" => port # NoPort,
             queue' = [queue EXCEPT ![repair.name] = After(queue[repair.name], repair, port)]
      PROVE  WindowsHome(owner)'
  <2> DEFINE m == repair.name
             q == After(queue[m], repair, port)
  <2>1. repair.kind \in {"setPort", "clear", "resume"} /\ m \in Names
    BY <1>4, <1>6 DEF Repairs
  <2>2. queue \in [Names -> Queues \cup {NoQueue}] /\ queue[m] \in Queues \cup {NoQueue}
    BY <1>3, <2>1 DEF WindowsOK, WindowsQueues
  <2>3. q # NoQueue =>
          /\ queue[m] # NoQueue
          /\ q.port = IF repair.kind = "setPort" THEN port ELSE queue[m].port
    BY <1>4, <2>1, <2>2, AfterHome
  <2>4. repair.kind = "setPort" => port \in PortsOf[owner[m]]
    BY <1>2, <1>6 DEF HomeRepair
  <2>5. queue[m] # NoQueue => queue[m].port \in PortsOf[owner[m]]
    BY <2>1 DEF WindowsHome, AtHome
  <2>6. q # NoQueue => queue[m] # NoQueue /\ q.port \in PortsOf[owner[m]]
    BY <2>3, <2>4, <2>5
  <2>7. queue'[m] = q /\ \A n \in Names \ {m} : queue'[n] = queue[n]
    BY <1>6, <2>1, <2>2
  <2> HIDE DEF q, m
  <2>8. \A n \in Names : queue'[n] # NoQueue =>
            queue[n] # NoQueue /\ queue'[n].port \in PortsOf[owner[n]]
    BY <2>6, <2>7 DEF WindowsHome, AtHome
  <2>9. QED
    BY <1>1, <2>8 DEF WindowsHome, AtHome
<1>7. WindowsHome(owner)'
  BY <1>5, <1>6 DEF RepairsWindows
<1>8. QED
  BY <1>1, <1>2, <1>7 DEF CacheHome

\* So does whatever happens at the station.
LEMMA ChangesHome ==
    ASSUME Inv, NEW owner, Station(owner), WindowsHome(owner), WindowsChanges
    PROVE  WindowsHome(owner)'
<1>1. /\ queue \in [Names -> Queues \cup {NoQueue}]
      /\ socket \in [Printers -> Ports \cup {NoPort}]
  BY DEF Inv, TypeOK
<1>2. ASSUME NEW d \in Printers, NEW port \in PortsOf[d] \cup {NoPort},
             Power(d, port) \/ Move(d, port)
      PROVE  WindowsHome(owner)'
  <2>1. socket' = [socket EXCEPT ![d] = port] /\ queue' = queue
    BY <1>2 DEF Power, Move
  <2>2. \A e \in Printers : socket'[e] \in PortsOf[e] \cup {NoPort}
    BY <1>1, <1>2, <2>1 DEF WindowsHome, AtHome
  <2>3. QED
    BY <2>1, <2>2 DEF WindowsHome, AtHome
<1>3. ASSUME NEW n \in Names, queue[n] # NoQueue, NEW q, Disturb(n, q)
      PROVE  WindowsHome(owner)'
  <2>1. queue[n] \in Queues
    BY <1>1, <1>3
  <2>2. q.port = queue[n].port
    BY <1>3, <2>1 DEF Disturb, Queues
  <2>3. queue' = [queue EXCEPT ![n] = q] /\ UNCHANGED socket
    BY <1>3 DEF Disturb
  <2>4. \A k \in Names : queue'[k] # NoQueue =>
            queue[k] # NoQueue /\ queue'[k].port \in PortsOf[owner[k]]
    BY <1>1, <1>3, <2>2, <2>3 DEF WindowsHome, AtHome
  <2>5. QED
    BY <2>3, <2>4 DEF WindowsHome, AtHome
<1>4. ASSUME NEW n \in Names, queue[n] # NoQueue, NEW m \in Names, Rename(n, m)
      PROVE  WindowsHome(owner)'
  <2>1. /\ queue' = [queue EXCEPT ![m] = queue[n], ![n] = NoQueue]
        /\ queue[m] = NoQueue /\ NameScore[<<n, m>>] = 850 /\ UNCHANGED socket
    BY <1>4 DEF Rename
  <2>2. owner[n] = owner[m] /\ n # m
    BY <1>4, <2>1 DEF Station
  <2>3. /\ queue'[m] = queue[n] /\ queue'[n] = NoQueue
        /\ \A k \in Names \ {m, n} : queue'[k] = queue[k]
    BY <1>1, <2>1, <2>2
  <2>4. \A k \in Names : queue'[k] # NoQueue => queue'[k].port \in PortsOf[owner[k]]
    BY <1>4, <2>2, <2>3 DEF WindowsHome, AtHome
  <2>5. ASSUME NEW k \in Names, NEW l \in Names, queue'[k] # NoQueue, queue'[l] # NoQueue,
               owner[k] = owner[l]
        PROVE  k = l
    BY <1>4, <2>2, <2>3, <2>5 DEF WindowsHome, AtHome
  <2>6. \A d \in Printers : socket'[d] \in PortsOf[d] \cup {NoPort}
    BY <2>1 DEF WindowsHome, AtHome
  <2>7. QED
    BY <2>4, <2>5, <2>6, Zenon DEF WindowsHome, AtHome
<1>5. ASSUME NEW n \in Names, Remove(n)  PROVE WindowsHome(owner)'
  BY <1>1, <1>5 DEF Remove, WindowsHome, AtHome
<1>6. CASE SpoolerStops
  BY <1>6 DEF SpoolerStops, WindowsHome, AtHome
<1>7. QED
  BY <1>2, <1>3, <1>4, <1>5, <1>6 DEF WindowsChanges

\* Once guessed, always guessed.
LEMMA GuessedGrows == [Next]_vars => guessed \subseteq guessed'
<1>1. ASSUME NEW p \in Printers,
             GetStatus(p) \/ Connects(p) \/ Rebinds(p) \/ MakesPlan(p)
      PROVE  guessed \subseteq guessed'
  BY <1>1 DEF GetStatus, Connects, Rebinds, MakesPlan, Resolves
<1>2. ASSUME NEW p \in Printers,
             \/ ConnectFails(p) \/ RepairsWindows(p) \/ Healed(p) \/ Verifies(p)
             \/ Connect(p) \/ AutoRepair(p) \/ OperatorRepairs(p) \/ CoolsDown(p)
      PROVE  guessed \subseteq guessed'
  BY <1>2 DEF ConnectFails, RepairsWindows, Healed, Verifies, Connect, AutoRepair,
     OperatorRepairs, CoolsDown, Heals
<1>3. CacheExpires \/ WindowsChanges \/ Restart \/ UNCHANGED vars => guessed' = guessed
  BY DEF CacheExpires, WindowsChanges, Restart, vars
<1>4. QED
  BY <1>1, <1>2, <1>3 DEF Next, Step

LEMMA HomeStep ==
    ASSUME NEW owner, Station(owner)
    PROVE  Inv /\ HomeInv(owner) /\ [Next]_vars => HomeInv(owner)'
<1> SUFFICES ASSUME Inv, HomeInv(owner), [Next]_vars, guessed' = {}  PROVE Home(owner)'
  BY DEF HomeInv
<1>1. /\ WindowsHome(owner) /\ CacheHome(owner) /\ BoundHome(owner)
      /\ HintsHome /\ HeldHome /\ PlansHome(owner)
  <2>1. guessed = {}
    BY GuessedGrows
  <2>2. QED
    BY <2>1 DEF HomeInv, Home
<1>2. bound \in [Printers -> Names]
  BY DEF Inv, TypeOK
<1>3. UNCHANGED windows => WindowsHome(owner)'
  BY <1>1 DEF windows, WindowsHome, AtHome
<1>4. UNCHANGED cache => CacheHome(owner)'
  BY <1>1 DEF CacheHome, HomeView
<1>5. /\ UNCHANGED bound => BoundHome(owner)'
      /\ UNCHANGED hints => HintsHome'
      /\ UNCHANGED held => HeldHome'
      /\ UNCHANGED plan => PlansHome(owner)'
  BY <1>1 DEF BoundHome, HintsHome, HeldHome, PlansHome, OwnModel
<1>6. ASSUME NEW p \in Printers, GetStatus(p)  PROVE Home(owner)'
  <2>1. PICK v \in SeenViews, n \in Names :
            /\ Sees(v)
            /\ Resolves(p, v, n)
            /\ Applies(p, Verdict(p, n, v), HintsOf(v.queue[n], v))
            /\ UNCHANGED <<windows, cooled, caller>>
    BY <1>6 DEF GetStatus
  <2>2. HomeView(owner, v) /\ CacheHome(owner)' /\ v \in ViewRecords
    BY <1>1, <2>1, SeesHome, ViewsTyped
  <2>3. BoundHome(owner)' /\ owner[n] = p
    BY <1>1, <2>1, ResolvesHome
  <2>4. HintsHome'
    BY <1>1, <2>1, <2>2, <2>3, HintsAtHome, AppliesHome
  <2>5. QED
    BY <1>3, <1>5, <2>1, <2>2, <2>3, <2>4 DEF Home, caller
<1>7. ASSUME NEW p \in Printers, Connects(p)  PROVE Home(owner)'
  <2>1. PICK v \in SeenViews, n \in Names :
            LET d == Verdict(p, n, v)
                waits == d.healable /\ ~d.printable
            IN  /\ Sees(v)
                /\ Resolves(p, v, n)
                /\ Holds(p, IF waits THEN HintsOf(v.queue[n], v) ELSE NoHints)
                /\ IF waits THEN UNCHANGED <<status, healable, hints>>
                   ELSE Applies(p, d, HintsOf(v.queue[n], v))
    BY <1>7 DEF Connects
  <2>2. HomeView(owner, v) /\ CacheHome(owner)' /\ v \in ViewRecords
    BY <1>1, <2>1, SeesHome, ViewsTyped
  <2>3. BoundHome(owner)' /\ owner[n] = p
    BY <1>1, <2>1, ResolvesHome
  <2>4. OwnModel(p, HintsOf(v.queue[n], v))
    BY <2>2, <2>3, HintsAtHome
  <2>5. HintsHome'
    BY <1>1, <1>5, <2>1, <2>4, AppliesHome
  <2>6. HeldHome'
    BY <1>1, <2>1, <2>4, NoHintsHome, HoldsHome
  <2>7. UNCHANGED <<windows, plan>>
    BY <1>7 DEF Connects
  <2>8. QED
    BY <1>3, <1>5, <2>2, <2>3, <2>5, <2>6, <2>7 DEF Home
<1>8. ASSUME NEW p \in Printers, ConnectFails(p)  PROVE Home(owner)'
  <2>1. PICK v \in SeenViews : Sees(v)
    BY <1>8 DEF ConnectFails
  <2>2. CacheHome(owner)'
    BY <1>1, <2>1, SeesHome
  <2>3. QED
    BY <1>3, <1>5, <1>8, <2>2 DEF Home, ConnectFails, memory
<1>9. ASSUME NEW p \in Printers, MakesPlan(p)  PROVE Home(owner)'
  <2>1. PICK v \in Views :
            LET repairs == Plan(p, bound[p], v)
            IN  /\ Looks(v)
                /\ plan' = [plan EXCEPT ![p] = repairs]
                /\ guessed' = IF v.socket[p] = NoPort
                                 /\ \E i \in DOMAIN repairs : repairs[i].kind = "setPort"
                              THEN guessed \cup {p} ELSE guessed
    BY <1>9 DEF MakesPlan
  <2> DEFINE repairs == Plan(p, bound[p], v)
  <2>2. HomeView(owner, v) /\ CacheHome(owner)' /\ v \in ViewRecords
    BY <1>1, <2>1, SeesHome, ViewsTyped
  <2>3. v.socket[p] # NoPort \/ \A i \in DOMAIN repairs : repairs[i].kind # "setPort"
    BY <2>1
  <2>4. HomePlan(owner, repairs)
    BY <1>1, <1>2, <2>2, <2>3, PlanHome DEF BoundHome, HintsHome
  <2>5. PlansHome(owner)'
    <3>1. plan' = [plan EXCEPT ![p] = repairs] /\ plan \in [Printers -> Seq(Repairs)]
      BY <2>1 DEF Inv, TypeOK
    <3> HIDE DEF repairs
    <3>2. QED
      BY <1>1, <2>4, <3>1 DEF PlansHome
  <2>6. UNCHANGED <<windows, memory, held>>
    BY <1>9 DEF MakesPlan
  <2>7. QED
    BY <1>3, <1>5, <2>2, <2>5, <2>6 DEF Home, memory
<1>10. ASSUME NEW p \in Printers, Rebinds(p)  PROVE Home(owner)'
  <2>1. PICK v \in SeenViews, n \in Names : Sees(v) /\ Resolves(p, v, n)
    BY <1>10 DEF Rebinds
  <2>2. CacheHome(owner)' /\ BoundHome(owner)'
    BY <1>1, <2>1, SeesHome, ResolvesHome
  <2>3. PlansHome(owner)' /\ UNCHANGED <<windows, hints, held>>
    BY <1>1, <1>10, RepairedHome DEF Rebinds, Repaired
  <2>4. QED
    BY <1>3, <1>5, <2>2, <2>3 DEF Home
<1>11. ASSUME NEW p \in Printers, RepairsWindows(p)  PROVE Home(owner)'
  <2>1. WindowsHome(owner)' /\ PlansHome(owner)' /\ CacheHome(owner)'
    BY <1>1, <1>11, RepairsHome
  <2>2. UNCHANGED <<bound, hints, held>>
    BY <1>11 DEF RepairsWindows, Repaired
  <2>3. QED
    BY <1>5, <2>1, <2>2 DEF Home
<1>12. ASSUME NEW p \in Printers, Healed(p)  PROVE Home(owner)'
  <2>1. PICK v \in Views :
            /\ Looks(v)
            /\ Applies(p, Verdict(p, bound[p], v), HintsOf(v.queue[bound[p]], v))
    BY <1>12 DEF Healed
  <2>2. HomeView(owner, v) /\ CacheHome(owner)' /\ v \in ViewRecords
    BY <1>1, <2>1, SeesHome, ViewsTyped
  <2>3. HintsHome'
    BY <1>1, <1>2, <2>1, <2>2, HintsAtHome, AppliesHome DEF BoundHome
  <2>4. QED
    BY <1>3, <1>5, <1>12, <2>2, <2>3 DEF Home, Healed
<1>13. ASSUME NEW p \in Printers, Verifies(p)  PROVE Home(owner)'
  <2>1. PICK v \in Views : Looks(v) /\ Applies(p, Verdict(p, bound[p], v), held[p])
    BY <1>13 DEF Verifies
  <2>2. CacheHome(owner)'
    BY <1>1, <2>1, SeesHome
  <2>3. HintsHome' /\ HeldHome'
    BY <1>1, <1>13, <2>1, NoHintsHome, AppliesHome, HoldsHome DEF HeldHome, Verifies
  <2>4. QED
    BY <1>3, <1>5, <1>13, <2>2, <2>3 DEF Home, Verifies
<1>14. ASSUME NEW p \in Printers,
              Connect(p) \/ AutoRepair(p) \/ OperatorRepairs(p) \/ CoolsDown(p)
       PROVE  Home(owner)'
  <2>1. UNCHANGED <<windows, cache, memory, plan, held>>
    BY <1>14 DEF Connect, AutoRepair, OperatorRepairs, CoolsDown, Heals, caller
  <2>2. QED
    BY <1>3, <1>4, <1>5, <2>1 DEF Home, memory
<1>15. CASE CacheExpires
  <2>1. CacheHome(owner)' /\ UNCHANGED <<windows, memory, caller>>
    BY <1>15 DEF CacheExpires, CacheHome
  <2>2. QED
    BY <1>3, <1>5, <2>1 DEF Home, memory, caller
<1>16. CASE WindowsChanges
  <2>1. WindowsHome(owner)' /\ UNCHANGED <<cache, memory, caller>>
    BY <1>1, <1>16, ChangesHome DEF WindowsChanges
  <2>2. QED
    BY <1>4, <1>5, <2>1 DEF Home, memory, caller
<1>17. CASE Restart
  <2>1. CacheHome(owner)' /\ UNCHANGED <<windows, memory>>
    BY <1>17 DEF Restart, CacheHome
  <2>2. HeldHome' /\ PlansHome(owner)'
    BY <1>17, NoHintsHome DEF Restart, All, HeldHome, PlansHome, HomePlan
  <2>3. QED
    BY <1>3, <1>5, <2>1, <2>2 DEF Home, memory
<1>18. CASE UNCHANGED vars
  BY <1>3, <1>4, <1>5, <1>18 DEF vars, memory, caller, Home
<1>19. QED
  BY <1>6, <1>7, <1>8, <1>9, <1>10, <1>11, <1>12, <1>13, <1>14, <1>15, <1>16, <1>17, <1>18
     DEF Next, Step

LEMMA HomeInit ==
    ASSUME NEW owner, Station(owner)
    PROVE  Init => HomeInv(owner)
<1> SUFFICES ASSUME Init  PROVE Home(owner)
  BY DEF HomeInv
<1>1. socket \in [Printers -> Ports] /\ \A d \in Printers : socket[d] \in PortsOf[d]
  BY HealingAssumption DEF Init, Ports
<1>2. ASSUME NEW n \in Names, queue[n] # NoQueue
      PROVE  FirstName[owner[n]] = n /\ queue[n].port \in PortsOf[owner[n]]
  <2>1. \E p \in Printers : FirstName[p] = n
    BY <1>2 DEF Init
  <2>2. (CHOOSE p \in Printers : FirstName[p] = n) = owner[n]
    BY <2>1 DEF Station
  <2>3. queue[n].port = socket[owner[n]]
    BY <2>1, <2>2 DEF Init
  <2>4. QED
    BY <1>1, <2>1, <2>3 DEF Station
<1>3. WindowsHome(owner)
  BY <1>1, <1>2 DEF WindowsHome, AtHome
<1>4. BoundHome(owner) /\ CacheHome(owner)
  BY DEF Init, BoundHome, CacheHome, Station
<1>5. HintsHome
  BY DEF Init, HintsHome, OwnModel
<1>6. HeldHome /\ PlansHome(owner)
  BY NoHintsHome DEF Init, All, HeldHome, PlansHome, HomePlan
<1>7. QED
  BY <1>3, <1>4, <1>5, <1>6 DEF Home

\* Where every printer is of its own model and no queue is named like another
\* printer's, tickets come out at their own station, whatever is moved, renamed
\* or switched off and whoever repairs at once, unless a port was chosen while
\* the printer was not attached, or a queue of another name adopted
\* (pickMigrationPort, planHealing, resolveQueue).
THEOREM RightStationSafe ==
    ASSUME NEW owner, Station(owner)
    PROVE  Spec => []RightStationIfAttached
<1>1. Inv /\ HomeInv(owner) => RightStationIfAttached
  <2> SUFFICES ASSUME Home(owner), NEW p \in Printers, NEW d \in Printers \ {p},
                      queue[bound[p]] # NoQueue, socket[d] = queue[bound[p]].port, Inv
               PROVE  FALSE
    BY DEF HomeInv, RightStationIfAttached, RightStation, WrongStation
  <2>1. bound[p] \in Names /\ owner[bound[p]] = p
    BY DEF Inv, TypeOK, Home, BoundHome
  <2>2. socket[d] \in PortsOf[p] /\ socket[d] \in PortsOf[d]
    BY <2>1, NoPortApart DEF Home, WindowsHome, AtHome
  <2>3. QED
    BY <2>2, PortsApart
<1>2. QED
  BY InitInv, InvStep, HomeInit, HomeStep, <1>1, PTL DEF Spec

=============================================================================
