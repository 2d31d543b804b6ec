-------------------------- MODULE UsbPrinterProofs --------------------------
(***************************************************************************)
(* UsbPrinter for any number of clients and of managers: the types, and    *)
(* that one ticket at a time is on its way to the spooler as long as no    *)
(* disconnect() has met a write.                                           *)
(***************************************************************************)
EXTENDS UsbPrinter, SequenceTheorems, TLAPS

\* A client that resolves or rechecks does so inside connect().
ConnectsInside ==
    \A c \in Clients : pc[c] \in {"resolve", "recheck"} => inConnect[c]

Inv == TypeOK /\ ConnectsInside /\ OneSend

\* What the adapter makes of any state of the world is typed.
LEMMA VerdictTyped ==
    ASSUME NEW v \in DOMAIN Verdict
    PROVE  /\ Verdict[v].status \in Statuses
           /\ Verdict[v].printable \in BOOLEAN
           /\ Verdict[v].healable \in BOOLEAN
<1>1. DOMAIN Verdict = {"ready", "flagged", "stuck", "paper", "unplugged", "gone"}
  BY DEF Verdict
<1>2. CASE v = "ready"
  BY <1>2 DEF Verdict, Statuses
<1>3. CASE v = "flagged"
  BY <1>3 DEF Verdict, Statuses
<1>4. CASE v = "stuck"
  BY <1>4 DEF Verdict, Statuses
<1>5. CASE v = "paper"
  BY <1>5 DEF Verdict, Statuses
<1>6. CASE v = "unplugged"
  BY <1>6 DEF Verdict, Statuses
<1>7. CASE v = "gone"
  BY <1>7 DEF Verdict, Statuses
<1>8. QED
  BY <1>1, <1>2, <1>3, <1>4, <1>5, <1>6, <1>7

\* Whatever a snapshot says, there is a verdict on it.
LEMMA ViewJudged ==
    ASSUME TypeOK, NEW v \in View
    PROVE  v \in DOMAIN Verdict
  BY UsbPrinterAssumption DEF TypeOK, View

\* Three failures are as many as are counted.
LEMMA FailedTyped ==
    ASSUME TypeOK
    PROVE  Failed \in 0..3
  BY DEF TypeOK, Failed

\* Who writes, waits, is sent or is refused.
LEMMA EnqueueTyped ==
    ASSUME TypeOK, NEW c \in Clients, NEW base \in [Callers -> Awaits],
           Enqueue(c, base)
    PROVE  /\ pc' \in [Callers -> Awaits]
           /\ queue' \in Seq(Clients)
           /\ writing' \in BOOLEAN
           /\ file' \in [Clients -> BOOLEAN]
           /\ pass' \in [Clients -> 0..2]
<1>1. c \in Callers
  BY DEF Callers
<1>2. CASE Len(queue) >= MaxWriteQueue
  BY <1>1, <1>2 DEF Enqueue, TypeOK, sends, Awaits
<1>3. CASE ~(Len(queue) >= MaxWriteQueue)
  <2> DEFINE q == Append(queue, c)
  <2>1. q \in Seq(Clients) /\ q # <<>>
    <3>1. queue \in Seq(Clients)
      BY DEF TypeOK
    <3>2. q \in Seq(Clients) /\ Len(q) = Len(queue) + 1
      BY <3>1, AppendProperties
    <3>3. QED
      BY <3>1, <3>2
  <2>2. Head(q) \in Clients /\ Tail(q) \in Seq(Clients)
    BY <2>1, HeadTailProperties
  <2>3. Head(q) \in Callers
    BY <2>2 DEF Callers
  <2>4. CASE writing
    BY <1>1, <1>3, <2>1, <2>4 DEF Enqueue, TypeOK, Awaits
  <2>5. CASE ~writing
    <3>1. /\ queue' = Tail(q)
          /\ writing' = TRUE
          /\ file' = [file EXCEPT ![Head(q)] = TRUE]
          /\ pass' = [pass EXCEPT ![Head(q)] = 1]
          /\ pc' = [base EXCEPT ![c] = "queued", ![Head(q)] = "send"]
      BY <1>3, <2>5 DEF Enqueue
    <3> HIDE DEF q
    <3>2. pc' \in [Callers -> Awaits]
      BY <1>1, <2>3, <3>1 DEF Awaits
    <3>3. queue' \in Seq(Clients) /\ writing' \in BOOLEAN
      BY <2>2, <3>1
    <3>4. file' \in [Clients -> BOOLEAN] /\ pass' \in [Clients -> 0..2]
      BY <2>2, <3>1 DEF TypeOK
    <3>5. QED
      BY <3>2, <3>3, <3>4
  <2>6. QED
    BY <2>4, <2>5
<1>4. QED
  BY <1>2, <1>3

\* connect() returns to its caller.
LEMMA AfterConnectTyped ==
    ASSUME TypeOK, NEW a \in Callers, NEW b, NEW base \in [Callers -> Awaits],
           AfterConnect(a, b, base)
    PROVE  /\ inConnect' \in [Callers -> BOOLEAN]
           /\ pc' \in [Callers -> Awaits]
           /\ queue' \in Seq(Clients)
           /\ writing' \in BOOLEAN
           /\ file' \in [Clients -> BOOLEAN]
           /\ pass' \in [Clients -> 0..2]
<1>1. inConnect' \in [Callers -> BOOLEAN]
  BY DEF AfterConnect, TypeOK
<1>2. CASE a \in Clients /\ b
  BY <1>1, <1>2, EnqueueTyped DEF AfterConnect
<1>3. CASE ~(a \in Clients /\ b)
  BY <1>1, <1>3 DEF AfterConnect, TypeOK, sends, Awaits
<1>4. QED
  BY <1>2, <1>3

\* At the start nobody does anything.
LEMMA InitInv == Init => Inv
<1> SUFFICES ASSUME Init PROVE Inv
  OBVIOUS
<1>1. queue \in Seq(Clients)
  BY DEF Init, InitWithout
<1>2. TypeOK
  <2>1. pc \in [Callers -> Awaits] /\ inConnect \in [Callers -> BOOLEAN]
    BY DEF Init, InitWithout, Awaits
  <2>2. operations \in 0..MaxOperations /\ failures \in 0..3
    BY UsbPrinterAssumption DEF Init, InitWithout
  <2>3. errand \in [Managers -> Errands] /\ pass \in [Clients -> 0..2]
    BY DEF Init, InitWithout, Errands
  <2>4. QED
    BY <1>1, <2>1, <2>2, <2>3 DEF Init, InitWithout, TypeOK, Statuses
<1>3. ConnectsInside /\ OneSend
  BY DEF Init, InitWithout, ConnectsInside, OneSend, Sends, Callers, Healing
<1>4. QED
  BY <1>2, <1>3 DEF Inv

\* A client that did not send joins the queue, or is sent because nobody is.
LEMMA EnqueueAlone ==
    ASSUME Inv, NEW c \in Clients, NEW base \in [Callers -> Awaits],
           \A d \in Clients : base[d] = pc[d],
           Enqueue(c, base),
           ~Sends(c),
           \A d \in Clients \ {c} : inConnect'[d] = inConnect[d],
           cut' = cut
    PROVE  ConnectsInside' /\ OneSend'
<1> USE DEF Callers
<1>1. TypeOK /\ ConnectsInside /\ OneSend
  BY DEF Inv
<1>2. CASE Len(queue) >= MaxWriteQueue
  <2>1. pc' = [base EXCEPT ![c] = "rest"] /\ writing' = writing
    BY <1>2 DEF Enqueue, sends
  <2>2. QED
    BY <1>1, <2>1 DEF ConnectsInside, OneSend, Sends, Healing
<1>3. CASE ~(Len(queue) >= MaxWriteQueue) /\ writing
  <2>1. pc' = [base EXCEPT ![c] = "queued"] /\ writing' = writing
    BY <1>3 DEF Enqueue
  <2>2. QED
    BY <1>1, <2>1 DEF ConnectsInside, OneSend, Sends, Healing
<1>4. CASE ~(Len(queue) >= MaxWriteQueue) /\ ~writing
  <2> DEFINE h == Head(Append(queue, c))
  <2>1. pc' = [base EXCEPT ![c] = "queued", ![h] = "send"] /\ writing' = TRUE
    BY <1>4 DEF Enqueue
  <2>2. ~cut => \A d \in Clients : ~Sends(d)
    BY <1>1, <1>4 DEF OneSend
  <2> HIDE DEF h
  <2>3. \A d \in Clients \ {c, h} : pc'[d] = pc[d]
    BY <2>1
  <2>4. ConnectsInside'
    BY <1>1, <2>1, <2>3 DEF ConnectsInside
  <2>5. ~cut => \A d \in Clients : Sends(d)' => d = h
    BY <2>1, <2>2, <2>3 DEF Sends, Healing
  <2>6. QED
    BY <2>1, <2>4, <2>5 DEF OneSend
<1>5. QED
  BY <1>2, <1>3, <1>4

\* connect() returns to a caller, which does not send while it is inside.
LEMMA AfterConnectAlone ==
    ASSUME Inv, NEW a \in Callers, NEW b, NEW base \in [Callers -> Awaits],
           \A d \in Clients : base[d] = pc[d],
           pc[a] \in {"resolve", "recheck"},
           AfterConnect(a, b, base),
           cut' = cut
    PROVE  ConnectsInside' /\ OneSend'
<1>1. TypeOK /\ ConnectsInside /\ OneSend
  BY DEF Inv
<1>2. \A d \in Clients \ {a} : inConnect'[d] = inConnect[d]
  BY <1>1 DEF AfterConnect, TypeOK, Callers
<1>3. CASE a \in Clients /\ b
  <2>1. ~Sends(a)
    BY DEF Sends, Healing
  <2>2. QED
    BY <1>2, <1>3, <2>1, EnqueueAlone DEF AfterConnect
<1>4. CASE ~(a \in Clients /\ b)
  <2>1. pc' = [base EXCEPT ![a] = "rest"] /\ writing' = writing
    BY <1>4 DEF AfterConnect, sends
  <2>2. \A d \in Clients : pc'[d] = IF d = a THEN "rest" ELSE pc[d]
    BY <2>1 DEF Callers
  <2>3. QED
    BY <1>1, <1>2, <2>1, <2>2 DEF ConnectsInside, OneSend, Sends, Healing
<1>5. QED
  BY <1>3, <1>4

\* A step of the world or of Windows' caches touches no caller.
LEMMA OutsideSafe ==
    ASSUME Inv, WorldChanges \/ ViewExpires \/ CooldownEnds
    PROVE  Inv'
<1>1. TypeOK'
  BY DEF Inv, TypeOK, WorldChanges, ViewExpires, CooldownEnds, world, state, sends, ops
<1>2. ConnectsInside' /\ OneSend'
  BY DEF WorldChanges, ViewExpires, CooldownEnds, sends, ops, Inv, ConnectsInside, OneSend,
     Sends, Healing
<1>3. QED
  BY <1>1, <1>2 DEF Inv

\* A job begins, asks for the status, and goes on by it.
LEMMA JobSafe ==
    ASSUME Inv, NEW c \in Clients, BeginJob(c) \/ JobStatus(c) \/ OpenDrawer(c)
    PROVE  Inv'
<1> USE DEF Callers
<1>1. TypeOK /\ ConnectsInside /\ OneSend
  BY DEF Inv
<1>2. pc \in [Callers -> Awaits] /\ inConnect \in [Callers -> BOOLEAN]
  BY <1>1 DEF TypeOK
<1>3. CASE BeginJob(c)
  <2>1. TypeOK'
    BY <1>1, <1>3 DEF BeginJob, Move, TypeOK, world, state, sends, ops, Awaits
  <2>2. ConnectsInside' /\ OneSend'
    BY <1>1, <1>2, <1>3 DEF BeginJob, Move, sends, ops, ConnectsInside, OneSend, Sends, Healing
  <2>3. QED
    BY <2>1, <2>2 DEF Inv
<1>4. CASE JobStatus(c)
  <2>1. PICK v \in View :
          /\ Apply(v)
          /\ \/ Move(c, "rest") /\ UNCHANGED <<sends, inConnect>>
             \/ Enqueue(c, pc) /\ UNCHANGED inConnect
             \/ Connect(c) /\ UNCHANGED sends
    BY <1>4 DEF JobStatus
  <2>2. v \in DOMAIN Verdict
    BY <1>1, ViewJudged
  <2>3. /\ status' \in Statuses /\ connected' \in BOOLEAN /\ healable' \in BOOLEAN
        /\ failures' = failures
    BY <2>1, <2>2, VerdictTyped DEF Apply
  <2>4. pc[c] = "status" /\ UNCHANGED <<world, cooling, errand, ops>>
    BY <1>4 DEF JobStatus
  <2>5. ~Sends(c)
    BY <2>4 DEF Sends, Healing
  <2>6. CASE Move(c, "rest") /\ UNCHANGED <<sends, inConnect>>
    <3>1. TypeOK'
      BY <1>1, <2>3, <2>4, <2>6 DEF Move, TypeOK, world, sends, ops, Awaits
    <3>2. ConnectsInside' /\ OneSend'
      BY <1>1, <1>2, <2>4, <2>6 DEF Move, sends, ops, ConnectsInside, OneSend, Sends, Healing
    <3>3. QED
      BY <3>1, <3>2 DEF Inv
  <2>7. CASE Enqueue(c, pc) /\ UNCHANGED inConnect
    <3>1. TypeOK'
      BY <1>1, <1>2, <2>3, <2>4, <2>7, EnqueueTyped DEF TypeOK, world, ops
    <3>2. ConnectsInside' /\ OneSend'
      BY <1>2, <2>4, <2>5, <2>7, EnqueueAlone DEF ops
    <3>3. QED
      BY <3>1, <3>2 DEF Inv
  <2>8. CASE Connect(c) /\ UNCHANGED sends
    <3>1. TypeOK'
      BY <1>1, <2>3, <2>4, <2>8 DEF Connect, Move, TypeOK, world, sends, ops, Awaits
    <3>2. ConnectsInside' /\ OneSend'
      BY <1>1, <1>2, <2>4, <2>8 DEF Connect, Move, sends, ops, ConnectsInside, OneSend, Sends,
         Healing
    <3>3. QED
      BY <3>1, <3>2 DEF Inv
  <2>9. QED
    BY <2>1, <2>6, <2>7, <2>8
<1>5. CASE OpenDrawer(c)
  <2>1. pc[c] = "rest" /\ UNCHANGED <<world, state, cooling, errand, ops>>
    BY <1>5 DEF OpenDrawer
  <2>2. ~Sends(c)
    BY <2>1 DEF Sends, Healing
  <2>3. CASE Enqueue(c, pc) /\ UNCHANGED inConnect
    <3>1. TypeOK'
      BY <1>1, <1>2, <2>1, <2>3, EnqueueTyped DEF TypeOK, world, state, ops
    <3>2. ConnectsInside' /\ OneSend'
      BY <1>2, <2>1, <2>2, <2>3, EnqueueAlone DEF ops
    <3>3. QED
      BY <3>1, <3>2 DEF Inv
  <2>4. CASE Connect(c) /\ UNCHANGED sends
    <3>1. TypeOK'
      BY <1>1, <2>1, <2>4 DEF Connect, Move, TypeOK, world, state, sends, ops, Awaits
    <3>2. ConnectsInside' /\ OneSend'
      BY <1>1, <1>2, <2>1, <2>4 DEF Connect, Move, sends, ops, ConnectsInside, OneSend, Sends,
         Healing
    <3>3. QED
      BY <3>1, <3>2 DEF Inv
  <2>5. QED
    BY <1>5, <2>3, <2>4 DEF OpenDrawer
<1>6. QED
  BY <1>3, <1>4, <1>5

\* connect() resolves its queue, repairs it or not, and is done.
LEMMA ConnectSafe ==
    ASSUME Inv, NEW a \in Callers,
           ResolvesNothing(a) \/ ResolvesBroken(a) \/ Resolves(a) \/ Rechecks(a)
    PROVE  Inv'
<1>1. TypeOK /\ ConnectsInside /\ OneSend
  BY DEF Inv
<1>2. pc \in [Callers -> Awaits] /\ inConnect \in [Callers -> BOOLEAN] /\ cooling \in BOOLEAN
  BY <1>1 DEF TypeOK
<1>3. CASE ResolvesNothing(a)
  <2>1. /\ pc[a] = "resolve" /\ ConnectionError /\ AfterConnect(a, FALSE, pc)
        /\ UNCHANGED <<world, cooling, errand, ops>>
    BY <1>3 DEF ResolvesNothing
  <2>2. status' \in Statuses /\ connected' \in BOOLEAN /\ healable' \in BOOLEAN /\ failures' \in 0..3
    BY <1>1, <2>1, FailedTyped DEF ConnectionError, TypeOK, Statuses
  <2>3. TypeOK'
    BY <1>1, <1>2, <2>1, <2>2, AfterConnectTyped DEF TypeOK, world, ops
  <2>4. ConnectsInside' /\ OneSend'
    BY <1>2, <2>1, AfterConnectAlone DEF ops
  <2>5. QED
    BY <2>3, <2>4 DEF Inv
<1>4. CASE ResolvesBroken(a)
  <2>1. PICK to \in {"recheck", "heal.look"} :
          /\ pc[a] = "resolve" /\ pc' = [pc EXCEPT ![a] = to] /\ cooling' = TRUE
          /\ UNCHANGED <<world, state, sends, inConnect, errand, ops>>
    BY <1>4 DEF ResolvesBroken, Move
  <2>2. TypeOK'
    BY <1>1, <2>1 DEF TypeOK, world, state, sends, ops, Awaits, Healing
  <2>3. ConnectsInside' /\ OneSend'
    BY <1>1, <1>2, <2>1 DEF sends, ops, ConnectsInside, OneSend, Sends, Healing
  <2>4. QED
    BY <2>2, <2>3 DEF Inv
<1>5. CASE Resolves(a)
  <2>1. PICK v \in View, base \in {pc, [pc EXCEPT !["background"] = "heal.look"]},
             repairs \in BOOLEAN :
          /\ Settle(v)
          /\ AfterConnect(a, Verdict[v].printable, base)
          /\ cooling' = (cooling \/ repairs)
    <3>1. PICK v \in View :
            LET verdict == Verdict[v]
                repairs == verdict.healable /\ ~cooling
                           /\ pc["background"] = "rest"
            IN  /\ verdict.printable \/ ~verdict.healable
                /\ Settle(v)
                /\ AfterConnect(a, verdict.printable,
                       IF repairs THEN [pc EXCEPT !["background"] = "heal.look"]
                       ELSE pc)
                /\ cooling' = (cooling \/ repairs)
      BY <1>5 DEF Resolves
    <3>2. v \in DOMAIN Verdict
      BY <1>1, ViewJudged
    <3> DEFINE repairs == Verdict[v].healable /\ ~cooling /\ pc["background"] = "rest"
    <3>3. repairs \in BOOLEAN
      BY <1>2, <3>2, VerdictTyped
    <3>4. QED
      BY <3>1, <3>3
  <2>2. v \in DOMAIN Verdict
    BY <1>1, ViewJudged
  <2>3. /\ status' \in Statuses /\ connected' \in BOOLEAN /\ healable' \in BOOLEAN
        /\ failures' \in 0..3
    BY <1>1, <2>1, <2>2, VerdictTyped DEF Settle, TypeOK
  <2>4. pc[a] = "resolve" /\ UNCHANGED <<world, errand, ops>>
    BY <1>5 DEF Resolves
  <2>5. base \in [Callers -> Awaits] /\ \A d \in Clients : base[d] = pc[d]
    BY <1>2, UsbPrinterAssumption DEF Callers, Awaits, Healing
  <2>6. cooling' \in BOOLEAN
    BY <1>2, <2>1
  <2>7. TypeOK'
    BY <1>1, <2>1, <2>3, <2>4, <2>5, <2>6, AfterConnectTyped DEF TypeOK, world, ops
  <2>8. ConnectsInside' /\ OneSend'
    BY <2>1, <2>4, <2>5, AfterConnectAlone DEF ops
  <2>9. QED
    BY <2>7, <2>8 DEF Inv
<1>6. CASE Rechecks(a)
  <2>1. PICK v \in View : Settle(v) /\ AfterConnect(a, Verdict[v].printable, pc)
    BY <1>6 DEF Rechecks
  <2>2. v \in DOMAIN Verdict
    BY <1>1, ViewJudged
  <2>3. /\ status' \in Statuses /\ connected' \in BOOLEAN /\ healable' \in BOOLEAN
        /\ failures' \in 0..3
    BY <1>1, <2>1, <2>2, VerdictTyped DEF Settle, TypeOK
  <2>4. pc[a] = "recheck" /\ UNCHANGED <<world, cooling, errand, ops>>
    BY <1>6 DEF Rechecks
  <2>5. TypeOK'
    BY <1>1, <1>2, <2>1, <2>3, <2>4, AfterConnectTyped DEF TypeOK, world, ops
  <2>6. ConnectsInside' /\ OneSend'
    BY <1>2, <2>1, <2>4, AfterConnectAlone DEF ops
  <2>7. QED
    BY <2>5, <2>6 DEF Inv
<1>7. QED
  BY <1>3, <1>4, <1>5, <1>6

\* heal() looks, acts and looks again; its caller goes on.
LEMMA HealSafe ==
    ASSUME Inv, NEW a \in Callers, HealLooks(a) \/ HealActs(a) \/ HealEnds(a)
    PROVE  Inv'
<1>1. TypeOK /\ ConnectsInside /\ OneSend
  BY DEF Inv
<1>2. pc \in [Callers -> Awaits] /\ inConnect \in [Callers -> BOOLEAN]
  BY <1>1 DEF TypeOK
<1>3. CASE HealLooks(a)
  <2>1. PICK to \in {"heal.act", "heal.after"} :
          /\ pc[a] = "heal.look" /\ pc' = [pc EXCEPT ![a] = to]
          /\ UNCHANGED <<world, state, cooling, sends, inConnect, errand, ops>>
    BY <1>3 DEF HealLooks, Move
  <2>2. TypeOK'
    BY <1>1, <2>1 DEF TypeOK, world, state, sends, ops, Awaits, Healing
  <2>3. ConnectsInside' /\ OneSend'
    BY <1>1, <1>2, <2>1 DEF sends, ops, ConnectsInside, OneSend, Sends, Healing
  <2>4. QED
    BY <2>2, <2>3 DEF Inv
<1>4. CASE HealActs(a)
  <2>1. /\ pc[a] = "heal.act" /\ pc' = [pc EXCEPT ![a] = "heal.after"]
        /\ UNCHANGED <<state, cooling, sends, inConnect, errand, ops>>
    BY <1>4 DEF HealActs, Move
  <2>2. windows' \in AtFirst \cup World /\ past' \subseteq AtFirst \cup World
    BY <1>1, <1>4, UsbPrinterAssumption DEF HealActs, TypeOK, world
  <2>3. TypeOK'
    BY <1>1, <2>1, <2>2 DEF TypeOK, state, sends, ops, Awaits, Healing
  <2>4. ConnectsInside' /\ OneSend'
    BY <1>1, <1>2, <2>1 DEF sends, ops, ConnectsInside, OneSend, Sends, Healing
  <2>5. QED
    BY <2>3, <2>4 DEF Inv
<1>5. CASE HealEnds(a)
  <2>1. PICK v \in View : Apply(v) /\ AfterHeal(a, v)
    BY <1>5 DEF HealEnds
  <2>2. v \in DOMAIN Verdict
    BY <1>1, ViewJudged
  <2>3. /\ status' \in Statuses /\ connected' \in BOOLEAN /\ healable' \in BOOLEAN
        /\ failures' = failures
    BY <2>1, <2>2, VerdictTyped DEF Apply
  <2>4. /\ pc[a] = "heal.after"
        /\ pass' = IF a \in Clients /\ ~inConnect[a] THEN [pass EXCEPT ![a] = 2] ELSE pass
        /\ UNCHANGED <<world, cooling, queue, writing, file, errand, ops>>
    BY <1>5 DEF HealEnds
  <2>5. pass' \in [Clients -> 0..2]
    BY <1>1, <2>4 DEF TypeOK
  <2>6. \/ /\ inConnect[a]
           /\ pc' = [pc EXCEPT ![a] = "recheck"] /\ inConnect' = inConnect
        \/ /\ ~inConnect[a] /\ a \in Clients
           /\ pc' = [pc EXCEPT ![a] = "send"] /\ inConnect' = inConnect
        \/ /\ ~inConnect[a] /\ a \notin Clients
           /\ pc' = [pc EXCEPT ![a] = "resolve"]
           /\ inConnect' = [inConnect EXCEPT ![a] = TRUE]
        \/ /\ ~inConnect[a] /\ a \notin Clients
           /\ pc' = [pc EXCEPT ![a] = "rest"] /\ inConnect' = inConnect
    BY <2>1, UsbPrinterAssumption DEF AfterHeal, Move, Connect
  <2>7. pc' \in [Callers -> Awaits] /\ inConnect' \in [Callers -> BOOLEAN]
    BY <1>2, <2>6 DEF Awaits
  <2>8. TypeOK'
    BY <1>1, <2>3, <2>4, <2>5, <2>7 DEF TypeOK, world, ops
  <2>9. ConnectsInside' /\ OneSend'
    BY <1>1, <1>2, <2>4, <2>6 DEF ops, ConnectsInside, OneSend, Sends, Healing, Callers
  <2>10. QED
    BY <2>8, <2>9 DEF Inv
<1>6. QED
  BY <1>3, <1>4, <1>5

\* A send reads its file, is spooled, fails, or gives up.
LEMMA SendSafe ==
    ASSUME Inv, NEW c \in Clients,
           ReadsFile(c) \/ Spooled(c) \/ FirstPassFails(c) \/ GivesUp(c)
    PROVE  Inv'
<1> USE DEF Callers
<1>1. TypeOK /\ ConnectsInside /\ OneSend
  BY DEF Inv
<1>2. pc \in [Callers -> Awaits] /\ inConnect \in [Callers -> BOOLEAN]
  BY <1>1 DEF TypeOK
<1>3. CASE ReadsFile(c)
  <2>1. TypeOK'
    BY <1>1, <1>3 DEF ReadsFile, Move, TypeOK, world, state, sends, ops, Awaits
  <2>2. ConnectsInside' /\ OneSend'
    BY <1>1, <1>2, <1>3 DEF ReadsFile, Move, sends, ops, ConnectsInside, OneSend, Sends, Healing
  <2>3. QED
    BY <2>1, <2>2 DEF Inv
<1>4. CASE FirstPassFails(c)
  <2>1. /\ pc[c] \in {"send", "spool"} /\ pc' = [pc EXCEPT ![c] = "heal.look"] /\ cooling' = TRUE
        /\ UNCHANGED <<world, state, sends, inConnect, errand, ops>>
    BY <1>4 DEF FirstPassFails, PassMayFail, Move
  <2>2. TypeOK'
    BY <1>1, <2>1 DEF TypeOK, world, state, sends, ops, Awaits, Healing
  <2>3. ConnectsInside' /\ OneSend'
    BY <1>1, <1>2, <2>1 DEF sends, ops, ConnectsInside, OneSend, Sends, Healing
  <2>4. QED
    BY <2>2, <2>3 DEF Inv
<1>5. CASE Spooled(c) \/ GivesUp(c)
  <2>1. pc[c] \in {"send", "spool"} /\ Answered(c)
    BY <1>5 DEF Spooled, GivesUp, PassMayFail
  <2>2. /\ status' \in Statuses /\ connected' \in BOOLEAN /\ healable' \in BOOLEAN
        /\ failures' \in 0..3
    <3>1. status \in Statuses /\ connected \in BOOLEAN /\ healable \in BOOLEAN
      BY <1>1 DEF TypeOK
    <3>2. CASE Spooled(c)
      BY <3>1, <3>2 DEF Spooled, Statuses
    <3>3. CASE GivesUp(c)
      BY <1>1, <3>1, <3>3, FailedTyped DEF GivesUp, Statuses
    <3>4. QED
      BY <1>5, <3>2, <3>3
  <2>3. TypeOK'
    <3>1. pass' \in [Clients -> 0..2] /\ file' \in [Clients -> BOOLEAN]
      BY <1>1, <2>1 DEF Answered, TypeOK
    <3>2. pc' \in [Callers -> Awaits]
      BY <1>2, <2>1 DEF Answered, Move, Awaits
    <3>3. QED
      BY <1>1, <2>1, <2>2, <3>1, <3>2 DEF Answered, TypeOK, world, ops
  <2>4. ConnectsInside'
    BY <1>1, <1>2, <2>1 DEF Answered, Move, ConnectsInside
  <2>5. ~cut => \A d \in Clients \ {c} : ~Sends(d)
    BY <1>1, <2>1 DEF OneSend, Sends
  <2>6. ~cut => \A d \in Clients : ~Sends(d)'
    BY <1>2, <2>1, <2>5 DEF Answered, Move, Sends, Healing
  <2>7. OneSend'
    BY <2>1, <2>6 DEF Answered, OneSend, ops
  <2>8. QED
    BY <2>3, <2>4, <2>7 DEF Inv
<1>6. QED
  BY <1>3, <1>4, <1>5

\* The next in the queue is sent when nobody is.
LEMMA NextWriteSafe ==
    ASSUME Inv, NextWrite
    PROVE  Inv'
<1>1. TypeOK /\ ConnectsInside /\ OneSend
  BY DEF Inv
<1> DEFINE h == Head(queue)
<1>2. h \in Clients /\ Tail(queue) \in Seq(Clients)
  BY <1>1, HeadTailProperties DEF NextWrite, NextWriteAnyway, TypeOK
<1>3. /\ ~writing /\ queue' = Tail(queue) /\ writing' = TRUE
      /\ file' = [file EXCEPT ![h] = TRUE] /\ pass' = [pass EXCEPT ![h] = 1]
      /\ pc' = [pc EXCEPT ![h] = "send"]
      /\ UNCHANGED <<world, state, cooling, inConnect, errand, ops>>
  BY DEF NextWrite, NextWriteAnyway, Move
<1> HIDE DEF h
<1>4. TypeOK'
  BY <1>1, <1>2, <1>3 DEF TypeOK, world, state, ops, Awaits, Callers
<1>5. ConnectsInside'
  BY <1>1, <1>3 DEF ConnectsInside, TypeOK, Callers
<1>6. ~cut => \A d \in Clients : ~Sends(d)
  BY <1>1, <1>3 DEF OneSend
<1>7. ~cut => \A d \in Clients : Sends(d)' => d = h
  BY <1>1, <1>3, <1>6 DEF Sends, Healing, TypeOK, Callers
<1>8. OneSend'
  BY <1>3, <1>7 DEF OneSend, ops
<1>9. QED
  BY <1>4, <1>5, <1>8 DEF Inv

\* A step of a manager changes nothing for a client, unless it hangs up.
LEMMA ManagerSafe ==
    ASSUME Inv, NEW m \in Managers,
           Checks(m) \/ Asks(m) \/ Reconcile(m) \/ Repair(m) \/ ReconnectGoesOn(m)
    PROVE  Inv'
<1> USE DEF Callers
<1>1. TypeOK /\ ConnectsInside /\ OneSend /\ m \notin Clients
  BY UsbPrinterAssumption DEF Inv
<1>2. /\ pc \in [Callers -> Awaits] /\ inConnect \in [Callers -> BOOLEAN]
      /\ errand \in [Managers -> Errands] /\ operations \in 0..MaxOperations /\ cooling \in BOOLEAN
  BY <1>1 DEF TypeOK
<1>3. /\ \E to \in Awaits : pc' = [pc EXCEPT ![m] = to]
      /\ inConnect' = inConnect \/ inConnect' = [inConnect EXCEPT ![m] = TRUE]
      /\ errand' = errand \/ \E kind \in Errands : errand' = [errand EXCEPT ![m] = kind]
      /\ UNCHANGED <<world, sends, cut>>
  BY DEF Checks, Asks, Reconcile, Repair, ReconnectGoesOn, Begin, Move, Connect, Operate, ops,
     Awaits, Healing, Errands
<1>4. operations' \in 0..MaxOperations
  BY <1>2, UsbPrinterAssumption DEF Checks, Asks, Reconcile, Repair, ReconnectGoesOn, Operate, ops
<1>5. /\ status' \in Statuses /\ connected' \in BOOLEAN /\ healable' \in BOOLEAN
      /\ failures' = failures /\ cooling' \in BOOLEAN
  <2>1. CASE Checks(m)
    <3>1. PICK v \in View :
            /\ Apply(v)
            /\ cooling' = (cooling \/ (Verdict[v].status \in {"OFFLINE", "ERROR"}
                                       /\ Verdict[v].healable /\ ~cooling))
      BY <2>1 DEF Checks
    <3>2. v \in DOMAIN Verdict
      BY <1>1, ViewJudged
    <3>3. /\ status' \in Statuses /\ connected' \in BOOLEAN /\ healable' \in BOOLEAN
          /\ failures' = failures
      BY <3>1, <3>2, VerdictTyped DEF Apply
    <3>4. cooling' \in BOOLEAN
      BY <1>2, <3>1
    <3>5. QED
      BY <3>3, <3>4
  <2>2. CASE Asks(m) \/ Reconcile(m) \/ Repair(m) \/ ReconnectGoesOn(m)
    BY <1>1, <2>2 DEF Asks, Reconcile, Repair, ReconnectGoesOn, state, TypeOK
  <2>3. QED
    BY <2>1, <2>2
<1>6. TypeOK'
  <2>1. pc' \in [Callers -> Awaits] /\ inConnect' \in [Callers -> BOOLEAN]
    BY <1>2, <1>3
  <2>2. errand' \in [Managers -> Errands]
    BY <1>2, <1>3
  <2>3. QED
    BY <1>1, <1>3, <1>4, <1>5, <2>1, <2>2 DEF TypeOK, world, sends
<1>7. \A d \in Clients : pc'[d] = pc[d] /\ inConnect'[d] = inConnect[d]
  BY <1>1, <1>2, <1>3
<1>8. ConnectsInside' /\ OneSend'
  BY <1>1, <1>3, <1>7 DEF sends, ConnectsInside, OneSend, Sends
<1>9. QED
  BY <1>6, <1>8 DEF Inv

\* Reconnect hangs up: from a write it cuts, and otherwise nobody sends.
LEMMA ReconnectSafe ==
    ASSUME Inv, NEW m \in Managers, Reconnect(m)
    PROVE  Inv'
<1> USE DEF Callers
<1>1. TypeOK /\ ConnectsInside /\ OneSend /\ m \notin Clients
  BY UsbPrinterAssumption DEF Inv
<1>2. operations' \in 0..MaxOperations
  BY <1>1, UsbPrinterAssumption DEF Reconnect, Operate, TypeOK
<1>3. errand' \in [Managers -> Errands] /\ cut' \in BOOLEAN
  BY <1>1 DEF Reconnect, TypeOK, Errands
<1>4. pc' \in [Callers -> Awaits]
  BY <1>1 DEF Reconnect, Move, TypeOK, Awaits
<1>5. TypeOK'
  <2>1. queue' \in Seq(Clients) /\ writing' \in BOOLEAN
    <3>1. queue \in Seq(Clients) /\ writing \in BOOLEAN /\ <<>> \in Seq(Clients)
      BY <1>1 DEF TypeOK
    <3>2. \/ queue' = <<>> /\ writing' = FALSE
          \/ queue' = queue /\ writing' = writing
      BY DEF Reconnect
    <3>3. QED
      BY <3>1, <3>2
  <2>2. status' \in Statuses /\ connected' \in BOOLEAN
    BY <1>1 DEF Reconnect, TypeOK, Statuses
  <2>3. UNCHANGED <<world, healable, failures, cooling, file, pass, inConnect>>
    BY DEF Reconnect
  <2>4. windows' \in AtFirst \cup World /\ past' \subseteq AtFirst \cup World
    BY <1>1, <2>3 DEF TypeOK, world
  <2>5. healable' \in BOOLEAN /\ cooling' \in BOOLEAN /\ failures' \in 0..3
    BY <1>1, <2>3 DEF TypeOK
  <2>6. /\ file' \in [Clients -> BOOLEAN] /\ pass' \in [Clients -> 0..2]
        /\ inConnect' \in [Callers -> BOOLEAN]
    BY <1>1, <2>3 DEF TypeOK
  <2>7. QED
    BY <1>2, <1>3, <1>4, <2>1, <2>2, <2>4, <2>5, <2>6 DEF TypeOK
<1>6. \A d \in Clients : pc'[d] = pc[d] \/ pc'[d] = "lost"
  BY <1>1 DEF Reconnect, Move, TypeOK
<1>7. ConnectsInside'
  BY <1>1, <1>6 DEF Reconnect, ConnectsInside
<1>8. ASSUME ~cut' PROVE writing' = writing /\ ~cut
  BY <1>1, <1>8 DEF Reconnect, TypeOK
<1>9. OneSend'
  BY <1>1, <1>6, <1>8 DEF Reconnect, OneSend, Sends, Healing
<1>10. QED
  BY <1>5, <1>7, <1>9 DEF Inv

\* The constructor of another adapter removes files and nothing else.
LEMMA RegisterSafe ==
    ASSUME Inv, RegisterAnother
    PROVE  Inv'
<1>1. TypeOK'
  BY UsbPrinterAssumption DEF Inv, RegisterAnother, Operate, TypeOK, world, state
<1>2. ConnectsInside' /\ OneSend'
  BY DEF Inv, RegisterAnother, ConnectsInside, OneSend, Sends, Healing
<1>3. QED
  BY <1>1, <1>2 DEF Inv

\* Whatever happens next, the invariant is kept.
LEMMA InvStep == Inv /\ [Next]_vars => Inv'
<1> SUFFICES ASSUME Inv, [Next]_vars PROVE Inv'
  OBVIOUS
<1>1. CASE WorldChanges \/ ViewExpires \/ CooldownEnds
  BY <1>1, OutsideSafe
<1>2. CASE \E a \in Callers : Goes(a)
  <2>1. PICK a \in Callers : Goes(a)
    BY <1>2
  <2>2. CASE Checks(a)
    <3>1. a \in Managers
      BY <2>2 DEF Checks
    <3>2. QED
      BY <2>2, <3>1, ManagerSafe
  <2>3. QED
    BY <2>1, <2>2, ConnectSafe, HealSafe DEF Goes
<1>3. CASE \E c \in Clients : BeginJob(c) \/ OpenDrawer(c) \/ Writes(c)
  BY <1>3, JobSafe, SendSafe DEF Writes
<1>4. CASE NextWrite
  BY <1>4, NextWriteSafe
<1>5. CASE \E m \in Managers : Asks(m) \/ Reconcile(m) \/ Repair(m) \/ Reconnect(m)
                               \/ ReconnectGoesOn(m)
  BY <1>5, ManagerSafe, ReconnectSafe
<1>6. CASE RegisterAnother
  BY <1>6, RegisterSafe
<1>7. CASE UNCHANGED vars
  <2>1. TypeOK'
    BY <1>7 DEF Inv, TypeOK, vars, world, state, sends, ops
  <2>2. ConnectsInside' /\ OneSend'
    BY <1>7 DEF Inv, ConnectsInside, OneSend, Sends, vars, sends, ops
  <2>3. QED
    BY <2>1, <2>2 DEF Inv
<1>8. QED
  BY <1>1, <1>2, <1>3, <1>4, <1>5, <1>6, <1>7 DEF Next

\* USBPrinterAdapter's fields keep their types.
THEOREM TypeCorrect == Spec => []TypeOK
<1>1. Inv => TypeOK
  BY DEF Inv
<1>2. QED
  BY InitInv, InvStep, <1>1, PTL DEF Spec

\* One ticket at a time is on its way to the spooler, and isWriting says so
\* (processQueue, sendToPrinter), for any number of jobs, drawers, health
\* checks and repairs, unless a disconnect() has met a write.
THEOREM OneSendSafe == Spec => []OneSend
<1>1. Inv => OneSend
  BY DEF Inv
<1>2. QED
  BY InitInv, InvStep, <1>1, PTL DEF Spec
=============================================================================
