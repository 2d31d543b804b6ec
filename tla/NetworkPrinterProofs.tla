------------------------ MODULE NetworkPrinterProofs ------------------------
(***************************************************************************)
(* The safety of one network printer, for every set of clients, every      *)
(* length of the reconnect ladder and every set of operations.             *)
(*                                                                         *)
(* TypeOK is inductive, in two halves: the values and the flags.  Over it  *)
(* OneConnection, LadderAlive and OneWriter are each inductive: every      *)
(* guard they need (Dialling, Schedule, MayWrite) is in the action itself. *)
(***************************************************************************)
EXTENDS NetworkPrinter, TLAPS

USE NetworkPrinterAssumption

-----------------------------------------------------------------------------
(* Types *)

\* The variables of TypeOK that are not flags, and those that are.
Values ==
    /\ peer \in {"up", "down"}
    /\ socket \in {"none", "open", "ending", "dead"}
    /\ closing \in {"no", "close", "error"}
    /\ timer \in {"off", "set", "waiting"}
    /\ attempts \in 0 .. MaxReconnectAttempts
    /\ status \in {"UNKNOWN", "ONLINE", "OFFLINE", "ERROR"}
    /\ probe \in {"idle", "status"}
    /\ check \in {"idle", "status", "connect"}
    /\ pc \in [Clients -> {"idle", "printed", "failed", "opening", "sending",
                           "status", "connect", "queued"}]
    /\ admin \in {"reconnect", "unregister", "idle", "pause"}

Flags ==
    /\ connecting \in BOOLEAN
    /\ released \in BOOLEAN
    /\ reconnecting \in BOOLEAN
    /\ connected \in BOOLEAN
    /\ quiet \in BOOLEAN
    /\ checking \in BOOLEAN
    /\ reaper \in BOOLEAN
    /\ registered \in BOOLEAN
    /\ crashed \in BOOLEAN

\* TypeOK is its two halves.
LEMMA TypeOKHalves == TypeOK <=> Values /\ Flags
BY DEF TypeOK, Values, Flags, Resting, Writing, OperationKinds

\* Every action keeps the values: no answer, event or operation writes one the
\* code does not know, and the ladder counts no further than its bound.
LEMMA ValuesStep ==
    ASSUME Values, [Next]_vars
    PROVE  Values'
<1>1. ASSUME NEW c \in Clients, BeginJob(c)
      PROVE  Values'
  BY <1>1 DEF BeginJob, Resting, AskStatus, Settle, Live, Values, link,
        ladder, view, control
<1>2. ASSUME NEW c \in Clients, JobAnswered(c)
      PROVE  Values'
  BY <1>2 DEF JobAnswered, Answers, Settle, SendTicket, Dialling, Live,
        Values, link, ladder, control
<1>3. ASSUME NEW c \in Clients, OpenDrawer(c)
      PROVE  Values'
  BY <1>3 DEF OpenDrawer, Resting, SendTicket, Dialling, Live, Values, ladder,
        view, control
<1>4. ASSUME NEW c \in Clients, NextWrite(c)
      PROVE  Values'
  BY <1>4 DEF NextWrite, MayWrite, Dialling, Live, Writing, Values, link,
        ladder, view, control
<1>5. ASSUME NEW c \in Clients, WriteDone(c)
      PROVE  Values'
  BY <1>5 DEF WriteDone, Live, Values, link, ladder, view, control
<1>6. ASSUME NEW c \in Clients, WriteTimesOut(c)
      PROVE  Values'
  BY <1>6 DEF WriteTimesOut, Live, Values, ladder, view, control
<1>7. ASSUME Connected
      PROVE  Values'
  BY <1>7 DEF Connected, Values, control
<1>8. ASSUME ConnectFails
      PROVE  Values'
  BY <1>8 DEF ConnectFails, Schedule, Rejected, Values, ladder, control
<1>9. ASSUME TimerFires
      PROVE  Values'
  BY <1>9 DEF TimerFires, Dialling, Live, Values, view, control
<1>10. ASSUME ConnectAll
       PROVE  Values'
  BY <1>10 DEF ConnectAll, Dialling, Live, Values, ladder, view, control
<1>11. ASSUME ConnectionLost
       PROVE  Values'
  BY <1>11 DEF ConnectionLost, Live, SocketGone, HandleDisconnect, Schedule,
        DisconnectResolved, AdminAfter, Disconnecting, Values, ladder
<1>12. ASSUME DestroyedSocketReports
       PROVE  Values'
  BY <1>12 DEF DestroyedSocketReports, SocketGone, HandleDisconnect, Schedule,
        DisconnectResolved, AdminAfter, Disconnecting, Values, ladder
<1>13. ASSUME PeerChanges
       PROVE  Values'
  BY <1>13 DEF PeerChanges, Values, link, ladder, view, control
<1>14. ASSUME TimePasses
       PROVE  Values'
  BY <1>14 DEF TimePasses, Values, link, ladder, view, control
<1>15. ASSUME NoticeLoss
       PROVE  Values'
  BY <1>15 DEF NoticeLoss, Live, HandleDisconnect, Schedule, Values, ladder,
        control
<1>16. ASSUME ReleaseIdle
       PROVE  Values'
  BY <1>16 DEF ReleaseIdle, Releasable, Live, Values, ladder, control
<1>17. ASSUME Probe
       PROVE  Values'
  BY <1>17 DEF Probe, AskStatus, Live, Values, ladder, view, control
<1>18. ASSUME ProbeAnswered
       PROVE  Values'
  BY <1>18 DEF ProbeAnswered, Answers, Settle, Values, link, ladder, control
<1>19. ASSUME Check
       PROVE  Values'
  BY <1>19 DEF Check, AskStatus, Live, Settle, ConnectUnlessWell, Dialling,
        Values, ladder, view, control
<1>20. ASSUME CheckAnswered
       PROVE  Values'
  BY <1>20 DEF CheckAnswered, Answers, Settle, ConnectUnlessWell, Dialling,
        Live, Values, ladder, control
<1>21. ASSUME NEW op \in OperationKinds, Disconnect(op)
       PROVE  Values'
  BY <1>21 DEF Disconnect, OperationKinds, Values, view
<1>22. ASSUME ReaperFires
       PROVE  Values'
  BY <1>22 DEF ReaperFires, Live, Disconnecting, DisconnectResolved,
        AdminAfter, OperationKinds, Values, ladder, view
<1>23. ASSUME Reconnect
       PROVE  Values'
  BY <1>23 DEF Reconnect, Dialling, Live, Values, ladder, view
<1>24. CASE UNCHANGED vars
  BY <1>24 DEF vars, link, ladder, view, control, Values
<1>25. QED
  BY <1>1, <1>2, <1>3, <1>4, <1>5, <1>6, <1>7, <1>8, <1>9, <1>10, <1>11,
     <1>12, <1>13, <1>14, <1>15, <1>16, <1>17, <1>18, <1>19, <1>20, <1>21,
     <1>22, <1>23, <1>24 DEF Next, Client, Connection,
     Health, Operator

\* Every action keeps the flags Boolean.
LEMMA FlagsStep ==
    ASSUME Flags, [Next]_vars
    PROVE  Flags'
<1>1. ASSUME NEW c \in Clients, BeginJob(c)
      PROVE  Flags'
  BY <1>1 DEF BeginJob, Resting, AskStatus, Settle, Live, Flags, link, ladder,
        view, control
<1>2. ASSUME NEW c \in Clients, JobAnswered(c)
      PROVE  Flags'
  BY <1>2 DEF JobAnswered, Answers, Settle, SendTicket, Dialling, Live, Flags,
        link, ladder, control
<1>3. ASSUME NEW c \in Clients, OpenDrawer(c)
      PROVE  Flags'
  BY <1>3 DEF OpenDrawer, Resting, SendTicket, Dialling, Live, Flags, ladder,
        view, control
<1>4. ASSUME NEW c \in Clients, NextWrite(c)
      PROVE  Flags'
  BY <1>4 DEF NextWrite, MayWrite, Dialling, Live, Writing, Flags, link,
        ladder, view, control
<1>5. ASSUME NEW c \in Clients, WriteDone(c)
      PROVE  Flags'
  BY <1>5 DEF WriteDone, Live, Flags, link, ladder, view, control
<1>6. ASSUME NEW c \in Clients, WriteTimesOut(c)
      PROVE  Flags'
  BY <1>6 DEF WriteTimesOut, Live, Flags, ladder, view, control
<1>7. ASSUME Connected
      PROVE  Flags'
  BY <1>7 DEF Connected, Flags, control
<1>8. ASSUME ConnectFails
      PROVE  Flags'
  BY <1>8 DEF ConnectFails, Schedule, Rejected, Flags, ladder, control
<1>9. ASSUME TimerFires
      PROVE  Flags'
  BY <1>9 DEF TimerFires, Dialling, Live, Flags, view, control
<1>10. ASSUME ConnectAll
       PROVE  Flags'
  BY <1>10 DEF ConnectAll, Dialling, Live, Flags, ladder, view, control
<1>11. ASSUME ConnectionLost
       PROVE  Flags'
  BY <1>11 DEF ConnectionLost, Live, SocketGone, HandleDisconnect, Schedule,
        DisconnectResolved, AdminAfter, Disconnecting, Flags, ladder
<1>12. ASSUME DestroyedSocketReports
       PROVE  Flags'
  BY <1>12 DEF DestroyedSocketReports, SocketGone, HandleDisconnect, Schedule,
        DisconnectResolved, AdminAfter, Disconnecting, Flags, ladder
<1>13. ASSUME PeerChanges
       PROVE  Flags'
  BY <1>13 DEF PeerChanges, Flags, link, ladder, view, control
<1>14. ASSUME TimePasses
       PROVE  Flags'
  BY <1>14 DEF TimePasses, Flags, link, ladder, view, control
<1>15. ASSUME NoticeLoss
       PROVE  Flags'
  BY <1>15 DEF NoticeLoss, Live, HandleDisconnect, Schedule, Flags, ladder,
        control
<1>16. ASSUME ReleaseIdle
       PROVE  Flags'
  BY <1>16 DEF ReleaseIdle, Releasable, Live, Flags, ladder, control
<1>17. ASSUME Probe
       PROVE  Flags'
  BY <1>17 DEF Probe, AskStatus, Live, Flags, ladder, view, control
<1>18. ASSUME ProbeAnswered
       PROVE  Flags'
  BY <1>18 DEF ProbeAnswered, Answers, Settle, Flags, link, ladder, control
<1>19. ASSUME Check
       PROVE  Flags'
  BY <1>19 DEF Check, AskStatus, Live, Settle, ConnectUnlessWell, Dialling,
        Flags, ladder, view, control
<1>20. ASSUME CheckAnswered
       PROVE  Flags'
  BY <1>20 DEF CheckAnswered, Answers, Settle, ConnectUnlessWell, Dialling,
        Live, Flags, ladder, control
<1>21. ASSUME NEW op \in OperationKinds, Disconnect(op)
       PROVE  Flags'
  BY <1>21 DEF Disconnect, OperationKinds, Flags, view
<1>22. ASSUME ReaperFires
       PROVE  Flags'
  BY <1>22 DEF ReaperFires, Live, Disconnecting, DisconnectResolved,
        AdminAfter, OperationKinds, Flags, ladder, view
<1>23. ASSUME Reconnect
       PROVE  Flags'
  BY <1>23 DEF Reconnect, Dialling, Live, Flags, ladder, view
<1>24. CASE UNCHANGED vars
  BY <1>24 DEF vars, link, ladder, view, control, Flags
<1>25. QED
  BY <1>1, <1>2, <1>3, <1>4, <1>5, <1>6, <1>7, <1>8, <1>9, <1>10, <1>11,
     <1>12, <1>13, <1>14, <1>15, <1>16, <1>17, <1>18, <1>19, <1>20, <1>21,
     <1>22, <1>23, <1>24 DEF Next, Client, Connection,
     Health, Operator

\* The type invariant: in every reachable state every variable has a value the
\* adapter and PrinterManager can give it, and the reconnect ladder never
\* climbs past maxReconnectAttempts.
THEOREM TypeCorrect == Spec => []TypeOK
<1>1. Init => TypeOK
  <2>1. Init => Values
    BY DEF Init, Values
  <2>2. Init => Flags
    BY DEF Init, Flags
  <2>3. QED
    BY <2>1, <2>2, TypeOKHalves
<1>2. TypeOK /\ [Next]_vars => TypeOK'
  <2> SUFFICES ASSUME TypeOK, [Next]_vars PROVE  TypeOK'
    OBVIOUS
  <2>1. Values /\ Flags
    BY TypeOKHalves
  <2>2. Values' /\ Flags'
    BY <2>1, ValuesStep, FlagsStep
  <2>3. QED
    BY <2>2 DEF Values, Flags, TypeOK, Resting, Writing, OperationKinds
<1>3. QED
  BY <1>1, <1>2, PTL DEF Spec

-----------------------------------------------------------------------------
(* One connection at a time *)

\* No action dials while the socket is live.
LEMMA ConnectionStep ==
    ASSUME TypeOK, OneConnection, [Next]_vars
    PROVE  OneConnection'
<1>1. ASSUME NEW c \in Clients, BeginJob(c)
      PROVE  OneConnection'
  BY <1>1 DEF BeginJob, Resting, AskStatus, Settle, OneConnection, Live,
        TypeOK, link, ladder, view, control
<1>2. ASSUME NEW c \in Clients, JobAnswered(c)
      PROVE  OneConnection'
  BY <1>2 DEF JobAnswered, Answers, Settle, SendTicket, Dialling,
        OneConnection, Live, TypeOK, link, ladder, control
<1>3. ASSUME NEW c \in Clients, OpenDrawer(c)
      PROVE  OneConnection'
  BY <1>3 DEF OpenDrawer, Resting, SendTicket, Dialling, OneConnection, Live,
        TypeOK, ladder, view, control
<1>4. ASSUME NEW c \in Clients, NextWrite(c)
      PROVE  OneConnection'
  BY <1>4 DEF NextWrite, MayWrite, Dialling, Writing, OneConnection, Live,
        TypeOK, link, ladder, view, control
<1>5. ASSUME NEW c \in Clients, WriteDone(c)
      PROVE  OneConnection'
  BY <1>5 DEF WriteDone, OneConnection, Live, TypeOK, link, ladder, view,
        control
<1>6. ASSUME NEW c \in Clients, WriteTimesOut(c)
      PROVE  OneConnection'
  BY <1>6 DEF WriteTimesOut, OneConnection, Live, TypeOK, ladder, view,
        control
<1>7. ASSUME Connected
      PROVE  OneConnection'
  BY <1>7 DEF Connected, OneConnection, Live, TypeOK, control
<1>8. ASSUME ConnectFails
      PROVE  OneConnection'
  BY <1>8 DEF ConnectFails, Schedule, Rejected, OneConnection, Live, TypeOK,
        ladder, control
<1>9. ASSUME TimerFires
      PROVE  OneConnection'
  BY <1>9 DEF TimerFires, Dialling, OneConnection, Live, TypeOK, view, control
<1>10. ASSUME ConnectAll
       PROVE  OneConnection'
  BY <1>10 DEF ConnectAll, Dialling, OneConnection, Live, TypeOK, ladder,
        view, control
<1>11. ASSUME ConnectionLost
       PROVE  OneConnection'
  BY <1>11 DEF ConnectionLost, SocketGone, HandleDisconnect, Schedule,
        DisconnectResolved, AdminAfter, Disconnecting, OneConnection, Live,
        TypeOK, ladder
<1>12. ASSUME DestroyedSocketReports
       PROVE  OneConnection'
  BY <1>12 DEF DestroyedSocketReports, SocketGone, HandleDisconnect, Schedule,
        DisconnectResolved, AdminAfter, Disconnecting, OneConnection, Live,
        TypeOK, ladder
<1>13. ASSUME PeerChanges
       PROVE  OneConnection'
  BY <1>13 DEF PeerChanges, OneConnection, Live, TypeOK, link, ladder, view,
        control
<1>14. ASSUME TimePasses
       PROVE  OneConnection'
  BY <1>14 DEF TimePasses, OneConnection, Live, TypeOK, link, ladder, view,
        control
<1>15. ASSUME NoticeLoss
       PROVE  OneConnection'
  BY <1>15 DEF NoticeLoss, HandleDisconnect, Schedule, OneConnection, Live,
        TypeOK, ladder, control
<1>16. ASSUME ReleaseIdle
       PROVE  OneConnection'
  BY <1>16 DEF ReleaseIdle, Releasable, OneConnection, Live, TypeOK, ladder,
        control
<1>17. ASSUME Probe
       PROVE  OneConnection'
  BY <1>17 DEF Probe, AskStatus, OneConnection, Live, TypeOK, ladder, view,
        control
<1>18. ASSUME ProbeAnswered
       PROVE  OneConnection'
  BY <1>18 DEF ProbeAnswered, Answers, Settle, OneConnection, Live, TypeOK,
        link, ladder, control
<1>19. ASSUME Check
       PROVE  OneConnection'
  BY <1>19 DEF Check, AskStatus, Settle, ConnectUnlessWell, Dialling,
        OneConnection, Live, TypeOK, ladder, view, control
<1>20. ASSUME CheckAnswered
       PROVE  OneConnection'
  BY <1>20 DEF CheckAnswered, Answers, Settle, ConnectUnlessWell, Dialling,
        OneConnection, Live, TypeOK, ladder, control
<1>21. ASSUME NEW op \in OperationKinds, Disconnect(op)
       PROVE  OneConnection'
  BY <1>21 DEF Disconnect, OperationKinds, OneConnection, Live, TypeOK, view
<1>22. ASSUME ReaperFires
       PROVE  OneConnection'
  BY <1>22 DEF ReaperFires, Disconnecting, DisconnectResolved, AdminAfter,
        OperationKinds, OneConnection, Live, TypeOK, ladder, view
<1>23. ASSUME Reconnect
       PROVE  OneConnection'
  BY <1>23 DEF Reconnect, Dialling, OneConnection, Live, TypeOK, ladder, view
<1>24. CASE UNCHANGED vars
  BY <1>24 DEF vars, link, ladder, view, control, OneConnection, Live, TypeOK
<1>25. QED
  BY <1>1, <1>2, <1>3, <1>4, <1>5, <1>6, <1>7, <1>8, <1>9, <1>10, <1>11,
     <1>12, <1>13, <1>14, <1>15, <1>16, <1>17, <1>18, <1>19, <1>20, <1>21,
     <1>22, <1>23, <1>24 DEF Next, Client, Connection,
     Health, Operator

\* The printer takes one TCP connection: connect() is never under way while the
\* adapter still has a live one, whichever of its callers made it.
THEOREM OneConnectionSafe == Spec => []OneConnection
<1>1. Init => OneConnection
  BY DEF Init, OneConnection, Live
<1>2. TypeOK /\ OneConnection /\ [Next]_vars => OneConnection'
  BY ConnectionStep
<1>3. QED
  BY <1>1, <1>2, TypeCorrect, PTL DEF Spec

-----------------------------------------------------------------------------
(* The reconnect ladder *)

\* No action leaves the reconnecting flag without a timer.
LEMMA LadderStep ==
    ASSUME TypeOK, LadderAlive, [Next]_vars
    PROVE  LadderAlive'
<1>1. ASSUME NEW c \in Clients, BeginJob(c)
      PROVE  LadderAlive'
  BY <1>1 DEF BeginJob, Resting, AskStatus, Settle, Live, LadderAlive, TypeOK,
        link, ladder, view, control
<1>2. ASSUME NEW c \in Clients, JobAnswered(c)
      PROVE  LadderAlive'
  BY <1>2 DEF JobAnswered, Answers, Settle, SendTicket, Dialling, Live,
        LadderAlive, TypeOK, link, ladder, control
<1>3. ASSUME NEW c \in Clients, OpenDrawer(c)
      PROVE  LadderAlive'
  BY <1>3 DEF OpenDrawer, Resting, SendTicket, Dialling, Live, LadderAlive,
        TypeOK, ladder, view, control
<1>4. ASSUME NEW c \in Clients, NextWrite(c)
      PROVE  LadderAlive'
  BY <1>4 DEF NextWrite, MayWrite, Dialling, Live, Writing, LadderAlive,
        TypeOK, link, ladder, view, control
<1>5. ASSUME NEW c \in Clients, WriteDone(c)
      PROVE  LadderAlive'
  BY <1>5 DEF WriteDone, Live, LadderAlive, TypeOK, link, ladder, view,
        control
<1>6. ASSUME NEW c \in Clients, WriteTimesOut(c)
      PROVE  LadderAlive'
  BY <1>6 DEF WriteTimesOut, Live, LadderAlive, TypeOK, ladder, view, control
<1>7. ASSUME Connected
      PROVE  LadderAlive'
  BY <1>7 DEF Connected, LadderAlive, TypeOK, control
<1>8. ASSUME ConnectFails
      PROVE  LadderAlive'
  BY <1>8 DEF ConnectFails, Schedule, Rejected, LadderAlive, TypeOK, ladder,
        control
<1>9. ASSUME TimerFires
      PROVE  LadderAlive'
  BY <1>9 DEF TimerFires, Dialling, Live, LadderAlive, TypeOK, view, control
<1>10. ASSUME ConnectAll
       PROVE  LadderAlive'
  BY <1>10 DEF ConnectAll, Dialling, Live, LadderAlive, TypeOK, ladder, view,
        control
<1>11. ASSUME ConnectionLost
       PROVE  LadderAlive'
  BY <1>11 DEF ConnectionLost, Live, SocketGone, HandleDisconnect, Schedule,
        DisconnectResolved, AdminAfter, Disconnecting, LadderAlive, TypeOK,
        ladder
<1>12. ASSUME DestroyedSocketReports
       PROVE  LadderAlive'
  BY <1>12 DEF DestroyedSocketReports, SocketGone, HandleDisconnect, Schedule,
        DisconnectResolved, AdminAfter, Disconnecting, LadderAlive, TypeOK,
        ladder
<1>13. ASSUME PeerChanges
       PROVE  LadderAlive'
  BY <1>13 DEF PeerChanges, LadderAlive, TypeOK, link, ladder, view, control
<1>14. ASSUME TimePasses
       PROVE  LadderAlive'
  BY <1>14 DEF TimePasses, LadderAlive, TypeOK, link, ladder, view, control
<1>15. ASSUME NoticeLoss
       PROVE  LadderAlive'
  BY <1>15 DEF NoticeLoss, Live, HandleDisconnect, Schedule, LadderAlive,
        TypeOK, ladder, control
<1>16. ASSUME ReleaseIdle
       PROVE  LadderAlive'
  BY <1>16 DEF ReleaseIdle, Releasable, Live, LadderAlive, TypeOK, ladder,
        control
<1>17. ASSUME Probe
       PROVE  LadderAlive'
  BY <1>17 DEF Probe, AskStatus, Live, LadderAlive, TypeOK, ladder, view,
        control
<1>18. ASSUME ProbeAnswered
       PROVE  LadderAlive'
  BY <1>18 DEF ProbeAnswered, Answers, Settle, LadderAlive, TypeOK, link,
        ladder, control
<1>19. ASSUME Check
       PROVE  LadderAlive'
  BY <1>19 DEF Check, AskStatus, Live, Settle, ConnectUnlessWell, Dialling,
        LadderAlive, TypeOK, ladder, view, control
<1>20. ASSUME CheckAnswered
       PROVE  LadderAlive'
  BY <1>20 DEF CheckAnswered, Answers, Settle, ConnectUnlessWell, Dialling,
        Live, LadderAlive, TypeOK, ladder, control
<1>21. ASSUME NEW op \in OperationKinds, Disconnect(op)
       PROVE  LadderAlive'
  BY <1>21 DEF Disconnect, OperationKinds, LadderAlive, TypeOK, view
<1>22. ASSUME ReaperFires
       PROVE  LadderAlive'
  BY <1>22 DEF ReaperFires, Live, Disconnecting, DisconnectResolved,
        AdminAfter, OperationKinds, LadderAlive, TypeOK, ladder, view
<1>23. ASSUME Reconnect
       PROVE  LadderAlive'
  BY <1>23 DEF Reconnect, Dialling, Live, LadderAlive, TypeOK, ladder, view
<1>24. CASE UNCHANGED vars
  BY <1>24 DEF vars, link, ladder, view, control, LadderAlive, TypeOK
<1>25. QED
  BY <1>1, <1>2, <1>3, <1>4, <1>5, <1>6, <1>7, <1>8, <1>9, <1>10, <1>11,
     <1>12, <1>13, <1>14, <1>15, <1>16, <1>17, <1>18, <1>19, <1>20, <1>21,
     <1>22, <1>23, <1>24 DEF Next, Client, Connection,
     Health, Operator

\* The reconnecting flag, which keeps every other path from starting the ladder,
\* is never set with nothing under way that will clear it.
THEOREM LadderSafe == Spec => []LadderAlive
<1>1. Init => LadderAlive
  BY DEF Init, LadderAlive
<1>2. TypeOK /\ LadderAlive /\ [Next]_vars => LadderAlive'
  BY LadderStep
<1>3. QED
  BY <1>1, <1>2, TypeCorrect, PTL DEF Spec

-----------------------------------------------------------------------------
(* The write queue *)

\* No action starts a second write, or waits for a connection nobody makes.
LEMMA WriterStep ==
    ASSUME TypeOK, OneWriter, [Next]_vars
    PROVE  OneWriter'
<1>1. ASSUME NEW c \in Clients, BeginJob(c)
      PROVE  OneWriter'
  BY <1>1 DEF BeginJob, Resting, AskStatus, Settle, Live, OneWriter, Writing,
        TypeOK, link, ladder, view, control
<1>2. ASSUME NEW c \in Clients, JobAnswered(c)
      PROVE  OneWriter'
  BY <1>2 DEF JobAnswered, Answers, Settle, SendTicket, Dialling, Live,
        OneWriter, Writing, TypeOK, link, ladder, control
<1>3. ASSUME NEW c \in Clients, OpenDrawer(c)
      PROVE  OneWriter'
  BY <1>3 DEF OpenDrawer, Resting, SendTicket, Dialling, Live, OneWriter,
        Writing, TypeOK, ladder, view, control
<1>4. ASSUME NEW c \in Clients, NextWrite(c)
      PROVE  OneWriter'
  <2>1. pc' \in [Clients -> {"idle", "printed", "failed", "opening",
                             "sending", "status", "connect", "queued"}]
    BY <1>4 DEF NextWrite, TypeOK, Resting, Writing
  <2>2. \A d \in Clients : pc[d] \notin Writing
    BY <1>4 DEF NextWrite, MayWrite
  <2>3. \A d \in Clients : d # c => pc'[d] = pc[d]
    BY <1>4 DEF NextWrite, TypeOK
  <2>4. \A d, e \in Clients : {pc'[d], pc'[e]} \subseteq Writing => d = e
    BY <2>2, <2>3 DEF Writing
  <2>5. pc'[c] = "opening" => connecting'
    BY <1>4 DEF NextWrite, Dialling, TypeOK, Live
  <2>6. pc'[c] # "connect"
    BY <1>4 DEF NextWrite, TypeOK
  <2>7. connecting => connecting'
    BY <1>4 DEF NextWrite, Dialling, link
  <2>8. QED
    BY <2>3, <2>4, <2>5, <2>6, <2>7 DEF OneWriter, Writing
<1>5. ASSUME NEW c \in Clients, WriteDone(c)
      PROVE  OneWriter'
  BY <1>5 DEF WriteDone, Live, OneWriter, Writing, TypeOK, link, ladder, view,
        control
<1>6. ASSUME NEW c \in Clients, WriteTimesOut(c)
      PROVE  OneWriter'
  BY <1>6 DEF WriteTimesOut, Live, OneWriter, Writing, TypeOK, ladder, view,
        control
<1>7. ASSUME Connected
      PROVE  OneWriter'
  BY <1>7 DEF Connected, OneWriter, Writing, TypeOK, control
<1>8. ASSUME ConnectFails
      PROVE  OneWriter'
  BY <1>8 DEF ConnectFails, Schedule, Rejected, OneWriter, Writing, TypeOK,
        ladder, control
<1>9. ASSUME TimerFires
      PROVE  OneWriter'
  BY <1>9 DEF TimerFires, Dialling, Live, OneWriter, Writing, TypeOK, view,
        control
<1>10. ASSUME ConnectAll
       PROVE  OneWriter'
  BY <1>10 DEF ConnectAll, Dialling, Live, OneWriter, Writing, TypeOK, ladder,
        view, control
<1>11. ASSUME ConnectionLost
       PROVE  OneWriter'
  BY <1>11 DEF ConnectionLost, Live, SocketGone, HandleDisconnect, Schedule,
        DisconnectResolved, AdminAfter, Disconnecting, OneWriter, Writing,
        TypeOK, ladder
<1>12. ASSUME DestroyedSocketReports
       PROVE  OneWriter'
  BY <1>12 DEF DestroyedSocketReports, SocketGone, HandleDisconnect, Schedule,
        DisconnectResolved, AdminAfter, Disconnecting, OneWriter, Writing,
        TypeOK, ladder
<1>13. ASSUME PeerChanges
       PROVE  OneWriter'
  BY <1>13 DEF PeerChanges, OneWriter, Writing, TypeOK, link, ladder, view,
        control
<1>14. ASSUME TimePasses
       PROVE  OneWriter'
  BY <1>14 DEF TimePasses, OneWriter, Writing, TypeOK, link, ladder, view,
        control
<1>15. ASSUME NoticeLoss
       PROVE  OneWriter'
  BY <1>15 DEF NoticeLoss, Live, HandleDisconnect, Schedule, OneWriter,
        Writing, TypeOK, ladder, control
<1>16. ASSUME ReleaseIdle
       PROVE  OneWriter'
  BY <1>16 DEF ReleaseIdle, Releasable, Live, OneWriter, Writing, TypeOK,
        ladder, control
<1>17. ASSUME Probe
       PROVE  OneWriter'
  BY <1>17 DEF Probe, AskStatus, Live, OneWriter, Writing, TypeOK, ladder,
        view, control
<1>18. ASSUME ProbeAnswered
       PROVE  OneWriter'
  BY <1>18 DEF ProbeAnswered, Answers, Settle, OneWriter, Writing, TypeOK,
        link, ladder, control
<1>19. ASSUME Check
       PROVE  OneWriter'
  BY <1>19 DEF Check, AskStatus, Live, Settle, ConnectUnlessWell, Dialling,
        OneWriter, Writing, TypeOK, ladder, view, control
<1>20. ASSUME CheckAnswered
       PROVE  OneWriter'
  BY <1>20 DEF CheckAnswered, Answers, Settle, ConnectUnlessWell, Dialling,
        Live, OneWriter, Writing, TypeOK, ladder, control
<1>21. ASSUME NEW op \in OperationKinds, Disconnect(op)
       PROVE  OneWriter'
  BY <1>21 DEF Disconnect, OperationKinds, OneWriter, Writing, TypeOK, view
<1>22. ASSUME ReaperFires
       PROVE  OneWriter'
  BY <1>22 DEF ReaperFires, Live, Disconnecting, DisconnectResolved,
        AdminAfter, OperationKinds, OneWriter, Writing, TypeOK, ladder, view
<1>23. ASSUME Reconnect
       PROVE  OneWriter'
  BY <1>23 DEF Reconnect, Dialling, Live, OneWriter, Writing, TypeOK, ladder,
        view
<1>24. CASE UNCHANGED vars
  BY <1>24 DEF vars, link, ladder, view, control, OneWriter, Writing, TypeOK
<1>25. QED
  BY <1>1, <1>2, <1>3, <1>4, <1>5, <1>6, <1>7, <1>8, <1>9, <1>10, <1>11,
     <1>12, <1>13, <1>14, <1>15, <1>16, <1>17, <1>18, <1>19, <1>20, <1>21,
     <1>22, <1>23, <1>24 DEF Next, Client, Connection,
     Health, Operator

\* The write queue has one ticket in hand at a time, and whoever waits for a
\* connection waits for one that is being made.
THEOREM OneWriterSafe == Spec => []OneWriter
<1>1. Init => OneWriter
  BY DEF Init, OneWriter, Writing
<1>2. TypeOK /\ OneWriter /\ [Next]_vars => OneWriter'
  BY WriterStep
<1>3. QED
  BY <1>1, <1>2, TypeCorrect, PTL DEF Spec

=============================================================================
