-------------------------- MODULE SupervisionProofs --------------------------
(***************************************************************************)
(* Supervision for every number of servers and of failures: the types, and *)
(* that one server serves at a time unless the lock's own weak points are  *)
(* hit.                                                                    *)
(***************************************************************************)
EXTENDS Supervision, TLAPS

\* A search that goes on has not counted its last miss.
CountsMisses == watch # "done" => misses < TakeoverMisses

Typed == TypeOK /\ CountsMisses

\* Who takes the lock is alone, and nobody serves then.
TakingAlone ==
    ~weakened => \A p \in Servers :
                    pc[p] = "taking" => \A q \in Servers \ {p} :
                                          pc[q] \notin Serving \cup {"taking"}

\* A failure is counted up to the bound.
LEMMA FailCounts ==
    ASSUME NEW kind, TypeOK, Fail(kind)
    PROVE  faults' \in 0 .. MaxFaults /\ weakened' \in BOOLEAN
<1>1. faults' \in 0 .. MaxFaults
  BY SupervisionAssumption DEF TypeOK, Fail
<1>2. weakened' \in BOOLEAN
  BY DEF TypeOK, Fail
<1>3. QED
  BY <1>1, <1>2

\* The counters and the service start in range.
LEMMA InitTyped == Init => Typed
<1> SUFFICES ASSUME Init PROVE Typed
  OBVIOUS
<1>1. misses \in 0 .. 3 /\ CountsMisses
  BY DEF Init, CountsMisses, TakeoverMisses
<1>2. faults \in 0 .. MaxFaults
  BY SupervisionAssumption DEF Init
<1>3. answering \in BOOLEAN
  BY SupervisionAssumption DEF Init
<1>4. QED
  BY <1>1, <1>2, <1>3 DEF Init, Typed, TypeOK, Alive, Listening

\* A step of any process keeps the types.
LEMMA TypedStep ==
    ASSUME Typed, [Next]_vars
    PROVE  Typed'
<1>1. ASSUME NEW p \in Servers, Begin(p)
      PROVE  Typed'
  BY <1>1, SupervisionAssumption DEF Begin, supVars, lockVars, failVars,
      Typed, TypeOK, CountsMisses, TakeoverMisses, Alive, Listening, Serving,
      None
<1>2. ASSUME NEW p \in Servers, Look(p)
      PROVE  Typed'
  <2>1. faults' \in 0 .. MaxFaults /\ weakened' \in BOOLEAN
    BY <1>2, FailCounts DEF Look, failVars, Typed, TypeOK
  <2>2. QED
    BY <1>2, <2>1 DEF Look, Stale, supVars, lockVars, failVars, Typed, TypeOK,
       CountsMisses, TakeoverMisses, Alive, Listening, Serving, None
<1>3. ASSUME NEW p \in Servers, StandDown(p)
      PROVE  Typed'
  BY <1>3, SupervisionAssumption DEF StandDown, Stale, Exit, Release,
      ChildGone, lockVars, failVars, Typed, TypeOK, CountsMisses,
      TakeoverMisses, Alive, Listening, Serving, None
<1>4. ASSUME NEW p \in Servers, Take(p)
      PROVE  Typed'
  <2>1. faults' \in 0 .. MaxFaults /\ weakened' \in BOOLEAN
    BY <1>4, FailCounts DEF Take, failVars, Typed, TypeOK
  <2>2. QED
    BY <1>4, <2>1 DEF Take, supVars, lockVars, failVars, Typed, TypeOK,
       CountsMisses, TakeoverMisses, Alive, Listening, Serving, None
<1>5. ASSUME NEW p \in Servers, Beat(p)
      PROVE  Typed'
  BY <1>5, SupervisionAssumption DEF Beat, supVars, lockVars, failVars, Typed,
      TypeOK, CountsMisses, TakeoverMisses, Alive, Listening, Serving, None
<1>6. ASSUME NEW p \in Servers, Started(p)
      PROVE  Typed'
  BY <1>6, SupervisionAssumption DEF Started, supVars, lockVars, failVars,
      Typed, TypeOK, CountsMisses, TakeoverMisses, Alive, Listening, Serving,
      None
<1>7. ASSUME NEW p \in Servers, Fails(p)
      PROVE  Typed'
  <2>1. faults' \in 0 .. MaxFaults /\ weakened' \in BOOLEAN
    BY <1>7, FailCounts DEF Fails, failVars, Typed, TypeOK
  <2>2. QED
    BY <1>7, <2>1 DEF Fails, Exit, Release, ChildGone, lockVars, Typed,
       TypeOK, CountsMisses, TakeoverMisses, Alive, Listening, Serving, None
<1>8. ASSUME NEW p \in Servers, Recycle(p)
      PROVE  Typed'
  BY <1>8, SupervisionAssumption DEF Recycle, Shutdown, Release, Exit,
      ChildGone, supVars, lockVars, failVars, Typed, TypeOK, CountsMisses,
      TakeoverMisses, Alive, Listening, Serving, None
<1>9. ASSUME NEW p \in Servers, Hear(p)
      PROVE  Typed'
  BY <1>9, SupervisionAssumption DEF Hear, Shutdown, Release, Exit, ChildGone,
      supVars, lockVars, failVars, Typed, TypeOK, CountsMisses,
      TakeoverMisses, Alive, Listening, Serving, None
<1>10. ASSUME NEW p \in Servers, Drained(p)
       PROVE  Typed'
  BY <1>10, SupervisionAssumption DEF Drained, Exit, Release, ChildGone,
      lockVars, failVars, Typed, TypeOK, CountsMisses, TakeoverMisses, Alive,
      Listening, Serving, None
<1>11. ASSUME NEW p \in Servers, Kill(p)
       PROVE  Typed'
  <2>1. faults' \in 0 .. MaxFaults /\ weakened' \in BOOLEAN
    BY <1>11, FailCounts DEF Kill, failVars, Typed, TypeOK
  <2>2. QED
    BY <1>11, <2>1 DEF Kill, Die, ChildGone, Typed, TypeOK, CountsMisses,
       TakeoverMisses, Alive, Listening, Serving, None
<1>12. ASSUME NEW p \in Servers, Hang(p)
       PROVE  Typed'
  BY <1>12, SupervisionAssumption DEF Hang, Fail, Weakening, supVars,
      lockVars, Typed, TypeOK, CountsMisses, TakeoverMisses, Alive, Listening,
      Serving, None
<1>13. ASSUME NEW p \in Servers, StartByHand(p)
       PROVE  Typed'
  BY <1>13, SupervisionAssumption DEF StartByHand, Free, Fail, Weakening,
      supVars, lockVars, Typed, TypeOK, CountsMisses, TakeoverMisses, Alive,
      Listening, Serving, None
<1>14. CASE Launch
  <2>1. misses' \in 0 .. 3 /\ CountsMisses'
    BY <1>14 DEF Launch, Typed, TypeOK, CountsMisses, TakeoverMisses
  <2>2. QED
    BY <1>14, <2>1 DEF Launch, lockVars, serverVars, failVars, Typed, TypeOK,
       Alive, Listening, Serving, None
<1>15. CASE Decide
  BY <1>15, SupervisionAssumption DEF Decide, StartChild, Free, lockVars,
      failVars, Typed, TypeOK, CountsMisses, TakeoverMisses, Alive, Listening,
      Serving, None
<1>16. CASE DeferAgain
  <2>1. misses' \in 0 .. 3 /\ CountsMisses'
    BY <1>16 DEF DeferAgain, Typed, TypeOK, CountsMisses, TakeoverMisses
  <2>2. QED
    BY <1>16, <2>1 DEF DeferAgain, StartChild, Free, lockVars, failVars,
       Typed, TypeOK, Alive, Listening, Serving, None
<1>17. CASE Respawn
  BY <1>17, SupervisionAssumption DEF Respawn, StartChild, Free, lockVars,
      failVars, Typed, TypeOK, CountsMisses, TakeoverMisses, Alive, Listening,
      Serving, None
<1>18. CASE Quit
  BY <1>18, SupervisionAssumption DEF Quit, lockVars, failVars, Typed, TypeOK,
      CountsMisses, TakeoverMisses, Alive, Listening, Serving, None
<1>19. CASE StopChild
  BY <1>19, SupervisionAssumption DEF StopChild, Die, ChildGone, failVars,
      Typed, TypeOK, CountsMisses, TakeoverMisses, Alive, Listening, Serving,
      None
<1>20. CASE SupervisorExits
  BY <1>20, SupervisionAssumption DEF SupervisorExits, lockVars, serverVars,
      failVars, Typed, TypeOK, CountsMisses, TakeoverMisses, Alive, Listening,
      Serving, None
<1>21. CASE KillSupervisor
  <2>1. faults' \in 0 .. MaxFaults /\ weakened' \in BOOLEAN
    BY <1>21, FailCounts DEF KillSupervisor, failVars, Typed, TypeOK
  <2>2. QED
    BY <1>21, <2>1 DEF KillSupervisor, lockVars, Typed, TypeOK, CountsMisses,
       TakeoverMisses, Alive, Listening, Serving, None
<1>22. CASE GrowsCold
  <2>1. faults' \in 0 .. MaxFaults /\ weakened' \in BOOLEAN
    BY <1>22, FailCounts DEF GrowsCold, failVars, Typed, TypeOK
  <2>2. QED
    BY <1>22, <2>1 DEF GrowsCold, supVars, serverVars, failVars, Typed,
       TypeOK, CountsMisses, TakeoverMisses, Alive, Listening, Serving, None
<1>23. CASE InstalledChanges
  BY <1>23, SupervisionAssumption DEF InstalledChanges, lockVars, serverVars,
      failVars, Typed, TypeOK, CountsMisses, TakeoverMisses, Alive, Listening,
      Serving, None
<1>24. CASE UNCHANGED vars
  BY <1>24 DEF vars, supVars, lockVars, serverVars, failVars, Typed, TypeOK,
      CountsMisses, TakeoverMisses, Alive, Listening, Serving, None
<1>25. QED
  BY <1>1, <1>2, <1>3, <1>4, <1>5, <1>6, <1>7, <1>8, <1>9, <1>10, <1>11,
     <1>12, <1>13, <1>14, <1>15, <1>16, <1>17, <1>18, <1>19, <1>20, <1>21,
     <1>22, <1>23, <1>24 DEF Next,
     Server, Locking, Supervisor

\* Every variable keeps the values the code can give it, for any number of
\* servers, failures and copies started by hand.
THEOREM TypeCorrect == Spec => []TypeOK
<1>1. Init => Typed
  BY InitTyped
<1>2. Typed /\ [Next]_vars => Typed'
  BY TypedStep
<1>3. Typed => TypeOK
  BY DEF Typed
<1>4. QED
  BY <1>1, <1>2, <1>3, PTL DEF Spec

\* A step of any process keeps the lock with the server that serves.
LEMMA LockStep ==
    ASSUME Typed, ServerHoldsLock, TakingAlone, [Next]_vars
    PROVE  (ServerHoldsLock /\ TakingAlone)'
<1>1. ASSUME NEW p \in Servers, Begin(p)
      PROVE  (ServerHoldsLock /\ TakingAlone)'
  BY <1>1, SupervisionAssumption DEF Begin, supVars, lockVars, failVars,
      ServerHoldsLock, TakingAlone, TypeOK, Alive, Listening, Serving, None,
      Typed, Weakening
<1>2. ASSUME NEW p \in Servers, Look(p)
      PROVE  (ServerHoldsLock /\ TakingAlone)'
  BY <1>2, SupervisionAssumption DEF Look, Fail, Stale, supVars, lockVars,
      failVars, ServerHoldsLock, TakingAlone, TypeOK, Alive, Listening,
      Serving, None, Typed, Weakening
<1>3. ASSUME NEW p \in Servers, StandDown(p)
      PROVE  (ServerHoldsLock /\ TakingAlone)'
  BY <1>3, SupervisionAssumption DEF StandDown, Stale, Exit, Release,
      ChildGone, lockVars, failVars, ServerHoldsLock, TakingAlone, TypeOK,
      Alive, Listening, Serving, None, Typed, Weakening
<1>4. ASSUME NEW p \in Servers, Take(p)
      PROVE  (ServerHoldsLock /\ TakingAlone)'
  BY <1>4, SupervisionAssumption DEF Take, Fail, supVars, lockVars, failVars,
      ServerHoldsLock, TakingAlone, TypeOK, Alive, Listening, Serving, None,
      Typed, Weakening
<1>5. ASSUME NEW p \in Servers, Beat(p)
      PROVE  (ServerHoldsLock /\ TakingAlone)'
  BY <1>5, SupervisionAssumption DEF Beat, supVars, lockVars, failVars,
      ServerHoldsLock, TakingAlone, TypeOK, Alive, Listening, Serving, None,
      Typed, Weakening
<1>6. ASSUME NEW p \in Servers, Started(p)
      PROVE  (ServerHoldsLock /\ TakingAlone)'
  BY <1>6, SupervisionAssumption DEF Started, supVars, lockVars, failVars,
      ServerHoldsLock, TakingAlone, TypeOK, Alive, Listening, Serving, None,
      Typed, Weakening
<1>7. ASSUME NEW p \in Servers, Fails(p)
      PROVE  (ServerHoldsLock /\ TakingAlone)'
  BY <1>7, SupervisionAssumption DEF Fails, Fail, Exit, Release, ChildGone,
      lockVars, ServerHoldsLock, TakingAlone, TypeOK, Alive, Listening,
      Serving, None, Typed, Weakening
<1>8. ASSUME NEW p \in Servers, Recycle(p)
      PROVE  (ServerHoldsLock /\ TakingAlone)'
  BY <1>8, SupervisionAssumption DEF Recycle, Shutdown, Release, Exit,
      ChildGone, supVars, lockVars, failVars, ServerHoldsLock, TakingAlone,
      TypeOK, Alive, Listening, Serving, None, Typed, Weakening
<1>9. ASSUME NEW p \in Servers, Hear(p)
      PROVE  (ServerHoldsLock /\ TakingAlone)'
  BY <1>9, SupervisionAssumption DEF Hear, Shutdown, Release, Exit, ChildGone,
      supVars, lockVars, failVars, ServerHoldsLock, TakingAlone, TypeOK,
      Alive, Listening, Serving, None, Typed, Weakening
<1>10. ASSUME NEW p \in Servers, Drained(p)
       PROVE  (ServerHoldsLock /\ TakingAlone)'
  BY <1>10, SupervisionAssumption DEF Drained, Exit, Release, ChildGone,
      lockVars, failVars, ServerHoldsLock, TakingAlone, TypeOK, Alive,
      Listening, Serving, None, Typed, Weakening
<1>11. ASSUME NEW p \in Servers, Kill(p)
       PROVE  (ServerHoldsLock /\ TakingAlone)'
  BY <1>11, SupervisionAssumption DEF Kill, Fail, Die, ChildGone,
      ServerHoldsLock, TakingAlone, TypeOK, Alive, Listening, Serving, None,
      Typed, Weakening
<1>12. ASSUME NEW p \in Servers, Hang(p)
       PROVE  (ServerHoldsLock /\ TakingAlone)'
  BY <1>12, SupervisionAssumption DEF Hang, Fail, supVars, lockVars,
      ServerHoldsLock, TakingAlone, TypeOK, Alive, Listening, Serving, None,
      Typed, Weakening
<1>13. ASSUME NEW p \in Servers, StartByHand(p)
       PROVE  (ServerHoldsLock /\ TakingAlone)'
  BY <1>13, SupervisionAssumption DEF StartByHand, Free, Fail, supVars,
      lockVars, ServerHoldsLock, TakingAlone, TypeOK, Alive, Listening,
      Serving, None, Typed, Weakening
<1>14. CASE Launch
  BY <1>14, SupervisionAssumption DEF Launch, lockVars, serverVars, failVars,
      ServerHoldsLock, TakingAlone, TypeOK, Alive, Listening, Serving, None,
      Typed, Weakening
<1>15. CASE Decide
  BY <1>15, SupervisionAssumption DEF Decide, StartChild, Free, lockVars,
      failVars, ServerHoldsLock, TakingAlone, TypeOK, Alive, Listening,
      Serving, None, Typed, Weakening
<1>16. CASE DeferAgain
  BY <1>16, SupervisionAssumption DEF DeferAgain, StartChild, TakeoverMisses,
      Free, lockVars, failVars, ServerHoldsLock, TakingAlone, TypeOK, Alive,
      Listening, Serving, None, Typed, Weakening
<1>17. CASE Respawn
  BY <1>17, SupervisionAssumption DEF Respawn, StartChild, Free, lockVars,
      failVars, ServerHoldsLock, TakingAlone, TypeOK, Alive, Listening,
      Serving, None, Typed, Weakening
<1>18. CASE Quit
  BY <1>18, SupervisionAssumption DEF Quit, lockVars, failVars,
      ServerHoldsLock, TakingAlone, TypeOK, Alive, Listening, Serving, None,
      Typed, Weakening
<1>19. CASE StopChild
  BY <1>19, SupervisionAssumption DEF StopChild, Die, ChildGone, failVars,
      ServerHoldsLock, TakingAlone, TypeOK, Alive, Listening, Serving, None,
      Typed, Weakening
<1>20. CASE SupervisorExits
  BY <1>20, SupervisionAssumption DEF SupervisorExits, lockVars, serverVars,
      failVars, ServerHoldsLock, TakingAlone, TypeOK, Alive, Listening,
      Serving, None, Typed, Weakening
<1>21. CASE KillSupervisor
  BY <1>21, SupervisionAssumption DEF KillSupervisor, Fail, lockVars,
      ServerHoldsLock, TakingAlone, TypeOK, Alive, Listening, Serving, None,
      Typed, Weakening
<1>22. CASE GrowsCold
  BY <1>22, SupervisionAssumption DEF GrowsCold, Fail, supVars, serverVars,
      failVars, ServerHoldsLock, TakingAlone, TypeOK, Alive, Listening,
      Serving, None, Typed, Weakening
<1>23. CASE InstalledChanges
  BY <1>23, SupervisionAssumption DEF InstalledChanges, lockVars, serverVars,
      failVars, ServerHoldsLock, TakingAlone, TypeOK, Alive, Listening,
      Serving, None, Typed, Weakening
<1>24. CASE UNCHANGED vars
  BY <1>24 DEF vars, supVars, lockVars, serverVars, failVars, ServerHoldsLock,
      TakingAlone, TypeOK, Alive, Listening, Serving, None, Typed, Weakening
<1>25. QED
  BY <1>1, <1>2, <1>3, <1>4, <1>5, <1>6, <1>7, <1>8, <1>9, <1>10, <1>11,
     <1>12, <1>13, <1>14, <1>15, <1>16, <1>17, <1>18, <1>19, <1>20, <1>21,
     <1>22, <1>23, <1>24 DEF Next,
     Server, Locking, Supervisor

\* A server that serves holds a lock that nobody finds stale, however many
\* servers there are, die, hang or are started by hand.
THEOREM LockHeld == Spec => []ServerHoldsLock
<1> DEFINE Inv == Typed /\ ServerHoldsLock /\ TakingAlone
<1>1. Init => Inv
  BY InitTyped DEF Init, Serving, ServerHoldsLock, TakingAlone
<1>2. Inv /\ [Next]_vars => Inv'
  BY TypedStep, LockStep
<1>3. Inv => ServerHoldsLock
  OBVIOUS
<1>4. QED
  BY <1>1, <1>2, <1>3, PTL DEF Spec

\* At most one server of the directory serves: two that did would hold the
\* same lock.
THEOREM OneServingSafe == Spec => []OneServing
<1>1. ServerHoldsLock => OneServing
  BY DEF ServerHoldsLock, OneServing
<1>2. QED
  BY <1>1, LockHeld, PTL

=============================================================================
