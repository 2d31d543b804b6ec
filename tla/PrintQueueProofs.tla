-------------------------- MODULE PrintQueueProofs --------------------------
(***************************************************************************)
(* Proofs about PrintQueue, for every value of its constants and, unless a *)
(* theorem says otherwise, under every failure it models:                  *)
(*   - the types;                                                          *)
(*   - a job reported as completed has printed;                            *)
(*   - a row 'processing' has its worker, if restarts come after the       *)
(*     minute of stale recovery.                                           *)
(***************************************************************************)
EXTENDS PrintQueue, FiniteSetTheorems, TLAPS

-----------------------------------------------------------------------------
(* Tables *)

\* An UPDATE that turns rows into rows keeps a table a table.  One lemma for
\* each statement of the store.
LEMMA RowUpdates ==
    ASSUME NEW r \in Row
    PROVE  /\ NewPending(r) \in Row
           /\ NewProcessing(r) \in Row
           /\ NewCancelled(r) \in Row
           /\ NewCompleted(r) \in Row
           /\ NewRetried(r) \in Row
           /\ Recovered(r) \in Row
           /\ Rendered(r) \in Row
           /\ \A b \in BOOLEAN : Failed(r, b) \in Row
           /\ NewRefused(r) \in Row
<1> USE DEF Row, Unfinished, Waiting, Terminal
<1>1. NewPending(r) \in Row  BY DEF NewPending
<1>2. NewProcessing(r) \in Row  BY DEF NewProcessing
<1>3. NewCancelled(r) \in Row  BY DEF NewCancelled
<1>4. NewCompleted(r) \in Row  BY DEF NewCompleted
<1>5. NewRetried(r) \in Row  BY DEF NewRetried
<1>6. Recovered(r) \in Row  BY DEF Recovered
<1>7. Rendered(r) \in Row  BY DEF Rendered
<1>8. ASSUME NEW b \in BOOLEAN  PROVE Failed(r, b) \in Row
  <2>1. r.attempts + 1 \in Nat  OBVIOUS
  <2>2. [r EXCEPT !.status = "retry_scheduled",
                  !.attempts = r.attempts + 1] \in Row
    BY <2>1
  <2>3. [r EXCEPT !.status = "dead_letter", !.attempts = r.attempts + 1,
                  !.blob = FALSE] \in Row
    BY <2>1
  <2> QED  BY <2>2, <2>3 DEF Failed
<1> QED  BY <1>1, <1>2, <1>3, <1>4, <1>5, <1>6, <1>7, <1>8 DEF NewRefused

LEMMA UpdatedTable ==
    ASSUME NEW t \in Table, NEW S
    PROVE  /\ Updated(t, S, NewPending) \in Table
           /\ Updated(t, S, NewProcessing) \in Table
           /\ Updated(t, S, NewCancelled) \in Table
           /\ Updated(t, S, NewCompleted) \in Table
           /\ Updated(t, S, NewRetried) \in Table
           /\ Updated(t, S, Recovered) \in Table
           /\ Updated(t, S, Rendered) \in Table
           /\ Updated(t, S, NewRefused) \in Table
BY RowUpdates DEF Updated, Table, Present

\* What each statement makes of a row's status: all that most of the
\* invariants look at.
LEMMA StatusAfter ==
    ASSUME NEW t \in Table, NEW S, NEW i \in Ids
    PROVE  /\ i \in Present(t) <=> t[i].status # "absent"
           /\ t[i].status \in Unfinished \cup Terminal \cup {"absent"}
           /\ Delete(t, S)[i].status =
                 IF i \in S THEN "absent" ELSE t[i].status
           /\ i \in S \cap Present(t) =>
                 /\ Updated(t, S, NewPending)[i].status = "pending"
                 /\ Updated(t, S, NewProcessing)[i].status = "processing"
                 /\ Updated(t, S, NewCancelled)[i].status = "cancelled"
                 /\ Updated(t, S, NewCompleted)[i].status = "completed"
                 /\ Updated(t, S, NewRetried)[i].status = "pending"
                 /\ Updated(t, S, Recovered)[i].status = "retry_scheduled"
                 /\ Updated(t, S, NewRefused)[i].status = "dead_letter"
           /\ i \notin S \cap Present(t) =>
                 /\ Updated(t, S, NewPending)[i] = t[i]
                 /\ Updated(t, S, NewProcessing)[i] = t[i]
                 /\ Updated(t, S, NewCancelled)[i] = t[i]
                 /\ Updated(t, S, NewCompleted)[i] = t[i]
                 /\ Updated(t, S, NewRetried)[i] = t[i]
                 /\ Updated(t, S, Recovered)[i] = t[i]
                 /\ Updated(t, S, NewRefused)[i] = t[i]
           /\ Updated(t, S, Rendered)[i].status = t[i].status
<1>1. \A r \in Row : /\ NewPending(r).status = "pending"
                     /\ NewProcessing(r).status = "processing"
                     /\ NewCancelled(r).status = "cancelled"
                     /\ NewCompleted(r).status = "completed"
                     /\ NewRetried(r).status = "pending"
                     /\ Recovered(r).status = "retry_scheduled"
                     /\ Rendered(r).status = r.status
  BY DEF Row, NewPending, NewProcessing, NewCancelled, NewCompleted,
         NewRetried, Recovered, Rendered
<1>2. \A r \in Row : NewRefused(r).status = "dead_letter"
  BY DEF Row, NewRefused, Failed
<1>3. \A r \in Row : r.status \in Unfinished \cup Terminal
  BY DEF Row
<1>4. t[i] = NoRow \/ t[i] \in Row
  BY DEF Table
<1>5. NoRow.status = "absent" /\ "absent" \notin Unfinished \cup Terminal
  BY DEF NoRow, Unfinished, Waiting, Terminal
<1>6. i \in Present(t) => t[i] \in Row
  BY <1>4 DEF Present
<1> QED
  BY <1>1, <1>2, <1>3, <1>4, <1>5, <1>6 DEF Updated, Delete, Present

\* queue.fail on a row that is there.
LEMMA StatusFailed ==
    ASSUME NEW r \in Row, NEW retryable \in BOOLEAN
    PROVE  Failed(r, retryable).status \in {"retry_scheduled", "dead_letter"}
BY DEF Row, Failed

LEMMA DeletedTable ==
    ASSUME NEW t \in Table, NEW S
    PROVE  Delete(t, S) \in Table
BY DEF Delete, Table

LEMMA EmptyIsTable == EmptyTable \in Table
BY DEF EmptyTable, Table

LEMMA CameOutType ==
    ASSUME NEW S, printed \in [Ids -> 0 .. 2]
    PROVE  CameOut(S) \in [Ids -> 0 .. 2]
BY DEF CameOut

-----------------------------------------------------------------------------
(* Type correctness *)

\* The tables and the flag after each of the store's two basic moves.
LEMMA WriteType ==
    ASSUME TypeOK, NEW t \in Table, Write(t)
    PROVE  db' \in Table /\ disk' \in Table /\ dirty' \in BOOLEAN
BY DEF TypeOK, Write

LEMMA FailType ==
    ASSUME TypeOK, NEW i \in Ids, NEW t \in Table, NEW retryable \in BOOLEAN,
           Fail(i, t, retryable)
    PROVE  /\ db' \in Table /\ disk' \in Table /\ dirty' \in BOOLEAN
           /\ processingJobs' \in SUBSET Ids
           /\ active' \in SUBSET Ids
           /\ worker' \in [Ids -> {"idle", "status", "print", "drawer"}]
           /\ aborted' \in SUBSET Ids
           /\ cached' \in SUBSET Ids
           /\ due' \in SUBSET Ids
<1> DEFINE u == [j \in Ids |-> IF j = i /\ j \in Present(t)
                               THEN Failed(t[j], retryable) ELSE t[j]]
<1>1. u \in Table
  BY RowUpdates DEF Table, Present
<1>2. Write(u)
  BY DEF Fail
<1>3. db' \in Table /\ disk' \in Table /\ dirty' \in BOOLEAN
  BY <1>1, <1>2, WriteType
<1> QED
  BY <1>3 DEF Fail, Leave, TypeOK

LEMMA CompleteType ==
    ASSUME TypeOK, NEW i \in Ids, Complete(i)
    PROVE  /\ db' \in Table /\ disk' \in Table /\ dirty' \in BOOLEAN
           /\ processingJobs' \in SUBSET Ids
           /\ active' \in SUBSET Ids
           /\ worker' \in [Ids -> {"idle", "status", "print", "drawer"}]
           /\ aborted' \in SUBSET Ids
           /\ cached' \in SUBSET Ids
           /\ due' \in SUBSET Ids
<1>1. Updated(db, {i}, NewCompleted) \in Table
  BY UpdatedTable DEF TypeOK
<1>2. db' \in Table /\ disk' \in Table /\ dirty' \in BOOLEAN
  BY <1>1, WriteType DEF Complete
<1> QED
  BY <1>2 DEF Complete, Leave, TypeOK

LEMMA ExitType ==
    ASSUME TypeOK, Exit
    PROVE  /\ job' = job /\ phase' = "down" /\ paused' = FALSE
           /\ processingJobs' \in SUBSET Ids
           /\ active' \in SUBSET Ids
           /\ worker' \in [Ids -> {"idle", "status", "print", "drawer"}]
           /\ aborted' \in SUBSET Ids
           /\ cached' \in SUBSET Ids
           /\ due' \in SUBSET Ids
           /\ printed' \in [Ids -> 0 .. 2]
           /\ registered' = registered
           /\ withdrawn' = withdrawn /\ forgotten' = forgotten
BY CameOutType DEF Exit, TypeOK, ghostVars

LEMMA StrikeType ==
    ASSUME TypeOK, NEW kind, Strike(kind)
    PROVE  faults' \in 0 .. MaxFaults
BY QueueAssumption DEF TypeOK, Strike

LEMMA RenderingTable ==
    ASSUME TypeOK, NEW i \in Ids
    PROVE  WithRendering(i) \in Table
BY UpdatedTable DEF TypeOK, WithRendering

\* The requests of clients and operators.
LEMMA RequestType == TypeOK /\ Request => TypeOK'
<1> SUFFICES ASSUME TypeOK, Request  PROVE TypeOK'
  OBVIOUS
<1> USE DEF workerVars, storeVars, ghostVars
<1>1. ASSUME NEW k \in Keys, NEW p \in Printers, NEW prio \in Priorities,
             CreateJob(k, p, prio)
      PROVE  TypeOK'
  <2>1. PICK i \in Ids \ Created :
            /\ job' = [job EXCEPT ![i] = [key |-> k, printer |-> p,
                                          priority |-> prio]]
            /\ Write([db EXCEPT ![i] = NewRow])
    BY <1>1 DEF CreateJob
  <2>2. NewRow \in Row
    BY DEF NewRow, Row, Unfinished, Waiting
  <2>3. [db EXCEPT ![i] = NewRow] \in Table
    BY <2>2 DEF TypeOK, Table
  <2>4. db' \in Table /\ disk' \in Table /\ dirty' \in BOOLEAN
    BY <2>1, <2>3, WriteType
  <2>5. job' \in [Ids -> JobRecord \cup {NoJob}]
    BY <2>1 DEF TypeOK, JobRecord
  <2> QED
    BY <1>1, <2>4, <2>5 DEF TypeOK, CreateJob
<1>2. ASSUME NEW i \in Ids, Cancel(i)  PROVE TypeOK'
  <2>1. db' \in Table /\ disk' \in Table /\ dirty' \in BOOLEAN
    BY <1>2, UpdatedTable, WriteType DEF Cancel, TypeOK
  <2> QED
    BY <1>2, <2>1 DEF Cancel, TypeOK
<1>3. ASSUME NEW i \in Ids, RetryJob(i)  PROVE TypeOK'
  <2>1. db' \in Table /\ disk' \in Table /\ dirty' \in BOOLEAN
    BY <1>3, UpdatedTable, WriteType DEF RetryJob, TypeOK
  <2> QED
    BY <1>3, <2>1 DEF RetryJob, TypeOK
<1>4. ASSUME ClearFailedJobs  PROVE TypeOK'
  <2>1. db' \in Table /\ disk' \in Table /\ dirty' \in BOOLEAN
    BY <1>4, DeletedTable, WriteType DEF ClearFailedJobs, TypeOK
  <2> QED
    BY <1>4, <2>1 DEF ClearFailedJobs, TypeOK, InStatus
<1>5. ASSUME Pause \/ Resume  PROVE TypeOK'
  BY <1>5 DEF Pause, Resume, TypeOK
<1>6. ASSUME NEW p \in Printers, ChangePrinter(p)  PROVE TypeOK'
  BY <1>6 DEF ChangePrinter, TypeOK
<1> QED
  BY <1>1, <1>2, <1>3, <1>4, <1>5, <1>6
  DEF Request, Enqueue, CreateTestJob

LEMMA TimerType == TypeOK /\ Timer => TypeOK'
<1> SUFFICES ASSUME TypeOK, Timer  PROVE TypeOK'
  OBVIOUS
<1> USE DEF workerVars, storeVars, ghostVars
<1>1. ASSUME Poll  PROVE TypeOK'
  <2> DEFINE started == {i \in Batch : job[i].printer \in registered}
             refused == Batch \ started
  <2>1. started \subseteq Ids /\ Batch \subseteq Ids
    BY DEF Batch, Heads, Candidates
  <2>2. Updated(Updated(db, started, NewProcessing), refused, NewRefused)
           \in Table
    BY UpdatedTable DEF TypeOK
  <2>3. db' \in Table /\ disk' \in Table /\ dirty' \in BOOLEAN
    BY <1>1, <2>2, WriteType DEF Poll
  <2>4. /\ processingJobs' = processingJobs \cup started
        /\ active' = active \cup started
        /\ worker' = [i \in Ids |-> IF i \in started THEN "status"
                                    ELSE worker[i]]
        /\ cached' = cached \cup {i \in started : db[i].blob}
        /\ due' = due \ Batch
        /\ UNCHANGED <<job, phase, paused, aborted, registered, printed,
                       ghostVars, faults>>
    BY <1>1 DEF Poll
  <2> QED
    BY <2>1, <2>3, <2>4 DEF TypeOK
<1>2. ASSUME Save  PROVE TypeOK'
  BY <1>2 DEF Save, TypeOK
<1>3. ASSUME Cleanup  PROVE TypeOK'
  <2>1. PICK S \in Sweeps(db) :
            /\ Write(Delete(db, S))
            /\ forgotten' = forgotten \cup (S \cap InStatus(db, Terminal))
    BY <1>3 DEF Cleanup
  <2>2. db' \in Table /\ disk' \in Table /\ dirty' \in BOOLEAN
    BY <2>1, DeletedTable, WriteType DEF TypeOK
  <2> QED
    BY <1>3, <2>1, <2>2 DEF Cleanup, TypeOK, InStatus
<1>4. ASSUME NEW i \in Ids, RetryDue(i) \/ JobTimeout(i)  PROVE TypeOK'
  BY <1>4 DEF RetryDue, JobTimeout, TypeOK
<1> QED
  BY <1>1, <1>2, <1>3, <1>4 DEF Timer

LEMMA WorkerType ==
    ASSUME NEW i \in Ids  PROVE TypeOK /\ Worker(i) => TypeOK'
<1> SUFFICES ASSUME TypeOK, Worker(i)  PROVE TypeOK'
  OBVIOUS
<1> USE DEF workerVars, storeVars, ghostVars
<1>0. db \in Table
  BY DEF TypeOK
<1>1. ASSUME StatusFails(i)  PROVE TypeOK'
  BY <1>0, <1>1, FailType DEF StatusFails, TypeOK
<1>2. ASSUME RenderFails(i)  PROVE TypeOK'
  BY <1>0, <1>2, FailType DEF RenderFails, TypeOK
<1>3. ASSUME AbortedBeforePrint(i)  PROVE TypeOK'
  BY <1>3, FailType, RenderingTable DEF AbortedBeforePrint, TypeOK
<1>4. ASSUME PrinterGone(i)  PROVE TypeOK'
  BY <1>4, FailType, RenderingTable DEF PrinterGone, TypeOK
<1>5. ASSUME SendToPrinter(i)  PROVE TypeOK'
  BY <1>5, RenderingTable DEF SendToPrinter, TypeOK
<1>6. ASSUME PrintFails(i)  PROVE TypeOK'
  <2>1. printed' \in [Ids -> 0 .. 2] /\ faults' \in 0 .. MaxFaults
    BY <1>6, CameOutType, QueueAssumption DEF PrintFails, TypeOK
  <2> QED
    BY <1>0, <1>6, <2>1, FailType DEF PrintFails, TypeOK
<1>7. ASSUME PrintSucceeds(i)  PROVE TypeOK'
  <2>1. printed' \in [Ids -> 0 .. 2]
    BY <1>7, CameOutType DEF PrintSucceeds, TypeOK
  <2>2. CASE Complete(i)
    BY <1>7, <2>1, <2>2, CompleteType DEF PrintSucceeds, TypeOK
  <2>3. CASE /\ worker' = [worker EXCEPT ![i] = "drawer"]
             /\ UNCHANGED <<storeVars, processingJobs, active, aborted,
                            cached>>
    BY <1>7, <2>1, <2>3 DEF PrintSucceeds, TypeOK
  <2> QED
    BY <1>7, <2>2, <2>3 DEF PrintSucceeds
<1>8. ASSUME DrawerDone(i)  PROVE TypeOK'
  BY <1>8, CompleteType DEF DrawerDone, TypeOK
<1> QED
  BY <1>1, <1>2, <1>3, <1>4, <1>5, <1>6, <1>7, <1>8 DEF Worker

LEMMA ProcessType == TypeOK /\ Process => TypeOK'
<1> SUFFICES ASSUME TypeOK, Process  PROVE TypeOK'
  OBVIOUS
<1> USE DEF workerVars, storeVars, ghostVars
<1>1. ASSUME NEW file \in Table, StartWith(file),
             disk' \in Table, faults' \in 0 .. MaxFaults
      PROVE  TypeOK'
  <2>1. PICK stale \in Stale(file) :
            \E S \in IF "cleanup" \in Ops
                     THEN Sweeps(Updated(file, stale, Recovered)) ELSE {{}} :
               /\ db' = Delete(Updated(file, stale, Recovered), S)
               /\ forgotten' = forgotten \cup
                     (S \cap InStatus(Updated(file, stale, Recovered),
                                      Terminal))
    BY <1>1 DEF StartWith
  <2>2. db' \in Table
    BY <2>1, UpdatedTable, DeletedTable
  <2> QED
    BY <1>1, <2>1, <2>2 DEF StartWith, TypeOK, InStatus
<1>2. ASSUME Start  PROVE TypeOK'
  BY <1>1, <1>2, EmptyIsTable, StrikeType DEF Start, TypeOK
<1>3. ASSUME BeginStop  PROVE TypeOK'
  BY <1>3 DEF BeginStop, TypeOK
<1>4. ASSUME StopProcessor  PROVE TypeOK'
  BY <1>4 DEF StopProcessor, TypeOK
<1>5. ASSUME StopProcessorLate  PROVE TypeOK'
  <2>1. db' \in Table /\ disk' \in Table /\ dirty' \in BOOLEAN
    BY <1>5, UpdatedTable, WriteType DEF StopProcessorLate, Release, TypeOK
  <2>2. faults' \in 0 .. MaxFaults
    BY <1>5, StrikeType DEF StopProcessorLate
  <2> QED
    BY <1>5, <2>1, <2>2 DEF StopProcessorLate, Release, TypeOK
<1>6. ASSUME Exit, dirty' = FALSE, db' = EmptyTable, disk' \in Table,
             faults' \in 0 .. MaxFaults
      PROVE  TypeOK'
  BY <1>6, ExitType, EmptyIsTable DEF TypeOK
<1>7. ASSUME Close  PROVE TypeOK'
  BY <1>6, <1>7, StrikeType DEF Close, TypeOK
<1>8. ASSUME ForcedExit  PROVE TypeOK'
  BY <1>6, <1>8, StrikeType DEF ForcedExit, TypeOK
<1>9. ASSUME FatalException  PROVE TypeOK'
  BY <1>9, StrikeType DEF FatalException, TypeOK
<1>10. ASSUME Die  PROVE TypeOK'
  BY <1>6, <1>10 DEF Die, TypeOK
<1>11. ASSUME Kill  PROVE TypeOK'
  BY <1>6, <1>11, StrikeType DEF Kill, TypeOK
<1>12. ASSUME RebuildDatabase  PROVE TypeOK'
  BY <1>12, StrikeType DEF RebuildDatabase, TypeOK
<1> QED
  BY <1>2, <1>3, <1>4, <1>5, <1>7, <1>8, <1>9, <1>10, <1>11, <1>12
  DEF Process

LEMMA InitType == Init => TypeOK
<1> SUFFICES ASSUME Init  PROVE TypeOK
  OBVIOUS
<1>1. job \in [Ids -> JobRecord \cup {NoJob}]
  BY DEF Init
<1>2. db \in Table /\ disk \in Table
  BY EmptyIsTable DEF Init
<1>3. /\ worker \in [Ids -> {"idle", "status", "print", "drawer"}]
      /\ printed \in [Ids -> 0 .. 2]
  BY DEF Init
<1>4. faults \in 0 .. MaxFaults
  BY QueueAssumption DEF Init
<1> QED
  BY <1>1, <1>2, <1>3, <1>4 DEF Init, TypeOK

LEMMA StepType == TypeOK /\ [Next]_vars => TypeOK'
<1> SUFFICES ASSUME TypeOK, [Next]_vars  PROVE TypeOK'
  OBVIOUS
<1>1. CASE UNCHANGED vars
  BY <1>1 DEF vars, storeVars, workerVars, ghostVars, TypeOK
<1> QED
  BY <1>1, RequestType, TimerType, WorkerType, ProcessType DEF Next

\* Every variable keeps its type, whatever the constants and the failures.
THEOREM TypeCorrect == Spec => []TypeOK
BY InitType, StepType, PTL DEF Spec

-----------------------------------------------------------------------------
(* A completed job has printed *)

Completed(t) == InStatus(t, {"completed"})

\* The jobs that the table or the file calls completed, or a worker is about
\* to: their tickets came out.
Shown == Completed(db) \cup Completed(disk)
                       \cup {i \in Ids : worker[i] = "drawer"}

PrintedInv == \A i \in Shown : printed[i] > 0

\* A step that takes no ticket back, and adds to Shown only what is printed.
ShowsPrinted ==
    /\ \A i \in Ids : printed'[i] >= printed[i]
    /\ Shown' \subseteq Shown \cup {i \in Ids : printed'[i] > 0}

\* Of the statements of the store, only complete() makes a job completed.
LEMMA NoneCompleted ==
    ASSUME NEW t \in Table, NEW S
    PROVE  /\ Completed(Delete(t, S)) \subseteq Completed(t)
           /\ Completed(Updated(t, S, NewPending)) \subseteq Completed(t)
           /\ Completed(Updated(t, S, NewProcessing)) \subseteq Completed(t)
           /\ Completed(Updated(t, S, NewCancelled)) \subseteq Completed(t)
           /\ Completed(Updated(t, S, NewRetried)) \subseteq Completed(t)
           /\ Completed(Updated(t, S, Recovered)) \subseteq Completed(t)
           /\ Completed(Updated(t, S, Rendered)) \subseteq Completed(t)
           /\ Completed(Updated(t, S, NewRefused)) \subseteq Completed(t)
BY StatusAfter DEF Completed, InStatus

LEMMA TicketsStay ==
    ASSUME TypeOK, NEW S
    PROVE  \A i \in Ids : /\ printed[i] \in Nat
                          /\ CameOut(S)[i] >= printed[i]
                          /\ i \in S => CameOut(S)[i] > 0
BY DEF TypeOK, CameOut

LEMMA PaperRequest ==
    ASSUME TypeOK, Request
    PROVE  ShowsPrinted
<1> USE DEF workerVars, storeVars, ghostVars
<1>0. db \in Table /\ \A i \in Ids : printed[i] \in Nat
  BY DEF TypeOK
<1>1. printed' = printed /\ worker' = worker /\ disk' = disk
  BY DEF Request, Enqueue, CreateTestJob, CreateJob, Cancel, RetryJob,
         ClearFailedJobs, Pause, Resume, ChangePrinter, Write
<1>2. Completed(db') \subseteq Completed(db)
  <2>1. ASSUME NEW k \in Keys, NEW p \in Printers, NEW prio \in Priorities,
               CreateJob(k, p, prio)
        PROVE  Completed(db') \subseteq Completed(db)
    BY <1>0, <2>1
    DEF CreateJob, Write, Completed, InStatus, NewRow, Table
  <2>2. ASSUME NEW i \in Ids, Cancel(i) \/ RetryJob(i)
        PROVE  Completed(db') \subseteq Completed(db)
    BY <1>0, <2>2, NoneCompleted DEF Cancel, RetryJob, Write
  <2>3. ASSUME ClearFailedJobs  PROVE Completed(db') \subseteq Completed(db)
    BY <1>0, <2>3, NoneCompleted DEF ClearFailedJobs, Write
  <2> QED
    BY <2>1, <2>2, <2>3
    DEF Request, Enqueue, CreateTestJob, Pause, Resume, ChangePrinter
<1> QED
  BY <1>0, <1>1, <1>2 DEF ShowsPrinted, Shown, Completed, InStatus

LEMMA PaperTimer ==
    ASSUME TypeOK, Timer
    PROVE  ShowsPrinted
<1> USE DEF workerVars, storeVars, ghostVars
<1>0. db \in Table /\ \A i \in Ids : printed[i] \in Nat
  BY DEF TypeOK
<1>1. /\ printed' = printed
      /\ \A i \in Ids : worker'[i] = "drawer" => worker[i] = "drawer"
  BY DEF Timer, Poll, Save, Cleanup, RetryDue, JobTimeout
<1>2. Completed(disk') \subseteq Completed(db) \cup Completed(disk)
  BY DEF Timer, Poll, Save, Cleanup, RetryDue, JobTimeout, Write, Completed,
         InStatus
<1>3. Completed(db') \subseteq Completed(db)
  <2>1. CASE Poll
    <3>1. PICK A, B : db' = Updated(Updated(db, A, NewProcessing),
                                    B, NewRefused)
      BY <2>1 DEF Poll, Write
    <3> QED
      BY <1>0, <3>1, NoneCompleted, UpdatedTable
  <2>2. CASE Cleanup
    BY <1>0, <2>2, NoneCompleted DEF Cleanup, Write
  <2>3. CASE Save \/ \E i \in Ids : RetryDue(i) \/ JobTimeout(i)
    BY <2>3 DEF Save, RetryDue, JobTimeout
  <2> QED
    BY <2>1, <2>2, <2>3 DEF Timer
<1> QED
  BY <1>0, <1>1, <1>2, <1>3 DEF ShowsPrinted, Shown, Completed, InStatus

LEMMA PaperWorker ==
    ASSUME TypeOK, PrintedInv, NEW i \in Ids, Worker(i)
    PROVE  ShowsPrinted
<1> USE DEF workerVars, storeVars
<1>0. /\ db \in Table
      /\ \A j \in Ids : printed[j] \in Nat
      /\ printed' = printed => \A j \in Ids : printed'[j] >= printed[j]
  BY DEF TypeOK
<1>1. ASSUME NEW t \in Table, Completed(t) \subseteq Completed(db),
             NEW retryable \in BOOLEAN, Fail(i, t, retryable),
             \A j \in Ids : printed'[j] >= printed[j]
      PROVE  ShowsPrinted
  <2>1. Failed(t[i], retryable).status # "completed" \/ i \notin Present(t)
    BY <1>1 DEF Table, Present, Row, Failed
  <2>2. Completed(db') \subseteq Completed(t)
    BY <1>1, <2>1 DEF Fail, Write, Completed, InStatus, Present
  <2> QED
    BY <1>1, <2>2
    DEF Fail, Leave, Write, ShowsPrinted, Shown, TypeOK, Completed, InStatus
<1>2. /\ WithRendering(i) \in Table
      /\ Completed(WithRendering(i)) \subseteq Completed(db)
  BY <1>0, NoneCompleted, RenderingTable DEF WithRendering
<1>3. ASSUME Complete(i), printed'[i] > 0,
             \A j \in Ids : printed'[j] >= printed[j]
      PROVE  ShowsPrinted
  <2>1. Completed(db') \subseteq Completed(db) \cup {i}
    BY <1>3 DEF Complete, Write, Updated, Completed, InStatus
  <2> QED
    BY <1>3, <2>1
    DEF Complete, Leave, Write, ShowsPrinted, Shown, TypeOK, Completed,
        InStatus
<1>4. CASE StatusFails(i) \/ RenderFails(i)
  <2>1. printed' = printed /\ \E retryable \in BOOLEAN : Fail(i, db, retryable)
    BY <1>4 DEF StatusFails, RenderFails
  <2> QED
    BY <1>0, <1>1, <2>1
<1>5. CASE AbortedBeforePrint(i) \/ PrinterGone(i)
  <2>1. /\ printed' = printed
        /\ \E retryable \in BOOLEAN : Fail(i, WithRendering(i), retryable)
    BY <1>5 DEF AbortedBeforePrint, PrinterGone
  <2> QED
    BY <1>0, <1>1, <1>2, <2>1
<1>6. CASE SendToPrinter(i)
  BY <1>0, <1>2, <1>6
  DEF SendToPrinter, ShowsPrinted, Shown, TypeOK, Completed, InStatus
<1>7. CASE PrintFails(i)
  <2>1. /\ \E retryable \in BOOLEAN : Fail(i, db, retryable)
        /\ printed' = printed \/ printed' = CameOut({i})
    BY <1>7 DEF PrintFails
  <2>2. \A j \in Ids : printed'[j] >= printed[j]
    BY <1>0, <2>1, TicketsStay
  <2> QED
    BY <1>0, <1>1, <2>1, <2>2
<1>8. CASE PrintSucceeds(i)
  <2>1. printed'[i] > 0 /\ \A j \in Ids : printed'[j] >= printed[j]
    BY <1>8, TicketsStay DEF PrintSucceeds
  <2>2. CASE Complete(i)
    BY <1>3, <2>1, <2>2
  <2>3. CASE /\ worker' = [worker EXCEPT ![i] = "drawer"]
             /\ UNCHANGED storeVars
    BY <2>1, <2>3 DEF ShowsPrinted, Shown, TypeOK, Completed, InStatus
  <2> QED
    BY <1>8, <2>2, <2>3 DEF PrintSucceeds
<1>9. CASE DrawerDone(i)
  <2>1. printed' = printed /\ printed[i] > 0
    BY <1>9 DEF DrawerDone, PrintedInv, Shown
  <2> QED
    BY <1>0, <1>3, <1>9, <2>1 DEF DrawerDone
<1> QED
  BY <1>4, <1>5, <1>6, <1>7, <1>8, <1>9 DEF Worker

LEMMA PaperProcess ==
    ASSUME TypeOK, Process
    PROVE  ShowsPrinted
<1> USE DEF workerVars, storeVars
<1>0. /\ db \in Table /\ disk \in Table /\ EmptyTable \in Table
      /\ Completed(EmptyTable) = {}
      /\ \A j \in Ids : printed[j] \in Nat
  BY EmptyIsTable DEF TypeOK, EmptyTable, NoRow, Completed, InStatus
<1>1. CASE Start
  <2>1. PICK file \in {disk, EmptyTable} :
            StartWith(file) /\ disk' \in {disk, EmptyTable}
    BY <1>1 DEF Start
  <2>2. PICK stale, S : db' = Delete(Updated(file, stale, Recovered), S)
    BY <2>1 DEF StartWith
  <2>3. Completed(db') \subseteq Completed(file)
    BY <1>0, <2>2, NoneCompleted, UpdatedTable
  <2> QED
    BY <1>0, <2>1, <2>3
    DEF StartWith, ShowsPrinted, Shown, Completed, InStatus
<1>2. CASE BeginStop \/ StopProcessor \/ FatalException \/ RebuildDatabase
  BY <1>0, <1>2
  DEF BeginStop, StopProcessor, FatalException, RebuildDatabase, ShowsPrinted,
      Shown, Completed, InStatus
<1>3. CASE StopProcessorLate
  BY <1>0, <1>3, NoneCompleted
  DEF StopProcessorLate, Release, Write, ShowsPrinted, Shown, Completed,
      InStatus
<1>4. CASE Close \/ ForcedExit \/ Die \/ Kill
  <2>1. Exit /\ db' = EmptyTable /\ disk' \in {db, disk}
    BY <1>4 DEF Close, ForcedExit, Die, Kill
  <2>2. \A j \in Ids : printed'[j] >= printed[j]
    BY <2>1, TicketsStay DEF Exit
  <2> QED
    BY <1>0, <2>1, <2>2 DEF Exit, ShowsPrinted, Shown, Completed, InStatus
<1> QED
  BY <1>1, <1>2, <1>3, <1>4 DEF Process

LEMMA PrintedStep == TypeOK /\ PrintedInv /\ [Next]_vars => PrintedInv'
<1> SUFFICES ASSUME TypeOK, PrintedInv, [Next]_vars  PROVE PrintedInv'
  OBVIOUS
<1>0. \A i \in Ids : printed[i] \in Nat
  BY DEF TypeOK
<1>1. printed' \in [Ids -> 0 .. 2]
  BY StepType DEF TypeOK
<1>2. CASE UNCHANGED vars
  BY <1>2
  DEF vars, storeVars, workerVars, PrintedInv, Shown, Completed, InStatus
<1>3. CASE Next
  <2>1. ShowsPrinted
    BY <1>3, PaperRequest, PaperTimer, PaperWorker, PaperProcess DEF Next
  <2>2. Shown \subseteq Ids /\ Shown' \subseteq Ids
    BY DEF Shown, Completed, InStatus
  <2>3. \A i \in Ids : printed[i] > 0 => printed'[i] > 0
    BY <1>0, <1>1, <2>1 DEF ShowsPrinted
  <2> QED
    BY <2>1, <2>2, <2>3 DEF ShowsPrinted, PrintedInv
<1> QED
  BY <1>2, <1>3

LEMMA PrintedInit == Init => PrintedInv
BY DEF Init, PrintedInv, Shown, Completed, InStatus, EmptyTable, NoRow

\* "completed" on the dashboard means that the ticket came out, whatever
\* failed, and whichever copy of the table is looked at.
THEOREM CompletedIsPrinted == Spec => []CompletedMeansPrinted
<1>1. PrintedInv => CompletedMeansPrinted
  BY DEF PrintedInv, Shown, Completed, CompletedMeansPrinted, Durable
<1>2. Spec => []TypeOK
  BY TypeCorrect
<1> QED
  BY <1>1, <1>2, PrintedInit, PrintedStep, PTL DEF Spec

-----------------------------------------------------------------------------
(* No row is orphaned *)

InProcess(t) == InStatus(t, {"processing"})

\* NoOrphan is inductive as it stands, provided that a start recovers every
\* row in flight and that sql.js does not fall back to an older table.
LEMMA OrphanRequest ==
    ASSUME TypeOK, NoOrphan, Request
    PROVE  NoOrphan'
<1> USE DEF workerVars, storeVars
<1>0. db \in Table
  BY DEF TypeOK
<1>1. worker' = worker /\ phase' = phase
  BY DEF Request, Enqueue, CreateTestJob, CreateJob, Cancel, RetryJob,
         ClearFailedJobs, Pause, Resume, ChangePrinter
<1>2. InProcess(db') \subseteq InProcess(db)
  <2>1. ASSUME NEW k \in Keys, NEW p \in Printers, NEW prio \in Priorities,
               CreateJob(k, p, prio)
        PROVE  InProcess(db') \subseteq InProcess(db)
    BY <1>0, <2>1
    DEF CreateJob, Write, InProcess, InStatus, NewRow, Table
  <2>2. ASSUME NEW i \in Ids, Cancel(i) \/ RetryJob(i)
        PROVE  InProcess(db') \subseteq InProcess(db)
    BY <1>0, <2>2, StatusAfter DEF Cancel, RetryJob, Write, InProcess, InStatus
  <2>3. ASSUME ClearFailedJobs  PROVE InProcess(db') \subseteq InProcess(db)
    BY <1>0, <2>3, StatusAfter DEF ClearFailedJobs, Write, InProcess, InStatus
  <2> QED
    BY <2>1, <2>2, <2>3
    DEF Request, Enqueue, CreateTestJob, Pause, Resume, ChangePrinter
<1> QED
  BY <1>1, <1>2 DEF NoOrphan, InProcess, Running, InFlight

LEMMA OrphanTimer ==
    ASSUME TypeOK, NoOrphan, Timer
    PROVE  NoOrphan'
<1> USE DEF workerVars, storeVars
<1>0. db \in Table
  BY DEF TypeOK
<1>1. CASE Poll
  <2> DEFINE started == {i \in Batch : job[i].printer \in registered}
             refused == Batch \ started
             marked  == Updated(db, started, NewProcessing)
  <2>1. /\ db' = Updated(marked, refused, NewRefused)
        /\ worker' = [i \in Ids |-> IF i \in started THEN "status"
                                    ELSE worker[i]]
        /\ phase' = phase
    BY <1>1 DEF Poll, Write
  <2> HIDE DEF started
  <2>2. marked \in Table
    BY <1>0, UpdatedTable
  <2>3. InProcess(db') \subseteq InProcess(db) \cup started
    BY <1>0, <2>1, <2>2, StatusAfter DEF InProcess, InStatus
  <2> QED
    BY <2>1, <2>3 DEF NoOrphan, InProcess, InStatus, Running, InFlight
<1>2. CASE Cleanup
  <2>1. InProcess(db') \subseteq InProcess(db)
    BY <1>0, <1>2, StatusAfter DEF Cleanup, Write, InProcess, InStatus
  <2> QED
    BY <1>2, <2>1 DEF Cleanup, NoOrphan, InProcess, Running, InFlight
<1>3. CASE Save \/ \E i \in Ids : RetryDue(i) \/ JobTimeout(i)
  BY <1>3 DEF Save, RetryDue, JobTimeout, NoOrphan, Running, InFlight,
              InStatus
<1> QED
  BY <1>1, <1>2, <1>3 DEF Timer

LEMMA OrphanWorker ==
    ASSUME TypeOK, NoOrphan, NEW i \in Ids, Worker(i)
    PROVE  NoOrphan'
<1> USE DEF workerVars, storeVars
<1>0. db \in Table
  BY DEF TypeOK
<1>1. ASSUME NEW t \in Table, InProcess(t) \subseteq InProcess(db),
             NEW retryable \in BOOLEAN, Fail(i, t, retryable), phase' = phase
      PROVE  NoOrphan'
  <2>1. i \in Present(t) => Failed(t[i], retryable).status # "processing"
    BY <1>1, StatusFailed DEF Table, Present
  <2>2. i \notin Present(t) => t[i].status # "processing"
    BY <1>1, StatusAfter
  <2>3. InProcess(db') \subseteq InProcess(t) \ {i}
    BY <1>1, <2>1, <2>2 DEF Fail, Write, InProcess, InStatus
  <2> QED
    BY <1>1, <2>3
    DEF Fail, Leave, TypeOK, NoOrphan, InProcess, InStatus, Running, InFlight
<1>2. /\ WithRendering(i) \in Table
      /\ InProcess(WithRendering(i)) \subseteq InProcess(db)
  BY <1>0, StatusAfter, RenderingTable DEF WithRendering, InProcess, InStatus
<1>3. ASSUME Complete(i), phase' = phase  PROVE NoOrphan'
  <2>1. InProcess(db') \subseteq InProcess(db) \ {i}
    BY <1>0, <1>3, StatusAfter DEF Complete, Write, InProcess, InStatus
  <2> QED
    BY <1>3, <2>1
    DEF Complete, Leave, TypeOK, NoOrphan, InProcess, InStatus, Running,
        InFlight
<1>4. CASE StatusFails(i) \/ RenderFails(i) \/ PrintFails(i)
  <2>1. phase' = phase /\ \E retryable \in BOOLEAN : Fail(i, db, retryable)
    BY <1>4 DEF StatusFails, RenderFails, PrintFails
  <2> QED
    BY <1>0, <1>1, <2>1
<1>5. CASE AbortedBeforePrint(i) \/ PrinterGone(i)
  <2>1. /\ phase' = phase
        /\ \E retryable \in BOOLEAN : Fail(i, WithRendering(i), retryable)
    BY <1>5 DEF AbortedBeforePrint, PrinterGone
  <2> QED
    BY <1>1, <1>2, <2>1
<1>6. CASE SendToPrinter(i)
  BY <1>2, <1>6
  DEF SendToPrinter, TypeOK, NoOrphan, InProcess, InStatus, Running, InFlight
<1>7. CASE PrintSucceeds(i)
  <2>1. CASE Complete(i)
    BY <1>3, <1>7, <2>1 DEF PrintSucceeds
  <2>2. CASE /\ worker' = [worker EXCEPT ![i] = "drawer"]
             /\ UNCHANGED storeVars
    BY <1>7, <2>2
    DEF PrintSucceeds, TypeOK, NoOrphan, InStatus, Running, InFlight
  <2> QED
    BY <1>7, <2>1, <2>2 DEF PrintSucceeds
<1>8. CASE DrawerDone(i)
  BY <1>3, <1>8 DEF DrawerDone
<1> QED
  BY <1>4, <1>5, <1>6, <1>7, <1>8 DEF Worker

LEMMA OrphanProcess ==
    ASSUME TypeOK, NoOrphan, Process, SlowRestarts, "wasm" \notin Faults
    PROVE  NoOrphan'
<1> USE DEF workerVars, storeVars
<1>1. CASE Start
  <2>1. PICK file \in {disk, EmptyTable} : StartWith(file)
    BY <1>1 DEF Start
  <2>2. PICK S : db' = Delete(Updated(file, InProcess(file), Recovered), S)
    BY <2>1 DEF StartWith, Stale, InProcess
  <2>3. /\ file \in Table
        /\ Updated(file, InProcess(file), Recovered) \in Table
    BY <2>1, EmptyIsTable, UpdatedTable DEF TypeOK
  <2>4. ASSUME NEW i \in Ids  PROVE db'[i].status # "processing"
    <3>1. Updated(file, InProcess(file), Recovered)[i].status # "processing"
      BY <2>3, StatusAfter DEF InProcess, InStatus
    <3> QED
      BY <2>2, <2>3, <3>1, StatusAfter
  <2> QED
    BY <2>4 DEF NoOrphan, InStatus
<1>2. CASE BeginStop \/ FatalException
  BY <1>2 DEF BeginStop, FatalException, NoOrphan, InStatus, Running, InFlight
<1>3. CASE StopProcessor \/ StopProcessorLate
  BY <1>3 DEF StopProcessor, StopProcessorLate, Release, NoOrphan, Running
<1>4. CASE Close \/ ForcedExit \/ Die \/ Kill
  BY <1>4 DEF Close, ForcedExit, Die, Kill, Exit, NoOrphan, Running
<1>5. CASE RebuildDatabase
  BY <1>5 DEF RebuildDatabase, Strike
<1> QED
  BY <1>1, <1>2, <1>3, <1>4, <1>5 DEF Process

LEMMA OrphanStep ==
    ASSUME SlowRestarts, "wasm" \notin Faults
    PROVE  TypeOK /\ NoOrphan /\ [Next]_vars => NoOrphan'
<1> SUFFICES ASSUME TypeOK, NoOrphan, [Next]_vars  PROVE NoOrphan'
  OBVIOUS
<1>1. CASE UNCHANGED vars
  BY <1>1
  DEF vars, storeVars, workerVars, NoOrphan, InStatus, Running, InFlight
<1> QED
  BY <1>1, OrphanRequest, OrphanTimer, OrphanWorker, OrphanProcess DEF Next

\* When each restart comes over a minute after the exit, a row that says
\* 'processing' has a worker, whatever the process died of.
THEOREM OrphansRecovered ==
    ASSUME SlowRestarts, "wasm" \notin Faults
    PROVE  Spec => []NoOrphan
<1>1. Init => NoOrphan
  BY DEF Init, NoOrphan, Running
<1>2. Spec => []TypeOK
  BY TypeCorrect
<1> QED
  BY <1>1, <1>2, OrphanStep, PTL DEF Spec

=============================================================================
