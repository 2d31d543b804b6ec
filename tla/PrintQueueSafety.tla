-------------------------- MODULE PrintQueueSafety --------------------------
(***************************************************************************)
(* Safety of PrintQueue, proved for every number of jobs, printers and     *)
(* workers, and under every failure unless a theorem says otherwise:       *)
(*   - a clean database is a saved one;                                    *)
(*   - one job per printer at a time, within the configured concurrency;   *)
(*   - rows keep what they need, keys stay unique, the backlog bounded;    *)
(*   - until the first failure the queue implements JobLedger;             *)
(*   - the loop of dequeue calls takes the batch that Poll takes.          *)
(***************************************************************************)
EXTENDS PrintQueueProofs, PrintQueueLedger, PrintQueueDispatch,
        WellFoundedInduction

-----------------------------------------------------------------------------
(* A clean database is a saved one *)

LEMMA CleanInit == Init => CleanMeansSaved
BY DEF Init, CleanMeansSaved, Alive

LEMMA CleanRequest ==
    CleanMeansSaved /\ Request => CleanMeansSaved'
BY DEF CleanMeansSaved, Alive, Request, Enqueue, CreateTestJob, CreateJob,
       Cancel, RetryJob, ClearFailedJobs, Pause, Resume, ChangePrinter,
       Write, storeVars

LEMMA CleanTimer ==
    CleanMeansSaved /\ Timer => CleanMeansSaved'
<1> SUFFICES ASSUME CleanMeansSaved, Timer  PROVE CleanMeansSaved'
  OBVIOUS
<1>1. CASE Poll
  BY <1>1 DEF Poll, Write, CleanMeansSaved
<1>2. CASE Save
  BY <1>2 DEF Save, CleanMeansSaved
<1>3. CASE Cleanup
  BY <1>3 DEF Cleanup, Write, CleanMeansSaved
<1>4. ASSUME NEW i \in Ids, RetryDue(i) \/ JobTimeout(i)
      PROVE  CleanMeansSaved'
  BY <1>4 DEF RetryDue, JobTimeout, storeVars, CleanMeansSaved, Alive
<1> QED
  BY <1>1, <1>2, <1>3, <1>4 DEF Timer

LEMMA CleanWorker ==
    ASSUME TypeOK, CleanMeansSaved, NEW i \in Ids, Worker(i)
    PROVE  CleanMeansSaved'
<1>1. CASE \E t, retryable : Fail(i, t, retryable)
  BY <1>1 DEF Fail, Write, CleanMeansSaved
<1>2. CASE Complete(i)
  BY <1>2 DEF Complete, Write, CleanMeansSaved
<1>3. CASE SendToPrinter(i)
  BY <1>3 DEF SendToPrinter, WithRendering, CleanMeansSaved, Alive, TypeOK
<1>4. CASE PrintSucceeds(i)
  BY <1>2, <1>4 DEF PrintSucceeds, storeVars, CleanMeansSaved, Alive
<1> QED
  BY <1>1, <1>2, <1>3, <1>4
  DEF Worker, StatusFails, RenderFails, AbortedBeforePrint, PrinterGone,
      PrintFails, DrawerDone

LEMMA CleanProcess ==
    TypeOK /\ CleanMeansSaved /\ Process => CleanMeansSaved'
<1> SUFFICES ASSUME TypeOK, CleanMeansSaved, Process
             PROVE  CleanMeansSaved'
  OBVIOUS
<1>1. CASE Start
  BY <1>1 DEF Start, StartWith, CleanMeansSaved
<1>2. CASE BeginStop \/ StopProcessor
  BY <1>2 DEF BeginStop, StopProcessor, storeVars, CleanMeansSaved, Alive
<1>3. CASE StopProcessorLate
  BY <1>3 DEF StopProcessorLate, Release, Write, CleanMeansSaved
<1>4. CASE Exit
  BY <1>4 DEF Exit, CleanMeansSaved, Alive
<1>5. CASE FatalException
  BY <1>5 DEF FatalException, CleanMeansSaved, Alive, TypeOK
<1>6. CASE RebuildDatabase
  BY <1>6 DEF RebuildDatabase, CleanMeansSaved
<1> QED
  BY <1>1, <1>2, <1>3, <1>4, <1>5, <1>6
  DEF Process, Close, ForcedExit, Die, Kill

LEMMA CleanStep ==
    TypeOK /\ CleanMeansSaved /\ [Next]_vars => CleanMeansSaved'
<1>1. UNCHANGED vars /\ CleanMeansSaved => CleanMeansSaved'
  BY DEF vars, storeVars, CleanMeansSaved, Alive
<1> QED
  BY <1>1, CleanRequest, CleanTimer, CleanWorker, CleanProcess DEF Next

\* Whatever fails, a database that is not marked dirty is the file: no
\* mutation of the store can miss the next save.
THEOREM CleanIsSaved == Spec => []CleanMeansSaved
<1>1. Spec => []TypeOK
  BY TypeCorrect
<1> QED
  BY <1>1, CleanInit, CleanStep, PTL DEF Spec

-----------------------------------------------------------------------------
(* One job per printer *)

LEMMA IdsFinite ==
    /\ IsFiniteSet(Ids)
    /\ \A S \in SUBSET Ids : IsFiniteSet(S) /\ Cardinality(S) \in Nat
<1>1. IsFiniteSet(Ids)
  BY FS_Interval, QueueAssumption DEF Ids
<1>2. ASSUME NEW S \in SUBSET Ids
      PROVE  IsFiniteSet(S) /\ Cardinality(S) \in Nat
  <2>1. IsFiniteSet(S)
    BY <1>1, FS_Subset
  <2> QED
    BY <2>1, FS_CardinalityType
<1> QED
  BY <1>1, <1>2

\* The order of dispatch is a strict total order on the jobs created.
LEMMA PrecedesOrder ==
    ASSUME TypeOK
    PROVE  /\ \A i, j, k \in Created :
                 Precedes(i, j) /\ Precedes(j, k) => Precedes(i, k)
           /\ \A i \in Created : ~Precedes(i, i)
           /\ \A i, j \in Created :
                 i # j => Precedes(i, j) \/ Precedes(j, i)
<1>1. ASSUME NEW i \in Created
      PROVE  i \in Nat /\ job[i].priority \in Nat
  <2>1. i \in Ids /\ job[i] \in JobRecord
    BY DEF Created, TypeOK
  <2>2. job[i].priority \in Priorities
    BY <2>1 DEF JobRecord
  <2>3. i \in Nat
    BY <2>1, QueueAssumption DEF Ids
  <2>4. Priorities \subseteq Nat
    BY QueueAssumption
  <2> QED
    BY <2>2, <2>3, <2>4
<1> QED
  BY <1>1 DEF Precedes

\* Those of S that go before job i.
Ahead(S, i) == {j \in S : Precedes(j, i)}

\* The order of dispatch ranks the jobs of S.
LEMMA AheadGrows ==
    ASSUME TypeOK, NEW S \in SUBSET Created, NEW i \in S, NEW j \in S,
           Precedes(i, j)
    PROVE  /\ Cardinality(Ahead(S, i)) \in Nat
           /\ Cardinality(Ahead(S, j)) \in Nat
           /\ Cardinality(Ahead(S, i)) < Cardinality(Ahead(S, j))
<1>1. Ahead(S, i) \in SUBSET Ids /\ Ahead(S, j) \in SUBSET Ids
  BY DEF Ahead, Created
<1>2. /\ IsFiniteSet(Ahead(S, i)) /\ Cardinality(Ahead(S, i)) \in Nat
      /\ IsFiniteSet(Ahead(S, j)) /\ Cardinality(Ahead(S, j)) \in Nat
  BY <1>1, IdsFinite
<1>3. Ahead(S, i) \subseteq Ahead(S, j)
  BY PrecedesOrder DEF Ahead
<1>4. i \in Ahead(S, j) /\ i \notin Ahead(S, i)
  BY PrecedesOrder DEF Ahead
<1>5. /\ Cardinality(Ahead(S, i)) <= Cardinality(Ahead(S, j))
      /\ Cardinality(Ahead(S, i)) # Cardinality(Ahead(S, j))
  BY <1>2, <1>3, <1>4, FS_Subset
<1> QED
  BY <1>2, <1>5

\* The first n jobs that dispatch may take.
First(n) == {i \in Heads : Cardinality(Ahead(Heads, i)) < n}

\* The rank of a job among the heads tells them apart: there are at most n.
LEMMA FirstBounded ==
    ASSUME TypeOK, RowsHaveJobs, NEW n \in Nat
    PROVE  Cardinality(First(n)) <= n
<1> DEFINE rank == [i \in First(n) |-> Cardinality(Ahead(Heads, i)) + 1]
<1>1. First(n) \subseteq Heads /\ Heads \subseteq Created
  BY DEF First, Heads, Candidates, Ready, RowsHaveJobs, Present, NoRow
<1>2. \A i \in Heads : Cardinality(Ahead(Heads, i)) \in Nat
  <2>1. \A i \in Heads : Ahead(Heads, i) \in SUBSET Ids
    BY <1>1 DEF Created, Ahead
  <2> QED
    BY <2>1, IdsFinite
<1>3. rank \in [First(n) -> 1 .. n]
  BY <1>1, <1>2 DEF First
<1>4. \A i, j \in First(n) : rank[i] = rank[j] => i = j
  <2> SUFFICES ASSUME NEW i \in First(n), NEW j \in First(n), i # j
               PROVE  Cardinality(Ahead(Heads, i))
                         # Cardinality(Ahead(Heads, j))
    BY <1>1, <1>2
  <2>1. Precedes(i, j) \/ Precedes(j, i)
    BY <1>1, PrecedesOrder
  <2> QED
    BY <1>1, <2>1, AheadGrows
<1> HIDE DEF rank
<1>5. rank \in Injection(First(n), 1 .. n)
  BY <1>3, <1>4 DEF Injection, IsInjective
<1>6. IsFiniteSet(1 .. n) /\ Cardinality(1 .. n) = n
  BY FS_Interval
<1> QED
  BY <1>5, <1>6, FS_Injection

\* A batch never exceeds the free slots.
LEMMA BatchBounded ==
    ASSUME TypeOK, RowsHaveJobs, FreeSlots \in Nat
    PROVE  Cardinality(Batch) <= FreeSlots
<1>1. Batch = First(FreeSlots)
  BY DEF Batch, First, Ahead
<1> QED
  BY <1>1, FirstBounded

\* Two heads are for two printers.
LEMMA HeadsDiffer ==
    ASSUME TypeOK, RowsHaveJobs
    PROVE  /\ Heads \subseteq Candidates /\ Candidates \subseteq Created
           /\ \A i, j \in Heads : i # j => job[i].printer # job[j].printer
<1>1. Heads \subseteq Candidates /\ Candidates \subseteq Created
  BY DEF Heads, Candidates, Ready, RowsHaveJobs, Present, NoRow
<1> SUFFICES ASSUME NEW i \in Heads, NEW j \in Heads, i # j,
                    job[i].printer = job[j].printer
             PROVE  FALSE
  BY <1>1
<1>2. Precedes(i, j) /\ Precedes(j, i)
  BY <1>1 DEF Heads
<1> QED
  BY <1>1, <1>2, PrecedesOrder

\* Two jobs of one batch are for two printers, and for printers that had no
\* job in flight.
LEMMA BatchPrinters ==
    ASSUME TypeOK, RowsHaveJobs
    PROVE  /\ Batch \subseteq Created \ processingJobs
           /\ \A i \in Batch : job[i].printer \notin BusyPrinters
           /\ \A i, j \in Batch : i # j => job[i].printer # job[j].printer
<1>1. Batch \subseteq Heads
  BY DEF Batch
<1> QED
  BY <1>1, HeadsDiffer DEF Candidates

\* UPDATE and DELETE create no row.
LEMMA NoRowCreated ==
    ASSUME NEW t \in Table, NEW S
    PROVE  /\ Present(Delete(t, S)) \subseteq Present(t)
           /\ Present(Updated(t, S, NewPending)) \subseteq Present(t)
           /\ Present(Updated(t, S, NewProcessing)) \subseteq Present(t)
           /\ Present(Updated(t, S, NewCancelled)) \subseteq Present(t)
           /\ Present(Updated(t, S, NewCompleted)) \subseteq Present(t)
           /\ Present(Updated(t, S, NewRetried)) \subseteq Present(t)
           /\ Present(Updated(t, S, Recovered)) \subseteq Present(t)
           /\ Present(Updated(t, S, Rendered)) \subseteq Present(t)
           /\ Present(Updated(t, S, NewRefused)) \subseteq Present(t)
BY DEF Present, Delete, Updated

\* The rows that a step leaves are of jobs already created.
RowsKept == Present(db)' \cup Present(disk)' \subseteq Created

\* A step that touches neither jobs, workers nor the life of the process.
LEMMA QuietStep ==
    ASSUME DispatchInv, RowsKept, job' = job, worker' = worker,
           active' = active, processingJobs' = processingJobs,
           Running' = Running, Alive' = Alive
    PROVE  DispatchInv'
<1>1. InFlight' = InFlight /\ Created' = Created
  BY DEF InFlight, Created
<1> QED
  BY <1>1 DEF DispatchInv, RowsKept, RowsHaveJobs, WorkersTracked,
              OneJobPerPrinter

\* A worker moves to its next await.
LEMMA AdvanceStep ==
    ASSUME TypeOK, DispatchInv, RowsKept, NEW i \in InFlight, NEW at, at # "idle",
           worker' = [worker EXCEPT ![i] = at],
           job' = job, phase' = phase,
           active' = active, processingJobs' = processingJobs
    PROVE  DispatchInv'
<1>1. InFlight' = InFlight /\ Created' = Created
  BY DEF InFlight, Created, TypeOK
<1> QED
  BY <1>1 DEF DispatchInv, RowsKept, RowsHaveJobs, WorkersTracked, Running,
              Alive, OneJobPerPrinter

\* A worker ends.
LEMMA LeaveStep ==
    ASSUME TypeOK, DispatchInv, RowsKept, NEW i \in Ids, Leave(i),
           job' = job, phase' = phase
    PROVE  DispatchInv'
<1>1. InFlight' = InFlight \ {i} /\ Created' = Created
  BY DEF InFlight, Created, Leave, TypeOK
<1>2. Cardinality(InFlight') <= Cardinality(InFlight)
  BY <1>1, IdsFinite, FS_Subset DEF InFlight
<1>3. Cardinality(InFlight') \in Nat /\ Cardinality(InFlight) \in Nat
  BY <1>1, IdsFinite DEF InFlight
<1> QED
  BY <1>1, <1>2, <1>3, QueueAssumption
  DEF DispatchInv, RowsKept, RowsHaveJobs, WorkersTracked, Running, Alive,
      OneJobPerPrinter, Leave

\* The process ends.
LEMMA ExitStep ==
    ASSUME DispatchInv, RowsKept, Exit
    PROVE  DispatchInv'
<1>1. InFlight' = {} /\ Created' = Created
  BY DEF InFlight, Created, Exit
<1>2. Cardinality(InFlight') = 0
  BY <1>1, FS_EmptySet
<1> QED
  BY <1>1, <1>2, QueueAssumption
  DEF DispatchInv, RowsKept, RowsHaveJobs, WorkersTracked, Running, Alive,
      OneJobPerPrinter, Exit

\* A poll starts workers for printers that had none.
LEMMA PollStep ==
    ASSUME TypeOK, DispatchInv, Poll
    PROVE  DispatchInv'
<1> DEFINE started == {i \in Batch : job[i].printer \in registered}
           refused == Batch \ started
           marked  == Updated(db, started, NewProcessing)
<1>1. /\ ~paused /\ Running
      /\ MaxConcurrentJobs > Cardinality(active)
      /\ Write(Updated(marked, refused, NewRefused))
      /\ processingJobs' = processingJobs \cup started
      /\ active' = active \cup started
      /\ worker' = [i \in Ids |-> IF i \in started THEN "status"
                                  ELSE worker[i]]
      /\ job' = job /\ phase' = phase
  BY DEF Poll
<1> HIDE DEF started, marked
<1>2. active = InFlight /\ processingJobs = InFlight
  BY <1>1 DEF DispatchInv, WorkersTracked
<1>3. started \subseteq Batch /\ Batch \subseteq Created
  BY BatchPrinters DEF started, DispatchInv
<1>4. InFlight' = InFlight \cup started /\ Created' = Created
  BY <1>1, <1>3 DEF InFlight, Created
<1>5. RowsKept
  <2>1. marked \in Table /\ Present(marked) \subseteq Present(db)
    BY UpdatedTable, NoRowCreated DEF TypeOK, marked
  <2>2. Present(Updated(marked, refused, NewRefused)) \subseteq Present(db)
    BY <2>1, NoRowCreated
  <2> QED
    BY <1>1, <2>2 DEF Write, RowsKept, DispatchInv, RowsHaveJobs
<1>6. Cardinality(InFlight \cup started) <= MaxConcurrentJobs
  <2>1. /\ Cardinality(InFlight) \in Nat
        /\ IsFiniteSet(InFlight) /\ IsFiniteSet(Batch)
        /\ Cardinality(Batch) \in Nat /\ FreeSlots \in Nat
    <3>1. InFlight \subseteq Ids /\ Batch \subseteq Ids
      BY <1>3 DEF InFlight, Created
    <3>2. Cardinality(InFlight) \in Nat /\ Cardinality(Batch) \in Nat
      BY <3>1, IdsFinite
    <3>3. FreeSlots \in Nat
      BY <1>1, <1>2, <3>2, QueueAssumption DEF FreeSlots
    <3> QED
      BY <3>1, <3>2, <3>3, IdsFinite
  <2>2. Cardinality(Batch) <= FreeSlots
    BY <2>1, BatchBounded DEF DispatchInv
  <2>3. /\ IsFiniteSet(started) /\ Cardinality(started) \in Nat
        /\ Cardinality(started) <= Cardinality(Batch)
    BY <1>3, <2>1, FS_Subset, FS_CardinalityType
  <2>4. /\ Cardinality(InFlight \cap started) \in Nat
        /\ Cardinality(InFlight \cup started) =
              Cardinality(InFlight) + Cardinality(started)
                 - Cardinality(InFlight \cap started)
    BY <2>1, <2>3, FS_Union, FS_Subset, FS_CardinalityType
  <2>5. FreeSlots = MaxConcurrentJobs - Cardinality(InFlight)
    BY <1>2 DEF FreeSlots
  <2> QED
    BY <2>1, <2>2, <2>3, <2>4, <2>5, QueueAssumption
<1>7. \A i, j \in InFlight \cup started :
         i # j => job[i].printer # job[j].printer
  <2>1. \A i, j \in InFlight : i # j => job[i].printer # job[j].printer
    BY DEF DispatchInv, OneJobPerPrinter
  <2>2. \A i, j \in started : i # j => job[i].printer # job[j].printer
    BY <1>3, BatchPrinters DEF DispatchInv
  <2>3. \A i \in InFlight, j \in started : job[i].printer # job[j].printer
    BY <1>2, <1>3, BatchPrinters DEF DispatchInv, BusyPrinters
  <2> QED
    BY <2>1, <2>2, <2>3
<1>8. RowsHaveJobs'
  BY <1>3, <1>4, <1>5 DEF RowsKept, RowsHaveJobs, DispatchInv
<1>9. WorkersTracked'
  BY <1>1, <1>2, <1>4, <1>6 DEF WorkersTracked, Running, Alive
<1>10. OneJobPerPrinter'
  BY <1>1, <1>4, <1>7 DEF OneJobPerPrinter
<1> QED
  BY <1>8, <1>9, <1>10 DEF DispatchInv

LEMMA DispatchRequest ==
    ASSUME TypeOK, DispatchInv, Request
    PROVE  DispatchInv'
<1> USE DEF workerVars, storeVars
<1>0. Present(db) \cup Present(disk) \subseteq Created /\ db \in Table
  BY DEF DispatchInv, RowsHaveJobs, TypeOK
<1>1. ASSUME NEW k \in Keys, NEW p \in Printers, NEW prio \in Priorities,
             CreateJob(k, p, prio)
      PROVE  DispatchInv'
  <2>1. PICK i \in Ids \ Created :
            /\ job' = [job EXCEPT ![i] = [key |-> k, printer |-> p,
                                          priority |-> prio]]
            /\ db' = [db EXCEPT ![i] = NewRow]
    BY <1>1 DEF CreateJob, Write
  <2>2. /\ disk' = disk /\ phase' = phase /\ active' = active
        /\ worker' = worker /\ processingJobs' = processingJobs
    BY <1>1 DEF CreateJob, Write
  <2>3. [key |-> k, printer |-> p, priority |-> prio] # NoJob
    BY DEF NoJob
  <2>4. Created' = Created \cup {i}
    BY <2>1, <2>3 DEF Created, TypeOK
  <2>5. Present(db') \subseteq Present(db) \cup {i}
    BY <2>1 DEF Present, TypeOK, Table
  <2>6. InFlight' = InFlight /\ i \notin InFlight
    BY <2>1, <2>2 DEF InFlight, DispatchInv, RowsHaveJobs
  <2>7. \A j \in InFlight : job'[j] = job[j]
    BY <2>1, <2>6 DEF InFlight, TypeOK
  <2>8. RowsHaveJobs'
    BY <2>2, <2>4, <2>5, <2>6 DEF RowsHaveJobs, DispatchInv, Present
  <2>9. WorkersTracked'
    BY <2>2, <2>6 DEF WorkersTracked, DispatchInv, Running, Alive
  <2>10. OneJobPerPrinter'
    BY <2>6, <2>7 DEF OneJobPerPrinter, DispatchInv
  <2> QED
    BY <2>8, <2>9, <2>10 DEF DispatchInv
<1>2. ASSUME NEW i \in Ids, Cancel(i) \/ RetryJob(i)  PROVE DispatchInv'
  <2>1. RowsKept
    BY <1>0, <1>2, NoRowCreated DEF RowsKept, Cancel, RetryJob, Write
  <2> QED
    BY <1>2, <2>1, QuietStep DEF Cancel, RetryJob, Running, Alive
<1>3. ASSUME ClearFailedJobs  PROVE DispatchInv'
  <2>1. RowsKept
    BY <1>0, <1>3, NoRowCreated DEF RowsKept, ClearFailedJobs, Write
  <2> QED
    BY <1>3, <2>1, QuietStep DEF ClearFailedJobs, Running, Alive
<1>4. ASSUME NEW p \in Printers, ChangePrinter(p)  PROVE DispatchInv'
  <2>1. RowsKept
    BY <1>0, <1>4 DEF RowsKept, ChangePrinter, Present
  <2> QED
    BY <1>4, <2>1, QuietStep DEF ChangePrinter, Running, Alive
<1>5. CASE Pause \/ Resume
  <2>1. RowsKept
    BY <1>0, <1>5 DEF RowsKept, Pause, Resume, Present
  <2> QED
    BY <1>5, <2>1, QuietStep DEF Pause, Resume, Running, Alive
<1> QED
  BY <1>1, <1>2, <1>3, <1>4, <1>5 DEF Request, Enqueue, CreateTestJob

LEMMA DispatchTimer ==
    ASSUME TypeOK, DispatchInv, Timer
    PROVE  DispatchInv'
<1> USE DEF workerVars, storeVars
<1>0. Present(db) \cup Present(disk) \subseteq Created /\ db \in Table
  BY DEF DispatchInv, RowsHaveJobs, TypeOK
<1>1. CASE Poll
  BY <1>1, PollStep
<1>2. CASE Save
  <2>1. RowsKept
    BY <1>0, <1>2 DEF RowsKept, Save, Present
  <2> QED
    BY <1>2, <2>1, QuietStep DEF Save, Running, Alive
<1>3. CASE Cleanup
  <2>1. RowsKept
    BY <1>0, <1>3, NoRowCreated DEF RowsKept, Cleanup, Write
  <2> QED
    BY <1>3, <2>1, QuietStep DEF Cleanup, Running, Alive
<1>4. ASSUME NEW i \in Ids, RetryDue(i) \/ JobTimeout(i)
      PROVE  DispatchInv'
  <2>1. RowsKept
    BY <1>0, <1>4 DEF RowsKept, RetryDue, JobTimeout, Present
  <2> QED
    BY <1>4, <2>1, QuietStep DEF RetryDue, JobTimeout, Running, Alive
<1> QED
  BY <1>1, <1>2, <1>3, <1>4 DEF Timer

LEMMA DispatchWorker ==
    ASSUME TypeOK, DispatchInv, NEW i \in Ids, Worker(i)
    PROVE  DispatchInv'
<1> USE DEF workerVars, storeVars
<1>0. Present(db) \cup Present(disk) \subseteq Created /\ db \in Table
  BY DEF DispatchInv, RowsHaveJobs, TypeOK
<1>1. ASSUME NEW t \in Table, Present(t) \subseteq Present(db),
             \E retryable : Fail(i, t, retryable),
             job' = job, phase' = phase
      PROVE  DispatchInv'
  <2>1. RowsKept
    BY <1>0, <1>1 DEF RowsKept, Fail, Write, Present, Table
  <2> QED
    BY <1>1, <2>1, LeaveStep DEF Fail
<1>2. WithRendering(i) \in Table
      /\ Present(WithRendering(i)) \subseteq Present(db)
  BY <1>0, RenderingTable, NoRowCreated DEF WithRendering
<1>3. ASSUME Complete(i), job' = job, phase' = phase  PROVE DispatchInv'
  <2>1. RowsKept
    BY <1>0, <1>3, NoRowCreated DEF RowsKept, Complete, Write
  <2> QED
    BY <1>3, <2>1, LeaveStep DEF Complete
<1>4. CASE StatusFails(i) \/ RenderFails(i) \/ PrintFails(i)
  BY <1>0, <1>1, <1>4 DEF StatusFails, RenderFails, PrintFails
<1>5. CASE AbortedBeforePrint(i) \/ PrinterGone(i)
  BY <1>1, <1>2, <1>5 DEF AbortedBeforePrint, PrinterGone
<1>6. CASE SendToPrinter(i)
  <2>1. RowsKept
    BY <1>0, <1>2, <1>6 DEF RowsKept, SendToPrinter, Present
  <2>2. i \in InFlight
    BY <1>6 DEF SendToPrinter, InFlight
  <2> QED
    BY <1>6, <2>1, <2>2, AdvanceStep DEF SendToPrinter
<1>7. CASE PrintSucceeds(i)
  <2>1. CASE Complete(i)
    BY <1>3, <1>7, <2>1 DEF PrintSucceeds
  <2>2. CASE /\ worker' = [worker EXCEPT ![i] = "drawer"]
             /\ UNCHANGED <<storeVars, processingJobs, active, aborted,
                            cached>>
    <3>1. RowsKept
      BY <1>0, <2>2 DEF RowsKept, PrintSucceeds, Present
    <3>2. i \in InFlight
      BY <1>7 DEF PrintSucceeds, InFlight
    <3> QED
      BY <1>7, <2>2, <3>1, <3>2, AdvanceStep DEF PrintSucceeds
  <2> QED
    BY <1>7, <2>1, <2>2 DEF PrintSucceeds
<1>8. CASE DrawerDone(i)
  BY <1>3, <1>8 DEF DrawerDone
<1> QED
  BY <1>4, <1>5, <1>6, <1>7, <1>8 DEF Worker

LEMMA DispatchProcess ==
    ASSUME TypeOK, DispatchInv, Process
    PROVE  DispatchInv'
<1> USE DEF workerVars, storeVars
<1>0. /\ Present(db) \cup Present(disk) \subseteq Created
      /\ db \in Table /\ disk \in Table
      /\ EmptyTable \in Table /\ Present(EmptyTable) = {}
  BY EmptyIsTable DEF DispatchInv, RowsHaveJobs, TypeOK, Present, EmptyTable
<1>1. CASE Start
  <2>1. PICK file \in {disk, EmptyTable} : StartWith(file)
    BY <1>1 DEF Start
  <2>2. disk' = disk \/ disk' = EmptyTable
    BY <1>1 DEF Start
  <2>3. RowsKept
    <3>1. PICK stale \in Stale(file) :
              \E S \in IF "cleanup" \in Ops
                       THEN Sweeps(Updated(file, stale, Recovered))
                       ELSE {{}} :
                 db' = Delete(Updated(file, stale, Recovered), S)
      BY <2>1 DEF StartWith
    <3>2. file \in Table /\ Updated(file, stale, Recovered) \in Table
      BY <1>0, <2>1, UpdatedTable
    <3>3. Present(db') \subseteq Present(file)
      BY <3>1, <3>2, NoRowCreated
    <3>4. Present(db') \cup Present(disk') \subseteq Created
      BY <1>0, <2>1, <2>2, <3>3
    <3> QED
      BY <3>4 DEF RowsKept, Present
  <2>4. /\ job' = job /\ worker' = worker /\ active' = active
        /\ processingJobs' = processingJobs
    BY <2>1 DEF StartWith
  <2>5. phase = "down" /\ phase' = "up"
    BY <1>1, <2>1 DEF Start, StartWith
  <2>6. InFlight = {} /\ active = {} /\ processingJobs = {}
    BY <2>5 DEF DispatchInv, WorkersTracked, Alive, Running
  <2>7. InFlight' = InFlight /\ Created' = Created
    BY <2>4 DEF InFlight, Created
  <2> QED
    BY <2>3, <2>4, <2>5, <2>6, <2>7
    DEF DispatchInv, RowsKept, RowsHaveJobs, WorkersTracked, Alive, Running,
        OneJobPerPrinter
<1>2. CASE BeginStop
  <2>1. RowsKept
    BY <1>0, <1>2 DEF RowsKept, BeginStop, Present
  <2> QED
    BY <1>2, <2>1, QuietStep DEF BeginStop, Running, Alive
<1>3. CASE StopProcessor \/ StopProcessorLate
  <2>1. RowsKept
    BY <1>0, <1>3, NoRowCreated
    DEF RowsKept, StopProcessor, StopProcessorLate, Release, Write, Present
  <2>2. /\ active' = {} /\ processingJobs' = processingJobs \ active
        /\ job' = job /\ worker' = worker
        /\ phase = "draining" /\ phase' = "stopped"
    BY <1>3 DEF StopProcessor, StopProcessorLate, Release
  <2>3. processingJobs' = {}
    BY <2>2 DEF DispatchInv, WorkersTracked, Running
  <2>4. InFlight' = InFlight /\ Created' = Created
    BY <2>2 DEF InFlight, Created
  <2> QED
    BY <2>1, <2>2, <2>3, <2>4
    DEF DispatchInv, RowsKept, RowsHaveJobs, WorkersTracked, Alive, Running,
        OneJobPerPrinter
<1>4. CASE Close \/ ForcedExit \/ Die \/ Kill
  <2>1. Exit /\ db' = EmptyTable /\ disk' \in {db, disk}
    BY <1>4 DEF Close, ForcedExit, Die, Kill
  <2>2. RowsKept
    BY <1>0, <2>1 DEF RowsKept, Present
  <2> QED
    BY <2>1, <2>2, ExitStep
<1>5. CASE FatalException
  <2>1. RowsKept
    BY <1>0, <1>5 DEF RowsKept, FatalException, Present
  <2> QED
    BY <1>5, <2>1, QuietStep DEF FatalException, Running, Alive
<1>6. CASE RebuildDatabase
  <2>1. RowsKept
    BY <1>0, <1>6 DEF RowsKept, RebuildDatabase, Present
  <2> QED
    BY <1>6, <2>1, QuietStep DEF RebuildDatabase, Running, Alive
<1> QED
  BY <1>1, <1>2, <1>3, <1>4, <1>5, <1>6 DEF Process

LEMMA DispatchInit == Init => DispatchInv
<1> SUFFICES ASSUME Init  PROVE DispatchInv
  OBVIOUS
<1>1. Present(db) = {} /\ Present(disk) = {} /\ InFlight = {}
  BY DEF Init, Present, EmptyTable, InFlight
<1>2. Cardinality(InFlight) = 0
  BY <1>1, FS_EmptySet
<1> QED
  BY <1>1, <1>2, QueueAssumption
  DEF Init, DispatchInv, RowsHaveJobs, WorkersTracked, Running, Alive,
      OneJobPerPrinter

LEMMA DispatchStep == TypeOK /\ DispatchInv /\ [Next]_vars => DispatchInv'
<1> SUFFICES ASSUME TypeOK, DispatchInv, [Next]_vars  PROVE DispatchInv'
  OBVIOUS
<1>1. CASE UNCHANGED vars
  <2>1. RowsKept
    BY <1>1 DEF vars, storeVars, RowsKept, DispatchInv, RowsHaveJobs, Present
  <2> QED
    BY <1>1, <2>1, QuietStep
    DEF vars, storeVars, workerVars, Running, Alive
<1> QED
  BY <1>1, DispatchRequest, DispatchTimer, DispatchWorker, DispatchProcess
  DEF Next

\* The invariant of dispatch holds through every failure and restart.
THEOREM DispatchSound == Spec => []DispatchInv
<1>1. Spec => []TypeOK
  BY TypeCorrect
<1> QED
  BY <1>1, DispatchInit, DispatchStep, PTL DEF Spec

\* A printer never has two jobs in flight, whatever is enqueued, cancelled,
\* retried, aborted, crashed or restarted meanwhile.
THEOREM SingleFlight == Spec => []OneJobPerPrinter
<1>1. DispatchInv => OneJobPerPrinter
  BY DEF DispatchInv
<1> QED
  BY <1>1, DispatchSound, PTL

\* Dispatch never loses track of a worker, nor starts one too many.
THEOREM WorkersAreTracked == Spec => []WorkersTracked
<1>1. DispatchInv => WorkersTracked
  BY DEF DispatchInv
<1> QED
  BY <1>1, DispatchSound, PTL

-----------------------------------------------------------------------------
(* Rows keep what they need *)

\* RowsKeepWhatTheyNeed of one row, and of a table.
RowSound(r) ==
    /\ r.status \in Unfinished \cup {"dead_letter"} => r.payload
    /\ r.status \in Terminal => ~r.blob

TableSound(t) == \A i \in Ids : RowSound(t[i])

\* A worker holds its job's row: no request changes it, since none is for a
\* row that is 'processing', and a stop that gives the row back ends requests.
RowsHeld ==
    /\ active \subseteq InFlight
    /\ \A i \in InFlight : /\ Alive
                           /\ db[i].status \in {"processing", "pending"}
                           /\ Running => db[i].status = "processing"

\* RowsKeepWhatTheyNeed made inductive: of the table and of the file, and with
\* the rows that workers come back to.
RowsInv == RowsHeld /\ TableSound(db) /\ TableSound(disk)

\* What each statement leaves of a sound row.
LEMMA SoundUpdates ==
    ASSUME NEW r \in Row, RowSound(r)
    PROVE  /\ RowSound(NewCancelled(r))
           /\ RowSound(NewCompleted(r))
           /\ RowSound(Rendered(r))
           /\ r.status \in Unfinished \cup {"dead_letter"} =>
                 /\ RowSound(NewPending(r))
                 /\ RowSound(NewProcessing(r))
                 /\ RowSound(NewRetried(r))
                 /\ RowSound(Recovered(r))
                 /\ \A b \in BOOLEAN : RowSound(Failed(r, b))
                 /\ RowSound(NewRefused(r))
<1> USE DEF Row, RowSound, Unfinished, Waiting, Terminal
<1>1. RowSound(NewCancelled(r)) /\ RowSound(NewCompleted(r))
  BY DEF NewCancelled, NewCompleted
<1>2. RowSound(Rendered(r))
  BY DEF Rendered
<1>3. ASSUME r.status \in Unfinished \cup {"dead_letter"}
      PROVE  /\ RowSound(NewPending(r))
             /\ RowSound(NewProcessing(r))
             /\ RowSound(NewRetried(r))
             /\ RowSound(Recovered(r))
  BY <1>3 DEF NewPending, NewProcessing, NewRetried, Recovered
<1>4. ASSUME r.status \in Unfinished \cup {"dead_letter"}, NEW b \in BOOLEAN
      PROVE  RowSound(Failed(r, b))
  <2>1. RowSound([r EXCEPT !.status = "retry_scheduled",
                           !.attempts = r.attempts + 1])
    BY <1>4
  <2>2. RowSound([r EXCEPT !.status = "dead_letter",
                           !.attempts = r.attempts + 1, !.blob = FALSE])
    BY <1>4
  <2> QED  BY <2>1, <2>2 DEF Failed
<1> QED
  BY <1>1, <1>2, <1>3, <1>4 DEF NewRefused

LEMMA EmptySound == TableSound(EmptyTable)
BY DEF TableSound, RowSound, EmptyTable, NoRow, Unfinished, Waiting, Terminal

LEMMA DeletedSound ==
    ASSUME NEW t \in Table, NEW S, TableSound(t)
    PROVE  TableSound(Delete(t, S))
BY DEF TableSound, RowSound, Delete, NoRow, Unfinished, Waiting, Terminal

LEMMA UpdatedSound ==
    ASSUME NEW t \in Table, NEW S, TableSound(t)
    PROVE  /\ TableSound(Updated(t, S, NewCancelled))
           /\ TableSound(Updated(t, S, NewCompleted))
           /\ TableSound(Updated(t, S, Rendered))
           /\ (\A i \in Ids \cap S :
                   t[i].status \in Unfinished \cup {"dead_letter"}) =>
                 /\ TableSound(Updated(t, S, NewPending))
                 /\ TableSound(Updated(t, S, NewProcessing))
                 /\ TableSound(Updated(t, S, NewRetried))
                 /\ TableSound(Updated(t, S, Recovered))
                 /\ TableSound(Updated(t, S, NewRefused))
<1> \A i \in Present(t) : t[i] \in Row /\ RowSound(t[i])
  BY DEF Present, Table, TableSound
<1> QED
  BY SoundUpdates DEF TableSound, Updated, Present

\* No worker moves, and the rows they hold keep their status.
LEMMA HeldQuiet ==
    ASSUME RowsHeld, worker' = worker, active' = active, phase' = phase,
           \A j \in InFlight : db'[j].status = db[j].status
    PROVE  RowsHeld'
BY DEF RowsHeld, InFlight, Alive, Running

\* A worker ends, and so no longer needs its row.
LEMMA HeldLeave ==
    ASSUME TypeOK, RowsHeld, NEW i \in Ids, Leave(i), phase' = phase,
           \A j \in InFlight \ {i} : db'[j].status = db[j].status
    PROVE  RowsHeld'
BY DEF TypeOK, RowsHeld, InFlight, Alive, Running, Leave

LEMMA RowsRequest ==
    ASSUME TypeOK, RowsHaveJobs, RowsInv, Request
    PROVE  RowsInv'
<1> USE DEF workerVars, storeVars
<1>0. db \in Table /\ disk \in Table
  BY DEF TypeOK
<1>1. ASSUME NEW k \in Keys, NEW p \in Printers, NEW prio \in Priorities,
             CreateJob(k, p, prio)
      PROVE  RowsInv'
  <2>1. PICK i \in Ids \ Created : Write([db EXCEPT ![i] = NewRow])
    BY <1>1 DEF CreateJob
  <2>2. \A j \in InFlight : db'[j].status = db[j].status
    BY <2>1, <1>0 DEF Write, RowsHaveJobs, Table
  <2>3. RowsHeld'
    BY <1>1, <2>2, HeldQuiet DEF CreateJob, RowsInv
  <2>4. RowSound(NewRow)
    BY DEF NewRow, RowSound, Unfinished, Waiting, Terminal
  <2> QED
    BY <1>0, <2>1, <2>3, <2>4 DEF Write, RowsInv, TableSound, Table
<1>2. ASSUME NEW i \in Ids, Cancel(i)  PROVE RowsInv'
  <2>1. TableSound(db') /\ TableSound(disk')
    BY <1>0, <1>2, UpdatedSound DEF Cancel, Write, RowsInv
  <2>2. i \notin InFlight
    BY <1>2 DEF Cancel, Cancellable, Waiting, RowsInv, RowsHeld, Accepting,
                Running
  <2>3. \A j \in InFlight : db'[j].status = db[j].status
    BY <1>2, <2>2 DEF Cancel, Write, Updated, InFlight
  <2> QED
    BY <1>2, <2>1, <2>3, HeldQuiet DEF Cancel, RowsInv
<1>3. ASSUME NEW i \in Ids, RetryJob(i)  PROVE RowsInv'
  <2>1. TableSound(db') /\ TableSound(disk')
    BY <1>0, <1>3, UpdatedSound DEF RetryJob, Retryable, Write, RowsInv
  <2>2. i \notin InFlight
    BY <1>3 DEF RetryJob, Retryable, RowsInv, RowsHeld
  <2>3. \A j \in InFlight : db'[j].status = db[j].status
    BY <1>3, <2>2 DEF RetryJob, Write, Updated, InFlight
  <2> QED
    BY <1>3, <2>1, <2>3, HeldQuiet DEF RetryJob, RowsInv
<1>4. ASSUME ClearFailedJobs  PROVE RowsInv'
  <2>1. TableSound(db') /\ TableSound(disk')
    BY <1>0, <1>4, DeletedSound DEF ClearFailedJobs, Write, RowsInv
  <2>2. \A j \in InFlight : db'[j].status = db[j].status
    BY <1>4 DEF ClearFailedJobs, Write, Delete, InStatus, RowsInv, RowsHeld,
                InFlight
  <2> QED
    BY <1>4, <2>1, <2>2, HeldQuiet DEF ClearFailedJobs, RowsInv
<1>5. CASE Pause \/ Resume \/ \E p \in Printers : ChangePrinter(p)
  BY <1>5, HeldQuiet DEF Pause, Resume, ChangePrinter, RowsInv, TableSound
<1> QED
  BY <1>1, <1>2, <1>3, <1>4, <1>5 DEF Request, Enqueue, CreateTestJob

LEMMA RowsTimer ==
    ASSUME TypeOK, RowsInv, Timer
    PROVE  RowsInv'
<1> USE DEF workerVars, storeVars
<1>0. db \in Table /\ disk \in Table
  BY DEF TypeOK
<1>1. CASE Poll
  <2> DEFINE started == {i \in Batch : job[i].printer \in registered}
             refused == Batch \ started
             marked  == Updated(db, started, NewProcessing)
  <2>1. /\ Running
        /\ db' = Updated(marked, refused, NewRefused) /\ disk' = disk
        /\ active' = active \cup started
        /\ worker' = [i \in Ids |-> IF i \in started THEN "status"
                                    ELSE worker[i]]
        /\ phase' = phase
    BY <1>1 DEF Poll, Write
  <2> HIDE DEF started
  <2>2. \A i \in Batch : i \in Ids /\ db[i].status \in Waiting
    BY DEF Batch, Heads, Candidates, Ready, Waiting
  <2>3. started \subseteq Batch
    BY DEF started
  <2>4. marked \in Table /\ TableSound(marked)
    BY <1>0, <2>2, <2>3, UpdatedTable, UpdatedSound DEF RowsInv, Unfinished
  <2>5. \A i \in refused : marked[i] = db[i]
    BY <2>2 DEF Updated
  <2>6. TableSound(db')
    BY <2>1, <2>2, <2>4, <2>5, UpdatedSound DEF Unfinished
  <2>7. \A i \in started : db[i] \in Row
    BY <1>0, <2>2, <2>3 DEF Table, NoRow, Waiting
  <2>8. \A i \in started : db'[i].status = "processing"
    BY <2>1, <2>2, <2>3, <2>7
    DEF Updated, Present, NewProcessing, Row, NoRow, Waiting
  <2>9. \A i \in InFlight : i \notin Batch
    BY <2>1, <2>2 DEF RowsInv, RowsHeld, Waiting
  <2>10. \A i \in InFlight : db'[i] = db[i]
    BY <2>1, <2>3, <2>9 DEF Updated, InFlight
  <2>11. InFlight' = InFlight \cup started
    BY <2>1, <2>2, <2>3 DEF InFlight
  <2>12. RowsHeld'
    BY <2>1, <2>8, <2>10, <2>11 DEF RowsHeld, RowsInv, Running, Alive
  <2> QED
    BY <2>1, <2>6, <2>12 DEF RowsInv
<1>2. CASE Save
  BY <1>2, HeldQuiet DEF Save, RowsInv
<1>3. CASE Cleanup
  <2>1. PICK S \in Sweeps(db) : db' = Delete(db, S) /\ disk' = disk
    BY <1>3 DEF Cleanup, Write
  <2>2. TableSound(db')
    BY <1>0, <2>1, DeletedSound DEF RowsInv
  <2>3. \A j \in InFlight : db'[j].status = db[j].status
    BY <2>1 DEF Sweeps, Delete, InStatus, Terminal, RowsInv, RowsHeld,
                InFlight
  <2> QED
    BY <1>3, <2>1, <2>2, <2>3, HeldQuiet DEF Cleanup, RowsInv
<1>4. ASSUME NEW i \in Ids, RetryDue(i) \/ JobTimeout(i)
      PROVE  RowsInv'
  BY <1>4, HeldQuiet DEF RetryDue, JobTimeout, RowsInv, TableSound
<1> QED
  BY <1>1, <1>2, <1>3, <1>4 DEF Timer

LEMMA RowsWorker ==
    ASSUME TypeOK, RowsInv, NEW i \in Ids, Worker(i)
    PROVE  RowsInv'
<1> USE DEF workerVars, storeVars
<1>0. db \in Table /\ disk \in Table
  BY DEF TypeOK
<1>1. i \in InFlight
  BY DEF Worker, StatusFails, RenderFails, AbortedBeforePrint, PrinterGone,
         SendToPrinter, PrintFails, PrintSucceeds, DrawerDone, InFlight
<1>2. db[i].status \in Unfinished \cup {"dead_letter"} /\ db[i] \in Row
  BY <1>0, <1>1 DEF RowsInv, RowsHeld, Unfinished, Waiting, Table, NoRow
<1>3. ASSUME NEW t \in Table, TableSound(t),
             \A j \in Ids : t[j].status = db[j].status,
             NEW retryable \in BOOLEAN, Fail(i, t, retryable), phase' = phase
      PROVE  RowsInv'
  <2>1. /\ db' = [j \in Ids |-> IF j = i /\ j \in Present(t)
                                THEN Failed(t[j], retryable) ELSE t[j]]
        /\ disk' = disk /\ Leave(i)
    BY <1>3 DEF Fail, Write
  <2>2. t[i] \in Row /\ t[i].status \in Unfinished \cup {"dead_letter"}
    BY <1>2, <1>3 DEF Table, NoRow, Unfinished, Waiting
  <2>3. TableSound(db')
    BY <1>3, <2>1, <2>2, SoundUpdates DEF TableSound
  <2>4. \A j \in InFlight \ {i} : db'[j].status = db[j].status
    BY <1>3, <2>1 DEF InFlight
  <2> QED
    BY <1>3, <2>1, <2>3, <2>4, HeldLeave DEF RowsInv
<1>4. /\ WithRendering(i) \in Table /\ TableSound(WithRendering(i))
      /\ \A j \in Ids : WithRendering(i)[j].status = db[j].status
  <2>1. WithRendering(i) \in Table /\ TableSound(WithRendering(i))
    BY <1>0, UpdatedSound, RenderingTable DEF WithRendering, RowsInv
  <2>2. Rendered(db[i]).status = db[i].status
    BY <1>2 DEF Rendered, Row
  <2> QED
    BY <2>1, <2>2 DEF WithRendering, Updated
<1>5. ASSUME Complete(i), phase' = phase  PROVE RowsInv'
  <2>1. TableSound(db') /\ TableSound(disk')
    BY <1>0, <1>5, UpdatedSound DEF Complete, Write, RowsInv
  <2>2. \A j \in InFlight \ {i} : db'[j].status = db[j].status
    BY <1>5 DEF Complete, Write, Updated, InFlight
  <2> QED
    BY <1>5, <2>1, <2>2, HeldLeave DEF Complete, RowsInv
<1>6. CASE StatusFails(i) \/ RenderFails(i) \/ PrintFails(i)
  BY <1>0, <1>3, <1>6 DEF StatusFails, RenderFails, PrintFails, RowsInv
<1>7. CASE AbortedBeforePrint(i) \/ PrinterGone(i)
  BY <1>3, <1>4, <1>7 DEF AbortedBeforePrint, PrinterGone
<1>8. CASE SendToPrinter(i)
  <2>1. InFlight' = InFlight
    BY <1>1, <1>8 DEF SendToPrinter, InFlight, TypeOK
  <2> QED
    BY <1>4, <1>8, <2>1
    DEF SendToPrinter, RowsInv, RowsHeld, Running, Alive, TableSound, InFlight
<1>9. CASE PrintSucceeds(i)
  <2>1. CASE Complete(i)
    BY <1>5, <1>9, <2>1 DEF PrintSucceeds
  <2>2. CASE /\ worker' = [worker EXCEPT ![i] = "drawer"]
             /\ UNCHANGED <<storeVars, processingJobs, active, aborted,
                            cached>>
    <3>1. InFlight' = InFlight
      BY <1>1, <2>2 DEF InFlight, TypeOK
    <3> QED
      BY <1>9, <2>2, <3>1
      DEF PrintSucceeds, RowsInv, RowsHeld, Running, Alive, TableSound
  <2> QED
    BY <1>9, <2>1, <2>2 DEF PrintSucceeds
<1>10. CASE DrawerDone(i)
  BY <1>5, <1>10 DEF DrawerDone
<1> QED
  BY <1>6, <1>7, <1>8, <1>9, <1>10 DEF Worker

LEMMA RowsProcess ==
    ASSUME TypeOK, RowsInv, Process, "wasm" \notin Faults
    PROVE  RowsInv'
<1> USE DEF workerVars, storeVars
<1>0. db \in Table /\ disk \in Table /\ EmptyTable \in Table
  BY EmptyIsTable DEF TypeOK
<1>1. CASE Start
  <2>1. PICK file \in {disk, EmptyTable} : StartWith(file)
    BY <1>1 DEF Start
  <2>2. disk' \in {disk, EmptyTable} /\ file \in Table /\ TableSound(file)
    BY <1>0, <1>1, <2>1, EmptySound DEF Start, RowsInv
  <2>3. PICK stale \in Stale(file) :
            \E S \in IF "cleanup" \in Ops
                     THEN Sweeps(Updated(file, stale, Recovered))
                     ELSE {{}} :
               db' = Delete(Updated(file, stale, Recovered), S)
    BY <2>1 DEF StartWith
  <2>4. \A i \in stale : file[i].status = "processing"
    BY DEF Stale, InStatus
  <2>5. /\ Updated(file, stale, Recovered) \in Table
        /\ TableSound(Updated(file, stale, Recovered))
    BY <2>2, <2>4, UpdatedTable, UpdatedSound DEF Unfinished
  <2>6. TableSound(db')
    BY <2>3, <2>5, DeletedSound
  <2>7. InFlight = {} /\ active = {}
    BY <1>1 DEF Start, RowsInv, RowsHeld, Alive
  <2>8. InFlight' = {} /\ active' = {}
    BY <2>1, <2>7 DEF StartWith, InFlight
  <2> QED
    BY <2>2, <2>6, <2>8, EmptySound DEF RowsInv, RowsHeld
<1>2. CASE BeginStop \/ FatalException
  <2>1. /\ worker' = worker /\ active' = active /\ db' = db
        /\ disk' \in {db, disk} /\ Running /\ Running' /\ Alive'
    BY <1>2 DEF BeginStop, FatalException, Running, Alive
  <2> QED
    BY <2>1 DEF RowsInv, RowsHeld, TableSound, InFlight
<1>3. CASE StopProcessor
  BY <1>3
  DEF StopProcessor, RowsInv, RowsHeld, TableSound, InFlight, Running, Alive
<1>4. CASE StopProcessorLate
  <2>1. /\ db' = Updated(db, active, NewPending) /\ disk' = disk
        /\ active' = {} /\ worker' = worker /\ phase' = "stopped"
        /\ phase = "draining"
    BY <1>4 DEF StopProcessorLate, Release, Write
  <2>2. \A i \in active : i \in InFlight /\ db[i].status \in Unfinished
    BY DEF RowsInv, RowsHeld, Unfinished, Waiting
  <2>3. TableSound(db')
    BY <1>0, <2>1, <2>2, UpdatedSound DEF RowsInv, Unfinished
  <2>4. \A i \in InFlight : db[i] \in Row
    BY <1>0 DEF InFlight, RowsInv, RowsHeld, Table, NoRow
  <2>5. \A i \in InFlight : db'[i].status \in {"pending", "processing"}
    BY <2>1, <2>4
    DEF Updated, NewPending, Row, InFlight, RowsInv, RowsHeld
  <2>6. RowsHeld'
    BY <2>1, <2>5 DEF RowsHeld, InFlight, Running, Alive
  <2> QED
    BY <2>1, <2>3, <2>6 DEF RowsInv
<1>5. CASE Close \/ ForcedExit \/ Die \/ Kill
  <2>1. Exit /\ db' = EmptyTable /\ disk' \in {db, disk}
    BY <1>5 DEF Close, ForcedExit, Die, Kill
  <2>2. InFlight' = {} /\ active' = {}
    BY <2>1 DEF Exit, InFlight
  <2> QED
    BY <2>1, <2>2, EmptySound DEF RowsInv, RowsHeld
<1>6. CASE RebuildDatabase
  BY <1>6 DEF RebuildDatabase, Strike
<1> QED
  BY <1>1, <1>2, <1>3, <1>4, <1>5, <1>6 DEF Process

LEMMA RowsInit == Init => RowsInv
BY EmptySound DEF Init, RowsInv, RowsHeld, InFlight

LEMMA RowsStep ==
    ASSUME "wasm" \notin Faults
    PROVE  TypeOK /\ DispatchInv /\ RowsInv /\ [Next]_vars => RowsInv'
<1> SUFFICES ASSUME TypeOK, DispatchInv, RowsInv, [Next]_vars
             PROVE  RowsInv'
  OBVIOUS
<1>1. CASE UNCHANGED vars
  BY <1>1, HeldQuiet DEF vars, storeVars, workerVars, RowsInv, TableSound
<1> QED
  BY <1>1, RowsRequest, RowsTimer, RowsWorker, RowsProcess
  DEF Next, DispatchInv

\* A table read back from the file after a crash of sql.js is not the one its
\* workers left: that failure is set aside.
LEMMA RowsSafe ==
    ASSUME "wasm" \notin Faults
    PROVE  Spec => []RowsInv
<1>1. Spec => []TypeOK /\ []DispatchInv
  BY TypeCorrect, DispatchSound
<1> QED
  BY <1>1, RowsInit, RowsStep, PTL DEF Spec

\* A row that may print, or be retried, holds what to print, whatever fails
\* but sql.js itself.
THEOREM RowsKeep ==
    ASSUME "wasm" \notin Faults
    PROVE  Spec => []RowsKeepWhatTheyNeed
<1>1. RowsInv => RowsKeepWhatTheyNeed
  BY DEF RowsInv, RowsKeepWhatTheyNeed, TableSound, RowSound, Durable, Present
<1> QED
  BY <1>1, RowsSafe, PTL

-----------------------------------------------------------------------------
(* A key stays taken as long as its row exists *)

\* A step that creates no job: each of the two tables has rows left of one of
\* them, the file's after a rebuild or a start, the table's after a save.
RowsLeft ==
    /\ job' = job
    /\ \/ Present(db') \subseteq Present(db)
       \/ Present(db') \subseteq Present(disk)
    /\ \/ Present(disk') \subseteq Present(disk)
       \/ Present(disk') \subseteq Present(db)

Creates == \E k \in Keys, p \in Printers, prio \in Priorities :
              CreateJob(k, p, prio)

\* Every other step creates none.
LEMMA StepLeavesRows ==
    ASSUME TypeOK, [Next]_vars
    PROVE  RowsLeft \/ Creates
<1> USE DEF storeVars, workerVars
<1>0. /\ db \in Table /\ disk \in Table
      /\ EmptyTable \in Table /\ Present(EmptyTable) = {}
  BY EmptyIsTable DEF TypeOK, Present, EmptyTable
<1>1. CASE Request
  <2>1. ASSUME NEW i \in Ids, Cancel(i) \/ RetryJob(i)  PROVE RowsLeft
    BY <1>0, <2>1, NoRowCreated DEF Cancel, RetryJob, Write, RowsLeft
  <2>2. ASSUME ClearFailedJobs  PROVE RowsLeft
    BY <1>0, <2>2, NoRowCreated DEF ClearFailedJobs, Write, RowsLeft
  <2>3. ASSUME NEW p \in Printers, ChangePrinter(p)  PROVE RowsLeft
    BY <2>3 DEF ChangePrinter, RowsLeft
  <2>4. ASSUME Pause \/ Resume  PROVE RowsLeft
    BY <2>4 DEF Pause, Resume, RowsLeft
  <2> QED
    BY <1>1, <2>1, <2>2, <2>3, <2>4
    DEF Request, Enqueue, CreateTestJob, Creates
<1>2. CASE Timer
  <2>1. CASE Poll
    <3>1. PICK A, B : db' = Updated(Updated(db, A, NewProcessing),
                                    B, NewRefused)
      BY <2>1 DEF Poll, Write
    <3>2. Present(db') \subseteq Present(db)
      BY <1>0, <3>1, NoRowCreated, UpdatedTable
    <3> QED
      BY <2>1, <3>2 DEF Poll, Write, RowsLeft
  <2>2. CASE Cleanup
    BY <1>0, <2>2, NoRowCreated DEF Cleanup, Write, RowsLeft
  <2>3. CASE Save \/ \E i \in Ids : RetryDue(i) \/ JobTimeout(i)
    BY <2>3 DEF Save, RetryDue, JobTimeout, RowsLeft
  <2> QED
    BY <1>2, <2>1, <2>2, <2>3 DEF Timer
<1>3. ASSUME NEW i \in Ids, Worker(i)  PROVE RowsLeft
  <2>1. ASSUME NEW t \in Table, Present(t) \subseteq Present(db),
               NEW retryable, Fail(i, t, retryable), job' = job
        PROVE  RowsLeft
    BY <1>0, <2>1 DEF Fail, Write, RowsLeft, Present
  <2>2. ASSUME Complete(i), job' = job  PROVE RowsLeft
    BY <1>0, <2>2, NoRowCreated DEF Complete, Write, RowsLeft
  <2>3. WithRendering(i) \in Table
        /\ Present(WithRendering(i)) \subseteq Present(db)
    BY <1>0, RenderingTable, NoRowCreated DEF WithRendering
  <2>4. CASE StatusFails(i) \/ RenderFails(i) \/ PrintFails(i)
    BY <1>0, <2>1, <2>4 DEF StatusFails, RenderFails, PrintFails
  <2>5. CASE AbortedBeforePrint(i) \/ PrinterGone(i)
    BY <2>1, <2>3, <2>5 DEF AbortedBeforePrint, PrinterGone
  <2>6. CASE SendToPrinter(i)
    BY <2>3, <2>6 DEF SendToPrinter, RowsLeft
  <2>7. CASE PrintSucceeds(i) \/ DrawerDone(i)
    BY <2>2, <2>7 DEF PrintSucceeds, DrawerDone, RowsLeft
  <2> QED
    BY <1>3, <2>4, <2>5, <2>6, <2>7 DEF Worker
<1>4. CASE Process
  <2>1. CASE Start
    <3>1. PICK file \in {disk, EmptyTable} :
              StartWith(file) /\ disk' \in {disk, EmptyTable}
      BY <2>1 DEF Start
    <3>2. PICK stale, S : db' = Delete(Updated(file, stale, Recovered), S)
      BY <3>1 DEF StartWith
    <3>3. Present(db') \subseteq Present(file)
      BY <1>0, <3>1, <3>2, NoRowCreated, UpdatedTable
    <3> QED
      BY <1>0, <3>1, <3>3 DEF StartWith, RowsLeft
  <2>2. CASE BeginStop \/ StopProcessor \/ FatalException \/ RebuildDatabase
    BY <2>2 DEF BeginStop, StopProcessor, FatalException, RebuildDatabase,
                RowsLeft
  <2>3. CASE StopProcessorLate
    BY <1>0, <2>3, NoRowCreated
    DEF StopProcessorLate, Release, Write, RowsLeft
  <2>4. CASE Close \/ ForcedExit \/ Die \/ Kill
    <3>1. Exit /\ db' = EmptyTable /\ disk' \in {db, disk}
      BY <2>4 DEF Close, ForcedExit, Die, Kill
    <3> QED
      BY <1>0, <3>1 DEF Exit, RowsLeft
  <2> QED
    BY <1>4, <2>1, <2>2, <2>3, <2>4 DEF Process
<1>5. CASE UNCHANGED vars
  BY <1>5 DEF vars, RowsLeft
<1> QED
  BY <1>1, <1>2, <1>3, <1>4, <1>5 DEF Next

KeysDiffer(t) == \A i, j \in Present(t) : i # j => job[i].key # job[j].key

\* UniqueKeys made inductive: of the table and of the file.
KeysInv == KeysDiffer(db) /\ KeysDiffer(disk)

LEMMA KeysStep ==
    TypeOK /\ DispatchInv /\ KeysInv /\ [Next]_vars => KeysInv'
<1> SUFFICES ASSUME TypeOK, DispatchInv, KeysInv, [Next]_vars
             PROVE  KeysInv'
  OBVIOUS
<1>1. CASE RowsLeft
  BY <1>1 DEF RowsLeft, KeysInv, KeysDiffer
<1>2. ASSUME NEW k \in Keys, NEW p \in Printers, NEW prio \in Priorities,
             CreateJob(k, p, prio)
      PROVE  KeysInv'
  <2>1. PICK i \in Ids \ Created :
            /\ job' = [job EXCEPT ![i] = [key |-> k, printer |-> p,
                                          priority |-> prio]]
            /\ db' = [db EXCEPT ![i] = NewRow]
            /\ disk' = disk
    BY <1>2 DEF CreateJob, Write
  <2>2. /\ Present(db) \subseteq Created /\ Present(disk) \subseteq Created
        /\ Present(db') \subseteq Present(db) \cup {i}
    BY <2>1 DEF DispatchInv, RowsHaveJobs, Present, TypeOK, Table
  <2>3. /\ job'[i].key = k
        /\ \A j \in Created : j # i /\ job'[j] = job[j]
    BY <2>1 DEF TypeOK, Created
  <2>4. \A j \in Present(db) : job[j].key # k
    BY <1>2 DEF CreateJob, KeyTaken
  <2>5. ASSUME NEW a \in Present(db'), NEW b \in Present(db'), a # b
        PROVE  job'[a].key # job'[b].key
    <3>1. /\ a \in Present(db) => job'[a] = job[a] /\ job[a].key # k
          /\ b \in Present(db) => job'[b] = job[b] /\ job[b].key # k
      BY <2>2, <2>3, <2>4
    <3>2. CASE a \in Present(db) /\ b \in Present(db)
      BY <2>5, <3>1, <3>2 DEF KeysInv, KeysDiffer
    <3> QED
      BY <2>2, <2>3, <2>5, <3>1, <3>2
  <2>6. KeysDiffer(disk)'
    BY <2>1, <2>2, <2>3 DEF KeysInv, KeysDiffer
  <2> QED
    BY <2>5, <2>6 DEF KeysInv, KeysDiffer
<1> QED
  BY <1>1, <1>2, StepLeavesRows DEF Creates

\* A key stays taken as long as its row exists, through retries, restarts,
\* sweeps and the loss of either copy.
THEOREM KeysUnique == Spec => []UniqueKeys
<1>1. Init => KeysInv
  BY DEF Init, KeysInv, KeysDiffer, Present, EmptyTable
<1>2. KeysInv => UniqueKeys
  BY DEF KeysInv, KeysDiffer, UniqueKeys, Durable
<1>3. Spec => []TypeOK /\ []DispatchInv
  BY TypeCorrect, DispatchSound
<1> QED
  BY <1>1, <1>2, <1>3, KeysStep, PTL DEF Spec

-----------------------------------------------------------------------------
(* The backlog stays below its ceiling *)

Backlog(t) == InStatus(t, Unfinished)

\* BacklogBounded made inductive: of the table and of the file.
BacklogInv ==
    MaxQueueDepth > 0 => /\ Cardinality(Backlog(db)) <= MaxQueueDepth
                         /\ Cardinality(Backlog(disk)) <= MaxQueueDepth

\* A step that adds nothing to the backlog.
BacklogLeft ==
    /\ \/ Backlog(db)' \subseteq Backlog(db)
       \/ Backlog(db)' \subseteq Backlog(disk)
    /\ \/ Backlog(disk)' \subseteq Backlog(disk)
       \/ Backlog(disk)' \subseteq Backlog(db)

Enqueues == \E k \in Keys, p \in Printers, prio \in Priorities :
               Enqueue(k, p, prio)

\* Only a new job, a test page or an operator's retry adds to the backlog: a
\* worker that fails has a row that is in the backlog already.
LEMMA StepLeavesBacklog ==
    ASSUME TypeOK, RowsInv, [Next]_vars,
           Ops \cap {"test", "retry"} = {}, "wasm" \notin Faults
    PROVE  BacklogLeft \/ Enqueues
<1> USE DEF storeVars, workerVars, Backlog, InStatus
<1>0. /\ db \in Table /\ disk \in Table
      /\ EmptyTable \in Table /\ Backlog(EmptyTable) = {}
  BY EmptyIsTable
  DEF TypeOK, EmptyTable, NoRow, Unfinished, Waiting
<1>6. Terminal \cap Unfinished = {} /\ "absent" \notin Unfinished
      /\ "dead_letter" \in Terminal
  BY DEF Terminal, Unfinished, Waiting
<1>7. {"pending", "processing", "retry_scheduled"} \subseteq Unfinished
      /\ Waiting \subseteq Unfinished
  BY DEF Unfinished, Waiting
<1>1. CASE Request
  <2>1. ASSUME NEW i \in Ids, Cancel(i)  PROVE BacklogLeft
    <3>1. Backlog(db') \subseteq Backlog(db)
      BY <1>0, <1>6, <2>1, StatusAfter DEF Cancel, Write, Terminal
    <3> QED
      BY <2>1, <3>1 DEF Cancel, Write, BacklogLeft
  <2>2. ASSUME ClearFailedJobs  PROVE BacklogLeft
    <3>1. Backlog(db') \subseteq Backlog(db)
      BY <1>0, <1>6, <2>2, StatusAfter DEF ClearFailedJobs, Write
    <3> QED
      BY <2>2, <3>1 DEF ClearFailedJobs, Write, BacklogLeft
  <2>3. ASSUME NEW p \in Printers, ChangePrinter(p)  PROVE BacklogLeft
    BY <2>3 DEF ChangePrinter, BacklogLeft
  <2>4. ASSUME Pause \/ Resume  PROVE BacklogLeft
    BY <2>4 DEF Pause, Resume, BacklogLeft
  <2> QED
    BY <1>1, <2>1, <2>2, <2>3, <2>4
    DEF Request, CreateTestJob, RetryJob, Enqueues
<1>2. CASE Timer
  <2>1. CASE Poll
    <3> DEFINE started == {i \in Batch : job[i].printer \in registered}
               refused == Batch \ started
               marked  == Updated(db, started, NewProcessing)
    <3>1. db' = Updated(marked, refused, NewRefused) /\ disk' = disk
      BY <2>1 DEF Poll, Write
    <3> HIDE DEF started
    <3>2. started \subseteq Batch
      BY DEF started
    <3>3. \A i \in Batch : db[i].status \in Unfinished
      BY <1>7 DEF Batch, Heads, Candidates, Ready
    <3>4. marked \in Table /\ Backlog(marked) \subseteq Backlog(db)
      BY <1>0, <3>2, <3>3, UpdatedTable, StatusAfter
    <3>5. Backlog(db') \subseteq Backlog(marked)
      BY <1>6, <3>1, <3>4, StatusAfter
    <3> QED
      BY <3>1, <3>4, <3>5 DEF BacklogLeft
  <2>2. CASE Cleanup
    <3>1. Backlog(db') \subseteq Backlog(db) /\ disk' = disk
      BY <1>0, <1>6, <2>2, StatusAfter DEF Cleanup, Write
    <3> QED
      BY <3>1 DEF BacklogLeft
  <2>3. CASE Save \/ \E i \in Ids : RetryDue(i) \/ JobTimeout(i)
    BY <2>3 DEF Save, RetryDue, JobTimeout, BacklogLeft
  <2> QED
    BY <1>2, <2>1, <2>2, <2>3 DEF Timer
<1>3. ASSUME NEW i \in Ids, Worker(i)  PROVE BacklogLeft
  <2>0. i \in InFlight /\ db[i].status \in Unfinished
    BY <1>3, <1>7
    DEF Worker, StatusFails, RenderFails, AbortedBeforePrint, PrinterGone,
        SendToPrinter, PrintFails, PrintSucceeds, DrawerDone, InFlight,
        RowsInv, RowsHeld
  <2>1. ASSUME NEW t \in Table, Backlog(t) \subseteq Backlog(db),
               NEW retryable, Fail(i, t, retryable)
        PROVE  BacklogLeft
    <3>1. \A j \in Ids : db'[j].status \in Unfinished
                            => j = i \/ t[j].status \in Unfinished
      BY <2>1 DEF Fail, Write
    <3>2. Backlog(db') \subseteq Backlog(db) /\ disk' = disk
      BY <2>0, <2>1, <3>1 DEF Fail, Write
    <3> QED
      BY <3>2 DEF BacklogLeft
  <2>2. ASSUME Complete(i)  PROVE BacklogLeft
    <3>1. Backlog(db') \subseteq Backlog(db) /\ disk' = disk
      BY <1>0, <2>0, <2>2, StatusAfter DEF Complete, Write
    <3> QED
      BY <3>1 DEF BacklogLeft
  <2>3. WithRendering(i) \in Table
        /\ Backlog(WithRendering(i)) \subseteq Backlog(db)
    BY <1>0, RenderingTable, StatusAfter DEF WithRendering
  <2>4. CASE StatusFails(i) \/ RenderFails(i) \/ PrintFails(i)
    BY <1>0, <2>1, <2>4 DEF StatusFails, RenderFails, PrintFails
  <2>5. CASE AbortedBeforePrint(i) \/ PrinterGone(i)
    BY <2>1, <2>3, <2>5 DEF AbortedBeforePrint, PrinterGone
  <2>6. CASE SendToPrinter(i)
    BY <2>3, <2>6 DEF SendToPrinter, BacklogLeft
  <2>7. CASE PrintSucceeds(i) \/ DrawerDone(i)
    BY <2>2, <2>7 DEF PrintSucceeds, DrawerDone, BacklogLeft
  <2> QED
    BY <1>3, <2>4, <2>5, <2>6, <2>7 DEF Worker
<1>4. CASE Process
  <2>1. CASE Start
    <3>1. PICK file \in {disk, EmptyTable} :
              StartWith(file) /\ disk' \in {disk, EmptyTable}
      BY <2>1 DEF Start
    <3>2. PICK stale \in Stale(file) :
              \E S : db' = Delete(Updated(file, stale, Recovered), S)
      BY <3>1 DEF StartWith
    <3>3. \A i \in stale : file[i].status \in Unfinished
      BY <1>7 DEF Stale
    <3>4. file \in Table /\ Updated(file, stale, Recovered) \in Table
      BY <1>0, <3>1, UpdatedTable
    <3>5. Backlog(Updated(file, stale, Recovered)) \subseteq Backlog(file)
      BY <3>3, <3>4, StatusAfter
    <3>6. Backlog(db') \subseteq Backlog(Updated(file, stale, Recovered))
      BY <1>6, <3>2, <3>4, StatusAfter
    <3>7. Backlog(db') \subseteq Backlog(disk)
      BY <1>0, <3>1, <3>5, <3>6
    <3>8. Backlog(disk') \subseteq Backlog(disk)
      BY <1>0, <3>1
    <3> QED
      BY <3>7, <3>8 DEF BacklogLeft
  <2>2. CASE BeginStop \/ StopProcessor \/ FatalException
    BY <2>2 DEF BeginStop, StopProcessor, FatalException, BacklogLeft
  <2>3. CASE StopProcessorLate
    <3>1. db' = Updated(db, active, NewPending) /\ disk' = disk
      BY <2>3 DEF StopProcessorLate, Release, Write
    <3>2. \A i \in active : db[i].status \in Unfinished
      BY <1>7 DEF RowsInv, RowsHeld
    <3>3. Backlog(db') \subseteq Backlog(db)
      BY <1>0, <3>1, <3>2, StatusAfter
    <3> QED
      BY <3>1, <3>3 DEF BacklogLeft
  <2>4. CASE Close \/ ForcedExit \/ Die \/ Kill
    <3>1. db' = EmptyTable /\ disk' \in {db, disk}
      BY <2>4 DEF Close, ForcedExit, Die, Kill
    <3> QED
      BY <1>0, <3>1 DEF BacklogLeft
  <2>5. ~RebuildDatabase
    BY DEF RebuildDatabase, Strike
  <2> QED
    BY <1>4, <2>1, <2>2, <2>3, <2>4, <2>5 DEF Process
<1>5. CASE UNCHANGED vars
  BY <1>5 DEF vars, BacklogLeft
<1> QED
  BY <1>1, <1>2, <1>3, <1>4, <1>5 DEF Next

LEMMA BacklogStep ==
    ASSUME Ops \cap {"test", "retry"} = {}, "wasm" \notin Faults
    PROVE  TypeOK /\ RowsInv /\ BacklogInv /\ [Next]_vars => BacklogInv'
<1> SUFFICES ASSUME TypeOK, RowsInv, BacklogInv, [Next]_vars,
                    MaxQueueDepth > 0
             PROVE  /\ Cardinality(Backlog(db)') <= MaxQueueDepth
                    /\ Cardinality(Backlog(disk)') <= MaxQueueDepth
  BY DEF BacklogInv
<1>1. /\ \A S \in SUBSET Ids : IsFiniteSet(S) /\ Cardinality(S) \in Nat
      /\ MaxQueueDepth \in Nat
  BY IdsFinite, QueueAssumption
<1>2. /\ Backlog(db) \in SUBSET Ids /\ Backlog(disk) \in SUBSET Ids
      /\ Backlog(db)' \in SUBSET Ids /\ Backlog(disk)' \in SUBSET Ids
  BY DEF Backlog, InStatus
<1>3. /\ Cardinality(Backlog(db)) <= MaxQueueDepth
      /\ Cardinality(Backlog(disk)) <= MaxQueueDepth
  BY DEF BacklogInv
<1>4. ASSUME NEW S \in SUBSET Ids, NEW T \in SUBSET Ids, S \subseteq T,
             Cardinality(T) <= MaxQueueDepth
      PROVE  Cardinality(S) <= MaxQueueDepth
  <2>1. Cardinality(S) <= Cardinality(T)
    BY <1>1, <1>4, FS_Subset
  <2> QED
    BY <1>1, <1>4, <2>1
<1>5. CASE BacklogLeft
  BY <1>2, <1>3, <1>4, <1>5 DEF BacklogLeft
<1>6. CASE Enqueues
  <2>1. PICK i \in Ids : db' = [db EXCEPT ![i] = NewRow] /\ disk' = disk
    BY <1>6 DEF Enqueues, Enqueue, CreateJob, Write
  <2>2. Backlog(db)' \subseteq Backlog(db) \cup {i}
    BY <2>1 DEF Backlog, InStatus, TypeOK, Table
  <2>3. /\ Cardinality(Backlog(db)) + 1 <= MaxQueueDepth
        /\ Cardinality(Backlog(db)) \in Nat /\ IsFiniteSet(Backlog(db))
    BY <1>1, <1>2, <1>6
    DEF Enqueues, Enqueue, BelowCeiling, UnfinishedCount, Backlog
  <2>4. Cardinality(Backlog(db) \cup {i})
           \in {Cardinality(Backlog(db)), Cardinality(Backlog(db)) + 1}
    BY <2>3, FS_AddElement
  <2>5. Backlog(db) \cup {i} \in SUBSET Ids
    BY <1>2
  <2>6. Cardinality(Backlog(db) \cup {i}) <= MaxQueueDepth
    BY <1>1, <2>3, <2>4, <2>5
  <2>7. Cardinality(Backlog(db)') <= MaxQueueDepth
    BY <1>2, <1>4, <2>2, <2>5, <2>6
  <2> QED
    BY <1>3, <2>1, <2>7 DEF Backlog, InStatus
<1> QED
  BY <1>5, <1>6, StepLeavesBacklog

\* Of jobs that clients ask for, no more than maxQueueDepth wait or print,
\* whatever is retried by itself, aborted, killed or started again.
THEOREM BacklogStaysBounded ==
    ASSUME Ops \cap {"test", "retry"} = {}, "wasm" \notin Faults
    PROVE  Spec => []BacklogBounded
<1>1. Init => BacklogInv
  <2>1. Init => Backlog(db) = {} /\ Backlog(disk) = {}
    BY DEF Init, Backlog, InStatus, EmptyTable, NoRow, Unfinished, Waiting
  <2> QED
    BY <2>1, FS_EmptySet, QueueAssumption DEF BacklogInv
<1>2. BacklogInv => BacklogBounded
  BY DEF BacklogInv, BacklogBounded, Backlog
<1>3. Spec => []TypeOK /\ []RowsInv
  BY TypeCorrect, RowsSafe
<1> QED
  BY <1>1, <1>2, <1>3, BacklogStep, PTL DEF Spec

-----------------------------------------------------------------------------
(* The ledger *)

Status(i) == Durable[i].status

\* What the records say of one job as long as nothing has failed.
JobClean(i) ==
    /\ Status(i) = "absent" <=> i \notin Created \/ i \in forgotten
    /\ Status(i) = "processing" <=> worker[i] # "idle"
    /\ printed[i] \in 0 .. 1
    /\ i \notin forgotten =>
          (printed[i] = 1 <=> Status(i) = "completed" \/ worker[i] = "drawer")
    /\ i \in withdrawn => Status(i) \in {"cancelled", "absent"}
    /\ forgotten \cup withdrawn \subseteq Created

CleanLedger ==
    /\ phase # "dying"
    /\ phase = "stopped" => InFlight = {}
    /\ \A i \in Ids : JobClean(i)

\* The inductive invariant behind the refinement of JobLedger.
LedgerInv == faults = 0 => CleanLedger

\* What one step may do to one job.
SameNotes(i) == /\ i \in Created' <=> i \in Created
                /\ i \in forgotten' <=> i \in forgotten
                /\ i \in withdrawn' <=> i \in withdrawn

SamePaper(i) == printed'[i] = printed[i]

AtRest(i) == worker[i] = "idle" /\ worker'[i] = "idle"

Stays(i) ==
    /\ Status(i)' = Status(i)
    /\ worker'[i] = "idle" <=> worker[i] = "idle"
    /\ worker'[i] = "drawer" <=> worker[i] = "drawer"
    /\ SameNotes(i)
    /\ SamePaper(i)

IsAccepted(i) ==
    /\ i \notin Created /\ i \in Created'
    /\ Status(i)' = "pending"
    /\ AtRest(i) /\ SamePaper(i)
    /\ i \in forgotten' <=> i \in forgotten
    /\ i \in withdrawn' <=> i \in withdrawn

IsDispatched(i) ==
    /\ Status(i) \in Waiting /\ Status(i)' = "processing"
    /\ worker'[i] = "status"
    /\ SameNotes(i) /\ SamePaper(i)

IsRefused(i) ==
    /\ Status(i) \in Waiting /\ Status(i)' = "dead_letter"
    /\ AtRest(i) /\ SameNotes(i) /\ SamePaper(i)

IsRetried(i) ==
    /\ Status(i) = "dead_letter" /\ Status(i)' = "pending"
    /\ AtRest(i) /\ SameNotes(i) /\ SamePaper(i)

IsCancelled(i) ==
    /\ Status(i) \in Waiting /\ Status(i)' = "cancelled"
    /\ AtRest(i) /\ SamePaper(i)
    /\ i \in Created' <=> i \in Created
    /\ i \in forgotten' <=> i \in forgotten

IsForgotten(i) ==
    /\ Status(i) \in Terminal /\ Status(i)' = "absent"
    /\ i \in forgotten'
    /\ AtRest(i) /\ SamePaper(i)
    /\ i \in Created' <=> i \in Created
    /\ i \in withdrawn' <=> i \in withdrawn

HasFailed(i) ==
    /\ worker[i] \in {"status", "print"} /\ worker'[i] = "idle"
    /\ Status(i)' \in {"retry_scheduled", "dead_letter"}
    /\ SameNotes(i) /\ SamePaper(i)

HasPrinted(i) ==
    /\ worker[i] = "print" /\ printed'[i] = CameOut({i})[i]
    /\ \/ worker'[i] = "drawer" /\ Status(i)' = Status(i)
       \/ worker'[i] = "idle" /\ Status(i)' = "completed"
    /\ SameNotes(i)

IsDone(i) ==
    /\ worker[i] = "drawer" /\ worker'[i] = "idle"
    /\ Status(i)' = "completed"
    /\ SameNotes(i) /\ SamePaper(i)

JobStep(i) ==
    \/ Stays(i) \/ IsAccepted(i) \/ IsDispatched(i) \/ IsRefused(i)
    \/ IsRetried(i) \/ IsCancelled(i) \/ IsForgotten(i) \/ HasFailed(i)
    \/ HasPrinted(i) \/ IsDone(i)

\* The status of a job is one the code writes, or its row is gone.
LEMMA StatusType ==
    ASSUME TypeOK, NEW i \in Ids
    PROVE  Status(i) \in Unfinished \cup Terminal \cup {"absent"}
BY StatusAfter DEF TypeOK, Status, Durable

\* Each of those keeps the records of its job in agreement.
LEMMA JobStepClean ==
    ASSUME TypeOK, TypeOK', NEW i \in Ids, JobClean(i), JobStep(i),
           (forgotten \cup withdrawn \subseteq Created)'
    PROVE  JobClean(i)'
<1>1. Status(i) \in Unfinished \cup Terminal \cup {"absent"}
  BY StatusType
<1>2. worker[i] \in {"idle", "status", "print", "drawer"}
  BY DEF TypeOK
<1> USE DEF JobClean, Unfinished, Waiting, Terminal, SameNotes, SamePaper,
            AtRest
<1>3. CASE Stays(i)
  BY <1>3 DEF Stays
<1>4. CASE IsAccepted(i)
  BY <1>1, <1>4 DEF IsAccepted
<1>5. CASE IsDispatched(i)
  BY <1>5 DEF IsDispatched
<1>6. CASE IsRefused(i) \/ IsRetried(i)
  BY <1>6 DEF IsRefused, IsRetried
<1>7. CASE IsCancelled(i)
  BY <1>7 DEF IsCancelled
<1>8. CASE IsForgotten(i)
  BY <1>8 DEF IsForgotten
<1>9. CASE HasFailed(i)
  BY <1>9 DEF HasFailed
<1>10. CASE HasPrinted(i)
  BY <1>10 DEF HasPrinted, CameOut
<1>11. CASE IsDone(i)
  BY <1>11 DEF IsDone
<1> QED
  BY <1>3, <1>4, <1>5, <1>6, <1>7, <1>8, <1>9, <1>10, <1>11 DEF JobStep

\* And is a move of the ledger, or none.
LEMMA JobStepMoves ==
    ASSUME TypeOK, TypeOK', NEW i \in Ids, JobClean(i), JobClean(i)', JobStep(i)
    PROVE  Ledger!Move(i) \/ Ledger!Stay(i)
<1> DEFINE s == Standing(i)
           move == <<s, s'>>
<1>1. Status(i) \in Unfinished \cup Terminal \cup {"absent"}
  BY StatusType
<1>2. worker[i] \in {"idle", "status", "print", "drawer"}
  BY DEF TypeOK
<1>3. SUFFICES \/ move \in Ledger!Silent /\ printed'[i] = printed[i]
               \/ move \in Ledger!Printing /\ printed'[i] = printed[i] + 1
               \/ s' = s /\ printed'[i] = printed[i]
  BY DEF Ledger!Move, Ledger!Stay
<1> USE DEF JobClean, Unfinished, Waiting, Terminal, SameNotes, SamePaper,
            AtRest, Status, Standing, Ledger!Silent, Ledger!Printing
<1>4. CASE Stays(i)
  BY <1>1, <1>2, <1>4 DEF Stays
<1>5. CASE IsAccepted(i)
  BY <1>1, <1>5 DEF IsAccepted
<1>6. CASE IsDispatched(i)
  BY <1>6 DEF IsDispatched
<1>7. CASE IsRefused(i)
  BY <1>7 DEF IsRefused
<1>8. CASE IsRetried(i)
  BY <1>8 DEF IsRetried
<1>9. CASE IsCancelled(i)
  BY <1>9 DEF IsCancelled
<1>10. CASE IsForgotten(i)
  BY <1>10 DEF IsForgotten
<1>11. CASE HasFailed(i)
  BY <1>11 DEF HasFailed
<1>12. CASE HasPrinted(i)
  <2>1. worker[i] = "print" /\ Status(i) = "processing"
    BY <1>12 DEF HasPrinted
  <2>2. s = "in_flight" /\ i \notin forgotten
    BY <2>1
  <2>3. printed[i] = 0
    BY <2>1, <2>2
  <2>4. printed'[i] = printed[i] + 1
    BY <1>12, <2>3 DEF HasPrinted, CameOut
  <2>5. s' \in {"printed", "done"}
    BY <1>12, <2>1 DEF HasPrinted
  <2> QED
    BY <2>2, <2>4, <2>5
<1>13. CASE IsDone(i)
  BY <1>13 DEF IsDone
<1> QED
  BY <1>4, <1>5, <1>6, <1>7, <1>8, <1>9, <1>10, <1>11, <1>12, <1>13
  DEF JobStep

\* A job that a step has nothing to do with.
LEMMA OthersStay ==
    ASSUME NEW j \in Ids, Status(j)' = Status(j), worker'[j] = worker[j],
           printed'[j] = printed[j], SameNotes(j)
    PROVE  JobStep(j)
BY DEF JobStep, Stays, SamePaper

\* The steps of clients and operators.
LEMMA LedgerRequest ==
    ASSUME TypeOK, CleanLedger, Request
    PROVE  /\ \A j \in Ids : JobStep(j)
           /\ (forgotten \cup withdrawn \subseteq Created)'
           /\ phase' = phase
<1> USE DEF workerVars, storeVars, ghostVars
<1>0. /\ db \in Table /\ Ids \cap Created = Created
      /\ \A j \in Ids : JobClean(j)
      /\ forgotten \cup withdrawn \subseteq Created
  <2>1. \A j \in Ids : JobClean(j)
    BY DEF CleanLedger
  <2>2. forgotten \cup withdrawn \subseteq Created
    BY <2>1 DEF JobClean, TypeOK
  <2> QED
    BY <2>1, <2>2 DEF TypeOK, Created
<1>1. /\ worker' = worker /\ printed' = printed /\ phase' = phase
  BY DEF Request, Enqueue, CreateTestJob, CreateJob, Cancel, RetryJob,
         ClearFailedJobs, Pause, Resume, ChangePrinter
<1>2. Accepting => \A j \in Ids : Status(j) = db[j].status /\
                                  Status(j)' = db'[j].status
  BY <1>1 DEF Accepting, Status, Durable
<1>3. ASSUME NEW k \in Keys, NEW p \in Printers, NEW prio \in Priorities,
             CreateJob(k, p, prio), Accepting
      PROVE  /\ \A j \in Ids : JobStep(j)
             /\ (forgotten \cup withdrawn \subseteq Created)'
  <2>1. PICK i \in Ids \ Created :
            /\ job' = [job EXCEPT ![i] = [key |-> k, printer |-> p,
                                          priority |-> prio]]
            /\ db' = [db EXCEPT ![i] = NewRow]
    BY <1>3 DEF CreateJob, Write
  <2>2. /\ forgotten' = forgotten /\ withdrawn' = withdrawn
        /\ Created' = Created \cup {i}
    BY <1>3, <2>1 DEF CreateJob, Created, TypeOK, NoJob
  <2>3. db'[i].status = "pending" /\ \A j \in Ids \ {i} : db'[j] = db[j]
    BY <1>0, <2>1 DEF Table, NewRow
  <2>4. worker[i] = "idle"
    BY <1>0, <1>2, <1>3, <2>1 DEF JobClean
  <2>5. IsAccepted(i)
    BY <1>1, <1>2, <1>3, <2>1, <2>2, <2>3, <2>4
    DEF IsAccepted, AtRest, SamePaper
  <2>6. \A j \in Ids \ {i} : JobStep(j)
    BY <1>1, <1>2, <1>3, <2>2, <2>3, OthersStay DEF SameNotes
  <2> QED
    BY <1>0, <2>2, <2>5, <2>6 DEF JobStep
<1>4. ASSUME NEW i \in Ids, Cancel(i)
      PROVE  /\ \A j \in Ids : JobStep(j)
             /\ (forgotten \cup withdrawn \subseteq Created)'
  <2>1. /\ db' = Updated(db, {i}, NewCancelled) /\ Accepting
        /\ db[i].status \in Waiting /\ withdrawn' = withdrawn \cup {i}
        /\ forgotten' = forgotten /\ Created' = Created
    BY <1>4 DEF Cancel, Cancellable, Write, Created
  <2>2. i \in Present(db) /\ i \in Created /\ worker[i] = "idle"
    BY <1>0, <1>2, <2>1, StatusAfter DEF JobClean, Waiting
  <2>3. /\ db'[i].status = "cancelled"
        /\ \A j \in Ids \ {i} : db'[j] = db[j]
    BY <1>0, <2>1, <2>2, StatusAfter
  <2>4. IsCancelled(i)
    BY <1>1, <1>2, <2>1, <2>2, <2>3 DEF IsCancelled, AtRest, SamePaper
  <2>5. \A j \in Ids \ {i} : JobStep(j)
    BY <1>1, <1>2, <2>1, <2>3, OthersStay DEF SameNotes
  <2> QED
    BY <1>0, <2>1, <2>2, <2>4, <2>5 DEF JobStep
<1>5. ASSUME NEW i \in Ids, RetryJob(i)
      PROVE  /\ \A j \in Ids : JobStep(j)
             /\ (forgotten \cup withdrawn \subseteq Created)'
  <2>1. /\ db' = Updated(db, {i}, NewRetried) /\ Accepting
        /\ db[i].status = "dead_letter" /\ withdrawn' = withdrawn
        /\ forgotten' = forgotten /\ Created' = Created
    BY <1>5 DEF RetryJob, Retryable, Write, Created
  <2>2. i \in Present(db) /\ worker[i] = "idle"
    BY <1>0, <1>2, <2>1, StatusAfter DEF JobClean
  <2>3. /\ db'[i].status = "pending"
        /\ \A j \in Ids \ {i} : db'[j] = db[j]
    BY <1>0, <2>1, <2>2, StatusAfter
  <2>4. IsRetried(i)
    BY <1>1, <1>2, <2>1, <2>2, <2>3
    DEF IsRetried, AtRest, SamePaper, SameNotes
  <2>5. \A j \in Ids \ {i} : JobStep(j)
    BY <1>1, <1>2, <2>1, <2>3, OthersStay DEF SameNotes
  <2> QED
    BY <1>0, <2>1, <2>4, <2>5 DEF JobStep
<1>6. ASSUME ClearFailedJobs
      PROVE  /\ \A j \in Ids : JobStep(j)
             /\ (forgotten \cup withdrawn \subseteq Created)'
  <2> DEFINE failed == InStatus(db, {"dead_letter"})
  <2>1. /\ db' = Delete(db, failed) /\ Accepting
        /\ forgotten' = forgotten \cup failed
        /\ withdrawn' = withdrawn /\ Created' = Created
    BY <1>6 DEF ClearFailedJobs, Write, Created
  <2>2. \A j \in failed : j \in Ids /\ Status(j) = "dead_letter"
    BY <1>2, <2>1 DEF InStatus
  <2>3. \A j \in failed : j \in Created /\ worker[j] = "idle"
    BY <1>0, <2>2 DEF JobClean
  <2>4. \A j \in Ids : db'[j].status = IF j \in failed THEN "absent"
                                       ELSE db[j].status
    BY <1>0, <2>1, StatusAfter
  <2> HIDE DEF failed
  <2>5. \A j \in failed : IsForgotten(j)
    BY <1>1, <1>2, <2>1, <2>2, <2>3, <2>4
    DEF IsForgotten, AtRest, SamePaper, Terminal
  <2>6. \A j \in Ids \ failed : JobStep(j)
    BY <1>1, <1>2, <2>1, <2>4, OthersStay DEF SameNotes
  <2> QED
    BY <1>0, <2>1, <2>3, <2>5, <2>6 DEF JobStep
<1>7. ASSUME Pause \/ Resume \/ \E p \in Printers : ChangePrinter(p)
      PROVE  /\ \A j \in Ids : JobStep(j)
             /\ (forgotten \cup withdrawn \subseteq Created)'
  <2>1. /\ db' = db /\ job' = job /\ Accepting
        /\ forgotten' = forgotten /\ withdrawn' = withdrawn
    BY <1>7 DEF Pause, Resume, ChangePrinter
  <2>2. Created' = Created
    BY <2>1 DEF Created
  <2> QED
    BY <1>0, <1>1, <1>2, <2>1, <2>2, OthersStay DEF SameNotes
<1> QED
  BY <1>1, <1>3, <1>4, <1>5, <1>6, <1>7
  DEF Request, Enqueue, CreateTestJob

\* The steps of the poll, the save, the sweep and the clocks.
LEMMA LedgerTimer ==
    ASSUME TypeOK, CleanLedger, Timer
    PROVE  /\ \A j \in Ids : JobStep(j)
           /\ (forgotten \cup withdrawn \subseteq Created)'
           /\ phase' = phase
<1> USE DEF workerVars, storeVars, ghostVars
<1>0. /\ db \in Table
      /\ \A j \in Ids : JobClean(j)
      /\ forgotten \cup withdrawn \subseteq Created
  <2>1. \A j \in Ids : JobClean(j)
    BY DEF CleanLedger
  <2> QED
    BY <2>1 DEF JobClean, TypeOK
<1>1. /\ printed' = printed /\ phase' = phase /\ Alive
      /\ withdrawn' = withdrawn /\ Created' = Created
  BY DEF Timer, Poll, Save, Cleanup, RetryDue, JobTimeout, Running, Alive,
         Created
<1>2. \A j \in Ids : /\ Status(j) = db[j].status
                     /\ Status(j)' = db'[j].status
  BY <1>1 DEF Alive, Status, Durable
<1>3. CASE Poll
  <2> DEFINE started == {i \in Batch : job[i].printer \in registered}
             refused == Batch \ started
             marked  == Updated(db, started, NewProcessing)
  <2>1. /\ db' = Updated(marked, refused, NewRefused)
        /\ worker' = [i \in Ids |-> IF i \in started THEN "status"
                                    ELSE worker[i]]
        /\ forgotten' = forgotten
    BY <1>3 DEF Poll, Write
  <2> HIDE DEF started
  <2>2. started \subseteq Batch
    BY DEF started
  <2>3. \A i \in Batch : /\ i \in Ids /\ Status(i) \in Waiting
                         /\ i \in Present(db)
    BY <1>0, <1>2, StatusAfter DEF Batch, Heads, Candidates, Ready, Waiting
  <2>4. \A i \in Batch : worker[i] = "idle"
    BY <1>0, <2>3 DEF JobClean, Waiting
  <2>5. marked \in Table
    BY <1>0, UpdatedTable
  <2>6. /\ \A j \in started : marked[j].status = "processing"
        /\ \A j \in Ids \ started : marked[j] = db[j]
    BY <1>0, <2>2, <2>3, StatusAfter
  <2>7. \A j \in refused : j \in Present(marked)
    BY <1>0, <2>3, <2>5, <2>6, StatusAfter
  <2> HIDE DEF marked
  <2>8. /\ \A j \in refused : db'[j].status = "dead_letter"
        /\ \A j \in Ids \ refused : db'[j] = marked[j]
    BY <2>1, <2>3, <2>5, <2>7, StatusAfter
  <2>9. ASSUME NEW j \in started  PROVE IsDispatched(j)
    <3>1. j \in Ids /\ j \in Batch /\ j \notin refused
      BY <2>2, <2>3
    <3>2. db'[j].status = "processing" /\ worker'[j] = "status"
      BY <2>1, <2>6, <2>8, <3>1
    <3> QED
      BY <1>1, <1>2, <2>1, <2>3, <3>1, <3>2
      DEF IsDispatched, SameNotes, SamePaper
  <2>10. \A j \in refused : IsRefused(j)
    BY <1>1, <1>2, <2>1, <2>3, <2>4, <2>8
    DEF IsRefused, AtRest, SameNotes, SamePaper
  <2>11. ASSUME NEW j \in Ids \ Batch  PROVE JobStep(j)
    <3>1. j \notin started /\ j \notin refused
      BY <2>2
    <3>2. db'[j] = db[j] /\ worker'[j] = worker[j]
      BY <2>1, <2>6, <2>8, <3>1
    <3> QED
      BY <1>1, <1>2, <2>1, <3>2, OthersStay DEF SameNotes
  <2> QED
    BY <1>0, <1>1, <2>1, <2>3, <2>9, <2>10, <2>11 DEF JobStep
<1>4. CASE Cleanup
  <2>1. PICK S \in Sweeps(db) :
            /\ db' = Delete(db, S)
            /\ forgotten' = forgotten \cup (S \cap InStatus(db, Terminal))
    BY <1>4 DEF Cleanup, Write
  <2>2. \A j \in S : j \in Ids /\ Status(j) \in Terminal
    BY <1>2 DEF Sweeps, InStatus
  <2>3. \A j \in S : j \in Created /\ worker[j] = "idle"
    BY <1>0, <2>2 DEF JobClean, Terminal
  <2>4. \A j \in Ids : db'[j].status = IF j \in S THEN "absent"
                                       ELSE db[j].status
    BY <1>0, <2>1, StatusAfter
  <2>5. worker' = worker /\ forgotten' = forgotten \cup S
    BY <1>2, <1>4, <2>1, <2>2 DEF Cleanup, InStatus
  <2>6. \A j \in S : IsForgotten(j)
    BY <1>1, <1>2, <2>2, <2>3, <2>4, <2>5 DEF IsForgotten, AtRest, SamePaper
  <2>7. \A j \in Ids \ S : JobStep(j)
    BY <1>1, <1>2, <2>4, <2>5, OthersStay DEF SameNotes
  <2> QED
    BY <1>0, <1>1, <2>3, <2>5, <2>6, <2>7 DEF JobStep
<1>5. CASE Save \/ \E i \in Ids : RetryDue(i) \/ JobTimeout(i)
  <2>1. db' = db /\ worker' = worker /\ forgotten' = forgotten
    BY <1>5 DEF Save, RetryDue, JobTimeout
  <2> QED
    BY <1>0, <1>1, <1>2, <2>1, OthersStay DEF SameNotes
<1> QED
  BY <1>1, <1>3, <1>4, <1>5 DEF Timer

\* The steps of a worker, a print reported as failed having failed.
LEMMA LedgerWorker ==
    ASSUME TypeOK, WorkersTracked, CleanLedger, NEW i \in Ids, Worker(i),
           faults' = faults
    PROVE  /\ \A j \in Ids : JobStep(j)
           /\ (forgotten \cup withdrawn \subseteq Created)'
           /\ phase' = phase
<1> USE DEF workerVars, storeVars, ghostVars
<1>0. /\ db \in Table
      /\ \A j \in Ids : JobClean(j)
      /\ forgotten \cup withdrawn \subseteq Created
  <2>1. \A j \in Ids : JobClean(j)
    BY DEF CleanLedger
  <2> QED
    BY <2>1 DEF JobClean, TypeOK
<1>1. /\ worker[i] \in {"status", "print", "drawer"}
      /\ phase' = phase /\ job' = job
      /\ forgotten' = forgotten /\ withdrawn' = withdrawn
      /\ Created' = Created
  <2>1. job' = job => Created' = Created
    BY DEF Created
  <2> QED
    BY <2>1
    DEF Worker, StatusFails, RenderFails, AbortedBeforePrint, PrinterGone,
        SendToPrinter, PrintFails, PrintSucceeds, DrawerDone
<1>2. Alive
  BY <1>1 DEF WorkersTracked, InFlight
<1>3. \A j \in Ids : /\ Status(j) = db[j].status
                     /\ Status(j)' = db'[j].status
  BY <1>1, <1>2 DEF Alive, Status, Durable
<1>4. db[i].status = "processing" /\ i \in Present(db)
  BY <1>0, <1>1, <1>3, StatusAfter DEF JobClean
<1>5. SUFFICES /\ JobStep(i)
               /\ \A j \in Ids \ {i} : /\ db'[j].status = db[j].status
                                        /\ worker'[j] = worker[j]
                                        /\ printed'[j] = printed[j]
  BY <1>0, <1>1, <1>3, OthersStay DEF SameNotes
<1>6. ASSUME NEW t \in Table, \A j \in Ids : t[j].status = db[j].status,
             NEW retryable \in BOOLEAN, Fail(i, t, retryable),
             worker[i] \in {"status", "print"}, printed' = printed
      PROVE  /\ JobStep(i)
             /\ \A j \in Ids \ {i} : /\ db'[j].status = db[j].status
                                      /\ worker'[j] = worker[j]
                                      /\ printed'[j] = printed[j]
  <2>1. i \in Present(t)
    BY <1>4, <1>6, StatusAfter
  <2>2. t[i] \in Row
    BY <2>1 DEF Table, Present
  <2>3. db'[i] = Failed(t[i], retryable) /\ \A j \in Ids \ {i} : db'[j] = t[j]
    BY <1>6, <2>1 DEF Fail, Write
  <2>4. db'[i].status \in {"retry_scheduled", "dead_letter"}
    BY <2>2, <2>3, StatusFailed
  <2>5. worker' = [worker EXCEPT ![i] = "idle"]
    BY <1>6 DEF Fail, Leave
  <2>6. worker'[i] = "idle" /\ \A j \in Ids \ {i} : worker'[j] = worker[j]
    BY <2>5 DEF TypeOK
  <2>7. HasFailed(i)
    BY <1>1, <1>3, <1>6, <2>4, <2>6 DEF HasFailed, SameNotes, SamePaper
  <2> QED
    BY <1>6, <2>3, <2>6, <2>7 DEF JobStep
<1>7. ASSUME Complete(i)
      PROVE  /\ db'[i].status = "completed" /\ worker'[i] = "idle"
             /\ \A j \in Ids \ {i} : /\ db'[j].status = db[j].status
                                      /\ worker'[j] = worker[j]
  <2>1. /\ db' = Updated(db, {i}, NewCompleted)
        /\ worker' = [worker EXCEPT ![i] = "idle"]
    BY <1>7 DEF Complete, Write, Leave
  <2>2. /\ db'[i].status = "completed"
        /\ \A j \in Ids \ {i} : db'[j] = db[j]
    BY <1>0, <1>4, <2>1, StatusAfter
  <2> QED
    BY <2>1, <2>2 DEF TypeOK
<1>8. /\ WithRendering(i) \in Table
      /\ \A j \in Ids : WithRendering(i)[j].status = db[j].status
  BY <1>0, RenderingTable, StatusAfter DEF WithRendering
<1>9. CASE StatusFails(i) \/ RenderFails(i)
  BY <1>0, <1>6, <1>9 DEF StatusFails, RenderFails
<1>10. CASE AbortedBeforePrint(i) \/ PrinterGone(i)
  BY <1>6, <1>8, <1>10 DEF AbortedBeforePrint, PrinterGone
<1>11. CASE SendToPrinter(i)
  <2>1. /\ db' = WithRendering(i) /\ printed' = printed
        /\ worker[i] = "status" /\ worker' = [worker EXCEPT ![i] = "print"]
    BY <1>11 DEF SendToPrinter
  <2>2. worker'[i] = "print" /\ \A j \in Ids \ {i} : worker'[j] = worker[j]
    BY <2>1 DEF TypeOK
  <2>3. Stays(i)
    BY <1>1, <1>3, <1>8, <2>1, <2>2 DEF Stays, SameNotes, SamePaper
  <2> QED
    BY <1>8, <2>1, <2>2, <2>3 DEF JobStep
<1>12. CASE PrintFails(i)
  <2>1. faults' # faults + 1
    BY QueueAssumption DEF TypeOK
  <2>2. /\ worker[i] = "print" /\ printed' = printed
        /\ \E retryable \in BOOLEAN : Fail(i, db, retryable)
    BY <1>12, <2>1 DEF PrintFails
  <2> QED
    BY <1>0, <1>6, <2>2
<1>13. CASE PrintSucceeds(i)
  <2>1. worker[i] = "print" /\ printed' = CameOut({i})
    BY <1>13 DEF PrintSucceeds
  <2>2. \A j \in Ids \ {i} : printed'[j] = printed[j]
    BY <2>1 DEF CameOut
  <2>3. CASE Complete(i)
    <3>1. HasPrinted(i)
      BY <1>1, <1>3, <1>7, <2>1, <2>3 DEF HasPrinted, SameNotes
    <3> QED
      BY <1>7, <2>2, <2>3, <3>1 DEF JobStep
  <2>4. CASE worker' = [worker EXCEPT ![i] = "drawer"] /\ db' = db
    <3>1. worker'[i] = "drawer" /\ \A j \in Ids \ {i} : worker'[j] = worker[j]
      BY <2>4 DEF TypeOK
    <3>2. HasPrinted(i)
      BY <1>1, <1>3, <2>1, <2>4, <3>1 DEF HasPrinted, SameNotes
    <3> QED
      BY <2>2, <2>4, <3>1, <3>2 DEF JobStep
  <2> QED
    BY <1>13, <2>3, <2>4 DEF PrintSucceeds
<1>14. CASE DrawerDone(i)
  <2>1. worker[i] = "drawer" /\ Complete(i) /\ printed' = printed
    BY <1>14 DEF DrawerDone
  <2>2. IsDone(i)
    BY <1>1, <1>3, <1>7, <2>1 DEF IsDone, SameNotes, SamePaper
  <2> QED
    BY <1>7, <2>1, <2>2 DEF JobStep
<1> QED
  BY <1>9, <1>10, <1>11, <1>12, <1>13, <1>14 DEF Worker

\* A sweep, of the table in memory or of the file just read.
LEMMA SweptJobs ==
    ASSUME NEW t \in Table, NEW S \in Sweeps(t), NEW j \in Ids,
           Status(j) = t[j].status, Status(j)' = Delete(t, S)[j].status,
           forgotten' = forgotten \cup (S \cap InStatus(t, Terminal)),
           AtRest(j), SamePaper(j),
           j \in Created' <=> j \in Created,
           j \in withdrawn' <=> j \in withdrawn
    PROVE  JobStep(j)
<1>1. S \subseteq InStatus(t, Terminal)
  BY DEF Sweeps
<1>2. CASE j \in S
  <2>1. IsForgotten(j)
    BY <1>1, <1>2, StatusAfter DEF IsForgotten, InStatus
  <2> QED
    BY <2>1 DEF JobStep
<1>3. CASE j \notin S
  <2>1. Status(j)' = Status(j) /\ SameNotes(j)
    BY <1>1, <1>3, StatusAfter DEF SameNotes
  <2> QED
    BY <2>1 DEF JobStep, Stays, AtRest
<1> QED
  BY <1>2, <1>3

\* A clean stop and the start after it.
LEMMA LedgerProcess ==
    ASSUME TypeOK, WorkersTracked, CleanLedger, Process, faults' = faults
    PROVE  /\ \A j \in Ids : JobStep(j)
           /\ (forgotten \cup withdrawn \subseteq Created)'
           /\ phase' # "dying"
           /\ phase' = "stopped" => InFlight = {} /\ InFlight' = {}
<1> USE DEF workerVars, storeVars, ghostVars
<1>0. /\ db \in Table /\ disk \in Table /\ faults \in Nat
      /\ \A j \in Ids : JobClean(j)
      /\ forgotten \cup withdrawn \subseteq Created
  <2>1. \A j \in Ids : JobClean(j)
    BY DEF CleanLedger
  <2> QED
    BY <2>1, QueueAssumption DEF JobClean, TypeOK
<1>1. \/ phase = "down" /\ StartWith(disk)
      \/ BeginStop
      \/ StopProcessor
      \/ phase = "stopped" /\ Exit /\ disk' = db
  BY <1>0 DEF Process, Start, Close, StopProcessorLate, ForcedExit,
      FatalException, Die, Kill, RebuildDatabase, Strike, CleanLedger
<1>2. CASE phase = "down" /\ StartWith(disk)
  <2>1. /\ job' = job /\ worker' = worker /\ printed' = printed
        /\ phase' = "up" /\ withdrawn' = withdrawn
    BY <1>2 DEF StartWith
  <2>2. InFlight = {}
    BY <1>2 DEF WorkersTracked, Alive
  <2>3. /\ \A j \in Ids : /\ Status(j) = disk[j].status
                          /\ Status(j)' = db'[j].status
        /\ Created' = Created
    BY <1>2, <2>1 DEF Status, Durable, Created
  <2>4. InStatus(disk, {"processing"}) = {}
    BY <1>0, <2>2, <2>3 DEF JobClean, InFlight, InStatus
  <2>5. PICK stale \in Stale(disk) :
          \E S \in IF "cleanup" \in Ops
                   THEN Sweeps(Updated(disk, stale, Recovered)) ELSE {{}} :
             /\ db' = Delete(Updated(disk, stale, Recovered), S)
             /\ forgotten' = forgotten \cup
                   (S \cap InStatus(Updated(disk, stale, Recovered), Terminal))
    BY <1>2 DEF StartWith
  <2>6. stale = {}
    BY <2>4, <2>5 DEF Stale
  <2>7. Updated(disk, stale, Recovered) = disk
    BY <1>0, <2>6 DEF Updated, Table
  <2>8. PICK S \in IF "cleanup" \in Ops THEN Sweeps(disk) ELSE {{}} :
             /\ db' = Delete(disk, S)
             /\ forgotten' = forgotten \cup (S \cap InStatus(disk, Terminal))
    BY <2>5, <2>7
  <2>9. \A j \in Ids : AtRest(j) /\ SamePaper(j)
    BY <2>1, <2>2 DEF AtRest, SamePaper, InFlight
  <2>10. ASSUME NEW j \in Ids  PROVE JobStep(j)
    <3>1. CASE S \in Sweeps(disk)
      BY <1>0, <2>1, <2>3, <2>8, <2>9, <3>1, SweptJobs
    <3>2. CASE S = {}
      <4>1. Status(j)' = Status(j) /\ SameNotes(j)
        BY <1>0, <2>1, <2>3, <2>8, <3>2, StatusAfter DEF SameNotes
      <4> QED
        BY <2>9, <4>1 DEF JobStep, Stays, AtRest
    <3> QED
      BY <2>8, <3>1, <3>2
  <2>11. S \cap InStatus(disk, Terminal) \subseteq Created
    BY <1>0, <2>3 DEF JobClean, InStatus, Terminal
  <2> QED
    BY <1>0, <2>1, <2>3, <2>8, <2>10, <2>11
<1>3. CASE BeginStop \/ StopProcessor
  <2>1. /\ job' = job /\ db' = db /\ worker' = worker /\ printed' = printed
        /\ withdrawn' = withdrawn /\ forgotten' = forgotten
        /\ phase \in {"up", "draining"} /\ phase' \in {"draining", "stopped"}
    BY <1>3 DEF BeginStop, StopProcessor
  <2>2. /\ \A j \in Ids : Status(j)' = Status(j)
        /\ Created' = Created /\ InFlight' = InFlight
    BY <2>1 DEF Status, Durable, Created, InFlight
  <2>3. phase' = "stopped" => InFlight = {}
    BY <1>3 DEF BeginStop, StopProcessor, WorkersTracked, Running
  <2> QED
    BY <1>0, <2>1, <2>2, <2>3, OthersStay DEF SameNotes
<1>4. CASE phase = "stopped" /\ Exit /\ disk' = db
  <2>1. InFlight = {}
    BY <1>4 DEF CleanLedger
  <2>2. /\ job' = job /\ withdrawn' = withdrawn /\ forgotten' = forgotten
        /\ phase' = "down" /\ worker' = [i \in Ids |-> "idle"]
    BY <1>4 DEF Exit
  <2>3. printed' = printed
    <3>1. PICK S \in SUBSET {i \in Ids : worker[i] = "print"} :
             printed' = CameOut(S)
      BY <1>4 DEF Exit
    <3>2. S = {}
      BY <2>1 DEF InFlight
    <3> QED
      BY <3>1, <3>2 DEF CameOut, TypeOK
  <2>4. worker' = worker
    BY <2>1, <2>2 DEF InFlight, TypeOK
  <2>5. Created' = Created /\ \A j \in Ids : Status(j)' = Status(j)
    BY <1>4, <2>2 DEF Created, Status, Durable
  <2> QED
    BY <1>0, <2>2, <2>3, <2>4, <2>5, OthersStay DEF SameNotes
<1> QED
  BY <1>1, <1>2, <1>3, <1>4

\* Failures are counted, never forgotten.
LEMMA FaultsCount ==
    ASSUME TypeOK, [Next]_vars
    PROVE  faults' = faults \/ faults' = faults + 1
<1>1. CASE UNCHANGED vars
  BY <1>1 DEF vars
<1>2. CASE Request
  BY <1>2 DEF Request, Enqueue, CreateTestJob, CreateJob, Cancel, RetryJob,
              ClearFailedJobs, Pause, Resume, ChangePrinter
<1>3. CASE Timer
  BY <1>3 DEF Timer, Poll, Save, Cleanup, RetryDue, JobTimeout
<1>4. ASSUME NEW i \in Ids, Worker(i)
      PROVE  faults' = faults \/ faults' = faults + 1
  BY <1>4 DEF Worker, StatusFails, RenderFails, AbortedBeforePrint,
              PrinterGone, SendToPrinter, PrintFails, PrintSucceeds, DrawerDone
<1>5. CASE Process
  BY <1>5 DEF Process, Start, BeginStop, StopProcessor, StopProcessorLate,
              Close, ForcedExit, FatalException, Die, Kill, RebuildDatabase,
              Strike
<1> QED
  BY <1>1, <1>2, <1>3, <1>4, <1>5 DEF Next

\* Up to the first failure every step moves each job as above.
LEMMA LedgerStep ==
    ASSUME TypeOK, TypeOK', WorkersTracked, LedgerInv, [Next]_vars, faults' = 0
    PROVE  /\ faults = 0 /\ CleanLedger /\ CleanLedger'
           /\ \A j \in Ids : JobStep(j)
<1>1. faults = 0 /\ CleanLedger
  BY FaultsCount, QueueAssumption DEF TypeOK, LedgerInv
<1>2. faults' = faults /\ phase # "dying"
  BY <1>1 DEF CleanLedger
<1> DEFINE Done == /\ \A j \in Ids : JobStep(j)
                   /\ (forgotten \cup withdrawn \subseteq Created)'
                   /\ phase' # "dying"
                   /\ phase' = "stopped" => InFlight' = {}
<1> SUFFICES Done
  <2>1. Done => CleanLedger'
    BY <1>1, JobStepClean DEF CleanLedger
  <2> QED
    BY <1>1, <2>1
<1>3. CASE UNCHANGED vars
  <2>1. /\ db' = db /\ disk' = disk /\ phase' = phase /\ job' = job
        /\ worker' = worker /\ printed' = printed
        /\ withdrawn' = withdrawn /\ forgotten' = forgotten
    BY <1>3 DEF vars, storeVars, workerVars, ghostVars
  <2>2. /\ Created' = Created /\ InFlight' = InFlight
        /\ \A j \in Ids : Status(j)' = Status(j)
    BY <2>1 DEF Created, InFlight, Status, Durable
  <2>3. \A j \in Ids : JobStep(j)
    BY <2>1, <2>2, OthersStay DEF SameNotes
  <2>4. (forgotten \cup withdrawn \subseteq Created)'
    BY <1>1, <2>1, <2>2 DEF CleanLedger, JobClean, TypeOK
  <2> QED
    BY <1>1, <2>1, <2>2, <2>3, <2>4 DEF CleanLedger
<1>4. CASE Request
  <2>1. phase # "stopped"
    BY <1>4 DEF Request, Enqueue, CreateTestJob, Cancel, RetryJob,
                ClearFailedJobs, Pause, Resume, ChangePrinter, Accepting
  <2> QED
    BY <1>1, <1>2, <1>4, <2>1, LedgerRequest
<1>5. CASE Timer
  <2>1. phase = "stopped" => InFlight' = InFlight
    BY <1>5 DEF Timer, Poll, Save, Cleanup, RetryDue, JobTimeout, Running,
                InFlight, workerVars
  <2> QED
    BY <1>1, <1>2, <1>5, <2>1, LedgerTimer DEF CleanLedger
<1>6. ASSUME NEW i \in Ids, Worker(i)
      PROVE  Done
  <2>1. phase # "stopped"
    BY <1>1, <1>6
    DEF CleanLedger, InFlight, Worker, StatusFails, RenderFails,
        AbortedBeforePrint, PrinterGone, SendToPrinter, PrintFails,
        PrintSucceeds, DrawerDone
  <2> QED
    BY <1>1, <1>2, <1>6, <2>1, LedgerWorker
<1>7. CASE Process
  BY <1>1, <1>2, <1>7, LedgerProcess
<1> QED
  BY <1>3, <1>4, <1>5, <1>6, <1>7 DEF Next

LEMMA LedgerInit == Init => CleanLedger
<1> SUFFICES ASSUME Init  PROVE CleanLedger
  OBVIOUS
<1>1. InFlight = {} /\ Created = {}
  BY DEF Init, InFlight, Created
<1>2. \A i \in Ids : JobClean(i)
  BY <1>1 DEF Init, JobClean, Status, Durable, EmptyTable, NoRow
<1> QED
  BY <1>1, <1>2 DEF Init, CleanLedger

\* The invariant holds in every behaviour, however many failures strike it.
LEMMA LedgerInvariant == Spec => []LedgerInv
<1>1. Init => LedgerInv
  BY LedgerInit DEF LedgerInv
<1>2. TypeOK /\ TypeOK' /\ DispatchInv /\ LedgerInv /\ [Next]_vars => LedgerInv'
  BY LedgerStep DEF LedgerInv, DispatchInv
<1> QED
  BY <1>1, <1>2, TypeCorrect, DispatchSound, PTL DEF Spec

\* Until the first failure a job that was acknowledged keeps its row, through
\* every retry, clean stop and restart.
THEOREM AcceptedKept == Spec => [](faults = 0 => AcceptedJobsKept)
<1>1. TypeOK /\ LedgerInv => (faults = 0 => AcceptedJobsKept)
  <2> SUFFICES ASSUME TypeOK, CleanLedger, NEW i \in Created, i \notin forgotten
               PROVE  i \in Present(Durable)
    BY DEF LedgerInv, AcceptedJobsKept
  <2>1. i \in Ids /\ Status(i) # "absent"
    BY DEF CleanLedger, JobClean, Created
  <2> QED
    BY <2>1 DEF Status, Present, NoRow
<1> QED
  BY <1>1, TypeCorrect, LedgerInvariant, PTL

\* Until then paper and table agree too.
THEOREM PaperMatches == Spec => [](faults = 0 => PaperMatchesStanding)
<1>1. TypeOK /\ LedgerInv => (faults = 0 => PaperMatchesStanding)
  <2> SUFFICES ASSUME TypeOK, CleanLedger, NEW i \in Ids
               PROVE  /\ Standing(i) \in {"printed", "done"} => printed[i] = 1
                      /\ Standing(i) \in {"unknown", "waiting", "in_flight",
                                         "given_up", "withdrawn"} =>
                            printed[i] = 0
    BY DEF LedgerInv, PaperMatchesStanding, Ledger!PaperMatchesLedger
  <2>1. Status(i) \in Unfinished \cup Terminal \cup {"absent"}
    BY StatusType
  <2>2. JobClean(i)
    BY DEF CleanLedger
  <2> QED
    BY <2>1, <2>2
    DEF JobClean, Standing, Status, Unfinished, Waiting, Terminal
<1> QED
  BY <1>1, TypeCorrect, LedgerInvariant, PTL

\* Every status has a standing.
LEMMA StandingType ==
    ASSUME TypeOK
    PROVE  \A i \in Ids : Standing(i) \in Ledger!States
<1> SUFFICES ASSUME NEW i \in Ids  PROVE Standing(i) \in Ledger!States
  OBVIOUS
<1>1. Status(i) \in Unfinished \cup Terminal \cup {"absent"}
  BY StatusType
<1> QED
  BY <1>1
  DEF Standing, Status, Unfinished, Waiting, Terminal, Ledger!States

\* Every behaviour without a failure is one of the abstract ledger.
THEOREM LedgerImplemented == Spec /\ [](faults = 0) => ImplementsLedger
<1>1. Init => Ledger!Init
  <2> SUFFICES ASSUME Init, NEW i \in Ids  PROVE Standing(i) = "unknown"
    BY DEF Init, Ledger!Init
  <2> QED
    BY DEF Init, Standing, Durable, EmptyTable, NoRow, Waiting
<1>2. TypeOK /\ TypeOK' /\ DispatchInv /\ LedgerInv /\ [Next]_vars
         /\ (faults = 0)' => Ledger!Next
  <2> SUFFICES ASSUME TypeOK, TypeOK', DispatchInv, LedgerInv, [Next]_vars,
                      faults' = 0
               PROVE  Ledger!Next
    OBVIOUS
  <2>1. /\ CleanLedger /\ CleanLedger'
        /\ \A j \in Ids : JobStep(j)
    BY LedgerStep DEF DispatchInv
  <2>2. \A j \in Ids : Ledger!Move(j) \/ Ledger!Stay(j)
    BY <2>1, JobStepMoves DEF CleanLedger
  <2>3. [i \in Ids |-> Standing(i)]' \in [Ids -> Ledger!States]
    <3>1. TypeOK' => (\A i \in Ids : Standing(i) \in Ledger!States)'
      BY StandingType, PTL
    <3> QED
      BY <3>1
  <2>4. printed' \in [Ids -> 0 .. 1]
    BY <2>1 DEF CleanLedger, JobClean, TypeOK
  <2> QED
    BY <2>2, <2>3, <2>4 DEF Ledger!Next
<1> QED
  BY <1>1, <1>2, TypeCorrect, DispatchSound, LedgerInvariant, PTL
  DEF Spec, ImplementsLedger, Ledger!Spec

\* In such a behaviour no job comes out once its client was told that it is
\* cancelled.
THEOREM CancelledStay ==
    Spec /\ [](faults = 0) => CancelledNeverPrints
<1>1. TypeOK /\ TypeOK' /\ DispatchInv /\ LedgerInv /\ [Next]_vars
         /\ (faults = 0)' => \A i \in withdrawn : printed'[i] = printed[i]
  <2> SUFFICES ASSUME TypeOK, TypeOK', DispatchInv, LedgerInv, [Next]_vars,
                      faults' = 0
               PROVE  \A i \in withdrawn : printed'[i] = printed[i]
    OBVIOUS
  <2>1. /\ CleanLedger /\ \A j \in Ids : JobStep(j)
    BY LedgerStep DEF DispatchInv
  <2> SUFFICES ASSUME NEW i \in withdrawn  PROVE printed'[i] = printed[i]
    OBVIOUS
  <2>2. i \in Ids /\ JobClean(i) /\ JobStep(i)
    BY <2>1 DEF TypeOK, CleanLedger
  <2>3. worker[i] = "idle"
    BY <2>2 DEF JobClean, TypeOK
  <2> QED
    BY <2>2, <2>3
    DEF JobStep, Stays, IsAccepted, IsDispatched, IsRefused, IsRetried,
        IsCancelled, IsForgotten, HasFailed, HasPrinted, IsDone, SamePaper
<1> QED
  BY <1>1, TypeCorrect, DispatchSound, LedgerInvariant, PTL
  DEF Spec, CancelledNeverPrints

-----------------------------------------------------------------------------
(* The dequeue loop *)

\* A set of naturals has a least element.
LEMMA LeastNatural ==
    ASSUME NEW T \in SUBSET Nat, T # {}
    PROVE  \E n \in T : \A m \in T : n <= m
<1> DEFINE R == {ss \in Nat \X Nat : ss[1] < ss[2]}
<1>1. R = OpToRel(<, Nat)
  BY DEF OpToRel
<1>2. IsWellFoundedOn(R, Nat)
  BY <1>1, NatLessThanWellFounded
<1> HIDE DEF R
<1>3. PICK n \in T : \A m \in T : ~(<<m, n>> \in R)
  BY <1>2, WFMin
<1>4. \A m \in T : m < n => <<m, n>> \in R
  BY DEF R
<1>5. \A m \in T : n \in Nat /\ m \in Nat /\ ~(m < n)
  BY <1>3, <1>4
<1>6. \A m \in T : n <= m
  BY <1>5
<1> QED
  BY <1>6

\* Any jobs have a first.
LEMMA FirstExists ==
    ASSUME TypeOK, NEW S \in SUBSET Created, S # {}
    PROVE  \E i \in S : \A j \in S \ {i} : Precedes(i, j)
<1> DEFINE ranks == {Cardinality(Ahead(S, i)) : i \in S}
<1>1. \A i \in S : Cardinality(Ahead(S, i)) \in Nat
  <2>1. \A i \in S : Ahead(S, i) \in SUBSET Ids
    BY DEF Ahead, Created
  <2> QED
    BY <2>1, IdsFinite
<1>2. ranks \in SUBSET Nat /\ ranks # {}
  BY <1>1
<1>3. PICK n \in ranks : \A m \in ranks : n <= m
  BY <1>2, LeastNatural
<1>4. PICK i \in S : n = Cardinality(Ahead(S, i))
  BY <1>3
<1>5. ASSUME NEW j \in S \ {i}  PROVE Precedes(i, j)
  <2>1. CASE Precedes(j, i)
    <3>1. Cardinality(Ahead(S, j)) < n /\ Cardinality(Ahead(S, j)) \in ranks
      BY <1>4, <2>1, AheadGrows
    <3> QED
      BY <1>1, <1>2, <1>3, <3>1
  <2> QED
    BY <2>1, PrecedesOrder
<1> QED
  BY <1>5

\* One call of dequeue takes the next of them, if there is one.
LEMMA DequeueTakesNext ==
    ASSUME TypeOK, DispatchInv, Running, NEW n \in Nat \ {0}
    PROVE  First(n) = First(n - 1) \cup Dequeue(First(n - 1))
<1> DEFINE T    == First(n - 1)
           busy == BusyPrinters \cup {job[i].printer : i \in T}
           rows == {i \in Ids \ T : Ready(i) /\ job[i].printer \notin busy}
           next == {i \in Heads : Cardinality(Ahead(Heads, i)) = n - 1}
<1>1. RowsHaveJobs /\ processingJobs = active
  BY DEF DispatchInv, WorkersTracked
<1>2. /\ Heads \subseteq Candidates /\ Candidates \subseteq Created
      /\ \A i, j \in Heads : i # j => job[i].printer # job[j].printer
  BY <1>1, HeadsDiffer
<1>3. \A i \in Heads : Cardinality(Ahead(Heads, i)) \in Nat
  <2>1. \A i \in Heads : Ahead(Heads, i) \in SUBSET Ids
    BY <1>2 DEF Created, Ahead
  <2> QED
    BY <2>1, IdsFinite
<1>4. First(n) = T \cup next
  BY <1>3 DEF First
<1>5. \A i : i \in rows <=>
                /\ i \in Candidates
                /\ \A j \in T : job[i].printer # job[j].printer
  BY <1>1 DEF Candidates, BusyPrinters
<1> HIDE DEF T, busy, rows, next
<1>6. rows \cap processingJobs = {}
  BY <1>1 DEF rows, busy, BusyPrinters
<1>7. Dequeue(T) = {i \in GetPending(T, busy) :
                      \A j \in GetPending(T, busy) \ {i} : Precedes(i, j)}
  BY <1>6 DEF Dequeue, GetPending, rows, busy
<1>8. GetPending(T, busy) =
         {i \in rows : Cardinality(Ahead(rows, i)) < ScanLimit}
  BY DEF GetPending, rows, Ahead
<1>9. T \subseteq Heads /\ next \subseteq Heads /\ T \cap next = {}
  BY <1>3 DEF T, First, next
<1>10. next \subseteq rows
  BY <1>2, <1>5, <1>9
<1>11. CASE rows = {}
  BY <1>4, <1>7, <1>8, <1>10, <1>11 DEF T
<1>12. ASSUME NEW m \in rows, \A j \in rows \ {m} : Precedes(m, j)
       PROVE  next = {m} /\ Dequeue(T) = {m}
  <2>1. /\ m \in Created /\ rows \subseteq Created /\ m \notin T
        /\ \A j \in rows : ~Precedes(j, m)
    BY <1>2, <1>5, <1>12, PrecedesOrder DEF rows
  <2>2. m \in Heads
    BY <1>2, <1>5, <1>12 DEF Heads
  <2>3. Ahead(Heads, m) = T
    <3>1. ASSUME NEW j \in Heads, Precedes(j, m)  PROVE j \in T
      BY <1>2, <1>5, <1>9, <2>1, <3>1
    <3>2. ASSUME NEW j \in T  PROVE Precedes(j, m)
      <4>1. j # m /\ j \in Heads /\ j \in Created
        BY <1>2, <1>9, <2>1
      <4>2. CASE Precedes(m, j)
        <5>1. Cardinality(Ahead(Heads, m)) < Cardinality(Ahead(Heads, j))
          BY <1>2, <2>2, <4>1, <4>2, AheadGrows
        <5>2. m \in T
          BY <1>3, <2>2, <4>1, <5>1 DEF T, First
        <5> QED
          BY <2>1, <5>2
      <4> QED
        BY <2>1, <4>1, <4>2, PrecedesOrder
    <3> QED
      BY <1>9, <3>1, <3>2 DEF Ahead
  <2>4. Cardinality(T) <= n - 1
    BY <1>1, FirstBounded DEF T
  <2>5. m \in next
    <3>1. Cardinality(T) \in Nat
      BY <1>3, <2>2, <2>3
    <3>2. ~(Cardinality(T) < n - 1)
      BY <2>1, <2>2, <2>3 DEF T, First
    <3>3. Cardinality(T) = n - 1
      BY <2>4, <3>1, <3>2
    <3> QED
      BY <2>2, <2>3, <3>3 DEF next
  <2>6. \A i \in next : i = m
    <3> SUFFICES ASSUME NEW i \in next, i # m  PROVE FALSE
      OBVIOUS
    <3>1. Precedes(i, m) \/ Precedes(m, i)
      BY <1>2, <1>9, <2>1, PrecedesOrder
    <3>2. Cardinality(Ahead(Heads, i)) # Cardinality(Ahead(Heads, m))
      BY <1>2, <1>9, <2>2, <3>1, AheadGrows
    <3> QED
      BY <2>5, <3>2 DEF next
  <2>7. m \in GetPending(T, busy)
    <3>1. Ahead(rows, m) = {}
      BY <2>1 DEF Ahead
    <3> QED
      BY <1>8, <3>1, FS_EmptySet, ScanAssumption
  <2>8. Dequeue(T) = {m}
    BY <1>7, <1>8, <1>12, <2>1, <2>7
  <2> QED
    BY <2>5, <2>6, <2>8
<1>13. CASE rows # {}
  <2>1. rows \in SUBSET Created
    BY <1>2, <1>5
  <2>2. PICK m \in rows : \A j \in rows \ {m} : Precedes(m, j)
    BY <1>13, <2>1, FirstExists
  <2> QED
    BY <1>4, <1>12, <2>2 DEF T
<1> QED
  BY <1>11, <1>13

\* What DequeueBatch defines as its value: the loop after n calls.
LEMMA LoopValue ==
    ASSUME TypeOK, DispatchInv, Running, NEW count \in Nat
    PROVE  DequeueBatch(count) = First(count)
<1> DEFINE Loops(f) ==
              f = [n \in 0 .. count |->
                     IF n = 0 THEN {} ELSE f[n - 1] \cup Dequeue(f[n - 1])]
           first == [n \in 0 .. count |-> First(n)]
           Taken == CHOOSE f : Loops(f)
<1>1. First(0) = {}
  <2>1. \A i \in Heads : Cardinality(Ahead(Heads, i)) \in Nat
    <3>1. \A i \in Heads : Ahead(Heads, i) \in SUBSET Ids
      BY HeadsDiffer DEF DispatchInv, Created, Ahead
    <3> QED
      BY <3>1, IdsFinite
  <2> QED
    BY <2>1 DEF First
<1>2. Loops(first)
  <2>1. ASSUME NEW n \in 0 .. count, n # 0
        PROVE  first[n] = first[n - 1] \cup Dequeue(first[n - 1])
    BY <2>1, DequeueTakesNext
  <2> QED
    BY <1>1, <2>1
<1>3. Loops(Taken)
  BY <1>2
<1>4. DequeueBatch(count) = Taken[count]
  BY DEF DequeueBatch
<1> HIDE DEF Taken
<1>5. \A n \in 0 .. count : Taken[n] = First(n)
  <2> DEFINE wrong == {n \in 0 .. count : Taken[n] # First(n)}
  <2> SUFFICES ASSUME wrong # {}  PROVE FALSE
    OBVIOUS
  <2>1. PICK n \in wrong : \A m \in wrong : n <= m
    <3>1. wrong \in SUBSET Nat
      OBVIOUS
    <3> HIDE DEF wrong
    <3> QED
      BY <3>1, LeastNatural
  <2>2. n # 0
    BY <1>1, <1>3, <2>1
  <2>3. n - 1 \in 0 .. count /\ Taken[n - 1] = First(n - 1)
    BY <2>1, <2>2
  <2>4. Taken[n] = First(n - 1) \cup Dequeue(First(n - 1))
    BY <1>3, <2>1, <2>2, <2>3
  <2>5. First(n) = First(n - 1) \cup Dequeue(First(n - 1))
    BY <2>1, <2>2, DequeueTakesNext
  <2> QED
    BY <2>1, <2>4, <2>5
<1> QED
  BY <1>4, <1>5

\* However short the scan, the loop of dequeue calls takes the jobs that
\* Poll takes.
THEOREM LoopIsBatch == Spec => []LoopTakesBatch
<1>1. TypeOK /\ DispatchInv => LoopTakesBatch
  BY LoopValue DEF LoopTakesBatch, Batch, First, Ahead
<1> QED
  BY <1>1, TypeCorrect, DispatchSound, PTL

=============================================================================
