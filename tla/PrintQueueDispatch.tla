------------------------- MODULE PrintQueueDispatch -------------------------
(***************************************************************************)
(* PrintQueue says which jobs a poll takes as one set, Batch.  The code    *)
(* finds them one by one: dequeueBatch calls dequeue, which scans the      *)
(* first rows of a query that leaves out the printers already busy.  This  *)
(* module writes the loop and states that it takes exactly Batch, however  *)
(* short the scan.                                                         *)
(***************************************************************************)
EXTENDS PrintQueue

CONSTANT ScanLimit      \* the LIMIT dequeue gives getPending, 10 in the code

ASSUME ScanAssumption == ScanLimit \in Nat \ {0}

\* getPending(ScanLimit, busy), once the jobs in taken are 'processing'.
GetPending(taken, busy) ==
    LET rows == {i \in Ids \ taken : Ready(i) /\ job[i].printer \notin busy}
    IN  {i \in rows :
            Cardinality({j \in rows : Precedes(j, i)}) < ScanLimit}

\* Mutant: the busy printers are skipped while scanning, not in the query.
DequeueScanning(taken) ==
    LET busy == BusyPrinters \cup {job[i].printer : i \in taken}
        free == {i \in GetPending(taken, {}) : /\ i \notin processingJobs
                                               /\ job[i].printer \notin busy}
    IN  {i \in free : \A j \in free \ {i} : Precedes(i, j)}

\* dequeue: the first of those rows that no worker has, if any.
Dequeue(taken) ==
    LET busy == BusyPrinters \cup {job[i].printer : i \in taken}
        free == GetPending(taken, busy) \ processingJobs
    IN  {i \in free : \A j \in free \ {i} : Precedes(i, j)}

\* dequeueBatch(count): up to count calls, until one finds nothing.
DequeueBatch(count) ==
    LET Taken[n \in 0 .. count] ==
            IF n = 0 THEN {} ELSE Taken[n - 1] \cup Dequeue(Taken[n - 1])
    IN  Taken[count]

\* The loop of dequeue calls takes the jobs that Poll takes: "a
\* skip-while-scanning approach dies the moment a stuck printer has more
\* queued jobs than the scan window ... The store filter has no such horizon"
\* (JobQueue.dequeue).
LoopTakesBatch ==
    Running /\ FreeSlots \in Nat => DequeueBatch(FreeSlots) = Batch

=============================================================================
