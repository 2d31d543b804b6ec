--------------------------- MODULE ServicesProofs ---------------------------
(***************************************************************************)
(* The services beside the queue, for any number of backup paths, printers *)
(* and releases and for any bounds: their types, that a path never loses   *)
(* its last good backup, that an alert is confirmed, and that what is      *)
(* installed is what was announced.                                        *)
(***************************************************************************)
EXTENDS MCServices, SequenceTheorems, TLAPS

-----------------------------------------------------------------------------
(* Backups *)

\* A run that has its dump made it in this step of the clock or the last one,
\* which no retention reaches; and a path that is pruned has that copy.
RunIsYoung ==
    \A a \in Actors :
        at[a] \in {"copy", "copying", "prune"} =>
            work[a].made <= clock /\ clock <= work[a].made + 1

PrunedPathHasCopy ==
    \A a \in Actors : at[a] = "prune" =>
        \A d \in work[a].path : [made |-> work[a].made, whole |-> TRUE] \in files[d]

BackupInv == BackupTypeOK /\ RunIsYoung /\ PrunedPathHasCopy

\* A run's record with another request in it.
LEMMA AnswersTyped ==
    ASSUME NEW w \in Works, NEW r \in 0 .. MaxRequests
    PROVE  [w EXCEPT !.answers = r] \in Works
  BY DEF Works

\* The scheduler begins at rest.
LEMMA BackupStart == BackupInit => BackupInv
<1> SUFFICES ASSUME BackupInit PROVE BackupInv
  OBVIOUS
<1>1. Never \in Nat /\ Never \in 0 .. Never
  BY BackupAssumption DEF Never
<1>2. NoWork \in Works
  BY <1>1, BackupAssumption DEF NoWork, Works
<1>3. BackupTypeOK
  <2>1. at \in [Actors -> Places] /\ work \in [Actors -> Works] /\ files \in [Dirs -> SUBSET Archives]
    BY <1>2 DEF BackupInit, Places
  <2>2. /\ 0 \in 0 .. Never /\ 0 \in 0 .. MaxRequests /\ 0 \in 0 .. MaxOrders
        /\ 0 \in 0 .. MaxBackupFaults /\ MaxDays + 1 \in 0 .. MaxDays + 1
    BY <1>1, BackupAssumption
  <2>3. /\ clock = 0 /\ request = 0 /\ lastBackup = Never /\ up = TRUE /\ running = FALSE
        /\ handled = 0 /\ scheduled = MaxDays + 1 /\ orders = 0 /\ mishaps = 0 /\ attended = 0
    BY DEF BackupInit
  <2>4. QED
    BY <1>1, <2>1, <2>2, <2>3 DEF BackupTypeOK
<1>4. RunIsYoung /\ PrunedPathHasCopy
  BY DEF BackupInit, RunIsYoung, PrunedPathHasCopy
<1>5. QED
  BY <1>3, <1>4 DEF BackupInv

\* The end of the process leaves nobody at work.
LEMMA EndsTyped ==
    ASSUME BackupInv, Ends, files' = files, clock' = clock, request' = request,
           lastBackup' = lastBackup, attended' = attended, orders' = orders,
           mishaps' \in 0 .. MaxBackupFaults
    PROVE  BackupInv'
<1>1. NoWork \in Works /\ 0 \in 0 .. MaxRequests /\ MaxDays + 1 \in 0 .. MaxDays + 1
  BY BackupAssumption DEF NoWork, Works, Never
<1>2. BackupTypeOK'
  BY <1>1 DEF BackupInv, BackupTypeOK, Ends, Places
<1>3. RunIsYoung' /\ PrunedPathHasCopy'
  BY DEF Ends, RunIsYoung, PrunedPathHasCopy
<1>4. QED
  BY <1>2, <1>3 DEF BackupInv

\* What fails is counted up to MaxBackupFaults.
LEMMA MishapTyped ==
    ASSUME BackupInv, NEW kind, Mishap(kind)
    PROVE  mishaps' \in 0 .. MaxBackupFaults
  BY BackupAssumption DEF BackupInv, BackupTypeOK, Mishap

\* A run begins, or is refused: it has no dump so far.
LEMMA ExecutesSafe ==
    ASSUME BackupInv, NEW a \in Actors, NEW r \in 0 .. MaxRequests, Executes(a, r),
           handled' \in 0 .. MaxRequests, scheduled' \in 0 .. MaxDays + 1,
           UNCHANGED <<clock, posB, up, files, boundsB, attended>>
    PROVE  BackupInv'
<1>1. [NoWork EXCEPT !.answers = r] \in Works
  <2>1. NoWork \in Works
    BY BackupAssumption DEF NoWork, Works, Never
  <2>2. QED
    BY <2>1, AnswersTyped
<1>2. BackupTypeOK'
  <2>1. work' \in [Actors -> Works]
    BY <1>1 DEF BackupInv, BackupTypeOK, Executes
  <2>2. at' \in [Actors -> Places] /\ running' \in BOOLEAN
    BY DEF BackupInv, BackupTypeOK, Executes, GoesTo, Places
  <2>3. QED
    BY <2>1, <2>2 DEF BackupInv, BackupTypeOK, posB, boundsB
<1>3. at' = [at EXCEPT ![a] = at'[a]] /\ at'[a] \in {"report", "dump"}
      /\ \A b \in Actors \ {a} : work'[b] = work[b] /\ at'[b] = at[b]
  BY DEF BackupInv, BackupTypeOK, Executes, GoesTo
<1>4. RunIsYoung'
  BY <1>3 DEF BackupInv, RunIsYoung
<1>5. PrunedPathHasCopy'
  BY <1>3 DEF BackupInv, PrunedPathHasCopy
<1>6. QED
  BY <1>2, <1>4, <1>5 DEF BackupInv

\* Who goes elsewhere than to the paths, with nothing else of his changed.
LEMMA LeavesPaths ==
    ASSUME BackupInv, NEW a \in Actors,
           NEW place \in {"idle", "policy", "restore policy", "dump", "restore", "report"},
           GoesTo(a, place), UNCHANGED <<clock, files, work>>
    PROVE  at' \in [Actors -> Places] /\ RunIsYoung' /\ PrunedPathHasCopy'
<1>1. at' = [at EXCEPT ![a] = place]
  BY DEF GoesTo
<1>2. QED
  BY <1>1 DEF BackupInv, BackupTypeOK, RunIsYoung, PrunedPathHasCopy, Places

\* The steps that write no archive: the poll, the orders, the dump's failure,
\* the report.
LEMMA TalksSafe ==
    ASSUME BackupInv,
           \/ PollBegins \/ Order \/ PollDecides \/ OrderedRun \/ OrderedRestore \/ Restored
           \/ \E a \in Actors : PolicyFails(a) \/ DumpFails(a) \/ AllCopied(a) \/ Report(a)
    PROVE  BackupInv'
<1>1. BackupTypeOK /\ RunIsYoung /\ PrunedPathHasCopy
  BY DEF BackupInv
<1>2. CASE PollBegins
  <2>1. at' \in [Actors -> Places] /\ RunIsYoung' /\ PrunedPathHasCopy'
    BY <1>2, LeavesPaths DEF PollBegins, Actors
  <2>2. QED
    BY <1>1, <1>2, <2>1 DEF PollBegins, BackupInv, BackupTypeOK, posB, memoryB, boundsB
<1>3. CASE Order
  <2>1. at' \in [Actors -> Places] /\ RunIsYoung' /\ PrunedPathHasCopy'
    BY <1>3, LeavesPaths DEF Order, Actors
  <2>2. orders' \in 0 .. MaxOrders
    <3>1. orders \in 0 .. MaxOrders /\ MaxOrders \in Nat
      BY <1>1, BackupAssumption DEF BackupTypeOK
    <3>2. orders < MaxOrders /\ orders' = orders + 1
      BY <1>3 DEF Order
    <3>3. QED
      BY <3>1, <3>2
  <2>3. QED
    BY <1>1, <1>3, <2>1, <2>2 DEF Order, BackupInv, BackupTypeOK, posB, memoryB
<1>4. CASE PollDecides
  <2>1. request \in 0 .. MaxRequests /\ handled \in 0 .. MaxRequests
        /\ scheduled \in 0 .. MaxDays + 1
    BY <1>1 DEF BackupTypeOK
  <2>2. DayOf(clock) \in 0 .. MaxDays + 1
    <3>1. clock \in Nat /\ clock <= 2 * (MaxDays + 1) /\ MaxDays \in Nat
      BY <1>1, BackupAssumption DEF BackupTypeOK, Never
    <3>2. clock \div 2 \in Nat /\ clock \div 2 <= MaxDays + 1
      BY <3>1
    <3>3. QED
      BY <3>1, <3>2 DEF DayOf
  <2>3. CASE Requested /\ handled' = request /\ Executes("poll", request) /\ UNCHANGED scheduled
    BY <1>4, <2>1, <2>3, ExecutesSafe DEF PollDecides, Actors
  <2>4. CASE scheduled' = DayOf(clock) /\ Executes("poll", 0) /\ UNCHANGED handled
    <3>1. 0 \in 0 .. MaxRequests
      BY BackupAssumption
    <3>2. QED
      BY <1>4, <2>1, <2>2, <2>4, <3>1, ExecutesSafe DEF PollDecides, Actors
  <2>5. CASE GoesTo("poll", "idle") /\ UNCHANGED <<memoryB, work>>
    <3>1. at' \in [Actors -> Places] /\ RunIsYoung' /\ PrunedPathHasCopy'
      BY <1>4, <2>5, LeavesPaths DEF PollDecides, Actors
    <3>2. QED
      BY <1>1, <1>4, <2>5, <3>1 DEF PollDecides, BackupInv, BackupTypeOK, posB, memoryB, boundsB
  <2>6. QED
    BY <1>4, <2>3, <2>4, <2>5 DEF PollDecides
<1>5. CASE OrderedRun
  <2>1. 0 \in 0 .. MaxRequests
    BY BackupAssumption
  <2>2. QED
    BY <1>1, <1>5, <2>1, ExecutesSafe DEF OrderedRun, Actors, BackupTypeOK
<1>6. CASE OrderedRestore \/ Restored
  <2>1. PICK place \in {"idle", "restore"} : GoesTo("order", place)
    BY <1>6 DEF OrderedRestore, Restored
  <2>2. /\ running' \in BOOLEAN
        /\ UNCHANGED <<clock, posB, up, handled, scheduled, work, files, boundsB, attended>>
    BY <1>1, <1>6 DEF OrderedRestore, Restored, BackupTypeOK
  <2>3. at' \in [Actors -> Places] /\ RunIsYoung' /\ PrunedPathHasCopy'
    BY <2>1, <2>2, LeavesPaths DEF Actors
  <2>4. QED
    BY <1>1, <2>2, <2>3 DEF BackupInv, BackupTypeOK, posB, boundsB
<1>7. ASSUME NEW a \in Actors, PolicyFails(a) PROVE BackupInv'
  <2>1. mishaps' \in 0 .. MaxBackupFaults
    BY <1>7, MishapTyped DEF PolicyFails
  <2>2. CASE Ends
    BY <1>7, <2>1, <2>2, EndsTyped DEF PolicyFails, posB
  <2>3. CASE GoesTo(a, "idle") /\ UNCHANGED <<up, memoryB, work>>
    <3>1. at' \in [Actors -> Places] /\ RunIsYoung' /\ PrunedPathHasCopy'
      BY <1>7, <2>3, LeavesPaths DEF PolicyFails
    <3>2. QED
      BY <1>1, <1>7, <2>1, <2>3, <3>1 DEF PolicyFails, BackupInv, BackupTypeOK, posB, memoryB
  <2>4. QED
    BY <1>7, <2>2, <2>3 DEF PolicyFails
<1>8. ASSUME NEW a \in Actors, DumpFails(a) \/ AllCopied(a) PROVE BackupInv'
  <2>1. RunOver(a) /\ UNCHANGED <<clock, posB, up, work, files, orders, attended>>
    BY <1>8 DEF DumpFails, AllCopied, boundsB
  <2>2. mishaps' \in 0 .. MaxBackupFaults
    BY <1>1, <1>8, MishapTyped DEF DumpFails, AllCopied, boundsB, BackupTypeOK
  <2>3. at' \in [Actors -> Places] /\ RunIsYoung' /\ PrunedPathHasCopy'
    BY <2>1, LeavesPaths DEF RunOver
  <2>4. QED
    BY <1>1, <2>1, <2>2, <2>3 DEF RunOver, BackupInv, BackupTypeOK, posB
<1>9. ASSUME NEW a \in Actors, Report(a) PROVE BackupInv'
  <2>1. /\ at' = [at EXCEPT ![a] = "idle"] /\ work' = [work EXCEPT ![a] = NoWork]
        /\ UNCHANGED <<clock, request, up, memoryB, files, orders>>
    BY <1>9 DEF Report, GoesTo
  <2>2. work[a] \in Works /\ NoWork \in Works
    BY <1>1, BackupAssumption DEF BackupTypeOK, NoWork, Works, Never
  <2>3. work[a].answers \in 0 .. MaxRequests /\ work[a].made \in 0 .. Never
    BY <2>2 DEF Works
  <2>4. attended' \in 0 .. MaxRequests /\ lastBackup' \in 0 .. Never
    BY <1>1, <1>9, <2>3 DEF Report, BackupTypeOK
  <2>5. mishaps' \in 0 .. MaxBackupFaults
    BY <1>1, <1>9, MishapTyped DEF Report, BackupTypeOK
  <2>6. at' \in [Actors -> Places] /\ work' \in [Actors -> Works]
    BY <1>1, <2>1, <2>2 DEF BackupTypeOK, Places
  <2>7. RunIsYoung' /\ PrunedPathHasCopy'
    BY <1>1, <2>1 DEF BackupTypeOK, RunIsYoung, PrunedPathHasCopy
  <2>8. QED
    BY <1>1, <2>1, <2>4, <2>5, <2>6, <2>7 DEF BackupInv, BackupTypeOK, memoryB
<1>10. QED
  BY <1>2, <1>3, <1>4, <1>5, <1>6, <1>7, <1>8, <1>9

\* A record of a run with its next path, its dump or its success in it.
LEMMA RunTyped ==
    ASSUME NEW w \in Works
    PROVE  /\ \A t \in 0 .. Never : [w EXCEPT !.made = t, !.left = Dirs] \in Works
           /\ \A d \in Dirs : [w EXCEPT !.left = @ \ {d}, !.path = {d}] \in Works
           /\ [w EXCEPT !.copied = TRUE] \in Works
  BY DEF Works

\* The steps at the paths, which are in reach only of a run that has its dump.
LEMMA PathsSafe ==
    ASSUME BackupInv, NEW a \in Actors,
           \/ Dumped(a)
           \/ \E d \in Dirs : CopyBegins(a, d) \/ Copied(a, d) \/ CopyFails(a, d) \/ Prunes(a, d)
    PROVE  BackupInv'
<1>1. BackupTypeOK /\ RunIsYoung /\ PrunedPathHasCopy
  BY DEF BackupInv
<1>2. /\ at \in [Actors -> Places] /\ work \in [Actors -> Works]
      /\ files \in [Dirs -> SUBSET Archives] /\ clock \in 0 .. Never /\ Never \in Nat
  BY <1>1, BackupAssumption DEF BackupTypeOK, Never
<1>3. \A b \in Actors : work[b].made \in 0 .. Never /\ work[b].path \subseteq Dirs
  BY <1>2 DEF Works
<1>4. \A b \in Actors, complete \in BOOLEAN : Copy(b, complete) \in Archives
  BY <1>3 DEF Copy, Archives
<1>5. CASE Dumped(a)
  <2>1. /\ at' = [at EXCEPT ![a] = "copy"]
        /\ work' = [work EXCEPT ![a] = [work[a] EXCEPT !.made = clock, !.left = Dirs]]
        /\ UNCHANGED <<clock, posB, up, memoryB, files, boundsB, attended>>
    BY <1>2, <1>5 DEF Dumped, GoesTo
  <2>2. [work[a] EXCEPT !.made = clock, !.left = Dirs] \in Works
    BY <1>2, RunTyped
  <2>3. BackupTypeOK'
    BY <1>1, <2>1, <2>2 DEF BackupTypeOK, Places, posB, memoryB, boundsB
  <2>4. work'[a].made = clock
    BY <1>2, <2>1 DEF Works
  <2>5. RunIsYoung'
    BY <1>1, <1>2, <2>1, <2>4 DEF RunIsYoung
  <2>6. PrunedPathHasCopy'
    BY <1>1, <1>2, <2>1 DEF PrunedPathHasCopy
  <2>7. QED
    BY <2>3, <2>5, <2>6 DEF BackupInv
<1>6. ASSUME NEW d \in Dirs, CopyBegins(a, d) PROVE BackupInv'
  <2>1. /\ at[a] = "copy" /\ at' = [at EXCEPT ![a] = "copying"]
        /\ work' = [work EXCEPT ![a] = [work[a] EXCEPT !.left = @ \ {d}, !.path = {d}]]
        /\ files' = [files EXCEPT ![d] = @ \cup {Copy(a, FALSE)}]
        /\ UNCHANGED <<clock, posB, up, memoryB, boundsB, attended>>
    BY <1>2, <1>6 DEF CopyBegins, GoesTo
  <2>2. [work[a] EXCEPT !.left = @ \ {d}, !.path = {d}] \in Works
    BY <1>2, RunTyped
  <2>3. BackupTypeOK'
    BY <1>1, <1>4, <2>1, <2>2 DEF BackupTypeOK, Places, posB, memoryB, boundsB
  <2>4. work'[a].made = work[a].made
    BY <1>2, <2>1 DEF Works
  <2>5. RunIsYoung'
    BY <1>1, <1>2, <2>1, <2>4 DEF RunIsYoung
  <2>6. PrunedPathHasCopy'
    BY <1>1, <1>2, <1>3, <2>1 DEF PrunedPathHasCopy
  <2>7. QED
    BY <2>3, <2>5, <2>6 DEF BackupInv
<1>7. ASSUME NEW d \in Dirs, Copied(a, d) PROVE BackupInv'
  <2>1. /\ at[a] = "copying" /\ at' = [at EXCEPT ![a] = "prune"] /\ d \in work[a].path
        /\ work' = [work EXCEPT ![a] = [work[a] EXCEPT !.copied = TRUE]]
        /\ files' = [files EXCEPT ![d] = (files[d] \ {Copy(a, FALSE)}) \cup {Copy(a, TRUE)}]
        /\ UNCHANGED <<clock, posB, up, memoryB, boundsB, attended>>
    BY <1>2, <1>7 DEF Copied, Settles, GoesTo
  <2>2. [work[a] EXCEPT !.copied = TRUE] \in Works
    BY <1>2, RunTyped
  <2>3. BackupTypeOK'
    BY <1>1, <1>4, <2>1, <2>2 DEF BackupTypeOK, Places, posB, memoryB, boundsB
  <2>4. work'[a].made = work[a].made /\ work'[a].path = work[a].path
    BY <1>2, <2>1 DEF Works
  <2>5. RunIsYoung'
    BY <1>1, <1>2, <2>1, <2>4 DEF RunIsYoung
  <2>6. PrunedPathHasCopy'
    <3> SUFFICES ASSUME NEW b \in Actors, at'[b] = "prune", NEW e \in work'[b].path
                 PROVE  [made |-> work'[b].made, whole |-> TRUE] \in files'[e]
      BY DEF PrunedPathHasCopy
    <3>1. CASE b = a /\ e = d
      BY <1>2, <2>1, <2>4, <3>1 DEF Copy
    <3>2. b = a => e = d
      BY <1>2, <2>1, <2>4 DEF Works
    <3>3. CASE b # a
      <4>1. /\ at[b] = "prune" /\ work'[b] = work[b] /\ e \in Dirs
            /\ [made |-> work[b].made, whole |-> TRUE] \in files[e]
        BY <1>1, <1>2, <1>3, <2>1, <3>3 DEF PrunedPathHasCopy
      <4>2. [made |-> work[b].made, whole |-> TRUE] # Copy(a, FALSE)
        BY DEF Copy
      <4>3. QED
        BY <1>2, <2>1, <4>1, <4>2
    <3>4. QED
      BY <3>1, <3>2, <3>3
  <2>7. QED
    BY <2>3, <2>5, <2>6 DEF BackupInv
<1>8. ASSUME NEW d \in Dirs, CopyFails(a, d) PROVE BackupInv'
  <2>1. /\ at[a] = "copying" /\ at' = [at EXCEPT ![a] = "copy"]
        /\ files' = [files EXCEPT ![d] = files[d] \ {Copy(a, FALSE)}]
        /\ UNCHANGED <<clock, posB, up, memoryB, work, orders, attended>>
    BY <1>8 DEF CopyFails, Settles, GoesTo
  <2>2. mishaps' \in 0 .. MaxBackupFaults
    BY <1>8, MishapTyped DEF CopyFails
  <2>3. BackupTypeOK'
    BY <1>1, <2>1, <2>2 DEF BackupTypeOK, Places, posB, memoryB
  <2>4. RunIsYoung'
    BY <1>1, <1>2, <2>1 DEF RunIsYoung
  <2>5. PrunedPathHasCopy'
    BY <1>1, <1>2, <1>3, <2>1 DEF PrunedPathHasCopy, Copy
  <2>6. QED
    BY <2>3, <2>4, <2>5 DEF BackupInv
<1>9. ASSUME NEW d \in Dirs, Prunes(a, d) PROVE BackupInv'
  <2>1. /\ at[a] = "prune" /\ at' \in {at, [at EXCEPT ![a] = "copy"]}
        /\ UNCHANGED <<clock, posB, up, memoryB, work, boundsB, attended>>
    BY <1>9 DEF Prunes, GoesTo
  <2>2. \/ files' = files
        \/ \E f \in Expired(d) : files' = [files EXCEPT ![d] = @ \ {f}]
    BY <1>9 DEF Prunes
  <2>3. \A e \in Dirs : files'[e] \subseteq files[e]
                        /\ \A f \in files[e] \ files'[e] : f.made + 2 * RetentionDays < clock
    BY <1>2, <2>2 DEF Expired
  <2>4. files' \in [Dirs -> SUBSET Archives]
    BY <1>2, <2>2 DEF Expired
  <2>5. BackupTypeOK'
    BY <1>1, <2>1, <2>4 DEF BackupTypeOK, Places, posB, memoryB, boundsB
  <2>6. RunIsYoung'
    BY <1>1, <1>2, <2>1 DEF RunIsYoung
  <2>7. PrunedPathHasCopy'
    <3> SUFFICES ASSUME NEW b \in Actors, at'[b] = "prune", NEW e \in work[b].path
                 PROVE  [made |-> work[b].made, whole |-> TRUE] \in files'[e]
      BY <2>1 DEF PrunedPathHasCopy
    <3>1. at[b] = "prune" /\ e \in Dirs
      BY <1>2, <1>3, <2>1
    <3>2. [made |-> work[b].made, whole |-> TRUE] \in files[e]
      BY <1>1, <3>1 DEF PrunedPathHasCopy
    <3>3. work[b].made <= clock /\ clock <= work[b].made + 1
      BY <1>1, <3>1 DEF RunIsYoung
    <3>4. ~(work[b].made + 2 * RetentionDays < clock)
      BY <1>2, <1>3, <3>3, BackupAssumption
    <3>5. QED
      BY <2>3, <3>1, <3>2, <3>4
  <2>8. QED
    BY <2>5, <2>6, <2>7 DEF BackupInv
<1>10. QED
  BY <1>5, <1>6, <1>7, <1>8, <1>9

\* The POS, the clock, and the process's life.
LEMMA OutsideBackupSafe ==
    ASSUME BackupInv, PosRequests \/ TimePasses \/ ProcessEnds \/ ProcessStarts
    PROVE  BackupInv'
<1>1. BackupTypeOK /\ RunIsYoung /\ PrunedPathHasCopy
  BY DEF BackupInv
<1>2. CASE PosRequests
  <2>1. request' \in 0 .. MaxRequests
    <3>1. request \in 0 .. MaxRequests /\ MaxRequests \in Nat
      BY <1>1, BackupAssumption DEF BackupTypeOK
    <3>2. request < MaxRequests /\ request' = request + 1
      BY <1>2 DEF PosRequests
    <3>3. QED
      BY <3>1, <3>2
  <2>2. UNCHANGED <<clock, lastBackup, up, memoryB, at, work, files, boundsB, attended>>
    BY <1>2 DEF PosRequests
  <2>3. QED
    BY <1>1, <2>1, <2>2
       DEF BackupInv, BackupTypeOK, RunIsYoung, PrunedPathHasCopy, memoryB, boundsB
<1>3. CASE TimePasses
  <2>1. /\ clock' = clock + 1 /\ clock < 2 * MaxDays
        /\ \A a \in Actors : work[a].made \in {clock, Never}
        /\ UNCHANGED <<posB, up, memoryB, at, work, files, boundsB, attended>>
    BY <1>3 DEF TimePasses
  <2>2. /\ clock \in Nat /\ MaxDays \in Nat /\ Never = 2 * (MaxDays + 1)
        /\ \A a \in Actors : work[a].made \in Nat
    <3>1. clock \in 0 .. Never /\ work \in [Actors -> Works] /\ Never \in Nat
      BY <1>1, BackupAssumption DEF BackupTypeOK, Never
    <3>2. QED
      BY <3>1, BackupAssumption DEF Works, Never
  <2>3. clock' \in 0 .. Never
    BY <2>1, <2>2
  <2>4. RunIsYoung'
    <3> SUFFICES ASSUME NEW a \in Actors, at[a] \in {"copy", "copying", "prune"}
                 PROVE  work[a].made <= clock + 1 /\ clock + 1 <= work[a].made + 1
      BY <2>1 DEF RunIsYoung
    <3>1. work[a].made <= clock
      BY <1>1 DEF RunIsYoung
    <3>2. work[a].made = clock
      BY <2>1, <2>2, <3>1
    <3>3. QED
      BY <2>2, <3>2
  <2>5. BackupTypeOK'
    BY <1>1, <2>1, <2>3 DEF BackupTypeOK, Never, posB, memoryB, boundsB
  <2>6. PrunedPathHasCopy'
    BY <1>1, <2>1 DEF PrunedPathHasCopy
  <2>7. QED
    BY <2>4, <2>5, <2>6 DEF BackupInv
<1>4. CASE ProcessEnds
  BY <1>4, MishapTyped, EndsTyped DEF ProcessEnds, posB
<1>5. CASE ProcessStarts
  BY <1>1, <1>5 DEF ProcessStarts, BackupInv, BackupTypeOK, RunIsYoung, PrunedPathHasCopy,
     posB, memoryB, boundsB
<1>6. QED
  BY <1>2, <1>3, <1>4, <1>5

\* Every step of the backups keeps their invariant.
LEMMA BackupStep ==
    ASSUME BackupInv, BackupNext \/ UNCHANGED backupVars
    PROVE  BackupInv'
<1>1. CASE UNCHANGED backupVars
  BY <1>1 DEF BackupInv, BackupTypeOK, RunIsYoung, PrunedPathHasCopy, backupVars, posB,
     memoryB, boundsB
<1>2. CASE BackupNext
  <2>1. CASE up /\ (PollBegins \/ Order)
    BY <2>1, TalksSafe
  <2>2. ASSUME NEW a \in Actors, Proceeds(a) PROVE BackupInv'
    BY <2>2, TalksSafe, PathsSafe DEF Proceeds
  <2>3. CASE PosRequests \/ TimePasses \/ ProcessEnds \/ ProcessStarts
    BY <2>3, OutsideBackupSafe
  <2>4. QED
    BY <1>2, <2>1, <2>2, <2>3 DEF BackupNext
<1>3. QED
  BY <1>1, <1>2

\* What goes from a path is an archive that is not whole, or one that has
\* expired, while the path has a whole one that has not.
LEMMA KeepsBackups ==
    ASSUME BackupInv, BackupNext \/ UNCHANGED backupVars,
           NEW d \in Dirs, HasWhole(files[d])
    PROVE  HasWhole(files'[d])
<1>1. files \in [Dirs -> SUBSET Archives]
  BY DEF BackupInv, BackupTypeOK
<1>2. CASE files' = files
  BY <1>2
<1>3. ASSUME NEW a \in Actors, NEW e \in Dirs,
             CopyBegins(a, e) \/ Copied(a, e) \/ CopyFails(a, e)
      PROVE  HasWhole(files'[d])
  <2>1. PICK f \in files[d] : f.whole
    BY DEF HasWhole
  <2>2. f # Copy(a, FALSE)
    BY <2>1 DEF Copy
  <2>3. f \in files'[d]
    BY <1>1, <1>3, <2>2 DEF CopyBegins, Copied, CopyFails, Settles
  <2>4. QED
    BY <2>1, <2>3 DEF HasWhole
<1>4. ASSUME NEW a \in Actors, NEW e \in Dirs, Prunes(a, e), files' # files
      PROVE  HasWhole(files'[d])
  <2>1. PICK f \in Expired(e) : files' = [files EXCEPT ![e] = @ \ {f}]
    BY <1>4 DEF Prunes
  <2>2. CASE d # e
    BY <1>1, <2>1, <2>2
  <2>3. CASE d = e
    <3> DEFINE copy == [made |-> work[a].made, whole |-> TRUE]
    <3>1. copy \in files[d] /\ work[a].made <= clock /\ clock <= work[a].made + 1
      BY <1>4, <2>3 DEF Prunes, BackupInv, PrunedPathHasCopy, RunIsYoung
    <3>2. work[a].made \in Nat /\ clock \in Nat
      <4>1. work[a] \in Works /\ clock \in 0 .. Never /\ Never \in Nat
        BY BackupAssumption DEF BackupInv, BackupTypeOK, Never
      <4>2. QED
        BY <4>1 DEF Works
    <3>3. f.made + 2 * RetentionDays < clock
      BY DEF Expired
    <3>4. copy # f
      BY <3>1, <3>2, <3>3, BackupAssumption
    <3>5. copy \in files'[d]
      BY <1>1, <2>1, <2>3, <3>1, <3>4
    <3>6. QED
      BY <3>5 DEF HasWhole
  <2>4. QED
    BY <2>2, <2>3
<1>5. \/ files' = files
      \/ \E a \in Actors, e \in Dirs :
            CopyBegins(a, e) \/ Copied(a, e) \/ CopyFails(a, e) \/ Prunes(a, e)
  <2>1. CASE UNCHANGED backupVars
    BY <2>1 DEF backupVars
  <2>2. CASE BackupNext
    <3>1. CASE up /\ (PollBegins \/ Order)
      BY <3>1 DEF PollBegins, Order
    <3>2. CASE PosRequests \/ TimePasses \/ ProcessEnds \/ ProcessStarts
      BY <3>2 DEF PosRequests, TimePasses, ProcessEnds, ProcessStarts
    <3>3. ASSUME NEW a \in Actors, Proceeds(a),
                 ~ \E e \in Dirs : CopyBegins(a, e) \/ Copied(a, e) \/ CopyFails(a, e) \/ Prunes(a, e)
          PROVE  files' = files
      BY <3>3 DEF Proceeds, PollDecides, OrderedRun, OrderedRestore, Restored, PolicyFails,
         Dumped, DumpFails, AllCopied, Report
    <3>4. QED
      BY <2>2, <3>1, <3>2, <3>3 DEF BackupNext
  <2>3. QED
    BY <2>1, <2>2
<1>6. QED
  BY <1>2, <1>3, <1>4, <1>5

-----------------------------------------------------------------------------
(* Alerts *)

\* The candidate has been seen as often as is counted, in a row, and what is
\* not believed yet has not been seen often enough.
EvidenceCounted ==
    /\ candidate # confirmed =>
          /\ candidateCount < ConfirmSamples
          /\ candidateCount <= Len(recent.verdicts)
          /\ \A i \in 1 .. candidateCount : recent.verdicts[i] = candidate
    /\ Len(recent.verdicts) <= ConfirmSamples

HealthInv == HealthTypeOK /\ EvidenceCounted /\ AlertsConfirmed

\* The alerter begins without evidence.
LEMMA HealthStart == HealthInit => HealthInv
<1> SUFFICES ASSUME HealthInit PROVE HealthInv
  OBVIOUS
<1>1. <<>> \in Seq(Verdicts) /\ Len(<<>>) = 0
  OBVIOUS
<1>2. HealthTypeOK
  <2>1. shown \in [Stations -> Shown] /\ enabled \in [Stations -> BOOLEAN]
    BY DEF HealthInit, Shown
  <2>2. recent \in [verdicts : Seq(Verdicts), alert : Verdicts \cup {"nothing"}]
    BY <1>1 DEF HealthInit
  <2>3. 0 \in 0 .. ConfirmSamples /\ MinInterval \in 0 .. MinInterval
    BY HealthAssumption
  <2>4. QED
    BY <2>1, <2>2, <2>3 DEF HealthInit, HealthTypeOK, Ages
<1>3. EvidenceCounted /\ AlertsConfirmed
  BY <1>1, HealthAssumption DEF HealthInit, EvidenceCounted, AlertsConfirmed
<1>4. QED
  BY <1>2, <1>3 DEF HealthInv

\* The newest verdict goes first, and the oldest goes when there are enough.
LEMMA NotedVerdicts ==
    ASSUME NEW v \in Verdicts, recent.verdicts \in Seq(Verdicts),
           Len(recent.verdicts) <= ConfirmSamples
    PROVE  LET noted == Noted(v).verdicts
           IN  /\ noted \in Seq(Verdicts)
               /\ Len(noted) = IF Len(recent.verdicts) < ConfirmSamples
                               THEN Len(recent.verdicts) + 1 ELSE ConfirmSamples
               /\ \A i \in 1 .. Len(noted) :
                     noted[i] = IF i = 1 THEN v ELSE recent.verdicts[i - 1]
<1> DEFINE all == <<v>> \o recent.verdicts
           n   == IF Len(recent.verdicts) < ConfirmSamples
                  THEN Len(recent.verdicts) + 1 ELSE ConfirmSamples
<1>1. /\ all \in Seq(Verdicts)
      /\ Len(all) = Len(recent.verdicts) + 1
      /\ \A i \in 1 .. Len(all) : all[i] = IF i = 1 THEN v ELSE recent.verdicts[i - 1]
  <2>1. <<v>> \in Seq(Verdicts) /\ Len(<<v>>) = 1 /\ <<v>>[1] = v
    OBVIOUS
  <2>2. QED
    BY <2>1, ConcatProperties
<1>2. n \in 0 .. Len(all) /\ n \in Nat
  BY <1>1, HealthAssumption
<1> HIDE DEF all, n
<1>3. /\ SubSeq(all, 1, n) \in Seq(Verdicts)
      /\ Len(SubSeq(all, 1, n)) = n
      /\ \A i \in 1 .. n : SubSeq(all, 1, n)[i] = all[i]
  <2>1. 1 \in Int /\ n \in Int /\ \A i \in 1 .. n : all[i] \in Verdicts
    BY <1>1, <1>2
  <2>2. /\ SubSeq(all, 1, n) \in Seq(Verdicts)
        /\ Len(SubSeq(all, 1, n)) = IF 1 <= n THEN n - 1 + 1 ELSE 0
        /\ \A i \in 1 .. n - 1 + 1 : SubSeq(all, 1, n)[i] = all[1 + i - 1]
    BY ONLY <2>1, SubSeqProperties
  <2>3. QED
    BY <1>2, <2>2
<1>4. Noted(v).verdicts = SubSeq(all, 1, n)
  BY DEF Noted, all, n
<1>5. \A i \in 1 .. n : i \in 1 .. Len(all)
  BY <1>1, <1>2
<1>6. QED
  BY <1>1, <1>3, <1>4, <1>5 DEF n

\* What a sample makes of its verdict.
LEMMA SampleSafe ==
    ASSUME HealthInv, Sample
    PROVE  HealthInv'
<1> DEFINE v == Verdict
<1>1. HealthTypeOK /\ EvidenceCounted /\ AlertsConfirmed /\ UNCHANGED world
  BY DEF HealthInv, Sample
<1>2. v \in Verdicts
  BY DEF Verdict, Verdicts
<1>3. /\ candidateCount \in 0 .. ConfirmSamples /\ ConfirmSamples \in Nat \ {0}
      /\ recent.verdicts \in Seq(Verdicts) /\ Len(recent.verdicts) \in Nat
      /\ recent.alert \in Verdicts \cup {"nothing"}
      /\ sinceAlert \in 0 .. MinInterval /\ MinInterval \in Nat
  BY <1>1, HealthAssumption DEF HealthTypeOK
<1>4. /\ sinceAlert' \in 0 .. MinInterval
      /\ told' \in Verdicts \cup {"nothing"} /\ heard' \in Verdicts \cup {"nothing"}
  BY <1>1, <1>2, <1>3 DEF Sample, HealthTypeOK
<1>5. CASE /\ initializing
           /\ recent' = [recent EXCEPT !.alert = "nothing"]
           /\ UNCHANGED <<confirmed, candidate, candidateCount, told, heard>>
  <2>1. recent'.verdicts = recent.verdicts /\ recent'.alert = "nothing"
        /\ recent' \in [verdicts : Seq(Verdicts), alert : Verdicts \cup {"nothing"}]
    BY <1>1, <1>5 DEF HealthTypeOK
  <2>2. HealthTypeOK'
    BY <1>1, <1>4, <1>5, <2>1 DEF HealthTypeOK, world
  <2>3. EvidenceCounted' /\ AlertsConfirmed'
    BY <1>1, <1>5, <2>1 DEF EvidenceCounted, AlertsConfirmed
  <2>4. QED
    BY <2>2, <2>3 DEF HealthInv
<1>6. CASE /\ ~initializing
           /\ Agrees(v) \/ First(v) \/ Disagrees(v)
           /\ recent' = Noted(v)
  <2> HIDE DEF v
  <2> DEFINE seen == recent.verdicts
  <2>1. /\ recent'.verdicts \in Seq(Verdicts)
        /\ Len(recent'.verdicts) = IF Len(seen) < ConfirmSamples
                                   THEN Len(seen) + 1 ELSE ConfirmSamples
        /\ \A i \in 1 .. Len(recent'.verdicts) :
              recent'.verdicts[i] = IF i = 1 THEN v ELSE seen[i - 1]
    <3>1. Len(seen) <= ConfirmSamples
      BY <1>1 DEF EvidenceCounted
    <3>2. QED
      BY <1>2, <1>3, <1>6, <3>1, NotedVerdicts
  <2>2. recent'.alert = IF Alerts(v) THEN v ELSE "nothing"
    BY <1>6 DEF Noted
  <2>3. recent' \in [verdicts : Seq(Verdicts), alert : Verdicts \cup {"nothing"}]
    <3>1. recent' = [verdicts |-> recent'.verdicts, alert |-> recent'.alert]
      BY <1>6 DEF Noted
    <3>2. QED
      BY <1>2, <2>1, <2>2, <3>1
  <2>4. /\ confirmed' \in Verdicts \cup {"nothing"} /\ candidate' \in Verdicts \cup {"nothing"}
        /\ candidateCount' \in 0 .. ConfirmSamples
        /\ candidate' # confirmed' => candidateCount' < ConfirmSamples
        /\ \/ candidate' = confirmed' /\ candidateCount' = ConfirmSamples
           \/ candidate' = v /\ candidateCount' = 1
           \/ candidate = v /\ candidate' = v /\ candidate # confirmed
              /\ candidateCount' = candidateCount + 1
    <3>1. CASE Agrees(v) \/ First(v)
      BY <1>1, <1>2, <1>3, <3>1 DEF Agrees, First, HealthTypeOK
    <3>2. CASE Disagrees(v)
      BY <1>1, <1>2, <1>3, <3>2 DEF Disagrees, Gathers, HealthTypeOK, EvidenceCounted
    <3>3. QED
      BY <1>6, <3>1, <3>2
  <2>5. HealthTypeOK'
    BY <1>1, <1>4, <2>3, <2>4 DEF HealthTypeOK, world
  <2>6. ASSUME candidateCount' = 1 \/ (candidate = v /\ candidate # confirmed
                                       /\ candidateCount' = candidateCount + 1),
               candidate' = v
        PROVE  /\ candidateCount' <= Len(recent'.verdicts)
               /\ \A i \in 1 .. candidateCount' : recent'.verdicts[i] = v
    <3>1. candidateCount' <= Len(recent'.verdicts)
      BY <1>1, <1>3, <2>1, <2>4, <2>6 DEF EvidenceCounted
    <3>2. ASSUME NEW i \in 1 .. candidateCount' PROVE recent'.verdicts[i] = v
      <4>1. i \in 1 .. Len(recent'.verdicts)
        BY <1>3, <2>1, <2>4, <3>1
      <4>2. CASE i = 1
        BY <2>1, <4>1, <4>2
      <4>3. CASE i # 1
        <5>1. /\ candidateCount' = candidateCount + 1 /\ i - 1 \in 1 .. candidateCount
              /\ candidate = v /\ candidate # confirmed
          BY <1>3, <2>4, <2>6, <4>3
        <5>2. seen[i - 1] = v
          BY <1>1, <5>1 DEF EvidenceCounted
        <5>3. QED
          BY <2>1, <4>1, <4>3, <5>2
      <4>4. QED
        BY <4>2, <4>3
    <3>3. QED
      BY <3>1, <3>2
  <2>7. EvidenceCounted'
    <3>1. Len(recent'.verdicts) <= ConfirmSamples
      BY <1>1, <1>3, <2>1 DEF EvidenceCounted
    <3>2. QED
      BY <2>4, <2>6, <3>1 DEF EvidenceCounted
  <2>8. AlertsConfirmed'
    <3> SUFFICES ASSUME recent'.alert # "nothing"
                 PROVE  /\ Len(recent'.verdicts) = ConfirmSamples
                        /\ \A i \in DOMAIN recent'.verdicts : recent'.verdicts[i] = recent'.alert
      BY DEF AlertsConfirmed
    <3>1. Alerts(v) /\ recent'.alert = v
      BY <2>2
    <3>2. /\ confirmed \notin {v, "nothing"} /\ candidateCount' >= ConfirmSamples
      BY <3>1 DEF Alerts
    <3>3. Disagrees(v)
      BY <1>6, <3>2 DEF Agrees, First
    <3>4. /\ candidate' = v
          /\ candidateCount' = 1 \/ (candidate = v /\ candidate # confirmed
                                     /\ candidateCount' = candidateCount + 1)
      BY <3>2, <3>3 DEF Disagrees, Gathers
    <3>5. /\ candidateCount' <= Len(recent'.verdicts)
          /\ \A i \in 1 .. candidateCount' : recent'.verdicts[i] = v
      BY <2>6, <3>4
    <3>6. Len(recent'.verdicts) = ConfirmSamples /\ candidateCount' = ConfirmSamples
      <4>1. Len(recent'.verdicts) <= ConfirmSamples /\ Len(recent'.verdicts) \in Nat
        BY <2>1, <2>7 DEF EvidenceCounted
      <4>2. QED
        BY <1>3, <2>4, <3>2, <3>5, <4>1
    <3>7. DOMAIN recent'.verdicts = 1 .. ConfirmSamples
      BY <2>1, <3>6
    <3>8. QED
      BY <3>1, <3>5, <3>6, <3>7
  <2>9. QED
    BY <2>5, <2>7, <2>8 DEF HealthInv
<1>7. QED
  BY <1>5, <1>6 DEF Sample

\* Every sample, every change of printers and queue, and a restart, keeps it.
LEMMA HealthStep ==
    ASSUME HealthInv, HealthNext \/ UNCHANGED healthVars
    PROVE  HealthInv'
<1>1. CASE Sample
  BY <1>1, SampleSafe
<1>2. CASE \/ \E p \in Stations : StatusChanges(p) \/ Switches(p)
           \/ Initializes \/ QueueChanges \/ UNCHANGED healthVars
  <2>1. UNCHANGED alerter
    BY <1>2 DEF StatusChanges, Switches, Initializes, QueueChanges, healthVars
  <2>2. /\ shown' \in [Stations -> Shown] /\ enabled' \in [Stations -> BOOLEAN]
        /\ initializing' \in BOOLEAN /\ abandoned' \in BOOLEAN /\ oldest' \in Ages
    <3>1. HealthTypeOK
      BY DEF HealthInv
    <3>2. CASE \E p \in Stations : StatusChanges(p)
      BY <3>1, <3>2 DEF HealthTypeOK, StatusChanges
    <3>3. CASE \E p \in Stations : Switches(p)
      BY <3>1, <3>3 DEF HealthTypeOK, Switches
    <3>4. CASE Initializes
      BY <3>1, <3>4 DEF HealthTypeOK, Initializes
    <3>5. CASE QueueChanges
      BY <3>1, <3>5 DEF HealthTypeOK, QueueChanges
    <3>6. CASE UNCHANGED healthVars
      BY <3>1, <3>6 DEF HealthTypeOK, healthVars, world
    <3>7. QED
      BY <1>2, <3>2, <3>3, <3>4, <3>5, <3>6
  <2>3. QED
    BY <2>1, <2>2 DEF HealthInv, HealthTypeOK, EvidenceCounted, AlertsConfirmed, alerter
<1>3. CASE HealthRestarts
  <2>1. <<>> \in Seq(Verdicts) /\ Len(<<>>) = 0
    OBVIOUS
  <2>2. HealthTypeOK'
    <3>1. shown' \in [Stations -> Shown]
      BY <1>3 DEF HealthRestarts, Shown
    <3>2. recent' \in [verdicts : Seq(Verdicts), alert : Verdicts \cup {"nothing"}]
      BY <1>3, <2>1 DEF HealthRestarts
    <3>3. 0 \in 0 .. ConfirmSamples /\ MinInterval \in 0 .. MinInterval
      BY HealthAssumption
    <3>4. QED
      BY <1>3, <3>1, <3>2, <3>3 DEF HealthRestarts, HealthTypeOK, HealthInv
  <2>3. EvidenceCounted' /\ AlertsConfirmed'
    BY <1>3, <2>1, HealthAssumption DEF HealthRestarts, EvidenceCounted, AlertsConfirmed
  <2>4. QED
    BY <2>2, <2>3 DEF HealthInv
<1>4. QED
  BY <1>1, <1>2, <1>3 DEF HealthNext

-----------------------------------------------------------------------------
(* The watch *)

\* The watch begins with its child, or is over.
LEMMA WatchStart ==
    ASSUME NEW over \in BOOLEAN, WatchBegins(over)
    PROVE  WatchTypeOK
<1>1. 0 \in 0 .. MaxDeviceChanges /\ 0 \in 0 .. MaxChildFailures /\ 0 \in 0 .. 4
  BY WatchAssumption
<1>2. QED
  BY <1>1 DEF WatchBegins, WatchTypeOK, Children

\* The look, and what asks for it.
LEMMA LooksTyped ==
    ASSUME WatchTypeOK, LookTaken \/ LookExpires \/ Manager \/ Checker \/ DebounceEnds
    PROVE  WatchTypeOK'
<1> USE DEF WatchTypeOK
<1>1. CASE LookTaken
  <2>1. PICK look \in 0 .. MaxDeviceChanges : look \in inFlight /\ known' = look
    BY <1>1 DEF LookTaken
  <2>2. UNCHANGED <<device, child, debounce, queued, asked, begun, interval, stopped>>
    BY <1>1 DEF LookTaken
  <2>3. /\ snapshot' \in SUBSET (0 .. MaxDeviceChanges) /\ inFlight' = {}
        /\ reconciling' \in {"no", "asks", "waits", "looked"}
        /\ checking' \in {"no", "asks", "waits"}
    BY <1>1 DEF LookTaken
  <2>4. QED
    BY <2>1, <2>2, <2>3 DEF child
<1>2. CASE LookExpires
  BY <1>2 DEF LookExpires, child, pass, checks
<1>3. CASE ReconcileAsks
  BY <1>3 DEF ReconcileAsks, Fresh, Waits, child, checks, looks
<1>4. CASE ReconcileEnds
  BY <1>4 DEF ReconcileEnds, NextPass, PassBegins, child, checks
<1>5. CASE HealthCheck \/ CheckAsks
  <2>1. CASE HealthCheck
    BY <2>1 DEF HealthCheck, child, pass, looks
  <2>2. CASE CheckAsks
    BY <2>2 DEF CheckAsks, Fresh, Waits, child, pass, looks
  <2>3. QED
    BY <1>5, <2>1, <2>2
<1>6. CASE DebounceEnds
  BY <1>6 DEF DebounceEnds, PassBegins, child, checks
<1>7. QED
  BY <1>1, <1>2, <1>3, <1>4, <1>5, <1>6 DEF Manager, Checker

\* handleExit keeps the types of the child, its timers and the interval.
LEMMA HandleExitTyped ==
    ASSUME WatchTypeOK, NEW times \in {1, 2}, HandleExits(times), failures' \in 0 .. MaxChildFailures
    PROVE  WatchTypeOK'
<1>1. attempts \in 0 .. 4
  BY DEF WatchTypeOK
<1>2. (IF attempts + times < 4 THEN attempts + times ELSE 4) \in 0 .. 4
  BY <1>1
<1>3. attempts' \in 0 .. 4 /\ interval' \in {"slow", "fast", "none"} /\ restartDue' \in BOOLEAN
  BY <1>1, <1>2 DEF WatchTypeOK, HandleExits, Restarts, Faster
<1>4. /\ watcher' = "none" /\ ~event' /\ ~silenceDue' /\ ~debounce'
      /\ UNCHANGED <<device, known, looks, pass, checking, stopped>>
  BY DEF HandleExits
<1>5. event' \in BOOLEAN /\ silenceDue' \in BOOLEAN /\ debounce' \in BOOLEAN
  BY DEF HandleExits
<1>6. QED
  BY <1>3, <1>4, <1>5 DEF WatchTypeOK, Children, looks, pass

\* So does everything else that becomes of the child.
LEMMA ChildTyped ==
    ASSUME WatchTypeOK,
           \/ ChildClosed \/ Spawn \/ Ready \/ SilenceEnds \/ ReadsEvent
           \/ ChildEnds \/ StartFails \/ ChildSilent \/ ShutDown \/ DeviceChanges
    PROVE  WatchTypeOK'
<1>1. ASSUME Fails PROVE failures' \in 0 .. MaxChildFailures
  <2>1. failures \in 0 .. MaxChildFailures /\ MaxChildFailures \in Nat
    BY WatchAssumption DEF WatchTypeOK
  <2>2. failures < MaxChildFailures /\ failures' = failures + 1
    BY <1>1 DEF Fails
  <2>3. QED
    BY <2>1, <2>2
<1>2. CASE ChildClosed
  <2>1. HandleExits(1) /\ failures' \in 0 .. MaxChildFailures
    BY <1>2 DEF ChildClosed, WatchTypeOK
  <2>2. QED
    BY <2>1, HandleExitTyped
<1>3. CASE ChildEnds \/ StartFails
  BY <1>1, <1>3, HandleExitTyped DEF ChildEnds, StartFails
<1>4. CASE ChildSilent
  BY <1>1, <1>4 DEF ChildSilent, WatchTypeOK, Children, looks, pass, checks
<1>5. CASE Spawn \/ Ready
  <2>1. CASE Spawn
    BY <2>1 DEF Spawn, WatchTypeOK, Children, looks, pass, checks
  <2>2. CASE Ready
    BY <2>2 DEF Ready, WatchTypeOK, Children, looks, pass, checks
  <2>3. QED
    BY <1>5, <2>1, <2>2
<1>6. CASE SilenceEnds \/ ReadsEvent
  <2>1. CASE SilenceEnds
    <3>1. watcher' \in Children /\ silenceDue' \in BOOLEAN
      BY <2>1 DEF SilenceEnds, WatchTypeOK, Children
    <3>2. UNCHANGED <<device, known, looks, event, attempts, restartDue, failures, debounce,
                      pass, checks, stopped>>
      BY <2>1 DEF SilenceEnds
    <3>3. QED
      BY <3>1, <3>2 DEF WatchTypeOK, looks, pass, checks
  <2>2. CASE ReadsEvent
    BY <2>2 DEF ReadsEvent, WatchTypeOK, looks, pass, checks
  <2>3. QED
    BY <1>6, <2>1, <2>2
<1>7. CASE ShutDown
  BY <1>7 DEF ShutDown, WatchTypeOK, Children, looks, pass
<1>8. CASE DeviceChanges
  <2>1. device \in 0 .. MaxDeviceChanges
    BY DEF WatchTypeOK
  <2>2. device' \in 0 .. MaxDeviceChanges
    BY <1>8, <2>1, WatchAssumption DEF DeviceChanges
  <2>3. event' \in BOOLEAN
    BY <1>8 DEF DeviceChanges, WatchTypeOK
  <2>4. QED
    BY <1>8, <2>2, <2>3 DEF DeviceChanges, WatchTypeOK, looks, pass, checks
<1>9. QED
  BY <1>2, <1>3, <1>4, <1>5, <1>6, <1>7, <1>8

\* Every step of the watch keeps its types.
LEMMA WatchStep ==
    ASSUME WatchTypeOK, WatchNext \/ UNCHANGED watchVars
    PROVE  WatchTypeOK'
<1>1. CASE UNCHANGED watchVars
  BY <1>1 DEF WatchTypeOK, watchVars, looks, child, pass, checks
<1>2. CASE WatchNext
  BY <1>2, LooksTyped, ChildTyped DEF WatchNext, Supervises
<1>3. QED
  BY <1>1, <1>2

-----------------------------------------------------------------------------
(* Updates *)

\* What is downloaded, and what is to be installed, is newer than the program
\* that runs, and trusted only with its publisher's signature.
OnlyNewer ==
    /\ \A r \in download.of :
          Available(r) /\ (download.trusted => r \in Signed)
    /\ \A i \in install :
          Available(i.of) /\ (i.trusted => i.of \in Signed)

UpdatesInv == UpdatesTypeOK /\ OnlyNewer

\* The update manager begins without an answer or a download.
LEMMA UpdatesStart == UpdatesInit => UpdatesInv
<1> SUFFICES ASSUME UpdatesInit PROVE UpdatesInv
  OBVIOUS
<1>1. 1 \in Releases
  BY UpdatesAssumption DEF Releases
<1>2. announced \in [Sources -> Releases] /\ 0 \in 0 .. MaxAnnouncements
  BY UpdatesAssumption DEF UpdatesInit
<1>3. /\ download = [state |-> "idle", of |-> {}, trusted |-> FALSE]
      /\ changes = 0 /\ whole = {} /\ installKind \in {"setup", "portable", "none"}
      /\ version = 1 /\ asking = "no" /\ latest = {} /\ install = {} /\ launched = {}
  BY DEF UpdatesInit
<1>4. download \in Downloads
  BY <1>3 DEF Downloads, AtMostOne
<1>5. UpdatesTypeOK
  BY <1>1, <1>2, <1>3, <1>4 DEF UpdatesTypeOK, AtMostOne
<1>6. OnlyNewer
  BY <1>3 DEF OnlyNewer
<1>7. QED
  BY <1>5, <1>6 DEF UpdatesInv

\* check() touches nothing but what is the latest.
LEMMA CheckSafe ==
    ASSUME UpdatesInv, CheckBegins \/ CheckAnswered
    PROVE  UpdatesInv'
<1>1. asking \in {"no"} \cup Sources /\ announced \in [Sources -> Releases]
      /\ latest \in AtMostOne(Releases)
  BY DEF UpdatesInv, UpdatesTypeOK
<1>2. UNCHANGED <<sources, whole, installKind, version, download, install, launched>>
  BY DEF CheckBegins, CheckAnswered
<1>3. asking' \in {"no"} \cup Sources /\ latest' \in AtMostOne(Releases)
  <2>1. CASE CheckBegins
    BY <1>1, <2>1 DEF CheckBegins, Sources
  <2>2. CASE CheckAnswered /\ Answers
    <3>1. announced[asking] \in Releases
      BY <1>1, <2>2 DEF CheckAnswered
    <3>2. QED
      BY <2>2, <3>1 DEF Answers, AtMostOne
  <2>3. CASE CheckAnswered /\ ~Answers
    BY <1>1, <2>3 DEF CheckAnswered, FallsBack, OfNoUse, Sources
  <2>4. QED
    BY <2>1, <2>2, <2>3
<1>4. UpdatesTypeOK' /\ OnlyNewer'
  BY <1>2, <1>3 DEF UpdatesInv, UpdatesTypeOK, OnlyNewer, Available, sources
<1>5. QED
  BY <1>4 DEF UpdatesInv

\* download() begins with the latest release, which is a newer one, and trusts
\* it when Windows has told whose it is.
LEMMA DownloadSafe ==
    ASSUME UpdatesInv, DownloadBegins \/ Downloaded \/ Inspected
    PROVE  UpdatesInv'
<1>1. UpdatesTypeOK /\ OnlyNewer
  BY DEF UpdatesInv
<1>2. /\ UNCHANGED <<sources, installKind, version, asking, latest, install, launched>>
      /\ download \in Downloads /\ latest \in AtMostOne(Releases) /\ whole \subseteq Releases
  BY <1>1 DEF DownloadBegins, Downloaded, Inspected, UpdatesTypeOK
<1>3. download.of \in AtMostOne(Releases) /\ download.of \subseteq Releases
  BY <1>2 DEF Downloads, AtMostOne
<1>4. ASSUME download' \in Downloads, whole' \subseteq Releases,
             \A r \in download'.of : Available(r) /\ (download'.trusted => r \in Signed)
      PROVE  UpdatesInv'
  BY <1>1, <1>2, <1>4 DEF UpdatesInv, UpdatesTypeOK, OnlyNewer, Available, sources
<1>5. CASE DownloadBegins
  <2>1. PICK r \in latest : /\ Downloadable(r)
                            /\ download' = [state |-> "downloading", of |-> {r}, trusted |-> FALSE]
    BY <1>5 DEF DownloadBegins
  <2>2. r \in Releases /\ {r} \in AtMostOne(Releases)
    BY <1>2 DEF AtMostOne
  <2>3. download' \in Downloads
    BY <2>1, <2>2 DEF Downloads
  <2>4. QED
    BY <1>2, <1>4, <1>5, <2>1, <2>3 DEF DownloadBegins, Downloadable
<1>6. CASE Downloaded
  <2>1. PICK state \in {"inspecting", "failed"} : download' = [download EXCEPT !.state = state]
    BY <1>6 DEF Downloaded
  <2>2. /\ download' \in Downloads /\ download'.of = download.of
        /\ download'.trusted = download.trusted
    BY <1>2, <2>1 DEF Downloads
  <2>3. whole' \subseteq Releases
    BY <1>2, <1>3, <1>6 DEF Downloaded
  <2>4. QED
    BY <1>1, <1>4, <2>2, <2>3 DEF OnlyNewer
<1>7. CASE Inspected
  <2>1. whole' = whole
    BY <1>7 DEF Inspected
  <2>2. CASE download' = [download EXCEPT !.state = "ready", !.trusted = download.of \subseteq Signed]
    <3>1. /\ download' \in Downloads /\ download'.of = download.of
          /\ download'.trusted = (download.of \subseteq Signed)
      BY <1>2, <2>2 DEF Downloads
    <3>2. QED
      BY <1>1, <1>2, <1>4, <2>1, <3>1 DEF OnlyNewer
  <2>3. CASE \E state \in {"ready", "failed"} : download' = [download EXCEPT !.state = state]
    <3>1. /\ download' \in Downloads /\ download'.of = download.of
          /\ download'.trusted = download.trusted
      BY <1>2, <2>3 DEF Downloads
    <3>2. QED
      BY <1>1, <1>2, <1>4, <2>1, <3>1 DEF OnlyNewer
  <2>4. QED
    BY <1>7, <2>2, <2>3 DEF Inspected
<1>8. QED
  BY <1>5, <1>6, <1>7

\* install() takes what is ready, and launches it or not.
LEMMA InstallSafe ==
    ASSUME UpdatesInv, InstallBegins \/ InstallHashed
    PROVE  UpdatesInv'
<1>1. UpdatesTypeOK /\ OnlyNewer
  BY DEF UpdatesInv
<1>2. UNCHANGED <<sources, whole, installKind, version, asking, latest, download>>
  BY DEF InstallBegins, InstallHashed
<1>3. /\ download \in Downloads /\ latest \in AtMostOne(Releases)
      /\ install \in AtMostOne(Installs) /\ launched \in AtMostOne(Releases)
  BY <1>1 DEF UpdatesTypeOK
<1>4. CASE InstallBegins
  <2> DEFINE expected == {e \in latest : installKind = "portable" => e \in Portable}
  <2>1. PICK r \in download.of :
            install' = {[of |-> r, trusted |-> download.trusted, expected |-> expected]}
    BY <1>4 DEF InstallBegins
  <2>2. r \in Releases /\ download.trusted \in BOOLEAN
    BY <1>3 DEF Downloads, AtMostOne
  <2>3. expected \in AtMostOne(Releases)
    BY <1>3 DEF AtMostOne
  <2> HIDE DEF expected
  <2>4. install' \in AtMostOne(Installs)
    BY <2>1, <2>2, <2>3 DEF Installs, AtMostOne
  <2>5. launched' = launched
    BY <1>4 DEF InstallBegins
  <2>6. UpdatesTypeOK'
    BY <1>1, <1>2, <2>4, <2>5 DEF UpdatesTypeOK, sources
  <2>7. OnlyNewer'
    BY <1>1, <1>2, <2>1 DEF OnlyNewer, Available
  <2>8. QED
    BY <2>6, <2>7 DEF UpdatesInv
<1>5. CASE InstallHashed
  <2>1. \A i \in install : {i.of} \in AtMostOne(Releases)
    BY <1>3 DEF Installs, AtMostOne
  <2>2. install' = {} /\ launched' \in AtMostOne(Releases)
    BY <1>3, <1>5, <2>1 DEF InstallHashed
  <2>3. install' \in AtMostOne(Installs)
    BY <2>2 DEF AtMostOne
  <2>4. UpdatesTypeOK'
    BY <1>1, <1>2, <2>2, <2>3 DEF UpdatesTypeOK, sources
  <2>5. OnlyNewer'
    BY <1>1, <1>2, <2>2 DEF OnlyNewer, Available
  <2>6. QED
    BY <2>4, <2>5 DEF UpdatesInv
<1>6. QED
  BY <1>4, <1>5

\* Announcements, damaged files and a new start keep the invariant of the updates.
LEMMA OutsideUpdatesSafe ==
    ASSUME UpdatesInv, Announces \/ Damaged \/ StartsAgain
    PROVE  UpdatesInv'
<1>1. UpdatesTypeOK /\ OnlyNewer
  BY DEF UpdatesInv
<1>2. CASE Announces
  <2>1. announced' \in [Sources -> Releases] /\ changes' \in 0 .. MaxAnnouncements
    <3>1. changes \in 0 .. MaxAnnouncements /\ MaxAnnouncements \in Nat
      BY <1>1, UpdatesAssumption DEF UpdatesTypeOK
    <3>2. changes < MaxAnnouncements /\ changes' = changes + 1
      BY <1>2 DEF Announces
    <3>3. announced' \in [Sources -> Releases]
      BY <1>1, <1>2 DEF Announces, UpdatesTypeOK
    <3>4. QED
      BY <3>1, <3>2, <3>3
  <2>2. UNCHANGED <<whole, installKind, version, status, launched>>
    BY <1>2 DEF Announces
  <2>3. QED
    BY <1>1, <2>1, <2>2 DEF UpdatesInv, UpdatesTypeOK, OnlyNewer, Available, status
<1>3. CASE Damaged
  BY <1>1, <1>3 DEF Damaged, UpdatesInv, UpdatesTypeOK, OnlyNewer, Available, sources, status
<1>4. CASE StartsAgain
  <2>1. version' \in Releases
    BY <1>1, <1>4 DEF StartsAgain, UpdatesTypeOK, AtMostOne
  <2>2. /\ download' = [state |-> "idle", of |-> {}, trusted |-> FALSE]
        /\ asking' = "no" /\ latest' = {} /\ install' = {} /\ launched' = {}
        /\ UNCHANGED <<sources, whole, installKind>>
    BY <1>4 DEF StartsAgain, KnowsNothing
  <2>3. download' \in Downloads
    BY <2>2 DEF Downloads, AtMostOne
  <2>4. UpdatesTypeOK'
    BY <1>1, <2>1, <2>2, <2>3 DEF UpdatesTypeOK, sources, AtMostOne
  <2>5. OnlyNewer'
    BY <2>2 DEF OnlyNewer
  <2>6. QED
    BY <2>4, <2>5 DEF UpdatesInv
<1>5. QED
  BY <1>2, <1>3, <1>4

\* Every step of the updates keeps it.
LEMMA UpdatesStep ==
    ASSUME UpdatesInv, UpdatesNext \/ UNCHANGED updateVars
    PROVE  UpdatesInv'
<1>1. CASE UNCHANGED updateVars
  BY <1>1 DEF UpdatesInv, UpdatesTypeOK, OnlyNewer, Available, updateVars, sources, status
<1>2. CASE UpdatesNext
  BY <1>2, CheckSafe, DownloadSafe, InstallSafe, OutsideUpdatesSafe DEF UpdatesNext
<1>3. QED
  BY <1>1, <1>2

\* Only install() launches: what is whole, what is expected, and what is
\* trusted where it is run at once.
LEMMA LaunchesAnnounced ==
    ASSUME UpdatesInv, UpdatesNext, NEW r \in launched' \ launched
    PROVE  /\ r \in whole
           /\ r > version
           /\ installKind = "setup" => r \in Signed
           /\ \E i \in install : r \in i.expected
<1>1. InstallHashed
  <2>1. launched' = launched \/ launched' = {} \/ InstallHashed
    BY DEF UpdatesNext, CheckBegins, CheckAnswered, DownloadBegins, Downloaded, Inspected,
       InstallBegins, Announces, Damaged, StartsAgain, KnowsNothing
  <2>2. QED
    BY <2>1
<1>2. PICK i \in install : Matches(i) /\ MayRun(i) /\ r = i.of
  BY <1>1 DEF InstallHashed
<1>3. Available(i.of) /\ (i.trusted => i.of \in Signed)
  BY <1>2 DEF UpdatesInv, OnlyNewer
<1>4. QED
  BY <1>2, <1>3 DEF Matches, MayRun, Available

-----------------------------------------------------------------------------
(* All of them *)

Inv == BackupInv /\ HealthInv /\ WatchTypeOK /\ UpdatesInv

\* The services begin in the invariant.
LEMMA InitInv == Init => Inv
<1> SUFFICES ASSUME Init PROVE Inv
  OBVIOUS
<1>1. (service # "watch") \in BOOLEAN
  OBVIOUS
<1>2. WatchTypeOK
  BY <1>1, WatchStart DEF Init
<1>3. QED
  BY <1>2, BackupStart, HealthStart, UpdatesStart DEF Init, Inv

\* Every step of any of them keeps it.
LEMMA InvStep == Inv /\ [Next]_vars => Inv'
<1> SUFFICES ASSUME Inv, [Next]_vars PROVE Inv'
  OBVIOUS
<1>1. /\ BackupNext \/ UNCHANGED backupVars
      /\ HealthNext \/ UNCHANGED healthVars
      /\ WatchNext \/ UNCHANGED watchVars
      /\ UpdatesNext \/ UNCHANGED updateVars
  BY DEF Next, vars, Backs, Judges, Watches, Updating
<1>2. QED
  BY <1>1, BackupStep, HealthStep, WatchStep, UpdatesStep DEF Inv

\* The fields of BackupScheduler and BackupManager, HealthAlerter,
\* DeviceWatcher and PrinterManager, and UpdateManager keep their types.
THEOREM TypeCorrect == Spec => []TypeOK
<1>1. Inv => TypeOK
  BY DEF Inv, BackupInv, HealthInv, UpdatesInv, TypeOK
<1>2. QED
  BY InitInv, InvStep, <1>1, PTL DEF Spec

\* A path that has a complete backup keeps one (BackupManager.run, prune),
\* whatever the paths, the retention, the requests and the failures.
THEOREM BackupsKeptSafe == Spec => BackupsKept
<1>1. Inv /\ [Next]_vars =>
          [\A d \in Dirs : HasWhole(files[d]) => HasWhole(files'[d])]_backupVars
  <2> SUFFICES ASSUME Inv, [Next]_vars
               PROVE  \A d \in Dirs : HasWhole(files[d]) => HasWhole(files'[d])
    OBVIOUS
  <2>1. BackupNext \/ UNCHANGED backupVars
    BY DEF Next, vars, Backs, Judges, Watches, Updating
  <2>2. QED
    BY <2>1, KeepsBackups DEF Inv
<1>2. QED
  BY InitInv, InvStep, <1>1, PTL DEF Spec, BackupsKept

\* No alert without confirmSamples verdicts in a row behind it
\* (HealthAlerter.observe), for any number of printers and any limits.
THEOREM AlertsConfirmedSafe == Spec => []AlertsConfirmed
<1>1. Inv => AlertsConfirmed
  BY DEF Inv, HealthInv
<1>2. QED
  BY InitInv, InvStep, <1>1, PTL DEF Spec

\* What is launched is whole, newer, signed where it is run, and the latest
\* that was known when the operator asked (UpdateManager.install).
THEOREM InstallsAnnouncedSafe == Spec => InstallsAnnounced
<1>1. Inv /\ [Next]_vars =>
          [\A r \in launched' \ launched :
              /\ r \in whole
              /\ r > version
              /\ installKind = "setup" => r \in Signed
              /\ \E i \in install : r \in i.expected]_updateVars
  <2> SUFFICES ASSUME Inv, [Next]_vars, ~UNCHANGED updateVars,
                      NEW r \in launched' \ launched
               PROVE  /\ r \in whole
                      /\ r > version
                      /\ installKind = "setup" => r \in Signed
                      /\ \E i \in install : r \in i.expected
    OBVIOUS
  <2>1. UpdatesNext
    BY DEF Next, vars, Backs, Judges, Watches, Updating
  <2>2. QED
    BY <2>1, LaunchesAnnounced DEF Inv
<1>2. QED
  BY InitInv, InvStep, <1>1, PTL DEF Spec, InstallsAnnounced
=============================================================================
