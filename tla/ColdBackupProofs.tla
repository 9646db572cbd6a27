--------------------------- MODULE ColdBackupProofs ---------------------------
(***************************************************************************)
(* Nothing the cold backup takes down is forgotten, and the archive is     *)
(* cold, for any resources and stop order and any number of crashes,       *)
(* reboots, failed starts and deployments.                                 *)
(***************************************************************************)
EXTENDS ColdBackup, TLAPS

-----------------------------------------------------------------------------
(* The inductive invariant.                                                *)

\* prepare between its checks and the resume: sources are being stopped.
Quiescing == {"next", "stop", "jobs", "copy"}
\* prepare after it has made the marker and before its finally block.
Marked == Quiescing \cup {"local", "quiesce", "start", "leave"}

\* What the VM backup owes a start, or has left down.
Held == IF vmheld \/ vmlost THEN {Vm} ELSE {}

VmOwes == vmheld => vmbackup = "copy" /\ Vm \in wanted

\* The journal on disk is the list in prepare's memory.
SameList ==
    /\ pc \in Quiescing \cup {"start"} => journal = stopped
    /\ pc \notin Quiescing \cup {"start", "leave"} => stopped = << >>

\* The marker keeps the VM backup from going on, and it was idle before.
Exclusion ==
    /\ pc \in Marked => marker
    /\ pc \in Quiescing \cup {"quiesce"} => vmbackup \notin {"stop", "copy"}

\* Only what prepare has still to visit runs; no job runs and none can start
\* once the timer, the first of the list, was visited and looked after.
Visited ==
    /\ pc \in Quiescing => up \subseteq Range(rest)
    /\ pc \in {"next", "stop"} => rest = StopOrder \/ (~job /\ Timer \notin up)
    /\ pc = "jobs" => Timer \notin up
    /\ pc = "copy" => rest = << >> /\ ~job /\ Timer \notin up
    /\ pc = "stop" => rest # << >> /\ Head(rest) \in Range(journal)

\* A resume without a failure has started all but what is still to do.
Resuming ==
    /\ todo \subseteq wanted
    /\ pc \in {"start", "restart"} /\ ~failed => Range(journal) \subseteq up \cup todo \cup Held

BackupInv ==
    /\ BackupTypeOK
    /\ DownIsOnRecord
    /\ VmOwes /\ SameList /\ Exclusion /\ Visited /\ Resuming

-----------------------------------------------------------------------------
(* Sequences of resources.                                                 *)

\* A nonempty list is its head and its tail.
LEMMA HeadAndTail ==
  ASSUME NEW s \in Seq(Resources), s # << >>
  PROVE  /\ Head(s) \in Resources /\ Tail(s) \in Seq(Resources)
         /\ Range(s) = {Head(s)} \cup Range(Tail(s))
  <1>1. Len(s) \in Nat /\ Len(s) > 0 /\ DOMAIN s = 1..Len(s) /\ Head(s) = s[1]
    OBVIOUS
  <1>2. Tail(s) \in Seq(Resources) /\ DOMAIN Tail(s) = 1..(Len(s) - 1)
        /\ \A i \in 1..(Len(s) - 1) : Tail(s)[i] = s[i + 1]
    OBVIOUS
  <1>3. \A i \in 2..Len(s) : s[i] = Tail(s)[i - 1] /\ i - 1 \in 1..(Len(s) - 1)
    BY <1>1, <1>2
  <1>4. ASSUME NEW x \in Range(s) PROVE x \in {Head(s)} \cup Range(Tail(s))
    <2>1. PICK i \in 1..Len(s) : x = s[i]
      BY <1>1, <1>4 DEF Range
    <2>2. CASE i = 1
      BY <1>1, <2>1, <2>2
    <2>3. CASE i # 1
      <3>1. i \in 2..Len(s)
        BY <1>1, <2>1, <2>3
      <3>2. i - 1 \in DOMAIN Tail(s) /\ x = Tail(s)[i - 1]
        BY <1>2, <1>3, <2>1, <3>1
      <3> QED BY <3>2 DEF Range
    <2> QED BY <2>2, <2>3
  <1>5. Head(s) \in Range(s)
    BY <1>1 DEF Range
  <1>6. ASSUME NEW x \in Range(Tail(s)) PROVE x \in Range(s)
    BY <1>1, <1>2, <1>6 DEF Range
  <1>7. Head(s) \in Resources
    BY <1>1
  <1> QED BY <1>2, <1>4, <1>5, <1>6, <1>7

\* Appending adds one resource.
LEMMA Appended ==
  ASSUME NEW s \in Seq(Resources), NEW r \in Resources
  PROVE  /\ Append(s, r) \in Seq(Resources)
         /\ Range(Append(s, r)) = Range(s) \cup {r}
  <1>1. /\ Len(s) \in Nat /\ DOMAIN s = 1..Len(s) /\ DOMAIN Append(s, r) = 1..(Len(s) + 1)
        /\ Append(s, r)[Len(s) + 1] = r
        /\ \A i \in 1..Len(s) : Append(s, r)[i] = s[i]
        /\ Append(s, r) \in Seq(Resources)
    OBVIOUS
  <1>2. Range(Append(s, r)) \subseteq Range(s) \cup {r}
    BY <1>1 DEF Range
  <1>3. Range(s) \cup {r} \subseteq Range(Append(s, r))
    BY <1>1 DEF Range
  <1> QED BY <1>1, <1>2, <1>3

\* A list in Seq(Resources) names resources; the empty one names none.
LEMMA Named ==
  /\ Range(<< >>) = {} /\ << >> \in Seq(Resources)
  /\ \A s \in Seq(Resources) : Range(s) \subseteq Resources
  BY DEF Range

-----------------------------------------------------------------------------
(* Every step keeps the invariant.                                         *)

\* The undisturbed state satisfies it.
LEMMA InitInv == BackupAssumption /\ Init => BackupInv
  <1> SUFFICES ASSUME BackupAssumption, Init PROVE BackupInv
    OBVIOUS
  <1>1. ready \in BOOLEAN /\ faults \in 0..MaxFaults /\ deploys \in 0..MaxDeploys
    BY DEF Init, BackupAssumption
  <1>2. BackupTypeOK
    BY <1>1, Named DEF Init, BackupTypeOK
  <1>3. DownIsOnRecord
    BY Named DEF Init, DownIsOnRecord
  <1>4. VmOwes /\ SameList /\ Exclusion /\ Visited /\ Resuming
    BY DEF Init, VmOwes, SameList, Exclusion, Visited, Resuming, Quiescing, Marked
  <1> QED BY <1>2, <1>3, <1>4 DEF BackupInv

\* Every step keeps the types.
LEMMA TypeStep ==
  ASSUME BackupAssumption, BackupTypeOK, Next,
         pc = "stop" => rest # << >>
  PROVE  BackupTypeOK'
  <1> DEFINE Flags == ready \in BOOLEAN /\ job \in BOOLEAN /\ vmheld \in BOOLEAN
                      /\ vmlost \in BOOLEAN /\ marker \in BOOLEAN /\ failed \in BOOLEAN
  <1> DEFINE Sets == up \subseteq Resources /\ wanted \subseteq Resources /\ todo \subseteq Resources
                     /\ {journal, rest, stopped} \subseteq Seq(Resources)
  <1> DEFINE Words == /\ vmbackup \in {"idle", "condition", "prepare", "stop", "copy"}
                      /\ lock \in {"free", "backup", "deployment"}
                      /\ pc \in Preparing \cup {"idle", "post", "restart"}
  <1> DEFINE Counts == faults \in 0..MaxFaults /\ deploys \in 0..MaxDeploys
  <1> USE DEF machine, vmUnit, memory, bounds
  <1>0. Flags /\ Sets /\ Words /\ Counts
    BY DEF BackupTypeOK
  <1>1. Flags'
    <2>1. CASE \/ Begin \/ TakeLock \/ Mark \/ CheckLocal \/ Quiesce \/ Skip \/ SaveResume \/ CheckJobs
               \/ Cold \/ Unwind \/ Resumed \/ PostEnds \/ PostResumes \/ Deploy \/ DeployEnds
      BY <1>0, <2>1 DEF Begin, TakeLock, Mark, CheckLocal, Quiesce, Skip, SaveResume, CheckJobs, Cold,
                        Unwind, Resumed, PostEnds, PostResumes, Deploy, DeployEnds
    <2>2. CASE JobStarts \/ JobEnds \/ Crash
      BY <1>0, <2>2 DEF JobStarts, JobEnds, Crash, Forget
    <2>3. CASE Stop
      BY <1>0, <2>3 DEF Stop
    <2>4. CASE Leave
      BY <1>0, <2>4 DEF Leave
    <2>5. CASE PostDone
      BY <1>0, <2>5 DEF PostDone
    <2>6. CASE VmBackup
      <3>1. UNCHANGED <<ready, job, marker, failed>> /\ (UNCHANGED vmlost \/ vmlost' = TRUE)
        BY <2>6 DEF VmBackup, VmBackupStarts, VmBackupLooks, VmBackupStops, VmStopFails, VmBackupEnds,
                    VmStartFails
      <3>2. vmheld' = vmheld \/ vmheld' = (Vm \in up) \/ vmheld' = FALSE
        BY <2>6 DEF VmBackup, VmBackupStarts, VmBackupLooks, VmBackupStops, VmStopFails, VmBackupEnds,
                    VmStartFails
      <3>3. vmheld' \in BOOLEAN
        <4>1. (Vm \in up) \in BOOLEAN
          OBVIOUS
        <4>2. vmheld \in BOOLEAN
          BY <1>0
        <4> QED BY <3>2, <4>1, <4>2, Zenon
      <3> QED BY <1>0, <3>1, <3>3
    <2>7. ASSUME NEW r \in Resources, StartOne(r) PROVE Flags'
      BY <1>0, <2>7 DEF StartOne
    <2>8. ASSUME NEW r \in Resources, StartFails(r) PROVE Flags'
      BY <1>0, <2>8 DEF StartFails
    <2>9. CASE Reboot
      <3>1. ready' = (Proxy \in wanted) /\ job' = FALSE /\ vmheld' = FALSE /\ marker' = FALSE
            /\ failed' = FALSE /\ vmlost' = FALSE
        BY <2>9 DEF Reboot, Forget
      <3>2. ready' \in BOOLEAN
        BY <3>1
      <3> QED BY <3>1, <3>2
    <2> QED BY <2>1, <2>2, <2>3, <2>4, <2>5, <2>6, <2>7, <2>8, <2>9 DEF Next, Backup
  <1>2. Counts'
    BY <1>0
    DEF Next, Backup, VmBackup, Begin, TakeLock, Mark, CheckLocal, Quiesce, Skip, SaveResume, Stop,
        CheckJobs, Cold, Unwind, Resumed, Leave, StartOne, StartFails, PostEnds, PostResumes, PostDone,
        VmBackupStarts, VmBackupLooks, VmBackupStops, VmStopFails, VmBackupEnds, VmStartFails,
        JobStarts, JobEnds, Deploy, DeployEnds, Crash, Reboot, Forget, BackupAssumption
  <1>3. Words'
    BY <1>0
    DEF Next, Backup, VmBackup, Begin, TakeLock, Mark, CheckLocal, Quiesce, Skip, SaveResume, Stop,
        CheckJobs, Cold, Unwind, Resumed, Leave, StartOne, StartFails, PostEnds, PostResumes, PostDone,
        VmBackupStarts, VmBackupLooks, VmBackupStops, VmStopFails, VmBackupEnds, VmStartFails,
        JobStarts, JobEnds, Deploy, DeployEnds, Crash, Reboot, Forget, AfterVisit, Preparing
  <1>4. Sets'
    <2>1. CASE Skip \/ Stop
      <3>1. rest # << >> /\ rest \in Seq(Resources)
        BY <1>0, <2>1 DEF Skip, Stop
      <3>2. Tail(rest) \in Seq(Resources)
        BY <3>1, HeadAndTail
      <3> QED BY <1>0, <2>1, <3>2 DEF Skip, Stop
    <2>2. CASE SaveResume
      <3>1. Head(rest) \in Resources
        BY <1>0, <2>2, HeadAndTail DEF SaveResume
      <3>2. Append(stopped, Head(rest)) \in Seq(Resources)
        BY <1>0, <3>1, Appended
      <3> QED BY <1>0, <2>2, <3>2 DEF SaveResume, Saved
    <2>3. CASE Quiesce
      BY <1>0, <2>3 DEF Quiesce, BackupAssumption
    <2>4. CASE Unwind \/ Resumed \/ Leave \/ PostResumes \/ PostDone
      BY <1>0, <2>4, Named DEF Unwind, Resumed, Leave, PostResumes, PostDone, JournalAfter
    <2>5. CASE Crash \/ Reboot
      BY <1>0, <2>5, Named DEF Crash, Reboot, Forget, Resources
    <2>6. CASE VmBackup
      BY <1>0, <2>6
      DEF VmBackup, VmBackupStarts, VmBackupLooks, VmBackupStops, VmStopFails, VmBackupEnds,
          VmStartFails, BackupAssumption, Resources
    <2>7. CASE \E r \in Resources : StartOne(r) \/ StartFails(r)
      BY <1>0, <2>7 DEF StartOne, StartFails
    <2>8. CASE \/ Begin \/ TakeLock \/ Mark \/ CheckLocal \/ CheckJobs \/ Cold \/ PostEnds
               \/ JobStarts \/ JobEnds \/ Deploy \/ DeployEnds
      BY <1>0, <2>8 DEF Begin, TakeLock, Mark, CheckLocal, CheckJobs, Cold, PostEnds, JobStarts,
                        JobEnds, Deploy, DeployEnds
    <2> QED BY <2>1, <2>2, <2>3, <2>4, <2>5, <2>6, <2>7, <2>8 DEF Next, Backup
  <1> QED BY <1>1, <1>2, <1>3, <1>4 DEF BackupTypeOK

\* Every step keeps the backup invariant.
LEMMA NextInv ==
  ASSUME BackupAssumption, BackupInv, Next
  PROVE  BackupInv'
  <1> DEFINE Others == VmOwes' /\ SameList' /\ Exclusion' /\ Visited' /\ Resuming'
  <1> USE DEF BackupInv
  <1>0. BackupTypeOK'
    BY TypeStep DEF Visited
  <1>a. /\ journal \in Seq(Resources) /\ rest \in Seq(Resources) /\ stopped \in Seq(Resources)
        /\ pc \in Preparing \cup {"idle", "post", "restart"}
    BY DEF BackupTypeOK
  <1>b. Range(<< >>) = {}
    BY Named
  <1>c. Vm \in Units /\ Units \cap Containers = {} /\ Timer = Head(StopOrder) /\ StopOrder # << >>
        /\ Range(StopOrder) = Resources
    BY DEF BackupAssumption
  <1> USE DEF machine, vmUnit, memory, bounds
  <1>1. CASE Begin \/ TakeLock \/ Mark \/ CheckLocal
    BY <1>0, <1>1
    DEF Begin, TakeLock, Mark, CheckLocal, VmBackupIdle, DownIsOnRecord, VmOwes, SameList,
        Exclusion, Visited, Resuming, Quiescing, Marked, Held
  <1>2. CASE Quiesce
    BY <1>0, <1>2, <1>c
    DEF Quiesce, BackupTypeOK, DownIsOnRecord, VmOwes, SameList, Exclusion, Visited, Resuming,
        Quiescing, Marked, Held
  <1>3. CASE Skip \/ Stop
    <2>1. rest # << >> /\ pc \in {"next", "stop"} /\ pc' = AfterVisit(Head(rest))
          /\ rest' = Tail(rest) /\ up' \subseteq up \ {Head(rest)}
      BY <1>3 DEF Skip, Stop, Visited
    <2>2. Range(rest) = {Head(rest)} \cup Range(Tail(rest))
      BY <1>a, <2>1, HeadAndTail
    <2>3. UNCHANGED <<wanted, job, vmbackup, vmheld, vmlost, marker, journal, stopped, todo, failed>>
      BY <1>3 DEF Skip, Stop
    <2>4. up \ {Head(rest)} \subseteq up' /\ (Head(rest) \in up => Head(rest) \in Range(journal))
      BY <1>3 DEF Skip, Stop, Visited
    <2>5. pc' = IF Head(rest) = Timer THEN "jobs" ELSE "next"
      BY <2>1 DEF AfterVisit
    <2>6. Visited'
      <3>1. up' \subseteq Range(rest')
        BY <2>1, <2>2 DEF Visited, Quiescing
      <3>2. CASE Head(rest) = Timer
        BY <2>1, <2>5, <3>1, <3>2 DEF Visited
      <3>3. CASE Head(rest) # Timer
        <4>1. ~job /\ Timer \notin up
          BY <1>c, <2>1, <3>3 DEF Visited
        <4> QED BY <2>1, <2>3, <2>5, <3>1, <3>3, <4>1 DEF Visited
      <3> QED BY <3>2, <3>3
    <2>7. DownIsOnRecord'
      BY <2>1, <2>3, <2>4 DEF DownIsOnRecord
    <2> QED BY <1>0, <2>1, <2>3, <2>5, <2>6, <2>7
            DEF VmOwes, SameList, Exclusion, Resuming, Quiescing, Marked, Held
  <1>4. CASE SaveResume
    <2>1. Head(rest) \in Resources /\ Head(rest) \in up /\ rest # << >> /\ pc = "next" /\ pc' = "stop"
      BY <1>4, <1>a, HeadAndTail DEF SaveResume
    <2>2. journal = stopped
      BY <2>1 DEF SameList, Quiescing
    <2>3. journal' = stopped' /\ Range(journal') = Range(journal) \cup {Head(rest)}
      BY <1>4, <1>a, <2>1, <2>2, Appended DEF SaveResume, Saved
    <2>4. UNCHANGED <<up, wanted, job, vmbackup, vmheld, vmlost, marker, rest, todo, failed>>
      BY <1>4 DEF SaveResume
    <2> QED BY <1>0, <2>1, <2>2, <2>3, <2>4
            DEF DownIsOnRecord, VmOwes, SameList, Exclusion, Visited, Resuming, Quiescing, Marked, Held
  <1>5. CASE CheckJobs \/ Cold
    BY <1>0, <1>5, <1>c
    DEF CheckJobs, Cold, DownIsOnRecord, VmOwes, SameList, Exclusion, Visited, Resuming, Quiescing,
        Marked, Held
  <1>6. CASE Unwind
    BY <1>0, <1>6
    DEF Unwind, DownIsOnRecord, VmOwes, SameList, Exclusion, Visited, Resuming, Quiescing, Marked,
        Held
  <1>7. CASE Resumed \/ PostDone
    <2>1. /\ journal' = IF failed THEN journal ELSE << >>
          /\ pc \in {"start", "restart"} /\ todo = {} /\ pc' \in {"leave", "idle"}
          /\ UNCHANGED <<up, wanted, job, vmbackup, vmheld, vmlost, stopped, todo>>
      BY <1>7 DEF Resumed, PostDone, JournalAfter
    <2>2. ~failed => Range(journal) \subseteq up \cup Held
      BY <2>1 DEF Resuming
    <2>3. DownIsOnRecord'
      BY <1>b, <2>1, <2>2 DEF DownIsOnRecord, Held
    <2>4. SameList' /\ Exclusion'
      BY <1>7 DEF Resumed, PostDone, SameList, Exclusion, Quiescing, Marked
    <2> QED BY <1>0, <2>1, <2>3, <2>4 DEF VmOwes, Visited, Resuming, Quiescing
  <1>8. CASE Leave
    BY <1>0, <1>8
    DEF Leave, DownIsOnRecord, VmOwes, SameList, Exclusion, Visited, Resuming, Quiescing, Marked, Held
  <1>9. ASSUME NEW r \in Resources, StartOne(r) \/ StartFails(r) PROVE BackupInv'
    <2>1. /\ pc \in {"start", "restart"} /\ pc' = pc /\ r \in todo /\ todo' = todo \ {r}
          /\ up \subseteq up' /\ up' \subseteq up \cup {r}
          /\ failed' = TRUE \/ (failed' = failed /\ r \in up')
          /\ UNCHANGED <<wanted, vmbackup, vmheld, vmlost, marker, journal, stopped>>
      BY <1>9 DEF StartOne, StartFails, Turn
    <2> QED BY <1>0, <2>1
            DEF DownIsOnRecord, VmOwes, SameList, Exclusion, Visited, Resuming, Quiescing, Marked, Held
  <1>10. CASE PostEnds \/ PostResumes
    BY <1>0, <1>10
    DEF PostEnds, PostResumes, DownIsOnRecord, VmOwes, SameList, Exclusion, Visited, Resuming,
        Quiescing, Marked, Held
  <1>11. CASE JobStarts \/ JobEnds \/ Deploy \/ DeployEnds
    <2>1. UNCHANGED <<up, wanted, vmbackup, vmheld, vmlost, marker, journal, pc, rest, stopped, todo, failed>>
          /\ (job' => job \/ Timer \in up)
      BY <1>11 DEF JobStarts, JobEnds, Deploy, DeployEnds
    <2>2. (pc = "copy" \/ (pc \in {"next", "stop"} /\ rest # StopOrder)) => ~job'
      BY <2>1 DEF Visited
    <2> QED BY <1>0, <2>1, <2>2
            DEF DownIsOnRecord, VmOwes, SameList, Exclusion, Visited, Resuming, Quiescing, Marked, Held
  <1>12. CASE VmBackup
    <2>1. UNCHANGED <<wanted, job, marker, journal, pc, rest, stopped, todo, failed>>
      BY <1>12 DEF VmBackup, VmBackupStarts, VmBackupLooks, VmBackupStops, VmStopFails, VmBackupEnds,
                   VmStartFails
    <2>2. CASE VmBackupStarts \/ VmBackupLooks
      BY <1>0, <2>1, <2>2
      DEF VmBackupStarts, VmBackupLooks, DownIsOnRecord, VmOwes, SameList, Exclusion, Visited,
          Resuming, Quiescing, Marked, Held
    <2>3. CASE VmBackupStops
      <3>1. /\ vmbackup = "stop" /\ ~vmheld /\ vmbackup' = "copy"
            /\ vmheld' = (Vm \in up) /\ up' = up \ {Vm} /\ vmlost' = vmlost
        BY <2>3 DEF VmBackupStops, VmOwes
      <3>2. Held' = IF Vm \in up \/ vmlost THEN {Vm} ELSE {}
        BY <3>1 DEF Held
      <3>3. up \subseteq up' \cup Held' /\ Held \subseteq Held'
        BY <3>1, <3>2 DEF Held
      <3>4. DownIsOnRecord'
        BY <2>1, <3>1, <3>3 DEF DownIsOnRecord, Held
      <3>5. Resuming'
        BY <2>1, <3>1, <3>3 DEF Resuming, Held
      <3>6. pc \notin Quiescing \cup {"quiesce"}
        BY <3>1 DEF Exclusion
      <3>7. VmOwes'
        BY <2>1, <3>1 DEF VmOwes, DownIsOnRecord
      <3>8. SameList' /\ Exclusion' /\ Visited'
        BY <2>1, <3>6 DEF SameList, Exclusion, Visited, Quiescing
      <3> QED BY <1>0, <3>4, <3>5, <3>7, <3>8
    <2>4. CASE VmBackupEnds
      BY <1>0, <2>1, <2>4
      DEF VmBackupEnds, DownIsOnRecord, VmOwes, SameList, Exclusion, Visited, Resuming, Quiescing,
          Marked, Held
    <2>5. CASE VmStopFails
      <3>1. /\ vmbackup = "stop" /\ ~vmheld /\ vmbackup' = "idle" /\ vmheld' = vmheld
            /\ (up' = up \ {Vm} /\ vmlost' = TRUE) \/ (up' = up /\ vmlost' = vmlost)
        BY <2>5 DEF VmStopFails, VmOwes
      <3>2. up \subseteq up' \cup Held' /\ Held \subseteq Held' /\ up' \subseteq up
        BY <3>1 DEF Held
      <3>3. DownIsOnRecord'
        BY <2>1, <3>2 DEF DownIsOnRecord, Held
      <3>4. Resuming'
        BY <2>1, <3>2 DEF Resuming
      <3>5. pc \notin Quiescing \cup {"quiesce"}
        BY <3>1 DEF Exclusion
      <3>6. VmOwes' /\ SameList' /\ Exclusion' /\ Visited'
        BY <2>1, <3>1, <3>5 DEF VmOwes, SameList, Exclusion, Visited, Quiescing
      <3> QED BY <1>0, <3>3, <3>4, <3>6
    <2>6. CASE VmStartFails
      <3>1. up' = up /\ ~vmheld' /\ vmbackup' = "idle" /\ Held' = Held
        BY <2>6 DEF VmStartFails, Held, machine
      <3>2. DownIsOnRecord'
        BY <2>1, <3>1 DEF DownIsOnRecord, Held
      <3>3. VmOwes' /\ SameList' /\ Exclusion' /\ Visited' /\ Resuming'
        BY <2>1, <3>1 DEF VmOwes, SameList, Exclusion, Visited, Resuming
      <3> QED BY <1>0, <3>2, <3>3
    <2> QED BY <1>12, <2>2, <2>3, <2>4, <2>5, <2>6 DEF VmBackup
  <1>13. CASE Crash
    BY <1>0, <1>13
    DEF Crash, Forget, DownIsOnRecord, VmOwes, SameList, Exclusion, Visited, Resuming, Quiescing,
        Marked, Held
  <1>14. CASE Reboot
    <2>1. DownIsOnRecord'
      BY <1>14, <1>c DEF Reboot, DownIsOnRecord, BackupTypeOK, Resources
    <2> QED BY <1>0, <1>14, <2>1
            DEF Reboot, Forget, VmOwes, SameList, Exclusion, Visited, Resuming, Quiescing, Marked
  <1> QED BY <1>1, <1>2, <1>3, <1>4, <1>5, <1>6, <1>7, <1>8, <1>9, <1>10, <1>11, <1>12, <1>13, <1>14
          DEF Next, Backup

\* The invariant holds throughout.
LEMMA Invariance == Spec => []BackupInv
  <1>1. BackupInv /\ UNCHANGED vars => BackupInv'
    BY DEF vars, BackupInv, BackupTypeOK, DownIsOnRecord, VmOwes, SameList, Exclusion, Visited,
           Resuming, Held
  <1>2. BackupInv /\ [Next]_vars => BackupInv'
    BY <1>1, NextInv, BackupAssumption
  <1>3. Init => BackupInv
    BY InitInv, BackupAssumption
  <1> QED BY <1>2, <1>3, PTL DEF Spec

-----------------------------------------------------------------------------
(* The theorems.                                                           *)

\* The unit's files, lists and phases keep their types.
THEOREM TypeCorrect == Spec => []BackupTypeOK
  <1>1. BackupInv => BackupTypeOK
    BY DEF BackupInv
  <1> QED BY <1>1, Invariance, PTL

\* save_resume before every stop: whatever quiesced took down is in the resume
\* journal until resume has started it, and nothing else ever gets started.
\* The VM is excepted while its own backup holds it, or failed to start it.
THEOREM NothingIsForgotten == Spec => []DownIsOnRecord
  <1>1. BackupInv => DownIsOnRecord
    BY DEF BackupInv
  <1> QED BY <1>1, Invariance, PTL

\* prepare archives only while every source is down, no assistant job runs and
\* the VM backup is not between its look at the marker and its end.
THEOREM ColdArchive == Spec => []ArchiveIsCold
  <1>1. BackupInv => ArchiveIsCold
    BY Named DEF BackupInv, ArchiveIsCold, Visited, Exclusion, Quiescing
  <1> QED BY <1>1, Invariance, PTL
=============================================================================
