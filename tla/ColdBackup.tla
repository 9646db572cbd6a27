------------------------------ MODULE ColdBackup ------------------------------
(***************************************************************************)
(* The cold backup of scripts/application-recovery.py: `prepare` stops the *)
(* recovery sources one by one, archives them while they are down and      *)
(* starts them again; `resume`, which systemd runs after every attempt,    *)
(* starts what a dead attempt left down.  Around it run the assistant      *)
(* jobs, deployments that take the deploy lock, and the local backup of    *)
(* the agents VM (modules/nixos/agents-vm-backup.nix), which stops and     *)
(* starts the VM on its own.                                               *)
(*                                                                         *)
(* The resume journal is on disk and survives a reboot; the marker file is *)
(* in /run and does not.                                                   *)
(***************************************************************************)
EXTENDS Integers, Sequences, Functions

CONSTANTS Units,        \* systemd units the backup stops
          Containers,   \* containers the backup stops
          StopOrder,    \* the order in which it stops them
          Timer,        \* the assistant timer: the head of StopOrder
          Vm,           \* the agents VM
          Proxy,        \* the approval proxy
          Watcher,      \* its certificate watcher
          First,        \* RESUME_FIRST, a sequence of containers
          MaxFaults,    \* bound on crashes, reboots and failed commands
          MaxDeploys    \* bound on deployments that take the lock

Resources == Units \cup Containers

ASSUME BackupAssumption ==
    /\ Units \cap Containers = {}
    /\ {Timer, Vm, Proxy, Watcher} \subseteq Units
    /\ StopOrder \in Seq(Resources) /\ Range(StopOrder) = Resources
    /\ StopOrder # << >> /\ Head(StopOrder) = Timer
    /\ First \in Seq(Containers)
    /\ MaxFaults \in Nat /\ MaxDeploys \in Nat

VARIABLES
    up,       \* resources that are running
    ready,    \* the proxy answers its readiness check
    wanted,   \* resources that were running before the backups began
    job,      \* an assistant job is running
    vmbackup, \* step of the local VM backup unit
    vmheld,   \* its was-active file: it stopped the VM and owes the start
    vmlost,   \* its stop or its start of the VM failed and left the VM down
    lock,     \* holder of the deploy lock
    marker,   \* the in-progress marker exists
    journal,  \* the resume journal; empty when there is no file
    pc,       \* step of the backup unit
    rest,     \* resources prepare has still to visit
    stopped,  \* prepare's list of the resources it stopped
    todo,     \* resources resume has still to start
    failed,   \* resume could not start one of them
    faults, deploys

machine == <<up, ready>>
vmUnit == <<vmbackup, vmheld, vmlost>>
memory == <<rest, stopped, todo, failed>>
bounds == <<faults, deploys>>
vars == <<up, ready, wanted, job, vmbackup, vmheld, vmlost, lock, marker, journal,
          pc, rest, stopped, todo, failed, faults, deploys>>

Preparing == {"lock", "mark", "local", "quiesce", "next", "stop", "jobs",
              "copy", "start", "leave"}

BackupTypeOK ==
    /\ up \subseteq Resources /\ wanted \subseteq Resources
    /\ ready \in BOOLEAN /\ job \in BOOLEAN
    /\ vmbackup \in {"idle", "condition", "prepare", "stop", "copy"}
    /\ vmheld \in BOOLEAN /\ vmlost \in BOOLEAN
    /\ lock \in {"free", "backup", "deployment"}
    /\ marker \in BOOLEAN
    /\ {journal, rest, stopped} \subseteq Seq(Resources) /\ todo \subseteq Resources
    /\ pc \in Preparing \cup {"idle", "post", "restart"}
    /\ failed \in BOOLEAN
    /\ faults \in 0..MaxFaults /\ deploys \in 0..MaxDeploys

Init ==
    /\ wanted \in SUBSET Resources
    /\ up = wanted
    /\ ready = (Proxy \in wanted)
    /\ job = FALSE
    /\ vmbackup = "idle" /\ vmheld = FALSE /\ vmlost = FALSE
    /\ lock = "free" /\ marker = FALSE /\ journal = << >>
    /\ pc = "idle"
    /\ rest = << >> /\ stopped = << >> /\ todo = {} /\ failed = FALSE
    /\ faults = 0 /\ deploys = 0

-----------------------------------------------------------------------------
(* resume *)

Precedes(s, r, q) == \E i, j \in DOMAIN s : i < j /\ s[i] = r /\ s[j] = q

\* The containers of RESUME_FIRST, then the rest of the list backwards.
ResumesBefore(r, q) ==
    \/ Precedes(First, r, q)
    \/ r \in Range(First) /\ q \notin Range(First)
    \/ {r, q} \cap Range(First) = {} /\ Precedes(journal, q, r)

Turn(r) == r \in todo /\ \A q \in todo \ {r} : ResumesBefore(r, q)

\* proxy_restored: the journal does not name the proxy, or this pass has
\* started it and seen it ready.
ProxyRestored ==
    \/ Proxy \notin Range(journal)
    \/ Proxy \notin todo /\ ready

\* One round of resume's loop, in prepare and in the resume command.
StartOne(r) ==
    /\ pc \in {"start", "restart"} /\ Turn(r)
    /\ todo' = todo \ {r}
    /\ \/ /\ r = Watcher => ProxyRestored
          /\ up' = up \cup {r}
          /\ ready' = (ready \/ r = Proxy)
          /\ UNCHANGED failed
       \/ /\ r = Watcher /\ ~ProxyRestored
          /\ failed' = TRUE
          /\ UNCHANGED machine
    /\ UNCHANGED <<wanted, job, vmUnit, lock, marker, journal, pc, rest,
                   stopped, bounds>>

\* The command fails or times out, or the proxy does not become ready.
StartFails(r) ==
    /\ pc \in {"start", "restart"} /\ Turn(r) /\ faults < MaxFaults
    /\ r = Watcher => ProxyRestored
    /\ faults' = faults + 1
    /\ todo' = todo \ {r}
    /\ failed' = TRUE
    /\ up' \in {up, up \cup {r}}
    /\ ready' = (ready /\ r # Proxy)
    /\ UNCHANGED <<wanted, job, vmUnit, lock, marker, journal, pc, rest,
                   stopped, deploys>>

\* Faulty variant: the journal is dropped once every start was tried.
JournalDropped == << >>

\* A failed start keeps the journal.
JournalAfter == IF failed THEN journal ELSE << >>

-----------------------------------------------------------------------------
(* prepare *)

\* The nightly timer, or the restart of a deferred attempt.
Begin ==
    /\ pc = "idle"
    /\ pc' = "lock"
    /\ UNCHANGED <<machine, wanted, job, vmUnit, lock, marker, journal,
                   memory, bounds>>

\* A busy lock defers the attempt.
TakeLock ==
    /\ pc = "lock"
    /\ IF lock = "free"
       THEN lock' = "backup" /\ pc' = "mark"
       ELSE pc' = "post" /\ UNCHANGED lock
    /\ UNCHANGED <<machine, wanted, job, vmUnit, marker, journal, memory,
                   bounds>>

\* O_EXCL: an existing marker ends the attempt outside the try block.  The
\* checks of volumes and space before it may end it as well.
Mark ==
    /\ pc = "mark"
    /\ \/ ~marker /\ marker' = TRUE /\ pc' = "local" /\ UNCHANGED lock
       \/ pc' = "post" /\ lock' = "free" /\ UNCHANGED marker
    /\ UNCHANGED <<machine, wanted, job, vmUnit, journal, memory, bounds>>

\* Faulty variant: the VM backup is trusted to look at the marker itself.
VmBackupAssumedIdle == TRUE

VmBackupIdle == vmbackup = "idle"

CheckLocal ==
    /\ pc = "local"
    /\ pc' = IF VmBackupIdle THEN "quiesce" ELSE "leave"
    /\ UNCHANGED <<machine, wanted, job, vmUnit, lock, marker, journal,
                   memory, bounds>>

\* An old journal, or worker, HTTP or browser activity, ends the attempt
\* before anything is stopped.
Quiesce ==
    /\ pc = "quiesce"
    /\ \/ journal = << >> /\ pc' = "next" /\ rest' = StopOrder
       \/ pc' = "leave" /\ UNCHANGED rest
    /\ UNCHANGED <<machine, wanted, job, vmUnit, lock, marker, journal,
                   stopped, todo, failed, bounds>>

AfterVisit(r) == IF r = Timer THEN "jobs" ELSE "next"

Skip ==
    /\ pc = "next" /\ rest # << >> /\ Head(rest) \notin up
    /\ rest' = Tail(rest)
    /\ pc' = AfterVisit(Head(rest))
    /\ UNCHANGED <<machine, wanted, job, vmUnit, lock, marker, journal,
                   stopped, todo, failed, bounds>>

\* Faulty variant: the resource is journalled once it has stopped.
SaveLater(r) == journal

\* save_resume, before the stop command.
Saved(r) == Append(stopped, r)

SaveResume ==
    /\ pc = "next" /\ rest # << >> /\ Head(rest) \in up
    /\ stopped' = Append(stopped, Head(rest))
    /\ journal' = Saved(Head(rest))
    /\ pc' = "stop"
    /\ UNCHANGED <<machine, wanted, job, vmUnit, lock, marker, rest, todo,
                   failed, bounds>>

Stop ==
    /\ pc = "stop"
    /\ up' = up \ {Head(rest)}
    /\ ready' = (ready /\ Head(rest) # Proxy)
    /\ rest' = Tail(rest)
    /\ pc' = AfterVisit(Head(rest))
    /\ UNCHANGED <<wanted, job, vmUnit, lock, marker, journal, stopped, todo,
                   failed, bounds>>

\* The timers are down; a job they started may still run.
CheckJobs ==
    /\ pc = "jobs" /\ ~job
    /\ pc' = "next"
    /\ UNCHANGED <<machine, wanted, job, vmUnit, lock, marker, journal,
                   memory, bounds>>

Cold ==
    /\ pc = "next" /\ rest = << >>
    /\ pc' = "copy"
    /\ UNCHANGED <<machine, wanted, job, vmUnit, lock, marker, journal,
                   memory, bounds>>

\* The block of quiesced ends: with the archive, or because a job runs, an
\* inspection, a stop or a copy failed, or a signal arrived.
Unwind ==
    /\ pc \in {"next", "stop", "jobs", "copy"}
    /\ pc' = "start"
    /\ todo' = Range(stopped) /\ failed' = FALSE
    /\ UNCHANGED <<machine, wanted, job, vmUnit, lock, marker, journal, rest,
                   stopped, bounds>>

Resumed ==
    /\ pc = "start" /\ todo = {}
    /\ journal' = JournalAfter
    /\ pc' = "leave"
    /\ UNCHANGED <<machine, wanted, job, vmUnit, lock, marker, memory, bounds>>

\* The finally block of prepare.
Leave ==
    /\ pc = "leave"
    /\ marker' = (journal # << >>)
    /\ lock' = "free"
    /\ pc' = "post"
    /\ rest' = << >> /\ stopped' = << >> /\ failed' = FALSE
    /\ UNCHANGED <<machine, wanted, job, vmUnit, journal, todo, bounds>>

-----------------------------------------------------------------------------
(* The resume command, run by systemd when the unit has ended *)

\* Nothing to do, or the lock is busy and the command fails.
PostEnds ==
    /\ pc = "post"
    /\ (journal = << >> /\ ~marker) \/ lock # "free"
    /\ pc' = "idle"
    /\ UNCHANGED <<machine, wanted, job, vmUnit, lock, marker, journal,
                   memory, bounds>>

PostResumes ==
    /\ pc = "post" /\ lock = "free"
    /\ journal # << >> \/ marker
    /\ lock' = "backup"
    /\ pc' = "restart"
    /\ todo' = Range(journal) /\ failed' = FALSE
    /\ UNCHANGED <<machine, wanted, job, vmUnit, marker, journal, rest,
                   stopped, bounds>>

PostDone ==
    /\ pc = "restart" /\ todo = {}
    /\ journal' = JournalAfter
    /\ marker' = (marker /\ failed)
    /\ lock' = "free"
    /\ pc' = "idle"
    /\ failed' = FALSE
    /\ UNCHANGED <<machine, wanted, job, vmUnit, rest, stopped, todo, bounds>>

-----------------------------------------------------------------------------
(* The surroundings *)

JobStarts ==
    /\ ~job /\ Timer \in up
    /\ job' = TRUE
    /\ UNCHANGED <<machine, wanted, vmUnit, lock, marker, journal, pc,
                   memory, bounds>>

JobEnds ==
    /\ job
    /\ job' = FALSE
    /\ UNCHANGED <<machine, wanted, vmUnit, lock, marker, journal, pc,
                   memory, bounds>>

\* A deployment holds the same lock.
Deploy ==
    /\ lock = "free" /\ deploys < MaxDeploys
    /\ lock' = "deployment" /\ deploys' = deploys + 1
    /\ UNCHANGED <<machine, wanted, job, vmUnit, marker, journal, pc, memory,
                   faults>>

DeployEnds ==
    /\ lock = "deployment"
    /\ lock' = "free"
    /\ UNCHANGED <<machine, wanted, job, vmUnit, marker, journal, pc, memory,
                   bounds>>

\* The local VM backup: the unit is activating from here on.
VmBackupStarts ==
    /\ vmbackup = "idle"
    /\ vmbackup' = "condition"
    /\ UNCHANGED <<machine, wanted, job, vmheld, vmlost, lock, marker, journal, pc,
                   memory, bounds>>

\* ExecCondition, and the same test again in the prepare command.
VmBackupLooks ==
    /\ vmbackup \in {"condition", "prepare"}
    /\ vmbackup' = IF marker THEN "idle"
                   ELSE IF vmbackup = "condition" THEN "prepare" ELSE "stop"
    /\ UNCHANGED <<machine, wanted, job, vmheld, vmlost, lock, marker, journal, pc,
                   memory, bounds>>

VmBackupStops ==
    /\ vmbackup = "stop"
    /\ vmbackup' = "copy"
    /\ vmheld' = (Vm \in up)
    /\ up' = up \ {Vm}
    /\ UNCHANGED <<ready, wanted, job, vmlost, lock, marker, journal, pc, memory,
                   bounds>>

\* The stop fails, or leaves the unit in another state than inactive: the
\* backup removes its file and ends.  The VM may be down all the same.
VmStopFails ==
    /\ vmbackup = "stop" /\ Vm \in up /\ faults < MaxFaults
    /\ faults' = faults + 1
    /\ vmbackup' = "idle"
    /\ \/ up' = up \ {Vm} /\ vmlost' = TRUE
       \/ UNCHANGED <<up, vmlost>>
    /\ UNCHANGED <<ready, wanted, job, vmheld, lock, marker, journal, pc, memory,
                   deploys>>

VmBackupEnds ==
    /\ vmbackup = "copy"
    /\ vmbackup' = "idle" /\ vmheld' = FALSE
    /\ up' = IF vmheld THEN up \cup {Vm} ELSE up
    /\ UNCHANGED <<ready, wanted, job, vmlost, lock, marker, journal, pc, memory,
                   bounds>>

\* The file goes whether or not the VM started.
VmStartFails ==
    /\ vmbackup = "copy" /\ vmheld /\ faults < MaxFaults
    /\ faults' = faults + 1
    /\ vmbackup' = "idle" /\ vmheld' = FALSE /\ vmlost' = TRUE
    /\ UNCHANGED <<machine, wanted, job, lock, marker, journal, pc, memory,
                   deploys>>

Forget ==
    /\ rest' = << >> /\ stopped' = << >> /\ todo' = {} /\ failed' = FALSE

\* The running command is killed; the kernel drops its lock.
Crash ==
    /\ faults < MaxFaults /\ pc \in Preparing \cup {"restart"}
    /\ faults' = faults + 1
    /\ pc' = IF pc = "restart" THEN "idle" ELSE "post"
    /\ lock' = IF lock = "backup" THEN "free" ELSE lock
    /\ Forget
    /\ UNCHANGED <<machine, wanted, job, vmUnit, marker, journal, deploys>>

\* Enabled units start at boot; a stopped container stays stopped.
Reboot ==
    /\ faults < MaxFaults
    /\ faults' = faults + 1
    /\ up' = (wanted \cap Units) \cup (up \cap Containers)
    /\ ready' = (Proxy \in wanted)
    /\ job' = FALSE
    /\ vmbackup' = "idle" /\ vmheld' = FALSE /\ vmlost' = FALSE
    /\ lock' = "free" /\ marker' = FALSE
    /\ pc' = "idle"
    /\ Forget
    /\ UNCHANGED <<wanted, journal, deploys>>

-----------------------------------------------------------------------------
Backup ==
    \/ Begin \/ TakeLock \/ Mark \/ CheckLocal \/ Quiesce \/ Skip
    \/ SaveResume \/ Stop \/ CheckJobs \/ Cold \/ Unwind \/ Resumed \/ Leave
    \/ (\E r \in Resources : StartOne(r)) \/ PostEnds \/ PostResumes \/ PostDone

VmBackup ==
    \/ VmBackupStarts \/ VmBackupLooks
    \/ VmBackupStops \/ VmStopFails \/ VmBackupEnds \/ VmStartFails

Next ==
    \/ Backup \/ VmBackup
    \/ (\E r \in Resources : StartFails(r)) \/ JobStarts \/ JobEnds \/ Deploy \/ DeployEnds
    \/ Crash \/ Reboot

Spec == Init /\ [][Next]_vars

\* The timer starts the unit every night and systemd runs its commands to the
\* end; a deployment gives the lock back; a VM backup comes to its end.
FairSpec ==
    /\ Spec
    /\ WF_vars(Backup)
    /\ WF_vars(DeployEnds)
    /\ WF_vars(VmBackupLooks \/ VmBackupStops \/ VmBackupEnds)

-----------------------------------------------------------------------------
(* Properties *)

\* Whatever the backup took down is in the resume journal until it runs
\* again, at every point a crash or a reboot may hit, and nothing is
\* journalled or started that was not running before (quiesced: "Only restart
\* services that were active before this attempt, even on error").  The VM
\* may also be down for its own backup; when that backup's stop or start of
\* the VM fails, no file says so any more and nothing starts the VM but a
\* reboot.
DownIsOnRecord ==
    /\ wanted \ up \subseteq Range(journal) \cup (IF vmheld \/ vmlost THEN {Vm} ELSE {})
    /\ up \cup Range(journal) \subseteq wanted

\* While the archive is written every source is down, no assistant job runs
\* and no VM backup is about to start the VM: marker and unit state exclude
\* each other whichever side looks first (prepare, agents-vm-backup.nix).
ArchiveIsCold ==
    pc = "copy" => up = {} /\ ~job /\ vmbackup \notin {"stop", "copy"}

\* Every source the backup or the VM backup took down runs again, but a VM
\* that its own backup failed to stop or start: crashes, reboots, failed starts
\* and a busy lock only delay it to a later attempt.
EverythingComesBack ==
    \A r \in Resources :
        (r \in wanted /\ r \notin up) ~> (r \in up \/ (r = Vm /\ vmlost))
=============================================================================
