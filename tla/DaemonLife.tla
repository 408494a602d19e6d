----------------------------- MODULE DaemonLife -----------------------------
(***************************************************************************)
(* The life of the daemon process: "ndm start" builds the controller,      *)
(* starts the node API, registers the filters and the probes (the udev     *)
(* probe starts the listener and the monitor and scans the node), makes    *)
(* the sparse files and their BlockDevices, runs until a signal and marks  *)
(* the BlockDevices Unknown.  Scans asked for by the node API run beside   *)
(* it.  The process may crash and start again at any point.                *)
(* What the listener does with the devices is in DaemonEvents.             *)
(***************************************************************************)
EXTENDS Naturals, FiniteSets

CONSTANTS
    NodeDisk,       \* the devices of the node
    SparseCount, \* SPARSE_FILE_COUNT, 0 when there is no sparse directory
    LifeBounds   \* the bounds on disks attached, calls, failed calls, signals and
                 \* crashes, and writes by others; a behaviour has one of them

ASSUME LifeAssumption ==
    /\ SparseCount \in Nat
    /\ LifeBounds \subseteq [attach: Nat, calls: Nat, faults: Nat, stops: Nat, others: Nat]

SparseFile == 0..(SparseCount - 1)
ScanCaller == {"main", "call"}
FilterCount == 4

VARIABLES
    phase,     \* how far main is
    filters,   \* filters registered
    listening, \* the listener runs
    monitor,   \* the goroutine of Monitor: "off", "starting", or "on" once the kernel
               \* delivers events to it
    scans,     \* the scans of main and of a call
    attached,  \* the devices of the node
    known,     \* the devices the listener was told of
    files,     \* the sparse files
    sbd,       \* the states of their BlockDevices
    at,        \* main: the loop over the sparse files, or over the BlockDevices
    old,       \* the BlockDevices written since a reader listed them
    skipped,   \* the first scan was refused, another one was in progress, or failed
    unseen,    \* devices attached after the first scan had looked and before the
               \* monitor received
    excused,   \* sparse files whose BlockDevice is left wrong by a failed call, that
               \* were made while a scan was comparing, or that a scan could not see
    budget     \* what remains of the bounds

lifeVars == <<phase, filters, listening, monitor, scans, attached, known, files, sbd, at,
              old, skipped, unseen, excused, budget>>

noScan == [pc |-> "idle", seen |-> {}, keep |-> {}, todo |-> {}, late |-> {}]
Alive == phase # "off"
Use(what) == budget[what] > 0 /\ budget' = [budget EXCEPT ![what] = @ - 1]

\* a write of the BlockDevice of file i; one that changes nothing is no new version
Write(i, state) ==
    /\ sbd' = [sbd EXCEPT ![i] = state]
    /\ old' = IF sbd[i] = state THEN old ELSE [r \in DOMAIN old |-> old[r] \cup {i}]

----------------------------------------------------------------------------
\* scan(), by main or by a call

\* another scan holds the semaphore
Busy(r) == \E q \in ScanCaller \ {r} : scans[q].pc # "idle"

\* TryAcquire, and the devices that udev enumerates
ScanEnter(r) ==
    scans' = [scans EXCEPT ![r] = IF Busy(r) THEN noScan
                                  ELSE [noScan EXCEPT !.pc = "dir", !.seen = attached]]

\* GetActiveSparseBlockDevicesUUID: the files that are there now.  A directory that
\* cannot be read counts as empty, and the scan goes on to deactivate them all.
GetActiveSparse(r) ==
    /\ scans[r].pc = "dir"
    /\ \/ /\ scans' = [scans EXCEPT ![r].pc = "list", ![r].keep = files]
          /\ UNCHANGED budget
       \/ /\ Use("faults")
          /\ scans' = [scans EXCEPT ![r].pc = "list", ![r].late = SparseFile]
    /\ UNCHANGED <<phase, filters, listening, monitor, attached, known, files, sbd, at, old,
                   skipped, unseen, excused>>

\* the list of DeactivateStaleBlockDeviceResource; without it nothing is deactivated
ListStale(r) ==
    /\ scans[r].pc = "list"
    /\ \/ /\ scans' = [scans EXCEPT ![r].pc = "deactivate",
                         ![r].todo = {i \in SparseFile : sbd[i] # "none"} \ scans[r].keep]
          /\ UNCHANGED budget
       \/ /\ Use("faults") /\ scans' = [scans EXCEPT ![r].pc = "send"]
    /\ old' = [old EXCEPT ![r] = {}]
    /\ UNCHANGED <<phase, filters, listening, monitor, attached, known, files, sbd, at,
                   skipped, unseen, excused>>

\* DeactivateBlockDevice: an outdated copy is refused, and the error logged
Deactivate(r) ==
    /\ scans[r].pc = "deactivate"
    /\ \/ \E i \in scans[r].todo :
            /\ scans' = [scans EXCEPT ![r].todo = @ \ {i}]
            /\ \/ /\ i \notin old[r] /\ Write(i, "Inactive")
                  /\ excused' = excused \cup ({i} \cap scans[r].late)
                  /\ UNCHANGED budget
               \/ i \in old[r] /\ UNCHANGED <<sbd, old, budget, excused>>
               \/ Use("faults") /\ UNCHANGED <<sbd, old, excused>>
       \/ /\ scans[r].todo = {} /\ scans' = [scans EXCEPT ![r].pc = "send"]
          /\ UNCHANGED <<sbd, old, budget, excused>>
    /\ UNCHANGED <<phase, filters, listening, monitor, attached, known, files, at, skipped,
                   unseen>>

\* the listener takes the message from the channel, the scan returns
Deliver(r) ==
    /\ scans[r].pc = "send" /\ listening
    /\ known' = known \cup scans[r].seen
    /\ scans' = [scans EXCEPT ![r] = noScan]
    /\ UNCHANGED <<phase, filters, listening, monitor, attached, files, sbd, at, old,
                   skipped, unseen, excused, budget>>

ScanStep(r) == GetActiveSparse(r) \/ ListStale(r) \/ Deactivate(r) \/ Deliver(r)

\* Rescan of the node API, which has a controller of its own and needs only that
\* main has started the server
Call ==
    /\ phase \notin {"off", "new"} /\ scans["call"].pc = "idle"
    /\ Use("calls") /\ ScanEnter("call")
    /\ UNCHANGED <<phase, filters, listening, monitor, attached, known, files, sbd, at, old,
                   skipped, unseen, excused>>

----------------------------------------------------------------------------
\* main (NewCmdStart)

Exit == /\ phase' = "off" /\ filters' = 0 /\ listening' = FALSE /\ monitor' = "off"
        /\ known' = {}
        /\ scans' = [r \in ScanCaller |-> noScan] /\ at' = {}

\* A variant that registers the probes before the filters
ProbesFirst == [options |-> "udev", filters |-> "sparse", scan |-> "filters"]

After == [options |-> "filters", filters |-> "udev", scan |-> "sparse"]

\* NewController waits for the BlockDevice CRD; a missing NAMESPACE ends the process
NewController ==
    /\ phase = "new"
    /\ \/ /\ phase' = "options"
          /\ UNCHANGED <<filters, listening, monitor, scans, known, at, budget>>
       \/ Use("faults") /\ Exit
    /\ UNCHANGED <<attached, files, sbd, old, skipped, unseen, excused>>

\* SetControllerOptions reads the node object, and its failure ends the process;
\* then Broadcast
SetControllerOptions ==
    /\ phase = "options"
    /\ \/ /\ phase' = After["options"]
          /\ UNCHANGED <<filters, listening, monitor, scans, known, at, budget>>
       \/ Use("faults") /\ Exit
    /\ UNCHANGED <<attached, files, sbd, old, skipped, unseen, excused>>

\* filter.Start: each filter registers itself in turn
RegisterFilter ==
    /\ phase = "filters"
    /\ filters' = filters + 1
    /\ phase' = IF filters' = FilterCount THEN After["filters"] ELSE phase
    /\ UNCHANGED <<listening, monitor, scans, attached, known, files, sbd, at, old, skipped,
                   unseen, excused, budget>>

\* A variant that starts the listener after the scan
StartUdevLate ==
    /\ phase = "udev" /\ phase' = "enter"
    /\ monitor' = "starting"
    /\ UNCHANGED <<filters, listening, scans, attached, known, files, sbd, at, old, skipped,
                   unseen, excused, budget>>

\* A variant that leaves the events of udev to the scans
StartUdevAlone ==
    /\ phase = "udev" /\ phase' = "enter"
    /\ listening' = TRUE
    /\ UNCHANGED <<filters, monitor, scans, attached, known, files, sbd, at, old, skipped,
                   unseen, excused, budget>>

\* Start of the udev probe: it starts the listener and the monitor and waits for neither
StartUdev ==
    /\ phase = "udev" /\ phase' = "enter"
    /\ listening' = TRUE /\ monitor' = "starting"
    /\ UNCHANGED <<filters, scans, attached, known, files, sbd, at, old, skipped, unseen,
                   excused, budget>>

\* Monitor: newMonitor enables the events in a goroutine of its own; its failure is
\* reported, and the use of the nil monitor that follows ends the process
EnableReceiving ==
    /\ monitor = "starting"
    /\ \/ /\ monitor' = "on"
          /\ UNCHANGED <<phase, filters, listening, scans, known, at, budget>>
       \/ Use("faults") /\ Exit
    /\ UNCHANGED <<attached, files, sbd, old, skipped, unseen, excused>>

\* Start of the udev probe, continued: its own scan, the error of which is only logged
FirstScan ==
    /\ phase = "enter" /\ phase' = "scan"
    /\ \/ /\ ScanEnter("main") /\ skipped' = (skipped \/ Busy("main"))
          /\ UNCHANGED budget
       \/ Use("faults") /\ skipped' = TRUE /\ UNCHANGED scans
    /\ UNCHANGED <<filters, listening, monitor, attached, known, files, sbd, at, old,
                   unseen, excused>>

\* the scan of main has returned; the other probes start no work of their own here
ProbesStarted ==
    /\ phase = "scan" /\ scans["main"].pc = "idle"
    /\ phase' = After["scan"] /\ at' = SparseFile
    /\ UNCHANGED <<filters, listening, monitor, scans, attached, known, files, sbd, old,
                   skipped, unseen, excused, budget>>

\* InitializeSparseFiles, one file: CheckAndCreateSparseFile
CheckAndCreateSparseFile(i) ==
    /\ phase = "sparse" /\ i \in at /\ i \notin files
    /\ \/ /\ files' = files \cup {i}
          /\ scans' = [r \in ScanCaller |-> [scans[r] EXCEPT
                          !.late = IF scans[r].pc \in {"list", "deactivate"}
                                   THEN @ \cup {i} ELSE @]]
          /\ UNCHANGED <<at, excused, budget>>
       \/ /\ Use("faults") /\ at' = at \ {i} /\ excused' = excused \cup {i}
          /\ UNCHANGED <<files, scans>>
    /\ UNCHANGED <<phase, filters, listening, monitor, attached, known, sbd, old, skipped,
                   unseen>>

\* A variant that leaves a BlockDevice that exists as it is
MarkNewActive(i) ==
    /\ phase = "sparse" /\ i \in at /\ i \in files
    /\ at' = at \ {i}
    /\ IF sbd[i] = "none" THEN Write(i, "Active") ELSE UNCHANGED <<sbd, old>>
    /\ UNCHANGED <<phase, filters, listening, monitor, scans, attached, known, files,
                   skipped, unseen, excused, budget>>

\* MarkSparseBlockDeviceStateActive: CreateBlockDevice creates or updates it
MarkSparseBlockDeviceStateActive(i) ==
    /\ phase = "sparse" /\ i \in at /\ i \in files
    /\ at' = at \ {i}
    /\ \/ Write(i, "Active") /\ UNCHANGED <<excused, budget>>
       \/ Use("faults") /\ excused' = excused \cup {i} /\ UNCHANGED <<sbd, old>>
    /\ UNCHANGED <<phase, filters, listening, monitor, scans, attached, known, files,
                   skipped, unseen>>

Run ==
    /\ phase = "sparse" /\ at = {} /\ phase' = "run"
    /\ UNCHANGED <<filters, listening, monitor, scans, attached, known, files, sbd, at, old,
                   skipped, unseen, excused, budget>>

\* a signal: MarkBlockDeviceStatusToUnknown lists the BlockDevices, or gives up
Signal ==
    /\ phase = "run" /\ Use("stops")
    /\ phase' = "unknown" /\ at' = {i \in SparseFile : sbd[i] # "none"}
    /\ old' = [r \in (DOMAIN old) \cup {"stop"} |-> IF r = "stop" THEN {} ELSE old[r]]
    /\ UNCHANGED <<filters, listening, monitor, scans, attached, known, files, sbd, skipped,
                   unseen, excused>>

MarkUnknown ==
    /\ phase = "unknown"
    /\ \/ \E i \in at :
            /\ at' = at \ {i}
            /\ IF i \in old["stop"] THEN UNCHANGED <<sbd, old>> ELSE Write(i, "Unknown")
            /\ UNCHANGED <<phase, filters, listening, monitor, scans, known>>
       \/ at = {} /\ Exit /\ UNCHANGED <<sbd, old>>
    /\ UNCHANGED <<attached, files, skipped, unseen, excused, budget>>

Main == \/ NewController \/ SetControllerOptions \/ RegisterFilter \/ StartUdev
        \/ FirstScan \/ ProbesStarted \/ Run \/ MarkUnknown
        \/ \E i \in SparseFile : CheckAndCreateSparseFile(i) \/ MarkSparseBlockDeviceStateActive(i)

----------------------------------------------------------------------------
\* the environment

Crash ==
    /\ Alive /\ Use("stops") /\ Exit
    /\ UNCHANGED <<attached, files, sbd, old, skipped, unseen, excused>>

\* the kubelet starts the container again
Restart ==
    /\ phase = "off" /\ phase' = "new"
    /\ skipped' = FALSE /\ unseen' = {} /\ excused' = {}
    /\ UNCHANGED <<filters, listening, monitor, scans, attached, known, files, sbd, at, old,
                   budget>>

\* the first scan of this process has looked at the node
Looked == phase \in {"scan", "sparse", "run", "unknown"}

\* a disk comes, and the monitor tells the listener once it receives
AttachDisk(d) ==
    /\ d \notin attached /\ Use("attach")
    /\ attached' = attached \cup {d}
    /\ known' = IF monitor = "on" THEN known \cup {d} ELSE known
    /\ unseen' = IF Looked /\ monitor = "starting" THEN unseen \cup {d} ELSE unseen
    /\ UNCHANGED <<phase, filters, listening, monitor, scans, files, sbd, at, old, skipped,
                   excused>>

\* an administrator removes a sparse file while the daemon is down; the operator
\* writes a BlockDevice, here without a change of its state
WriteByOthers(i) ==
    /\ Use("others")
    /\ \/ ~Alive /\ i \in files /\ files' = files \ {i} /\ UNCHANGED old
       \/ /\ sbd[i] # "none" /\ old' = [r \in DOMAIN old |-> old[r] \cup {i}]
          /\ UNCHANGED files
    /\ UNCHANGED <<phase, filters, listening, monitor, scans, attached, known, sbd, at,
                   skipped, unseen, excused>>

LifeInit(disks, bounds) ==
    /\ phase = "off" /\ filters = 0 /\ listening = FALSE /\ monitor = "off"
    /\ scans = [r \in ScanCaller |-> noScan]
    /\ attached \in disks /\ known = {} /\ files = {}
    /\ sbd = [i \in SparseFile |-> "none"] /\ at = {}
    /\ old = [r \in ScanCaller |-> {}]
    /\ skipped = FALSE /\ unseen = {} /\ excused = {} /\ budget \in bounds

LifeGo == Main \/ EnableReceiving \/ Restart \/ \E r \in ScanCaller : ScanStep(r)

LifeNext ==
    \/ LifeGo \/ Call \/ Signal \/ Crash
    \/ \E d \in NodeDisk : AttachDisk(d)
    \/ \E i \in SparseFile : WriteByOthers(i)

\* every set of devices at the start
LifeSpec == LifeInit(SUBSET NodeDisk, LifeBounds) /\ [][LifeNext]_lifeVars

----------------------------------------------------------------------------
AtRest == phase = "run" /\ \A r \in ScanCaller : scans[r].pc = "idle"

\* FiltersFirst: no device reaches the listener before every filter is registered,
\* also when a scan of the node API has been waiting since before that; a device
\* handled earlier would pass filters that are not there yet.
FiltersFirst ==
    [][\A r \in ScanCaller : Deliver(r) => filters = FilterCount]_lifeVars

\* DevicesKnown: once the daemon is up, the listener has been told of every device
\* of the node, however attaching, the monitor and the scans were interleaved, with
\* two exceptions.  The first scan was refused because one of the node API was in
\* progress, or failed.  Or the device came after the first scan had looked and
\* before the goroutine of Monitor, for which Start does not wait, received events:
\* such a device stays unknown until the next scan.
DevicesKnown == AtRest /\ ~skipped => attached \subseteq known \cup unseen

\* SparseActive: once the daemon is up, every sparse file has an Active BlockDevice,
\* whatever restarts, crashes and scans came before: a scan keeps the BlockDevices
\* of the files it finds.  A scan that read the directory just before the file was
\* made, or could not read it, may deactivate a BlockDevice for good.
SparseActive ==
    AtRest => \A i \in SparseFile : i \in files /\ i \notin excused => sbd[i] = "Active"

\* StartsUp: a daemon that is not killed comes up or gives up; no start waits for
\* ever, for the channel, the semaphore or the API server.
StartsUp == phase = "new" ~> phase \in {"run", "unknown", "off"}
=============================================================================
