---------------------------- MODULE DaemonEvents ----------------------------
(***************************************************************************)
(* The event pipeline of the NDM daemon (cmd/ndm_daemonset/probe): udev    *)
(* events and scans of the node become messages on one unbuffered channel, *)
(* and one listener turns each of them into writes of BlockDevices.        *)
(*                                                                         *)
(*   kernel --udevq--> monitor --\                                         *)
(*                                 channel --> listener --> API server     *)
(*   start, Rescan ----> scans --/                                         *)
(*                                                                         *)
(* The listener, the scans, the monitor, the hardware, the users of the    *)
(* devices and the start of the daemon take steps in any order.  A step    *)
(* holds at most one write to the API server, but for the handler of one   *)
(* device, which may deactivate the parent before it writes the device.    *)
(***************************************************************************)
EXTENDS DeviceIdentity, Functions

CONSTANTS
    Start,   \* the situations the daemon may start in, each with its bounds
    Scanner  \* the goroutines that may be in scan() or waiting to enter it

\* the bounds: changes of the hardware, claims and releases, failed API calls,
\* Rescan calls through the node API
Bounds == [hw: Nat, claims: Nat, faults: Nat, calls: Nat]

\* the hardware: a disk has a name of its own, a partition or a volume is on a disk,
\* and a disk that has a partition has a table
Hw == [present: BOOLEAN, path: DevPath, type: DeviceType, on: Dev \cup {None}, wwn: BOOLEAN,
       local: BOOLEAN, fs: BOOLEAN, table: BOOLEAN, use: StorageEngine, excluded: BOOLEAN]
WellFormed(h) ==
    /\ h \in [Dev -> Hw]
    /\ \A d \in Dev :
         /\ h[d].on = None => h[d].path \in Path
         /\ h[d].type \in {"partition"} \cup DeviceMapperDeviceTypes =>
              h[d].on # None /\ h[h[d].on].on = None
         /\ h[d].type = "partition" /\ h[d].present => h[h[d].on].table

\* a BlockDevice of the node in the API server; the daemon only tells a device that is
\* Unclaimed from one that is not
Resource == [state: {"Active", "Inactive", "Unknown"}, claim: {"Unclaimed", "Claimed"},
             path: DevPath, fstype: BOOLEAN, fsuuid: Dev \cup {None}, ptuuid: Dev \cup {None},
             on: Dev \cup {None}]

ASSUME StartAssumption ==
    /\ Scanner # {} /\ IsFiniteSet(Scanner) /\ IsFiniteSet(Dev) /\ None \notin Dev
    /\ \A sit \in Start :
         /\ WellFormed(sit.hw) /\ sit.probes \in 0..2 /\ sit.left \in Bounds
         /\ DOMAIN sit.bds \subseteq UUID /\ sit.bds \in [DOMAIN sit.bds -> Resource]

VARIABLES
    gates,   \* the enabled feature gates
    hw,      \* the devices: present, path, what is on them, who uses them
    bds,     \* the BlockDevices of the node in the API server, by name
    stale,   \* the BlockDevices written since a reader listed them
    hier,    \* Controller.BDHierarchy: what was last seen at each path
    udevq,   \* udev events not yet received
    mon,     \* the message the monitor waits to send, or None
    sem,     \* the semaphore of scan() is held
    scan,    \* the scans
    lst,     \* the listener
    fd,      \* the disk that the handler of a device has opened to write a table
    probes,  \* probes registered: 0 udev, 1 and sysfs, 2 and usedby, blkid
    left,    \* what remains of the bounds
    lost     \* a change the code does not come back to: a scan was refused, something
             \* changed while a scan was under way, a failure was only logged, or a
             \* table went over what somebody had just put on the disk

vars == <<gates, hw, bds, stale, hier, udevq, mon, sem, scan, lst, fd, probes, left, lost>>
envVars == <<gates, probes, fd>>   \* what most steps leave alone

ScanStates == {"idle", "spawned", "list", "deactivate", "send", "sent"}
scanIdle == [pc |-> "idle", own |-> TRUE, devs |-> <<>>, todo |-> {}]
lstIdle == [pc |-> "idle", action |-> "none", devs |-> <<>>, list |-> <<>>,
            need |-> FALSE, errored |-> {}]
Reader == Scanner \cup {"listener"}

\* An open disk: d is None once it is detached; late is what others put on it after NDM
\* has looked for it (for the properties)
NoFd == [at |-> "closed", d |-> None, late |-> {}]

Present == {d \in Dev : hw[d].present}
Gpt == "GPTBasedUUID" \in gates

\* the partitions and the holders of d on the hardware h
Children(h, d) == {e \in Dev : h[e].present /\ h[e].type = "partition" /\ h[e].on = d}
Holders(h, d) ==
    {e \in Dev : h[e].present /\ h[e].type \in DeviceMapperDeviceTypes /\ h[e].on = d}

\* the udev properties and the sysfs dependents of d, as a scan records them; the
\* other fields are for the probes to fill
Details(h, d) ==
    LET disk == IF h[d].type = "partition" THEN h[d].on ELSE d IN
    [d |-> d, disk |-> disk, path |-> h[d].path, type |-> h[d].type, uuid |-> None,
     wwn |-> h[disk].wwn, local |-> h[disk].local, fs |-> IF h[d].fs THEN d ELSE None,
     pt |-> IF h[disk].table THEN disk ELSE None, fstype |-> FALSE, table |-> FALSE,
     parent |-> IF h[d].type = "partition" THEN h[disk].path ELSE None,
     slaves |-> IF h[d].type \in DeviceMapperDeviceTypes THEN {h[h[d].on].path} ELSE {},
     parts |-> Children(h, d) # {}, holders |-> Holders(h, d) # {}, use |-> "none"]

\* a udev event carries the properties of the device at that time
Event(h, action, d) == [action |-> action, b |-> Details(h, d)]

\* the members of a set in some order, and the events of partitions that go
InOrder(S) == CHOOSE f \in Bijection(1..Cardinality(S), S) : TRUE
Removed(h, S) == [i \in 1..Cardinality(S) |-> Event(h, "remove", InOrder(S)[i])]

----------------------------------------------------------------------------
\* The API server

NoBD == [state |-> "Unknown", claim |-> "Unclaimed", path |-> None,
         fstype |-> FALSE, fsuuid |-> None, ptuuid |-> None, on |-> None]

\* a write; one that changes nothing keeps the resource version
Put(f, u, new) == [x \in (DOMAIN f) \cup {u} |-> IF x = u THEN new ELSE f[x]]
Reading(r) == IF r = "listener" THEN lst.pc \in {"next", "add"} ELSE scan[r].pc = "deactivate"
Touched(old, new) == {u \in DOMAIN new : u \notin DOMAIN old \/ old[u] # new[u]}
WriteAll(new) ==
    /\ bds' = new
    /\ stale' = [r \in Reader |-> IF Reading(r) THEN stale[r] \cup Touched(bds, new) ELSE {}]

Spend(what) == left[what] > 0 /\ left' = [left EXCEPT ![what] = @ - 1]

\* mergeBlockDeviceData and mergeMetadata: a device in use takes the path and the
\* state of b only, the annotations are added to the old ones.  on is the device the
\* resource stands for, the one it is claimed for while it is claimed
Merge(old, b, ann) ==
    [state |-> "Active", claim |-> old.claim, path |-> b.path,
     on |-> IF old.claim = "Claimed" THEN old.on ELSE b.d,
     fstype |-> IF old.claim # "Unclaimed" THEN old.fstype ELSE b.fstype,
     fsuuid |-> IF ann = "fs" THEN b.fs ELSE old.fsuuid,
     ptuuid |-> IF ann = "pt" THEN b.pt ELSE old.ptuuid]

Deactivated(f, u) == [f EXCEPT ![u].state = "Inactive"]

----------------------------------------------------------------------------
\* The probes and the filters of one device (FillBlockDeviceDetails and
\* ApplyFilter of the controller)

\* The udev probe reads udev again through the sysfs path, and leaves a device
\* that is gone alone; the other probes add what they find, once registered.
\* named: the message asks for the udev and sysfs probes only
FillBlockDeviceDetails(b, named) ==
    IF ~hw[b.d].present THEN b
    ELSE LET now == Details(hw, b.d) IN
         [b EXCEPT !.path = now.path, !.wwn = now.wwn, !.local = now.local,
                   !.fstype = hw[b.d].fs, !.table = now.pt # None,
                   !.pt = IF b.pt = None /\ probes = 2 /\ ~named THEN now.pt ELSE b.pt,
                   !.use = IF probes = 2 /\ ~named THEN hw[b.d].use ELSE b.use]

\* a device without a capacity is not valid, and the sysfs probe fills it
ApplyFilter(b) == probes > 0 /\ hw[b.d].present /\ ~hw[b.d].excluded

\* A variant that caches a partition under the path of its disk
addToCacheOfParent(b) == hier' = Put(hier, IF b.parent # None THEN b.parent ELSE b.path, b)

addBlockDeviceToHierarchyCache(b) == hier' = Put(hier, b.path, b)

----------------------------------------------------------------------------
\* The decisions of the handlers.  A plan says what is written: nothing, an
\* error, a push of b under the name uuid with an annotation, from the copy in
\* the list, from a copy just read, or as a creation; deact is deactivated first

Skip == [op |-> "skip"]
Fail == [op |-> "error"]
Go == [op |-> "continue"]
Push(b, uuid, ann, from, deact) ==
    [op |-> "push", b |-> b, uuid |-> uuid, ann |-> ann, from |-> from, deact |-> deact]

\* createOrUpdateWithAnnotation on GetExistingBlockDeviceResource(bdAPIList, uuid)
createOrUpdate(b, uuid, ann, list, deact) ==
    Push(b, uuid, ann, IF uuid \in DOMAIN list THEN "list" ELSE "create", deact)

createBlockDeviceResourceIfNoHolders(b, uuid, list) ==
    IF b.holders THEN Skip ELSE createOrUpdate(b, uuid, "gpt", list, None)

\* deviceInUseByMayastor, then deviceInUseByZFSLocalPV
handleUnmanagedDevices(b) ==
    IF b.use = "mayastor" THEN Skip
    ELSE IF b.type = "partition" /\ b.parent \notin DOMAIN hier THEN Fail
    ELSE IF b.type = "partition" /\ hier[b.parent].use = "zfs" THEN Skip
    ELSE IF b.use # "zfs" THEN Go
    ELSE IF b.pt = None THEN Fail
    ELSE Push(b, generateUUIDFromPartitionTable(b), "tag", "create", None)

isParentDeviceInUse(b) ==
    IF b.type # "partition" THEN Go
    ELSE IF b.parent \notin DOMAIN hier THEN Fail
    ELSE IF hier[b.parent].use # "none" THEN Skip ELSE Go

\* A variant that looks for the legacy name only
upgradeByLegacyName(b, list, ann) ==
    LET legacy == generateLegacyUUID(b) IN
    IF generateUUID(b, gates) \in DOMAIN list THEN Go
    ELSE IF legacy \notin DOMAIN list THEN Push(b, legacy, ann, "create", None)
    ELSE Push(b, legacy, ann, "list", None)

\* upgradeDeviceInUseByCStor (annotation pt) and upgradeDeviceInUseByLocalPV
\* (annotation fs): the resource that carries the device's identifier, else the
\* one with its legacy name
upgradeDeviceInUse(b, list, ann) ==
    LET uuid == generateUUID(b, gates)
        marked == IF ann = "pt" THEN getExistingBDWithPartitionUUID(b, list)
                                ELSE getExistingBDWithFsUuid(b, list)
        legacy == generateLegacyUUID(b)
        existing == IF marked # {} THEN CHOOSE u \in marked : TRUE ELSE legacy IN
    IF uuid \in DOMAIN list THEN IF list[uuid].claim # "Unclaimed" THEN Go ELSE Fail
    ELSE IF existing \notin DOMAIN list THEN Push(b, legacy, ann, "create", None)
    ELSE IF list[existing].claim # "Unclaimed" \/ b.local THEN Push(b, existing, ann, "list", None)
    ELSE Fail

upgradeBD(b, list) ==
    CASE b.use = "cstor" -> upgradeDeviceInUse(b, list, "pt")
      [] b.use = "localpv" -> upgradeDeviceInUse(b, list, "fs")
      [] OTHER -> Go

\* the last part of addBlockDevice for a partition that has no resource yet
addNewPartition(b, uuid, list) ==
    LET parent == IF b.parent \in DOMAIN hier
                  THEN generateUUID(hier[b.parent], gates) ELSE None IN
    IF b.parent \notin DOMAIN hier THEN Fail
    ELSE IF parent \notin DOMAIN bds THEN createBlockDeviceResourceIfNoHolders(b, uuid, list)
    ELSE IF bds[parent].claim # "Unclaimed" THEN Skip
    ELSE createOrUpdate(b, uuid, "gpt", list, parent)

\* the part of addBlockDevice after the checks on the use of the device
addIdentified(b, list) ==
    LET uuid == generateUUID(b, gates) IN
    IF uuid = None
    THEN IF b.parts \/ b.holders THEN Skip
         ELSE [op |-> "table"]
    ELSE IF uuid \notin DOMAIN bds
    THEN IF b.type = "partition" THEN addNewPartition(b, uuid, list)
         ELSE IF b.parts THEN Skip ELSE createBlockDeviceResourceIfNoHolders(b, uuid, list)
    ELSE IF bds[uuid].claim # "Unclaimed" THEN Push(b, uuid, "gpt", "read", None)
    ELSE createOrUpdate(b, uuid, "gpt", list, None)

\* addBlockDevice: each check either ends the handler or lets it continue
addBlockDevice(b, list) ==
    LET plans == <<handleUnmanagedDevices(b), isParentDeviceInUse(b),
                   upgradeBD(b, list), addIdentified(b, list)>>
        last == CHOOSE i \in 1..4 : /\ plans[i].op # "continue"
                                    /\ \A j \in 1..(i - 1) : plans[j].op = "continue" IN
    plans[last]

\* the GPTBasedUUID gate is off: partitions are skipped, the name is the legacy one
PushBlockDeviceResource(b, list) ==
    IF b.type = "partition" THEN Skip ELSE createOrUpdate(b, b.uuid, "none", list, None)

\* A variant that does not search the annotations
deleteByName(b, list) ==
    IF b.path \in DOMAIN hier /\ generateUUID(b, gates) \in DOMAIN list
    THEN generateUUID(b, gates) ELSE None

\* deleteBlockDevice: the first of the names the device may have that is listed
deleteBlockDevice(b, list) ==
    LET names == <<generateUUID(b, gates), generateUUIDFromPartitionTable(b)>>
        marked == IF getExistingBDWithFsUuid(b, list) # {}
                  THEN getExistingBDWithFsUuid(b, list)
                  ELSE IF b.type # "partition"
                       THEN getExistingBDWithPartitionUUID(b, list) ELSE {} IN
    IF b.path \notin DOMAIN hier THEN None
    ELSE IF names[1] \in DOMAIN list THEN names[1]
    ELSE IF names[2] \in DOMAIN list THEN names[2]
    ELSE IF marked # {} THEN CHOOSE u \in marked : TRUE
    ELSE IF generateLegacyUUID(b) \in DOMAIN list THEN generateLegacyUUID(b)
    ELSE None

----------------------------------------------------------------------------
\* The listener (listen, eventhandler.go)

\* go Rescan(pe.Controller): one waiting goroutine stands for any number of them
Spawn(f) ==
    IF \E s \in Scanner : f[s].pc = "idle"
    THEN [f EXCEPT ![CHOOSE s \in Scanner : f[s].pc = "idle"] =
                      [scanIdle EXCEPT !.pc = "spawned"]]
    ELSE f

\* a message arrives from the monitor or from a scan
Receive ==
    /\ lst.pc = "idle"
    /\ \/ /\ mon # None
          /\ lst' = [lstIdle EXCEPT !.pc = "list", !.action = mon.action, !.devs = <<mon.b>>]
          /\ mon' = None /\ UNCHANGED scan
       \/ \E s \in Scanner :
            /\ scan[s].pc = "send"
            /\ lst' = [lstIdle EXCEPT !.pc = "list", !.action = "add", !.devs = scan[s].devs]
            /\ scan' = [scan EXCEPT ![s] = [scanIdle EXCEPT !.pc = "sent"]]
            /\ UNCHANGED mon
    /\ UNCHANGED <<envVars, hw, bds, stale, hier, udevq, sem, left, lost>>

\* ListBlockDeviceResource of the add and remove handlers; without a list the
\* add handler asks for a scan, the remove handler goes on with an empty one
ListResources ==
    /\ lst.pc = "list" /\ lst.action # "change"
    /\ stale' = [stale EXCEPT !["listener"] = {}]
    /\ \/ lst' = [lst EXCEPT !.pc = "next", !.list = bds] /\ UNCHANGED <<scan, left, lost>>
       \/ /\ Spend("faults")
          /\ lst' = IF lst.action = "add" THEN lstIdle ELSE [lst EXCEPT !.pc = "next"]
          /\ scan' = IF lst.action = "add" THEN Spawn(scan) ELSE scan
          /\ lost' = (lost \/ lst.action = "remove")
    /\ UNCHANGED <<envVars, hw, bds, hier, udevq, mon, sem>>

\* isParentOrSlaveDevice
isParentOrSlaveDevice(b, errored) == b.parent \in errored \/ b.slaves \cap errored # {}

\* addBlockDeviceEvent, one device: the probes, the cache, the filters
FillDevice ==
    /\ lst.pc = "next" /\ lst.action = "add" /\ lst.devs # <<>>
    /\ LET b == FillBlockDeviceDetails(Head(lst.devs), FALSE)
           skip == \/ ~ApplyFilter(b)
                   \/ Gpt /\ isParentOrSlaveDevice(b, lst.errored) IN
       /\ addBlockDeviceToHierarchyCache(b)
       /\ lst' = IF skip THEN [lst EXCEPT !.devs = Tail(@)]
                 ELSE [lst EXCEPT !.pc = "add", !.devs = <<b>> \o Tail(@)]
       /\ lost' = (lost \/ probes < 2)
    /\ UNCHANGED <<envVars, hw, bds, stale, udevq, mon, sem, scan, left>>

\* A variant that reports an error without asking for a scan
DoneWithoutRescan(err, need) ==
    lst' = [lst EXCEPT !.pc = "next", !.devs = Tail(@), !.need = @ \/ need,
                       !.errored = IF err THEN @ \cup {Head(lst.devs).path} ELSE @]

\* the handler of the device returns
Done(err, need) ==
    lst' = [lst EXCEPT !.pc = "next", !.devs = Tail(@), !.need = @ \/ err \/ need,
                       !.errored = IF err THEN @ \cup {Head(lst.devs).path} ELSE @]

\* createOrUpdateWithAnnotation after DeactivateBlockDevice(parent), an error of
\* which is only logged (up: it succeeds).  A creation of what exists becomes an
\* update, and gives up without an error after two conflicts.
ApplyPush(p) ==
    \E up \in IF p.deact = None THEN {TRUE} ELSE BOOLEAN :
      LET f == IF up /\ p.deact # None THEN Deactivated(bds, p.deact) ELSE bds
          old == IF p.uuid \in DOMAIN bds THEN f[p.uuid] ELSE NoBD
          new == Put(f, p.uuid, Merge(old, p.b, p.ann))
          conflict == p.from = "list" /\ p.uuid \in stale["listener"] IN
      \/ /\ up /\ WriteAll(IF conflict THEN f ELSE new) /\ Done(conflict, FALSE)
         /\ UNCHANGED <<left, lost>>
      \/ /\ Spend("faults")
         /\ \/ up /\ WriteAll(f) /\ Done(TRUE, FALSE) /\ UNCHANGED lost
            \/ ~up /\ ~conflict /\ WriteAll(new) /\ Done(FALSE, FALSE) /\ lost' = TRUE
            \/ /\ up /\ p.from = "create" /\ p.uuid \in DOMAIN bds
               /\ WriteAll(f) /\ Done(FALSE, FALSE) /\ lost' = TRUE

\* the hardware once the disk d has a table, with the partition e on it if there is one
WithTable(d, part) ==
    [x \in Dev |-> IF x = d THEN [hw[x] EXCEPT !.table = TRUE]
                   ELSE IF x \in part
                        THEN [hw[x] EXCEPT !.present = TRUE, !.path = PartPath(hw[d].path)]
                        ELSE hw[x]]
Announce(h, d, part) ==
    IF part = {} THEN <<Event(h, "change", d)>>
    ELSE <<Event(h, "change", d), Event(h, "add", CHOOSE e \in part : TRUE)>>

\* the device at a path
At(path) == {d \in Present : hw[d].path = path}

\* CreatePartitionTable and CreateSinglePartition open whatever disk is at the path by
\* now, and give up when they read a table from it
OpenDisk(b) ==
    \/ \E d \in At(b.path) :
         ~hw[d].table /\ fd' = [NoFd EXCEPT !.at = "open", !.d = d] /\ UNCHANGED lst
    \/ (\A d \in At(b.path) : hw[d].table) /\ Done(TRUE, FALSE) /\ UNCHANGED fd

\* then blkid looks for a file system by the path, at which another disk, or none, may
\* be by now
CheckFileSystem ==
    /\ fd.at = "open"
    /\ IF \E d \in At(Head(lst.devs).path) : hw[d].fs
       THEN Done(TRUE, FALSE) /\ fd' = NoFd
       ELSE fd' = [fd EXCEPT !.at = "checked"] /\ UNCHANGED lst
    /\ UNCHANGED <<gates, probes, hw, bds, stale, hier, udevq, mon, sem, scan, left, lost>>

\* the hardware once NDM has written its table to d, and with it the partitions in part
Rewritten(d, part) ==
    [x \in Dev |-> IF x \in Children(hw, d) \ part THEN [hw[x] EXCEPT !.present = FALSE]
                   ELSE IF x = d THEN [WithTable(d, part)[x] EXCEPT !.fs = FALSE]
                   ELSE WithTable(d, part)[x]]

\* A variant that opens the path again to write
WriteTableByPath ==
    /\ fd.at = "checked" /\ fd' = NoFd
    /\ \/ \E d \in At(Head(lst.devs).path) :
            hw' = Rewritten(d, {}) /\ Done(FALSE, TRUE) /\ UNCHANGED udevq
       \/ At(Head(lst.devs).path) = {} /\ Done(TRUE, FALSE) /\ UNCHANGED <<hw, udevq>>
    /\ UNCHANGED <<gates, probes, bds, stale, hier, mon, sem, scan, left, lost>>

\* the write goes to the disk that was opened, and fails when that disk is gone; what
\* somebody put on it meanwhile is overwritten.  Only the table without a partition asks for
\* a scan
WriteTable ==
    LET d == fd.d
        single == "PartitionTableUUID" \notin gates
        part == {e \in Dev : single /\ hw[e].on = d /\ hw[e].type = "partition"} IN
    /\ fd.at = "checked" /\ fd' = NoFd
    /\ \/ /\ (d = None /\ UNCHANGED left) \/ Spend("faults")
          /\ Done(TRUE, FALSE)
          /\ UNCHANGED <<hw, udevq, lost>>
       \/ /\ d # None
          /\ hw' = Rewritten(d, part)
          /\ udevq' = udevq \o Removed(hw, Children(hw, d)) \o Announce(hw', d, part)
          /\ Done(FALSE, ~single)
          /\ lost' = (lost \/ fd.late # {})
          /\ UNCHANGED left
    /\ UNCHANGED <<gates, probes, bds, stale, hier, mon, sem, scan>>

\* addBlockDeviceEvent, one device: addBlockDevice or PushBlockDeviceResource.
\* The cache takes the new name as soon as there is one.
AddDevice ==
    /\ lst.pc = "add" /\ fd.at = "closed"
    /\ LET b == Head(lst.devs)
           uuid == generateUUID(b, gates)
           p == IF Gpt THEN addBlockDevice(b, lst.list) ELSE PushBlockDeviceResource(b, lst.list)
           named == /\ Gpt /\ uuid # None
                    /\ \A q \in {handleUnmanagedDevices(b), isParentDeviceInUse(b),
                                 upgradeBD(b, lst.list)} : q.op = "continue" IN
       /\ IF named THEN addBlockDeviceToHierarchyCache([b EXCEPT !.uuid = uuid])
                   ELSE UNCHANGED hier
       /\ CASE p.op = "table" -> OpenDisk(b) /\ UNCHANGED <<bds, stale, left, lost>>
            [] p.op = "push" -> ApplyPush(p) /\ UNCHANGED fd
            [] OTHER -> /\ Done(p.op = "error", FALSE)
                        /\ UNCHANGED <<fd, bds, stale, left, lost>>
    /\ UNCHANGED <<gates, probes, hw, udevq, mon, sem, scan>>

\* A variant that scans again whatever the outcome was
FinishAddRescan ==
    /\ lst.pc = "next" /\ lst.action = "add" /\ lst.devs = <<>>
    /\ scan' = Spawn(scan)
    /\ lst' = lstIdle
    /\ UNCHANGED <<envVars, hw, bds, stale, hier, udevq, mon, sem, left, lost>>

\* addBlockDeviceEvent after the last device
FinishAdd ==
    /\ lst.pc = "next" /\ lst.action = "add" /\ lst.devs = <<>>
    /\ scan' = IF lst.need THEN Spawn(scan) ELSE scan
    /\ lst' = lstIdle
    /\ UNCHANGED <<envVars, hw, bds, stale, hier, udevq, mon, sem, left, lost>>

\* deleteBlockDeviceEvent: a device that is not in the cache is left alone, an
\* error of the update is only logged; without the gate a device that is not
\* listed asks for a scan
DeleteDevice ==
    /\ lst.pc = "next" /\ lst.action = "remove"
    /\ LET b == Head(lst.devs)
           legacy == IF b.type # "partition" /\ b.uuid \in DOMAIN lst.list THEN b.uuid ELSE None
           u == IF Gpt THEN deleteBlockDevice(b, lst.list) ELSE legacy
           rescan == ~Gpt /\ b.type # "partition" /\ u = None IN
       /\ hier' = IF Gpt THEN [q \in (DOMAIN hier) \ {b.path} |-> hier[q]] ELSE hier
       /\ IF u = None \/ u \in stale["listener"]
          THEN UNCHANGED <<bds, stale, left>> /\ lost' = (lost \/ u # None)
          ELSE \/ WriteAll(Deactivated(bds, u)) /\ UNCHANGED <<left, lost>>
               \/ Spend("faults") /\ lost' = TRUE /\ UNCHANGED <<bds, stale>>
       /\ scan' = IF rescan THEN Spawn(scan) ELSE scan
    /\ lst' = lstIdle
    /\ UNCHANGED <<envVars, hw, udevq, mon, sem>>

\* changeBlockDeviceEvent and changeBlockDevice, for the device cached at the path
ChangeDevice ==
    /\ lst.pc = "list" /\ lst.action = "change"
    /\ LET path == Head(lst.devs).path
           old == hier[path]
           filled == FillBlockDeviceDetails(old, TRUE)
           b == [filled EXCEPT !.uuid = IF @ = None THEN generateUUID(filled, gates) ELSE @]
           changed == path \in DOMAIN hier /\ b.uuid # None /\ b.fstype # old.fstype
           push == ApplyFilter(b) /\ b.uuid \in DOMAIN bds IN
       IF ~changed THEN UNCHANGED <<hier, bds, stale, left, lost>>
       ELSE /\ addBlockDeviceToHierarchyCache(b)
            /\ IF ~push THEN UNCHANGED <<bds, stale, left, lost>>
               ELSE \/ WriteAll(Put(bds, b.uuid, Merge(bds[b.uuid], b, "none")))
                       /\ UNCHANGED <<left, lost>>
                    \/ Spend("faults") /\ lost' = TRUE /\ UNCHANGED <<bds, stale>>
    /\ lst' = lstIdle
    /\ UNCHANGED <<envVars, hw, udevq, mon, sem, scan>>

Listener == Receive \/ ListResources \/ FillDevice \/ AddDevice \/ CheckFileSystem \/ WriteTable
            \/ FinishAdd \/ DeleteDevice \/ ChangeDevice

----------------------------------------------------------------------------
\* The monitor (listenUdevEventMonitor, processUdevEvent)

\* the message of an event: a change has the path only; the dependents and the
\* type come from sysfs, which has nothing on a device that is gone by now
processUdevEvent(e) ==
    LET now == Details(hw, e.b.d)
        b == [e.b EXCEPT !.uuid = GetUid(e.b)] IN
    [action |-> e.action,
     b |-> CASE e.action = "change" -> e.b
             [] e.action = "add" /\ hw[e.b.d].present /\ hw[e.b.d].path = e.b.path ->
                  [b EXCEPT !.parent = now.parent, !.slaves = now.slaves,
                            !.parts = now.parts, !.holders = now.holders]
             [] OTHER -> [b EXCEPT !.type = IF @ = "partition" THEN @ ELSE "disk",
                                   !.parent = None, !.slaves = {}, !.parts = FALSE,
                                   !.holders = FALSE]]

\* Start subscribes to change events only with their gate
subscribedTypes ==
    {"add", "remove"} \cup IF "ChangeDetection" \in gates THEN {"change"} ELSE {}

\* the event goes to the probe's channel if its type is subscribed to
dispatchEvent(e) == mon' = IF e.action \in subscribedTypes THEN processUdevEvent(e) ELSE None

Monitor ==
    /\ mon = None /\ udevq # <<>>
    /\ dispatchEvent(Head(udevq))
    /\ udevq' = Tail(udevq)
    /\ UNCHANGED <<envVars, hw, bds, stale, hier, sem, scan, lst, left, lost>>

----------------------------------------------------------------------------
\* The scans (Start, Rescan, scan)

\* udev lists a disk before its partitions and the volumes on it
Enumerated == InOrder({d \in Present : hw[d].on = None}) \o InOrder({d \in Present : hw[d].on # None})

ScanBegin(s) ==
    /\ scan[s].pc = "spawned"
    /\ IF sem
       THEN /\ scan' = [scan EXCEPT ![s] = scanIdle]
            /\ lost' = TRUE
            /\ UNCHANGED <<sem, hier>>
       ELSE /\ sem' = TRUE
            /\ scan' = [scan EXCEPT ![s].pc = "list",
                                    ![s].devs = [i \in DOMAIN Enumerated |->
                                       LET b == Details(hw, Enumerated[i]) IN
                                       IF Gpt THEN b ELSE [b EXCEPT !.uuid = GetUid(b)]]]
            /\ hier' = IF scan[s].own THEN <<>> ELSE hier
            /\ UNCHANGED lost
    /\ UNCHANGED <<envVars, hw, bds, stale, udevq, mon, lst, left>>

\* DeactivateStaleBlockDeviceResource: the list; with the GPT gate no device is
\* kept, without it the devices just seen are
ScanList(s) ==
    /\ scan[s].pc = "list"
    /\ \/ /\ scan' = [scan EXCEPT ![s].pc = "deactivate",
                                  ![s].todo = {u \in DOMAIN bds : bds[u].state # "Inactive"} \
                                              {scan[s].devs[i].uuid : i \in DOMAIN scan[s].devs}]
          /\ stale' = [stale EXCEPT ![s] = {}]
          /\ UNCHANGED <<left, lost>>
       \/ /\ Spend("faults") /\ lost' = TRUE
          /\ scan' = [scan EXCEPT ![s].pc = "send"]
          /\ UNCHANGED stale
    /\ UNCHANGED <<envVars, hw, bds, hier, udevq, mon, sem, lst>>

\* the next device of the list, an error is only logged; the conflict of one that is
\* gone leaves it Active until another scan
ScanDeactivate(s) ==
    /\ scan[s].pc = "deactivate" /\ scan[s].todo # {}
    /\ LET u == CHOOSE u \in scan[s].todo : TRUE IN
       /\ scan' = [scan EXCEPT ![s].todo = @ \ {u}]
       /\ IF u \in stale[s]
          THEN /\ lost' = (lost \/ \A d \in Present : hw[d].path # bds[u].path)
               /\ UNCHANGED <<bds, stale, left>>
          ELSE \/ WriteAll(Deactivated(bds, u)) /\ UNCHANGED <<left, lost>>
               \/ Spend("faults") /\ lost' = TRUE /\ UNCHANGED <<bds, stale>>
    /\ UNCHANGED <<envVars, hw, hier, udevq, mon, sem, lst>>

ScanReady(s) ==
    /\ scan[s].pc = "deactivate" /\ scan[s].todo = {}
    /\ scan' = [scan EXCEPT ![s].pc = "send"]
    /\ UNCHANGED <<envVars, hw, bds, stale, hier, udevq, mon, sem, lst, left, lost>>

\* sem.Release, some time after the listener took the message
ScanEnd(s) ==
    /\ scan[s].pc = "sent"
    /\ scan' = [scan EXCEPT ![s] = scanIdle]
    /\ sem' = FALSE
    /\ UNCHANGED <<envVars, hw, bds, stale, hier, udevq, mon, lst, left, lost>>

Scan(s) == ScanBegin(s) \/ ScanList(s) \/ ScanDeactivate(s) \/ ScanReady(s) \/ ScanEnd(s)

\* Rescan of the node API: its controller, and so its hierarchy, is its own
RescanCall ==
    /\ \E s \in Scanner :
         /\ scan[s].pc = "idle"
         /\ scan' = [scan EXCEPT ![s] = [scanIdle EXCEPT !.pc = "spawned", !.own = FALSE]]
    /\ Spend("calls")
    /\ UNCHANGED <<envVars, hw, bds, stale, hier, udevq, mon, sem, lst, lost>>

\* The probes after udev are registered once the first scan is delivered
RegisterProbe ==
    /\ probes < 2 /\ \A s \in Scanner : scan[s].pc \in {"idle", "sent"}
    /\ probes' = probes + 1
    /\ UNCHANGED <<gates, hw, bds, stale, hier, udevq, mon, sem, scan, lst, fd, left, lost>>

----------------------------------------------------------------------------
\* The hardware and the users of the devices

\* a scan has seen the devices and its message has not arrived
Scanning == \E s \in Scanner : scan[s].pc \in {"list", "deactivate", "send"}

Attach(d, p) ==
    /\ ~hw[d].present /\ hw[d].on = None
    /\ \A e \in Present : hw[e].path # p
    /\ hw' = [hw EXCEPT ![d].present = TRUE, ![d].path = p]
    /\ udevq' = Append(udevq, Event(hw', "add", d))

Detach(d) ==
    /\ hw[d].present /\ hw[d].on = None /\ Holders(hw, d) = {}
    /\ LET gone == Children(hw, d) IN
       /\ hw' = [e \in Dev |-> IF e \in gone \cup {d} THEN [hw[e] EXCEPT !.present = FALSE] ELSE hw[e]]
       /\ udevq' = udevq \o Removed(hw, gone) \o <<Event(hw, "remove", d)>>

\* somebody partitions a disk that nobody uses, or removes the partition
Partition(e) ==
    /\ ~hw[e].present /\ hw[e].type = "partition"
    /\ hw[hw[e].on].present /\ hw[hw[e].on].use = "none" /\ ~hw[hw[e].on].fs
    /\ hw' = WithTable(hw[e].on, {e})
    /\ udevq' = udevq \o Announce(hw', hw[e].on, {e})

Unpartition(e) ==
    /\ hw[e].present /\ hw[e].on # None
    /\ hw' = [hw EXCEPT ![e].present = FALSE]
    /\ udevq' = Append(udevq, Event(hw, "remove", e))

Format(d) ==
    /\ hw[d].present /\ Children(hw, d) = {} /\ hw[d].use = "none"
    /\ hw' = [hw EXCEPT ![d].fs = ~@]
    /\ udevq' = Append(udevq, Event(hw', "change", d))

\* a change that only another scan would notice: it comes after the scan has looked,
\* or leaves a disk without its partition or volume, for which there is no event
Unseen ==
    \/ Scanning
    \/ \E d \in Present : ~hw'[d].present /\ hw[d].on # None /\ hw'[hw[d].on].present

\* what becomes of the open disk
FollowFd ==
    fd' = IF fd.d = None THEN fd
          ELSE IF ~hw'[fd.d].present THEN [fd EXCEPT !.d = None]
          ELSE [fd EXCEPT !.late = @ \cup {x \in {"table"} : hw'[fd.d].table /\ ~hw[fd.d].table}
                                    \cup {x \in {"fs"} : /\ fd.at = "checked"
                                                         /\ hw'[fd.d].fs /\ ~hw[fd.d].fs}]

Hardware ==
    /\ Spend("hw")
    /\ \E d \in Dev : \/ \E p \in Path : Attach(d, p)
                      \/ Detach(d) \/ Partition(d) \/ Unpartition(d) \/ Format(d)
    /\ lost' = (lost \/ Unseen) /\ FollowFd
    /\ UNCHANGED <<gates, probes, bds, stale, hier, mon, sem, scan, lst>>

\* the operator binds an Active device to a claim or frees it
Claim ==
    /\ Spend("claims")
    /\ \E u \in DOMAIN bds :
         \/ /\ bds[u].claim = "Unclaimed" /\ bds[u].state = "Active"
            /\ WriteAll([bds EXCEPT ![u].claim = "Claimed"])
         \/ /\ bds[u].claim = "Claimed"
            /\ \A d \in Present : bds[u].on = d => hw[d].use = "none"
            /\ WriteAll([bds EXCEPT ![u].claim = "Unclaimed"])
    /\ UNCHANGED <<envVars, hw, hier, udevq, mon, sem, scan, lst, lost>>

----------------------------------------------------------------------------
Init ==
    \E sit \in Start :
      /\ gates = sit.gates /\ hw = sit.hw /\ bds = sit.bds /\ probes = sit.probes
      /\ stale = [r \in Reader |-> {}]
      /\ hier = <<>> /\ udevq = <<>> /\ mon = None /\ sem = FALSE
      /\ scan = Spawn([s \in Scanner |-> scanIdle])
      /\ lst = lstIdle /\ fd = NoFd
      /\ left = sit.left
      /\ lost = FALSE

\* nothing is left to do until the hardware or a user acts
Quiet ==
    /\ lst.pc = "idle" /\ mon = None /\ udevq = <<>> /\ probes = 2
    /\ \A s \in Scanner : scan[s].pc = "idle"
Rest == Quiet /\ UNCHANGED vars

Daemon == Listener \/ Monitor \/ RegisterProbe \/ \E s \in Scanner : Scan(s)

Next == Daemon \/ RescanCall \/ Hardware \/ Claim \/ Rest

\* as long as a goroutine of the daemon can run, one of them does
Spec == Init /\ [][Next]_vars /\ WF_vars(Daemon)

\* what TLC uses of that fairness, cheaper to evaluate: where the pipeline is not
\* quiet a step of the daemon is possible, so behaviours do not stop there
Steps == []<>Quiet \/ []<><<TRUE>>_vars
StepSpec == Init /\ [][Next]_vars /\ Steps

----------------------------------------------------------------------------
\* TypeOK: the state of the pipeline is well formed; the listener handles
\* devices only while it has a message
TypeOK ==
    /\ lst.pc \in {"idle", "list", "next", "add"}
    /\ \A s \in Scanner : scan[s].pc \in ScanStates /\ scan[s].todo \subseteq DOMAIN bds
    /\ DOMAIN bds \subseteq UUID
    /\ \A u \in DOMAIN bds : /\ bds[u].state \in {"Active", "Inactive", "Unknown"}
                             /\ bds[u].claim \in {"Unclaimed", "Claimed"}
                             /\ bds[u].path \in DevPath
    /\ \A q \in DOMAIN hier : hier[q] \in BlockDevice /\ hier[q].path = q
    /\ DOMAIN lst.list \subseteq DOMAIN bds
    /\ sem \in BOOLEAN /\ probes \in 0..2
    /\ fd.at \in {"closed", "open", "checked"} /\ (fd.at # "closed" => lst.pc = "add")

\* the devices that a BlockDevice should stand for: a device in use, but for
\* Mayastor; a partition of a disk that is not in use, where no device is
\* claimed; a device that can be named, without partitions or holders
Wanted(d) ==
    /\ hw[d].present /\ ~hw[d].excluded /\ hw[d].use # "mayastor"
    /\ hw[d].type = "partition" => /\ Gpt /\ hw[hw[d].on].use = "none"
                                   /\ \A u \in DOMAIN bds : bds[u].claim = "Unclaimed"
    /\ hw[d].use = "none" => /\ generateUUID(Details(hw, d), gates) # None
                             /\ Children(hw, d) = {} /\ Holders(hw, d) = {}

\* PresentIsActive: when the pipeline has come to rest, every device of the node
\* that can be named has an Active BlockDevice with its path, the one that is
\* claimed for it if there is one, whatever events, scans, conflicts and reported
\* failures led there.  It is said only of behaviours in which nothing was lost
PresentIsActive ==
    Quiet /\ ~lost => \A d \in Dev : Wanted(d) =>
        /\ \E u \in DOMAIN bds : bds[u].state = "Active" /\ bds[u].path = hw[d].path
        /\ \A u \in DOMAIN bds : bds[u].claim = "Claimed" /\ bds[u].on = d =>
             bds[u].state = "Active" /\ bds[u].path = hw[d].path

\* ActiveIsPresent: when the pipeline has come to rest and nothing was lost, the path
\* of an Active BlockDevice is the path of a device of the node
ActiveIsPresent ==
    Quiet /\ ~lost => \A u \in DOMAIN bds : bds[u].state = "Active" =>
        \E d \in Present : hw[d].path = bds[u].path

\* ClaimKeepsDisk: the handler of a device never touches the claimed BlockDevice
\* of another disk, also when disks have swapped the paths that the old scheme
\* made their names from
ClaimKeepsDisk ==
    [][AddDevice => \A u \in DOMAIN bds :
          bds[u].claim = "Claimed" /\ bds'[u] # bds[u] => bds[u].on = Head(lst.devs).d]_vars

\* NoOverwrite: NDM looks for a table on the disk it has opened and for a file system by
\* the path, at which disks come and go meanwhile, and then writes.  It writes to the
\* disk it has opened and to no other, and never over a table or a file system that was
\* there when NDM looked for it; what somebody puts on that disk after the look (late)
\* is not seen and is lost
NoOverwrite ==
    [][WriteTable =>
         /\ \A d \in Dev : hw[d].present /\ hw'[d] # hw[d] => fd.d \in {d, hw[d].on} \ {None}
         /\ fd.d # None => /\ hw[fd.d].table => "table" \in fd.late
                           /\ hw[fd.d].fs => "fs" \in fd.late]_vars

\* a disk that NDM can neither name nor partition: it has a table without a
\* partition.  The comment of generateUUID says that NDM rewrites such a table, but
\* CreateSinglePartition and CreatePartitionTable give up on it at every scan
Stuck == \E d \in Present : /\ Gpt /\ hw[d].table /\ Children(hw, d) = {}
                            /\ generateUUID(Details(hw, d), gates) = None

\* ComesToRest: once the hardware, the users and the API server leave it alone,
\* the pipeline handles every event, ends every scan and stops: no message waits
\* for ever and no error is retried for ever.  But for a stuck disk, the one way to
\* go on is that scan after scan empties the hierarchy while the listener is at
\* work on the message of the scan before.
ComesToRest == <>[]Quiet \/ []<>(Scanning /\ lst.pc # "idle") \/ <>[]Stuck

\* NoOverlap: at rest, and with nothing lost, a disk and a partition of it are not both
\* on offer: where there is a partition, addBlockDevice deactivates the BlockDevice of
\* the disk
NoOverlap ==
    Quiet /\ ~lost => \A u, v \in DOMAIN bds :
        ~ /\ bds[u].state = "Active" /\ bds[u].claim = "Unclaimed"
          /\ bds[v].state = "Active" /\ bds[v].claim = "Unclaimed"
          /\ bds[v].path = PartPath(bds[u].path)
=============================================================================
