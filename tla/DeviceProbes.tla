---------------------------- MODULE DeviceProbes ----------------------------
(***************************************************************************)
(* Controller.FillBlockDeviceDetails: the enabled probes that an event     *)
(* asks for fill a BlockDevice one after another, in the order of their    *)
(* priorities.  The device of an add event is new, that of a change event  *)
(* a copy of the one in the hierarchy cache.  hw is what the sources the   *)
(* probes read say of the device.  A detail is a set: of one value, or     *)
(* empty when it is not known or not filled yet.                           *)
(***************************************************************************)
EXTENDS Naturals, FiniteSets

CONSTANTS
    K8sVolume,     \* mount points in a directory of Kubernetes local volumes
    Probe          \* names of the probes

VARIABLES
    hw,         \* what the sources say, see HwInput
    enabled,    \* the probes whose State is true
    event,      \* "add" or "change"
    requested,  \* EventMessage.RequestedProbes, none for all of them
    ran,        \* the probes that have run
    bd,         \* the BlockDevice being filled
    entry       \* what it was when the event began: of a change, the cache's entry

probeVars == <<hw, enabled, event, requested, ran, bd, entry>>

----------------------------------------------------------------------------
\* Variants in which a probe runs before one whose result it needs, or overwrites
UsedByFirst == [udev |-> 1, sysfs |-> 2, smart |-> 3, mount |-> 5, blkid |-> 5,
                usedby |-> 4, seachest |-> 6, tag |-> 7]
SmartFirst == [udev |-> 1, sysfs |-> 3, smart |-> 2, mount |-> 4, blkid |-> 4,
               usedby |-> 5, seachest |-> 6, tag |-> 7]

\* the priorities the probes register with; mount and blkid share one, and sort.Sort
\* leaves such a pair in any order
Priority == [udev |-> 1, sysfs |-> 2, smart |-> 3, mount |-> 4, blkid |-> 4,
             usedby |-> 5, seachest |-> 6, tag |-> 7]
ASSUME ProbeAssumption == Probe \subseteq DOMAIN Priority

\* a value that is set stays, another is taken from the source
Or(old, new) == IF old = {} THEN new ELSE old

\* udevProbe: nothing is filled when udev does not know the device
FillUdev(b) ==
    IF ~hw.udev THEN b
    ELSE [b EXCEPT !.path = hw.path, !.model = hw.model, !.fs = hw.udevFs]

\* sysfsProbe: the capacity is overwritten, with 0 when it cannot be read; a partition
\* takes the block size and the drive type of its parent, if it has one
FillSysfs(b) ==
    IF ~hw.sysfs THEN b
    ELSE LET sized == [b EXCEPT !.cap = hw.sysCap] IN
         IF hw.type = "partition" /\ ~hw.parent THEN sized
         ELSE [sized EXCEPT !.lbs = Or(b.lbs, hw.sysLbs), !.drive = Or(b.drive, hw.sysDrive)]

\* smartProbe: the firmware revision is overwritten, what is 0 is filled
FillSmart(b) ==
    IF b.path = {} THEN b
    ELSE [b EXCEPT !.firmware = hw.scsi.firmware, !.cap = Or(b.cap, hw.scsi.cap),
                   !.lbs = Or(b.lbs, hw.scsi.lbs)]

\* mountProbe: clears the mount points of a device that is not mounted; when the
\* mounts file cannot be read nothing changes
FillMount(b) ==
    IF b.path = {} \/ ~hw.mountsFile THEN b
    ELSE IF hw.mounts = {} THEN [b EXCEPT !.mnt = {}]
    ELSE [b EXCEPT !.mnt = hw.mounts, !.fs = Or(b.fs, hw.mountFs)]

FillBlkid(b) == [b EXCEPT !.fs = Or(b.fs, hw.diskFs), !.partuuid = Or(b.partuuid, hw.diskPartuuid)]

\* usedbyProbe: local PV first, then zfs on the device or on its data partition
\* (getBlockDeviceZFSPartition), held by the kernel or not (an error counts as not),
\* then the SPDK signature
FillUsedby(b) ==
    LET zfs == IF hw.type = "partition" THEN hw.diskFs = {"zfs"}
               ELSE hw.zfsParts /\ hw.dataFs = {"zfs"} IN
    CASE b.path = {} -> b
      [] b.path # {} /\ b.mnt \cap K8sVolume # {} -> [b EXCEPT !.use = {"localpv"}]
      [] b.path # {} /\ b.mnt \cap K8sVolume = {} /\ zfs ->
           [b EXCEPT !.fs = {"zfs"},
                     !.use = {IF hw.busy THEN "zfs-localpv" ELSE "cstor"}]
      [] OTHER -> IF hw.spdk THEN [b EXCEPT !.use = {"mayastor"}] ELSE b

\* seachestProbe: nothing when the drive gives no information
FillSeachest(b) ==
    IF b.path = {} \/ ~hw.seachest THEN b
    ELSE [b EXCEPT !.firmware = Or(b.firmware, hw.drive.firmware),
                   !.lbs = Or(b.lbs, hw.drive.lbs), !.drive = Or(b.drive, hw.drive.type)]

\* customTagProbe: the tag of the last pattern that matches the path
FillTag(b) == [b EXCEPT !.tag = hw.tag]

Fill(p, b) == CASE p = "udev" -> FillUdev(b) [] p = "sysfs" -> FillSysfs(b)
                [] p = "smart" -> FillSmart(b) [] p = "mount" -> FillMount(b)
                [] p = "blkid" -> FillBlkid(b) [] p = "usedby" -> FillUsedby(b)
                [] p = "seachest" -> FillSeachest(b) [] p = "tag" -> FillTag(b)

\* ListProbe: the enabled probes, of a message that names some only those
ListProbe == {p \in enabled : requested = {} \/ p \in requested}

\* one turn of the loop over ListProbe, sorted when the probes are added
FillStep(p) ==
    /\ p \in ListProbe \ ran
    /\ \A q \in ListProbe \ ran : Priority[p] <= Priority[q]
    /\ bd' = Fill(p, bd)
    /\ ran' = ran \cup {p}
    /\ UNCHANGED <<hw, enabled, event, requested, entry>>
Filled == ran = ListProbe

\* the device of an add event: what the event says, everything else empty
NewBlockDevice(h) ==
    [path |-> h.path, model |-> {}, fs |-> {}, mnt |-> {}, cap |-> {}, lbs |-> {},
     drive |-> {}, firmware |-> {}, partuuid |-> h.udevPartuuid, use |-> {}, tag |-> {}]

\* what an event leaves in the hierarchy cache: a new device as it was filled, a changed
\* one only when it can be identified and its size, file system or mount points differ
CacheEntry(identified) ==
    IF \/ event = "add"
       \/ identified /\ <<bd.cap, bd.fs, bd.mnt>> # <<entry.cap, entry.fs, entry.mnt>>
    THEN bd ELSE entry

\* a later change event for the device: of udev (its probe and sysfs), of the mount
\* table (the mount probe) or for all devices when that table cannot be read (every
\* probe).  The sources may have changed; the labels are emptied, nothing else is.
ChangeRequests == {{"udev", "sysfs"}, {"mount"}, {}}
ChangeEvent(h, asked, identified) ==
    /\ Filled /\ hw.path # {}
    /\ h.path = hw.path /\ h.type = hw.type /\ asked \in ChangeRequests
    /\ entry' = CacheEntry(identified)
    /\ bd' = [entry' EXCEPT !.tag = {}]
    /\ hw' = h /\ event' = "change" /\ requested' = asked /\ ran' = {}
    /\ UNCHANGED enabled

ProbeInit(inputs, on) ==
    /\ hw \in inputs /\ enabled \in on /\ event = "add" /\ requested = {} /\ ran = {}
    /\ bd = NewBlockDevice(hw) /\ entry = NewBlockDevice(hw)
ProbeNext(inputs) ==
    \/ \E p \in Probe : FillStep(p)
    \/ \E h \in inputs, asked \in ChangeRequests, identified \in BOOLEAN :
         ChangeEvent(h, asked, identified)

\* every device, whatever its sources say, and every configuration
Detail == {{}} \cup {{v} : v \in STRING}
HwInput ==
    [udev: BOOLEAN, path: Detail, model: Detail, udevFs: Detail, udevPartuuid: Detail,
     sysfs: BOOLEAN, sysCap: Detail, sysLbs: Detail, sysDrive: Detail,
     type: STRING, parent: BOOLEAN, scsi: [firmware: Detail, cap: Detail, lbs: Detail],
     mountsFile: BOOLEAN, mounts: SUBSET STRING, mountFs: Detail,
     diskFs: Detail, diskPartuuid: Detail, zfsParts: BOOLEAN, dataFs: Detail,
     busy: BOOLEAN, spdk: BOOLEAN, seachest: BOOLEAN,
     drive: [firmware: Detail, lbs: Detail, type: Detail], tag: Detail]
ProbeSpec == ProbeInit(HwInput, SUBSET Probe) /\ [][ProbeNext(HwInput)]_probeVars

----------------------------------------------------------------------------
\* who fills a detail: the probe, and what its source says, nothing if it does not answer
Said(answers, v) == IF answers THEN v ELSE {}
Sources ==
    LET whole == hw.sysfs /\ (hw.type = "partition" => hw.parent) IN
    { <<"cap", "sysfs", Said(hw.sysfs, hw.sysCap)>>, <<"cap", "smart", hw.scsi.cap>>,
      <<"lbs", "sysfs", Said(whole, hw.sysLbs)>>, <<"lbs", "smart", hw.scsi.lbs>>,
      <<"firmware", "smart", hw.scsi.firmware>>,
      <<"firmware", "seachest", Said(hw.seachest, hw.drive.firmware)>>,
      <<"fs", "udev", Said(hw.udev, hw.udevFs)>>, <<"fs", "blkid", hw.diskFs>>,
      <<"fs", "mount", Said(hw.mountsFile /\ hw.mounts # {}, hw.mountFs)>> }

\* DetailsFromAnySource: once the probes of an event have run, a detail that the source
\* of some probe of that event knows is filled: none of them erases what another one
\* found, in either order of the two that share a priority, for a new device and for
\* one out of the cache.  Of what only a probe that the event did not ask for knows
\* nothing is said: a change event of udev sets the file system to what udev says,
\* nothing included, and does not run blkid again.  The size and the drive type of a
\* partition come from its parent, so nothing is said of one without it.
DetailsFromAnySource ==
    Filled /\ hw.path # {} =>
      \A s \in Sources : s[2] \in ListProbe /\ s[3] # {} => bd[s[1]] # {}

\* UsedByRight: once the mount and the used-by probe have both run, a device that
\* Kubernetes has mounted as a local volume is never taken for a pool or for free, also
\* when it was one before; and one that is not mounted there is taken for a local
\* volume only if the cache had it as one already: the use is never taken back.
UsedByRight ==
    Filled /\ {"mount", "usedby"} \subseteq ListProbe /\ hw.path # {} /\ hw.mountsFile =>
      IF hw.mounts \cap K8sVolume # {} THEN bd.use = {"localpv"}
      ELSE bd.use = {"localpv"} => entry.use = {"localpv"}
=============================================================================
