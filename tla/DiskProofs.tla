----------------------------- MODULE DiskProofs -----------------------------
(***************************************************************************)
(* What the daemon reads of a disk and how it is told to look: the sizes   *)
(* and the partition, the probes in the order of their priorities, the     *)
(* SMART calls and their descriptors, the feature gates.                   *)
(***************************************************************************)
EXTENDS DiskGeometry, DeviceProbes, SmartAccess, FeatureGates, TLAPS

----------------------------------------------------------------------------
\* The recorded capacity and the partition, for disks of every size that the 64-bit
\* arithmetic of the code can hold

\* what the probes have read is true of the disk, and the table is made from it
GeometryInv ==
    /\ disk \in Disks
    /\ seen # Unread => /\ seen.cap \in {0, disk.blocks * disk.lbs}
                        /\ seen.lbs \in {0, 1, disk.lbs}
    /\ table # NoPartition =>
         /\ seen # Unread /\ seen.cap # 0
         /\ LET lbs == IF seen.lbs = 0 THEN 1 ELSE seen.lbs IN
            table = [lbs |-> lbs, start |-> startSector(lbs), end |-> endSector(seen.cap, lbs)]

\* A number below the word size is not changed by the wrap.
LEMMA NoWrap ==
    ASSUME NEW a \in Nat, NEW w \in Nat, a < w
    PROVE  a % w = a
  OBVIOUS

\* Reading the sizes from sysfs and SCSI establishes what is said of them.
LEMMA FillSizesInv ==
    ASSUME GeometryInv, FillSizes
    PROVE  GeometryInv'
<1>1. disk' = disk /\ table' = table /\ seen = Unread
  BY DEF FillSizes
<1>2. table = NoPartition
  BY <1>1 DEF GeometryInv
<1>3. PICK n \in Nat, k \in LBSizes : disk.blocks = n /\ disk.lbs = k /\ 0 < n
  BY DEF GeometryInv, Disks
<1>4. readDeviceCapacity \in {0, disk.blocks * disk.lbs}
  <2>1. CASE disk.scsi10 /\ lastLBA10 # MaxLBA10
    <3>1. lastLBA10 = n - 1
      BY <1>3, <2>1, Zenon DEF lastLBA10
    <3>2. lastLBA10 + 1 = n
      BY <1>3, <3>1
    <3>3. readDeviceCapacity = (lastLBA10 + 1) * disk.lbs
      BY <2>1, Zenon DEF readDeviceCapacity
    <3>4. QED
      BY <1>3, <3>2, <3>3, Zenon
  <2>2. CASE ~disk.scsi10
    BY <2>2, Zenon DEF readDeviceCapacity
  <2>3. CASE disk.scsi10 /\ ~(lastLBA10 # MaxLBA10)
    BY <2>3, Zenon DEF readDeviceCapacity
  <2>4. QED
    BY <2>1, <2>2, <2>3
<1>5. GetCapacityInBytes \in {0, disk.blocks * disk.lbs}
  BY <1>3 DEF GetCapacityInBytes, SectorSize, LBSizes
<1>6. smartLBSize \in {0, 1, disk.lbs} /\ GetLogicalBlockSize \in {0, disk.lbs}
  BY Zenon DEF smartLBSize, getSectorSize, getLBSize, GetLogicalBlockSize
<1>7. /\ seen'.cap \in {0, disk.blocks * disk.lbs}
      /\ seen'.lbs \in {0, 1, disk.lbs}
  BY <1>4, <1>5, <1>6 DEF FillSizes
<1>8. QED
  BY <1>1, <1>2, <1>7 DEF GeometryInv

\* Making the partition keeps what the probes read.
LEMMA CreateSinglePartitionInv ==
    ASSUME GeometryInv, CreateSinglePartition
    PROVE  GeometryInv'
  BY DEF GeometryInv, CreateSinglePartition, startSector, endSector

\* The invariant from which both properties follow.
THEOREM GeometryInvariant == GeometrySpec => []GeometryInv
<1>1. GeometryInit(Disks) => GeometryInv
  BY DEF GeometryInit, GeometryInv
<1>2. GeometryInv /\ [GeometryNext]_geometryVars => GeometryInv'
  <2> SUFFICES ASSUME GeometryInv, [GeometryNext]_geometryVars
               PROVE  GeometryInv'
    OBVIOUS
  <2>1. CASE FillSizes
    BY <2>1, FillSizesInv
  <2>2. CASE CreateSinglePartition
    BY <2>2, CreateSinglePartitionInv
  <2>3. CASE UNCHANGED geometryVars
    BY <2>3 DEF GeometryInv, geometryVars, startSector, endSector
  <2>4. QED
    BY <2>1, <2>2, <2>3 DEF GeometryNext
<1>3. QED
  BY <1>1, <1>2, PTL DEF GeometrySpec

\* The recorded capacity of a disk is exact or unknown, for every size of disk.
THEOREM GeometryCapacity == GeometrySpec => []CapacityExact
<1>1. GeometryInv => CapacityExact
  BY DEF GeometryInv, CapacityExact
<1>2. QED
  BY <1>1, GeometryInvariant, PTL

\* The partition fits between the two copies of the table, on every disk that has
\* room for it.
THEOREM GeometryPartition == GeometrySpec => []PartitionFits
<1>1. ASSUME GeometryInv
      PROVE  PartitionFits
  <2> SUFFICES ASSUME table # NoPartition, disk.blocks * disk.lbs >= 4096, seen.lbs = disk.lbs
               PROVE  /\ table.start * disk.lbs = StartByte
                      /\ table.start >= 2 + EntriesSize \div disk.lbs
                      /\ table.start <= table.end
                      /\ table.end = disk.blocks - 1 - HeaderBlocks - EntriesSize \div disk.lbs
    BY DEF PartitionFits
  <2>1. PICK n \in Nat, k \in LBSizes : disk.blocks = n /\ disk.lbs = k /\ n * 8 < Word
    BY <1>1 DEF GeometryInv, Disks
  <2>2. seen.lbs = k /\ seen.cap = n * k
    BY <1>1, <2>1 DEF GeometryInv, LBSizes
  <2>3. table = [lbs |-> k, start |-> startSector(k), end |-> endSector(n * k, k)]
    BY <1>1, <2>1, <2>2 DEF GeometryInv, LBSizes
  <2>4. (n * k) \div k = n
    BY <2>1 DEF LBSizes
  <2> DEFINE e == n - ((EntriesSize \div k) + HeaderBlocks) - 1
  <2>5. /\ e = n - 1 - HeaderBlocks - EntriesSize \div k
        /\ e \in Nat /\ e < Word /\ startSector(k) <= e
    BY <2>1, GeometryAssumption DEF LBSizes, startSector, StartByte, HeaderBlocks, EntriesSize
  <2>6. endSector(n * k, k) = e
    BY <2>4, <2>5, NoWrap, GeometryAssumption DEF endSector
  <2>7. startSector(k) * k = StartByte /\ startSector(k) >= 2 + EntriesSize \div k
    BY <2>1 DEF LBSizes, startSector, StartByte, EntriesSize
  <2>8. QED
    BY <2>1, <2>3, <2>5, <2>6, <2>7
<1>2. QED
  BY <1>1, GeometryInvariant, PTL

----------------------------------------------------------------------------
\* The probes: no detail one of them found is lost, and the use is told from the mounts
\* the mount probe has read

Value == (SUBSET STRING) \cup {{"zfs"}, {"localpv"}, {"zfs-localpv"}, {"cstor"}, {"mayastor"}}
BDRecord == [path: Value, model: Value, fs: Value, mnt: Value, cap: Value, lbs: Value,
             drive: Value, firmware: Value, partuuid: Value, use: Value, tag: Value]

\* the probes run by priority
ByPriority == \A p \in ran, q \in ListProbe \ ran : Priority[p] <= Priority[q]

\* a detail that the source of a probe that has run knows is filled
CapKnown ==
    \/ bd.cap # {}
    \/ /\ "sysfs" \in ran /\ hw.sysfs => hw.sysCap = {}
       /\ "smart" \in ran => hw.scsi.cap = {}
LbsKnown ==
    \/ bd.lbs # {}
    \/ /\ "sysfs" \in ran /\ hw.sysfs /\ (hw.type = "partition" => hw.parent) => hw.sysLbs = {}
       /\ "smart" \in ran => hw.scsi.lbs = {}
FirmwareKnown ==
    \/ bd.firmware # {}
    \/ /\ "smart" \in ran => hw.scsi.firmware = {}
       /\ "seachest" \in ran /\ hw.seachest => hw.drive.firmware = {}
FsKnown ==
    \/ bd.fs # {}
    \/ /\ "udev" \in ran /\ hw.udev => hw.udevFs = {}
       /\ "blkid" \in ran => hw.diskFs = {}
       /\ "mount" \in ran /\ hw.mountsFile /\ hw.mounts # {} => hw.mountFs = {}

\* the mount points are those of the mounts file once the mount probe has run, and the
\* use is told from them
MountsRead == "mount" \in ran /\ hw.mountsFile => bd.mnt = hw.mounts
UseTold ==
    /\ "usedby" \notin ran => bd.use = entry.use
    /\ "usedby" \in ran /\ "mount" \in ListProbe /\ hw.mountsFile =>
         /\ hw.mounts \cap K8sVolume # {} => bd.use = {"localpv"}
         /\ hw.mounts \cap K8sVolume = {} /\ bd.use = {"localpv"} => entry.use = {"localpv"}

ProbeInv ==
    /\ hw \in HwInput /\ enabled \subseteq Probe /\ ran \subseteq ListProbe /\ ByPriority
    /\ bd \in BDRecord /\ bd.path = hw.path /\ entry \in BDRecord /\ entry.path = hw.path
    /\ hw.path # {} => CapKnown /\ LbsKnown /\ FirmwareKnown /\ FsKnown /\ MountsRead /\ UseTold

\* What the sources say are values a BlockDevice can hold.
LEMMA HwValues ==
    ASSUME hw \in HwInput
    PROVE  /\ hw.path \in Value /\ hw.model \in Value /\ hw.udevFs \in Value
           /\ hw.udevPartuuid \in Value /\ hw.sysCap \in Value /\ hw.sysLbs \in Value
           /\ hw.sysDrive \in Value /\ hw.mounts \in Value
           /\ hw.mountFs \in Value /\ hw.diskFs \in Value /\ hw.diskPartuuid \in Value
           /\ hw.tag \in Value /\ hw.scsi.firmware \in Value /\ hw.scsi.cap \in Value
           /\ hw.scsi.lbs \in Value /\ hw.drive.firmware \in Value /\ hw.drive.lbs \in Value
           /\ hw.drive.type \in Value
<1>1. Detail \subseteq Value /\ SUBSET STRING \subseteq Value
  BY DEF Detail, Value
<1>2. /\ hw.path \in Detail /\ hw.model \in Detail /\ hw.udevFs \in Detail
      /\ hw.udevPartuuid \in Detail /\ hw.sysCap \in Detail /\ hw.sysLbs \in Detail
      /\ hw.sysDrive \in Detail /\ hw.mounts \in SUBSET STRING
      /\ hw.mountFs \in Detail /\ hw.diskFs \in Detail /\ hw.diskPartuuid \in Detail
      /\ hw.tag \in Detail /\ hw.scsi \in [firmware: Detail, cap: Detail, lbs: Detail]
      /\ hw.drive \in [firmware: Detail, lbs: Detail, type: Detail]
  BY DEF HwInput
<1>3. QED
  BY <1>1, <1>2

\* The value set stays, another one is a value too.
LEMMA OrValue ==
    ASSUME NEW old \in Value, NEW new \in Value
    PROVE  /\ Or(old, new) \in Value /\ (Or(old, new) = {} <=> old = {} /\ new = {})
           /\ old # {} => Or(old, new) = old
  BY DEF Or

\* udevProbe sets the file system, and the path to what it was.
LEMMA UdevFills ==
    ASSUME hw \in HwInput, NEW b \in BDRecord, b.path = hw.path, NEW d, d = FillUdev(b)
    PROVE  /\ d \in BDRecord /\ d.path = hw.path /\ d.cap = b.cap /\ d.lbs = b.lbs
           /\ d.firmware = b.firmware /\ d.mnt = b.mnt /\ d.use = b.use
           /\ d.fs = IF hw.udev THEN hw.udevFs ELSE b.fs
  BY HwValues, Zenon DEF FillUdev, BDRecord

\* sysfsProbe overwrites the capacity and fills the block size.
LEMMA SysfsFills ==
    ASSUME hw \in HwInput, NEW b \in BDRecord, NEW d, d = FillSysfs(b)
    PROVE  /\ d \in BDRecord /\ d.path = b.path /\ d.firmware = b.firmware
           /\ d.mnt = b.mnt /\ d.use = b.use /\ d.fs = b.fs
           /\ d.cap = IF hw.sysfs THEN hw.sysCap ELSE b.cap
           /\ d.lbs = {} => /\ b.lbs = {}
                            /\ hw.sysfs /\ (hw.type = "partition" => hw.parent) => hw.sysLbs = {}
<1>1. Or(b.lbs, hw.sysLbs) \in Value /\ Or(b.drive, hw.sysDrive) \in Value
  BY HwValues, OrValue DEF BDRecord
<1>2. Or(b.lbs, hw.sysLbs) = {} => b.lbs = {} /\ hw.sysLbs = {}
  BY DEF Or
<1>3. QED
  BY <1>1, <1>2, HwValues, Zenon DEF FillSysfs, BDRecord

\* smartProbe overwrites the firmware revision and fills capacity and block size.
LEMMA SmartFills ==
    ASSUME hw \in HwInput, NEW b \in BDRecord, b.path # {}, NEW d, d = FillSmart(b)
    PROVE  /\ d \in BDRecord /\ d.path = b.path /\ d.firmware = hw.scsi.firmware
           /\ d.mnt = b.mnt /\ d.use = b.use /\ d.fs = b.fs
           /\ d.cap = {} => b.cap = {} /\ hw.scsi.cap = {}
           /\ d.lbs = {} => b.lbs = {} /\ hw.scsi.lbs = {}
<1>1. Or(b.lbs, hw.scsi.lbs) \in Value /\ Or(b.cap, hw.scsi.cap) \in Value
  BY HwValues, OrValue DEF BDRecord
<1>2. /\ Or(b.lbs, hw.scsi.lbs) = {} => b.lbs = {} /\ hw.scsi.lbs = {}
      /\ Or(b.cap, hw.scsi.cap) = {} => b.cap = {} /\ hw.scsi.cap = {}
  BY DEF Or
<1>3. QED
  BY <1>1, <1>2, HwValues, Zenon DEF FillSmart, BDRecord

\* mountProbe sets the mount points and fills the file system of a mounted device.
LEMMA MountFills ==
    ASSUME hw \in HwInput, NEW b \in BDRecord, b.path # {}, NEW d, d = FillMount(b)
    PROVE  /\ d \in BDRecord /\ d.path = b.path /\ d.firmware = b.firmware
           /\ d.cap = b.cap /\ d.lbs = b.lbs /\ d.use = b.use
           /\ d.mnt = IF hw.mountsFile THEN hw.mounts ELSE b.mnt
           /\ d.fs = {} => b.fs = {} /\ (hw.mountsFile /\ hw.mounts # {} => hw.mountFs = {})
<1>1. Or(b.fs, hw.mountFs) \in Value
  BY HwValues, OrValue DEF BDRecord
<1>2. Or(b.fs, hw.mountFs) = {} => b.fs = {} /\ hw.mountFs = {}
  BY DEF Or
<1>3. {} \in Value
  BY DEF Value
<1>4. QED
  BY <1>1, <1>2, <1>3, HwValues, Zenon DEF FillMount, BDRecord

\* blkidProbe fills the file system.
LEMMA BlkidFills ==
    ASSUME hw \in HwInput, NEW b \in BDRecord, NEW d, d = FillBlkid(b)
    PROVE  /\ d \in BDRecord /\ d.path = b.path /\ d.firmware = b.firmware
           /\ d.cap = b.cap /\ d.lbs = b.lbs /\ d.use = b.use /\ d.mnt = b.mnt
           /\ d.fs = {} => b.fs = {} /\ hw.diskFs = {}
<1>1. Or(b.fs, hw.diskFs) \in Value /\ Or(b.partuuid, hw.diskPartuuid) \in Value
  BY HwValues, OrValue DEF BDRecord
<1>2. Or(b.fs, hw.diskFs) = {} => b.fs = {} /\ hw.diskFs = {}
  BY DEF Or
<1>3. QED
  BY <1>1, <1>2, HwValues, Zenon DEF FillBlkid, BDRecord

\* usedbyProbe tells the use from the mount points first; it sets no file system but zfs.
LEMMA UsedbyFills ==
    ASSUME hw \in HwInput, NEW b \in BDRecord, b.path # {}, NEW d, d = FillUsedby(b)
    PROVE  /\ d \in BDRecord /\ d.path = b.path /\ d.firmware = b.firmware
           /\ d.cap = b.cap /\ d.lbs = b.lbs /\ d.mnt = b.mnt
           /\ d.fs = {} => b.fs = {}
           /\ b.mnt \cap K8sVolume # {} => d.use = {"localpv"}
           /\ b.mnt \cap K8sVolume = {} /\ d.use = {"localpv"} => b.use = {"localpv"}
<1>1. {"zfs"} \in Value /\ {"localpv"} \in Value /\ {"zfs-localpv"} \in Value
      /\ {"cstor"} \in Value /\ {"mayastor"} \in Value
  BY DEF Value
<1>2. CASE b.mnt \cap K8sVolume # {}
  <2>1. d = [b EXCEPT !.use = {"localpv"}]
    BY <1>2 DEF FillUsedby
  <2>2. QED
    BY <1>1, <1>2, <2>1 DEF BDRecord
<1>3. CASE b.mnt \cap K8sVolume = {}
  <2>1. \/ d = [b EXCEPT !.fs = {"zfs"}, !.use = {"zfs-localpv"}]
        \/ d = [b EXCEPT !.fs = {"zfs"}, !.use = {"cstor"}]
        \/ d = [b EXCEPT !.use = {"mayastor"}] \/ d = b
    BY <1>3, Zenon DEF FillUsedby
  <2>2. CASE d = [b EXCEPT !.fs = {"zfs"}, !.use = {"zfs-localpv"}]
    BY <1>1, <1>3, <2>2, Zenon DEF BDRecord
  <2>3. CASE d = [b EXCEPT !.fs = {"zfs"}, !.use = {"cstor"}]
    BY <1>1, <1>3, <2>3, Zenon DEF BDRecord
  <2>4. CASE d = [b EXCEPT !.use = {"mayastor"}]
    BY <1>1, <1>3, <2>4 DEF BDRecord
  <2>5. CASE d = b
    BY <1>3, <2>5
  <2>6. QED
    BY <2>1, <2>2, <2>3, <2>4, <2>5, Zenon
<1>4. QED
  BY <1>2, <1>3

\* seachestProbe fills the firmware revision and the block size.
LEMMA SeachestFills ==
    ASSUME hw \in HwInput, NEW b \in BDRecord, b.path # {}, NEW d, d = FillSeachest(b)
    PROVE  /\ d \in BDRecord /\ d.path = b.path /\ d.fs = b.fs
           /\ d.cap = b.cap /\ d.use = b.use /\ d.mnt = b.mnt
           /\ d.lbs = {} => b.lbs = {}
           /\ d.firmware = {} => b.firmware = {} /\ (hw.seachest => hw.drive.firmware = {})
<1>1. Or(b.firmware, hw.drive.firmware) \in Value /\ Or(b.lbs, hw.drive.lbs) \in Value
      /\ Or(b.drive, hw.drive.type) \in Value
  BY HwValues, OrValue DEF BDRecord
<1>2. /\ Or(b.firmware, hw.drive.firmware) = {} => b.firmware = {} /\ hw.drive.firmware = {}
      /\ Or(b.lbs, hw.drive.lbs) = {} => b.lbs = {}
  BY DEF Or
<1>3. QED
  BY <1>1, <1>2, HwValues, Zenon DEF FillSeachest, BDRecord

\* customTagProbe sets the tag.
LEMMA TagFills ==
    ASSUME hw \in HwInput, NEW b \in BDRecord, NEW d, d = FillTag(b)
    PROVE  /\ d \in BDRecord /\ d.path = b.path /\ d.firmware = b.firmware /\ d.fs = b.fs
           /\ d.cap = b.cap /\ d.lbs = b.lbs /\ d.use = b.use /\ d.mnt = b.mnt
  BY HwValues DEF FillTag, BDRecord

\* The values of the priorities, and what the order of the probes follows from them.
LEMMA Before ==
    ASSUME ProbeInv, NEW p \in Probe, FillStep(p)
    PROVE  /\ p \in ListProbe \ ran /\ p \in DOMAIN Priority
           /\ p = "udev" => "blkid" \notin ran /\ "mount" \notin ran
           /\ p = "sysfs" => "smart" \notin ran
           /\ p = "smart" => "seachest" \notin ran
           /\ p = "usedby" /\ "mount" \in ListProbe => "mount" \in ran
<1>1. /\ Priority["udev"] = 1 /\ Priority["sysfs"] = 2 /\ Priority["smart"] = 3
      /\ Priority["mount"] = 4 /\ Priority["blkid"] = 4 /\ Priority["usedby"] = 5
      /\ Priority["seachest"] = 6
  BY DEF Priority
<1>2. p \in ListProbe \ ran /\ \A q \in ListProbe \ ran : Priority[p] <= Priority[q]
  BY DEF FillStep
<1>3. \A q \in ran : Priority[q] <= Priority[p]
  BY <1>2 DEF ProbeInv, ByPriority
<1>4. QED
  BY <1>1, <1>2, <1>3, ProbeAssumption

\* The order of the probes is kept: the one that runs has the least priority left.
LEMMA OrderKept ==
    ASSUME ProbeInv, NEW p \in Probe, FillStep(p)
    PROVE  /\ UNCHANGED <<hw, enabled, requested, entry>> /\ ran' = ran \cup {p} /\ ByPriority'
           /\ ListProbe' = ListProbe /\ ran' \subseteq ListProbe'
<1>1. UNCHANGED <<hw, enabled, requested, entry>> /\ ran' = ran \cup {p} /\ p \in ListProbe \ ran
      /\ \A q \in ListProbe \ ran : Priority[p] <= Priority[q]
  BY DEF FillStep
<1>2. ListProbe' = ListProbe
  BY <1>1 DEF ListProbe
<1>3. QED
  BY <1>1, <1>2 DEF ProbeInv, ByPriority

\* Without a path the probes that need one change nothing.
LEMMA NoPath ==
    ASSUME ProbeInv, NEW p \in Probe, FillStep(p), hw.path = {}
    PROVE  bd' \in BDRecord /\ bd'.path = hw.path
<1>1. bd' = Fill(p, bd) /\ p \in DOMAIN Priority /\ hw \in HwInput /\ bd \in BDRecord
      /\ bd.path = hw.path
  BY Before DEF FillStep, ProbeInv
<1>2. p \in {"udev", "sysfs", "smart", "mount", "blkid", "usedby", "seachest", "tag"}
  BY <1>1 DEF Priority
<1>3. CASE p \in {"smart", "mount", "usedby", "seachest"}
  <2>1. bd' = bd
    BY <1>1, <1>3 DEF Fill, FillSmart, FillMount, FillUsedby, FillSeachest
  <2>2. QED
    BY <1>1, <2>1
<1>4. CASE p = "udev"
  <2>1. bd' = FillUdev(bd)
    BY <1>1, <1>4 DEF Fill
  <2>2. QED
    BY <1>1, <2>1, UdevFills
<1>5. CASE p = "sysfs"
  <2>1. bd' = FillSysfs(bd)
    BY <1>1, <1>5 DEF Fill
  <2>2. QED
    BY <1>1, <2>1, SysfsFills
<1>6. CASE p = "blkid"
  <2>1. bd' = FillBlkid(bd)
    BY <1>1, <1>6 DEF Fill
  <2>2. QED
    BY <1>1, <2>1, BlkidFills
<1>7. CASE p = "tag"
  <2>1. bd' = FillTag(bd)
    BY <1>1, <1>7 DEF Fill
  <2>2. QED
    BY <1>1, <2>1, TagFills
<1>8. QED
  BY <1>2, <1>3, <1>4, <1>5, <1>6, <1>7

\* Every probe keeps what the ones before it in the same event found; a change event
\* starts over with what the cache has.
LEMMA ProbeStep == ProbeInv /\ [ProbeNext(HwInput)]_probeVars => ProbeInv'
<1> SUFFICES ASSUME ProbeInv, [ProbeNext(HwInput)]_probeVars PROVE ProbeInv'
  OBVIOUS
<1>1. CASE UNCHANGED probeVars
  BY <1>1 DEF probeVars, ProbeInv, ByPriority, ListProbe, CapKnown, LbsKnown, FirmwareKnown, FsKnown,
              MountsRead, UseTold
<1>2. ASSUME NEW p \in Probe, FillStep(p)
      PROVE  ProbeInv'
  <2>1. /\ UNCHANGED <<hw, enabled, requested, entry>> /\ ran' = ran \cup {p} /\ ByPriority'
        /\ ListProbe' = ListProbe /\ ran' \subseteq ListProbe' /\ hw' \in HwInput
        /\ enabled' \subseteq Probe /\ entry' \in BDRecord /\ entry'.path = hw'.path
    BY <1>2, OrderKept DEF ProbeInv
  <2>2. CASE hw.path = {}
    <3>1. bd' \in BDRecord /\ bd'.path = hw.path
      BY <1>2, <2>2, NoPath
    <3>2. QED
      BY <2>1, <2>2, <3>1 DEF ProbeInv
  <2>3. CASE hw.path # {}
    <3> DEFINE Kept == /\ bd' \in BDRecord /\ bd'.path = hw.path
                       /\ CapKnown' /\ LbsKnown' /\ FirmwareKnown' /\ FsKnown'
                       /\ MountsRead' /\ UseTold'
    <3>1. /\ bd' = Fill(p, bd) /\ p \in ListProbe \ ran /\ hw \in HwInput /\ bd \in BDRecord
          /\ bd.path = hw.path /\ bd.path # {}
          /\ CapKnown /\ LbsKnown /\ FirmwareKnown /\ FsKnown /\ MountsRead /\ UseTold
      BY <1>2, <2>3 DEF FillStep, ProbeInv
    <3>2. p \in {"udev", "sysfs", "smart", "mount", "blkid", "usedby", "seachest", "tag"}
      BY <1>2, Before DEF Priority
    <3>3. /\ p = "udev" => "blkid" \notin ran /\ "mount" \notin ran
          /\ p = "sysfs" => "smart" \notin ran
          /\ p = "smart" => "seachest" \notin ran
          /\ p = "usedby" /\ "mount" \in ListProbe => "mount" \in ran
      BY <1>2, Before
    <3>4. ASSUME p = "udev"
          PROVE  Kept
      <4>1. bd' = FillUdev(bd)
        BY <3>1, <3>4 DEF Fill
      <4>2. QED
        BY <2>1, <3>1, <3>3, <3>4, <4>1, UdevFills
           DEF CapKnown, LbsKnown, FirmwareKnown, FsKnown, MountsRead, UseTold
    <3>5. ASSUME p = "sysfs"
          PROVE  Kept
      <4>1. bd' = FillSysfs(bd)
        BY <3>1, <3>5 DEF Fill
      <4>2. QED
        BY <2>1, <3>1, <3>3, <3>5, <4>1, SysfsFills
           DEF CapKnown, LbsKnown, FirmwareKnown, FsKnown, MountsRead, UseTold
    <3>6. ASSUME p = "smart"
          PROVE  Kept
      <4>1. bd' = FillSmart(bd)
        BY <3>1, <3>6 DEF Fill
      <4>2. QED
        BY <2>1, <3>1, <3>3, <3>6, <4>1, SmartFills
           DEF CapKnown, LbsKnown, FirmwareKnown, FsKnown, MountsRead, UseTold
    <3>7. ASSUME p = "mount"
          PROVE  Kept
      <4>1. bd' = FillMount(bd)
        BY <3>1, <3>7 DEF Fill
      <4>2. QED
        BY <2>1, <3>1, <3>3, <3>7, <4>1, MountFills
           DEF CapKnown, LbsKnown, FirmwareKnown, FsKnown, MountsRead, UseTold
    <3>8. ASSUME p = "blkid"
          PROVE  Kept
      <4>1. bd' = FillBlkid(bd)
        BY <3>1, <3>8 DEF Fill
      <4>2. QED
        BY <2>1, <3>1, <3>3, <3>8, <4>1, BlkidFills
           DEF CapKnown, LbsKnown, FirmwareKnown, FsKnown, MountsRead, UseTold
    <3>9. ASSUME p = "usedby"
          PROVE  Kept
      <4>0. bd.use = entry.use
        BY <3>1, <3>9 DEF UseTold
      <4>1. bd' = FillUsedby(bd)
        BY <3>1, <3>9 DEF Fill
      <4>2. QED
        BY <2>1, <3>1, <3>3, <3>9, <4>0, <4>1, UsedbyFills
           DEF CapKnown, LbsKnown, FirmwareKnown, FsKnown, MountsRead, UseTold
    <3>10. ASSUME p = "seachest"
          PROVE  Kept
      <4>1. bd' = FillSeachest(bd)
        BY <3>1, <3>10 DEF Fill
      <4>2. QED
        BY <2>1, <3>1, <3>3, <3>10, <4>1, SeachestFills
           DEF CapKnown, LbsKnown, FirmwareKnown, FsKnown, MountsRead, UseTold
    <3>11. ASSUME p = "tag"
          PROVE  Kept
      <4>1. bd' = FillTag(bd)
        BY <3>1, <3>11 DEF Fill
      <4>2. QED
        BY <2>1, <3>1, <3>3, <3>11, <4>1, TagFills
           DEF CapKnown, LbsKnown, FirmwareKnown, FsKnown, MountsRead, UseTold
    <3> HIDE DEF Kept
    <3>12. Kept
      BY <3>2, <3>4, <3>5, <3>6, <3>7, <3>8, <3>9, <3>10, <3>11
    <3>13. QED
      BY <2>1, <2>3, <3>12 DEF ProbeInv, Kept
  <2>4. QED
    BY <2>2, <2>3
<1>3. ASSUME NEW h \in HwInput, NEW wanted \in ChangeRequests, NEW identified \in BOOLEAN,
             ChangeEvent(h, wanted, identified)
      PROVE  ProbeInv'
  <2>1. hw' = h /\ hw'.path = hw.path /\ ran' = {} /\ UNCHANGED enabled
        /\ bd' = [entry' EXCEPT !.tag = {}]
    BY <1>3 DEF ChangeEvent
  <2>2. entry' \in BDRecord /\ entry'.path = hw.path
    BY <1>3 DEF ChangeEvent, CacheEntry, ProbeInv
  <2>3. bd' \in BDRecord /\ bd'.path = hw.path /\ bd'.use = entry'.use
    BY <2>1, <2>2 DEF BDRecord, Value
  <2>4. QED
    BY <2>1, <2>2, <2>3 DEF ProbeInv, ByPriority, CapKnown, LbsKnown, FirmwareKnown, FsKnown,
                            MountsRead, UseTold
<1>4. QED
  BY <1>1, <1>2, <1>3 DEF ProbeNext

\* A new BlockDevice has nothing a probe has filled.
LEMMA ProbeStart == ProbeInit(HwInput, SUBSET Probe) => ProbeInv
<1> SUFFICES ASSUME ProbeInit(HwInput, SUBSET Probe) PROVE ProbeInv
  OBVIOUS
<1>1. hw \in HwInput /\ enabled \in SUBSET Probe /\ ran = {} /\ bd = NewBlockDevice(hw)
      /\ entry = bd
  BY DEF ProbeInit
<1>2. {} \in Value
  BY DEF Value
<1>3. bd \in BDRecord /\ bd.path = hw.path /\ bd.use = {}
  BY <1>1, <1>2, HwValues DEF NewBlockDevice, BDRecord
<1>4. QED
  BY <1>1, <1>3 DEF ProbeInv, ByPriority, CapKnown, LbsKnown, FirmwareKnown, FsKnown,
                    MountsRead, UseTold

\* Once the probes of an event have run the details of every source are there.
LEMMA ProbeInvDetails == ProbeInv => DetailsFromAnySource
<1> SUFFICES ASSUME ProbeInv, Filled, hw.path # {}, NEW s \in Sources,
                    s[2] \in ListProbe, s[3] # {}
             PROVE  bd[s[1]] # {}
  BY DEF DetailsFromAnySource
<1>1. ran = ListProbe /\ CapKnown /\ LbsKnown /\ FirmwareKnown /\ FsKnown
  BY DEF ProbeInv, Filled
<1>2. CASE s = <<"cap", "sysfs", Said(hw.sysfs, hw.sysCap)>> \/ s = <<"cap", "smart", hw.scsi.cap>>
  BY <1>1, <1>2 DEF CapKnown, Said
<1>3. CASE s = <<"lbs", "sysfs", Said(hw.sysfs /\ (hw.type = "partition" => hw.parent), hw.sysLbs)>>
           \/ s = <<"lbs", "smart", hw.scsi.lbs>>
  BY <1>1, <1>3 DEF LbsKnown, Said
<1>4. CASE s = <<"firmware", "smart", hw.scsi.firmware>>
           \/ s = <<"firmware", "seachest", Said(hw.seachest, hw.drive.firmware)>>
  BY <1>1, <1>4 DEF FirmwareKnown, Said
<1>5. CASE s = <<"fs", "udev", Said(hw.udev, hw.udevFs)>> \/ s = <<"fs", "blkid", hw.diskFs>>
           \/ s = <<"fs", "mount", Said(hw.mountsFile /\ hw.mounts # {}, hw.mountFs)>>
  BY <1>1, <1>5 DEF FsKnown, Said
<1>6. QED
  BY <1>2, <1>3, <1>4, <1>5, Zenon DEF Sources

\* A detail that the source of some probe of an event knows is filled once the probes
\* of that event have run (DetailsFromAnySource), for every device, every answer of the
\* sources, every set of enabled probes and every sequence of events on the device.
THEOREM ProbeDetails == ProbeSpec => []DetailsFromAnySource
  BY ProbeStart, ProbeStep, ProbeInvDetails, PTL DEF ProbeSpec

\* The use is told from the mount points the mount probe has read (UsedByRight), for
\* every device and whatever the events before made of it.
THEOREM ProbeUse == ProbeSpec => []UsedByRight
<1>1. ProbeInv => UsedByRight
  BY DEF ProbeInv, Filled, UsedByRight, UseTold
<1>2. QED
  BY <1>1, ProbeStart, ProbeStep, PTL DEF ProbeSpec

----------------------------------------------------------------------------
\* The SMART calls: every descriptor is closed, and what is asked for is filled in

SmartCommand == {"identify", "inquiry", "capacity", "lbs", "none"}

\* the commands of a call that are still to be sent: an end of getBasicDiskInfo, or one
Todos == {<<>>, <<"identify", "inquiry", "capacity">>, <<"inquiry", "capacity">>,
          <<"inquiry", "capacity", "lbs">>, <<"capacity", "lbs">>}
         \cup {<<c>> : c \in SmartCommand}

\* what they fill in when all of them are answered
Left(todo) == UNION {Fills(todo[i]) : i \in DOMAIN todo}
Wanted == IF asked.attr = "all" THEN ScsiInqAttr \cup {"capacity", "lbs"} ELSE {asked.attr}

\* The descriptor of the call is open between Open and Close, and it is the only one of
\* a call that is not blind.  While no command failed, the rest of them would fill in
\* what is asked for, unless the device has no such detail.
AskedState == [n: Nat, at: {"idle", "open", "detect", "query"},
               attr: Attribute \cup {"all", ""}, ata: BOOLEAN, todo: Todos]
SmartInv ==
    /\ asked \in AskedState
    /\ open \ (IF asked.at \in {"detect", "query"} THEN {asked.n} ELSE {}) \subseteq blind
    /\ asked.at # "idle" => asked.attr # ""
    /\ asked.at = "query" /\ failed = {} =>
         asked.todo = <<"none">> \/ Wanted \subseteq info \cup Left(asked.todo)
    /\ asked.at = "idle" /\ asked.n > 0 /\ failed = {} => Wanted \subseteq info

\* The commands for what is asked fill it in.
LEMMA CommandsSuffice ==
    ASSUME NEW ata \in BOOLEAN
    PROVE  /\ getBasicDiskInfo(ata) \in Todos
           /\ ScsiInqAttr \cup {"capacity", "lbs"} \subseteq Left(getBasicDiskInfo(ata))
           /\ \A a \in Attribute : LET c == getBasicDiskInfoByAttr(ata, a) IN
                <<c>> \in Todos /\ (c # "none" => a \in Left(<<c>>))
<1>1. getBasicDiskInfo(ata) \in Todos
  BY DEF getBasicDiskInfo, Todos
<1>2. ScsiInqAttr \cup {"capacity", "lbs"} \subseteq Left(getBasicDiskInfo(ata))
  <2>1. CASE ata
    <3>1. getBasicDiskInfo(ata) = <<"identify", "inquiry", "capacity">>
      BY <2>1 DEF getBasicDiskInfo
    <3>2. QED
      BY <3>1 DEF Left, Fills, ScsiInqAttr
  <2>2. CASE ~ata
    <3>1. getBasicDiskInfo(ata) = <<"inquiry", "capacity", "lbs">>
      BY <2>2 DEF getBasicDiskInfo
    <3>2. QED
      BY <3>1 DEF Left, Fills, ScsiInqAttr
  <2>3. QED
    BY <2>1, <2>2
<1>3. ASSUME NEW a \in Attribute
      PROVE  LET c == getBasicDiskInfoByAttr(ata, a) IN
                <<c>> \in Todos /\ (c # "none" => a \in Left(<<c>>))
  <2> DEFINE c == getBasicDiskInfoByAttr(ata, a)
  <2>1. c \in SmartCommand /\ (c # "none" => a \in Fills(c))
    BY DEF getBasicDiskInfoByAttr, SmartCommand, Fills, Attribute, ScsiInqAttr, SimpleSCSIAttr,
           ATACSAttr
  <2> HIDE DEF c
  <2>2. Left(<<c>>) = Fills(c)
    BY DEF Left
  <2>3. QED
    BY <2>1, <2>2 DEF Todos, c
<1>4. QED
  BY <1>1, <1>2, <1>3

\* The first command and the rest fill in what all of them do.
LEMMA CommandSplits ==
    ASSUME NEW t \in Todos, t # <<>>
    PROVE  /\ Tail(t) \in Todos /\ Tail(t) # <<"none">>
           /\ Left(t) = Fills(Head(t)) \cup Left(Tail(t))
<1> USE DEF Left
<1>1. CASE t = <<"identify", "inquiry", "capacity">>
  BY <1>1 DEF Todos
<1>2. CASE t = <<"inquiry", "capacity", "lbs">>
  BY <1>2 DEF Todos
<1>3. CASE t = <<"inquiry", "capacity">>
  BY <1>3 DEF Todos, SmartCommand
<1>4. CASE t = <<"capacity", "lbs">>
  BY <1>4 DEF Todos, SmartCommand
<1>5. ASSUME NEW c \in SmartCommand, t = <<c>>
      PROVE  /\ Tail(t) \in Todos /\ Tail(t) # <<"none">>
             /\ Left(t) = Fills(Head(t)) \cup Left(Tail(t))
  BY <1>5 DEF Todos
<1>6. QED
  BY <1>1, <1>2, <1>3, <1>4, <1>5, Zenon DEF Todos

\* Every step keeps the invariant: a call opens one descriptor and closes it on each way
\* out, and every command takes what it fills in off the rest.
LEMMA SmartStep == SmartInv /\ [SmartNext]_smartVars => SmartInv'
<1> SUFFICES ASSUME SmartInv, [SmartNext]_smartVars PROVE SmartInv'
  OBVIOUS
<1>0. asked \in AskedState /\ <<>> \in Todos
  BY DEF SmartInv, Todos
<1>n. asked.n \in Nat
  BY <1>0, Zenon DEF AskedState
<1>m. asked.n + 1 \in Nat
  BY <1>n
<1>1. ASSUME NEW attr \in Attribute \cup {"all", ""}, NEW ata \in BOOLEAN, AskDisk(attr, ata)
      PROVE  SmartInv'
  <2>1. asked.at = "idle" /\ UNCHANGED <<open, blind>> /\ asked.n + 1 \in Nat
    BY <1>1, <1>m DEF AskDisk
  <2>2. CASE asked' = [n |-> asked.n + 1, at |-> "open", attr |-> attr, ata |-> ata, todo |-> <<>>]
               /\ attr # ""
    BY <1>0, <2>1, <2>2 DEF AskedState, SmartInv
  <2>3. CASE asked' = [NoCall(asked.n + 1) EXCEPT !.attr = attr] /\ failed' = {"conditions"}
    <3> DEFINE c == NoCall(asked.n + 1)
    <3>1. c \in AskedState /\ c.at = "idle"
      BY <1>0, <2>1 DEF NoCall, AskedState
    <3> HIDE DEF c
    <3>2. asked' \in AskedState /\ asked'.at = "idle"
      BY <2>3, <3>1 DEF AskedState, c
    <3>3. QED
      BY <2>1, <2>3, <3>2 DEF SmartInv
  <2>4. QED
    BY <1>1, <2>2, <2>3 DEF AskDisk
<1>2. CASE Open
  <2>1. asked' \in AskedState /\ asked'.attr = asked.attr /\ asked'.n = asked.n
    BY <1>0, <1>2 DEF Open, Return, AskedState
  <2>2. \/ asked'.at = "detect" /\ open' = open \cup {asked.n} /\ blind' = blind
        \/ asked'.at = "idle" /\ failed' # {} /\ open' = open /\ blind \subseteq blind'
    BY <1>0, <1>2 DEF Open, Return, AskedState
  <2>3. asked.at = "open"
    BY <1>2 DEF Open
  <2>4. QED
    BY <2>1, <2>2, <2>3 DEF SmartInv
<1>3. CASE Detect
  <2> DEFINE cs == IF asked.attr = "all" THEN getBasicDiskInfo(asked.ata)
                   ELSE <<getBasicDiskInfoByAttr(asked.ata, asked.attr)>>
  <2>1. asked.at = "detect" /\ asked.attr \in Attribute \cup {"all"} /\ asked.ata \in BOOLEAN
    BY <1>0, <1>3 DEF Detect, SmartInv, AskedState
  <2>2. cs \in Todos /\ (cs = <<"none">> \/ Wanted \subseteq Left(cs))
    BY <2>1, CommandsSuffice DEF Wanted
  <2>3. \/ asked' = [asked EXCEPT !.at = "query", !.todo = cs] /\ UNCHANGED <<failed, blind>>
        \/ Return /\ failed' # {} /\ blind' = blind \cup {asked.n}
    BY <1>3 DEF Detect
  <2>4. UNCHANGED <<open, info>>
    BY <1>3 DEF Detect
  <2> HIDE DEF cs
  <2>5. CASE asked' = [asked EXCEPT !.at = "query", !.todo = cs] /\ UNCHANGED <<failed, blind>>
    <3>1. asked' \in AskedState
      BY <1>0, <2>2, <2>5 DEF AskedState
    <3>2. /\ asked'.attr = asked.attr /\ asked'.n = asked.n /\ asked'.at = "query"
          /\ asked'.todo = cs
      BY <1>0, <2>5 DEF AskedState
    <3>3. QED
      BY <2>1, <2>2, <2>4, <2>5, <3>1, <3>2 DEF SmartInv, Wanted
  <2>6. CASE Return /\ failed' # {} /\ blind' = blind \cup {asked.n}
    <3>1. asked' \in AskedState /\ asked'.attr = asked.attr /\ asked'.n = asked.n /\ asked'.at = "idle"
      BY <1>0, <2>6 DEF AskedState, Return
    <3>2. QED
      BY <2>1, <2>4, <2>6, <3>1 DEF SmartInv
  <2>7. QED
    BY <2>3, <2>5, <2>6
<1>4. CASE Command
  <2>1. /\ asked.at = "query" /\ asked.todo \in Todos /\ asked.todo # <<>>
        /\ asked' = [asked EXCEPT !.todo = Tail(@)] /\ UNCHANGED <<open, blind>>
    BY <1>0, <1>4 DEF Command, AskedState
  <2>2. /\ Tail(asked.todo) \in Todos
        /\ Left(asked.todo) = Fills(Head(asked.todo)) \cup Left(Tail(asked.todo))
    BY <2>1, CommandSplits
  <2>3. /\ asked' \in AskedState /\ asked'.attr = asked.attr /\ asked'.n = asked.n
        /\ asked'.at = "query" /\ asked'.todo = Tail(asked.todo)
    BY <1>0, <2>1, <2>2 DEF AskedState
  <2>4. CASE failed' = {}
    <3>1. Head(asked.todo) # "none" /\ info' = info \cup Fills(Head(asked.todo)) /\ failed = {}
      BY <1>4, <2>4 DEF Command
    <3>2. asked.todo # <<"none">>
      BY <3>1
    <3>3. Wanted' \subseteq info' \cup Left(asked'.todo)
      BY <2>1, <2>2, <2>3, <3>1, <3>2 DEF SmartInv, Wanted
    <3>4. QED
      BY <2>1, <2>3, <3>3 DEF SmartInv
  <2>5. CASE failed' # {}
    BY <2>1, <2>3, <2>5 DEF SmartInv
  <2>6. QED
    BY <2>4, <2>5
<1>5. CASE Close
  <2>1. /\ asked' \in AskedState /\ asked'.attr = asked.attr /\ asked'.n = asked.n
        /\ asked'.at = "idle"
    BY <1>0, <1>5 DEF Close, Return, AskedState
  <2>2. asked.at = "query" /\ asked.todo = <<>> /\ open' = open \ {asked.n}
        /\ UNCHANGED <<info, failed, blind>>
    BY <1>5 DEF Close
  <2>3. Left(asked.todo) = {} /\ asked.todo # <<"none">>
    BY <2>2 DEF Left
  <2>4. QED
    BY <2>1, <2>2, <2>3 DEF SmartInv, Wanted
<1>6. CASE UNCHANGED smartVars
  BY <1>6 DEF smartVars, SmartInv, Wanted
<1>7. QED
  BY <1>1, <1>2, <1>3, <1>4, <1>5, <1>6 DEF SmartNext

\* Between two calls the only descriptors still open are those of calls whose type
\* detection failed, and a call without an error has filled in what was asked for.
THEOREM SmartDescriptors == SmartSpec => []DescriptorsClosed
<1>1. SmartInit => SmartInv
  BY DEF SmartInit, SmartInv, NoCall, Todos, Wanted, AskedState
<1>2. SmartInv => DescriptorsClosed
  BY DEF SmartInv, DescriptorsClosed, Wanted
<1>3. QED
  BY <1>1, <1>2, SmartStep, PTL DEF SmartSpec

----------------------------------------------------------------------------
\* The feature gates: the flags in their order, then the dependencies

\* v is what the first n flags ask of a feature: the last one that names it, or the
\* default
AskedUpTo(f, n, v) ==
    \/ (\A i \in 1..n : args[i].name # f) /\ v = defaultFeatureGates[f]
    \/ \E i \in 1..n : /\ args[i].name = f /\ v = (args[i].form = "plain" \/ args[i].on)
                       /\ \A j \in 1..n : args[j].name = f => j <= i

Right(f) == Asked(f) /\ \A d \in featureDependencies(f) : Asked(d)

\* While the flags are set the gates are what the flags so far ask for.  While the map
\* is validated a feature that has its turn before it is as asked, after it is right,
\* and what is memoized is right.
GateInv ==
    /\ args \in Seq(GateArg) /\ argAt \in 0..Len(args) /\ gates \in [Feature -> BOOLEAN]
    /\ unchecked \in SUBSET Feature /\ memoized \in SUBSET (Feature \X BOOLEAN)
    /\ gateState = "parsing" =>
         /\ unchecked = Feature /\ memoized = {}
         /\ \A f \in Feature : AskedUpTo(f, argAt, gates[f])
    /\ gateState \in {"validating", "set"} =>
         /\ \A f \in Feature : gates[f] <=> IF f \in unchecked THEN Asked(f) ELSE Right(f)
         /\ \A f \in Feature, v \in BOOLEAN : <<f, v>> \in memoized =>
              (v <=> Right(f)) /\ (f \in unchecked => featureDependencies(f) = {})
    /\ gateState = "set" => unchecked = {}

\* The last flag of the whole command line is what is asked.
LEMMA AskedAtEnd ==
    ASSUME NEW f \in Feature, NEW v \in BOOLEAN, args \in Seq(GateArg), AskedUpTo(f, Len(args), v)
    PROVE  v <=> Asked(f)
<1>1. DOMAIN args = 1..Len(args) /\ Len(args) \in Nat
  OBVIOUS
<1> DEFINE at == {i \in DOMAIN args : args[i].name = f}
<1>2. CASE at = {}
  BY <1>1, <1>2 DEF AskedUpTo, Asked
<1>3. CASE at # {}
  <2>1. PICK i \in at : v = (args[i].form = "plain" \/ args[i].on) /\ \A j \in at : j <= i
    BY <1>1, <1>3 DEF AskedUpTo
  <2>2. (CHOOSE k \in at : \A j \in at : j <= k) = i
    <3>1. \A k \in at : (\A j \in at : j <= k) => k = i
      BY <1>1, <2>1
    <3>2. QED
      BY <2>1, <3>1
  <2>3. QED
    BY <1>3, <2>1, <2>2, Zenon DEF Asked
<1>4. QED
  BY <1>2, <1>3

\* Asked is a Boolean, and the dependencies have no dependencies of their own.
LEMMA DependencyFacts ==
    /\ \A f \in Feature : featureDependencies(f) \in SUBSET Feature
    /\ \A f \in Feature : \A d \in featureDependencies(f) : featureDependencies(d) = {}
  BY DEF featureDependencies, Feature

\* Every step keeps the invariant: a flag in its turn (SetFeatureFlag), and a feature in
\* its turn (ValidateFeatureGates) with the dependencies memoized before.
LEMMA GateStep == GateInv /\ [GateNext]_gateVars => GateInv'
<1> SUFFICES ASSUME GateInv, [GateNext]_gateVars PROVE GateInv'
  OBVIOUS
<1>1. CASE ParseArg
  <2>1. Len(args) \in Nat /\ args[argAt + 1] \in GateArg /\ UNCHANGED <<args, memoized>>
        /\ gateState = "parsing" /\ argAt < Len(args)
    BY <1>1 DEF GateInv, ParseArg
  <2> DEFINE a == args[argAt + 1]
  <2>2. CASE a.form = "malformed" \/ a.name \notin Feature
    BY <1>1, <2>1, <2>2 DEF GateInv, ParseArg
  <2>3. CASE ~(a.form = "malformed" \/ a.name \notin Feature)
    <3> DEFINE v == (a.form = "plain" \/ a.on)
    <3>1. /\ gates' = [gates EXCEPT ![a.name] = v] /\ argAt' = argAt + 1
          /\ UNCHANGED <<unchecked, gateState>> /\ v \in BOOLEAN
      BY <1>1, <2>1, <2>3, Zenon DEF ParseArg, SetFlag
    <3>2. ASSUME NEW f \in Feature
          PROVE  AskedUpTo(f, argAt, gates[f])' 
      <4>1. AskedUpTo(f, argAt, gates[f]) /\ argAt \in Nat
        BY <2>1 DEF GateInv
      <4>2. CASE f = a.name
        <5>1. gates'[f] = v
          BY <3>1, <4>2 DEF GateInv
        <5>2. argAt + 1 \in 1..(argAt + 1) /\ \A j \in 1..(argAt + 1) : j <= argAt + 1
          BY <4>1
        <5>3. QED
          BY <2>1, <3>1, <4>2, <5>1, <5>2 DEF AskedUpTo
      <4>3. CASE f # a.name
        <5>1. gates'[f] = gates[f]
          BY <3>1, <4>3 DEF GateInv
        <5>2. \A j \in 1..(argAt + 1) : j \in 1..argAt \/ j = argAt + 1
          BY <4>1
        <5>3. QED
          BY <2>1, <3>1, <4>1, <4>3, <5>1, <5>2 DEF AskedUpTo
      <4>4. QED
        BY <4>2, <4>3
    <3>3. gates' \in [Feature -> BOOLEAN]
      BY <2>3, <3>1 DEF GateInv
    <3>4. argAt' \in 0..Len(args)
      BY <2>1, <3>1 DEF GateInv
    <3> HIDE DEF v, a
    <3>5. QED
      BY <2>1, <3>1, <3>2, <3>3, <3>4 DEF GateInv
  <2>4. QED
    BY <2>2, <2>3
<1>2. CASE EndParsing
  <2>1. \A f \in Feature : gates[f] <=> Asked(f)
    BY <1>2, AskedAtEnd DEF GateInv, EndParsing
  <2>2. \A f \in Feature : Asked(f)' <=> Asked(f)
    BY <1>2 DEF EndParsing, Asked
  <2>3. QED
    BY <1>2, <2>1, <2>2 DEF GateInv, EndParsing
<1>3. ASSUME NEW f \in Feature, ValidateOne(f)
      PROVE  GateInv'
  <2>1. /\ gateState = "validating" /\ f \in unchecked /\ unchecked' = unchecked \ {f}
        /\ UNCHANGED <<args, argAt, gateState>>
        /\ gates' = ValidateDependencies(f, gates, memoized).g
        /\ memoized' = ValidateDependencies(f, gates, memoized).m
    BY <1>3 DEF ValidateOne
  <2>2. /\ \A e \in Feature : gates[e] <=> IF e \in unchecked THEN Asked(e) ELSE Right(e)
        /\ \A e \in Feature, v \in BOOLEAN : <<e, v>> \in memoized =>
              (v <=> Right(e)) /\ (e \in unchecked => featureDependencies(e) = {})
        /\ gates \in [Feature -> BOOLEAN] /\ memoized \in SUBSET (Feature \X BOOLEAN)
    BY <2>1 DEF GateInv
  <2>3. \A e \in Feature : (Asked(e)' <=> Asked(e)) /\ (Right(e)' <=> Right(e))
    BY <2>1, SMTT(20) DEF Asked, Right
  <2>4. gates[f] <=> Asked(f)
    BY <2>1, <2>2
  <2>5. CASE Memo(f, memoized) # {} \/ ~gates[f]
    <3>1. gates' = gates /\ memoized' = memoized
      BY <2>1, <2>5, Zenon DEF ValidateDependencies
    <3>2. gates[f] <=> Right(f)
      BY <2>1, <2>2, <2>4, <2>5, Zenon DEF Memo, Right
    <3>3. QED
      BY <2>1, <2>2, <2>3, <3>1, <3>2, Zenon DEF GateInv
  <2>6. CASE ~(Memo(f, memoized) # {} \/ ~gates[f])
    <3> DEFINE met == \A d \in featureDependencies(f) : Valid(d, gates, memoized)
               m2 == memoized \cup UNION {ValidateLeaf(d, gates, memoized) :
                                            d \in featureDependencies(f)}
    <3>1. gates' = [gates EXCEPT ![f] = met] /\ memoized' = m2 \cup {<<f, met>>}
      BY <2>1, <2>6 DEF ValidateDependencies
    <3>2. ASSUME NEW d \in featureDependencies(f)
          PROVE  /\ d \in Feature /\ d # f /\ (Right(d) <=> Asked(d)) /\ (gates[d] <=> Asked(d))
                 /\ Valid(d, gates, memoized) <=> Asked(d)
                 /\ \A x \in ValidateLeaf(d, gates, memoized) :
                      x \in memoized \/ (x = <<d, TRUE>> /\ Right(d))
      <4>1. d \in Feature /\ featureDependencies(d) = {} /\ d # f
        BY DependencyFacts
      <4>2. (Right(d) <=> Asked(d)) /\ (gates[d] <=> Asked(d)) /\ gates[d] \in BOOLEAN
        BY <2>2, <4>1 DEF Right
      <4>3. Valid(d, gates, memoized) <=> Asked(d)
        BY <2>2, <4>1, <4>2, Zenon DEF Valid, Memo
      <4>4. QED
        BY <4>1, <4>2, <4>3, Zenon DEF ValidateLeaf
    <3>3. (met <=> Right(f)) /\ met \in BOOLEAN
      BY <2>4, <2>6, <3>2, Zenon DEF Right
    <3>4. \A x \in memoized' : \/ x \in memoized \/ x = <<f, met>>
                               \/ \E d \in featureDependencies(f) : x = <<d, TRUE>> /\ Right(d)
      BY <3>1, <3>2, Zenon
    <3> HIDE DEF met, m2
    <3>5. memoized' \in SUBSET (Feature \X BOOLEAN)
      <4>1. <<f, met>> \in Feature \X BOOLEAN
        BY <3>3
      <4>2. \A d \in featureDependencies(f) : <<d, TRUE>> \in Feature \X BOOLEAN
        BY <3>2, Zenon
      <4> DEFINE Pairs == Feature \X BOOLEAN
      <4>3. memoized \subseteq Pairs
        BY <2>2
      <4> HIDE DEF Pairs
      <4>4. \A x \in memoized' : x \in Pairs
        BY <3>4, <4>1, <4>2, <4>3, Zenon DEF Pairs
      <4>5. QED
        BY <4>4 DEF Pairs
    <3>6. ASSUME NEW e \in Feature, NEW v \in BOOLEAN, <<e, v>> \in memoized'
          PROVE  (v <=> Right(e)) /\ (e \in unchecked' => featureDependencies(e) = {})
      <4>1. CASE <<e, v>> \in memoized
        BY <2>1, <2>2, <4>1
      <4>2. CASE <<e, v>> = <<f, met>>
        BY <2>1, <3>3, <4>2
      <4>3. ASSUME NEW d \in featureDependencies(f), <<e, v>> = <<d, TRUE>>, Right(d)
            PROVE  (v <=> Right(e)) /\ featureDependencies(e) = {}
        BY <4>3, DependencyFacts
      <4>4. QED
        BY <3>4, <3>6, <4>1, <4>2, <4>3, Zenon
    <3>7. ASSUME NEW e \in Feature
          PROVE  gates'[e] <=> IF e \in unchecked' THEN Asked(e) ELSE Right(e)
      BY <2>1, <2>2, <3>1, <3>3
    <3>8. gates' \in [Feature -> BOOLEAN]
      BY <2>2, <3>1, <3>3
    <3>9. QED
      BY <2>1, <2>3, <3>5, <3>6, <3>7, <3>8, Zenon DEF GateInv
  <2>7. QED
    BY <2>5, <2>6
<1>4. CASE EndValidating
  <2>1. \A f \in Feature : (Asked(f)' <=> Asked(f)) /\ (Right(f)' <=> Right(f))
    BY <1>4 DEF EndValidating, Asked, Right
  <2>2. QED
    BY <1>4, <2>1 DEF EndValidating, GateInv
<1>5. CASE UNCHANGED gateVars
  <2>1. \A f \in Feature : (Asked(f)' <=> Asked(f)) /\ (Right(f)' <=> Right(f))
    BY <1>5 DEF gateVars, Asked, Right
  <2>2. \A f \in Feature : AskedUpTo(f, argAt, gates[f])' = AskedUpTo(f, argAt, gates[f])
    BY <1>5 DEF gateVars, AskedUpTo
  <2>3. QED
    BY <1>5, <2>1, <2>2 DEF gateVars, GateInv
<1>6. QED
  BY <1>1, <1>2, <1>3, <1>4, <1>5 DEF GateNext

\* Whatever the order of the flags and of the map, a feature is on in the end exactly
\* if it was asked for and each feature it depends on was.
THEOREM GatesAreRight == GateSpec => []GatesRight
<1>1. GateInit(Seq(GateArg)) => GateInv
  BY DEF GateInit, GateInv, AskedUpTo, defaultFeatureGates
<1>2. GateInv => GatesRight
  BY DEF GateInv, GatesRight, Right
<1>3. QED
  BY <1>1, <1>2, GateStep, PTL DEF GateSpec
=============================================================================
