---------------------------- MODULE DiskGeometry ----------------------------
(***************************************************************************)
(* The sizes NDM reads of a disk (pkg/smart, pkg/sysfs, in the order of    *)
(* the sysfs and smart probes) and the partition it makes from them        *)
(* (pkg/partition).  The unit of size is 512 bytes.                        *)
(***************************************************************************)
EXTENDS Integers

CONSTANTS
    MaxLBA10,   \* 0xffffffff: what READ CAPACITY (10) answers when a disk is larger
    Word        \* 2^64, in the same scale

ASSUME GeometryAssumption ==
    MaxLBA10 \in Nat /\ Word \in Nat /\ MaxLBA10 > 0 /\ Word > 8 * MaxLBA10

LBSizes == {1, 8}      \* 512 and 4096 bytes
SectorSize == 1
EntriesSize == 32      \* BytesRequiredForGPTPartitionEntries
StartByte == 2048      \* GPTPartitionStartByte
HeaderBlocks == 1      \* NoOfLogicalBlocksForGPTHeader
Unread == [cap |-> -1, lbs |-> -1]
NoPartition == [lbs |-> 0, start |-> 0, end |-> 0]

VARIABLES
    disk,    \* the disk: its number of logical blocks, their size, whether it is an ATA
             \* disk, which reads work, whether a table or a file system is on it
    seen,    \* capacity and logical block size as the probes fill them; 0 is unknown
    table    \* the partition made: first and last logical block

geometryVars == <<disk, seen, table>>

----------------------------------------------------------------------------
\* A variant that takes the answer of READ CAPACITY (10) as it comes
capacity10 ==
    IF ~disk.scsi10 THEN 0
    ELSE ((IF disk.blocks - 1 < MaxLBA10 THEN disk.blocks - 1 ELSE MaxLBA10) + 1) * disk.lbs

\* readDeviceCapacity: READ CAPACITY (10), and (16) when the last block address does
\* not fit; 0 stands for an error.  lastLBA10 is what the disk answers.
lastLBA10 == IF disk.blocks - 1 < MaxLBA10 THEN disk.blocks - 1 ELSE MaxLBA10
readDeviceCapacity ==
    CASE ~disk.scsi10 -> 0
      [] disk.scsi10 /\ lastLBA10 # MaxLBA10 -> (lastLBA10 + 1) * disk.lbs
      [] OTHER -> IF disk.scsi16 THEN disk.blocks * disk.lbs ELSE 0

\* getLBSize: from READ CAPACITY (10) as well
getLBSize == IF disk.scsi10 THEN disk.lbs ELSE 0

\* an ATA disk gives it in its IDENTIFY page instead, of which getSectorSize does not
\* read the length of a logical sector: the answer is 512 bytes for every disk
getSectorSize == 1
smartLBSize ==
    IF disk.ata THEN (IF disk.identify THEN getSectorSize ELSE 0) ELSE getLBSize

\* GetCapacityInBytes: the size file counts sectors of 512 bytes whatever the block size
GetCapacityInBytes == IF disk.sysSize THEN disk.blocks * disk.lbs * SectorSize ELSE 0
GetLogicalBlockSize == IF disk.sysLbs THEN disk.lbs ELSE 0

\* the sysfs probe, then the smart probe, which fills what is still 0
FillSizes ==
    /\ seen = Unread
    /\ seen' = [cap |-> IF GetCapacityInBytes # 0 THEN GetCapacityInBytes ELSE readDeviceCapacity,
                lbs |-> IF GetLogicalBlockSize # 0 THEN GetLogicalBlockSize ELSE smartLBSize]
    /\ UNCHANGED <<disk, table>>

\* A variant that does not leave room for the backup of the header
endBeforeEntries(cap, lbs) == ((cap \div lbs) - (EntriesSize \div lbs) - 1) % Word

\* addPartition: 64-bit unsigned arithmetic on logical blocks
startSector(lbs) == StartByte \div lbs
endSector(cap, lbs) ==
    ((cap \div lbs) - ((EntriesSize \div lbs) + HeaderBlocks) - 1) % Word

\* CreateSinglePartition: refused on a disk with a table or a file system, and by
\* createPartitionTable for size 0; an unknown block size counts as 512
CreateSinglePartition ==
    /\ seen # Unread /\ table = NoPartition
    /\ ~disk.used /\ seen.cap # 0
    /\ LET lbs == IF seen.lbs = 0 THEN 1 ELSE seen.lbs IN
       table' = [lbs |-> lbs, start |-> startSector(lbs), end |-> endSector(seen.cap, lbs)]
    /\ UNCHANGED <<disk, seen>>

GeometryInit(disks) ==
    disk \in disks /\ seen = Unread /\ table = NoPartition
GeometryNext == FillSizes \/ CreateSinglePartition

Disks == [blocks: {n \in Nat : 0 < n /\ n * 8 < Word}, lbs: LBSizes, sysSize: BOOLEAN,
          sysLbs: BOOLEAN, scsi10: BOOLEAN, scsi16: BOOLEAN, ata: BOOLEAN,
          identify: BOOLEAN, used: BOOLEAN]
GeometrySpec == GeometryInit(Disks) /\ [][GeometryNext]_geometryVars

----------------------------------------------------------------------------
\* CapacityExact: the capacity recorded for a disk is its real one or unknown,
\* whichever of the three ways it is read: also at the size where the 32-bit block
\* address of the first SCSI command no longer suffices.
CapacityExact == seen # Unread => seen.cap \in {0, disk.blocks * disk.lbs}

\* PartitionFits: on a disk of at least 2 MiB whose block size is read right (sysfs
\* answers, or the disk is not an ATA disk with larger blocks) the partition lies
\* between the two copies of the partition table (a header block and its entries,
\* after the protective MBR and at the end), starts at 1 MiB, and uses everything up
\* to the second one.
PartitionFits ==
    table # NoPartition /\ disk.blocks * disk.lbs >= 4096 /\ seen.lbs = disk.lbs =>
      /\ table.start * disk.lbs = StartByte
      /\ table.start >= 2 + EntriesSize \div disk.lbs
      /\ table.start <= table.end
      /\ table.end = disk.blocks - 1 - HeaderBlocks - EntriesSize \div disk.lbs
=============================================================================
