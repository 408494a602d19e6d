--------------------------- MODULE DeviceIdentity ---------------------------
(***************************************************************************)
(* What the daemon knows of a device of its node (blockdevice.BlockDevice) *)
(* and the names it gives to it (cmd/ndm_daemonset/probe/uuid.go).         *)
(*                                                                         *)
(* A name is the MD5 hash of a few fields; it is kept here as the fields   *)
(* themselves under the rule that chose them, as the hash is taken to be   *)
(* injective.  The entry UUID and the DM UUID of a device are its own (the *)
(* device d); udev gives a partition the WWN, the serial and the table     *)
(* UUID of its disk (the fields disk and pt).                              *)
(***************************************************************************)
EXTENDS Naturals, Sequences, FiniteSets, TLC

CONSTANTS
    Dev,   \* the devices a node may have: disks, partitions, volumes
    Path,  \* the names /dev/sdX the kernel gives to disks
    None

DeviceMapperDeviceTypes == {"lvm", "crypt", "mpath", "dm"}
DeviceType == {"disk", "partition", "loop"} \cup DeviceMapperDeviceTypes
StorageEngine == {"none", "mayastor", "zfs", "cstor", "localpv", "jiva"}

\* the /dev name of the first partition of the disk at p
PartPath(p) == <<p, 1>>
DevPath == Path \cup {PartPath(p) : p \in Path}

\* the rule that chose the fields of a name, and the fields
UUID == ({"wwn", "serial", "dm", "entry", "fs", "pt"} \X Dev)
        \cup ({"path", "localpath"} \X DevPath)

\* blockdevice.BlockDevice, with the fields the handlers look at: wwn, fs and pt
\* are the identifiers (WWN and serial, file system UUID, table UUID), fstype and
\* table whether a file system and a table are reported, local that the legacy
\* name takes the path (no ID_TYPE, or the model of a virtual disk)
BlockDevice ==
    [d: Dev, disk: Dev, path: DevPath, type: DeviceType, uuid: UUID \cup {None},
     wwn: BOOLEAN, local: BOOLEAN, fs: Dev \cup {None}, pt: Dev \cup {None},
     fstype: BOOLEAN, table: BOOLEAN, parent: DevPath \cup {None},
     slaves: SUBSET DevPath, parts: BOOLEAN, holders: BOOLEAN, use: StorageEngine]

\* generateUUID: None when the device cannot be told from others
generateUUID(b, gates) ==
    IF b.type = "loop" THEN <<"path", b.path>>
    ELSE IF b.type \in DeviceMapperDeviceTypes THEN <<"dm", b.d>>
    ELSE IF b.type = "partition" THEN <<"entry", b.d>>
    ELSE IF b.wwn THEN <<"wwn", b.disk>>
    ELSE IF b.fs # None THEN <<"fs", b.fs>>
    ELSE IF "PartitionTableUUID" \in gates /\ b.table /\ b.pt # None THEN <<"pt", b.pt>>
    ELSE None

\* generateLegacyUUID
generateLegacyUUID(b) == IF b.local THEN <<"localpath", b.path>> ELSE <<"serial", b.disk>>

\* UdevDevice.GetUid: the same name, from the properties of an event or of a scan
GetUid(b) == generateLegacyUUID(b)

\* generateUUIDFromPartitionTable, used for ZFS
generateUUIDFromPartitionTable(b) == IF b.pt # None THEN <<"pt", b.pt>> ELSE None

\* getExistingBDWithFsUuid and getExistingBDWithPartitionUUID: the resources of
\* list that carry the identifier of b in their annotation
getExistingBDWithFsUuid(b, list) ==
    {u \in DOMAIN list : b.fs # None /\ list[u].fsuuid = b.fs}
getExistingBDWithPartitionUUID(b, list) ==
    {u \in DOMAIN list : b.pt # None /\ list[u].ptuuid = b.pt}
=============================================================================
