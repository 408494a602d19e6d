--------------------------- MODULE DeviceFilters ----------------------------
(***************************************************************************)
(* Which block devices of a node NDM looks at, and how it reads their      *)
(* family from sysfs: the parent and the partitions of a device            *)
(* (pkg/sysfs), the disk behind a mount point (pkg/mount/mountutil), and   *)
(* the os-disk, path, vendor and validity filters of the daemon.           *)
(*                                                                         *)
(* A name is a sequence of short strings, digits apart, so that what the   *)
(* code matches in a name is visible: sda10 is <<"sd", "a", "1", "0">>.    *)
(***************************************************************************)
EXTENDS Naturals, Sequences

CONSTANTS
    MountPoint,   \* mountPoints of the os-disk filter
    Token         \* the pieces of which names are made

Digit == {"0", "1", "2", "3", "4", "5", "6", "7", "8", "9"}
DeviceMapperDeviceTypes == {"dm", "lvm", "crypt", "mpath"}
\* filepath.Base of a path, and strings.HasPrefix of names and of paths
Base(path) == path[Len(path)]
HasPrefix(s, t) == Len(t) <= Len(s) /\ SubSeq(s, 1, Len(t)) = t
EndsInDigit(name) == name # <<>> /\ name[Len(name)] \in Digit

ASSUME TokenAssumption == Digit \cup {"p"} \subseteq Token

VARIABLES
    os,                \* the node: its disks and their sysfs paths, the lines of the
                       \* host's and the container's mounts files that name a /dev
                       \* device, the root device of the command line, the gate and
                       \* the configured lists; actual and shown say which device is
                       \* mounted at a mount point, and in which file a line has it
    excludeDevPaths,   \* of the os-disk filter; NotStarted before Start
    verdict            \* what ApplyFilter says of each device of the node

filterVars == <<os, excludeDevPaths, verdict>>
NotStarted == {<<"not started">>}

----------------------------------------------------------------------------
\* The node: a disk is [name, kind, parts, odd], parts the numbers of its partitions
NameOfPart(name, n) == name \o (IF EndsInDigit(name) THEN <<"p">> ELSE <<>>) \o n
PartName(disk, n) == NameOfPart(disk.name, n)
DiskPath(disk) ==
    IF disk.kind = "nvme" THEN << <<"devices">>, <<"nvme">>, <<"nvme", "0">>, disk.name >>
    ELSE IF disk.kind = "nvme-subsystem"
    THEN << <<"devices">>, <<"nvme-subsystem">>, <<"nvme-subsys", "0">>, disk.name >>
    ELSE << <<"devices">>, <<"block">>, disk.name >>
PathsOf(disk) == {DiskPath(disk)} \cup
                 {Append(DiskPath(disk), PartName(disk, n)) : n \in disk.parts}
PathsOfAll(disks) == UNION {PathsOf(disk) : disk \in disks}
SysPaths == os.paths   \* PathsOfAll(os.disks)
DiskOf(path) == CHOOSE disk \in os.disks : path \in PathsOf(disk)

----------------------------------------------------------------------------
\* position of the first component that is one of names, 0 for none
Earliest(at) == CHOOSE i \in at : \A j \in at : i <= j
Position(path, names) ==
    LET at == {i \in DOMAIN path : path[i] \in names} IN
    IF at = {} THEN 0 ELSE Earliest(at)

\* A variant that reads the controller of an NVMe device for its namespace
diskAfterInstance(path) ==
    LET b == Position(path, { <<"block">> })
        n == Position(path, { <<"nvme">>, <<"nvme-subsystem">> }) IN
    IF b # 0 /\ Len(path) > b THEN {path[b + 1]}
    ELSE IF n # 0 /\ Len(path) > n + 1 THEN {path[n + 1]} ELSE {}

\* getParentBlockDevice of mountutil: the name after "block", or two after "nvme";
\* the empty set stands for "not ok"
getParentBlockDevice(path) ==
    LET b == Position(path, { <<"block">> })
        n == Position(path, { <<"nvme">>, <<"nvme-subsystem">> }) IN
    IF b # 0 /\ Len(path) > b THEN {path[b + 1]}
    ELSE IF n # 0 /\ Len(path) > n + 1 THEN {path[n + 2]} ELSE {}

\* Device.getParent of sysfs: the same search, which does not return the device itself
getParent(path) ==
    LET b == Position(path, { <<"block">> })
        n == Position(path, { <<"nvme">>, <<"nvme-subsystem">> })
        at == IF b # 0 THEN b + 1 ELSE n + 2 IN
    IF b + n = 0 \/ Len(path) < at THEN {} ELSE {path[at]} \ {Base(path)}

\* Device.getPartitions: the entries of the directory that start with its name
getPartitions(path) ==
    {Base(p) : p \in {q \in SysPaths : /\ Len(q) = Len(path) + 1 /\ HasPrefix(q, path)
                                       /\ HasPrefix(Base(q), Base(path))}}

----------------------------------------------------------------------------
\* what /sys/class/block/<name> points to: nothing, a device, or the directory itself
EvalSymlinks(name) ==
    IF name = <<>> THEN { << <<"class">>, <<"block">> >> }
    ELSE {p \in SysPaths : Base(p) = name}

\* getDeviceName: a mapper name is resolved, and is empty when that fails
getDeviceName(line) ==
    IF line.mapper /\ EvalSymlinks(line.dev) = {} THEN <<>> ELSE line.dev

\* getDeviceMountAttr with getPartitionName: the first device mounted there that has
\* a name (mergeDeviceMountAttrs keeps it); the empty set when no line matches
getDeviceMountAttr(file, mp) ==
    LET hits == {i \in DOMAIN file : file[i].at = mp}
        named == {i \in hits : getDeviceName(file[i]) # <<>>} IN
    IF hits = {} THEN {}
    ELSE IF named = {} THEN {<<>>} ELSE {getDeviceName(file[Earliest(named)])}

\* getSoftLinkForPartition: "root" that is not a device is looked up in /proc/cmdline
\* (getRootPartition), which may not tell
getSoftLinkForPartition(name) ==
    IF name = <<"root">> /\ EvalSymlinks(name) = {} THEN os.cmdline ELSE {name}

\* getPartitionDevPath: the device itself under the UseOSDisk gate, else its disk
getPartitionDevPath(name) ==
    UNION {IF os.useOSDisk THEN {Base(link)} ELSE getParentBlockDevice(link) :
             link \in UNION {EvalSymlinks(n) : n \in getSoftLinkForPartition(name)}}

GetDiskPath(file, mp) ==
    UNION {getPartitionDevPath(name) : name \in getDeviceMountAttr(file, mp)}

\* oSDiskExcludeFilter.Start: the host's mounts first, then the container's own
FilterStart ==
    /\ excludeDevPaths = NotStarted
    /\ excludeDevPaths' =
         UNION {LET host == GetDiskPath(os.host, mp) IN
                IF host # {} THEN host ELSE GetDiskPath(os.self, mp) : mp \in MountPoint}
    /\ UNCHANGED <<os, verdict>>

----------------------------------------------------------------------------
\* the partition regexps of Exclude, "^path(p[0-9]+)?$" and "^path[0-9]*$"
Rest(path, name) == SubSeq(name, Len(path) + 1, Len(name))
AllDigits(s) == \A i \in DOMAIN s : s[i] \in Digit
MatchP(path, name) ==
    /\ HasPrefix(name, path)
    /\ LET r == Rest(path, name) IN
       r = <<>> \/ (Len(r) > 1 /\ r[1] = "p" /\ AllDigits(Tail(r)))
MatchDigits(path, name) == HasPrefix(name, path) /\ AllDigits(Rest(path, name))

\* A variant that knows only names such as sda1
osExcludeDigits(name) == ~\E path \in excludeDevPaths : MatchDigits(path, name)

\* oSDiskExcludeFilter.Exclude; FALSE drops the device
osExclude(name) ==
    ~\E path \in excludeDevPaths :
        IF EndsInDigit(path) THEN MatchP(path, name) ELSE MatchDigits(path, name)

\* MatchIgnoredCase: a key is a part of the path
MatchIgnoredCase(keys, name) == \E k \in keys : \E i \in 0..(Len(name) - Len(k)) :
                                   SubSeq(name, i + 1, i + Len(k)) = k

\* the vendors a device may have, if any: the one of the volumes of OpenEBS, and another
Vendors == {"OpenEBS", "Other"}

\* a device as the probes fill it: its path, device mapper path, type, vendor, ...
Device(path) ==
    LET disk == DiskOf(path) IN
    [name |-> Base(path), vendor |-> IF disk.odd \in Vendors THEN disk.odd ELSE "",
     cap |-> IF disk.odd = "nocap" THEN 0 ELSE 1,
     type |-> IF path # DiskPath(disk) THEN "partition" ELSE disk.kind,
     uuid |-> disk.odd # "nouuid", mapper |-> <<"vg-", "lv">>, links |-> { <<"disk/a">> }]

\* pathFilter.Include and Exclude look at the same names
PathMatch(keys, d) ==
    \/ d.type \in DeviceMapperDeviceTypes /\ MatchIgnoredCase(keys, d.mapper)
    \/ MatchIgnoredCase(keys, d.name)
    \/ d.links \cap keys # {}
\* the lists: both are those of a configured path filter, also when it leaves one empty
includePaths == IF os.pathConfig THEN os.include ELSE {}
excludePaths == IF os.pathConfig THEN os.exclude ELSE { <<"loop">> }
pathInclude(d) == includePaths = {} \/ PathMatch(includePaths, d)
pathExclude(d) == ~PathMatch(excludePaths, d)

\* vendorFilter: a configured list of vendors to exclude comes on top of the default one
defaultExcludedVendors == {"OpenEBS"}
vendorInclude(d) == os.vendors = {} \/ d.vendor \in os.vendors
vendorExclude(d) == d.vendor \notin defaultExcludedVendors \cup os.noVendors

\* deviceValidityFilter: isValidDevPath, isValidCapacity, isValidPartition, isValidDMDevice
validExclude(d) == /\ d.name # <<>> /\ d.cap # 0
                   /\ d.type \in {"partition"} \cup DeviceMapperDeviceTypes => d.uuid

\* Controller.ApplyFilter: every enabled filter wants the device
ApplyFilter(d) == /\ osExclude(d.name)
                  /\ pathInclude(d) /\ pathExclude(d)
                  /\ vendorInclude(d) /\ vendorExclude(d)
                  /\ validExclude(d)

ApplyFilters ==
    /\ excludeDevPaths # NotStarted /\ verdict = <<>>
    /\ verdict' = [p \in SysPaths |-> ApplyFilter(Device(p))]
    /\ UNCHANGED <<os, excludeDevPaths>>

FilterInit(inputs) == os \in inputs /\ excludeDevPaths = NotStarted /\ verdict = <<>>
FilterNext == FilterStart \/ ApplyFilters

----------------------------------------------------------------------------
\* The nodes there are.  Kinds of disks; partition numbers; disks
DiskKind == {"disk", "nvme", "nvme-subsystem"} \cup DeviceMapperDeviceTypes
PartNumber == {n \in Seq(Digit) : n # <<>>}
DiskSet == [name: Seq(Token), kind: DiskKind, parts: SUBSET PartNumber,
            odd: {"none", "nocap", "nouuid"} \cup Vendors]

\* x is what the kernel would call a partition of the device called name
NamedAsPart(name, x) ==
    \E k \in DOMAIN x : LET n == SubSeq(x, k, Len(x)) IN
                        n \in PartNumber /\ x = NameOfPart(name, n)

\* Names tell devices apart, none is the name of the directory "block", and a device is
\* named as a partition of another one only when it is one
NamesTell(o) ==
    /\ \A a, b \in o.disks : a.name = b.name => a = b
    /\ \A p, q \in o.paths : /\ Base(p) \notin {<<>>, <<"block">>}
                             /\ Base(p) = Base(q) => p = q
                             /\ NamedAsPart(Base(q), Base(p)) => HasPrefix(p, q)

\* a line that leads to the device at path p, and a mapper name that leads nowhere
LineTells(o, line, p) ==
    \/ line.dev = Base(p)
    \/ /\ line.dev = <<"root">> /\ ~line.mapper /\ \A q \in o.paths : Base(q) # <<"root">>
       /\ o.cmdline = {Base(p)}
Dangling(o, line) == line.mapper /\ \A q \in o.paths : Base(q) # line.dev

\* the lines of a file for a mount point lead to the device mounted there, if anywhere
FileTells(o, file, mp) ==
    LET hits == {i \in DOMAIN file : file[i].at = mp} IN
    /\ \A i \in hits : LineTells(o, file[i], o.actual[mp]) \/ Dangling(o, file[i])
    /\ \E i \in hits : LineTells(o, file[i], o.actual[mp])
NotIn(file, mp) == \A i \in DOMAIN file : file[i].at # mp

MountsTell(o) ==
    \A mp \in MountPoint :
        \/ o.shown[mp] = "host" /\ FileTells(o, o.host, mp)
        \/ o.shown[mp] = "self" /\ NotIn(o.host, mp) /\ FileTells(o, o.self, mp)
        \/ o.shown[mp] = "nowhere" /\ NotIn(o.host, mp) /\ NotIn(o.self, mp)

NodeOK(o) ==
    /\ o.disks \subseteq DiskSet /\ o.paths = PathsOfAll(o.disks)
    /\ o.useOSDisk \in BOOLEAN /\ o.pathConfig \in BOOLEAN
    /\ \A file \in {o.host, o.self} : DOMAIN file = 1..Len(file)
    /\ \A mp \in MountPoint : o.actual[mp] \in o.paths
    /\ NamesTell(o) /\ MountsTell(o)

FilterSpec == /\ NodeOK(os) /\ excludeDevPaths = NotStarted /\ verdict = <<>>
              /\ [][FilterNext]_filterVars

----------------------------------------------------------------------------
\* the devices that are mounted where the os-disk filter looks, as a mounts file shows
SeenOS == {os.actual[mp] : mp \in {m \in MountPoint : os.shown[m] # "nowhere"}}
Sound(p) == LET odd == DiskOf(p).odd IN
            /\ odd \notin {"nocap", "OpenEBS"}
            /\ odd = "nouuid" => /\ p = DiskPath(DiskOf(p))
                                 /\ DiskOf(p).kind \notin DeviceMapperDeviceTypes

\* no list but the default ones: no vendors are configured, and no paths
NoLists == os.vendors \cup os.noVendors = {} /\ (os.pathConfig => os.include \cup os.exclude = {})
Loop(p) == \E i \in DOMAIN Base(p) : Base(p)[i] = "loop"

\* OSDiskExact: NDM manages no device of a disk that holds the system (with the
\* UseOSDisk gate: nor on the device that holds it), found through device names,
\* /dev/root or a mapper name, and no unsound device.  When no path or vendor is
\* configured it manages every other device but the loop devices, and those too when
\* the path filter is configured with empty lists: none is lost because its name merely
\* starts like that of the system's disk.  The disk of a mapper device is that device:
\* the disks under it are not looked for, so they are among the others.
OSDiskExact ==
    verdict # <<>> =>
      \A p \in SysPaths :
        LET fit == /\ Sound(p)
                   /\ \A q \in SeenOS : IF os.useOSDisk THEN ~HasPrefix(p, q)
                                        ELSE DiskOf(p) # DiskOf(q) IN
        /\ verdict[p] => fit
        /\ NoLists => (verdict[p] <=> fit /\ (os.pathConfig \/ ~Loop(p)))

\* FamilyConsistent: what sysfs says of two devices agrees: d has p for its parent if
\* and only if p lists d as a partition, and the mount utilities find the same disk.
\* The hierarchy cache and the deactivation of a parent rest on it.
FamilyConsistent ==
    verdict # <<>> => \A p, d \in SysPaths :
      /\ (getParent(d) = {Base(p)}) <=> (Base(d) \in getPartitions(p))
      /\ getParentBlockDevice(d) = {DiskOf(d).name}
=============================================================================
