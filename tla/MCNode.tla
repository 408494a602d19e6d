------------------------------- MODULE MCNode -------------------------------
(***************************************************************************)
(* The parts of the node and of its tools that share no state with each    *)
(* other, on small instances.  `part` says which one a behaviour is about; *)
(* the others keep their initial state.                                    *)
(***************************************************************************)
EXTENDS MountWatch, Exporter, Upgrade, DaemonLife, Selection, DeviceFilters,
        DeviceProbes, DiskGeometry, FeatureGates, NodeAPI, SmartAccess, TLC

VARIABLE part
nodeVars == <<part, mountVars, exporterVars, upgradeVars, lifeVars, selectVars, filterVars,
              probeVars, geometryVars, gateVars, apiVars, smartVars>>

----------------------------------------------------------------------------
\* the inputs of the parts
Bound(attach, calls, faults, stops, others) ==
    [attach |-> attach, calls |-> calls, faults |-> faults, stops |-> stops, others |-> others]
SomeBounds == {Bound(1, 1, 0, 0, 0), Bound(0, 1, 1, 0, 0), Bound(0, 1, 0, 1, 1),
               Bound(1, 0, 1, 1, 0)}

SomeReadings == {[temp |-> 30, current |-> TRUE, highest |-> h, lowest |-> FALSE] : h \in BOOLEAN}

OldClaim == [live: BOOLEAN, fins: {{"blockdeviceclaim.finalizer"}}, host: BOOLEAN,
             attr: {FALSE}, note: {0}]

\* devices that differ from a fit one in up to two fields, and claims of every kind
Fit(n) == [name |-> n, state |-> "Active", claim |-> "Unclaimed", legacy |-> FALSE,
           tag |-> "none", type |-> "disk", fs |-> "", mnt |-> FALSE, node |-> "n1", cap |-> 2]
FsStates == { <<"", FALSE>>, <<"ext4", FALSE>>, <<"ext4", TRUE>>, <<"xfs", TRUE>> }
Variants(n) ==
    UNION {
      {[Fit(n) EXCEPT !.state = s, !.cap = c] : s \in {"Active", "Unknown"}, c \in {1, 2}},
      {[Fit(n) EXCEPT !.claim = s, !.tag = t] :
          s \in {"Unclaimed", "Released"}, t \in {"none", "blank", "set"}},
      {[Fit(n) EXCEPT !.type = t, !.legacy = b] : t \in {"disk", "sparse", "lvm"}, b \in BOOLEAN},
      {[Fit(n) EXCEPT !.node = x, !.fs = f[1], !.mnt = f[2]] : x \in {"n1", "n2"}, f \in FsStates}}
Lists == {<<>>} \cup {<<b>> : b \in Variants("d1")}
         \cup {<<b, c>> : b \in Variants("d1"), c \in Variants("d2")}
AnyClaim == [name |-> "", type |-> "", mode |-> "", format |-> "", node |-> "",
             tagged |-> FALSE, cap |-> 2]
SomeClaims ==
    UNION {
      {[AnyClaim EXCEPT !.name = n, !.tagged = t] : n \in {"", "d1", "d2"}, t \in BOOLEAN},
      {[AnyClaim EXCEPT !.type = t, !.cap = c] : t \in {"", "disk", "lvm"}, c \in {0, 2}},
      {[AnyClaim EXCEPT !.mode = m, !.format = f, !.node = x] :
          m \in {"Block", "FileSystem"}, f \in {"", "xfs"}, x \in {"", "n2"}}}

\* two disks, the first with the system
K(kind, name) == [kind |-> kind, name |-> name]
SomeDisks == {K("disk", <<"sd", "a">>), K("disk", <<"sd", "a", "a">>),
              K("disk", <<"loop", "1">>), K("disk", <<"loop", "1", "0">>),
              K("nvme", <<"nvme", "0", "n", "1">>),
              K("nvme-subsystem", <<"nvme", "1", "n", "1">>), K("dm", <<"dm-", "0">>)}
WithParts(k, ps, odd) == [kind |-> k.kind, name |-> k.name, parts |-> ps, odd |-> odd]
\* the lists of the path and of the vendor filter: none, those given
Lists0 == [pathConfig |-> FALSE, include |-> {}, exclude |-> {}, vendors |-> {}, noVendors |-> {}]
Paths(include, exclude) ==
    [Lists0 EXCEPT !.pathConfig = TRUE, !.include = include, !.exclude = exclude]
\* partitions and oddity of the second disk, and the configured lists
SomeSecond ==
    {<<{}, "none", Lists0>>, <<{ <<"1">>, <<"1", "0">> }, "none", Paths({}, {})>>}
    \cup {<<{ <<"1">> }, odd, Lists0>> : odd \in {"nocap", "nouuid", "OpenEBS"}}
    \cup {<<{ <<"1">> }, "Other", [Lists0 EXCEPT !.vendors = v[1], !.noVendors = v[2]]>> :
             v \in {<<{}, {}>>, <<{"Other"}, {}>>, <<{}, {"Other"}>>}}
    \cup {<<{ <<"1">> }, "none", l>> :
             l \in {Paths({ <<"sd">> }, {}), Paths({}, { <<"vg-">> }),
                    Paths({}, { <<"sd", "a">>, <<"disk/a">> })}}
Ways(k) == {<<"name", "host">>, <<"name", "self">>, <<"name", "nowhere">>, <<"root", "host">>}
           \cup (IF k.kind = "dm" THEN {<<"mapper", "host">>} ELSE {})
System(a, b, n, way, gate, second) ==
    LET path == IF n = <<>> THEN DiskPath(a) ELSE Append(DiskPath(a), PartName(a, n))
        name == path[Len(path)]
        line(m) == [at |-> m, mapper |-> way[1] = "mapper",
                     dev |-> IF way[1] = "root" THEN <<"root">> ELSE name]
        data == [at |-> "/data", mapper |-> FALSE, dev |-> b.name]
        gone == [at |-> "/", mapper |-> TRUE, dev |-> <<"dm-", "9">>] IN
    [disks |-> {a, b}, paths |-> PathsOfAll({a, b}),
     actual |-> [m \in MountPoint |-> path],
     shown |-> [m \in MountPoint |->
                  IF (m = "/") # (way[2] = "self") THEN way[2] ELSE "nowhere"],
     host |-> IF way[1] = "mapper" THEN <<data, gone, line("/")>>
              ELSE IF way[2] = "host" THEN <<data, line("/")>> ELSE <<data>>,
     self |-> IF way[2] = "self" THEN <<line("/etc/hosts")>> ELSE <<>>,
     cmdline |-> {name}, useOSDisk |-> gate,
     pathConfig |-> second[3].pathConfig, include |-> second[3].include,
     exclude |-> second[3].exclude, vendors |-> second[3].vendors,
     noVendors |-> second[3].noVendors]
\* the configured lists are looked at on a node whose mounts file names the system's device
PlainSecond == {s \in SomeSecond : s[2] = "none" /\ s[3] \in {Lists0, Paths({}, {})}}
SomeSystems ==
    UNION {{System(WithParts(k, ps, "none"), WithParts(l, s[1], s[2]), n, way, gate, s) :
              l \in SomeDisks \ {k}, n \in {<<>>} \cup (ps \cap { <<"1">> }),
              way \in IF s \in PlainSecond THEN Ways(k) ELSE {<<"name", "host">>},
              gate \in IF s \in PlainSecond THEN BOOLEAN ELSE {FALSE}} :
           k \in SomeDisks, s \in SomeSecond, ps \in {{}, { <<"1">>, <<"1", "0">> }}}
ASSUME SystemsAreNodes == \A o \in SomeSystems : NodeOK(o)

\* what the probes read, around a common case
S(x) == {{}, {x}}
Common ==
    [udev |-> TRUE, path |-> {"/dev/sda"}, model |-> {"m"}, udevFs |-> {}, udevPartuuid |-> {},
     sysfs |-> TRUE, sysCap |-> {"sysfs"}, sysLbs |-> {"sysfs"}, sysDrive |-> {"HDD"},
     type |-> "disk", parent |-> TRUE,
     scsi |-> [firmware |-> {"smart"}, cap |-> {"smart"}, lbs |-> {"smart"}],
     mountsFile |-> TRUE, mounts |-> {}, mountFs |-> {"ext4"},
     diskFs |-> {"ext4"}, diskPartuuid |-> {"pu"}, zfsParts |-> FALSE, dataFs |-> {},
     busy |-> FALSE, spdk |-> FALSE, seachest |-> FALSE,
     drive |-> [firmware |-> {"sea"}, lbs |-> {"sea"}, type |-> {"SSD"}], tag |-> {"t"}]
Sized == {[Common EXCEPT !.udev = u, !.sysfs = s, !.sysCap = c, !.sysLbs = l, !.type = t,
                         !.parent = p, !.scsi = x, !.seachest = z] :
            u \in BOOLEAN, s \in BOOLEAN, c \in S("sysfs"), l \in S("sysfs"),
            t \in {"disk", "partition"}, p \in BOOLEAN, z \in BOOLEAN,
            x \in [firmware: S("smart"), cap: S("smart"), lbs: S("smart")]}
Used == {[Common EXCEPT !.udevFs = u, !.type = t, !.mountsFile = f,
                        !.mounts = m, !.diskFs = d, !.zfsParts = z, !.dataFs = {"zfs"},
                        !.busy = b, !.spdk = k] :
           u \in S("ext4"), t \in {"disk", "partition"}, f \in BOOLEAN,
           m \in {{}, {"/mnt", "/k8s"}, {"/mnt"}},
           d \in {{}, {"ext4"}, {"zfs"}}, z \in BOOLEAN, b \in BOOLEAN, k \in BOOLEAN}
\* the answers of the sources of a device whose change events are looked at
Changing == {[Common EXCEPT !.udevFs = u, !.mountsFile = f, !.mounts = m, !.diskFs = d,
                            !.spdk = k] :
               u \in S("ext4"), f \in BOOLEAN, m \in {{}, {"/mnt", "/k8s"}},
               d \in S("ext4"), k \in BOOLEAN}
Later == IF hw \in Changing /\ enabled = Probe THEN Changing ELSE {}

SomeSizes == [blocks: (1..8) \cup (30..38) \cup (508..516) \cup (4094..4098) \cup (5998..6003),
              lbs: LBSizes, sysSize: BOOLEAN, sysLbs: BOOLEAN, scsi10: BOOLEAN,
              scsi16: BOOLEAN, ata: BOOLEAN, identify: BOOLEAN, used: BOOLEAN]

Arg == [name: {"GPTBasedUUID", "PartitionTableUUID", "UseOSDisk"}, form: {"state"}, on: BOOLEAN]
       \cup [name: {"PartitionTableUUID"}, form: {"plain", "malformed"}, on: {FALSE}]
       \cup [name: {"NoSuchFeature"}, form: {"plain"}, on: {FALSE}]
Args == UNION {[1..n -> Arg] : n \in 0..2}

Dev(path, type, parent, parts) == [path |-> path, type |-> type, parent |-> parent, parts |-> parts]
SomeDevices == {Dev("sda", "disk", "", {"sda1"}), Dev("sdaa1", "partition", "sdaa", {}),
                Dev("dm-0", "lvm", "", {}), Dev("md0", "raid", "", {}),
                Dev("loop0", "loop", "", {"loop0p1"}), Dev("sparse", "sparse", "", {})}
SomeSubstrings == {<<"sda", "sda1">>, <<"sda", "sdaa1">>, <<"sdaa", "sdaa1">>,
                   <<"loop0", "loop0p1">>}

----------------------------------------------------------------------------
\* One state of each part that is not the one looked at, and the starts of that one
OneClaim == [c \in Claim |-> [live |-> FALSE, fins |-> {"blockdeviceclaim.finalizer"},
                              host |-> FALSE, attr |-> FALSE, note |-> 0]]
OneStore == [d \in Disk |-> [path |-> IF d = "da" THEN "sda" ELSE "sdb", state |-> "Active"]]
OneDisk == [blocks |-> 1, lbs |-> 1, sysSize |-> TRUE, sysLbs |-> TRUE, scsi10 |-> TRUE,
            scsi16 |-> TRUE, ata |-> FALSE, identify |-> FALSE, used |-> FALSE]
OneSystem == LET a == WithParts(K("disk", <<"sd", "a">>), {}, "none") IN
             System(a, a, <<>>, <<"name", "host">>, FALSE, <<{}, "none", Lists0>>)

Parts == {"mount", "exporter", "upgrade", "life", "select", "filter", "probe", "geometry",
          "gate", "api", "smart"}
Pick(p, some, one) == IF part = p THEN some ELSE {one}

Init ==
    /\ part \in Parts
    /\ MountInit(Pick("mount", {<<>>, <<[source |-> "sda", target |-> "a"]>>}, <<>>))
    /\ ExporterInit(Pick("exporter", {"cluster", "node"}, "node"), {OneStore})
    /\ UpgradeInit(Pick("upgrade", [Claim -> OldClaim], OneClaim))
    /\ IF part = "life" THEN LifeInit({{}, {"sda"}}, LifeBounds)
       ELSE LifeInit({{}}, {Bound(0, 0, 0, 0, 0)})
    /\ IF part = "select"
       THEN \E l \in Lists, c \in SomeClaims : SelectInit({[list |-> l, spec |-> c]})
       ELSE SelectInit({[list |-> <<>>, spec |-> AnyClaim]})
    /\ FilterInit(Pick("filter", SomeSystems, OneSystem))
    /\ IF part = "probe"
       THEN \E h \in Sized \cup Used \cup Changing \cup {[Common EXCEPT !.path = {}, !.udev = FALSE]} :
              ProbeInit({h}, {Probe, Probe \ {"smart"}, Probe \ {"sysfs", "udev"}})
       ELSE ProbeInit({Common}, {Probe})
    /\ GeometryInit(Pick("geometry", SomeSizes, OneDisk))
    /\ GateInit(Pick("gate", Args, <<>>))
    /\ ApiInit(Pick("api", {{}, NodeDevice, {d \in NodeDevice : d.type # "sparse"}}, {}))
    /\ SmartInit

\* a step of one part leaves the others alone
Rest1 == UNCHANGED <<part, selectVars, filterVars, probeVars, geometryVars, gateVars, smartVars>>
Next ==
    \/ part = "mount" /\ MountNext /\ Rest1
         /\ UNCHANGED <<exporterVars, upgradeVars, lifeVars, apiVars>>
    \/ part = "exporter" /\ ExporterNext /\ Rest1
         /\ UNCHANGED <<mountVars, upgradeVars, lifeVars, apiVars>>
    \/ part = "upgrade" /\ UpgradeNext /\ Rest1
         /\ UNCHANGED <<mountVars, exporterVars, lifeVars, apiVars>>
    \/ part = "life" /\ LifeNext /\ Rest1
         /\ UNCHANGED <<mountVars, exporterVars, upgradeVars, apiVars>>
    \/ part = "api" /\ ApiNext /\ Rest1
         /\ UNCHANGED <<mountVars, exporterVars, upgradeVars, lifeVars>>
    \/ /\ UNCHANGED <<part, mountVars, exporterVars, upgradeVars, lifeVars, apiVars>>
       /\ \/ part = "smart" /\ SmartNext
               /\ UNCHANGED <<selectVars, filterVars, probeVars, geometryVars, gateVars>>
          \/ part = "select" /\ Select
               /\ UNCHANGED <<filterVars, probeVars, geometryVars, gateVars, smartVars>>
          \/ part = "filter" /\ FilterNext
               /\ UNCHANGED <<selectVars, probeVars, geometryVars, gateVars, smartVars>>
          \/ part = "probe" /\ ProbeNext(Later)
               /\ UNCHANGED <<selectVars, filterVars, geometryVars, gateVars, smartVars>>
          \/ part = "geometry" /\ GeometryNext
               /\ UNCHANGED <<selectVars, filterVars, probeVars, gateVars, smartVars>>
          \/ part = "gate" /\ GateNext
               /\ UNCHANGED <<selectVars, filterVars, probeVars, geometryVars, smartVars>>

\* the daemon is scheduled while it has something to do
Spec == Init /\ [][Next]_nodeVars /\ WF_lifeVars(part = "life" /\ LifeGo)
=============================================================================
