---------------------------- MODULE EventProofs -----------------------------
(***************************************************************************)
(* The event pipeline of the daemon keeps its state well formed, and what  *)
(* it overwrites with a partition table was not on the disk it opened when *)
(* it looked: for every node, any number of events, scans and failures.    *)
(***************************************************************************)
EXTENDS DaemonEvents, FiniteSetTheorems, TLAPS

\* the contents of the API server, and of a list read from it
Lists == UNION {[S -> Resource] : S \in SUBSET UUID}
Caches == UNION {[S -> BlockDevice] : S \in SUBSET DevPath}
Message == [action: {"add", "remove", "change"}, b: BlockDevice]
ListenerState == [pc: {"idle", "list", "next", "add"},
                  action: {"none", "add", "remove", "change"}, devs: Seq(BlockDevice),
                  list: Lists, need: BOOLEAN, errored: SUBSET DevPath]
ScanState == [pc: ScanStates, own: BOOLEAN, devs: Seq(BlockDevice), todo: SUBSET UUID]

\* without the GPT gate a device comes to the listener with its name
Named(b) == Gpt \/ b.uuid \in UUID

HwOK == WellFormed(hw)
BdsOK == bds \in Lists
HierOK == hier \in Caches /\ \A q \in DOMAIN hier : hier[q].path = q
MsgOK == /\ udevq \in Seq(Message) /\ mon \in Message \cup {None}
         /\ mon # None /\ mon.action = "add" => Named(mon.b)
LstOK == /\ lst \in ListenerState /\ DOMAIN lst.list \subseteq DOMAIN bds
         /\ lst.action = "add" => \A i \in DOMAIN lst.devs : Named(lst.devs[i])
         /\ lst.pc = "add" => lst.action = "add"
         /\ \/ lst.pc = "idle" \/ lst.devs # <<>>
            \/ lst.action = "add" /\ lst.pc \in {"list", "next"}
ScanOK == /\ scan \in [Scanner -> ScanState]
          /\ \A s \in Scanner : /\ scan[s].todo \subseteq DOMAIN bds
                                /\ \A i \in DOMAIN scan[s].devs : Named(scan[s].devs[i])

\* What the listener, the monitor and the scans hold are devices and names, what is
\* still to be deactivated is in the API server, and the hardware is well formed.
EventInv == HwOK /\ BdsOK /\ HierOK /\ MsgOK /\ LstOK /\ ScanOK
            /\ sem \in BOOLEAN /\ probes \in 0..2

\* A disk is open only while its handler runs and stays at the path it was opened by.  A
\* table on it, or a file system once blkid has looked, has come after the look.
FdOK == /\ fd \in [at: {"closed", "open", "checked"}, d: Dev \cup {None}, late: SUBSET {"table", "fs"}]
        /\ fd.at = "closed" => fd.d = None
        /\ fd.at # "closed" => lst.pc = "add"
        /\ fd.d # None => /\ hw[fd.d].present /\ hw[fd.d].path = Head(lst.devs).path
                          /\ hw[fd.d].table => "table" \in fd.late
                          /\ fd.at = "checked" /\ hw[fd.d].fs => "fs" \in fd.late

\* Lists and caches are functions on their domain.
LEMMA ListFacts ==
    /\ \A f \in Lists : DOMAIN f \subseteq UUID /\ f \in [DOMAIN f -> Resource]
    /\ \A f : DOMAIN f \subseteq UUID /\ f \in [DOMAIN f -> Resource] => f \in Lists
    /\ \A f \in Caches : DOMAIN f \subseteq DevPath /\ f \in [DOMAIN f -> BlockDevice]
    /\ \A f : DOMAIN f \subseteq DevPath /\ f \in [DOMAIN f -> BlockDevice] => f \in Caches
    /\ <<>> \in Lists /\ DOMAIN <<>> = {} /\ <<>> \in Caches
<1>1. /\ \A f \in Lists : DOMAIN f \subseteq UUID /\ f \in [DOMAIN f -> Resource]
      /\ \A f : DOMAIN f \subseteq UUID /\ f \in [DOMAIN f -> Resource] => f \in Lists
  BY DEF Lists
<1>2. /\ \A f \in Caches : DOMAIN f \subseteq DevPath /\ f \in [DOMAIN f -> BlockDevice]
      /\ \A f : DOMAIN f \subseteq DevPath /\ f \in [DOMAIN f -> BlockDevice] => f \in Caches
  BY DEF Caches
<1>3. DOMAIN <<>> = {} /\ <<>> \in [{} -> Resource] /\ <<>> \in [{} -> BlockDevice]
  OBVIOUS
<1>4. QED
  BY <1>1, <1>2, <1>3, Zenon

\* The details that a scan or an event records of a device (Details).
LEMMA DetailsTypes ==
    ASSUME NEW h, WellFormed(h), NEW d \in Dev
    PROVE  /\ Details(h, d) \in BlockDevice /\ Details(h, d).uuid = None
           /\ Details(h, d).d = d
<1> DEFINE disk == IF h[d].type = "partition" THEN h[d].on ELSE d
<1>1. h[d] \in Hw /\ disk \in Dev /\ h[disk] \in Hw
  BY DEF WellFormed, Hw
<1>2. (IF h[d].type \in DeviceMapperDeviceTypes THEN {h[h[d].on].path} ELSE {}) \in SUBSET DevPath
  <2>1. CASE h[d].type \in DeviceMapperDeviceTypes
    <3>1. h[d].on \in Dev
      BY <1>1, <2>1 DEF WellFormed, Hw
    <3>2. h[h[d].on] \in Hw
      BY <3>1 DEF WellFormed
    <3>3. QED
      BY <2>1, <3>2 DEF Hw
  <2>2. QED
    BY <2>1
<1>3. (Children(h, d) # {}) \in BOOLEAN /\ (Holders(h, d) # {}) \in BOOLEAN /\ "none" \in StorageEngine
  BY DEF StorageEngine
<1> HIDE DEF disk
<1>4. QED
  BY <1>1, <1>2, <1>3, Zenon DEF Details, disk, BlockDevice, Hw

\* The names of a device (uuid.go).
LEMMA NameTypes ==
    ASSUME NEW b \in BlockDevice, NEW g
    PROVE  /\ generateUUID(b, g) \in UUID \cup {None}
           /\ generateLegacyUUID(b) \in UUID /\ GetUid(b) \in UUID
           /\ generateUUIDFromPartitionTable(b) \in UUID \cup {None}
<1>1. b.d \in Dev /\ b.disk \in Dev /\ b.path \in DevPath /\ b.fs \in Dev \cup {None}
      /\ b.pt \in Dev \cup {None}
  BY DEF BlockDevice
<1>2. /\ \A d \in Dev : <<"wwn", d>> \in UUID /\ <<"serial", d>> \in UUID /\ <<"dm", d>> \in UUID
                        /\ <<"entry", d>> \in UUID /\ <<"fs", d>> \in UUID /\ <<"pt", d>> \in UUID
      /\ \A p \in DevPath : <<"path", p>> \in UUID /\ <<"localpath", p>> \in UUID
  BY DEF UUID
<1>3. generateUUID(b, g) \in UUID \cup {None}
  BY <1>1, <1>2, Zenon DEF generateUUID
<1>4. QED
  BY <1>1, <1>2, <1>3, Zenon DEF generateLegacyUUID, GetUid, generateUUIDFromPartitionTable

\* Writing a BlockDevice of the API server (Put).
LEMMA PutList ==
    ASSUME NEW f \in Lists, NEW u \in UUID, NEW r \in Resource
    PROVE  Put(f, u, r) \in Lists /\ DOMAIN Put(f, u, r) = (DOMAIN f) \cup {u}
<1>1. DOMAIN f \subseteq UUID /\ f \in [DOMAIN f -> Resource]
  BY ListFacts
<1>2. DOMAIN Put(f, u, r) = (DOMAIN f) \cup {u}
      /\ Put(f, u, r) \in [(DOMAIN f) \cup {u} -> Resource]
  BY <1>1 DEF Put
<1>3. QED
  BY <1>1, <1>2, ListFacts

\* Caching a device under its path (addBlockDeviceToHierarchyCache).
LEMMA PutCache ==
    ASSUME NEW f \in Caches, NEW b \in BlockDevice, \A q \in DOMAIN f : f[q].path = q
    PROVE  /\ Put(f, b.path, b) \in Caches
           /\ \A q \in DOMAIN Put(f, b.path, b) : Put(f, b.path, b)[q].path = q
<1>1. DOMAIN f \subseteq DevPath /\ f \in [DOMAIN f -> BlockDevice] /\ b.path \in DevPath
  BY ListFacts DEF BlockDevice
<1>2. DOMAIN Put(f, b.path, b) = (DOMAIN f) \cup {b.path}
      /\ Put(f, b.path, b) \in [(DOMAIN f) \cup {b.path} -> BlockDevice]
      /\ \A q \in (DOMAIN f) \cup {b.path} :
           Put(f, b.path, b)[q] = IF q = b.path THEN b ELSE f[q]
  BY <1>1 DEF Put
<1>3. QED
  BY <1>1, <1>2, ListFacts

\* Deactivating a BlockDevice that exists (Deactivated).
LEMMA DeactivatedList ==
    ASSUME NEW f \in Lists, NEW u \in DOMAIN f
    PROVE  Deactivated(f, u) \in Lists /\ DOMAIN Deactivated(f, u) = DOMAIN f
<1>1. DOMAIN f \subseteq UUID /\ f \in [DOMAIN f -> Resource]
  BY ListFacts
<1>2. [f[u] EXCEPT !.state = "Inactive"] \in Resource
  BY <1>1 DEF Resource
<1>3. DOMAIN Deactivated(f, u) = DOMAIN f /\ Deactivated(f, u) \in [DOMAIN f -> Resource]
  BY <1>1, <1>2 DEF Deactivated
<1>4. QED
  BY <1>1, <1>3, ListFacts

\* What is pushed is a resource, made from an old one or from none (Merge).
LEMMA MergeTypes ==
    ASSUME NEW b \in BlockDevice, NEW ann, NEW old \in Resource
    PROVE  Merge(old, b, ann) \in Resource /\ Merge(NoBD, b, ann) \in Resource
<1>1. b.d \in Dev /\ b.path \in DevPath /\ b.fstype \in BOOLEAN /\ b.fs \in Dev \cup {None}
      /\ b.pt \in Dev \cup {None}
  BY DEF BlockDevice
<1>2. old.claim \in {"Unclaimed", "Claimed"} /\ old.on \in Dev \cup {None}
      /\ old.fstype \in BOOLEAN /\ old.fsuuid \in Dev \cup {None} /\ old.ptuuid \in Dev \cup {None}
  BY DEF Resource
<1>3. NoBD.claim = "Unclaimed" /\ NoBD.fsuuid = None /\ NoBD.ptuuid = None
  BY DEF NoBD
<1>4. Merge(old, b, ann) \in Resource
  BY <1>1, <1>2 DEF Merge, Resource
<1>5. QED
  BY <1>1, <1>3, <1>4 DEF Merge, Resource

\* The probes fill a device in place: it keeps its identity and its name.
LEMMA FillTypes ==
    ASSUME HwOK, NEW b \in BlockDevice, NEW named \in BOOLEAN
    PROVE  /\ FillBlockDeviceDetails(b, named) \in BlockDevice
           /\ FillBlockDeviceDetails(b, named).uuid = b.uuid
<1>1. CASE ~hw[b.d].present
  BY <1>1 DEF FillBlockDeviceDetails
<1>2. CASE hw[b.d].present
  <2> DEFINE now == Details(hw, b.d)
             pt == IF b.pt = None /\ probes = 2 /\ ~named THEN now.pt ELSE b.pt
             use == IF probes = 2 /\ ~named THEN hw[b.d].use ELSE b.use
             tab == now.pt # None
             c1 == [b EXCEPT !.path = now.path, !.wwn = now.wwn, !.local = now.local]
             c2 == [c1 EXCEPT !.fstype = hw[b.d].fs, !.table = tab]
             c3 == [c2 EXCEPT !.pt = pt, !.use = use]
  <2>1. now \in BlockDevice /\ hw[b.d] \in Hw /\ tab \in BOOLEAN
    BY DetailsTypes DEF HwOK, BlockDevice, WellFormed
  <2>2. FillBlockDeviceDetails(b, named) = c3
    BY <1>2 DEF FillBlockDeviceDetails
  <2> HIDE DEF now
  <2>3. pt \in Dev \cup {None} /\ use \in StorageEngine /\ hw[b.d].fs \in BOOLEAN
        /\ now.path \in DevPath /\ now.wwn \in BOOLEAN /\ now.local \in BOOLEAN
    BY <2>1 DEF BlockDevice, Hw
  <2> HIDE DEF pt, use, tab
  <2>4. c1 \in BlockDevice /\ c1.uuid = b.uuid
    BY <2>3, Zenon DEF BlockDevice
  <2> HIDE DEF c1
  <2>5. c2 \in BlockDevice /\ c2.uuid = b.uuid
    <3> DEFINE fs == hw[b.d].fs
    <3>1. fs \in BOOLEAN /\ tab \in BOOLEAN /\ c1 \in BlockDevice /\ c1.uuid = b.uuid
      BY <2>1, <2>3, <2>4
    <3> HIDE DEF fs
    <3>2. [c1 EXCEPT !.fstype = fs, !.table = tab] \in BlockDevice
      BY <3>1, Zenon DEF BlockDevice
    <3>3. [c1 EXCEPT !.fstype = fs, !.table = tab].uuid = b.uuid
      BY <3>1 DEF BlockDevice
    <3>4. QED
      BY <3>2, <3>3 DEF fs
  <2> HIDE DEF c2
  <2>6. c3 \in BlockDevice /\ c3.uuid = b.uuid
    BY <2>3, <2>5, Zenon DEF BlockDevice
  <2> HIDE DEF c3
  <2>7. QED
    BY <2>2, <2>6
<1>3. QED
  BY <1>1, <1>2

\* a plan of a handler: what is pushed has a name, what is deactivated first exists
PlanOK(p, b) ==
    /\ p.op \in {"skip", "error", "continue", "table", "push"}
    /\ p.op = "push" => p.b = b /\ p.uuid \in UUID /\ (p.deact = None \/ p.deact \in DOMAIN bds)

\* The plans that write nothing, and a push under a name.
LEMMA SimplePlans ==
    ASSUME NEW b, NEW u \in UUID, NEW ann, NEW from, NEW list,
           NEW d, d = None \/ d \in DOMAIN bds
    PROVE  /\ PlanOK(Skip, b) /\ PlanOK(Fail, b) /\ PlanOK(Go, b)
           /\ PlanOK(Push(b, u, ann, from, d), b)
           /\ PlanOK(createOrUpdate(b, u, ann, list, d), b)
           /\ PlanOK(createBlockDeviceResourceIfNoHolders(b, u, list), b)
<1>1. PlanOK(Skip, b) /\ PlanOK(Fail, b) /\ PlanOK(Go, b)
  BY DEF PlanOK, Skip, Fail, Go
<1>2. ASSUME NEW a, NEW f, NEW e, e = None \/ e \in DOMAIN bds
      PROVE  PlanOK(Push(b, u, a, f, e), b)
  BY <1>2 DEF PlanOK, Push
<1>3. QED
  BY <1>1, <1>2 DEF createOrUpdate, createBlockDeviceResourceIfNoHolders

\* handleUnmanagedDevices and isParentDeviceInUse push only a ZFS device with a table.
LEMMA UnmanagedPlans ==
    ASSUME NEW b \in BlockDevice
    PROVE  PlanOK(handleUnmanagedDevices(b), b) /\ PlanOK(isParentDeviceInUse(b), b)
<1>1. PlanOK(Skip, b) /\ PlanOK(Fail, b) /\ PlanOK(Go, b)
  BY DEF PlanOK, Skip, Fail, Go
<1>2. ASSUME b.pt # None
      PROVE  PlanOK(Push(b, generateUUIDFromPartitionTable(b), "tag", "create", None), b)
  <2>1. generateUUIDFromPartitionTable(b) \in UUID
    BY <1>2 DEF generateUUIDFromPartitionTable, BlockDevice, UUID
  <2>2. QED
    BY <2>1, SimplePlans
<1>3. QED
  BY <1>1, <1>2 DEF handleUnmanagedDevices, isParentDeviceInUse

\* upgradeBD pushes under the name of a listed resource, or under the legacy name.
LEMMA UpgradePlans ==
    ASSUME NEW b \in BlockDevice, NEW list \in Lists
    PROVE  PlanOK(upgradeBD(b, list), b)
<1>1. PlanOK(Fail, b) /\ PlanOK(Go, b)
  BY DEF PlanOK, Fail, Go
<1>2. ASSUME NEW ann
      PROVE  PlanOK(upgradeDeviceInUse(b, list, ann), b)
  <2> DEFINE uuid == generateUUID(b, gates)
             marked == IF ann = "pt" THEN getExistingBDWithPartitionUUID(b, list)
                                     ELSE getExistingBDWithFsUuid(b, list)
             legacy == generateLegacyUUID(b)
             existing == IF marked # {} THEN CHOOSE u \in marked : TRUE ELSE legacy
  <2>1. legacy \in UUID /\ marked \subseteq UUID
    BY NameTypes, ListFacts DEF getExistingBDWithPartitionUUID, getExistingBDWithFsUuid
  <2> HIDE DEF marked, legacy
  <2>2. existing \in UUID
    BY <2>1
  <2> HIDE DEF existing
  <2>3. PlanOK(Push(b, legacy, ann, "create", None), b)
        /\ PlanOK(Push(b, existing, ann, "list", None), b)
    BY <2>1, <2>2, SimplePlans, Zenon
  <2> HIDE DEF uuid
  <2>4. upgradeDeviceInUse(b, list, ann) \in
          {Go, Fail, Push(b, legacy, ann, "create", None), Push(b, existing, ann, "list", None)}
    BY DEF upgradeDeviceInUse, uuid, marked, legacy, existing
  <2>5. QED
    BY <1>1, <2>3, <2>4
<1>3. QED
  BY <1>1, <1>2 DEF upgradeBD

\* The last part of addBlockDevice never goes on, and names what it pushes.
LEMMA IdentifiedPlans ==
    ASSUME NEW b \in BlockDevice, NEW list
    PROVE  PlanOK(addIdentified(b, list), b) /\ addIdentified(b, list).op # "continue"
<1> DEFINE uuid == generateUUID(b, gates)
           parent == IF b.parent \in DOMAIN hier
                     THEN generateUUID(hier[b.parent], gates) ELSE None
           tab == [op |-> "table"]
           Plans == {Skip, Fail, tab, Push(b, uuid, "gpt", "read", None)}
                    \cup {createOrUpdate(b, uuid, "gpt", list, d) : d \in {None} \cup DOMAIN bds}
<1>1. PlanOK(Skip, b) /\ PlanOK(Fail, b) /\ PlanOK(tab, b)
      /\ Skip.op # "continue" /\ Fail.op # "continue" /\ tab.op # "continue"
  BY DEF PlanOK, Skip, Fail
<1>2. uuid \in UUID \cup {None}
  BY NameTypes
<1> HIDE DEF uuid, tab
<1>3. ASSUME uuid \in UUID, NEW d \in {None} \cup DOMAIN bds, NEW ann, NEW from
      PROVE  PlanOK(Push(b, uuid, ann, from, d), b) /\ Push(b, uuid, ann, from, d).op # "continue"
  BY <1>3, SimplePlans DEF Push
<1>4. ASSUME uuid \in UUID, NEW d \in {None} \cup DOMAIN bds
      PROVE  /\ PlanOK(createOrUpdate(b, uuid, "gpt", list, d), b)
             /\ createOrUpdate(b, uuid, "gpt", list, d).op # "continue"
  BY <1>3, <1>4, Zenon DEF createOrUpdate
<1>5. createBlockDeviceResourceIfNoHolders(b, uuid, list) \in
        {Skip, createOrUpdate(b, uuid, "gpt", list, None)}
  BY DEF createBlockDeviceResourceIfNoHolders
<1>6. addNewPartition(b, uuid, list) \in
        {Fail, Skip, createBlockDeviceResourceIfNoHolders(b, uuid, list)}
        \cup {createOrUpdate(b, uuid, "gpt", list, d) : d \in DOMAIN bds}
  <2> HIDE DEF parent
  <2>1. CASE parent \in DOMAIN bds
    BY <2>1 DEF addNewPartition, parent
  <2>2. CASE parent \notin DOMAIN bds
    BY <2>2 DEF addNewPartition, parent
  <2>3. QED
    BY <2>1, <2>2
<1>7. CASE uuid = None
  <2>1. addIdentified(b, list) \in {Skip, tab}
    BY <1>7 DEF addIdentified, uuid, tab
  <2>2. QED
    BY <1>1, <2>1
<1>8. CASE uuid # None
  <2>1. addIdentified(b, list) \in
          {addNewPartition(b, uuid, list), Skip, createBlockDeviceResourceIfNoHolders(b, uuid, list),
           Push(b, uuid, "gpt", "read", None), createOrUpdate(b, uuid, "gpt", list, None)}
    BY <1>8 DEF addIdentified, uuid
  <2>2. QED
    BY <1>1, <1>2, <1>3, <1>4, <1>5, <1>6, <1>8, <2>1
<1>9. QED
  BY <1>7, <1>8

\* addBlockDevice ends with the first of its checks that does not go on.
LEMMA AddPlans ==
    ASSUME NEW b \in BlockDevice, NEW list \in Lists
    PROVE  /\ PlanOK(addBlockDevice(b, list), b)
           /\ b.uuid \in UUID => PlanOK(PushBlockDeviceResource(b, list), b)
<1> DEFINE plans == <<handleUnmanagedDevices(b), isParentDeviceInUse(b),
                      upgradeBD(b, list), addIdentified(b, list)>>
           Ends(i) == /\ plans[i].op # "continue"
                      /\ \A j \in 1..(i - 1) : plans[j].op = "continue"
<1>1. PlanOK(plans[1], b) /\ PlanOK(plans[2], b) /\ PlanOK(plans[3], b) /\ PlanOK(plans[4], b)
      /\ plans[4].op # "continue"
  BY UnmanagedPlans, UpgradePlans, IdentifiedPlans
<1> HIDE DEF plans
<1>2. \E i \in 1..4 : Ends(i)
  <2>1. CASE plans[1].op # "continue"
    <3>1. Ends(1)
      BY <2>1
    <3>2. QED
      BY <3>1
  <2>2. CASE plans[1].op = "continue" /\ plans[2].op # "continue"
    <3>1. Ends(2)
      BY <2>2
    <3>2. QED
      BY <3>1
  <2>3. CASE plans[1].op = "continue" /\ plans[2].op = "continue" /\ plans[3].op # "continue"
    <3>1. Ends(3)
      BY <2>3
    <3>2. QED
      BY <3>1
  <2>4. CASE plans[1].op = "continue" /\ plans[2].op = "continue" /\ plans[3].op = "continue"
    <3>1. Ends(4)
      BY <1>1, <2>4
    <3>2. QED
      BY <3>1
  <2>5. QED
    BY <2>1, <2>2, <2>3, <2>4
<1> DEFINE last == CHOOSE i \in 1..4 : Ends(i)
<1>3. last \in 1..4
  BY <1>2
<1>4. addBlockDevice(b, list) = plans[last]
  BY DEF addBlockDevice, plans
<1> HIDE DEF last
<1>5. PlanOK(addBlockDevice(b, list), b)
  BY <1>1, <1>3, <1>4
<1>6. ASSUME b.uuid \in UUID
      PROVE  PlanOK(PushBlockDeviceResource(b, list), b)
  <2>1. PlanOK(Skip, b) /\ PlanOK(createOrUpdate(b, b.uuid, "none", list, None), b)
    BY <1>6, SimplePlans
  <2>2. QED
    BY <2>1 DEF PushBlockDeviceResource
<1>7. QED
  BY <1>5, <1>6

\* A push writes one resource, after it deactivated at most the parent (ApplyPush).
LEMMA PushStep ==
    ASSUME BdsOK, NEW b \in BlockDevice, NEW p, PlanOK(p, b), p.op = "push", ApplyPush(p)
    PROVE  /\ BdsOK' /\ DOMAIN bds \subseteq DOMAIN bds'
           /\ \E err \in BOOLEAN : Done(err, FALSE)
<1>1. p.b = b /\ p.uuid \in UUID /\ (p.deact = None \/ p.deact \in DOMAIN bds)
  BY DEF PlanOK
<1>2. PICK up \in BOOLEAN :
        LET f == IF up /\ p.deact # None THEN Deactivated(bds, p.deact) ELSE bds
            old == IF p.uuid \in DOMAIN bds THEN f[p.uuid] ELSE NoBD
            new == Put(f, p.uuid, Merge(old, p.b, p.ann)) IN
        bds' \in {f, new} /\ \E err \in BOOLEAN : Done(err, FALSE)
  BY Zenon DEF ApplyPush, WriteAll
<1> DEFINE f == IF up /\ p.deact # None THEN Deactivated(bds, p.deact) ELSE bds
           old == IF p.uuid \in DOMAIN bds THEN f[p.uuid] ELSE NoBD
           new == Put(f, p.uuid, Merge(old, p.b, p.ann))
<1>3. f \in Lists /\ DOMAIN f = DOMAIN bds
  BY <1>1, DeactivatedList DEF BdsOK
<1>4. bds' \in {f, new}
  BY <1>2
<1> HIDE DEF f
<1>5. Merge(old, p.b, p.ann) \in Resource
  <2>1. CASE p.uuid \in DOMAIN bds
    <3>1. f[p.uuid] \in Resource
      BY <1>3, <2>1, ListFacts
    <3>2. QED
      BY <1>1, <2>1, <3>1, MergeTypes
  <2>2. CASE p.uuid \notin DOMAIN bds
    <3>1. \E r : r \in Resource
      <4> DEFINE r == [state |-> "Active", claim |-> "Unclaimed", path |-> b.path,
                       fstype |-> FALSE, fsuuid |-> None, ptuuid |-> None, on |-> None]
      <4>1. r \in Resource
        BY DEF Resource, BlockDevice
      <4>2. QED
        BY <4>1
    <3>2. QED
      BY <1>1, <2>2, <3>1, MergeTypes
  <2>3. QED
    BY <2>1, <2>2
<1> HIDE DEF old
<1>6. new \in Lists /\ DOMAIN new = (DOMAIN f) \cup {p.uuid}
  BY <1>1, <1>3, <1>5, PutList
<1> HIDE DEF new
<1>7. BdsOK' /\ DOMAIN bds \subseteq DOMAIN bds'
  BY <1>3, <1>4, <1>6 DEF BdsOK
<1>8. QED
  BY <1>2, <1>7, Zenon

\* The hardware after a table, and perhaps the first partition, is written to d.
LEMMA TableWellFormed ==
    ASSUME HwOK, NEW d \in Dev, NEW part \in SUBSET {e \in Dev : hw[e].on = d /\ hw[e].type = "partition"}
    PROVE  /\ WellFormed(WithTable(d, part))
           /\ \A x \in Dev \ ({d} \cup part) : WithTable(d, part)[x] = hw[x]
<1> DEFINE h == WithTable(d, part)
<1>1. hw \in [Dev -> Hw] /\ \A x \in Dev : hw[x] \in Hw
  BY DEF HwOK, WellFormed
<1>2. ASSUME NEW e \in part
      PROVE  e \in Dev /\ e # d /\ hw[e].on = d /\ hw[e].type = "partition" /\ hw[d].path \in Path
  BY <1>2 DEF HwOK, WellFormed
<1>3. ASSUME NEW e \in part
      PROVE  PartPath(hw[d].path) \in DevPath
  BY <1>2 DEF DevPath
<1>4. /\ h \in [Dev -> Hw] /\ h[d] = [hw[d] EXCEPT !.table = TRUE]
      /\ \A e \in part : h[e] = [hw[e] EXCEPT !.present = TRUE, !.path = PartPath(hw[d].path)]
      /\ \A x \in Dev \ ({d} \cup part) : h[x] = hw[x]
  <2>1. [hw[d] EXCEPT !.table = TRUE] \in Hw
    <3> DEFINE r == hw[d]
    <3>1. r \in Hw
      BY <1>1
    <3> HIDE DEF r
    <3>2. [r EXCEPT !.table = TRUE] \in Hw
      BY <3>1, Zenon DEF Hw
    <3>3. QED
      BY <3>2 DEF r
  <2>2. \A e \in part : [hw[e] EXCEPT !.present = TRUE, !.path = PartPath(hw[d].path)] \in Hw
    <3> TAKE e \in part
    <3> DEFINE p == PartPath(hw[d].path)
    <3>1. p \in DevPath /\ hw[e] \in Hw
      BY <1>1, <1>2, <1>3
    <3> HIDE DEF p
    <3>2. [hw[e] EXCEPT !.present = TRUE, !.path = p] \in Hw
      BY <3>1, Zenon DEF Hw
    <3>3. QED
      BY <3>2 DEF p
  <2>3. QED
    BY <1>1, <1>2, <2>1, <2>2, Zenon DEF WithTable
<1> HIDE DEF h
<1>4a. h[d].on = hw[d].on /\ h[d].type = hw[d].type /\ h[d].path = hw[d].path
       /\ h[d].present = hw[d].present /\ h[d].table
  BY <1>1, <1>4, Zenon DEF Hw
<1>4b. ASSUME NEW e \in part
       PROVE  h[e].on = hw[e].on /\ h[e].type = hw[e].type /\ h[e].table = hw[e].table
  <2> DEFINE p == PartPath(hw[d].path)
  <2>1. hw[e] \in Hw /\ h[e] = [hw[e] EXCEPT !.present = TRUE, !.path = p]
    BY <1>1, <1>4, Zenon
  <2> HIDE DEF p
  <2>2. QED
    BY <2>1 DEF Hw
<1>5. \A x \in Dev : h[x].on = hw[x].on /\ h[x].type = hw[x].type
  BY <1>4, <1>4a, <1>4b, Zenon
<1>6. h[d].table /\ \A x \in Dev : hw[x].table => h[x].table
  BY <1>4, <1>4a, <1>4b, Zenon
<1>7. \A x \in Dev \ part : h[x].present => hw[x].present
  BY <1>4, <1>4a, Zenon
<1>8. \A x \in Dev \ part : h[x].path = hw[x].path
  BY <1>4, <1>4a, Zenon
<1>9. ASSUME NEW x \in Dev
      PROVE  /\ h[x].on = None => h[x].path \in Path
             /\ h[x].type \in {"partition"} \cup DeviceMapperDeviceTypes =>
                  h[x].on # None /\ h[h[x].on].on = None
             /\ h[x].type = "partition" /\ h[x].present => h[h[x].on].table
  <2>1. hw[x] \in Hw /\ hw[x].on \in Dev \cup {None}
    BY <1>1 DEF Hw
  <2>2. h[x].on = None => h[x].path \in Path
    BY <1>2, <1>5, <1>8, StartAssumption DEF HwOK, WellFormed
  <2>3. h[x].type \in {"partition"} \cup DeviceMapperDeviceTypes =>
          h[x].on # None /\ h[h[x].on].on = None
    BY <1>5, <2>1 DEF HwOK, WellFormed
  <2>4. h[x].type = "partition" /\ h[x].present => h[h[x].on].table
    <3>1. CASE x \in part
      BY <1>2, <1>5, <1>6, <3>1
    <3>2. CASE x \notin part
      BY <1>5, <1>6, <1>7, <2>1, <3>2 DEF HwOK, WellFormed
    <3>3. QED
      BY <3>1, <3>2
  <2>5. QED
    BY <2>2, <2>3, <2>4
<1>10. QED
  BY <1>4, <1>9, Zenon DEF WellFormed, h

\* An event is a message about a device, with no name.
LEMMA EventTypes ==
    ASSUME NEW h, WellFormed(h), NEW d \in Dev, NEW a \in {"add", "remove", "change"}
    PROVE  Event(h, a, d) \in Message
  BY DetailsTypes DEF Event, Message

\* The events of a new table.
LEMMA AnnounceTypes ==
    ASSUME NEW h, WellFormed(h), NEW d \in Dev, NEW part \in SUBSET Dev
    PROVE  Announce(h, d, part) \in Seq(Message)
<1>1. Event(h, "change", d) \in Message /\ \A e \in Dev : Event(h, "add", e) \in Message
  BY EventTypes
<1>2. CASE part = {}
  BY <1>1, <1>2 DEF Announce
<1>3. CASE part # {}
  <2>1. (CHOOSE e \in part : TRUE) \in Dev
    BY <1>3
  <2>2. QED
    BY <1>1, <1>3, <2>1 DEF Announce
<1>4. QED
  BY <1>2, <1>3

\* The order in which udev lists a set of devices (InOrder).
LEMMA SeqOfSet ==
    ASSUME NEW S, IsFiniteSet(S)
    PROVE  Cardinality(S) \in Nat /\ InOrder(S) \in [1..Cardinality(S) -> S]
<1>1. Cardinality(S) \in Nat /\ ExistsBijection(1..Cardinality(S), S)
  BY FS_CardinalityType
<1>2. InOrder(S) \in Bijection(1..Cardinality(S), S)
  BY <1>1 DEF ExistsBijection, InOrder
<1>3. QED
  BY <1>1, <1>2 DEF Bijection, Injection

\* A device that appears, goes away or is formatted leaves the hardware well formed.
LEMMA HwChange ==
    ASSUME NEW g, WellFormed(g), NEW h \in [Dev -> Hw],
           \A x \in Dev : /\ h[x].on = g[x].on /\ h[x].type = g[x].type /\ h[x].table = g[x].table
                          /\ h[x].path = g[x].path \/ h[x].path \in Path
                          /\ h[x].present => g[x].present \/ g[x].on = None
    PROVE  WellFormed(h)
<1>1. ASSUME NEW x \in Dev
      PROVE  /\ h[x].on = None => h[x].path \in Path
             /\ h[x].type \in {"partition"} \cup DeviceMapperDeviceTypes =>
                  h[x].on # None /\ h[h[x].on].on = None
             /\ h[x].type = "partition" /\ h[x].present => h[h[x].on].table
  <2>1. g[x].on \in Dev \cup {None}
    BY Zenon DEF WellFormed, Hw
  <2>2. QED
    BY <2>1, SMTT(20) DEF WellFormed
<1>2. QED
  BY <1>1, Zenon DEF WellFormed

\* The events of partitions that go (Removed).
LEMMA RemovedTypes ==
    ASSUME HwOK, NEW S, S \subseteq Dev
    PROVE  Removed(hw, S) \in Seq(Message)
<1>1. IsFiniteSet(S)
  BY StartAssumption, FS_Subset, Zenon
<1>2. Cardinality(S) \in Nat /\ \A i \in 1..Cardinality(S) : InOrder(S)[i] \in Dev
  BY <1>1, SeqOfSet
<1>3. \A i \in 1..Cardinality(S) : Event(hw, "remove", InOrder(S)[i]) \in Message
  BY <1>2, EventTypes DEF HwOK
<1>4. QED
  BY <1>2, <1>3 DEF Removed

\* A table that NDM writes replaces the partitions that are there, and changes only the
\* disk and its partitions (Rewritten).
LEMMA RewrittenFacts ==
    ASSUME HwOK, NEW d \in Dev,
           NEW part \in SUBSET {e \in Dev : hw[e].on = d /\ hw[e].type = "partition"}
    PROVE  /\ WellFormed(Rewritten(d, part))
           /\ \A x \in Dev : Rewritten(d, part)[x] # hw[x] => x = d \/ hw[x].on = d
<1> DEFINE g == WithTable(d, part)
           h == Rewritten(d, part)
           gone == Children(hw, d) \ part
<1>1. WellFormed(g) /\ \A x \in Dev \ ({d} \cup part) : g[x] = hw[x]
  BY TableWellFormed
<1>2. \A x \in gone : x \in Dev /\ hw[x].on = d /\ hw[x].type = "partition" /\ x # d
  BY DEF Children, HwOK, WellFormed
<1>3. \A x \in Dev : g[x] \in Hw
  BY <1>1 DEF WellFormed
<1>4. h = [x \in Dev |-> IF x \in gone THEN [hw[x] EXCEPT !.present = FALSE]
                         ELSE IF x = d THEN [g[x] EXCEPT !.fs = FALSE] ELSE g[x]]
  BY DEF Rewritten
<1>5. \A x \in gone : g[x] = hw[x]
  BY <1>1, <1>2
<1>6. ASSUME NEW r \in Hw
      PROVE  /\ [r EXCEPT !.present = FALSE] \in Hw /\ ~[r EXCEPT !.present = FALSE].present
             /\ [r EXCEPT !.fs = FALSE] \in Hw /\ [r EXCEPT !.fs = FALSE].present = r.present
             /\ \A c \in {[r EXCEPT !.present = FALSE], [r EXCEPT !.fs = FALSE]} :
                  c.on = r.on /\ c.type = r.type /\ c.table = r.table /\ c.path = r.path
  BY <1>6, Zenon DEF Hw
<1> HIDE DEF g, gone, h
<1>7. h \in [Dev -> Hw]
  BY <1>1, <1>2, <1>3, <1>4, <1>5, <1>6, Zenon
<1>8. ASSUME NEW x \in Dev
      PROVE  /\ h[x].on = g[x].on /\ h[x].type = g[x].type /\ h[x].table = g[x].table
             /\ h[x].path = g[x].path /\ (h[x].present => g[x].present)
  <2>1. h[x] = [g[x] EXCEPT !.present = FALSE] \/ h[x] = [g[x] EXCEPT !.fs = FALSE] \/ h[x] = g[x]
    BY <1>4, <1>5, Zenon
  <2>2. CASE h[x] = [g[x] EXCEPT !.present = FALSE]
    <3> DEFINE r == g[x]
    <3>1. r \in Hw /\ h[x] = [r EXCEPT !.present = FALSE]
      BY <1>3, <2>2
    <3> HIDE DEF r
    <3>2. ~h[x].present /\ h[x].on = r.on /\ h[x].type = r.type /\ h[x].table = r.table /\ h[x].path = r.path
      BY <3>1 DEF Hw
    <3>3. QED
      BY <3>2 DEF r
  <2>3. CASE h[x] = [g[x] EXCEPT !.fs = FALSE]
    BY <1>3, <1>6, <2>3, Zenon
  <2>4. QED
    BY <2>1, <2>2, <2>3, Zenon
<1>9. WellFormed(h)
  BY <1>1, <1>7, <1>8, HwChange, Zenon
<1>10. \A x \in Dev : h[x] # hw[x] => x = d \/ hw[x].on = d
  BY <1>1, <1>2, <1>4, Zenon
<1>11. QED
  BY <1>9, <1>10 DEF h

\* The parts of the invariant that a step leaves alone while the BlockDevices of the
\* node only grow in number.
LEMMA Keeps ==
    ASSUME DOMAIN bds \subseteq DOMAIN bds', UNCHANGED gates
    PROVE  /\ LstOK /\ UNCHANGED lst => LstOK'
           /\ ScanOK /\ UNCHANGED scan => ScanOK'
           /\ MsgOK /\ UNCHANGED <<udevq, mon>> => MsgOK'
           /\ lst' = lstIdle => LstOK'
<1>2. \A b : (Gpt' \/ b.uuid \in UUID) <=> Named(b)
  BY DEF Gpt, Named
<1>3. LstOK /\ UNCHANGED lst => LstOK'
  BY <1>2 DEF LstOK, Named
<1>4. ScanOK /\ UNCHANGED scan => ScanOK'
  BY <1>2 DEF ScanOK, Named
<1>5. MsgOK /\ UNCHANGED <<udevq, mon>> => MsgOK'
  BY <1>2 DEF MsgOK, Named
<1>6. lst' = lstIdle => LstOK'
  BY ListFacts DEF LstOK, lstIdle, ListenerState
<1>7. QED
  BY <1>3, <1>4, <1>5, <1>6

\* a scan that is not at work yet, or no longer
Resting(r) == r \in ScanState /\ r.todo = {} /\ r.devs = <<>>

\* The states of a scan that has seen nothing are such states (scanIdle).
LEMMA IdleScan ==
    /\ Resting(scanIdle) /\ Resting([scanIdle EXCEPT !.pc = "spawned"])
    /\ Resting([scanIdle EXCEPT !.pc = "sent"])
    /\ Resting([scanIdle EXCEPT !.pc = "spawned", !.own = FALSE])
<1>1. scanIdle \in ScanState
  <2>1. <<>> \in Seq(BlockDevice) /\ {} \in SUBSET UUID /\ "idle" \in ScanStates
    BY DEF ScanStates
  <2>2. QED
    BY <2>1 DEF ScanState, scanIdle
<1>2. scanIdle.todo = {} /\ scanIdle.devs = <<>>
  BY DEF scanIdle
<1>3. ASSUME NEW r \in ScanState, r.todo = {}, r.devs = <<>>, NEW p \in ScanStates
      PROVE  Resting([r EXCEPT !.pc = p])
  BY <1>3 DEF ScanState, Resting
<1>4. ASSUME NEW r \in ScanState, r.todo = {}, r.devs = <<>>, NEW p \in ScanStates
      PROVE  Resting([r EXCEPT !.pc = p, !.own = FALSE])
  BY <1>4, Zenon DEF ScanState, Resting
<1>5. "spawned" \in ScanStates /\ "sent" \in ScanStates
  BY DEF ScanStates
<1>6. QED
  BY <1>1, <1>2, <1>3, <1>4, <1>5, Zenon DEF Resting

\* One scan changes its state.
LEMMA ScanStep ==
    ASSUME ScanOK, DOMAIN bds \subseteq DOMAIN bds', UNCHANGED gates,
           NEW s \in Scanner, NEW r \in ScanState, scan' = [scan EXCEPT ![s] = r],
           r.todo \subseteq DOMAIN bds', \A i \in DOMAIN r.devs : Named(r.devs[i])
    PROVE  ScanOK'
<1>1. scan' \in [Scanner -> ScanState] /\ scan'[s] = r /\ \A x \in Scanner \ {s} : scan'[x] = scan[x]
  BY DEF ScanOK
<1>2. QED
  BY <1>1 DEF ScanOK, Named, Gpt

\* One scan starts or ends.
LEMMA RestingStep ==
    ASSUME ScanOK, DOMAIN bds \subseteq DOMAIN bds', UNCHANGED gates,
           NEW s \in Scanner, NEW r, Resting(r), scan' = [scan EXCEPT ![s] = r]
    PROVE  ScanOK'
<1>1. r \in ScanState /\ r.todo = {} /\ r.devs = <<>>
  BY DEF Resting
<1>2. DOMAIN r.devs = {}
  BY <1>1
<1>3. r.todo \subseteq DOMAIN bds' /\ \A i \in DOMAIN r.devs : Named(r.devs[i])
  BY <1>1, <1>2
<1>4. QED
  BY <1>1, <1>3, ScanStep, Zenon

\* A goroutine that enters Rescan has seen nothing yet (Spawn).
LEMMA SpawnStep ==
    ASSUME ScanOK, DOMAIN bds \subseteq DOMAIN bds', UNCHANGED gates,
           scan' = Spawn(scan) \/ scan' = scan
    PROVE  ScanOK'
<1>1. CASE scan' = scan
  BY <1>1, Keeps
<1>2. CASE scan' # scan
  <2> DEFINE s == CHOOSE x \in Scanner : scan[x].pc = "idle"
             new == [scanIdle EXCEPT !.pc = "spawned"]
  <2>0. \E x \in Scanner : scan[x].pc = "idle"
    BY <1>2, Zenon DEF Spawn
  <2>1. s \in Scanner /\ scan' = [scan EXCEPT ![s] = new]
    <3>1. scan' = [scan EXCEPT ![s] = new]
      BY <1>2, <2>0, Zenon DEF Spawn
    <3>2. s \in Scanner
      BY <2>0
    <3>3. QED
      BY <3>1, <3>2
  <2>2. Resting(new)
    BY IdleScan
  <2> HIDE DEF s, new
  <2>3. QED
    BY <2>1, <2>2, RestingStep, Zenon
<1>3. QED
  BY <1>1, <1>2

\* The handler of a device returns (Done): the listener goes on with the next one.
LEMMA DoneStep ==
    ASSUME LstOK, lst.pc = "add", DOMAIN bds \subseteq DOMAIN bds', UNCHANGED gates,
           NEW err \in BOOLEAN, NEW need \in BOOLEAN, Done(err, need)
    PROVE  LstOK'
<1> DEFINE h == Head(lst.devs)
           e == IF err THEN lst.errored \cup {h.path} ELSE lst.errored
           t == Tail(lst.devs)
           n == lst.need \/ err \/ need
<1>1. lst \in ListenerState /\ lst.devs \in Seq(BlockDevice) /\ lst.devs # <<>> /\ lst.action = "add"
      /\ lst.list \in Lists
  BY DEF LstOK, ListenerState
<1>2. h \in BlockDevice /\ t \in Seq(BlockDevice) /\ \A i \in DOMAIN t : i + 1 \in DOMAIN lst.devs /\ t[i] = lst.devs[i + 1]
  BY <1>1
<1>3. e \in SUBSET DevPath
  BY <1>1, <1>2 DEF ListenerState, BlockDevice
<1>4. n \in BOOLEAN
  BY <1>1 DEF ListenerState
<1>5. lst' = [lst EXCEPT !.pc = "next", !.devs = t, !.need = n, !.errored = e]
  BY DEF Done
<1> HIDE DEF h, e, t, n
<1>6. lst' \in ListenerState /\ lst'.pc = "next" /\ lst'.devs = t /\ lst'.action = "add"
      /\ lst'.list = lst.list
  BY <1>1, <1>2, <1>3, <1>4, <1>5, Zenon DEF ListenerState
<1>7. \A i \in DOMAIN t : Named(t[i])
  BY <1>1, <1>2 DEF LstOK
<1>8. QED
  BY <1>6, <1>7 DEF LstOK, Named, Gpt

\* The open disk is looked at and written to (CheckFileSystem, WriteTable): the invariant
\* is kept, and only the disk that was opened and its partitions change.
LEMMA TableStep ==
    ASSUME EventInv, FdOK, CheckFileSystem \/ WriteTable
    PROVE  /\ EventInv'
           /\ \A d \in Dev : hw'[d] # hw[d] => fd.d # None /\ (d = fd.d \/ hw[d].on = fd.d)
<1>1. HwOK /\ BdsOK /\ HierOK /\ MsgOK /\ LstOK /\ ScanOK /\ sem \in BOOLEAN /\ probes \in 0..2
      /\ udevq \in Seq(Message) /\ lst.pc = "add"
  BY DEF EventInv, MsgOK, FdOK, CheckFileSystem, WriteTable
<1>2. UNCHANGED <<gates, probes, bds, hier, mon, sem, scan>>
  BY DEF CheckFileSystem, WriteTable
<1>3. SUFFICES /\ HwOK' /\ udevq' \in Seq(Message)
               /\ lst' = lst \/ \E err, need \in BOOLEAN : Done(err, need)
               /\ \A d \in Dev : hw'[d] # hw[d] => fd.d # None /\ (d = fd.d \/ hw[d].on = fd.d)
  <2>1. LstOK'
    BY <1>1, <1>2, <1>3, DoneStep, Keeps, Zenon
  <2>2. MsgOK'
    BY <1>1, <1>2, <1>3 DEF MsgOK, Named, Gpt
  <2>3. ScanOK'
    BY <1>1, <1>2, Keeps
  <2>4. QED
    BY <1>1, <1>2, <1>3, <2>1, <2>2, <2>3 DEF EventInv, BdsOK, HierOK
<1>4. CASE UNCHANGED <<hw, udevq>> /\ (lst' = lst \/ Done(TRUE, FALSE))
  BY <1>1, <1>4, Zenon DEF HwOK
<1>5. CASE CheckFileSystem
  BY <1>4, <1>5, Zenon DEF CheckFileSystem
<1>6. CASE WriteTable
  <2> DEFINE d == fd.d
             single == "PartitionTableUUID" \notin gates
             part == {e \in Dev : single /\ hw[e].on = d /\ hw[e].type = "partition"}
             kids == Children(hw, d)
  <2>1. CASE UNCHANGED <<hw, udevq>> /\ Done(TRUE, FALSE)
    BY <1>4, <2>1, Zenon
  <2>2. CASE /\ d # None /\ hw' = Rewritten(d, part) /\ Done(FALSE, ~single)
             /\ udevq' = udevq \o Removed(hw, kids) \o Announce(hw', d, part)
    <3>1. d \in Dev /\ part \in SUBSET {e \in Dev : hw[e].on = d /\ hw[e].type = "partition"}
          /\ kids \subseteq Dev /\ part \in SUBSET Dev
      BY <2>2 DEF FdOK, Children
    <3>2. /\ hw' = Rewritten(d, part) /\ Done(FALSE, ~single)
          /\ udevq' = udevq \o Removed(hw, kids) \o Announce(hw', d, part)
      BY <2>2
    <3>3. (~single) \in BOOLEAN
      OBVIOUS
    <3> HIDE DEF d, part, single, kids
    <3>4. WellFormed(hw') /\ \A x \in Dev : hw'[x] # hw[x] => x = d \/ hw[x].on = d
      BY <1>1, <3>1, <3>2, RewrittenFacts, Zenon
    <3>5. Removed(hw, kids) \in Seq(Message) /\ Announce(hw', d, part) \in Seq(Message)
      BY <1>1, <3>1, <3>4, RemovedTypes, AnnounceTypes, Zenon
    <3>6. udevq' \in Seq(Message)
      BY <1>1, <3>2, <3>5
    <3>7. QED
      BY <2>2, <3>2, <3>3, <3>4, <3>6, Zenon DEF HwOK, d
  <2>3. QED
    BY <1>6, <2>1, <2>2, Zenon DEF WriteTable
<1>7. QED
  BY <1>5, <1>6

\* The listener takes a message: one device of an event, or the devices of a scan.
LEMMA MessageStep ==
    ASSUME UNCHANGED gates, NEW a \in {"add", "remove", "change"}, NEW ds \in Seq(BlockDevice),
           a = "add" => \A i \in DOMAIN ds : Named(ds[i]), a = "add" \/ ds # <<>>,
           lst' = [lstIdle EXCEPT !.pc = "list", !.action = a, !.devs = ds]
    PROVE  LstOK'
<1>1. lstIdle \in ListenerState /\ DOMAIN lstIdle.list = {}
  BY ListFacts DEF ListenerState, lstIdle
<1>2. lst' \in ListenerState /\ lst'.pc = "list" /\ lst'.action = a /\ lst'.devs = ds
      /\ DOMAIN lst'.list = {}
  BY <1>1, Zenon DEF ListenerState
<1>3. QED
  BY <1>2 DEF LstOK, Named, Gpt

\* Receive keeps the invariant.
LEMMA ReceiveStep ==
    ASSUME EventInv, Receive
    PROVE  EventInv'
<1>1. HwOK /\ BdsOK /\ HierOK /\ MsgOK /\ LstOK /\ ScanOK /\ sem \in BOOLEAN /\ probes \in 0..2
  BY DEF EventInv
<1>2. UNCHANGED <<gates, probes, hw, bds, hier, udevq, sem>>
  BY Zenon DEF Receive, envVars
<1>3. HwOK' /\ BdsOK' /\ HierOK' /\ sem' \in BOOLEAN /\ probes' \in 0..2
  BY <1>1, <1>2 DEF HwOK, BdsOK, HierOK
<1>4. CASE /\ mon # None /\ mon' = None /\ UNCHANGED scan
           /\ lst' = [lstIdle EXCEPT !.pc = "list", !.action = mon.action, !.devs = <<mon.b>>]
  <2>1. mon \in Message /\ (mon.action = "add" => Named(mon.b))
    BY <1>1, <1>4 DEF MsgOK
  <2>2. mon.action \in {"add", "remove", "change"} /\ mon.b \in BlockDevice
    BY <2>1 DEF Message
  <2>3. LstOK'
    <3>1. <<mon.b>> \in Seq(BlockDevice) /\ <<mon.b>> # <<>>
          /\ \A i \in DOMAIN <<mon.b>> : <<mon.b>>[i] = mon.b
      BY <2>2
    <3>2. QED
      BY <1>2, <1>4, <2>1, <2>2, <3>1, MessageStep, Zenon
  <2>4. MsgOK' /\ ScanOK'
    BY <1>1, <1>2, <1>4, Keeps DEF MsgOK
  <2>5. QED
    BY <1>3, <2>3, <2>4 DEF EventInv
<1>5. ASSUME NEW s \in Scanner, UNCHANGED mon,
             lst' = [lstIdle EXCEPT !.pc = "list", !.action = "add", !.devs = scan[s].devs],
             scan' = [scan EXCEPT ![s] = [scanIdle EXCEPT !.pc = "sent"]]
      PROVE  EventInv'
  <2>1. scan[s].devs \in Seq(BlockDevice) /\ \A i \in DOMAIN scan[s].devs : Named(scan[s].devs[i])
    BY <1>1 DEF ScanOK, ScanState
  <2>2. LstOK'
    BY <1>2, <1>5, <2>1, MessageStep, Zenon
  <2>3. ScanOK'
    BY <1>1, <1>2, <1>5, IdleScan, RestingStep, Zenon
  <2>4. MsgOK'
    BY <1>1, <1>2, <1>5, Keeps
  <2>5. QED
    BY <1>3, <2>2, <2>3, <2>4 DEF EventInv
<1>6. QED
  BY <1>4, <1>5, Zenon DEF Receive

\* ListResources keeps the invariant.
LEMMA ListStep ==
    ASSUME EventInv, ListResources
    PROVE  EventInv'
<1>1. HwOK /\ BdsOK /\ HierOK /\ MsgOK /\ LstOK /\ ScanOK /\ sem \in BOOLEAN /\ probes \in 0..2
  BY DEF EventInv
<1>2. UNCHANGED <<gates, probes, hw, bds, hier, udevq, mon, sem>>
  BY DEF ListResources, envVars
<1>3. HwOK' /\ BdsOK' /\ HierOK' /\ MsgOK' /\ sem' \in BOOLEAN /\ probes' \in 0..2
  BY <1>1, <1>2, Keeps DEF HwOK, BdsOK, HierOK
<1>4. ScanOK'
  <2>1. scan' = Spawn(scan) \/ scan' = scan
    BY DEF ListResources
  <2>2. QED
    BY <1>1, <1>2, <2>1, SpawnStep
<1>5. LstOK'
  <2>1. lst.pc = "list" /\ lst \in ListenerState /\ bds \in Lists
    BY <1>1 DEF ListResources, LstOK, BdsOK
  <2>2. CASE lst' = lstIdle
    BY <1>2, <2>2, Keeps
  <2>3. CASE lst' = [lst EXCEPT !.pc = "next", !.list = bds]
    <3>1. lst' \in ListenerState /\ lst'.pc = "next" /\ lst'.list = bds /\ lst'.devs = lst.devs
          /\ lst'.action = lst.action
      BY <2>1, <2>3, Zenon DEF ListenerState
    <3>2. QED
      BY <1>1, <1>2, <2>1, <3>1 DEF LstOK, Named, Gpt
  <2>4. CASE lst' = [lst EXCEPT !.pc = "next"]
    <3>1. lst' \in ListenerState /\ lst'.pc = "next" /\ lst'.list = lst.list /\ lst'.devs = lst.devs
          /\ lst'.action = lst.action
      BY <2>1, <2>4 DEF ListenerState
    <3>2. QED
      BY <1>1, <1>2, <2>1, <3>1 DEF LstOK, Named, Gpt
  <2>5. QED
    BY <2>2, <2>3, <2>4 DEF ListResources
<1>6. QED
  BY <1>3, <1>4, <1>5 DEF EventInv

\* The devices the listener has still to handle, the first of them apart.
LEMMA Waiting ==
    ASSUME LstOK, lst.devs # <<>>
    PROVE  /\ Head(lst.devs) \in BlockDevice /\ Tail(lst.devs) \in Seq(BlockDevice)
           /\ lst.action = "add" => /\ Named(Head(lst.devs))
                                    /\ \A i \in DOMAIN Tail(lst.devs) : Named(Tail(lst.devs)[i])
<1>1. lst.devs \in Seq(BlockDevice)
  BY DEF LstOK, ListenerState
<1>2. /\ Head(lst.devs) = lst.devs[1] /\ 1 \in DOMAIN lst.devs /\ lst.devs[1] \in BlockDevice
      /\ Tail(lst.devs) \in Seq(BlockDevice)
      /\ \A i \in DOMAIN Tail(lst.devs) : i + 1 \in DOMAIN lst.devs /\ Tail(lst.devs)[i] = lst.devs[i + 1]
  BY <1>1
<1>3. QED
  BY <1>2 DEF LstOK

\* FillDevice keeps the invariant.
LEMMA FillStep ==
    ASSUME EventInv, FillDevice
    PROVE  EventInv'
<1> DEFINE b == FillBlockDeviceDetails(Head(lst.devs), FALSE)
           t == Tail(lst.devs)
<1>1. HwOK /\ BdsOK /\ HierOK /\ MsgOK /\ LstOK /\ ScanOK /\ sem \in BOOLEAN /\ probes \in 0..2
  BY DEF EventInv
<1>2. UNCHANGED <<gates, probes, hw, bds, udevq, mon, sem, scan>>
  BY DEF FillDevice, envVars
<1>3. HwOK' /\ BdsOK' /\ MsgOK' /\ ScanOK' /\ sem' \in BOOLEAN /\ probes' \in 0..2
  BY <1>1, <1>2, Keeps DEF HwOK, BdsOK
<1>4. b \in BlockDevice /\ Named(b) /\ t \in Seq(BlockDevice) /\ \A i \in DOMAIN t : Named(t[i])
  <2>1. lst.action = "add" /\ lst.devs # <<>>
    BY DEF FillDevice
  <2>2. Head(lst.devs) \in BlockDevice /\ Named(Head(lst.devs)) /\ t \in Seq(BlockDevice)
        /\ \A i \in DOMAIN t : Named(t[i])
    BY <1>1, <2>1, Waiting
  <2>3. QED
    BY <1>1, <2>2, FillTypes, Zenon DEF Named
<1>5. /\ hier' = Put(hier, b.path, b)
      /\ \/ lst' = [lst EXCEPT !.devs = t]
         \/ lst' = [lst EXCEPT !.pc = "add", !.devs = <<b>> \o t]
      /\ lst.pc = "next" /\ lst.action = "add"
  BY DEF FillDevice, addBlockDeviceToHierarchyCache
<1> HIDE DEF b, t
<1>6. HierOK'
  BY <1>1, <1>4, <1>5, PutCache, Zenon DEF HierOK
<1>7. LstOK'
  <2>1. lst \in ListenerState
    BY <1>1 DEF LstOK
  <2>2. CASE lst' = [lst EXCEPT !.devs = t]
    <3>1. lst' \in ListenerState /\ lst'.pc = "next" /\ lst'.list = lst.list /\ lst'.devs = t
          /\ lst'.action = "add"
      BY <1>4, <1>5, <2>1, <2>2 DEF ListenerState
    <3>2. QED
      BY <1>1, <1>2, <1>4, <3>1 DEF LstOK, Named, Gpt
  <2>3. CASE lst' = [lst EXCEPT !.pc = "add", !.devs = <<b>> \o t]
    <3> DEFINE ds == <<b>> \o t
    <3>1. ds \in Seq(BlockDevice) /\ ds # <<>> /\ \A i \in DOMAIN ds : Named(ds[i])
      <4>1. ds \in Seq(BlockDevice) /\ ds # <<>>
        BY <1>4
      <4>2. ASSUME NEW i \in DOMAIN ds
            PROVE  ds[i] = b \/ (i - 1 \in DOMAIN t /\ ds[i] = t[i - 1])
        BY <1>4
      <4>3. QED
        BY <1>4, <4>1, <4>2
    <3> HIDE DEF ds
    <3>2. lst' = [lst EXCEPT !.pc = "add", !.devs = ds]
      BY <2>3 DEF ds
    <3>3. lst' \in ListenerState /\ lst'.pc = "add" /\ lst'.list = lst.list /\ lst'.devs = ds
          /\ lst'.action = "add"
      BY <1>5, <2>1, <3>1, <3>2, Zenon DEF ListenerState
    <3>4. QED
      BY <1>1, <1>2, <3>1, <3>3 DEF LstOK, Named, Gpt
  <2>4. QED
    BY <1>5, <2>2, <2>3
<1>8. QED
  BY <1>3, <1>6, <1>7 DEF EventInv

\* AddDevice keeps the invariant.
LEMMA AddStep ==
    ASSUME EventInv, AddDevice
    PROVE  EventInv'
<1> DEFINE b == Head(lst.devs)
           uuid == generateUUID(b, gates)
           p == IF Gpt THEN addBlockDevice(b, lst.list) ELSE PushBlockDeviceResource(b, lst.list)
<1>1. HwOK /\ BdsOK /\ HierOK /\ MsgOK /\ LstOK /\ ScanOK /\ sem \in BOOLEAN /\ probes \in 0..2
  BY DEF EventInv
<1>2. UNCHANGED <<gates, probes, hw, udevq, mon, sem, scan>> /\ lst.pc = "add"
  BY DEF AddDevice
<1>3. b \in BlockDevice /\ Named(b) /\ lst.list \in Lists
  <2>1. lst.action = "add" /\ lst.devs # <<>> /\ lst.list \in Lists
    BY <1>1, <1>2 DEF LstOK, ListenerState
  <2>2. QED
    BY <1>1, <2>1, Waiting
<1>4. PlanOK(p, b)
  BY <1>3, AddPlans DEF Named
<1>5. hier' = hier \/ (uuid # None /\ hier' = Put(hier, [b EXCEPT !.uuid = uuid].path, [b EXCEPT !.uuid = uuid]))
  BY DEF AddDevice, addBlockDeviceToHierarchyCache
<1>6. \/ OpenDisk(b) /\ UNCHANGED bds
      \/ p.op = "push" /\ ApplyPush(p)
      \/ Done(p.op = "error", FALSE) /\ UNCHANGED bds
  BY <1>4, Zenon DEF AddDevice, PlanOK
<1> HIDE DEF p
<1>7. HierOK'
  <2> DEFINE c == [b EXCEPT !.uuid = uuid]
  <2>1. CASE hier' = hier
    BY <1>1, <2>1 DEF HierOK
  <2>2. CASE uuid # None /\ hier' = Put(hier, c.path, c)
    <3>1. uuid \in UUID \cup {None}
      BY <1>3, NameTypes
    <3> HIDE DEF b, uuid
    <3>2. c \in BlockDevice
      BY <1>3, <3>1 DEF BlockDevice
    <3> HIDE DEF c
    <3>3. QED
      BY <1>1, <2>2, <3>2, PutCache DEF HierOK
  <2>3. QED
    BY <1>5, <2>1, <2>2
<1> HIDE DEF b
<1>8. SUFFICES /\ BdsOK' /\ DOMAIN bds \subseteq DOMAIN bds'
               /\ lst' = lst \/ \E err, need \in BOOLEAN : Done(err, need)
  <2>1. LstOK'
    BY <1>1, <1>2, <1>8, DoneStep, Keeps, Zenon
  <2>2. MsgOK' /\ ScanOK'
    BY <1>1, <1>2, <1>8, Keeps, Zenon
  <2>3. HwOK' /\ sem' \in BOOLEAN /\ probes' \in 0..2
    BY <1>1, <1>2 DEF HwOK
  <2>4. QED
    BY <1>7, <1>8, <2>1, <2>2, <2>3 DEF EventInv
<1>9. CASE OpenDisk(b) /\ UNCHANGED bds
  <2>1. lst' = lst \/ Done(TRUE, FALSE)
    BY <1>9, Zenon DEF OpenDisk
  <2>2. QED
    BY <1>1, <1>9, <2>1, Zenon DEF BdsOK
<1>10. CASE p.op = "push" /\ ApplyPush(p)
  <2>1. BdsOK' /\ DOMAIN bds \subseteq DOMAIN bds' /\ \E err \in BOOLEAN : Done(err, FALSE)
    BY <1>1, <1>3, <1>4, <1>10, PushStep, Zenon
  <2>2. QED
    BY <2>1, Zenon
<1>11. CASE Done(p.op = "error", FALSE) /\ UNCHANGED bds
  <2>1. (p.op = "error") \in BOOLEAN
    OBVIOUS
  <2>2. QED
    BY <1>1, <1>11, <2>1, Zenon DEF BdsOK
<1>12. QED
  BY <1>6, <1>9, <1>10, <1>11, Zenon

\* FinishAdd keeps the invariant.
LEMMA FinishStep ==
    ASSUME EventInv, FinishAdd
    PROVE  EventInv'
<1>1. UNCHANGED <<gates, probes, hw, bds, hier, udevq, mon, sem>> /\ lst' = lstIdle
      /\ (scan' = Spawn(scan) \/ scan' = scan)
  BY DEF FinishAdd, envVars
<1>2. ScanOK' /\ LstOK' /\ MsgOK'
  BY <1>1, SpawnStep, Keeps DEF EventInv
<1>3. QED
  BY <1>1, <1>2 DEF EventInv, HwOK, BdsOK, HierOK

\* What deleteBlockDevice deactivates is in the list.
LEMMA DeleteNames ==
    ASSUME NEW b, NEW list
    PROVE  deleteBlockDevice(b, list) = None \/ deleteBlockDevice(b, list) \in DOMAIN list
<1> DEFINE marked == IF getExistingBDWithFsUuid(b, list) # {}
                     THEN getExistingBDWithFsUuid(b, list)
                     ELSE IF b.type # "partition"
                          THEN getExistingBDWithPartitionUUID(b, list) ELSE {}
<1>1. marked \subseteq DOMAIN list
  BY DEF getExistingBDWithFsUuid, getExistingBDWithPartitionUUID
<1> HIDE DEF marked
<1>2. QED
  BY <1>1, Zenon DEF deleteBlockDevice, marked

\* DeleteDevice keeps the invariant.
LEMMA DeleteStep ==
    ASSUME EventInv, DeleteDevice
    PROVE  EventInv'
<1> DEFINE b == Head(lst.devs)
           legacy == IF b.type # "partition" /\ b.uuid \in DOMAIN lst.list THEN b.uuid ELSE None
           u == IF Gpt THEN deleteBlockDevice(b, lst.list) ELSE legacy
<1>1. HwOK /\ BdsOK /\ HierOK /\ MsgOK /\ LstOK /\ ScanOK /\ sem \in BOOLEAN /\ probes \in 0..2
  BY DEF EventInv
<1>2. UNCHANGED <<gates, probes, hw, udevq, mon, sem>> /\ lst' = lstIdle
      /\ (scan' = Spawn(scan) \/ scan' = scan)
  BY Zenon DEF DeleteDevice, envVars
<1>3. hier' = hier \/ hier' = [q \in (DOMAIN hier) \ {b.path} |-> hier[q]]
  BY Zenon DEF DeleteDevice
<1>4. HierOK'
  <2> DEFINE f == [q \in (DOMAIN hier) \ {b.path} |-> hier[q]]
  <2>1. CASE hier' = hier
    BY <1>1, <2>1 DEF HierOK
  <2>2. CASE hier' = f
    <3>1. DOMAIN hier \subseteq DevPath /\ hier \in [DOMAIN hier -> BlockDevice]
          /\ \A q \in DOMAIN hier : hier[q].path = q
      BY <1>1, ListFacts DEF HierOK
    <3>2. DOMAIN f \subseteq DOMAIN hier /\ f \in [DOMAIN f -> BlockDevice]
          /\ \A q \in DOMAIN f : f[q] = hier[q]
      BY <3>1
    <3> HIDE DEF f
    <3>3. QED
      BY <2>2, <3>1, <3>2, ListFacts DEF HierOK
  <2>3. QED
    BY <1>3, <2>1, <2>2
<1>5. bds' = bds \/ (u # None /\ bds' = Deactivated(bds, u))
  BY Zenon DEF DeleteDevice, WriteAll
<1>6. u # None => u \in DOMAIN bds
  BY <1>1, DeleteNames, Zenon DEF LstOK
<1> HIDE DEF u
<1>7. BdsOK' /\ DOMAIN bds' = DOMAIN bds
  BY <1>1, <1>5, <1>6, DeactivatedList DEF BdsOK
<1>8. ScanOK' /\ LstOK' /\ MsgOK'
  BY <1>1, <1>2, <1>7, SpawnStep, Keeps
<1>9. QED
  BY <1>1, <1>2, <1>4, <1>7, <1>8, Zenon DEF EventInv, HwOK

\* ChangeDevice keeps the invariant.
LEMMA ChangeStep ==
    ASSUME EventInv, ChangeDevice
    PROVE  EventInv'
<1> DEFINE path == Head(lst.devs).path
           filled == FillBlockDeviceDetails(hier[path], TRUE)
           name == IF filled.uuid = None THEN generateUUID(filled, gates) ELSE filled.uuid
           b == [filled EXCEPT !.uuid = name]
<1>1. HwOK /\ BdsOK /\ HierOK /\ MsgOK /\ LstOK /\ ScanOK /\ sem \in BOOLEAN /\ probes \in 0..2
  BY DEF EventInv
<1>2. UNCHANGED <<gates, probes, hw, udevq, mon, sem, scan>> /\ lst' = lstIdle
  BY Zenon DEF ChangeDevice, envVars
<1>3. \/ UNCHANGED <<hier, bds>>
      \/ /\ path \in DOMAIN hier /\ hier' = Put(hier, b.path, b)
         /\ \/ UNCHANGED bds
            \/ b.uuid \in DOMAIN bds /\ bds' = Put(bds, b.uuid, Merge(bds[b.uuid], b, "none"))
  BY Zenon DEF ChangeDevice, addBlockDeviceToHierarchyCache, WriteAll
<1>4. HierOK' /\ BdsOK' /\ DOMAIN bds \subseteq DOMAIN bds'
  <2>1. CASE UNCHANGED <<hier, bds>>
    BY <1>1, <2>1 DEF HierOK, BdsOK
  <2>2. CASE /\ path \in DOMAIN hier /\ hier' = Put(hier, b.path, b)
             /\ \/ UNCHANGED bds
                \/ b.uuid \in DOMAIN bds /\ bds' = Put(bds, b.uuid, Merge(bds[b.uuid], b, "none"))
    <3>1. hier[path] \in BlockDevice
      BY <1>1, <2>2, ListFacts, Zenon DEF HierOK
    <3> HIDE DEF path
    <3>2. filled \in BlockDevice
      BY <1>1, <3>1, FillTypes, Zenon
    <3> HIDE DEF filled
    <3>3. name \in UUID \cup {None}
      BY <3>2, NameTypes DEF BlockDevice
    <3> HIDE DEF name
    <3>4. b \in BlockDevice
      BY <3>2, <3>3 DEF BlockDevice
    <3> HIDE DEF b
    <3>5. HierOK'
      BY <1>1, <2>2, <3>4, PutCache, Zenon DEF HierOK
    <3>6. ASSUME b.uuid \in DOMAIN bds, bds' = Put(bds, b.uuid, Merge(bds[b.uuid], b, "none"))
          PROVE  BdsOK' /\ DOMAIN bds \subseteq DOMAIN bds'
      <4>1. bds \in Lists /\ b.uuid \in UUID /\ bds[b.uuid] \in Resource
        BY <1>1, <3>6, ListFacts DEF BdsOK
      <4>2. Merge(bds[b.uuid], b, "none") \in Resource
        BY <3>4, <4>1, MergeTypes
      <4> DEFINE r == Merge(bds[b.uuid], b, "none")
      <4> HIDE DEF r
      <4>3. r \in Resource /\ bds' = Put(bds, b.uuid, r)
        BY <3>6, <4>2 DEF r
      <4>4. bds' \in Lists /\ DOMAIN bds' = (DOMAIN bds) \cup {b.uuid}
        <5> DEFINE u == b.uuid
        <5> HIDE DEF u
        <5>1. Put(bds, u, r) \in Lists /\ DOMAIN Put(bds, u, r) = (DOMAIN bds) \cup {u}
          BY <4>1, <4>3, PutList DEF u
        <5>2. QED
          BY <4>3, <5>1 DEF u
      <4>5. QED
        BY <4>4 DEF BdsOK
    <3>7. QED
      BY <1>1, <2>2, <3>5, <3>6, SMTT(20) DEF BdsOK
  <2>3. QED
    BY <1>3, <2>1, <2>2, Zenon
<1>5. ScanOK' /\ LstOK' /\ MsgOK'
  BY <1>1, <1>2, <1>4, Keeps
<1>6. QED
  BY <1>1, <1>2, <1>4, <1>5 DEF EventInv, HwOK

\* The message that processUdevEvent makes of an event is about a device, which has
\* its legacy name if it is an addition.
LEMMA UdevMessage ==
    ASSUME HwOK, NEW e \in Message, NEW m, m = processUdevEvent(e)
    PROVE  m \in Message /\ (m.action = "add" => Named(m.b))
<1> DEFINE now == Details(hw, e.b.d)
           uid == GetUid(e.b)
           b == [e.b EXCEPT !.uuid = uid]
           seen == [b EXCEPT !.parent = now.parent, !.slaves = now.slaves,
                             !.parts = now.parts, !.holders = now.holders]
           kind == IF b.type = "partition" THEN b.type ELSE "disk"
           gone == [b EXCEPT !.type = kind, !.parent = None, !.slaves = {}, !.parts = FALSE,
                             !.holders = FALSE]
<1>1. e.b \in BlockDevice /\ e.action \in {"add", "remove", "change"}
  BY SMTT(20) DEF Message
<1>2. now \in BlockDevice /\ uid \in UUID
  BY <1>1, DetailsTypes, NameTypes, Zenon DEF BlockDevice, HwOK
<1>3. /\ m.action = e.action
      /\ \/ m.b = e.b /\ e.action = "change"
         \/ m.b = seen
         \/ m.b = gone
      /\ m = [action |-> e.action, b |-> m.b]
  BY <1>1, Zenon DEF processUdevEvent
<1> HIDE DEF now, uid
<1>4. b \in BlockDevice /\ b.uuid \in UUID
  BY <1>1, <1>2 DEF BlockDevice
<1> HIDE DEF b
<1>5. seen \in BlockDevice /\ seen.uuid \in UUID
  <2> DEFINE c == [b EXCEPT !.parent = now.parent, !.slaves = now.slaves]
  <2>1. c \in BlockDevice /\ c.uuid \in UUID
    BY <1>2, <1>4, Zenon DEF BlockDevice
  <2>2. seen = [c EXCEPT !.parts = now.parts, !.holders = now.holders]
    BY <1>4 DEF BlockDevice
  <2> HIDE DEF c, seen
  <2>3. QED
    BY <1>2, <2>1, <2>2, Zenon DEF BlockDevice
<1>6. gone \in BlockDevice /\ gone.uuid \in UUID
  <2> DEFINE c == [b EXCEPT !.type = kind, !.parent = None]
             none == {}
  <2>1. kind \in DeviceType
    BY <1>4 DEF BlockDevice, DeviceType
  <2> HIDE DEF kind
  <2>2. c \in BlockDevice /\ c.uuid \in UUID
    BY <1>4, <2>1, Zenon DEF BlockDevice
  <2>3. gone = [c EXCEPT !.slaves = none, !.parts = FALSE, !.holders = FALSE]
    BY <1>4 DEF BlockDevice
  <2>4. none \in SUBSET DevPath
    OBVIOUS
  <2> HIDE DEF c, gone, none
  <2>5. QED
    BY <2>2, <2>3, <2>4, Zenon DEF BlockDevice
<1> HIDE DEF seen, gone
<1>7. m.b \in BlockDevice /\ (m.action = "add" => m.b.uuid \in UUID)
  BY <1>1, <1>3, <1>5, <1>6
<1>8. QED
  BY <1>1, <1>3, <1>7 DEF Message, Named

\* Monitor keeps the invariant.
LEMMA MonitorStep ==
    ASSUME EventInv, Monitor
    PROVE  EventInv'
<1>1. HwOK /\ BdsOK /\ HierOK /\ MsgOK /\ LstOK /\ ScanOK /\ sem \in BOOLEAN /\ probes \in 0..2
  BY DEF EventInv
<1>2. UNCHANGED <<gates, probes, hw, bds, hier, sem, scan, lst>>
      /\ udevq # <<>> /\ udevq' = Tail(udevq)
      /\ (mon' = None \/ mon' = processUdevEvent(Head(udevq)))
  BY DEF Monitor, envVars, dispatchEvent
<1>3. Head(udevq) \in Message /\ udevq' \in Seq(Message)
  BY <1>1, <1>2 DEF MsgOK
<1>4. mon' \in Message \cup {None} /\ (mon' # None /\ mon'.action = "add" => Named(mon'.b))
  BY <1>1, <1>2, <1>3, UdevMessage
<1>5. MsgOK'
  BY <1>2, <1>3, <1>4 DEF MsgOK, Named, Gpt
<1>6. ScanOK' /\ LstOK'
  BY <1>1, <1>2, Keeps
<1>7. QED
  BY <1>1, <1>2, <1>5, <1>6 DEF EventInv, HwOK, BdsOK, HierOK

\* RescanCall and RegisterProbe keep the invariant.
LEMMA OutsideStep ==
    ASSUME EventInv, RescanCall \/ RegisterProbe
    PROVE  EventInv'
<1>1. HwOK /\ BdsOK /\ HierOK /\ MsgOK /\ LstOK /\ ScanOK /\ sem \in BOOLEAN /\ probes \in 0..2
  BY DEF EventInv
<1>2. UNCHANGED <<gates, hw, bds, hier, udevq, mon, sem, lst>>
  BY DEF RescanCall, RegisterProbe, envVars
<1>3. HwOK' /\ BdsOK' /\ HierOK' /\ MsgOK' /\ LstOK' /\ sem' \in BOOLEAN
  BY <1>1, <1>2, Keeps, Zenon DEF HwOK, BdsOK, HierOK
<1>4. CASE RescanCall
  <2>1. probes' \in 0..2
    BY <1>1, <1>4 DEF RescanCall, envVars
  <2>2. PICK s \in Scanner : scan' = [scan EXCEPT ![s] = [scanIdle EXCEPT !.pc = "spawned", !.own = FALSE]]
    BY <1>4, Zenon DEF RescanCall
  <2>3. ScanOK'
    BY <1>1, <1>2, <2>2, IdleScan, RestingStep, Zenon
  <2>4. QED
    BY <1>3, <2>1, <2>3 DEF EventInv
<1>5. CASE RegisterProbe
  <2>1. probes' \in 0..2 /\ UNCHANGED scan
    BY <1>1, <1>5 DEF RegisterProbe
  <2>2. QED
    BY <1>1, <1>2, <1>3, <2>1, Keeps DEF EventInv
<1>6. QED
  BY <1>4, <1>5

\* Claim keeps the invariant.
LEMMA ClaimStep ==
    ASSUME EventInv, Claim
    PROVE  EventInv'
<1>1. HwOK /\ BdsOK /\ HierOK /\ MsgOK /\ LstOK /\ ScanOK /\ sem \in BOOLEAN /\ probes \in 0..2
  BY DEF EventInv
<1>2. UNCHANGED <<gates, probes, hw, hier, udevq, mon, sem, scan, lst>>
  BY DEF Claim, envVars
<1>3. PICK u \in DOMAIN bds, c \in {"Claimed", "Unclaimed"} : bds' = [bds EXCEPT ![u].claim = c]
  BY Zenon DEF Claim, WriteAll
<1>4. bds \in [DOMAIN bds -> Resource] /\ DOMAIN bds \subseteq UUID
  BY <1>1, ListFacts DEF BdsOK
<1>5. [bds[u] EXCEPT !.claim = c] \in Resource
  BY <1>3, <1>4 DEF Resource
<1>6. bds' \in [DOMAIN bds -> Resource] /\ DOMAIN bds' = DOMAIN bds
  BY <1>3, <1>4, <1>5
<1>7. BdsOK'
  BY <1>4, <1>6, ListFacts DEF BdsOK
<1>8. QED
  BY <1>1, <1>2, <1>6, <1>7, Keeps DEF EventInv, HwOK, HierOK

\* udev lists the devices that are there (Enumerated), each with its details.
LEMMA EnumeratedTypes ==
    ASSUME HwOK
    PROVE  LET ds == [i \in DOMAIN Enumerated |->
                        LET b == Details(hw, Enumerated[i]) IN
                        IF Gpt THEN b ELSE [b EXCEPT !.uuid = GetUid(b)]] IN
           ds \in Seq(BlockDevice) /\ \A i \in DOMAIN ds : Named(ds[i])
<1> DEFINE disks == {d \in Present : hw[d].on = None}
           rest == {d \in Present : hw[d].on # None}
           rec(d) == IF Gpt THEN Details(hw, d) ELSE [Details(hw, d) EXCEPT !.uuid = GetUid(Details(hw, d))]
           ds == [i \in DOMAIN Enumerated |-> rec(Enumerated[i])]
<1>1. disks \subseteq Dev /\ rest \subseteq Dev /\ IsFiniteSet(disks) /\ IsFiniteSet(rest)
  BY StartAssumption, FS_Subset, Zenon DEF Present
<1>2. InOrder(disks) \in Seq(Dev) /\ InOrder(rest) \in Seq(Dev)
  <2> HIDE DEF disks, rest
  <2>1. ASSUME NEW S, S \subseteq Dev, IsFiniteSet(S)
        PROVE  InOrder(S) \in Seq(Dev)
    <3>1. PICK n \in Nat : InOrder(S) \in [1..n -> S]
      BY <2>1, SeqOfSet
    <3>2. InOrder(S) \in [1..n -> Dev]
      BY <2>1, <3>1
    <3>3. QED
      BY <3>2
  <2>2. QED
    BY <1>1, <2>1
<1>3. Enumerated \in Seq(Dev)
  BY <1>2 DEF Enumerated
<1> HIDE DEF disks, rest
<1>4. ASSUME NEW d \in Dev
      PROVE  rec(d) \in BlockDevice /\ Named(rec(d))
  <2> DEFINE b == Details(hw, d)
             uid == GetUid(b)
  <2>1. b \in BlockDevice /\ uid \in UUID
    BY DetailsTypes, NameTypes DEF HwOK
  <2> HIDE DEF b, uid
  <2>2. [b EXCEPT !.uuid = uid] \in BlockDevice /\ [b EXCEPT !.uuid = uid].uuid \in UUID
    BY <2>1 DEF BlockDevice
  <2>3. rec(d) = IF Gpt THEN b ELSE [b EXCEPT !.uuid = uid]
    BY DEF b, uid
  <2> HIDE DEF rec
  <2>4. CASE Gpt
    BY <2>1, <2>3, <2>4 DEF Named
  <2>5. CASE ~Gpt
    BY <2>2, <2>3, <2>5 DEF Named
  <2>6. QED
    BY <2>4, <2>5
<1> HIDE DEF rec
<1>5. ds \in Seq(BlockDevice) /\ \A i \in DOMAIN ds : Named(ds[i])
  BY <1>3, <1>4
<1>6. QED
  BY <1>5 DEF rec

\* The steps of a scan keep the invariant.
LEMMA ScanSteps ==
    ASSUME EventInv, NEW s \in Scanner, Scan(s)
    PROVE  EventInv'
<1>1. HwOK /\ BdsOK /\ HierOK /\ MsgOK /\ LstOK /\ ScanOK /\ sem \in BOOLEAN /\ probes \in 0..2
      /\ scan \in [Scanner -> ScanState] /\ scan[s] \in ScanState
  BY DEF EventInv, ScanOK
<1>2. UNCHANGED <<gates, probes, hw, udevq, mon, lst>>
  BY Zenon DEF Scan, ScanBegin, ScanList, ScanDeactivate, ScanReady, ScanEnd, envVars
<1>3. SUFFICES HierOK' /\ BdsOK' /\ DOMAIN bds \subseteq DOMAIN bds' /\ ScanOK' /\ sem' \in BOOLEAN
  BY <1>1, <1>2, <1>3, Keeps DEF EventInv, HwOK
<1>4. CASE ScanBegin(s)
  <2> DEFINE ds == [i \in DOMAIN Enumerated |->
                      LET b == Details(hw, Enumerated[i]) IN
                      IF Gpt THEN b ELSE [b EXCEPT !.uuid = GetUid(b)]]
  <2>1. UNCHANGED bds /\ (hier' = hier \/ hier' = <<>>) /\ (sem' = sem \/ sem' = TRUE)
    BY <1>4 DEF ScanBegin
  <2>2. HierOK' /\ BdsOK' /\ sem' \in BOOLEAN
    BY <1>1, <2>1, ListFacts, Zenon DEF HierOK, BdsOK
  <2>3. \/ scan' = [scan EXCEPT ![s] = scanIdle]
        \/ scan' = [scan EXCEPT ![s].pc = "list", ![s].devs = ds]
    BY <1>4, Zenon DEF ScanBegin
  <2>4. ds \in Seq(BlockDevice) /\ \A i \in DOMAIN ds : Named(ds[i])
    BY <1>1, EnumeratedTypes
  <2> HIDE DEF ds
  <2>5. ScanOK'
    <3>1. CASE scan' = [scan EXCEPT ![s] = scanIdle]
      BY <1>1, <1>2, <2>1, <3>1, IdleScan, RestingStep, Zenon
    <3>2. CASE scan' = [scan EXCEPT ![s].pc = "list", ![s].devs = ds]
      <4> DEFINE r == [scan[s] EXCEPT !.pc = "list", !.devs = ds]
      <4>1. scan' = [scan EXCEPT ![s] = r]
        BY <1>1, <3>2, Zenon
      <4>2. r \in ScanState /\ r.devs = ds /\ r.todo = scan[s].todo
        BY <1>1, <2>4, Zenon DEF ScanState, ScanStates
      <4> HIDE DEF r
      <4>3. QED
        BY <1>1, <1>2, <2>1, <2>4, <4>1, <4>2, ScanStep, Zenon DEF ScanOK
    <3>3. QED
      BY <2>3, <3>1, <3>2
  <2>6. QED
    BY <2>1, <2>2, <2>5
<1>5. CASE ScanList(s) \/ ScanReady(s)
  <2> DEFINE seen == {scan[s].devs[i].uuid : i \in DOMAIN scan[s].devs}
             todo == {u \in DOMAIN bds : bds[u].state # "Inactive"} \ seen
  <2>1. UNCHANGED <<bds, hier, sem>>
    BY <1>5 DEF ScanList, ScanReady
  <2>2. \/ scan' = [scan EXCEPT ![s].pc = "deactivate", ![s].todo = todo]
        \/ scan' = [scan EXCEPT ![s].pc = "send"]
    BY <1>5, Zenon DEF ScanList, ScanReady
  <2>3. todo \subseteq DOMAIN bds /\ todo \in SUBSET UUID
    BY <1>1, ListFacts DEF BdsOK
  <2> HIDE DEF todo
  <2>4. ScanOK'
    <3>1. CASE scan' = [scan EXCEPT ![s].pc = "deactivate", ![s].todo = todo]
      <4> DEFINE r == [scan[s] EXCEPT !.pc = "deactivate", !.todo = todo]
      <4>1. scan' = [scan EXCEPT ![s] = r]
        BY <1>1, <3>1, Zenon
      <4>2. r \in ScanState /\ r.devs = scan[s].devs /\ r.todo = todo
        BY <1>1, <2>3, Zenon DEF ScanState, ScanStates
      <4> HIDE DEF r
      <4>3. QED
        BY <1>1, <1>2, <2>1, <2>3, <4>1, <4>2, ScanStep, Zenon DEF ScanOK
    <3>2. CASE scan' = [scan EXCEPT ![s].pc = "send"]
      <4> DEFINE r == [scan[s] EXCEPT !.pc = "send"]
      <4>1. scan' = [scan EXCEPT ![s] = r]
        BY <1>1, <3>2
      <4>2. r \in ScanState /\ r.devs = scan[s].devs /\ r.todo = scan[s].todo
        BY <1>1 DEF ScanState, ScanStates
      <4> HIDE DEF r
      <4>3. QED
        BY <1>1, <1>2, <2>1, <4>1, <4>2, ScanStep, Zenon DEF ScanOK
    <3>3. QED
      BY <2>2, <3>1, <3>2, SMTT(20)
  <2>5. QED
    BY <1>1, <2>1, <2>4 DEF HierOK, BdsOK
<1>6. CASE ScanDeactivate(s)
  <2> DEFINE u == CHOOSE u \in scan[s].todo : TRUE
             todo == scan[s].todo \ {u}
             r == [scan[s] EXCEPT !.todo = todo]
  <2>1. UNCHANGED <<hier, sem>> /\ scan[s].todo # {} /\ (bds' = bds \/ bds' = Deactivated(bds, u))
        /\ scan' = [scan EXCEPT ![s].todo = @ \ {u}]
    BY <1>6, Zenon DEF ScanDeactivate, WriteAll
  <2>2. u \in scan[s].todo /\ scan[s].todo \subseteq DOMAIN bds
    BY <1>1, <2>1 DEF ScanOK
  <2> HIDE DEF u
  <2>3. scan' = [scan EXCEPT ![s] = r]
    BY <1>1, <2>1
  <2>4. BdsOK' /\ DOMAIN bds' = DOMAIN bds
    BY <1>1, <2>1, <2>2, DeactivatedList DEF BdsOK
  <2>5. todo \subseteq DOMAIN bds' /\ todo \subseteq scan[s].todo
    BY <2>2, <2>4
  <2> HIDE DEF todo
  <2>6. r \in ScanState /\ r.devs = scan[s].devs /\ r.todo = todo
    BY <1>1, <2>5, SMTT(20) DEF ScanState
  <2> HIDE DEF r
  <2>7. ScanOK'
    BY <1>1, <1>2, <2>3, <2>4, <2>5, <2>6, ScanStep, Zenon DEF ScanOK
  <2>8. QED
    BY <1>1, <2>1, <2>4, <2>7 DEF HierOK
<1>7. CASE ScanEnd(s)
  <2>1. UNCHANGED <<bds, hier>> /\ sem' = FALSE /\ scan' = [scan EXCEPT ![s] = scanIdle]
    BY <1>7 DEF ScanEnd
  <2>2. ScanOK'
    BY <1>1, <1>2, <2>1, IdleScan, RestingStep, Zenon
  <2>3. QED
    BY <1>1, <2>1, <2>2, Zenon DEF HierOK, BdsOK
<1>8. QED
  BY <1>4, <1>5, <1>6, <1>7, Zenon DEF Scan

\* The changes of the hardware keep the invariant.
LEMMA HardwareStep ==
    ASSUME EventInv, Hardware
    PROVE  EventInv'
<1>1. HwOK /\ BdsOK /\ HierOK /\ MsgOK /\ LstOK /\ ScanOK /\ sem \in BOOLEAN /\ probes \in 0..2
      /\ udevq \in Seq(Message)
  BY DEF EventInv, MsgOK
<1>2. UNCHANGED <<gates, probes, bds, hier, mon, sem, scan, lst>>
  BY DEF Hardware, envVars
<1>3. SUFFICES HwOK' /\ udevq' \in Seq(Message)
  <2>1. MsgOK'
    BY <1>1, <1>2, <1>3 DEF MsgOK, Named, Gpt
  <2>2. QED
    BY <1>1, <1>2, <1>3, <2>1, Keeps, Zenon DEF EventInv, BdsOK, HierOK
<1>4. hw \in [Dev -> Hw] /\ \A x \in Dev : hw[x] \in Hw
  BY <1>1 DEF HwOK, WellFormed
<1>5. ASSUME NEW d \in Dev, NEW p \in Path, Attach(d, p)
      PROVE  HwOK' /\ udevq' \in Seq(Message)
  <2> DEFINE r == [hw[d] EXCEPT !.present = TRUE, !.path = p]
  <2>1. r \in Hw /\ r.on = hw[d].on /\ r.type = hw[d].type /\ r.table = hw[d].table /\ r.path = p
    BY <1>4, Zenon DEF Hw, DevPath
  <2>2. hw' = [hw EXCEPT ![d] = r] /\ hw[d].on = None
    BY <1>4, <1>5, Zenon DEF Attach
  <2> HIDE DEF r
  <2>3. HwOK'
    BY <1>1, <1>4, <2>1, <2>2, HwChange, Zenon DEF HwOK
  <2>4. QED
    BY <1>1, <1>5, <2>3, EventTypes DEF HwOK, Attach
<1>6. ASSUME NEW d \in Dev, Detach(d)
      PROVE  HwOK' /\ udevq' \in Seq(Message)
  <2> DEFINE gone == Children(hw, d)
             r(e) == [hw[e] EXCEPT !.present = FALSE]
  <2>1. \A e \in Dev : r(e) \in Hw /\ r(e).on = hw[e].on /\ r(e).type = hw[e].type
                       /\ r(e).table = hw[e].table /\ r(e).path = hw[e].path /\ ~r(e).present
    BY <1>4, Zenon DEF Hw
  <2>2. hw' = [e \in Dev |-> IF e \in gone \cup {d} THEN r(e) ELSE hw[e]]
    BY <1>6 DEF Detach
  <2>3. gone \subseteq Dev
    BY DEF Children
  <2>4. udevq' = udevq \o Removed(hw, gone) \o <<Event(hw, "remove", d)>>
    BY <1>6 DEF Detach
  <2> HIDE DEF gone, r
  <2>5. HwOK'
    BY <1>1, <1>4, <2>1, <2>2, HwChange, Zenon DEF HwOK
  <2>6. Removed(hw, gone) \in Seq(Message) /\ Event(hw, "remove", d) \in Message
    BY <1>1, <2>3, RemovedTypes, EventTypes DEF HwOK
  <2>7. QED
    BY <1>1, <2>4, <2>5, <2>6
<1>7. ASSUME NEW e \in Dev, Partition(e)
      PROVE  HwOK' /\ udevq' \in Seq(Message)
  <2>1. hw[e].on \in Dev /\ hw[e].type = "partition"
    BY <1>1, <1>4, <1>7, Zenon DEF Partition, HwOK, WellFormed, Hw
  <2>2. {e} \in SUBSET {x \in Dev : hw[x].on = hw[e].on /\ hw[x].type = "partition"}
    BY <2>1, SMTT(20)
  <2>3. HwOK'
    BY <1>1, <1>7, <2>1, <2>2, TableWellFormed, Zenon DEF HwOK, Partition
  <2>4. Announce(hw', hw[e].on, {e}) \in Seq(Message)
    BY <2>1, <2>3, AnnounceTypes, Zenon DEF HwOK
  <2>5. udevq' = udevq \o Announce(hw', hw[e].on, {e})
    BY <1>7 DEF Partition
  <2>6. QED
    BY <1>1, <2>3, <2>4, <2>5
<1>8. ASSUME NEW d \in Dev, Unpartition(d)
      PROVE  HwOK' /\ udevq' \in Seq(Message)
  <2> DEFINE r == [hw[d] EXCEPT !.present = FALSE]
  <2>1. r \in Hw /\ r.on = hw[d].on /\ r.type = hw[d].type /\ r.table = hw[d].table
        /\ r.path = hw[d].path /\ (r.present => hw[d].present)
    BY <1>4, Zenon DEF Hw
  <2>2. hw' = [hw EXCEPT ![d] = r]
    BY <1>4, <1>8 DEF Unpartition
  <2> HIDE DEF r
  <2>3. HwOK'
    BY <1>1, <1>4, <2>1, <2>2, HwChange, Zenon DEF HwOK
  <2>4. QED
    BY <1>1, <1>8, <2>3, EventTypes DEF HwOK, Unpartition
<1>9. ASSUME NEW d \in Dev, Format(d)
      PROVE  HwOK' /\ udevq' \in Seq(Message)
  <2> DEFINE r == [hw[d] EXCEPT !.fs = ~@]
  <2>1. r \in Hw /\ r.on = hw[d].on /\ r.type = hw[d].type /\ r.table = hw[d].table
        /\ r.path = hw[d].path /\ (r.present => hw[d].present)
    BY <1>4, Zenon DEF Hw
  <2>2. hw' = [hw EXCEPT ![d] = r]
    BY <1>4, <1>9 DEF Format
  <2> HIDE DEF r
  <2>3. HwOK'
    BY <1>1, <1>4, <2>1, <2>2, HwChange, Zenon DEF HwOK
  <2>4. QED
    BY <1>1, <1>9, <2>3, EventTypes DEF HwOK, Format
<1>10. QED
  BY <1>5, <1>6, <1>7, <1>8, <1>9 DEF Hardware

\* The daemon starts with nothing read and one scan under way.
LEMMA EventInit ==
    ASSUME Init
    PROVE  EventInv
<1>1. PICK sit \in Start :
        /\ hw = sit.hw /\ bds = sit.bds /\ probes = sit.probes
        /\ hier = <<>> /\ udevq = <<>> /\ mon = None /\ sem = FALSE
        /\ scan = Spawn([s \in Scanner |-> scanIdle]) /\ lst = lstIdle
  BY DEF Init
<1>2. HwOK /\ BdsOK /\ HierOK /\ probes \in 0..2 /\ sem \in BOOLEAN
  BY <1>1, StartAssumption, ListFacts, Zenon DEF HwOK, BdsOK, HierOK
<1>3. MsgOK
  BY <1>1 DEF MsgOK
<1>4. LstOK
  <2>1. lstIdle \in ListenerState /\ DOMAIN lstIdle.list = {} /\ lstIdle.pc = "idle"
        /\ lstIdle.action = "none"
    BY ListFacts DEF ListenerState, lstIdle
  <2>2. QED
    BY <1>1, <2>1 DEF LstOK
<1>5. ScanOK
  <2> DEFINE f == [s \in Scanner |-> scanIdle]
             x == CHOOSE s \in Scanner : f[s].pc = "idle"
             new == [scanIdle EXCEPT !.pc = "spawned"]
  <2>1. Resting(scanIdle) /\ Resting(new)
    BY IdleScan
  <2>2. scan = f \/ scan = [f EXCEPT ![x] = new]
    BY <1>1, Zenon DEF Spawn
  <2> HIDE DEF new, x
  <2>3. scan \in [Scanner -> {scanIdle, new}]
    BY <2>2
  <2>4. \A s \in Scanner : Resting(scan[s])
    BY <2>1, <2>3
  <2>5. \A s \in Scanner : scan[s] \in ScanState /\ scan[s].todo = {} /\ scan[s].devs = <<>>
    BY <2>4 DEF Resting
  <2>6. QED
    BY <2>3, <2>5 DEF ScanOK
<1>6. QED
  BY <1>2, <1>3, <1>4, <1>5 DEF EventInv

\* The hardware changes under the open disk (FollowFd): a disk that stays keeps its path,
\* and what is new on it is late.
LEMMA FdHardware ==
    ASSUME EventInv, FdOK, Hardware
    PROVE  FdOK'
<1>1. HwOK /\ UNCHANGED lst /\ FollowFd
  BY DEF EventInv, Hardware
<1>2. hw \in [Dev -> Hw] /\ \A x \in Dev : hw[x] \in Hw
  BY <1>1 DEF HwOK, WellFormed
<1>3. CASE fd.d = None
  BY <1>1, <1>3 DEF FdOK, FollowFd
<1>4. CASE fd.d # None /\ ~hw'[fd.d].present
  BY <1>1, <1>4 DEF FdOK, FollowFd
<1>5. CASE fd.d # None /\ hw'[fd.d].present
  <2> DEFINE o == fd.d
             newTable == {x \in {"table"} : hw'[o].table /\ ~hw[o].table}
             newFs == {x \in {"fs"} : fd.at = "checked" /\ hw'[o].fs /\ ~hw[o].fs}
             late == fd.late \cup newTable \cup newFs
  <2>1. o \in Dev /\ hw[o].present /\ fd.late \in SUBSET {"table", "fs"}
    BY <1>5 DEF FdOK
  <2>2. fd' = [fd EXCEPT !.late = late]
    BY <1>1, <1>5, Zenon DEF FollowFd
  <2>3. late \in SUBSET {"table", "fs"} /\ fd.late \subseteq late
        /\ (hw'[o].table /\ ~hw[o].table => "table" \in late)
        /\ (fd.at = "checked" /\ hw'[o].fs /\ ~hw[o].fs => "fs" \in late)
    BY <2>1
  <2> HIDE DEF late, newTable, newFs
  <2>4. fd' \in [at: {"closed", "open", "checked"}, d: Dev \cup {None}, late: SUBSET {"table", "fs"}]
        /\ fd'.at = fd.at /\ fd'.d = o /\ fd'.late = late
    BY <2>2, <2>3 DEF FdOK
  <2>5. hw'[o].path = hw[o].path
    <3>1. PICK d \in Dev : \/ \E p \in Path : Attach(d, p)
                           \/ Detach(d) \/ Partition(d) \/ Unpartition(d) \/ Format(d)
      BY DEF Hardware
    <3> HIDE DEF o
    <3>2. ASSUME NEW p \in Path, Attach(d, p)
          PROVE  hw'[o].path = hw[o].path
      <4>1. d # o /\ hw' = [hw EXCEPT ![d].present = TRUE, ![d].path = p]
        BY <2>1, <3>2 DEF Attach
      <4>2. hw'[o] = hw[o]
        BY <1>2, <2>1, <4>1, Zenon
      <4>3. QED
        BY <4>2
    <3>3. CASE Detach(d)
      <4>1. hw'[o] = hw[o] \/ hw'[o] = [hw[o] EXCEPT !.present = FALSE]
        BY <2>1, <3>3, Zenon DEF Detach
      <4>2. QED
        BY <1>2, <2>1, <4>1, Zenon DEF Hw
    <3>4. CASE Partition(d)
      <4>1. d # o /\ hw' = WithTable(hw[d].on, {d})
        BY <2>1, <3>4 DEF Partition
      <4>2. hw'[o] = hw[o] \/ hw'[o] = [hw[o] EXCEPT !.table = TRUE]
        BY <2>1, <4>1, Zenon DEF WithTable
      <4>3. QED
        BY <1>2, <2>1, <4>2, Zenon DEF Hw
    <3>5. CASE Unpartition(d)
      <4>1. hw' = [hw EXCEPT ![d].present = FALSE]
        BY <3>5 DEF Unpartition
      <4>2. QED
        BY <1>2, <2>1, <4>1, Zenon DEF Hw
    <3>6. CASE Format(d)
      <4> DEFINE v == ~hw[d].fs
      <4>1. hw' = [hw EXCEPT ![d].fs = v]
        BY <3>6 DEF Format
      <4> HIDE DEF v
      <4>2. QED
        BY <1>2, <2>1, <4>1, Zenon DEF Hw
    <3>7. QED
      BY <3>1, <3>2, <3>3, <3>4, <3>5, <3>6, Zenon
  <2>6. hw'[o].table => "table" \in late
    BY <1>5, <2>3 DEF FdOK
  <2>7. fd.at = "checked" /\ hw'[o].fs => "fs" \in late
    BY <1>5, <2>3 DEF FdOK
  <2>8. fd.at # "closed" /\ lst.pc = "add" /\ hw[o].path = Head(lst.devs).path
    BY <1>5 DEF FdOK
  <2>9. QED
    BY <1>1, <1>5, <2>4, <2>5, <2>6, <2>7, <2>8 DEF FdOK
<1>6. QED
  BY <1>3, <1>4, <1>5

\* Opening a disk, looking at it and writing to it keep what is known of the open disk
\* (OpenDisk, CheckFileSystem, WriteTable).
LEMMA FdHandler ==
    ASSUME EventInv, FdOK, AddDevice \/ CheckFileSystem \/ WriteTable
    PROVE  FdOK'
<1>1. LstOK /\ hw \in [Dev -> Hw]
  BY DEF EventInv, HwOK, WellFormed
<1>2. ASSUME fd' = NoFd
      PROVE  FdOK'
  BY <1>2 DEF FdOK, NoFd
<1>3. CASE AddDevice
  <2> DEFINE b == Head(lst.devs)
  <2>1. UNCHANGED hw /\ lst.pc = "add" /\ fd.at = "closed"
    BY <1>3 DEF AddDevice
  <2>2. fd' = fd \/ \E d \in At(b.path) : ~hw[d].table /\ fd' = [NoFd EXCEPT !.at = "open", !.d = d] /\ UNCHANGED lst
    BY <1>3, Zenon DEF AddDevice, OpenDisk
  <2>3. CASE fd' = fd
    BY <2>1, <2>3 DEF FdOK
  <2>4. ASSUME NEW d \in At(b.path), ~hw[d].table, fd' = [NoFd EXCEPT !.at = "open", !.d = d], UNCHANGED lst
        PROVE  FdOK'
    <3>1. d \in Dev /\ hw[d].present /\ hw[d].path = b.path
      BY <2>4 DEF At, Present
    <3>2. fd' = [at |-> "open", d |-> d, late |-> {}]
      BY <2>4 DEF NoFd
    <3>3. QED
      BY <2>1, <2>4, <3>1, <3>2 DEF FdOK
  <2>5. QED
    BY <2>2, <2>3, <2>4
<1>4. CASE CheckFileSystem
  <2>1. \/ fd' = NoFd
        \/ /\ fd' = [fd EXCEPT !.at = "checked"] /\ UNCHANGED <<hw, lst>> /\ fd.at = "open"
           /\ \A d \in At(Head(lst.devs).path) : ~hw[d].fs
    BY <1>4, Zenon DEF CheckFileSystem
  <2>2. CASE /\ fd' = [fd EXCEPT !.at = "checked"] /\ UNCHANGED <<hw, lst>> /\ fd.at = "open"
             /\ \A d \in At(Head(lst.devs).path) : ~hw[d].fs
    <3>1. /\ fd' \in [at: {"closed", "open", "checked"}, d: Dev \cup {None}, late: SUBSET {"table", "fs"}]
          /\ fd'.at = "checked" /\ fd'.d = fd.d /\ fd'.late = fd.late
      BY <2>2 DEF FdOK
    <3>2. fd.d # None => ~hw[fd.d].fs
      BY <2>2 DEF FdOK, At, Present
    <3>3. QED
      BY <2>2, <3>1, <3>2 DEF FdOK
  <2>3. QED
    BY <1>2, <2>1, <2>2
<1>5. CASE WriteTable
  BY <1>2, <1>5 DEF WriteTable
<1>6. QED
  BY <1>3, <1>4, <1>5

\* The other steps leave the open disk alone, and none of them ends its handler.
LEMMA FdStep ==
    ASSUME EventInv, FdOK, [Next]_vars
    PROVE  FdOK'
<1>1. CASE AddDevice \/ CheckFileSystem \/ WriteTable \/ Hardware
  BY <1>1, FdHandler, FdHardware
<1>2. ASSUME UNCHANGED fd, lst.pc # "add"
      PROVE  FdOK'
  BY <1>2 DEF FdOK
<1>3. ASSUME UNCHANGED <<fd, hw, lst>>
      PROVE  FdOK'
  BY <1>3 DEF FdOK
<1>4. CASE Receive \/ ListResources \/ FillDevice \/ FinishAdd \/ DeleteDevice \/ ChangeDevice
  <2>1. UNCHANGED fd
    BY <1>4, Zenon DEF Receive, ListResources, FillDevice, FinishAdd, DeleteDevice, ChangeDevice, envVars
  <2>2. lst.pc # "add"
    BY <1>4 DEF Receive, ListResources, FillDevice, FinishAdd, DeleteDevice, ChangeDevice
  <2>3. QED
    BY <1>2, <2>1, <2>2
<1>5. CASE Monitor \/ RegisterProbe \/ RescanCall \/ Claim \/ Rest \/ UNCHANGED vars
  <2>1. UNCHANGED <<fd, hw, lst>>
    BY <1>5 DEF Monitor, RegisterProbe, RescanCall, Claim, Rest, vars, envVars
  <2>2. QED
    BY <1>3, <2>1
<1>6. ASSUME NEW s \in Scanner, Scan(s)
      PROVE  FdOK'
  <2>1. UNCHANGED <<fd, hw, lst>>
    BY <1>6, Zenon DEF Scan, ScanBegin, ScanList, ScanDeactivate, ScanReady, ScanEnd, envVars
  <2>2. QED
    BY <1>3, <2>1
<1>7. QED
  BY <1>1, <1>4, <1>5, <1>6 DEF Next, Daemon, Listener

\* Every step keeps the invariant.
LEMMA EventStep ==
    ASSUME EventInv, FdOK, [Next]_vars
    PROVE  EventInv'
<1>1. CASE Listener
  BY <1>1, ReceiveStep, ListStep, FillStep, AddStep, TableStep, FinishStep, DeleteStep, ChangeStep
     DEF Listener
<1>2. CASE Monitor \/ RegisterProbe \/ RescanCall \/ Hardware \/ Claim
  BY <1>2, MonitorStep, OutsideStep, HardwareStep, ClaimStep
<1>3. CASE \E s \in Scanner : Scan(s)
  BY <1>3, ScanSteps
<1>4. CASE Rest \/ UNCHANGED vars
  <2>1. UNCHANGED <<gates, hw, bds, hier, udevq, mon, sem, scan, lst, probes>>
    BY <1>4 DEF Rest, vars
  <2>2. QED
    BY <2>1, Keeps, Zenon DEF EventInv, HwOK, BdsOK, HierOK
<1>5. QED
  BY <1>1, <1>2, <1>3, <1>4 DEF Next, Daemon

\* The invariant gives TypeOK.
LEMMA EventTypeOK ==
    ASSUME EventInv, FdOK
    PROVE  TypeOK
<1>1. BdsOK /\ HierOK /\ LstOK /\ ScanOK /\ sem \in BOOLEAN /\ probes \in 0..2
  BY DEF EventInv
<1>2. lst.pc \in {"idle", "list", "next", "add"} /\ DOMAIN lst.list \subseteq DOMAIN bds
  BY <1>1 DEF LstOK, ListenerState
<1>3. \A s \in Scanner : scan[s].pc \in ScanStates /\ scan[s].todo \subseteq DOMAIN bds
  BY <1>1 DEF ScanOK, ScanState
<1>4. DOMAIN bds \subseteq UUID /\ \A u \in DOMAIN bds : bds[u] \in Resource
  BY <1>1, ListFacts DEF BdsOK
<1>5. \A q \in DOMAIN hier : hier[q] \in BlockDevice /\ hier[q].path = q
  BY <1>1, ListFacts DEF HierOK
<1>6. fd.at \in {"closed", "open", "checked"} /\ (fd.at # "closed" => lst.pc = "add")
  BY DEF FdOK
<1>7. QED
  BY <1>1, <1>2, <1>3, <1>4, <1>5, <1>6, Zenon DEF TypeOK, Resource

\* The state of the pipeline is well formed for every node, every number of events,
\* scans, failed calls and users: the listener, the monitor and the scans hand over
\* devices only, a name is never missing where one is written or deactivated, and what
\* a scan or the listener has still to deactivate is in the API server.
THEOREM EventsTyped == Spec => []TypeOK
<1>1. Init => EventInv /\ FdOK
  <2>1. Init => FdOK
    BY DEF Init, FdOK, NoFd
  <2>2. QED
    BY <2>1, EventInit
<1>2. EventInv /\ FdOK /\ [Next]_vars => (EventInv /\ FdOK)'
  BY EventStep, FdStep
<1>3. EventInv /\ FdOK => TypeOK
  BY EventTypeOK
<1>4. QED
  BY <1>1, <1>2, <1>3, PTL DEF Spec

\* However disks come, go and change while a handler has one open (CreatePartitionTable,
\* CreateSinglePartition), the write reaches that disk and its partitions only; a table
\* or a file system that it destroys was put there after NDM had looked for it.  That the
\* file system is looked for by the path and the table through the descriptor makes no
\* difference: no other disk is at the path as long as the open one is attached.
THEOREM EventsNoOverwrite == Spec => NoOverwrite
<1> DEFINE Safe ==
      WriteTable =>
        /\ \A d \in Dev : hw[d].present /\ hw'[d] # hw[d] => fd.d \in {d, hw[d].on} \ {None}
        /\ fd.d # None => /\ hw[fd.d].table => "table" \in fd.late
                          /\ hw[fd.d].fs => "fs" \in fd.late
<1>1. Init => EventInv /\ FdOK
  <2>1. Init => FdOK
    BY DEF Init, FdOK, NoFd
  <2>2. QED
    BY <2>1, EventInit
<1>2. EventInv /\ FdOK /\ [Next]_vars => (EventInv /\ FdOK)'
  BY EventStep, FdStep
<1>3. EventInv /\ FdOK /\ [Next]_vars => [Safe]_vars
  <2>1. SUFFICES ASSUME EventInv, FdOK, WriteTable
                 PROVE  Safe
    OBVIOUS
  <2>2. \A d \in Dev : hw'[d] # hw[d] => fd.d # None /\ (d = fd.d \/ hw[d].on = fd.d)
    BY <2>1, TableStep
  <2>3. fd.at = "checked"
    BY <2>1 DEF WriteTable
  <2>4. QED
    BY <2>1, <2>2, <2>3 DEF FdOK
<1>4. QED
  BY <1>1, <1>2, <1>3, PTL DEF Spec, NoOverwrite
=============================================================================
