---------------------------- MODULE MountProofs -----------------------------
(***************************************************************************)
(* The mount probe, for any devices, any mounts file and any number of     *)
(* changes to it: the diff of two tables is exact, and a probe at rest has *)
(* reported every change, although the file changes while it is read.      *)
(***************************************************************************)
EXTENDS MountWatch, TLAPS

Entries == UNION {[S -> MountEntry] : S \in SUBSET Nat}

\* the steps of the probe, in order
ProbeState == [pc: {"setup", "table", "loop", "send", "off"}, all: BOOLEAN,
               srcs: SUBSET Source]

MountTypes ==
    /\ mounts \in Seq(MountEntry) /\ tab \in Entries
    /\ events \in Nat /\ probe \in ProbeState
    /\ cached \in UNION {[S -> SUBSET Target] : S \in SUBSET DevSource}
    /\ stored \in [DevSource -> SUBSET Target]
    /\ todo \in SUBSET Known /\ writing \in Known \cup {Idle}

\* the mount points that were read for a device are those of now, the filtered ones
\* aside
Fresh(s) == cached[s] \ DenyTarget = DeviceBasicMountInfo(s) \ DenyTarget

\* the device is to be read again: by the listener, or by a message under way to it
Due(s) == s \in todo \/ (probe.pc = "send" /\ (probe.all \/ s \in probe.srcs))

\* an event that will make the probe read the file
Coming == marked \/ waiter = "send" \/ events > 0

\* the file shows a change of the device that the table of the probe does not
Differs(s) == Of(s, newMountTable) # Of(s, tab)

\* Unless a failure was given up on, the probe is not yet started, or it is armed and
\* every known device is read, about to be read again, or shows a difference that an
\* event will make the probe look for; and what was read is written.
Tracked ==
    \/ probe.pc \in {"setup", "table"} /\ Known = {}
    \/ /\ probe.pc \in {"loop", "send"} /\ armed /\ waiter \in {"wait", "send"}
       /\ \A s \in Known : Fresh(s) \/ Due(s) \/ (Coming /\ Differs(s))
       /\ \A s \in Known : s = writing \/ stored[s] = cached[s]

\* the file is watched before the first table is read
MountInv ==
    /\ MountTypes
    /\ probe.pc = "table" => armed
    /\ ~missed => Tracked

\* The mount points of a device that are not filtered are those of the table, before
\* and after a step.
LEMMA InfoOfTable ==
    ASSUME NEW s \in DevSource
    PROVE  /\ DeviceBasicMountInfo(s) \ DenyTarget = {f.target : f \in Of(s, newMountTable)}
           /\ DeviceBasicMountInfo(s)' \ DenyTarget = {f.target : f \in Of(s, newMountTable)'}
<1> DEFINE table(m) == [i \in {j \in DOMAIN m : applyFilters(m[j])} |-> m[i]]
           info(m) == {f.target : f \in {g \in Range(m) : g.source = s}}
<1>1. ASSUME NEW m
      PROVE  info(m) \ DenyTarget = {f.target : f \in Of(s, table(m))}
  <2>1. DOMAIN table(m) = {j \in DOMAIN m : applyFilters(m[j])}
    OBVIOUS
  <2>2. \A j \in DOMAIN table(m) : table(m)[j] = m[j]
    OBVIOUS
  <2> HIDE DEF table
  <2>3. Range(table(m)) = {f \in Range(m) : applyFilters(f)}
    BY <2>1, <2>2 DEF Range
  <2>4. QED
    BY <2>3 DEF Of, applyFilters
<1>2. newMountTable = table(mounts) /\ newMountTable' = table(mounts')
  BY DEF newMountTable, applyFilters
<1>3. DeviceBasicMountInfo(s) = info(mounts) /\ DeviceBasicMountInfo(s)' = info(mounts')
  BY DEF DeviceBasicMountInfo, Range
<1>4. Of(s, newMountTable)' = Of(s, newMountTable')
  BY DEF Of, Range
<1> HIDE DEF table, info
<1>5. QED
  BY <1>1, <1>2, <1>3, <1>4

\* The diff of two tables has a source exactly when its entries differ, and turns the
\* one table into the other: each entry that came or went is in a move, or else in a
\* mount or an unmount.
LEMMA DiffExact ==
    ASSUME NEW o \in Entries, NEW n \in Entries
    PROVE  LET diff == GenerateDiff(o, n)
               came == {e.new : e \in {e \in diff : e.action # "umount"}}
               went == {e.old : e \in {e \in diff : e.action # "mount"}} IN
           /\ came = Range(n) \ Range(o) /\ went = Range(o) \ Range(n)
           /\ ListSources(diff) = {f.source : f \in came \cup went}
<1> DEFINE came == {i \in DOMAIN n : ~Find(o, n[i])}
           went == {j \in DOMAIN o : ~Find(n, o[j])}
           rank(table, lines, i) ==
               Cardinality({j \in lines : j <= i /\ table[j].source = table[i].source})
           paired(i, j) == n[i].source = o[j].source /\ rank(n, came, i) = rank(o, went, j)
           moves == {[action |-> "move", old |-> o[p[2]], new |-> n[p[1]]] :
                       p \in {q \in came \X went : paired(q[1], q[2])}}
           ins == {[action |-> "mount", new |-> n[i]] :
                     i \in {i \in came : \A j \in went : ~paired(i, j)}}
           outs == {[action |-> "umount", old |-> o[j]] :
                      j \in {j \in went : \A i \in came : ~paired(i, j)}}
           diff == GenerateDiff(o, n)
<1>1. diff = moves \cup ins \cup outs
  BY Zenon DEF GenerateDiff
<1>2. \A i \in came, j \in went : paired(i, j) => n[i].source = o[j].source
  OBVIOUS
<1>3. Range(n) \ Range(o) = {n[i] : i \in came} /\ Range(o) \ Range(n) = {o[j] : j \in went}
  BY DEF Find, Range
<1> HIDE DEF came, went, paired, diff
<1>4. {e.new : e \in {e \in diff : e.action # "umount"}} = {n[i] : i \in came}
  <2>1. ASSUME NEW e \in diff, e.action # "umount"
        PROVE  e.new \in {n[i] : i \in came}
    BY <1>1, <2>1
  <2>2. ASSUME NEW i \in came
        PROVE  \E e \in diff : e.action # "umount" /\ e.new = n[i]
    <3>1. CASE \E j \in went : paired(i, j)
      <4>1. PICK j \in went : paired(i, j)
        BY <3>1
      <4>2. <<i, j>> \in {q \in came \X went : paired(q[1], q[2])}
        BY <4>1
      <4> DEFINE e == [action |-> "move", old |-> o[j], new |-> n[i]]
      <4>3. e \in moves
        BY <4>2
      <4>4. e.action = "move" /\ e.old = o[j] /\ e.new = n[i] /\ e \in diff
        BY <1>1, <4>3, Zenon
      <4> HIDE DEF e
      <4>5. QED
        BY <4>4
    <3>2. CASE \A j \in went : ~paired(i, j)
      <4> DEFINE e == [action |-> "mount", new |-> n[i]]
      <4>1. e \in ins
        BY <3>2
      <4>2. e.action = "mount" /\ e.new = n[i] /\ e \in diff
        BY <1>1, <4>1, Zenon
      <4> HIDE DEF e
      <4>3. QED
        BY <4>2
    <3>3. QED
      BY <3>1, <3>2
  <2>3. QED
    BY <2>1, <2>2
<1>5. {e.old : e \in {e \in diff : e.action # "mount"}} = {o[j] : j \in went}
  <2>1. ASSUME NEW e \in diff, e.action # "mount"
        PROVE  e.old \in {o[j] : j \in went}
    BY <1>1, <2>1
  <2>2. ASSUME NEW j \in went
        PROVE  \E e \in diff : e.action # "mount" /\ e.old = o[j]
    <3>1. CASE \E i \in came : paired(i, j)
      <4>1. PICK i \in came : paired(i, j)
        BY <3>1
      <4>2. <<i, j>> \in {q \in came \X went : paired(q[1], q[2])}
        BY <4>1
      <4> DEFINE e == [action |-> "move", old |-> o[j], new |-> n[i]]
      <4>3. e \in moves
        BY <4>2
      <4>4. e.action = "move" /\ e.old = o[j] /\ e.new = n[i] /\ e \in diff
        BY <1>1, <4>3, Zenon
      <4> HIDE DEF e
      <4>5. QED
        BY <4>4
    <3>2. CASE \A i \in came : ~paired(i, j)
      <4> DEFINE e == [action |-> "umount", old |-> o[j]]
      <4>1. e \in outs
        BY <3>2
      <4>2. e.action = "umount" /\ e.old = o[j] /\ e \in diff
        BY <1>1, <4>1, Zenon
      <4> HIDE DEF e
      <4>3. QED
        BY <4>2
    <3>3. QED
      BY <3>1, <3>2
  <2>3. QED
    BY <2>1, <2>2
<1>6. ListSources(diff) = {f.source : f \in {n[i] : i \in came} \cup {o[j] : j \in went}}
  <2>1. ASSUME NEW e \in diff
        PROVE  (IF e.action = "umount" THEN e.old.source ELSE e.new.source)
                  \in {f.source : f \in {n[i] : i \in came} \cup {o[j] : j \in went}}
    BY <1>4, <1>5
  <2>2. ASSUME NEW i \in came
        PROVE  \E e \in diff : e.action # "umount" /\ e.new = n[i]
    BY <1>4
  <2>3. ASSUME NEW j \in went
        PROVE  \E e \in diff : (IF e.action = "umount" THEN e.old.source ELSE e.new.source)
                  = o[j].source
    <3>1. CASE \E i \in came : paired(i, j)
      <4>1. PICK i \in came : paired(i, j)
        BY <3>1
      <4>2. PICK e \in diff : e.action # "umount" /\ e.new = n[i]
        BY <2>2
      <4>3. QED
        BY <1>2, <4>1, <4>2
    <3>2. CASE \A i \in came : ~paired(i, j)
      <4> DEFINE e == [action |-> "umount", old |-> o[j]]
      <4>1. e \in outs
        BY <3>2
      <4>2. e.action = "umount" /\ e.old = o[j] /\ e \in diff
        BY <1>1, <4>1, Zenon
      <4> HIDE DEF e
      <4>3. QED
        BY <4>2
    <3>3. QED
      BY <3>1, <3>2
  <2>4. QED
    BY <2>1, <2>2, <2>3 DEF ListSources
<1>7. QED
  BY <1>3, <1>4, <1>5, <1>6, Zenon DEF diff

\* A table read from the file is a table, and what is read for a device its targets.
LEMMA ReadTypes ==
    ASSUME MountTypes
    PROVE  /\ newMountTable \in Entries /\ NoTable \in Entries
           /\ \A s \in DevSource : DeviceBasicMountInfo(s) \in SUBSET Target
<1>1. mounts \in [1..Len(mounts) -> MountEntry] /\ Len(mounts) \in Nat
  BY DEF MountTypes
<1>2. newMountTable \in [{j \in DOMAIN mounts : applyFilters(mounts[j])} -> MountEntry]
  BY <1>1 DEF newMountTable
<1>3. {j \in DOMAIN mounts : applyFilters(mounts[j])} \in SUBSET Nat
  BY <1>1
<1>4. NoTable \in [{} -> MountEntry]
  BY DEF NoTable
<1>5. \A f \in Range(mounts) : f.target \in Target
  BY <1>1 DEF Range, MountEntry
<1>6. QED
  BY <1>2, <1>3, <1>4, <1>5, Zenon DEF Entries, DeviceBasicMountInfo

\* The sources in a table are sources.
LEMMA TableSources ==
    ASSUME NEW t \in Entries, NEW f \in Range(t)
    PROVE  f.source \in Source
<1>1. PICK S \in SUBSET Nat : t \in [S -> MountEntry]
  BY DEF Entries
<1>2. f \in MountEntry
  BY <1>1 DEF Range
<1>3. QED
  BY <1>2 DEF MountEntry

\* The sources of the diff between two tables are those with different entries.
LEMMA DiffSources ==
    ASSUME NEW o \in Entries, NEW n \in Entries
    PROVE  /\ ListSources(GenerateDiff(o, n)) \in SUBSET Source
           /\ \A s \in Source : Of(s, n) # Of(s, o) => s \in ListSources(GenerateDiff(o, n))
<1> DEFINE diff == GenerateDiff(o, n)
           came == {e.new : e \in {e \in diff : e.action # "umount"}}
           went == {e.old : e \in {e \in diff : e.action # "mount"}}
<1>0. /\ came = Range(n) \ Range(o) /\ went = Range(o) \ Range(n)
      /\ ListSources(diff) = {f.source : f \in came \cup went}
  BY DiffExact
<1> HIDE DEF diff, came, went
<1>1. ListSources(diff) =
        {f.source : f \in (Range(n) \ Range(o)) \cup (Range(o) \ Range(n))}
  BY <1>0
<1> USE DEF diff
<1>2. \A f \in Range(n) \cup Range(o) : f.source \in Source
  BY TableSources
<1>3. QED
  BY <1>1, <1>2 DEF Of

\* The invariants of the run follow.
LEMMA MountInvImplies == MountInv => MountsReported /\ DiffIsExact
<1> SUFFICES ASSUME MountInv PROVE MountsReported /\ DiffIsExact
  OBVIOUS
<1>1. MountsReported
  <2> SUFFICES ASSUME MountRest, ~missed, NEW s \in Known
               PROVE  stored[s] \ DenyTarget = DeviceBasicMountInfo(s) \ DenyTarget
    BY DEF MountsReported
  <2>1. /\ probe.pc = "loop" /\ waiter \in {"wait", "send"}
        /\ Fresh(s) \/ Due(s) \/ (Coming /\ Differs(s))
        /\ s = writing \/ stored[s] = cached[s]
    BY DEF MountInv, Tracked, MountRest
  <2>2. ~Due(s) /\ ~Coming
    BY <2>1 DEF Due, Coming, MountRest, MountInv, MountTypes
  <2>3. s # Idle
    BY MountAssumption DEF MountInv, MountTypes, Known
  <2>4. QED
    BY <2>1, <2>2, <2>3 DEF Fresh, MountRest
<1>2. DiffIsExact
  <2>1. newMountTable \in Entries /\ tab \in Entries
    BY ReadTypes DEF MountInv, MountTypes
  <2>2. \A f \in Range(newMountTable) \cup Range(tab) : f.source \in Source
    BY <2>1, TableSources
  <2> DEFINE diff == GenerateDiff(tab, newMountTable)
             came == {e.new : e \in {e \in diff : e.action # "umount"}}
             went == {e.old : e \in {e \in diff : e.action # "mount"}}
  <2>3. /\ came = Range(newMountTable) \ Range(tab) /\ went = Range(tab) \ Range(newMountTable)
        /\ ListSources(diff) = {f.source : f \in came \cup went}
    BY <2>1, DiffExact, Zenon
  <2> HIDE DEF diff, came, went
  <2>4. /\ (Range(tab) \ went) \cup came = Range(newMountTable)
        /\ ListSources(diff) = {s \in Source : \E f \in (Range(tab) \ Range(newMountTable))
                               \cup (Range(newMountTable) \ Range(tab)) : f.source = s}
    BY <2>2, <2>3
  <2>5. QED
    BY <2>4, Zenon DEF DiffIsExact, diff, came, went
<1>3. QED
  BY <1>1, <1>2

\* The probe starts in the invariant: no device is known.
LEMMA MountInitial == MountInit(Seq(MountEntry)) => MountInv
<1> SUFFICES ASSUME MountInit(Seq(MountEntry)) PROVE MountInv
  OBVIOUS
<1>1. Known = {} /\ cached \in [{} -> SUBSET Target]
  BY DEF MountInit, Known
<1>2. tab \in [{} -> MountEntry]
  BY DEF MountInit, NoTable
<1>3. MountTypes
  BY <1>1, <1>2, Zenon DEF MountInit, MountTypes, Entries, ProbeState
<1>4. QED
  BY <1>1, <1>3 DEF MountInit, MountInv, Tracked

\* Every step keeps the types.
LEMMA MountTypesStep == MountTypes /\ [MountNext]_mountVars => MountTypes'
<1> SUFFICES ASSUME MountTypes, [MountNext]_mountVars PROVE MountTypes'
  OBVIOUS
<1>1. CASE Change
  <2>1. ASSUME NEW f \in MountEntry, mounts' = Append(mounts, f)
        PROVE  mounts' \in Seq(MountEntry)
    BY <2>1 DEF MountTypes
  <2>2. ASSUME NEW i \in DOMAIN mounts,
               mounts' = SubSeq(mounts, 1, i - 1) \o SubSeq(mounts, i + 1, Len(mounts))
        PROVE  mounts' \in Seq(MountEntry)
    <3>1. DOMAIN mounts = 1..Len(mounts) /\ Len(mounts) \in Nat
      BY DEF MountTypes
    <3>2. SubSeq(mounts, 1, i - 1) \in Seq(MountEntry)
      BY <3>1 DEF MountTypes
    <3>3. SubSeq(mounts, i + 1, Len(mounts)) \in Seq(MountEntry)
      BY <3>1 DEF MountTypes
    <3>4. QED
      BY <2>2, <3>2, <3>3
  <2>3. mounts' \in Seq(MountEntry)
    BY <1>1, <2>1, <2>2, Zenon DEF Change, MountEntry
  <2>4. QED
    BY <1>1, <2>3 DEF Change, MountTypes, Known
<1>2. CASE EpollWait \/ EpollSend
  BY <1>2 DEF EpollWait, EpollSend, MountTypes, Known
<1>3. CASE setupEpoll
  BY <1>3 DEF setupEpoll, MountTypes, Known, ProbeState
<1>4. CASE StartListening
  BY <1>4, ReadTypes DEF StartListening, MountTypes, Known, ProbeState
<1>5. CASE HandleEvent
  <2>1. /\ ListSources(GenerateDiff(tab, newMountTable)) \in SUBSET Source
        /\ ListSources(GenerateDiff(tab, NoTable)) \in SUBSET Source
    BY ReadTypes, DiffSources DEF MountTypes
  <2>2. probe' \in ProbeState
    <3>1. \E p \in {"loop", "send"}, a \in BOOLEAN, ss \in SUBSET Source :
            probe' = [pc |-> p, all |-> a, srcs |-> ss]
      BY <1>5, <2>1, Zenon DEF HandleEvent
    <3>2. QED
      BY <3>1 DEF ProbeState
  <2>3. tab' \in Entries /\ events' \in Nat
    BY <1>5, ReadTypes DEF HandleEvent, MountTypes
  <2>4. QED
    BY <1>5, <2>2, <2>3 DEF HandleEvent, MountTypes, Known
<1>6. CASE Receive
  <2>1. probe' \in ProbeState
    BY <1>6 DEF Receive, MountTypes, ProbeState
  <2>2. todo' \in SUBSET Known
    BY <1>6 DEF Receive
  <2>3. QED
    BY <1>6, <2>1, <2>2 DEF Receive, MountTypes, Known
<1>7. ASSUME NEW s \in DevSource, AddDevice(s)
      PROVE  MountTypes'
  <2>1. Known \in SUBSET DevSource /\ cached \in [Known -> SUBSET Target]
    BY DEF MountTypes, Known
  <2>2. DeviceBasicMountInfo(s) \in SUBSET Target
    BY ReadTypes
  <2>3. cached' \in [Known \cup {s} -> SUBSET Target]
    BY <1>7, <2>1, <2>2 DEF AddDevice
  <2>4. Known' = Known \cup {s}
    BY <2>3 DEF Known
  <2>5. QED
    <3>1. Known \cup {s} \in SUBSET DevSource
      BY <2>1
    <3>2. cached' \in UNION {[S -> SUBSET Target] : S \in SUBSET DevSource}
      BY <2>3, <3>1
    <3>3. todo' \in SUBSET Known' /\ writing' \in Known' \cup {Idle}
      BY <1>7, <2>4 DEF AddDevice, MountTypes
    <3>4. QED
      BY <1>7, <3>2, <3>3, Zenon DEF AddDevice, MountTypes
<1>8. ASSUME NEW s \in DevSource, changeBlockDevice(s)
      PROVE  MountTypes'
  <2>1. Known \in SUBSET DevSource /\ cached \in [Known -> SUBSET Target]
    BY DEF MountTypes, Known
  <2>2. DeviceBasicMountInfo(s) \in SUBSET Target
    BY ReadTypes
  <2>3. cached' \in [Known -> SUBSET Target] /\ Known' = Known
    BY <1>8, <2>1, <2>2 DEF changeBlockDevice, Known
  <2>4. QED
    BY <1>8, <2>1, <2>3 DEF changeBlockDevice, MountTypes
<1>9. CASE UpdateBlockDevice
  <2>1. cached \in [Known -> SUBSET Target] /\ writing \in Known /\ Known \in SUBSET DevSource
    BY <1>9 DEF UpdateBlockDevice, MountTypes, Known
  <2>2. stored' \in [DevSource -> SUBSET Target]
    BY <1>9, <2>1 DEF UpdateBlockDevice, MountTypes
  <2>3. QED
    BY <1>9, <2>2 DEF UpdateBlockDevice, MountTypes, Known
<1>10. CASE UNCHANGED mountVars
  BY <1>10 DEF mountVars, MountTypes, Known
<1>11. QED
  BY <1>1, <1>2, <1>3, <1>4, <1>5, <1>6, <1>7, <1>8, <1>9, <1>10 DEF MountNext

\* a step that touches neither the mounts file nor the table read from it
KeepsFile == UNCHANGED <<mounts, tab>>

\* Such a step leaves what the file says of a device as it is (DeviceBasicMountInfo).
LEMMA FileKept ==
    ASSUME KeepsFile, NEW s
    PROVE  /\ DeviceBasicMountInfo(s)' = DeviceBasicMountInfo(s)
           /\ Differs(s)' = Differs(s) /\ newMountTable' = newMountTable
  BY DEF KeepsFile, DeviceBasicMountInfo, Differs, Of, newMountTable, Range, applyFilters

\* The steps keep the rest of the invariant.
LEMMA TrackedStep == MountInv /\ [MountNext]_mountVars => MountInv'
<1> SUFFICES ASSUME MountInv, [MountNext]_mountVars PROVE MountInv'
  OBVIOUS
<1>0. MountTypes /\ MountTypes' /\ (probe.pc = "table" => armed) /\ (~missed => Tracked)
  BY MountTypesStep DEF MountInv
<1>1. CASE Change
  <2>1. UNCHANGED <<armed, events, waiter, tab, probe, cached, stored, todo, writing>>
        /\ marked' = armed /\ missed' = (missed \/ Undone)
    BY <1>1 DEF Change
  <2>2. ASSUME ~missed', NEW s \in Known, armed,
               Fresh(s) \/ Due(s) \/ (Coming /\ Differs(s))
        PROVE  Fresh(s)' \/ Due(s)' \/ (Coming' /\ Differs(s)')
    <3>1. s \in DevSource
      BY <1>0 DEF MountTypes, Known
    <3>2. CASE Differs(s)'
      BY <2>1, <2>2, <3>2 DEF Coming
    <3>3. CASE ~Differs(s)'
      <4>1. Of(s, newMountTable)' = Of(s, tab) /\ Of(s, newMountTable) = Of(s, tab)
        BY <2>1, <2>2, <3>1, <3>3, Zenon DEF Differs, Undone, Of
      <4>2. DeviceBasicMountInfo(s)' \ DenyTarget = DeviceBasicMountInfo(s) \ DenyTarget
        BY <3>1, <4>1, InfoOfTable
      <4>3. Fresh(s) \/ Due(s)
        BY <2>2, <4>1 DEF Differs
      <4>4. QED
        BY <2>1, <4>2, <4>3 DEF Fresh, Due
    <3>4. QED
      BY <3>2, <3>3
  <2>3. QED
    BY <1>0, <2>1, <2>2, Zenon DEF MountInv, Tracked, Known
<1>2. CASE EpollWait \/ EpollSend
  <2>1. UNCHANGED <<armed, mounts, tab, probe, cached, stored, todo, writing, missed>>
        /\ waiter' \in {"wait", "send"} /\ Coming'
    BY <1>0, <1>2 DEF EpollWait, EpollSend, Coming, MountTypes
  <2>2. QED
    BY <1>0, <2>1, FileKept DEF MountInv, Tracked, Known, KeepsFile, Fresh, Due
<1>3. CASE setupEpoll
  BY <1>0, <1>3 DEF setupEpoll, AddWatcher, MountInv, Tracked, Known, MountTypes, ProbeState
<1>4. CASE StartListening
  BY <1>0, <1>4 DEF StartListening, EpollStart, MountInv, Tracked, Known, MountTypes, ProbeState
<1>5. CASE HandleEvent
  <2>1. UNCHANGED <<mounts, armed, marked, waiter, cached, stored, todo, writing, missed>>
        /\ probe.pc = "loop" /\ probe'.pc \in {"loop", "send"}
    BY <1>5 DEF HandleEvent
  <2>2. ASSUME NEW s \in Known, Fresh(s) \/ Due(s) \/ (Coming /\ Differs(s))
        PROVE  Fresh(s)' \/ Due(s)'
    <3>1. s \in Source
      BY <1>0, MountAssumption DEF MountTypes, Known
    <3>2. CASE Fresh(s) \/ Due(s)
      BY <2>1, <3>2 DEF Fresh, Due, DeviceBasicMountInfo, Range
    <3>3. CASE Differs(s)
      <4>1. s \in ListSources(GenerateDiff(tab, newMountTable))
        BY <1>0, <3>1, <3>3, ReadTypes, DiffSources DEF Differs, MountTypes
      <4>2. probe'.pc = "send" /\ (probe'.all \/ s \in probe'.srcs)
        BY <1>5, <4>1 DEF HandleEvent
      <4>3. QED
        BY <4>2 DEF Due
    <3>4. QED
      BY <2>2, <3>2, <3>3
  <2>3. QED
    BY <1>0, <2>1, <2>2 DEF MountInv, Tracked, Known
<1>6. CASE Receive
  <2>1. UNCHANGED <<mounts, armed, marked, events, waiter, tab, cached, stored, writing, missed>>
        /\ probe.pc = "send" /\ probe'.pc \in {"loop", "send"}
    BY <1>6 DEF Receive
  <2>2. ASSUME NEW s \in Known, Due(s)
        PROVE  Due(s)'
    BY <1>6, <2>2 DEF Receive, Due
  <2>3. QED
    BY <1>0, <2>1, <2>2, FileKept DEF MountInv, Tracked, Known, KeepsFile, Fresh, Coming
<1>7. ASSUME NEW s \in DevSource, AddDevice(s)
      PROVE  MountInv'
  <2>1. UNCHANGED <<mounts, armed, marked, events, waiter, tab, probe, stored, todo, missed>>
        /\ writing = Idle /\ writing' = s /\ probe.pc \notin {"setup", "table"} /\ s \notin Known
    BY <1>7 DEF AddDevice
  <2>2. /\ Known' = Known \cup {s} /\ cached'[s] = DeviceBasicMountInfo(s)
        /\ \A d \in Known : cached'[d] = cached[d]
    BY <1>7, <2>1 DEF AddDevice, Known
  <2>3. Fresh(s)'
    BY <2>1, <2>2, FileKept DEF Fresh, KeepsFile
  <2>4. ASSUME NEW d \in Known
        PROVE  Fresh(d)' = Fresh(d) /\ Due(d)' = Due(d) /\ d # Idle
    <3>1. d \in DevSource
      BY <1>0 DEF MountTypes, Known
    <3>2. QED
      BY <2>1, <2>2, <3>1, FileKept, MountAssumption DEF Fresh, Due, KeepsFile
  <2>5. QED
    BY <1>0, <2>1, <2>2, <2>3, <2>4, FileKept, Zenon DEF MountInv, Tracked, KeepsFile, Coming
<1>8. ASSUME NEW s \in DevSource, changeBlockDevice(s)
      PROVE  MountInv'
  <2>1. UNCHANGED <<mounts, armed, marked, events, waiter, tab, probe, stored>>
        /\ writing = Idle /\ s \in Known /\ todo' = todo \ {s}
    BY <1>0, <1>8 DEF changeBlockDevice, MountTypes
  <2>2. CASE missed'
    BY <1>0, <2>1, <2>2 DEF MountInv
  <2>3. CASE ~missed'
    <3>1. /\ cached' = [cached EXCEPT ![s] = DeviceBasicMountInfo(s)] /\ ~missed
          /\ writing' = IF cached' = cached THEN Idle ELSE s
      BY <1>8, <2>3 DEF changeBlockDevice
    <3>2. /\ Known' = Known /\ cached'[s] = DeviceBasicMountInfo(s)
          /\ \A d \in Known \ {s} : cached'[d] = cached[d]
      BY <2>1, <3>1 DEF Known
    <3>3. Fresh(s)'
      BY <2>1, <3>2, FileKept DEF Fresh, KeepsFile
    <3>4. ASSUME NEW d \in Known \ {s}
          PROVE  Fresh(d)' = Fresh(d) /\ Due(d)' = Due(d)
      BY <2>1, <3>2, FileKept DEF Fresh, Due, KeepsFile
    <3>5. ASSUME NEW d \in Known, stored[d] = cached[d]
          PROVE  d = writing' \/ stored'[d] = cached'[d]
      BY <2>1, <3>1, <3>2, <3>5
    <3>6. \A d \in Known : d # writing
      BY <1>0, <2>1, MountAssumption, Zenon DEF MountTypes, Known
    <3>7. QED
      BY <1>0, <2>1, <3>1, <3>2, <3>3, <3>4, <3>5, <3>6, FileKept, Zenon
         DEF MountInv, Tracked, KeepsFile, Coming
  <2>4. QED
    BY <2>2, <2>3
<1>9. CASE UpdateBlockDevice
  <2>1. UNCHANGED <<mounts, armed, marked, events, waiter, tab, probe, cached, todo>>
        /\ writing' = Idle /\ writing \in Known
    BY <1>0, <1>9 DEF UpdateBlockDevice, MountTypes
  <2>2. CASE missed'
    BY <1>0, <2>1, <2>2 DEF MountInv
  <2>3. CASE ~missed'
    <3>1. stored' = [stored EXCEPT ![writing] = cached[writing]] /\ ~missed
      BY <1>9, <2>3 DEF UpdateBlockDevice
    <3>2. ASSUME NEW d \in Known, d = writing \/ stored[d] = cached[d]
          PROVE  stored'[d] = cached'[d]
      BY <1>0, <2>1, <3>1, <3>2 DEF MountTypes, Known
    <3>3. QED
      BY <1>0, <2>1, <3>1, <3>2, FileKept, Zenon DEF MountInv, Tracked, Known, KeepsFile, Fresh, Due, Coming
  <2>4. QED
    BY <2>2, <2>3
<1>10. CASE UNCHANGED mountVars
  <2>1. UNCHANGED <<armed, marked, events, waiter, mounts, tab, probe, cached, stored, todo,
                    writing, missed>>
    BY <1>10 DEF mountVars
  <2>2. QED
    BY <1>0, <2>1, FileKept, Zenon DEF MountInv, Tracked, Known, KeepsFile, Fresh, Due, Coming
<1>11. QED
  BY <1>1, <1>2, <1>3, <1>4, <1>5, <1>6, <1>7, <1>8, <1>9, <1>10 DEF MountNext

\* Every behaviour of the probe keeps the invariant.
THEOREM MountInvariant == MountSpec => []MountInv
  BY MountInitial, TrackedStep, PTL DEF MountSpec

\* A probe at rest, without a failure it gave up on, has reported the mount points of
\* every known device, although the file changes while it is read and a read may fail.
THEOREM MountReports == MountSpec => []MountsReported
  BY MountInvariant, MountInvImplies, PTL

\* The diff of the table with the file has a source exactly when its mount points have
\* changed, and turns the one into the other.
THEOREM MountDiff == MountSpec => []DiffIsExact
  BY MountInvariant, MountInvImplies, PTL
=============================================================================
