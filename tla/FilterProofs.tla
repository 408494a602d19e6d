---------------------------- MODULE FilterProofs ----------------------------
(***************************************************************************)
(* The filters of the daemon, for every node whose names tell its devices  *)
(* apart and whose mounts files tell what is mounted (NodeOK): any number  *)
(* of disks, partitions and mount points, and names of any length.         *)
(*                                                                         *)
(* The argument: the search in a sysfs path ends at the disk of a device   *)
(* (ParentIs); the expressions of the os-disk filter match a name and what *)
(* the kernel would call its partitions (MatchIs), which are the devices   *)
(* below it in sysfs (MatchIsKin); and the first line of a mounts file     *)
(* that has a name leads to the device that is mounted there (FileLeads).  *)
(***************************************************************************)
EXTENDS DeviceFilters, NaturalsInduction, WellFoundedInduction, TLAPS

\* A set of positions that is not empty has an earliest one.
LEMMA EarliestIsLeast ==
    ASSUME NEW S \in SUBSET Nat, S # {}
    PROVE  Earliest(S) \in S /\ \A j \in S : Earliest(S) <= j
<1>1. PICK i \in S : \A j \in S : <<j, i>> \notin OpToRel(<, Nat)
  BY NatLessThanWellFounded, WFMin, Zenon
<1>2. ASSUME NEW j \in S
      PROVE  i <= j
  <2>1. ~(j < i)
    BY <1>1, Zenon DEF OpToRel
  <2>2. QED
    BY <2>1
<1>3. QED
  BY <1>2, Zenon DEF Earliest

\* Lists are equal when their elements are.
LEMMA SameElements ==
    ASSUME NEW S, NEW s \in Seq(S), NEW t \in Seq(S), Len(s) = Len(t),
           \A i \in 1..Len(s) : s[i] = t[i]
    PROVE  s = t
OBVIOUS

\* The start of a list.
LEMMA StartOfList ==
    ASSUME NEW S, NEW s \in Seq(S), NEW m \in 0..Len(s)
    PROVE  /\ SubSeq(s, 1, m) \in Seq(S) /\ Len(SubSeq(s, 1, m)) = m
           /\ \A i \in 1..m : SubSeq(s, 1, m)[i] = s[i]
<1>1. SubSeq(s, 1, m) \in Seq(S) /\ Len(SubSeq(s, 1, m)) = m
  OBVIOUS
<1>2. \A i \in 1..m : SubSeq(s, 1, m)[i] = s[i]
  OBVIOUS
<1>3. QED
  BY <1>1, <1>2

\* A list starts with another one when it has its elements.
LEMMA PrefixElements ==
    ASSUME NEW S, NEW s \in Seq(S), NEW t \in Seq(S)
    PROVE  HasPrefix(s, t) <=> Len(t) <= Len(s) /\ \A i \in 1..Len(t) : s[i] = t[i]
<1>1. SUFFICES ASSUME Len(t) <= Len(s)
               PROVE  HasPrefix(s, t) <=> \A i \in 1..Len(t) : s[i] = t[i]
  BY DEF HasPrefix
<1>2. Len(t) \in 0..Len(s)
  BY <1>1
<1> DEFINE u == SubSeq(s, 1, Len(t))
<1>3. u \in Seq(S) /\ Len(u) = Len(t) /\ \A i \in 1..Len(t) : u[i] = s[i]
  BY <1>2, StartOfList
<1> HIDE DEF u
<1>4. u = t <=> \A i \in 1..Len(t) : u[i] = t[i]
  BY <1>3, SameElements
<1>5. QED
  BY <1>1, <1>3, <1>4 DEF HasPrefix, u

\* The components of a path are names, and directories of sysfs.
Component == Seq(Token) \cup {<<"devices">>, <<"block">>, <<"nvme">>, <<"nvme-subsystem">>,
                              <<"nvme", "0">>, <<"nvme-subsys", "0">>}

\* The position of a component before which there is no other one that is looked for.
LEMMA PositionIs ==
    ASSUME NEW path \in Seq(Component), NEW names, NEW i \in DOMAIN path, path[i] \in names,
           \A j \in DOMAIN path : j < i => path[j] \notin names
    PROVE  Position(path, names) = i
<1> DEFINE at == {j \in DOMAIN path : path[j] \in names}
<1>1. at \in SUBSET Nat /\ i \in at /\ DOMAIN path \subseteq Nat
  OBVIOUS
<1>2. Earliest(at) \in at /\ \A j \in at : Earliest(at) <= j
  BY <1>1, EarliestIsLeast, Zenon
<1> DEFINE e == Earliest(at)
<1>3. e \in DOMAIN path /\ path[e] \in names /\ e <= i
  BY <1>1, <1>2
<1> HIDE DEF e
<1>4. e = i
  BY <1>1, <1>3
<1> USE DEF e
<1>5. QED
  BY <1>1, <1>4 DEF Position

\* A position is a number.
LEMMA PositionNat ==
    ASSUME NEW path \in Seq(Component), NEW names
    PROVE  Position(path, names) \in Nat
<1> DEFINE at == {j \in DOMAIN path : path[j] \in names}
<1>1. at \in SUBSET Nat
  OBVIOUS
<1> HIDE DEF at
<1>2. at # {} => Earliest(at) \in Nat
  BY <1>1, EarliestIsLeast, Zenon
<1>3. QED
  BY <1>2 DEF Position, at

\* The path of a disk: how long it is, and where its name stands in it.
Top(p, name) ==
    \/ /\ Len(p) = 3 /\ p[1] = <<"devices">> /\ p[2] = <<"block">> /\ p[3] = name
    \/ /\ Len(p) = 4 /\ p[1] = <<"devices">> /\ p[2] \in {<<"nvme">>, <<"nvme-subsystem">>}
       /\ p[3] \in {<<"nvme", "0">>, <<"nvme-subsys", "0">>} /\ p[4] = name

LEMMA DiskPathShape ==
    ASSUME NEW d \in DiskSet
    PROVE  DiskPath(d) \in Seq(Component) /\ Top(DiskPath(d), d.name)
<1>1. d.name \in Component
  BY DEF DiskSet, Component
<1>2. /\ <<"devices">> \in Component /\ <<"nvme">> \in Component
      /\ <<"nvme-subsystem">> \in Component /\ <<"block">> \in Component
      /\ <<"nvme", "0">> \in Component /\ <<"nvme-subsys", "0">> \in Component
  BY DEF Component
<1>3. CASE d.kind = "nvme"
  BY <1>1, <1>2, <1>3 DEF DiskPath, Top
<1>4. CASE d.kind = "nvme-subsystem"
  BY <1>1, <1>2, <1>4 DEF DiskPath, Top
<1>5. CASE d.kind \notin {"nvme", "nvme-subsystem"}
  BY <1>1, <1>2, <1>5 DEF DiskPath, Top
<1>6. QED
  BY <1>3, <1>4, <1>5

\* The name of a partition is a name, longer than that of its disk.
LEMMA PartNameShape ==
    ASSUME NEW name \in Seq(Token), NEW n \in PartNumber
    PROVE  NameOfPart(name, n) \in Seq(Token) /\ Len(NameOfPart(name, n)) > Len(name)
<1>1. n \in Seq(Token) /\ Len(n) > 0
  BY TokenAssumption DEF PartNumber
<1>2. <<"p">> \in Seq(Token) /\ <<>> \in Seq(Token)
  BY TokenAssumption
<1>3. QED
  BY <1>1, <1>2 DEF NameOfPart

\* The paths of a disk are its own and, one component longer, those of its partitions.
LEMMA PathShape ==
    ASSUME NEW d \in DiskSet, NEW p \in PathsOf(d)
    PROVE  LET top == DiskPath(d) IN
           /\ p \in Seq(Component) /\ Len(p) \in {Len(top), Len(top) + 1}
           /\ \A i \in 1..Len(top) : p[i] = top[i]
           /\ Len(p) = Len(top) => p = top
           /\ Len(p) = Len(top) + 1 =>
                \E n \in d.parts : p = Append(top, PartName(d, n)) /\ Base(p) = PartName(d, n)
<1> DEFINE top == DiskPath(d)
<1>1. top \in Seq(Component) /\ Len(top) \in {3, 4}
  BY DiskPathShape DEF Top
<1>2. CASE p = top
  BY <1>1, <1>2
<1>3. ASSUME NEW n \in d.parts, p = Append(top, PartName(d, n))
      PROVE  /\ p \in Seq(Component) /\ Len(p) = Len(top) + 1
             /\ \A i \in 1..Len(top) : p[i] = top[i]
             /\ Base(p) = PartName(d, n)
  <2>1. PartName(d, n) \in Component
    BY PartNameShape DEF DiskSet, PartName, Component
  <2> HIDE DEF top
  <2>2. QED
    BY <1>1, <1>3, <2>1 DEF Base
<1>4. QED
  BY <1>1, <1>2, <1>3 DEF PathsOf

\* A path that starts with another one is of the same disk, and one of its partitions
\* when it is longer.
LEMMA PrefixIsKin ==
    ASSUME NEW o, NodeOK(o), NEW a \in o.disks, NEW b \in o.disks,
           NEW q \in PathsOf(a), NEW p \in PathsOf(b), HasPrefix(p, q)
    PROVE  a = b /\ (q = p \/ q = DiskPath(a))
<1>0. a \in DiskSet /\ b \in DiskSet /\ p \in o.paths /\ q \in o.paths
  BY DEF NodeOK, PathsOfAll
<1> DEFINE s == DiskPath(a)
           t == DiskPath(b)
<1>1. /\ s \in Seq(Component) /\ Top(s, a.name) /\ t \in Seq(Component) /\ Top(t, b.name)
  BY <1>0, DiskPathShape
<1>2. /\ q \in Seq(Component) /\ Len(q) \in {Len(s), Len(s) + 1} /\ \A i \in 1..Len(s) : q[i] = s[i]
      /\ Len(q) = Len(s) => q = s
  BY <1>0, PathShape
<1>3. /\ p \in Seq(Component) /\ Len(p) \in {Len(t), Len(t) + 1} /\ \A i \in 1..Len(t) : p[i] = t[i]
      /\ Len(p) = Len(t) => p = t
  BY <1>0, PathShape
<1> HIDE DEF s, t
<1>4. Len(q) <= Len(p) /\ \A i \in 1..Len(q) : p[i] = q[i]
  BY <1>2, <1>3, PrefixElements
<1>5. Len(s) = Len(t) /\ Len(s) \in {3, 4}
  <2>1. Len(s) \in {3, 4} /\ Len(t) \in {3, 4}
    BY <1>1 DEF Top
  <2>2. q[2] = s[2] /\ p[2] = t[2] /\ p[2] = q[2]
    <3>1. 2 \in 1..Len(s) /\ 2 \in 1..Len(t) /\ 2 \in 1..Len(q)
      <4>1. Len(s) \in Nat /\ Len(t) \in Nat /\ Len(q) \in Nat
        BY <1>1, <1>2
      <4>2. Len(q) \in {Len(s), Len(s) + 1}
        BY <1>2
      <4>3. Len(s) >= 3
        BY <1>1 DEF Top
      <4>4. Len(t) >= 3
        BY <1>1 DEF Top
      <4>5. Len(q) >= 3
        BY <4>1, <4>2, <4>3
      <4>6. QED
        BY <4>1, <4>3, <4>4, <4>5
    <3>2. QED
      BY <1>2, <1>3, <1>4, <3>1
  <2>3. <<"block">> # <<"nvme">> /\ <<"block">> # <<"nvme-subsystem">>
    OBVIOUS
  <2>4. QED
    BY <1>1, <2>1, <2>2, <2>3 DEF Top
<1>6. a.name = b.name
  <2>1. s[Len(s)] = a.name /\ t[Len(t)] = b.name
    BY <1>1 DEF Top
  <2>2. QED
    BY <1>2, <1>3, <1>4, <1>5, <2>1
<1>7. a = b
  BY <1>6 DEF NodeOK, NamesTell
<1>8. CASE Len(q) = Len(s)
  BY <1>2, <1>7, <1>8 DEF s
<1>9. CASE Len(q) = Len(s) + 1
  <2>1. Len(p) = Len(q)
    BY <1>2, <1>3, <1>4, <1>5, <1>9
  <2>2. Base(p) = Base(q)
    BY <1>2, <1>4, <1>5, <1>9, <2>1 DEF Base
  <2>3. QED
    BY <1>0, <1>7, <2>2 DEF NodeOK, NamesTell
<1>10. QED
  BY <1>2, <1>8, <1>9

\* The path of a device starts with itself and with the path of its disk.
LEMMA KinIsPrefix ==
    ASSUME NEW d \in DiskSet, NEW p \in PathsOf(d)
    PROVE  HasPrefix(p, p) /\ HasPrefix(p, DiskPath(d))
<1> DEFINE t == DiskPath(d)
<1>1. t \in Seq(Component) /\ Len(t) \in {3, 4}
  BY DiskPathShape DEF Top
<1>2. p \in Seq(Component) /\ Len(p) \in {Len(t), Len(t) + 1} /\ \A i \in 1..Len(t) : p[i] = t[i]
  BY PathShape
<1> HIDE DEF t
<1>3. QED
  BY <1>1, <1>2, PrefixElements DEF t

\* The disk of a device of the node.
LEMMA DiskOfIs ==
    ASSUME NodeOK(os), NEW d \in os.disks, NEW p \in PathsOf(d)
    PROVE  DiskOf(p) = d
<1>1. d \in DiskSet
  BY DEF NodeOK
<1>2. HasPrefix(p, p)
  BY <1>1, KinIsPrefix
<1>3. \A c \in os.disks : p \in PathsOf(c) => c = d
  BY <1>2, PrefixIsKin
<1>4. QED
  BY <1>3, Zenon DEF DiskOf

\* What the mount utilities and sysfs find for a device is its disk, not itself.
LEMMA ParentIs ==
    ASSUME NodeOK(os), NEW d \in os.disks, NEW p \in PathsOf(d)
    PROVE  getParentBlockDevice(p) = {d.name} /\ getParent(p) = {d.name} \ {Base(p)}
<1> DEFINE t == DiskPath(d)
<1>0. d \in DiskSet /\ p \in os.paths /\ t \in os.paths
  BY DEF NodeOK, PathsOfAll, PathsOf
<1>1. t \in Seq(Component) /\ Top(t, d.name)
  BY <1>0, DiskPathShape
<1>2. p \in Seq(Component) /\ Len(p) \in {Len(t), Len(t) + 1} /\ \A i \in 1..Len(t) : p[i] = t[i]
  BY <1>0, PathShape
<1>3. Base(p) # <<"block">> /\ Base(t) # <<"block">>
  BY <1>0 DEF NodeOK, NamesTell
<1> HIDE DEF t
<1> DEFINE b == Position(p, { <<"block">> })
           n == Position(p, { <<"nvme">>, <<"nvme-subsystem">> })
<1>4. DOMAIN p = 1..Len(p)
  BY <1>2
<1>5. CASE Len(t) = 3
  <2>1. p[1] = <<"devices">> /\ p[2] = <<"block">> /\ p[3] = d.name /\ Len(p) >= 3
    BY <1>1, <1>2, <1>5 DEF Top
  <2>2. b = 2
    <3> DEFINE N == { <<"block">> }
    <3>0. Len(p) \in Nat
      BY <1>2
    <3>1. 2 \in DOMAIN p /\ \A j \in DOMAIN p : j < 2 => j = 1
      BY <1>4, <2>1, <3>0
    <3>2. p[2] \in N /\ p[1] \notin N
      BY <2>1
    <3> HIDE DEF N
    <3>3. Position(p, N) = 2
      BY <1>2, <3>1, <3>2, PositionIs
    <3>4. QED
      BY <3>3 DEF N
  <2>3. n \in Nat
    BY <1>2, PositionNat
  <2> HIDE DEF b, n
  <2>4. QED
    BY <1>2, <2>1, <2>2, <2>3 DEF getParentBlockDevice, getParent, b, n
<1>6. CASE Len(t) = 4
  <2>1. /\ p[1] = <<"devices">> /\ p[2] \in {<<"nvme">>, <<"nvme-subsystem">>}
        /\ p[3] \in {<<"nvme", "0">>, <<"nvme-subsys", "0">>} /\ p[4] = d.name /\ Len(p) >= 4
    BY <1>1, <1>2, <1>6 DEF Top
  <2>2. p[4] # <<"block">> /\ p[Len(p)] # <<"block">>
    BY <1>1, <1>3, <1>6, <2>1 DEF Top, Base
  <2>3. \A i \in DOMAIN p : p[i] # <<"block">>
    <3>1. <<"devices">> # <<"block">> /\ <<"nvme">> # <<"block">> /\ <<"nvme-subsystem">> # <<"block">>
      OBVIOUS
    <3>2. <<"nvme", "0">> # <<"block">> /\ <<"nvme-subsys", "0">> # <<"block">>
      OBVIOUS
    <3>3. \A i \in DOMAIN p : i \in {1, 2, 3, 4} \/ i = Len(p)
      BY <1>2, <1>4, <1>6
    <3>4. QED
      BY <2>1, <2>2, <3>1, <3>2, <3>3
  <2>4. b = 0
    BY <2>3 DEF Position
  <2>5. n = 2
    <3> DEFINE N == { <<"nvme">>, <<"nvme-subsystem">> }
    <3>0. Len(p) \in Nat
      BY <1>2
    <3>1. 2 \in DOMAIN p /\ \A j \in DOMAIN p : j < 2 => j = 1
      BY <1>4, <2>1, <3>0
    <3>2. p[2] \in N /\ p[1] \notin N
      BY <2>1
    <3> HIDE DEF N
    <3>3. Position(p, N) = 2
      BY <1>2, <3>1, <3>2, PositionIs
    <3>4. QED
      BY <3>3 DEF N
  <2> HIDE DEF b, n
  <2>6. QED
    BY <1>2, <2>1, <2>4, <2>5 DEF getParentBlockDevice, getParent, b, n
<1>7. QED
  BY <1>1, <1>5, <1>6 DEF Top

\* A list that starts with another one goes on with the rest.
LEMMA PrefixAndRest ==
    ASSUME NEW S, NEW s \in Seq(S), NEW x \in Seq(S), HasPrefix(x, s)
    PROVE  LET r == Rest(s, x) IN
           r \in Seq(S) /\ Len(r) = Len(x) - Len(s) /\ x = s \o r
<1> DEFINE r == Rest(s, x)
<1>1. Len(s) <= Len(x) /\ \A i \in 1..Len(s) : x[i] = s[i]
  BY PrefixElements
<1>2. r \in Seq(S) /\ Len(r) = Len(x) - Len(s)
  BY <1>1 DEF Rest
<1>3. \A i \in 1..Len(r) : r[i] = x[Len(s) + i]
  BY <1>1, <1>2 DEF Rest
<1> HIDE DEF r
<1>4. s \o r \in Seq(S) /\ Len(s \o r) = Len(x)
  BY <1>1, <1>2
<1>5. \A i \in 1..Len(x) : (s \o r)[i] = x[i]
  <2> TAKE i \in 1..Len(x)
  <2>1. CASE i \in 1..Len(s)
    BY <1>1, <1>2, <2>1
  <2>2. CASE i - Len(s) \in 1..Len(r)
    BY <1>2, <1>3, <2>2
  <2>3. QED
    BY <1>1, <1>2, <2>1, <2>2
<1>6. x = s \o r
  BY <1>4, <1>5, SameElements, Zenon
<1>7. QED
  BY <1>2, <1>6 DEF r

\* Of two lists joined the first is a prefix and the second the rest.
LEMMA JoinedPrefix ==
    ASSUME NEW S, NEW s \in Seq(S), NEW r \in Seq(S)
    PROVE  HasPrefix(s \o r, s) /\ Rest(s, s \o r) = r
<1> DEFINE x == s \o r
<1>1. x \in Seq(S) /\ Len(x) = Len(s) + Len(r)
  OBVIOUS
<1>2. \A i \in 1..Len(s) : x[i] = s[i]
  OBVIOUS
<1>3. \A i \in 1..Len(r) : x[Len(s) + i] = r[i]
  OBVIOUS
<1> HIDE DEF x
<1>4. HasPrefix(x, s)
  BY <1>1, <1>2, PrefixElements
<1>5. Rest(s, x) \in Seq(S) /\ Len(Rest(s, x)) = Len(r)
  BY <1>1 DEF Rest
<1>6. \A i \in 1..Len(r) : Rest(s, x)[i] = r[i]
  BY <1>1, <1>3 DEF Rest
<1>7. Rest(s, x) = r
  BY <1>5, <1>6, SameElements
<1>8. QED
  BY <1>4, <1>7 DEF x

\* A list is its first element and its tail.
LEMMA HeadAndTail ==
    ASSUME NEW S, NEW s \in Seq(S), Len(s) > 1
    PROVE  Tail(s) \in Seq(S) /\ Tail(s) # <<>> /\ s = <<s[1]>> \o Tail(s)
<1> DEFINE t == Tail(s)
<1>1. t \in Seq(S) /\ Len(t) = Len(s) - 1
  OBVIOUS
<1>2. \A i \in 1..Len(t) : t[i] = s[i + 1]
  BY <1>1
<1>3. <<s[1]>> \in Seq(S) /\ Len(<<s[1]>>) = 1 /\ (<<s[1]>>)[1] = s[1]
  OBVIOUS
<1> DEFINE h == <<s[1]>>
<1> HIDE DEF t, h
<1>4. h \o t \in Seq(S) /\ Len(h \o t) = Len(s)
  BY <1>1, <1>3 DEF h
<1>5. \A i \in 1..Len(s) : (h \o t)[i] = s[i]
  <2> TAKE i \in 1..Len(s)
  <2>1. CASE i = 1
    BY <1>1, <1>3, <2>1 DEF h
  <2>2. CASE i - 1 \in 1..Len(t)
    <3>1. (h \o t)[i] = t[i - 1]
      BY <1>1, <1>3, <2>2 DEF h
    <3>2. QED
      BY <1>1, <1>2, <2>2, <3>1
  <2>3. i = 1 \/ i - 1 \in 1..Len(t)
    BY <1>1
  <2>4. QED
    BY <2>1, <2>2, <2>3, Zenon
<1>6. s = h \o t
  <2> DEFINE u == h \o t
  <2> HIDE DEF u
  <2>1. u \in Seq(S) /\ Len(u) = Len(s) /\ \A i \in 1..Len(s) : s[i] = u[i]
    BY <1>4, <1>5 DEF u
  <2>2. s = u
    BY <2>1, SameElements
  <2>3. QED
    BY <2>2 DEF u
<1>7. t # <<>>
  BY <1>1
<1>8. QED
  BY <1>1, <1>6, <1>7 DEF h, t

\* A name made of one and a number is that of a partition.
LEMMA JoinedIsPart ==
    ASSUME NEW name \in Seq(Token), NEW n \in PartNumber
    PROVE  NamedAsPart(name, NameOfPart(name, n))
<1> DEFINE s == name \o (IF EndsInDigit(name) THEN <<"p">> ELSE <<>>)
           x == NameOfPart(name, n)
<1>1. n \in Seq(Token) /\ Len(n) > 0
  BY TokenAssumption DEF PartNumber
<1>2. <<"p">> \in Seq(Token) /\ <<>> \in Seq(Token)
  BY TokenAssumption
<1>3. s \in Seq(Token)
  BY <1>2
<1>4. x = s \o n
  BY DEF NameOfPart
<1> HIDE DEF s, x
<1>5. Rest(s, x) = n
  BY <1>1, <1>3, <1>4, JoinedPrefix
<1>6. Len(s) + 1 \in DOMAIN x
  BY <1>1, <1>3, <1>4
<1>7. QED
  BY <1>5, <1>6, Zenon DEF NamedAsPart, Rest, x

\* The name of a partition starts with that of its disk.
LEMMA PartStarts ==
    ASSUME NEW name \in Seq(Token), NEW n \in PartNumber
    PROVE  HasPrefix(NameOfPart(name, n), name)
<1> DEFINE sep == IF EndsInDigit(name) THEN <<"p">> ELSE <<>>
<1>1. n \in Seq(Token)
  BY TokenAssumption DEF PartNumber
<1>2. sep \in Seq(Token)
  BY TokenAssumption
<1>3. NameOfPart(name, n) = name \o sep \o n
  BY DEF NameOfPart
<1> HIDE DEF sep
<1>4. name \o sep \o n = name \o (sep \o n) /\ sep \o n \in Seq(Token)
  BY <1>1, <1>2
<1>5. QED
  BY <1>3, <1>4, JoinedPrefix, Zenon

\* A list of digits is a number of a partition.
LEMMA DigitsAreNumber ==
    ASSUME NEW r \in Seq(Token), AllDigits(r), r # <<>>
    PROVE  r \in PartNumber
<1>1. r \in Seq(Digit)
  BY DEF AllDigits
<1>2. QED
  BY <1>1 DEF PartNumber

\* The expressions of the os-disk filter match a name and the names that the kernel
\* gives the partitions of the device of that name, and nothing else.
LEMMA MatchIs ==
    ASSUME NEW name \in Seq(Token), NEW x \in Seq(Token)
    PROVE  (IF EndsInDigit(name) THEN MatchP(name, x) ELSE MatchDigits(name, x))
             <=> x = name \/ NamedAsPart(name, x)
<1> DEFINE r == Rest(name, x)
<1>1. name = name \o <<>> /\ <<>> \in Seq(Token) /\ <<"p">> \in Seq(Token)
  BY TokenAssumption
<1>2. ASSUME x = name
      PROVE  HasPrefix(x, name) /\ r = <<>>
  BY <1>1, <1>2, JoinedPrefix, Zenon
<1>3. HasPrefix(x, name) => r \in Seq(Token) /\ x = name \o r
  BY PrefixAndRest
<1>4. ASSUME NamedAsPart(name, x)
      PROVE  \E n \in PartNumber : x = NameOfPart(name, n)
  BY <1>4 DEF NamedAsPart
<1>5. \A n \in PartNumber : n \in Seq(Digit) /\ n \in Seq(Token) /\ Len(n) > 0
  BY TokenAssumption DEF PartNumber
<1>6. CASE ~EndsInDigit(name)
  <2>1. \A n \in PartNumber : NameOfPart(name, n) = name \o n
    BY <1>1, <1>6 DEF NameOfPart
  <2>2. ASSUME MatchDigits(name, x)
        PROVE  x = name \/ NamedAsPart(name, x)
    <3>1. HasPrefix(x, name) /\ AllDigits(r)
      BY <2>2 DEF MatchDigits
    <3>2. CASE r = <<>>
      BY <1>1, <1>3, <3>1, <3>2
    <3>3. CASE r # <<>>
      BY <1>3, <2>1, <3>1, <3>3, DigitsAreNumber, JoinedIsPart, Zenon
    <3>4. QED
      BY <3>2, <3>3
  <2>3. ASSUME NEW n \in PartNumber, x = name \o n
        PROVE  MatchDigits(name, x)
    <3>1. HasPrefix(x, name) /\ r = n
      BY <1>5, <2>3, JoinedPrefix
    <3>2. QED
      BY <1>5, <3>1 DEF MatchDigits, AllDigits
  <2>4. x = name => MatchDigits(name, x)
    BY <1>2 DEF MatchDigits, AllDigits
  <2>5. QED
    BY <1>4, <1>6, <2>1, <2>2, <2>3, <2>4, Zenon
<1>7. CASE EndsInDigit(name)
  <2>1. \A n \in PartNumber : NameOfPart(name, n) = name \o (<<"p">> \o n)
    BY <1>1, <1>5, <1>7 DEF NameOfPart
  <2>2. ASSUME MatchP(name, x)
        PROVE  x = name \/ NamedAsPart(name, x)
    <3>1. HasPrefix(x, name) /\ (r = <<>> \/ (Len(r) > 1 /\ r[1] = "p" /\ AllDigits(Tail(r))))
      BY <2>2 DEF MatchP
    <3>2. CASE r = <<>>
      BY <1>1, <1>3, <3>1, <3>2
    <3>3. CASE Len(r) > 1 /\ r[1] = "p" /\ AllDigits(Tail(r))
      <4> HIDE DEF r
      <4>1. Tail(r) \in Seq(Token) /\ Tail(r) # <<>> /\ r = <<"p">> \o Tail(r)
        BY <1>3, <3>1, <3>3, HeadAndTail
      <4>2. QED
        BY <1>3, <2>1, <3>1, <3>3, <4>1, DigitsAreNumber, JoinedIsPart, Zenon
    <3>4. QED
      BY <3>1, <3>2, <3>3
  <2>3. ASSUME NEW n \in PartNumber, x = name \o (<<"p">> \o n)
        PROVE  MatchP(name, x)
    <3>1. <<"p">> \o n \in Seq(Token)
      BY <1>1, <1>5
    <3>2. HasPrefix(x, name) /\ r = <<"p">> \o n
      BY <2>3, <3>1, JoinedPrefix, Zenon
    <3>3. Len(<<"p">> \o n) > 1 /\ (<<"p">> \o n)[1] = "p" /\ Tail(<<"p">> \o n) = n
      BY <1>1, <1>5
    <3>4. QED
      BY <1>5, <3>2, <3>3 DEF MatchP, AllDigits
  <2>4. x = name => MatchP(name, x)
    BY <1>2 DEF MatchP
  <2>5. QED
    BY <1>4, <1>7, <2>1, <2>2, <2>3, <2>4, Zenon
<1>8. QED
  BY <1>6, <1>7

\* The name of a disk, and of a partition of it.
LEMMA BaseIsName ==
    ASSUME NEW d \in DiskSet, NEW p \in PathsOf(d)
    PROVE  /\ Base(p) \in Seq(Token) /\ Base(DiskPath(d)) = d.name
           /\ p # DiskPath(d) => NamedAsPart(d.name, Base(p))
<1>1. d.name \in Seq(Token) /\ d.parts \subseteq PartNumber
  BY DEF DiskSet
<1>2. Base(DiskPath(d)) = d.name
  BY DiskPathShape DEF Top, Base
<1>3. CASE p = DiskPath(d)
  BY <1>1, <1>2, <1>3
<1>4. CASE p # DiskPath(d)
  <2>1. PICK n \in d.parts : Base(p) = PartName(d, n)
    BY <1>4, PathShape
  <2>2. QED
    BY <1>1, <1>2, <2>1, PartNameShape, JoinedIsPart DEF PartName
<1>5. QED
  BY <1>3, <1>4

\* A device is dropped for another one exactly when it is that one or its partition.
LEMMA MatchIsKin ==
    ASSUME NodeOK(os), NEW p \in SysPaths, NEW q \in SysPaths
    PROVE  (IF EndsInDigit(Base(q)) THEN MatchP(Base(q), Base(p)) ELSE MatchDigits(Base(q), Base(p)))
             <=> HasPrefix(p, q)
<1>1. PICK a \in os.disks : q \in PathsOf(a)
  BY DEF NodeOK, PathsOfAll, SysPaths
<1>2. PICK b \in os.disks : p \in PathsOf(b)
  BY DEF NodeOK, PathsOfAll, SysPaths
<1>3. a \in DiskSet /\ b \in DiskSet
  BY DEF NodeOK
<1>4. Base(p) \in Seq(Token) /\ Base(q) \in Seq(Token)
  BY <1>1, <1>2, <1>3, BaseIsName
<1>5. Base(p) = Base(q) => p = q
  BY DEF NodeOK, NamesTell, SysPaths
<1>6. NamedAsPart(Base(q), Base(p)) => HasPrefix(p, q)
  BY DEF NodeOK, NamesTell, SysPaths
<1>7. HasPrefix(p, q) => p = q \/ NamedAsPart(Base(q), Base(p))
  <2>1. SUFFICES ASSUME HasPrefix(p, q), p # q
                 PROVE  NamedAsPart(Base(q), Base(p))
    OBVIOUS
  <2>2. a = b /\ q = DiskPath(a)
    BY <1>1, <1>2, <2>1, PrefixIsKin
  <2>3. QED
    BY <1>2, <1>3, <2>1, <2>2, BaseIsName
<1>8. HasPrefix(p, p)
  BY <1>2, <1>3, KinIsPrefix
<1>9. QED
  BY <1>4, <1>5, <1>6, <1>7, <1>8, MatchIs

\* what the os-disk filter drops for a device that holds the system
Wanted(q) == IF os.useOSDisk THEN Base(q) ELSE DiskOf(q).name
Excluded == {Wanted(q) : q \in SeenOS}

\* A name leads to its device, and from there to what is dropped for it.
LEMMA NameLeads ==
    ASSUME NodeOK(os), NEW a \in SysPaths
    PROVE  EvalSymlinks(Base(a)) = {a} /\ getPartitionDevPath(Base(a)) = {Wanted(a)}
<1>1. Base(a) # <<>> /\ \A q \in SysPaths : Base(q) = Base(a) => q = a
  BY DEF NodeOK, NamesTell, SysPaths
<1>2. EvalSymlinks(Base(a)) = {a}
  BY <1>1 DEF EvalSymlinks
<1>3. getSoftLinkForPartition(Base(a)) = {Base(a)}
  BY <1>2 DEF getSoftLinkForPartition
<1>4. PICK d \in os.disks : a \in PathsOf(d)
  BY DEF NodeOK, PathsOfAll, SysPaths
<1>5. getParentBlockDevice(a) = {DiskOf(a).name}
  BY <1>4, ParentIs, DiskOfIs
<1>6. getPartitionDevPath(Base(a)) = IF os.useOSDisk THEN {Base(a)} ELSE getParentBlockDevice(a)
  BY <1>2, <1>3 DEF getPartitionDevPath
<1>7. QED
  BY <1>2, <1>5, <1>6 DEF Wanted

\* A line that tells has a name, and the name leads to the device mounted there.
LEMMA LineLeads ==
    ASSUME NodeOK(os), NEW a \in SysPaths, NEW line, LineTells(os, line, a)
    PROVE  getDeviceName(line) # <<>> /\ getPartitionDevPath(getDeviceName(line)) = {Wanted(a)}
<1>1. EvalSymlinks(Base(a)) = {a} /\ getPartitionDevPath(Base(a)) = {Wanted(a)}
  BY NameLeads
<1>2. Base(a) # <<>>
  BY DEF NodeOK, NamesTell, SysPaths
<1>3. CASE line.dev = Base(a)
  <2>1. getDeviceName(line) = Base(a)
    BY <1>1, <1>3 DEF getDeviceName
  <2>2. QED
    BY <1>1, <1>2, <2>1
<1>4. CASE /\ line.dev = <<"root">> /\ ~line.mapper /\ os.cmdline = {Base(a)}
           /\ \A q \in os.paths : Base(q) # <<"root">>
  <2>1. getDeviceName(line) = <<"root">> /\ <<"root">> # <<>>
    BY <1>4 DEF getDeviceName
  <2>2. EvalSymlinks(<<"root">>) = {}
    BY <1>4, <2>1 DEF EvalSymlinks, SysPaths
  <2>3. getSoftLinkForPartition(<<"root">>) = {Base(a)}
    BY <1>4, <2>2 DEF getSoftLinkForPartition
  <2>4. getSoftLinkForPartition(Base(a)) = {Base(a)}
    BY <1>1 DEF getSoftLinkForPartition
  <2>5. getPartitionDevPath(<<"root">>) = getPartitionDevPath(Base(a))
    BY <2>3, <2>4 DEF getPartitionDevPath
  <2>6. QED
    BY <1>1, <2>1, <2>5
<1>5. QED
  BY <1>3, <1>4 DEF LineTells

\* A mapper name that leads nowhere is no name.
LEMMA DanglingIsSkipped ==
    ASSUME NEW line, Dangling(os, line)
    PROVE  getDeviceName(line) = <<>>
BY DEF Dangling, getDeviceName, EvalSymlinks, SysPaths

\* The first line that has a name leads to the device mounted there.
LEMMA FileLeads ==
    ASSUME NodeOK(os), NEW mp \in MountPoint, NEW file, DOMAIN file = 1..Len(file),
           FileTells(os, file, mp)
    PROVE  GetDiskPath(file, mp) = {Wanted(os.actual[mp])}
<1> DEFINE a == os.actual[mp]
           hits == {i \in DOMAIN file : file[i].at = mp}
           named == {i \in hits : getDeviceName(file[i]) # <<>>}
           e == Earliest(named)
<1>1. a \in SysPaths
  BY DEF NodeOK, SysPaths
<1>2. PICK i \in hits : LineTells(os, file[i], a)
  BY DEF FileTells
<1>3. i \in named
  BY <1>1, <1>2, LineLeads
<1>4. named \in SUBSET Nat
  OBVIOUS
<1>5. e \in named
  BY <1>3, <1>4, EarliestIsLeast, Zenon
<1>6. LineTells(os, file[e], a)
  <2>1. LineTells(os, file[e], a) \/ Dangling(os, file[e])
    BY <1>5 DEF FileTells
  <2>2. ~Dangling(os, file[e])
    BY <1>5, DanglingIsSkipped
  <2>3. QED
    BY <2>1, <2>2
<1>7. getDeviceMountAttr(file, mp) = {getDeviceName(file[e])}
  BY <1>2, <1>3, Zenon DEF getDeviceMountAttr
<1>8. getPartitionDevPath(getDeviceName(file[e])) = {Wanted(a)}
  BY <1>1, <1>6, LineLeads, Zenon
<1> HIDE DEF a, e
<1>9. GetDiskPath(file, mp) = {Wanted(a)}
  BY <1>7, <1>8 DEF GetDiskPath
<1>10. QED
  BY <1>9 DEF a

\* A file that has no line for a mount point says nothing of it.
LEMMA FileSilent ==
    ASSUME NEW mp, NEW file, NotIn(file, mp)
    PROVE  GetDiskPath(file, mp) = {}
<1>1. getDeviceMountAttr(file, mp) = {}
  <2>1. {i \in DOMAIN file : file[i].at = mp} = {}
    BY DEF NotIn
  <2>2. QED
    BY <2>1, Zenon DEF getDeviceMountAttr
<1>2. QED
  BY <1>1 DEF GetDiskPath

\* Start finds what is to be dropped for every device that holds the system and that
\* a mounts file shows.
LEMMA StartFinds ==
    ASSUME NodeOK(os), FilterStart
    PROVE  excludeDevPaths' = Excluded
<1> DEFINE found(mp) == LET host == GetDiskPath(os.host, mp) IN
                        IF host # {} THEN host ELSE GetDiskPath(os.self, mp)
<1>1. ASSUME NEW mp \in MountPoint
      PROVE  found(mp) = IF os.shown[mp] # "nowhere" THEN {Wanted(os.actual[mp])} ELSE {}
  <2>0. DOMAIN os.host = 1..Len(os.host) /\ DOMAIN os.self = 1..Len(os.self)
    BY DEF NodeOK
  <2>1. CASE os.shown[mp] = "host" /\ FileTells(os, os.host, mp)
    <3>1. GetDiskPath(os.host, mp) = {Wanted(os.actual[mp])}
      BY <2>0, <2>1, FileLeads
    <3>2. QED
      BY <2>1, <3>1
  <2>2. CASE os.shown[mp] = "self" /\ NotIn(os.host, mp) /\ FileTells(os, os.self, mp)
    <3>1. GetDiskPath(os.host, mp) = {} /\ GetDiskPath(os.self, mp) = {Wanted(os.actual[mp])}
      BY <2>0, <2>2, FileLeads, FileSilent
    <3>2. QED
      BY <2>2, <3>1
  <2>3. CASE os.shown[mp] = "nowhere" /\ NotIn(os.host, mp) /\ NotIn(os.self, mp)
    <3>1. GetDiskPath(os.host, mp) = {} /\ GetDiskPath(os.self, mp) = {}
      BY <2>3, FileSilent
    <3>2. QED
      BY <2>3, <3>1
  <2>4. QED
    BY <2>1, <2>2, <2>3, Zenon DEF NodeOK, MountsTell
<1>2. excludeDevPaths' = UNION {found(mp) : mp \in MountPoint}
  BY DEF FilterStart
<1>3. Excluded = {Wanted(os.actual[mp]) : mp \in {m \in MountPoint : os.shown[m] # "nowhere"}}
  BY DEF Excluded, SeenOS
<1> HIDE DEF found
<1>4. QED
  BY <1>1, <1>2, <1>3

\* The filter drops a name for the excluded paths exactly when the device is one that
\* holds the system, or its disk does.
LEMMA ExcludeIs ==
    ASSUME NodeOK(os), excludeDevPaths = Excluded, NEW p \in SysPaths
    PROVE  osExclude(Base(p)) <=>
             \A q \in SeenOS : IF os.useOSDisk THEN ~HasPrefix(p, q) ELSE DiskOf(p) # DiskOf(q)
<1> DEFINE match(path) == IF EndsInDigit(path) THEN MatchP(path, Base(p))
                          ELSE MatchDigits(path, Base(p))
<1>1. osExclude(Base(p)) <=> \A q \in SeenOS : ~match(Wanted(q))
  BY Zenon DEF osExclude, Excluded
<1>2. SeenOS \subseteq SysPaths
  BY DEF SeenOS, NodeOK, SysPaths
<1>3. ASSUME NEW q \in SeenOS
      PROVE  match(Wanted(q)) <=> IF os.useOSDisk THEN HasPrefix(p, q) ELSE DiskOf(p) = DiskOf(q)
  <2>1. q \in SysPaths
    BY <1>2
  <2>2. CASE os.useOSDisk
    BY <2>1, <2>2, MatchIsKin DEF Wanted
  <2>3. CASE ~os.useOSDisk
    <3>1. PICK a \in os.disks : q \in PathsOf(a)
      BY <2>1 DEF NodeOK, PathsOfAll, SysPaths
    <3>2. PICK b \in os.disks : p \in PathsOf(b)
      BY DEF NodeOK, PathsOfAll, SysPaths
    <3>3. DiskOf(q) = a /\ DiskOf(p) = b
      BY <3>1, <3>2, DiskOfIs
    <3>4. /\ DiskPath(a) \in SysPaths /\ DiskPath(a) \in PathsOf(a)
          /\ a \in DiskSet /\ b \in DiskSet
      BY DEF NodeOK, PathsOfAll, PathsOf, SysPaths
    <3>5. Base(DiskPath(a)) = a.name
      BY <3>1, <3>4, BaseIsName
    <3>6. match(a.name) <=> HasPrefix(p, DiskPath(a))
      BY <3>4, <3>5, MatchIsKin
    <3>7. HasPrefix(p, DiskPath(a)) => a = b
      BY <3>2, <3>4, PrefixIsKin
    <3>8. a = b => HasPrefix(p, DiskPath(a))
      BY <3>2, <3>4, KinIsPrefix
    <3>9. Wanted(q) = a.name
      BY <2>3, <3>3 DEF Wanted
    <3> HIDE DEF match
    <3>10. QED
      BY <2>3, <3>3, <3>6, <3>7, <3>8, <3>9, Zenon
  <2>4. QED
    BY <2>2, <2>3
<1>4. QED
  BY <1>1, <1>3, Zenon

\* The default path to exclude is a part of the names of loop devices.
LEMMA LoopMatch ==
    ASSUME NEW S, NEW name \in Seq(S)
    PROVE  MatchIgnoredCase({ <<"loop">> }, name) <=> \E i \in DOMAIN name : name[i] = "loop"
<1>1. Len(name) \in Nat /\ DOMAIN name = 1..Len(name)
  OBVIOUS
<1>2. ASSUME NEW i \in 0..(Len(name) - 1)
      PROVE  SubSeq(name, i + 1, i + 1) = <<"loop">> <=> name[i + 1] = "loop"
  <2> DEFINE u == SubSeq(name, i + 1, i + 1)
  <2>1. i + 1 \in 1..Len(name) /\ (i + 1) - (i + 1) + 1 = 1
    BY <1>1
  <2>2. u \in Seq(S) /\ Len(u) = 1 /\ u[1] = name[i + 1]
    BY <1>1, <2>1
  <2> HIDE DEF u
  <2>3. u = <<u[1]>>
    BY <2>2
  <2>4. u = <<"loop">> <=> u[1] = "loop"
    BY <2>3
  <2>5. QED
    BY <2>2, <2>4 DEF u
<1>3. Len(<< "loop" >>) = 1
  OBVIOUS
<1>4. MatchIgnoredCase({ <<"loop">> }, name) <=>
        \E i \in 0..(Len(name) - 1) : SubSeq(name, i + 1, i + 1) = <<"loop">>
  BY <1>3 DEF MatchIgnoredCase
<1>6. \A i \in DOMAIN name : i - 1 \in 0..(Len(name) - 1) /\ (i - 1) + 1 = i
  BY <1>1
<1>7. \A i \in 0..(Len(name) - 1) : i + 1 \in DOMAIN name
  BY <1>1
<1>8. QED
  BY <1>2, <1>4, <1>6, <1>7

\* The other filters: only a sound device passes them, and without configured lists every
\* one that is no loop device does.
LEMMA OthersAre ==
    ASSUME NodeOK(os), NEW p \in SysPaths
    PROVE  LET d == Device(p) IN
           /\ vendorExclude(d) /\ validExclude(d) => Sound(p)
           /\ NoLists => /\ pathInclude(d) /\ vendorInclude(d)
                         /\ Sound(p) => vendorExclude(d) /\ validExclude(d)
                         /\ pathExclude(d) <=> os.pathConfig \/ ~Loop(p)
<1> DEFINE d == Device(p)
<1>1. PICK b \in os.disks : p \in PathsOf(b) /\ b \in DiskSet
  BY DEF NodeOK, PathsOfAll, SysPaths
<1>2. DiskOf(p) = b
  BY <1>1, DiskOfIs
<1>3. Base(p) # <<>> /\ Base(p) \in Seq(Token)
  BY <1>1, BaseIsName DEF NodeOK, NamesTell, SysPaths
<1>4. /\ d.name = Base(p) /\ d.vendor = (IF b.odd \in Vendors THEN b.odd ELSE "")
      /\ d.cap = (IF b.odd = "nocap" THEN 0 ELSE 1)
      /\ d.type = (IF p # DiskPath(b) THEN "partition" ELSE b.kind) /\ d.uuid = (b.odd # "nouuid")
  BY <1>2, Zenon DEF Device
<1>4a. d.mapper = <<"vg-", "lv">>
  BY Zenon DEF Device
<1>4b. d.links = { <<"disk/a">> }
  BY Zenon DEF Device
<1>5. b.kind # "partition"
  BY <1>1 DEF DiskSet, DiskKind, DeviceMapperDeviceTypes
<1> HIDE DEF d
<1>6. validExclude(d) /\ b.odd # "OpenEBS" <=> Sound(p)
  <2>1. d.uuid <=> b.odd # "nouuid"
    BY <1>4, Zenon
  <2>2. d.cap # 0 <=> b.odd # "nocap"
    <3>1. d.cap = IF b.odd = "nocap" THEN 0 ELSE 1
      BY <1>4, Zenon
    <3>2. QED
      BY <3>1
  <2>3. d.type \in {"partition"} \cup DeviceMapperDeviceTypes
          <=> ~(p = DiskPath(b) /\ b.kind \notin DeviceMapperDeviceTypes)
    BY <1>4, <1>5
  <2>4. QED
    BY <1>2, <1>3, <1>4, <2>1, <2>2, <2>3 DEF validExclude, Sound
<1>7. vendorExclude(d) => b.odd # "OpenEBS"
  BY <1>4 DEF vendorExclude, Vendors, defaultExcludedVendors
<1>8. ASSUME NoLists
      PROVE  /\ pathInclude(d) /\ vendorInclude(d)
             /\ b.odd # "OpenEBS" => vendorExclude(d)
             /\ pathExclude(d) <=> os.pathConfig \/ ~Loop(p)
  <2>1. os.vendors = {} /\ os.noVendors = {} /\ (os.pathConfig => os.include = {} /\ os.exclude = {})
    BY <1>8 DEF NoLists
  <2>2. includePaths = {} /\ pathInclude(d) /\ vendorInclude(d)
    BY <2>1 DEF includePaths, pathInclude, vendorInclude
  <2>3. b.odd # "OpenEBS" => vendorExclude(d)
    BY <1>4, <2>1 DEF vendorExclude, Vendors, defaultExcludedVendors
  <2>4. CASE os.pathConfig
    <3>1. excludePaths = {} /\ ~PathMatch({}, d)
      BY <2>1, <2>4 DEF excludePaths, PathMatch, MatchIgnoredCase
    <3>2. QED
      BY <2>2, <2>3, <2>4, <3>1 DEF pathExclude
  <2>5. CASE ~os.pathConfig
    <3>1. excludePaths = { <<"loop">> }
      BY <2>5 DEF excludePaths
    <3>2. MatchIgnoredCase({ <<"loop">> }, d.name) <=> Loop(p)
      BY <1>3, <1>4, LoopMatch DEF Loop
    <3>3. ~MatchIgnoredCase({ <<"loop">> }, d.mapper)
      <4> DEFINE m == <<"vg-", "lv">>
      <4>1. m \in Seq({"vg-", "lv"})
        OBVIOUS
      <4>2. \A x \in {"vg-", "lv"} : x # "loop"
        OBVIOUS
      <4>3. ASSUME NEW s \in Seq({"vg-", "lv"}), NEW i \in DOMAIN s PROVE s[i] \in {"vg-", "lv"}
        OBVIOUS
      <4> HIDE DEF m
      <4>4. ~MatchIgnoredCase({ <<"loop">> }, m)
        BY <4>1, <4>2, <4>3, LoopMatch
      <4>5. QED
        BY <1>4a, <4>4, Zenon DEF m
    <3>4. d.links \cap { <<"loop">> } = {}
      BY <1>4b
    <3>5. PathMatch({ <<"loop">> }, d) <=> Loop(p)
      BY <3>2, <3>3, <3>4, Zenon DEF PathMatch
    <3>6. QED
      BY <2>2, <2>3, <2>5, <3>1, <3>5, Zenon DEF pathExclude
  <2>6. QED
    BY <2>4, <2>5
<1>9. QED
  BY <1>6, <1>7, <1>8, Zenon DEF d

\* What is excluded is known once the filter has started, and the verdict follows it.
Verdict == [p \in SysPaths |-> ApplyFilter(Device(p))]
FilterInv ==
    /\ NodeOK(os) /\ excludeDevPaths \in {NotStarted, Excluded}
    /\ verdict # <<>> => excludeDevPaths = Excluded /\ verdict = Verdict

\* What the filters say depends on the node and on the excluded paths.
LEMMA VerdictKept ==
    ASSUME os' = os
    PROVE  Excluded' = Excluded /\ (excludeDevPaths' = excludeDevPaths => Verdict' = Verdict)
<1>1. SysPaths' = SysPaths /\ SeenOS' = SeenOS /\ \A p : DiskOf(p)' = DiskOf(p)
  BY DEF SysPaths, SeenOS, DiskOf
<1>2. \A p : Wanted(p)' = Wanted(p)
  BY <1>1 DEF Wanted
<1>3. \A p : Device(p)' = Device(p)
  BY <1>1 DEF Device
<1>4. ASSUME excludeDevPaths' = excludeDevPaths
      PROVE  \A p : ApplyFilter(Device(p))' = ApplyFilter(Device(p))
  BY <1>3, <1>4 DEF ApplyFilter, osExclude, pathInclude, pathExclude, includePaths,
                   excludePaths, vendorInclude, vendorExclude
<1>5. QED
  BY <1>1, <1>2, <1>4 DEF Excluded, Verdict

\* The invariant holds at the start and every step keeps it.
THEOREM FilterInvariant == FilterSpec => []FilterInv
<1>1. NodeOK(os) /\ excludeDevPaths = NotStarted /\ verdict = <<>> => FilterInv
  BY DEF FilterInv
<1>2. ASSUME FilterInv, [FilterNext]_filterVars
      PROVE  FilterInv'
  <2>0. os' = os /\ NodeOK(os)
    BY <1>2 DEF FilterInv, FilterNext, FilterStart, ApplyFilters, filterVars
  <2>1. NodeOK(os') /\ Excluded' = Excluded
        /\ (excludeDevPaths' = excludeDevPaths => Verdict' = Verdict)
    BY <2>0, VerdictKept
  <2>2. CASE FilterStart
    <3>1. excludeDevPaths' = Excluded /\ verdict' = verdict
      BY <2>0, <2>2, StartFinds DEF FilterStart
    <3>2. QED
      BY <1>2, <2>1, <3>1 DEF FilterInv
  <2>3. CASE ApplyFilters
    BY <1>2, <2>1, <2>3 DEF FilterInv, ApplyFilters, Verdict
  <2>4. CASE UNCHANGED filterVars
    BY <1>2, <2>1, <2>4 DEF FilterInv, filterVars
  <2>5. QED
    BY <1>2, <2>2, <2>3, <2>4 DEF FilterNext
<1>3. QED
  BY <1>1, <1>2, PTL DEF FilterSpec

\* The daemon manages no device of a disk that holds the system, no unsound one and,
\* unless paths or vendors are configured, every other one but the loop devices: on
\* every node whose names and mounts tell.  A mapper device is a disk of its own.
THEOREM FiltersExact == FilterSpec => []OSDiskExact
<1>1. ASSUME FilterInv
      PROVE  OSDiskExact
  <2>1. SUFFICES ASSUME verdict # <<>>, NEW p \in SysPaths
                 PROVE  LET fit == /\ Sound(p)
                                   /\ \A q \in SeenOS : IF os.useOSDisk THEN ~HasPrefix(p, q)
                                                        ELSE DiskOf(p) # DiskOf(q) IN
                        /\ verdict[p] => fit
                        /\ NoLists => (verdict[p] <=> fit /\ (os.pathConfig \/ ~Loop(p)))
    BY Zenon DEF OSDiskExact
  <2>2. NodeOK(os) /\ excludeDevPaths = Excluded /\ verdict[p] = ApplyFilter(Device(p))
    BY <1>1, <2>1 DEF FilterInv, Verdict
  <2>3. Device(p).name = Base(p)
    BY DEF Device
  <2>4. ApplyFilter(Device(p)) <=> /\ osExclude(Base(p))
                                   /\ pathInclude(Device(p)) /\ pathExclude(Device(p))
                                   /\ vendorInclude(Device(p))
                                   /\ vendorExclude(Device(p)) /\ validExclude(Device(p))
    BY <2>3, Zenon DEF ApplyFilter
  <2>5. osExclude(Base(p)) <=>
          \A q \in SeenOS : IF os.useOSDisk THEN ~HasPrefix(p, q) ELSE DiskOf(p) # DiskOf(q)
    BY <2>2, ExcludeIs, Zenon
  <2>6. /\ vendorExclude(Device(p)) /\ validExclude(Device(p)) => Sound(p)
        /\ NoLists => /\ pathInclude(Device(p)) /\ vendorInclude(Device(p))
                      /\ Sound(p) => vendorExclude(Device(p)) /\ validExclude(Device(p))
                      /\ pathExclude(Device(p)) <=> os.pathConfig \/ ~Loop(p)
    BY <2>2, OthersAre, Zenon
  <2>7. QED
    BY <2>2, <2>4, <2>5, <2>6, Zenon
<1>2. QED
  BY <1>1, FilterInvariant, PTL

\* A device has another one for its parent exactly when that one lists it as a partition,
\* and the mount utilities find the same disk.
THEOREM FamiliesConsistent == FilterSpec => []FamilyConsistent
<1>1. ASSUME FilterInv
      PROVE  FamilyConsistent
  <2>0. NodeOK(os)
    BY <1>1 DEF FilterInv
  <2>1. SUFFICES ASSUME NEW p \in SysPaths, NEW d \in SysPaths
                 PROVE  /\ (getParent(d) = {Base(p)}) <=> (Base(d) \in getPartitions(p))
                        /\ getParentBlockDevice(d) = {DiskOf(d).name}
    BY DEF FamilyConsistent
  <2>2. PICK a \in os.disks : p \in PathsOf(a) /\ a \in DiskSet
    BY <2>0 DEF NodeOK, PathsOfAll, SysPaths
  <2>3. PICK b \in os.disks : d \in PathsOf(b) /\ b \in DiskSet
    BY <2>0 DEF NodeOK, PathsOfAll, SysPaths
  <2>4. getParentBlockDevice(d) = {DiskOf(d).name} /\ getParent(d) = {b.name} \ {Base(d)}
    BY <2>0, <2>3, ParentIs, DiskOfIs
  <2>5. DiskPath(b) \in SysPaths /\ Base(DiskPath(b)) = b.name
    BY <2>0, <2>3, BaseIsName DEF NodeOK, PathsOfAll, PathsOf, SysPaths
  <2>6. \A q, r \in SysPaths : Base(q) = Base(r) => q = r
    BY <2>0 DEF NodeOK, NamesTell, SysPaths
  <2>7. getParent(d) = {Base(p)} <=> p = DiskPath(b) /\ d # p
    BY <2>4, <2>5, <2>6
  <2>8. Base(d) \in getPartitions(p) <=>
          Len(d) = Len(p) + 1 /\ HasPrefix(d, p) /\ HasPrefix(Base(d), Base(p))
    BY <2>6 DEF getPartitions
  <2>9. ASSUME p = DiskPath(b), d # p
        PROVE  Len(d) = Len(p) + 1 /\ HasPrefix(d, p) /\ HasPrefix(Base(d), Base(p))
    <3>1. PICK n \in b.parts : Len(d) = Len(p) + 1 /\ Base(d) = PartName(b, n)
      BY <2>3, <2>9, PathShape
    <3>2. HasPrefix(d, p)
      BY <2>3, <2>9, KinIsPrefix
    <3>3. HasPrefix(PartName(b, n), b.name)
      BY <2>3, PartStarts DEF DiskSet, PartName
    <3>4. QED
      BY <2>5, <2>9, <3>1, <3>2, <3>3
  <2>10. ASSUME Len(d) = Len(p) + 1, HasPrefix(d, p)
         PROVE  p = DiskPath(b) /\ d # p
    <3>1. a = b /\ (p = d \/ p = DiskPath(a))
      BY <2>0, <2>2, <2>3, <2>10, PrefixIsKin
    <3>2. Len(p) \in Nat
      BY <2>2, PathShape
    <3>3. QED
      BY <2>10, <3>1, <3>2
  <2>11. QED
    BY <2>4, <2>7, <2>8, <2>9, <2>10, Zenon
<1>2. QED
  BY <1>1, FilterInvariant, PTL
=============================================================================
