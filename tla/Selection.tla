----------------------------- MODULE Selection ------------------------------
(***************************************************************************)
(* Config.Filter (pkg/select/blockdevice): the pipeline of filters that    *)
(* picks the BlockDevice for a claim from the listed ones.  The list is a  *)
(* sequence, and a filtered list is the set of the positions it keeps.     *)
(***************************************************************************)
EXTENDS Integers, Sequences

CONSTANTS
    Name, Node, FsType, DeviceTypes,   \* of devices; "" stands for none in a claim
    Capacity                           \* sizes that devices have and claims ask for

ASSUME SelectionAssumption ==
    /\ "" \notin Name \cup Node \cup FsType \cup DeviceTypes
    /\ "sparse" \in DeviceTypes
    /\ Capacity \subseteq Nat

\* tag: the block-device-tag label; legacy: the uuid-scheme annotation; fs and mnt:
\* the file system and whether there is a mount point
BlockDevices == [name: Name, state: {"Active", "Inactive", "Unknown"},
                 claim: {"Unclaimed", "Claimed", "Released"}, legacy: BOOLEAN,
                 tag: {"none", "blank", "set"}, type: DeviceTypes,
                 fs: FsType \cup {""}, mnt: BOOLEAN, node: Node, cap: Capacity]

\* tagged: the selector of the claim names the tag label; cap 0: not a valid capacity
DeviceClaimSpec == [name: Name \cup {""}, type: DeviceTypes \cup {""},
                    mode: {"", "Block", "FileSystem"}, format: FsType \cup {""},
                    node: Node \cup {""}, tagged: BOOLEAN, cap: Capacity \cup {0}]

VARIABLES
    input,   \* the listed devices and the spec of the claim
    picked   \* the position of the selected device, 0 for an error, -1 before the selection

selectVars == <<input, picked>>
Undecided == -1

----------------------------------------------------------------------------
filterActive(l, S, spec) == {i \in S : l[i].state = "Active"}
filterUnclaimed(l, S, spec) == {i \in S : l[i].claim = "Unclaimed"}
filterOutLegacyAnnotation(l, S, spec) == {i \in S : ~l[i].legacy}

\* A variant that takes any tag for the selector's business
filterBlankTag(l, S, spec) == {i \in S : l[i].tag # "blank"}

\* a blank tag is never selected, another one only by a claim that names the label
\* (isBDTagDoesNotExistSelectorRequired)
filterBlockDeviceTag(l, S, spec) ==
    {i \in S : l[i].tag # "blank" /\ (spec.tagged \/ l[i].tag = "none")}

filterOutSparseBlockDevice(l, S, spec) == {i \in S : l[i].type # "sparse"}
filterDeviceType(l, S, spec) == {i \in S : spec.type = "" \/ l[i].type = spec.type}

filterVolumeMode(l, S, spec) ==
    {i \in S : CASE spec.mode = "Block" -> l[i].fs = "" /\ ~l[i].mnt
                 [] spec.mode = "FileSystem" ->
                      /\ l[i].fs # "" /\ l[i].mnt
                      /\ spec.format = "" \/ l[i].fs = spec.format
                 [] OTHER -> TRUE}

filterNodeName(l, S, spec) == {i \in S : spec.node = "" \/ l[i].node = spec.node}

\* the loops with a break keep the first match only
First(S) == CHOOSE i \in S : \A j \in S : i <= j
OnlyFirst(S) == IF S = {} THEN {} ELSE {First(S)}
filterBlockDeviceName(l, S, spec) == OnlyFirst({i \in S : l[i].name = spec.name})

\* GetRequestedCapacity: an invalid request counts as 0
filterResourceStorage(l, S, spec) == OnlyFirst({i \in S : l[i].cap >= spec.cap})

\* A variant that takes the first device that is large enough, then its other needs
candidatesBySize(l, spec) ==
    LET a == filterActive(l, DOMAIN l, spec)
        b == filterUnclaimed(l, a, spec)
        c == filterOutLegacyAnnotation(l, b, spec)
        d == filterBlockDeviceTag(l, c, spec) IN
    IF spec.name # "" THEN filterBlockDeviceName(l, d, spec)
    ELSE LET e == filterResourceStorage(l, filterOutSparseBlockDevice(l, d, spec), spec)
             f == filterDeviceType(l, e, spec)
             g == filterVolumeMode(l, f, spec) IN
         filterNodeName(l, g, spec)

\* getCandidateDevices: ApplyFilters with the keys of a manual or of an automatic
\* selection, in their order
getCandidateDevices(l, spec) ==
    LET a == filterActive(l, DOMAIN l, spec)
        b == filterUnclaimed(l, a, spec)
        c == filterOutLegacyAnnotation(l, b, spec)
        d == filterBlockDeviceTag(l, c, spec) IN
    IF spec.name # "" THEN filterBlockDeviceName(l, d, spec)
    ELSE LET e == filterOutSparseBlockDevice(l, d, spec)
             f == filterDeviceType(l, e, spec)
             g == filterVolumeMode(l, f, spec) IN
         filterNodeName(l, g, spec)

\* getSelectedDevice: a manual selection does not look at the size
getSelectedDevice(l, S, spec) ==
    LET sel == IF spec.name # "" THEN S ELSE filterResourceStorage(l, S, spec) IN
    IF sel = {} THEN 0 ELSE First(sel)

\* Config.Filter; 0 is "no devices found matching the criteria" and the other errors
Filter(l, spec) ==
    LET S == getCandidateDevices(l, spec) IN
    IF S = {} THEN 0 ELSE getSelectedDevice(l, S, spec)

----------------------------------------------------------------------------
SelectInit(inputs) == input \in inputs /\ picked = Undecided

Select ==
    /\ picked = Undecided
    /\ picked' = Filter(input.list, input.spec)
    /\ UNCHANGED input

SelectionInputs == [list: Seq(BlockDevices), spec: DeviceClaimSpec]
SelectionSpec == SelectInit(SelectionInputs) /\ [][Select]_selectVars

----------------------------------------------------------------------------
\* what a claim may have: any device that is free to take; by name no more is asked;
\* otherwise it is not sparse, is large enough and meets each need the claim states
Free(b, spec) == /\ b.state = "Active" /\ b.claim = "Unclaimed" /\ ~b.legacy
                 /\ b.tag = "none" \/ (b.tag = "set" /\ spec.tagged)
Meets(need, value) == need \in {"", value}
Suitable(b, spec) ==
    /\ Free(b, spec)
    /\ \/ b.name = spec.name
       \/ /\ spec.name = "" /\ b.type # "sparse" /\ b.cap >= spec.cap
          /\ Meets(spec.type, b.type) /\ Meets(spec.node, b.node)
          /\ spec.mode = "Block" => b.fs = "" /\ ~b.mnt
          /\ spec.mode = "FileSystem" => b.mnt /\ b.fs # "" /\ Meets(spec.format, b.fs)

\* SelectsFirstSuitable: the pipeline picks the first device of the list that the
\* claim may have, and fails only when there is none: no filter that keeps a single
\* device (name, size) hides a suitable one behind an unsuitable one.
SelectsFirstSuitable ==
    picked # Undecided =>
      LET l == input.list IN
      /\ picked = 0 => \A i \in DOMAIN l : ~Suitable(l[i], input.spec)
      /\ picked # 0 => /\ picked \in DOMAIN l /\ Suitable(l[picked], input.spec)
                       /\ \A i \in DOMAIN l : Suitable(l[i], input.spec) => picked <= i
=============================================================================
