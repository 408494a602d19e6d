------------------------------ MODULE NodeAPI -------------------------------
(***************************************************************************)
(* ListBlockDevices of the node service: every request lists the           *)
(* BlockDevices of the node, GetAllTypes sorts them into the fields of the *)
(* package variable `all`, and the reply is read back from there.  gRPC    *)
(* serves each request in a goroutine of its own and nothing guards `all`. *)
(***************************************************************************)
EXTENDS Naturals, Sequences, FiniteSets

CONSTANTS
    ApiRequest,   \* the requests
    NodeDevice,   \* the BlockDevices: [path, type, parent, parts], from sysfs
    Substring,    \* pairs <<a, b>> of paths such that a is a substring of b
    MaxNodeChanges

\* sysfs lists as partitions the entries that start with the name of the device
ASSUME ApiAssumption ==
    \A d \in NodeDevice : \A p \in d.parts : <<d.path, p>> \in Substring

VARIABLES
    onNode,      \* the BlockDevices of this node in etcd
    inSysfs,     \* paths of the devices whose sysfs entry can be read
    all,         \* the package variable
    call,        \* of a request: its step, what it listed, its reply so far
    nodeChanges,
    alone        \* requests during whose writing and reading no other one wrote

apiVars == <<onNode, inSysfs, all, call, nodeChanges, alone>>

Field == <<"parents", "partitions", "lvms", "raids", "loops", "sparse">>
NoDevices == [i \in 1..Len(Field) |-> {}]

----------------------------------------------------------------------------
\* GetAllTypes: what a listed device adds to each field; the fields hold no order
Named(devs, t) == {d.path : d \in {x \in devs : x.type = t}}
PartsOf(devs, ts) == UNION {d.parts : d \in {x \in devs : x.type \in ts}}
GetAllTypes(listed) ==
    LET devs == {d \in listed : d.path \in inSysfs} IN
    << Named(devs, "disk") \cup {d.parent : d \in {x \in devs : x.type = "partition"}},
       Named(devs, "partition") \cup PartsOf(devs, {"disk", "loop"}),
       Named(devs, "lvm"), Named(devs, "raid"), Named(devs, "loop"),
       Named(listed, "sparse") >>

\* FilterPartitions: the paths that contain the name; of none, the name itself
FilterPartitions(name, paths) ==
    IF paths = {} THEN {name} ELSE {p \in paths : <<name, p>> \in Substring}

\* the entries of the reply from field i; disks and loop devices list partitions, which
\* are read from `all` at that time
Entries(i) ==
    {[name |-> n, type |-> Field[i],
      parts |-> IF i \in {1, 5} THEN FilterPartitions(n, all[2]) ELSE {}] : n \in all[i]}

----------------------------------------------------------------------------
\* ListBlockDeviceResource of a new Controller; an error ends the request
ListDevices(r) ==
    /\ call[r].step = 0
    /\ \/ call' = [call EXCEPT ![r] = [step |-> 1, listed |-> GetAllTypes(onNode), reply |-> {}]]
       \/ call' = [call EXCEPT ![r].step = 99]
    /\ alone' = alone \cup {r}
    /\ UNCHANGED <<onNode, inSysfs, all, nodeChanges>>

\* A variant that leaves a field alone when the list has nothing for it
WriteFieldIfAny(r) ==
    LET i == call[r].step IN
    /\ i \in 1..Len(Field)
    /\ all' = IF call[r].listed[i] = {} THEN all ELSE [all EXCEPT ![i] = call[r].listed[i]]
    /\ call' = [call EXCEPT ![r].step = i + 1]
    /\ alone' = {q \in alone : q = r \/ call[q].step \notin 2..12}
    /\ UNCHANGED <<onNode, inSysfs, nodeChanges>>

\* the assignments at the end of GetAllTypes, one field at a time
WriteField(r) ==
    LET i == call[r].step IN
    /\ i \in 1..Len(Field)
    /\ all' = [all EXCEPT ![i] = call[r].listed[i]]
    /\ call' = [call EXCEPT ![r].step = i + 1]
    /\ alone' = {q \in alone : q = r \/ call[q].step \notin 2..12}
    /\ UNCHANGED <<onNode, inSysfs, nodeChanges>>

\* the loops of ListBlockDevices over Parents, LVMs, RAIDs, Loops and Sparse
ReadField(r) ==
    LET i == call[r].step - Len(Field) IN
    /\ i \in 1..Len(Field)
    /\ call' = [call EXCEPT ![r].step = @ + 1,
                            ![r].reply = IF i = 2 THEN @ ELSE @ \cup Entries(i)]
    /\ UNCHANGED <<onNode, inSysfs, all, nodeChanges, alone>>

\* a request that has its reply, or an error, may be followed by another one
EndCall(r) ==
    /\ call[r].step \in {13, 99}
    /\ call' = [call EXCEPT ![r] = [step |-> 0, listed |-> NoDevices, reply |-> {}]]
    /\ alone' = alone \ {r}
    /\ UNCHANGED <<onNode, inSysfs, all, nodeChanges>>

\* devices come and go, in sysfs and in etcd
NodeChange ==
    /\ nodeChanges < MaxNodeChanges
    /\ \E d \in NodeDevice :
         \/ onNode' = (onNode \ {d}) \cup ({d} \ onNode) /\ UNCHANGED inSysfs
         \/ inSysfs' = (inSysfs \ {d.path}) \cup ({d.path} \ inSysfs) /\ UNCHANGED onNode
    /\ nodeChanges' = nodeChanges + 1
    /\ UNCHANGED <<all, call, alone>>

ApiInit(lists) ==
    /\ onNode \in lists /\ inSysfs = {d.path : d \in NodeDevice}
    /\ all = NoDevices /\ nodeChanges = 0 /\ alone = {}
    /\ call = [r \in ApiRequest |-> [step |-> 0, listed |-> NoDevices, reply |-> {}]]
ApiNext == \/ \E r \in ApiRequest : ListDevices(r) \/ WriteField(r) \/ ReadField(r) \/ EndCall(r)
           \/ NodeChange

\* every list at the start
ApiSpec == ApiInit(SUBSET NodeDevice) /\ [][ApiNext]_apiVars

----------------------------------------------------------------------------
\* ReplyOfOwnList: the reply to a request that no other request wrote into has an entry
\* for exactly the devices the request itself listed, whatever earlier requests left in
\* the shared variable, and each disk has its own partitions.
ReplyOfOwnList ==
    \A r \in alone : call[r].step = 13 =>
      LET l == call[r].listed IN
      /\ \A i \in {1, 3, 4, 5, 6} :
           {e.name : e \in {x \in call[r].reply : x.type = Field[i]}} = l[i]
      /\ \A d \in NodeDevice, e \in call[r].reply :
           e.name = d.path /\ e.type \in {"parents", "loops"} => d.parts \cap l[2] \subseteq e.parts
=============================================================================
