---------------------------- MODULE DeviceDaemon ----------------------------
(***************************************************************************)
(* The writes of the NDM daemon to the BlockDevices of its node            *)
(* (cmd/ndm_daemonset/controller/blockdevicestore.go), one call at a time. *)
(* What makes the daemon issue a call (udev, mount and scan events, its    *)
(* start and its shutdown) is left open here: any call may come next.  The *)
(* daemon reads from the API server, not from a cache.                     *)
(***************************************************************************)
EXTENDS NDMStore

CONSTANT MaxEvents  \* bound on the calls of the daemon

ASSUME EventsAssumption == MaxEvents \in Nat

VARIABLES
    dm,     \* the call in progress: its device, its copy, its attempt
    events  \* calls so far

daemonVars == <<dm, events>>

Ops == {"create", "update", "deactivate", "unknown"}

dmIdle == [pc |-> "idle", op |-> None, b |-> None, obj |-> None, try |-> 0]

DaemonTypeOK ==
    /\ dm.pc # "idle" => dm.op \in Ops /\ dm.b # None /\ dm.obj # None
    /\ dm \in [pc: {"idle", "write", "reget"}, op: Ops \cup {None},
               b: BDs \cup {None}, obj: BlockDevice \cup {None}, try: 0..2]
    /\ events \in 0..MaxEvents

\* getStatus and getObjectMeta: the resource of a device just discovered
NewDevice == [state |-> "Active", claim |-> "Unclaimed", ref |-> None,
              fin |-> FALSE, del |-> FALSE]

\* A variant in which a device in use takes the new spec as well
MergeSpec(old) ==
    IF old.claim # "Unclaimed"
    THEN [old EXCEPT !.state = NewDevice.state, !.ref = NewDevice.ref]
    ELSE [old EXCEPT !.state = NewDevice.state, !.claim = NewDevice.claim,
                     !.ref = NewDevice.ref]

\* mergeBlockDeviceData(NewDevice, old): metadata is the old object's; a
\* device in use keeps its claim, one that is not takes spec and status of the
\* new object
Merge(old) ==
    IF old.claim # "Unclaimed"
    THEN [old EXCEPT !.state = NewDevice.state]
    ELSE [old EXCEPT !.state = NewDevice.state, !.claim = NewDevice.claim,
                     !.ref = NewDevice.ref]

\* what the call writes when it has read old
Written(op, old) ==
    CASE op = "deactivate" -> [old EXCEPT !.state = "Inactive"]
      [] op = "unknown" -> [old EXCEPT !.state = "Unknown"]
      [] OTHER -> Merge(old)

\* CreateBlockDevice when the device has no resource yet
CreateDevice(b) ==
    /\ dm.pc = "idle" /\ events < MaxEvents
    /\ bd[b] = None
    /\ \/ PutBD("Daemon", b, NewDevice) /\ UNCHANGED faults
       \/ Fault /\ UNCHANGED <<bd, seen, dirty>>
       \/ Fault /\ PutBD("Daemon", b, NewDevice)
    /\ events' = events + 1
    /\ UNCHANGED <<dm, bdc, job, cacheVars>>

\* ListBlockDeviceResource leaves the disabled devices out, but its loop skips
\* the device that follows one it has removed
Listed(b) == b \notin Disabled \/ Disabled \cap BDs # {b}

\* The read of a call: the Get of UpdateBlockDevice (of CreateBlockDevice after
\* AlreadyExists), the Get or the list that the event handlers take the device
\* from, the list of MarkBlockDeviceStatusToUnknown
ReadDevice(b, op) ==
    /\ dm.pc = "idle" /\ events < MaxEvents
    /\ bd[b] # None
    /\ op = "unknown" => Listed(b)
    /\ dm' = [pc |-> "write", op |-> op, b |-> b, obj |-> bd[b], try |-> 1]
    /\ DirectRead("Daemon", b)
    /\ events' = events + 1
    /\ UNCHANGED <<bd, bdc, job, cacheVars, faults, dirty>>

\* The write.  CreateBlockDevice tries once more after a Conflict and gives
\* up silently after the second; the other calls only log the error.
WriteDevice ==
    /\ dm.pc = "write"
    /\ \E ok \in BOOLEAN :
          /\ UpdateBD("Daemon", dm.b, Written(dm.op, dm.obj), ok)
          /\ LET conflict == ~ok /\ bd[dm.b] # None /\ faults' = faults IN
             dm' = IF conflict /\ dm.op = "create" /\ dm.try = 1
                   THEN [dm EXCEPT !.pc = "reget"] ELSE dmIdle
    /\ UNCHANGED <<events, bdc, job, cacheVars>>

\* the Get of the second attempt; an error is only logged
RereadDevice ==
    /\ dm.pc = "reget"
    /\ \/ /\ bd[dm.b] # None
          /\ dm' = [dm EXCEPT !.pc = "write", !.obj = bd[dm.b], !.try = 2]
          /\ DirectRead("Daemon", dm.b)
          /\ UNCHANGED faults
       \/ /\ (bd[dm.b] = None /\ UNCHANGED faults) \/ Fault
          /\ dm' = dmIdle /\ UNCHANGED seen
    /\ UNCHANGED <<events, bd, bdc, job, cacheVars, dirty>>

DaemonStep == WriteDevice \/ RereadDevice
=============================================================================
