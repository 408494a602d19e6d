-------------------------- MODULE OwnershipProofs ---------------------------
(***************************************************************************)
(* Type correctness, and that a bound claim owns its device, for every     *)
(* number of devices and claims and for every bound, with a cache that     *)
(* lags, Jobs that linger, failed calls and restarts.                      *)
(*                                                                         *)
(* The argument: an Update that succeeds replaces the object that its      *)
(* writer has read (CopiesCurrent), so that every step changes a device in *)
(* one of the few ways of DeviceStep and a claim in one of the ways of     *)
(* ClaimStep; and these keep the ownership invariant.                      *)
(***************************************************************************)
EXTENDS NDMInvariant, TLAPS

-----------------------------------------------------------------------------
(* Type correctness of the writes of NDMStore. *)

\* What StoredBD leaves in the store is a BlockDevice or nothing.
LEMMA StoredBDType ==
    ASSUME NEW new \in BlockDevice
    PROVE  StoredBD(new) \in BlockDevice \cup {None}
BY DEF StoredBD

\* The same for claims.
LEMMA StoredBDCType ==
    ASSUME NEW new \in BlockDeviceClaim
    PROVE  StoredBDC(new) \in BlockDeviceClaim \cup {None}
BY DEF StoredBDC

\* The fault counter stays within its bound.
LEMMA FaultType ==
    ASSUME StoreTypeOK, Fault \/ UNCHANGED faults
    PROVE  faults' \in 0..MaxFaults
BY StoreAssumption DEF StoreTypeOK, Fault

\* A write of a device by whoever it is keeps the types of the store.
LEMMA PutBDType ==
    ASSUME StoreTypeOK, NEW cl, NEW b \in BDs, NEW new \in BlockDevice,
           PutBD(cl, b, new), Fault \/ UNCHANGED faults,
           UNCHANGED <<bdc, job, cacheVars>>
    PROVE  StoreTypeOK'
<1>1. /\ bd' \in [BDs -> BlockDevice \cup {None}]
      /\ seen' \subseteq Clients \X (BDs \cup BDCs)
      /\ dirty' \subseteq BDs
  BY StoredBDType DEF StoreTypeOK, PutBD, Soil, Forget
<1> QED
  BY <1>1, FaultType DEF StoreTypeOK, cacheVars

\* A write of a claim keeps the types of the store.
LEMMA PutBDCType ==
    ASSUME StoreTypeOK, NEW cl, NEW c \in BDCs, NEW new \in BlockDeviceClaim,
           PutBDC(cl, c, new), UNCHANGED <<bd, job, cacheVars, faults, dirty>>
    PROVE  StoreTypeOK'
<1>1. /\ bdc' \in [BDCs -> BlockDeviceClaim \cup {None}]
      /\ seen' \subseteq Clients \X (BDs \cup BDCs)
  BY StoredBDCType DEF StoreTypeOK, PutBDC, Forget
<1> QED
  BY <1>1 DEF StoreTypeOK, cacheVars

\* client.Update of a device, successful or not, keeps the types of the store.
LEMMA UpdateBDType ==
    ASSUME StoreTypeOK, NEW cl, NEW b \in BDs, NEW new \in BlockDevice,
           NEW ok \in BOOLEAN, UpdateBD(cl, b, new, ok),
           UNCHANGED <<bdc, job, cacheVars>>
    PROVE  StoreTypeOK'
<1>1. Fault \/ UNCHANGED faults
  BY DEF UpdateBD
<1>2. CASE PutBD(cl, b, new)
  BY <1>1, <1>2, PutBDType
<1>3. CASE seen' = Discard(cl) /\ UNCHANGED <<bd, dirty>>
  BY <1>1, <1>3, FaultType DEF StoreTypeOK, Discard, cacheVars
<1>4. CASE /\ bd' = [bd EXCEPT ![b] = StoredBD(new)]
           /\ Soil(b, new)
           /\ seen' = Discard(cl) \cap Forget(b)
  BY <1>1, <1>4, FaultType, StoredBDType DEF StoreTypeOK, Soil, Discard, cacheVars
<1> QED
  BY <1>2, <1>3, <1>4 DEF UpdateBD

\* client.Update of a claim keeps the types of the store.
LEMMA UpdateBDCType ==
    ASSUME StoreTypeOK, NEW cl, NEW c \in BDCs, NEW new \in BlockDeviceClaim,
           NEW ok \in BOOLEAN, UpdateBDC(cl, c, new, ok),
           UNCHANGED <<bd, job, cacheVars, dirty>>
    PROVE  StoreTypeOK'
<1>1. Fault \/ UNCHANGED faults
  BY DEF UpdateBDC
<1>2. CASE PutBDC(cl, c, new) /\ UNCHANGED faults
  BY <1>2, PutBDCType
<1>3. CASE seen' = Discard(cl) /\ UNCHANGED bdc
  BY <1>1, <1>3, FaultType DEF StoreTypeOK, Discard, cacheVars
<1>4. CASE /\ bdc' = [bdc EXCEPT ![c] = StoredBDC(new)]
           /\ seen' = Discard(cl) \cap Forget(c)
  BY <1>1, <1>4, FaultType, StoredBDCType DEF StoreTypeOK, Discard, cacheVars
<1> QED
  BY <1>2, <1>3, <1>4 DEF UpdateBDC

-----------------------------------------------------------------------------
(* Type correctness of the actions. *)

\* The initial states are well typed, those with objects of an earlier
\* release included.
LEMMA TypeInit == Init => TypeOK
<1> SUFFICES ASSUME Init PROVE TypeOK
  OBVIOUS
<1>a. \A c \in BDCs : LegacyDevice(c) \in BlockDevice
  BY Zenon DEF LegacyDevice, NewDevice, BlockDevice, State, ClaimState
<1>1. bd \in [BDs -> BlockDevice \cup {None}]
  BY <1>a DEF Init
<1>b. LegacyInvalid \in BlockDeviceClaim /\ \A b \in BDs : LegacyBound(b) \in BlockDeviceClaim
  BY Zenon DEF LegacyBound, LegacyInvalid, NewClaim, BlockDeviceClaim, Phase
<1>2. bdc \in [BDCs -> BlockDeviceClaim \cup {None}]
  BY <1>b DEF Init
<1> QED
  BY <1>1, <1>2, StoreAssumption, EventsAssumption
  DEF Init, TypeOK, StoreTypeOK, ClaimWorkerTypeOK, DeviceWorkerTypeOK, DaemonTypeOK,
      cwIdle, cwPCs, dwIdle, dwPCs, dmIdle, Clients

\* What the operator sees is well typed, be it the store or the cache.
LEMMA ViewType ==
    ASSUME StoreTypeOK
    PROVE  /\ \A b \in BDs : ViewBD(b) \in BlockDevice \cup {None}
           /\ \A c \in BDCs : ViewBDC(c) \in BlockDeviceClaim \cup {None}
           /\ \A b \in BDs : ViewJob(b) \in Job \cup {None}
BY DEF StoreTypeOK, ViewBD, ViewBDC, ViewJob

\* Reading through the cache keeps the type of seen.
LEMMA CachedReadType ==
    ASSUME StoreTypeOK, NEW cl \in Clients, NEW o \in BDs \cup BDCs, CachedRead(cl, o)
    PROVE  seen' \subseteq Clients \X (BDs \cup BDCs)
BY DEF StoreTypeOK, CachedRead

\* The claim controller keeps the types.
LEMMA ClaimControllerType ==
    ASSUME TypeOK, ClaimControllerNext
    PROVE  TypeOK'
<1> USE DEF ClaimWorkerTypeOK
<1>1. StoreTypeOK /\ ClaimWorkerTypeOK /\ None \notin BDs /\ None \notin BDCs
  BY StoreAssumption DEF TypeOK
<1>2. Me \in Clients
  BY DEF Me, Clients
<1>3. StoreTypeOK' /\ ClaimWorkerTypeOK'
  <2>1. ASSUME NEW c \in BDCs, Reconcile(c) PROVE StoreTypeOK' /\ ClaimWorkerTypeOK'
    <3>1. StoreTypeOK'
      BY <1>1, <1>2, <2>1, CachedReadType DEF Reconcile, StoreTypeOK, cacheVars
    <3> DEFINE inst == ViewBDC(c)
    <3>2. inst \in BlockDeviceClaim
      BY <1>1, <2>1, ViewType DEF Reconcile
    <3>3. PICK pc \in {"select", "pend", "release"} :
              cw' = [cwIdle EXCEPT !.pc = pc, !.c = c, !.inst = inst]
      BY <2>1, Zenon DEF Reconcile
    <3> HIDE DEF inst
    <3> QED
      BY <1>1, <3>1, <3>2, <3>3, StoreAssumption, Zenon DEF cwIdle, cwPCs
  <2>2. CASE SelectDevice
    <3>1. StoreTypeOK'
      <4>1. seen' \subseteq Clients \X (BDs \cup BDCs)
        BY <1>1, <1>2, <2>2, CachedReadType, Zenon
        DEF SelectDevice, Candidates, Discard, StoreTypeOK
      <4> QED
        BY <1>1, <2>2, <4>1, FaultType, Zenon DEF SelectDevice, StoreTypeOK, cacheVars
    <3> QED
      <4>1. \A b \in Candidates(cw.c, cw.inst) : b \in BDs /\ ViewBD(b) \in BlockDevice
        BY <1>1, ViewType DEF Candidates
      <4>2. CASE \E b \in Candidates(cw.c, cw.inst) :
                    cw' = [cw EXCEPT !.pc = "claim", !.b = b, !.obj = ViewBD(b)]
        <5>1. PICK b \in Candidates(cw.c, cw.inst) :
                  cw' = [cw EXCEPT !.pc = "claim", !.b = b, !.obj = ViewBD(b)]
          BY <4>2, Zenon
        <5>2. b \in BDs /\ ViewBD(b) \in BlockDevice /\ cw.pc = "select"
          BY <2>2, <4>1, Zenon DEF SelectDevice
        <5> QED
          BY <1>1, <3>1, <5>1, <5>2, StoreAssumption, Zenon DEF cwPCs
      <4>3. CASE cw' = [cw EXCEPT !.pc = "pend"] \/ cw' = cwIdle
        <5>1. cw.pc = "select"
          BY <2>2, Zenon DEF SelectDevice
        <5> QED
          BY <1>1, <3>1, <4>3, <5>1 DEF cwIdle, cwPCs
      <4> QED
        BY <2>2, <4>2, <4>3, Zenon DEF SelectDevice
  <2>3. CASE ClaimBlockDevice
    <3> DEFINE new == [cw.obj EXCEPT !.fin = TRUE, !.ref = cw.c, !.claim = "Claimed"]
    <3>1. cw.b \in BDs /\ new \in BlockDevice
      BY <1>1, <2>3, Zenon DEF ClaimBlockDevice, BlockDevice, ClaimState
    <3>2. PICK ok \in BOOLEAN : UpdateBD(Me, cw.b, new, ok)
      BY <2>3 DEF ClaimBlockDevice
    <3> HIDE DEF new
    <3>3. StoreTypeOK'
      BY <1>1, <2>3, <3>1, <3>2, UpdateBDType DEF ClaimBlockDevice
    <3> QED
      BY <1>1, <2>3, <3>3 DEF ClaimBlockDevice, cwIdle, cwPCs
  <2>4. CASE BindClaim
    <3> DEFINE new == [cw.inst EXCEPT !.phase = "Bound", !.name = cw.b, !.fin = TRUE]
    <3>1. cw.c \in BDCs /\ new \in BlockDeviceClaim
      BY <1>1, <2>4, Zenon DEF BindClaim, BlockDeviceClaim, Phase
    <3>2. PICK ok \in BOOLEAN : UpdateBDC(Me, cw.c, new, ok)
      BY <2>4 DEF BindClaim
    <3> HIDE DEF new
    <3>3. StoreTypeOK'
      BY <1>1, <2>4, <3>1, <3>2, UpdateBDCType DEF BindClaim
    <3> QED
      BY <1>1, <2>4, <3>3 DEF BindClaim, cwIdle, cwPCs
  <2>5. CASE PendClaim
    <3> DEFINE new == [cw.inst EXCEPT !.phase = "Pending"]
    <3>1. cw.c \in BDCs /\ new \in BlockDeviceClaim
      BY <1>1, <2>5 DEF PendClaim, BlockDeviceClaim, Phase
    <3>2. PICK ok \in BOOLEAN : UpdateBDC(Me, cw.c, new, ok)
      BY <2>5 DEF PendClaim
    <3> HIDE DEF new
    <3>3. StoreTypeOK'
      BY <1>1, <2>5, <3>1, <3>2, UpdateBDCType DEF PendClaim
    <3> QED
      BY <1>1, <2>5, <3>3 DEF PendClaim, cwIdle, cwPCs
  <2>6. CASE FindClaimed
    <3>1. StoreTypeOK'
      <4>1. seen' \subseteq Clients \X (BDs \cup BDCs)
        BY <1>1, <1>2, <2>6, CachedReadType, Zenon DEF FindClaimed, Discard, StoreTypeOK
      <4> QED
        BY <1>1, <2>6, <4>1, FaultType, Zenon DEF FindClaimed, StoreTypeOK, cacheVars
    <3> QED
      <4>1. \A b \in BDs : Requested(cw.c, ViewBD(b)) => ViewBD(b) \in BlockDevice
        BY <1>1, ViewType DEF Requested
      <4>2. CASE \E b \in BDs : /\ Requested(cw.c, ViewBD(b))
                               /\ cw' = [cw EXCEPT !.pc = "releaseBD", !.b = b,
                                                   !.obj = ViewBD(b)]
        <5>1. PICK b \in BDs : /\ Requested(cw.c, ViewBD(b))
                              /\ cw' = [cw EXCEPT !.pc = "releaseBD", !.b = b,
                                                  !.obj = ViewBD(b)]
          BY <4>2, Zenon
        <5>2. ViewBD(b) \in BlockDevice /\ cw.pc = "release"
          BY <2>6, <4>1, <5>1, Zenon DEF FindClaimed
        <5> QED
          BY <1>1, <3>1, <5>1, <5>2, StoreAssumption, Zenon DEF cwPCs
      <4>3. CASE cw' = cwIdle
        BY <3>1, <4>3 DEF cwIdle, cwPCs
      <4> QED
        BY <2>6, <4>2, <4>3, Zenon DEF FindClaimed
  <2>7. CASE ReleaseBlockDevice
    <3> DEFINE new == [cw.obj EXCEPT !.ref = None, !.claim = "Released"]
    <3>1. cw.b \in BDs /\ new \in BlockDevice
      BY <1>1, <2>7, Zenon DEF ReleaseBlockDevice, BlockDevice, ClaimState
    <3>2. PICK ok \in BOOLEAN : UpdateBD(Me, cw.b, new, ok)
      BY <2>7 DEF ReleaseBlockDevice
    <3> HIDE DEF new
    <3>3. StoreTypeOK'
      BY <1>1, <2>7, <3>1, <3>2, UpdateBDType DEF ReleaseBlockDevice
    <3> QED
      BY <1>1, <2>7, <3>3 DEF ReleaseBlockDevice, cwIdle, cwPCs
  <2>8. CASE RemoveFinalizer
    <3> DEFINE new == [cw.inst EXCEPT !.fin = FALSE]
    <3>1. cw.c \in BDCs /\ new \in BlockDeviceClaim
      BY <1>1, <2>8, Zenon DEF RemoveFinalizer, BlockDeviceClaim, Phase
    <3>2. PICK ok \in BOOLEAN : UpdateBDC(Me, cw.c, new, ok)
      BY <2>8 DEF RemoveFinalizer
    <3> HIDE DEF new
    <3>3. StoreTypeOK'
      BY <1>1, <2>8, <3>1, <3>2, UpdateBDCType DEF RemoveFinalizer
    <3> QED
      BY <1>1, <2>8, <3>3 DEF RemoveFinalizer, cwIdle, cwPCs
  <2> QED
    BY <2>1, <2>2, <2>3, <2>4, <2>5, <2>6, <2>7, <2>8
    DEF ClaimControllerNext, ClaimWorkerStep
<1> QED
  BY <1>3 DEF TypeOK, ClaimControllerNext, DeviceWorkerTypeOK, DaemonTypeOK, daemonVars

\* Moving on within the device controller keeps the types.
LEMMA GotoType ==
    ASSUME StoreTypeOK, DeviceWorkerTypeOK, dw.pc # "idle",
           NEW pc \in dwPCs, Goto(pc)
    PROVE  DeviceWorkerTypeOK' /\ seen' \subseteq Clients \X (BDs \cup BDCs)
<1>1. CASE pc = "idle"
  BY <1>1 DEF Goto, StoreTypeOK, DeviceWorkerTypeOK, dwIdle, dwPCs, Discard
<1>2. CASE pc # "idle"
  BY <1>2 DEF Goto, StoreTypeOK, DeviceWorkerTypeOK
<1> QED
  BY <1>1, <1>2

\* Deleting a Job keeps the types.
LEMMA DeleteJobType ==
    ASSUME StoreTypeOK, DeviceWorkerTypeOK, dw.pc # "idle",
           NEW next \in dwPCs, DeleteJob(next), UNCHANGED <<bd, bdc, cacheVars, dirty>>
    PROVE  StoreTypeOK' /\ DeviceWorkerTypeOK'
<1>1. Goto(next) \/ Goto("idle")
  BY DEF DeleteJob
<1>2. DeviceWorkerTypeOK' /\ seen' \subseteq Clients \X (BDs \cup BDCs)
  BY <1>1, GotoType DEF dwPCs
<1>3. \A j \in Job : Deleted(j) \in Job \cup {None}
  BY Zenon DEF Deleted, Job
<1>4. job' \in [BDs -> Job \cup {None}]
  BY <1>3 DEF DeleteJob, StoreTypeOK
<1>5. faults' \in 0..MaxFaults
  BY FaultType DEF DeleteJob
<1> QED
  BY <1>2, <1>4, <1>5 DEF StoreTypeOK, cacheVars

\* The device controller keeps the types.
LEMMA DeviceControllerType ==
    ASSUME TypeOK, DeviceControllerNext
    PROVE  TypeOK'
<1>1. StoreTypeOK /\ DeviceWorkerTypeOK /\ None \notin BDs
  BY StoreAssumption DEF TypeOK
<1>2. BDMe \in Clients
  BY DEF BDMe, Clients
<1>3. StoreTypeOK' /\ DeviceWorkerTypeOK'
  <2> USE DEF DeviceWorkerTypeOK
  <2>1. ASSUME NEW b \in BDs, ReconcileDevice(b) PROVE StoreTypeOK' /\ DeviceWorkerTypeOK'
    <3>1. StoreTypeOK'
      BY <1>1, <1>2, <2>1, CachedReadType DEF ReconcileDevice, StoreTypeOK, cacheVars
    <3> DEFINE dev == ViewBD(b)
    <3>2. dev \in BlockDevice
      BY <1>1, <2>1, ViewType DEF ReconcileDevice
    <3>3. PICK pc \in {"inProgress", "addFinalizer"} : dw' = [pc |-> pc, b |-> b, obj |-> dev]
      BY <2>1 DEF ReconcileDevice
    <3> HIDE DEF dev
    <3> QED
      BY <1>1, <3>1, <3>2, <3>3, StoreAssumption DEF dwPCs
  <2>2. CASE InProgress
    <3>1. dw.pc # "idle" /\ UNCHANGED <<bd, bdc, job, cbd, cbdc, cjob, dirty>>
      BY <2>2 DEF InProgress, cacheVars
    <3>2. PICK pc \in dwPCs : Goto(pc)
      BY <2>2 DEF InProgress, dwPCs
    <3>3. faults' \in 0..MaxFaults
      BY <1>1, <2>2, FaultType DEF InProgress
    <3> QED
      BY <1>1, <3>1, <3>2, <3>3, GotoType DEF StoreTypeOK
  <2>3. CASE CancelJob
    BY <1>1, <2>3, DeleteJobType DEF CancelJob, dwPCs
  <2>4. CASE RemoveJob
    <3>1. dw.pc # "idle" /\ UNCHANGED <<bd, bdc, job, cbd, cbdc, cjob, dirty>>
      BY <2>4 DEF RemoveJob, cacheVars
    <3>2. PICK pc \in dwPCs : Goto(pc)
      BY <2>4 DEF RemoveJob, dwPCs
    <3>3. faults' \in 0..MaxFaults
      BY <1>1, <2>4, FaultType DEF RemoveJob
    <3> QED
      BY <1>1, <3>1, <3>2, <3>3, GotoType DEF StoreTypeOK
  <2>5. CASE DeleteSucceededJob
    BY <1>1, <2>5, DeleteJobType DEF DeleteSucceededJob, dwPCs
  <2>6. CASE RunJob
    <3>1. dw.pc # "idle" /\ UNCHANGED <<bd, bdc, cbd, cbdc, cjob, dirty>> /\ Goto("idle")
      BY <2>6 DEF RunJob, cacheVars
    <3>2. job' \in [BDs -> Job \cup {None}]
      <4>1. [st |-> "running", del |-> FALSE] \in Job
        BY DEF Job, JobState
      <4> QED
        BY <1>1, <2>6, <4>1, Zenon DEF RunJob, StoreTypeOK
    <3>3. faults' \in 0..MaxFaults
      BY <1>1, <2>6, FaultType DEF RunJob
    <3>4. "idle" \in dwPCs
      BY DEF dwPCs
    <3> QED
      BY <1>1, <3>1, <3>2, <3>3, <3>4, GotoType DEF StoreTypeOK
  <2>7. CASE Unclaim
    <3> DEFINE new == [dw.obj EXCEPT !.fin = FALSE, !.claim = "Unclaimed"]
    <3>1. dw.b \in BDs /\ new \in BlockDevice
      BY <1>1, <2>7, Zenon DEF Unclaim, BlockDevice, ClaimState
    <3>2. PICK ok \in BOOLEAN : UpdateBD(BDMe, dw.b, new, ok)
      BY <2>7 DEF Unclaim
    <3> HIDE DEF new
    <3>3. StoreTypeOK'
      BY <1>1, <2>7, <3>1, <3>2, UpdateBDType DEF Unclaim
    <3> QED
      BY <1>1, <2>7, <3>3 DEF Unclaim, dwIdle, dwPCs
  <2>8. CASE AddFinalizer
    <3> DEFINE new == [dw.obj EXCEPT !.fin = TRUE]
    <3>1. dw.b \in BDs /\ new \in BlockDevice
      BY <1>1, <2>8, Zenon DEF AddFinalizer, BlockDevice, ClaimState
    <3>2. PICK ok \in BOOLEAN : UpdateBD(BDMe, dw.b, new, ok)
      BY <2>8 DEF AddFinalizer
    <3> HIDE DEF new
    <3>3. StoreTypeOK'
      BY <1>1, <2>8, <3>1, <3>2, UpdateBDType DEF AddFinalizer
    <3> QED
      BY <1>1, <2>8, <3>3 DEF AddFinalizer, dwIdle, dwPCs
  <2> QED
    BY <2>1, <2>2, <2>3, <2>4, <2>5, <2>6, <2>7, <2>8
    DEF DeviceControllerNext, DeviceWorkerStep
<1> QED
  BY <1>3 DEF TypeOK, DeviceControllerNext, ClaimWorkerTypeOK, DaemonTypeOK, daemonVars

\* The daemon keeps the types: its merge of a device yields a device.
LEMMA DaemonType ==
    ASSUME TypeOK, DaemonNext
    PROVE  TypeOK'
<1>1. StoreTypeOK /\ DaemonTypeOK /\ None \notin BDs
  BY StoreAssumption DEF TypeOK
<1>2. NewDevice \in BlockDevice
  BY DEF NewDevice, BlockDevice, State, ClaimState
<1>3. \A op \in Ops, old \in BlockDevice : Written(op, old) \in BlockDevice
  <2> TAKE op \in Ops, old \in BlockDevice
  <2>1. Merge(old) \in BlockDevice
    BY <1>2, Zenon DEF Merge, BlockDevice
  <2>2. \A st \in State : [old EXCEPT !.state = st] \in BlockDevice
    BY DEF BlockDevice
  <2> QED
    BY <2>1, <2>2 DEF Written, State
<1>4. StoreTypeOK' /\ DaemonTypeOK'
  <2> USE DEF DaemonTypeOK
  <2>1. ASSUME NEW b \in BDs, CreateDevice(b) PROVE StoreTypeOK' /\ DaemonTypeOK'
    <3>1. CASE PutBD("Daemon", b, NewDevice)
      BY <1>1, <1>2, <2>1, <3>1, PutBDType, EventsAssumption, SMTT(20) DEF CreateDevice
    <3>2. CASE UNCHANGED <<bd, seen, dirty>>
      BY <1>1, <2>1, <3>2, FaultType, EventsAssumption DEF CreateDevice, StoreTypeOK, cacheVars
    <3> QED
      BY <2>1, <3>1, <3>2, Zenon DEF CreateDevice
  <2>2. ASSUME NEW b \in BDs, NEW op \in Ops, ReadDevice(b, op)
        PROVE  StoreTypeOK' /\ DaemonTypeOK'
    <3>1. StoreTypeOK' /\ bd[b] \in BlockDevice /\ b # None /\ bd[b] # None
      BY <1>1, <2>2 DEF ReadDevice, StoreTypeOK, cacheVars, DirectRead, Clients
    <3> QED
      BY <1>1, <2>2, <3>1, EventsAssumption DEF ReadDevice
  <2>3. CASE WriteDevice
    <3>1. dm.b \in BDs /\ Written(dm.op, dm.obj) \in BlockDevice
      BY <1>1, <1>3, <2>3 DEF WriteDevice
    <3>2. StoreTypeOK'
      <4>1. PICK ok \in BOOLEAN : UpdateBD("Daemon", dm.b, Written(dm.op, dm.obj), ok)
        BY <2>3 DEF WriteDevice
      <4> QED
        BY <1>1, <2>3, <3>1, <4>1, UpdateBDType DEF WriteDevice
    <3>3. dm' = dmIdle \/ dm' = [dm EXCEPT !.pc = "reget"]
      BY <2>3 DEF WriteDevice
    <3>4. dm.pc = "write" /\ UNCHANGED events
      BY <2>3 DEF WriteDevice
    <3> QED
      BY <1>1, <3>2, <3>3, <3>4 DEF dmIdle
  <2>4. CASE RereadDevice
    <3>1. faults' \in 0..MaxFaults
      BY <1>1, <2>4, FaultType DEF RereadDevice
    <3>2. StoreTypeOK'
      BY <1>1, <2>4, <3>1 DEF RereadDevice, StoreTypeOK, cacheVars, DirectRead, Clients
    <3>3. CASE bd[dm.b] # None /\ dm' = [dm EXCEPT !.pc = "write", !.obj = bd[dm.b], !.try = 2]
      <4>1. dm.b \in BDs /\ bd[dm.b] \in BlockDevice /\ UNCHANGED events /\ dm.pc = "reget"
        BY <1>1, <2>4, <3>3 DEF RereadDevice, StoreTypeOK
      <4>2. PICK d \in BlockDevice : d # None /\ dm' = [dm EXCEPT !.pc = "write", !.obj = d, !.try = 2]
        BY <3>3, <4>1, Zenon
      <4>3. 2 \in 0..2
        OBVIOUS
      <4> QED
        BY <1>1, <3>2, <4>1, <4>2, <4>3, Zenon
    <3>4. CASE dm' = dmIdle
      BY <1>1, <2>4, <3>2, <3>4 DEF RereadDevice, dmIdle
    <3> QED
      BY <2>4, <3>3, <3>4 DEF RereadDevice
  <2> QED
    BY <2>1, <2>2, <2>3, <2>4 DEF DaemonNext, DaemonStep
<1> QED
  BY <1>4 DEF TypeOK, DaemonNext, ClaimWorkerTypeOK, DeviceWorkerTypeOK

\* The cache, the users, the Jobs and the restarts keep the types.
LEMMA EnvironmentType ==
    ASSUME TypeOK, CacheNext \/ UserNext \/ JobNext \/ FailureNext
    PROVE  TypeOK'
<1> USE DEF ClaimWorkerTypeOK, DeviceWorkerTypeOK, DaemonTypeOK, daemonVars, cacheVars
<1>0. StoreTypeOK
  BY DEF TypeOK
<1>1. CASE CacheNext
  <2>0. UNCHANGED <<cw, dw, daemonVars, born>>
    BY <1>1 DEF CacheNext
  <2>1. ASSUME NEW b \in BDs, SyncBD(b) PROVE StoreTypeOK'
    BY <1>0, <2>1 DEF SyncBD, StoreTypeOK, Clients
  <2>2. ASSUME NEW c \in BDCs, SyncBDC(c) PROVE StoreTypeOK'
    BY <1>0, <2>2 DEF SyncBDC, StoreTypeOK, Clients
  <2>3. ASSUME NEW b \in BDs, SyncJob(b) PROVE StoreTypeOK'
    BY <1>0, <2>3 DEF SyncJob, StoreTypeOK
  <2>4. StoreTypeOK'
    BY <1>1, <2>1, <2>2, <2>3 DEF CacheNext
  <2> QED
    BY <2>0, <2>4 DEF TypeOK
<1>2. ASSUME NEW c \in BDCs, NEW name \in BDs \cup {None}, NEW cap \in BOOLEAN,
             CreateClaim(c, name, cap)
      PROVE  TypeOK'
  <2>1. NewClaim(name, cap) \in BlockDeviceClaim
    BY DEF NewClaim, BlockDeviceClaim, Phase
  <2> QED
    BY <1>0, <1>2, <2>1, PutBDCType DEF CreateClaim, TypeOK
<1>3. ASSUME NEW c \in BDCs, DeleteClaim(c) PROVE TypeOK'
  <2>1. [bdc[c] EXCEPT !.del = TRUE] \in BlockDeviceClaim
    BY <1>0, <1>3, Zenon DEF DeleteClaim, BlockDeviceClaim, StoreTypeOK
  <2> QED
    BY <1>0, <1>3, <2>1, PutBDCType DEF DeleteClaim, TypeOK
<1>4. ASSUME NEW c \in BDCs, EditOwnerFinalizer(c) PROVE TypeOK'
  <2>0. bdc[c] \in BlockDeviceClaim /\ (~bdc[c].own) \in BOOLEAN
    BY <1>0, <1>4 DEF EditOwnerFinalizer, StoreTypeOK
  <2>1. [bdc[c] EXCEPT !.own = ~@] \in BlockDeviceClaim
    BY <2>0, Zenon DEF BlockDeviceClaim
  <2> QED
    BY <1>0, <1>4, <2>1, PutBDCType DEF EditOwnerFinalizer, TypeOK
<1>5. ASSUME NEW b \in BDs, DeleteDevice(b) PROVE TypeOK'
  <2>1. [bd[b] EXCEPT !.del = TRUE] \in BlockDevice
    BY <1>0, <1>5, Zenon DEF DeleteDevice, BlockDevice, StoreTypeOK
  <2> QED
    BY <1>0, <1>5, <2>1, PutBDType DEF DeleteDevice, TypeOK
<1>6. ASSUME NEW b \in BDs, NEW st \in {"succeeded", "failed"}, FinishJob(b, st)
      PROVE  TypeOK'
  <2>1. StoreTypeOK'
    BY <1>0, <1>6 DEF FinishJob, StoreTypeOK, Job, JobState
  <2> QED
    BY <1>6, <2>1 DEF FinishJob, TypeOK
<1>7. ASSUME NEW b \in BDs, RemoveDeletedJob(b) PROVE TypeOK'
  <2>1. StoreTypeOK'
    BY <1>0, <1>7 DEF RemoveDeletedJob, StoreTypeOK
  <2> QED
    BY <1>7, <2>1 DEF RemoveDeletedJob, TypeOK
<1>8. CASE RestartOperator
  <2>1. StoreTypeOK'
    BY <1>0, <1>8, FaultType DEF RestartOperator, StoreTypeOK, Discard
  <2> QED
    BY <1>8, <2>1, Zenon DEF RestartOperator, TypeOK, cwIdle, cwPCs, dwIdle, dwPCs
<1>9. CASE RestartDaemon
  <2>1. StoreTypeOK'
    BY <1>0, <1>9, FaultType DEF RestartDaemon, StoreTypeOK, Discard
  <2> QED
    BY <1>9, <2>1 DEF RestartDaemon, TypeOK, dmIdle
<1> QED
  BY <1>1, <1>2, <1>3, <1>4, <1>5, <1>6, <1>7, <1>8, <1>9
  DEF UserNext, JobNext, FailureNext

\* Every step keeps the types.
LEMMA TypeNext == TypeOK /\ [Next]_vars => TypeOK'
<1> SUFFICES ASSUME TypeOK, [Next]_vars PROVE TypeOK'
  OBVIOUS
<1>1. CASE UNCHANGED vars
  <2>1. StoreTypeOK'
    BY <1>1 DEF vars, storeVars, TypeOK, StoreTypeOK
  <2>2. ClaimWorkerTypeOK' /\ DeviceWorkerTypeOK' /\ DaemonTypeOK'
    BY <1>1 DEF vars, daemonVars, TypeOK, ClaimWorkerTypeOK, DeviceWorkerTypeOK, DaemonTypeOK
  <2> QED
    BY <1>1, <2>1, <2>2 DEF vars, TypeOK
<1> QED
  BY <1>1, ClaimControllerType, DeviceControllerType, DaemonType, EnvironmentType DEF Next

\* The state of the store, of the workers and of the daemon is well typed: in
\* particular a worker never writes a device or a claim that it has not read.
THEOREM TypeCorrect == Spec => []TypeOK
BY TypeInit, TypeNext, PTL DEF Spec

-----------------------------------------------------------------------------
(* Ownership. *)

\* a device deleted by hand had its finalizer from the moment it was claimed
NoLegacyDeletes == ~({"legacy", "adminDelete"} \subseteq Env)

-----------------------------------------------------------------------------
(* What a step does to the copies that are current. *)

\* every copy that is current after the step was current before it, and its
\* object has not changed
KeepsCopies ==
    \A k, o : <<k, o>> \in seen' =>
        /\ <<k, o>> \in seen
        /\ o \in BDs => bd'[o] = bd[o]
        /\ o \in BDCs => bdc'[o] = bdc[o]

\* A discarded copy is not current.
LEMMA DiscardKeeps ==
    ASSUME seen' \subseteq seen, UNCHANGED <<bd, bdc>>
    PROVE  KeepsCopies
BY DEF KeepsCopies

\* A write of a device outdates the copies of that device only.
LEMMA PutBDKeeps ==
    ASSUME TypeOK, NEW cl, NEW b \in BDs, NEW new, PutBD(cl, b, new), UNCHANGED bdc
    PROVE  KeepsCopies
<1> SUFFICES ASSUME NEW k, NEW o, <<k, o>> \in seen'
             PROVE  <<k, o>> \in seen /\ (o \in BDs => bd'[o] = bd[o])
  BY DEF KeepsCopies
<1>1. CASE StoredBD(new) = bd[b]
  BY <1>1 DEF PutBD, TypeOK, StoreTypeOK
<1>2. CASE StoredBD(new) # bd[b]
  <2>1. <<k, o>> \in seen /\ <<k, o>>[2] # b
    BY <1>2 DEF PutBD, Forget
  <2> QED
    BY <2>1 DEF PutBD, TypeOK, StoreTypeOK
<1> QED
  BY <1>1, <1>2

\* A write of a claim outdates the copies of that claim only.
LEMMA PutBDCKeeps ==
    ASSUME TypeOK, NEW cl, NEW c \in BDCs, NEW new, PutBDC(cl, c, new), UNCHANGED bd
    PROVE  KeepsCopies
<1> SUFFICES ASSUME NEW k, NEW o, <<k, o>> \in seen'
             PROVE  <<k, o>> \in seen /\ (o \in BDCs => bdc'[o] = bdc[o])
  BY DEF KeepsCopies
<1>1. CASE StoredBDC(new) = bdc[c]
  BY <1>1 DEF PutBDC, TypeOK, StoreTypeOK
<1>2. CASE StoredBDC(new) # bdc[c]
  <2>1. <<k, o>> \in seen /\ <<k, o>>[2] # c
    BY <1>2 DEF PutBDC, Forget
  <2> QED
    BY <2>1 DEF PutBDC, TypeOK, StoreTypeOK
<1> QED
  BY <1>1, <1>2

\* So does client.Update of a device, whether the call fails or not.
LEMMA UpdateBDKeeps ==
    ASSUME TypeOK, NEW cl, NEW b \in BDs, NEW new, NEW ok \in BOOLEAN,
           UpdateBD(cl, b, new, ok), UNCHANGED bdc
    PROVE  KeepsCopies
<1>1. CASE PutBD(cl, b, new) /\ Fresh(cl, b)
  BY <1>1, PutBDKeeps, Zenon DEF PutBD
<1>2. CASE seen' = Discard(cl) /\ UNCHANGED bd /\ ~ok
  BY <1>2, DiscardKeeps DEF Discard
<1>3. CASE /\ bd' = [bd EXCEPT ![b] = StoredBD(new)]
           /\ seen' = Discard(cl) \cap Forget(b) /\ Fresh(cl, b)
  <2> SUFFICES ASSUME NEW k, NEW o, <<k, o>> \in seen'
               PROVE  <<k, o>> \in seen /\ (o \in BDs => bd'[o] = bd[o])
    BY <1>3 DEF KeepsCopies
  <2>1. <<k, o>> \in seen /\ <<k, o>>[2] # b
    BY <1>3 DEF Forget
  <2> QED
    BY <1>3, <2>1 DEF TypeOK, StoreTypeOK
<1> QED
  BY <1>1, <1>2, <1>3 DEF UpdateBD

\* client.Update of a claim likewise.
LEMMA UpdateBDCKeeps ==
    ASSUME TypeOK, NEW cl, NEW c \in BDCs, NEW new, NEW ok \in BOOLEAN,
           UpdateBDC(cl, c, new, ok), UNCHANGED bd
    PROVE  KeepsCopies
<1>1. CASE PutBDC(cl, c, new) /\ Fresh(cl, c)
  BY <1>1, PutBDCKeeps, Zenon DEF PutBDC
<1>2. CASE seen' = Discard(cl) /\ UNCHANGED bdc /\ ~ok
  BY <1>2, DiscardKeeps DEF Discard
<1>3. CASE /\ bdc' = [bdc EXCEPT ![c] = StoredBDC(new)]
           /\ seen' = Discard(cl) \cap Forget(c) /\ Fresh(cl, c)
  <2> SUFFICES ASSUME NEW k, NEW o, <<k, o>> \in seen'
               PROVE  <<k, o>> \in seen /\ (o \in BDCs => bdc'[o] = bdc[o])
    BY <1>3 DEF KeepsCopies
  <2>1. <<k, o>> \in seen /\ <<k, o>>[2] # c
    BY <1>3 DEF Forget
  <2> QED
    BY <1>3, <2>1 DEF TypeOK, StoreTypeOK
<1> QED
  BY <1>1, <1>2, <1>3 DEF UpdateBDC

\* Copies that nobody replaces stay current when the step keeps copies.
LEMMA CopiesKept ==
    ASSUME TypeOK, CopiesCurrent, KeepsCopies, UNCHANGED <<cbd, cbdc>>,
           \/ cw'.pc = "idle"
           \/ /\ cw.pc # "idle" /\ cw'.c = cw.c /\ cw'.inst = cw.inst
              /\ cw'.pc \in {"claim", "releaseBD"} => cw' = cw,
           dw'.pc = "idle" \/ (dw.pc # "idle" /\ dw'.b = dw.b /\ dw'.obj = dw.obj),
           dm'.pc # "write" \/ dm' = dm
    PROVE  CopiesCurrent'
<1>1. ClaimCopyCurrent'
  <2> SUFFICES ASSUME cw'.pc # "idle", <<Me, cw'.c>> \in seen' PROVE cw'.inst = bdc'[cw'.c]
    BY DEF ClaimCopyCurrent, Fresh
  <2>1. cw.c \in BDCs /\ <<Me, cw.c>> \in seen /\ bdc'[cw.c] = bdc[cw.c]
    BY DEF KeepsCopies, TypeOK, ClaimWorkerTypeOK
  <2> QED
    BY <2>1 DEF CopiesCurrent, ClaimCopyCurrent, Fresh
<1>2. ClaimDeviceCopyCurrent'
  <2> SUFFICES ASSUME cw'.pc \in {"claim", "releaseBD"}, <<Me, cw'.b>> \in seen'
               PROVE  cw'.obj = bd'[cw'.b]
    BY DEF ClaimDeviceCopyCurrent, Fresh
  <2>1. cw' = cw /\ cw.b \in BDs /\ <<Me, cw.b>> \in seen /\ bd'[cw.b] = bd[cw.b]
    BY DEF KeepsCopies, TypeOK, ClaimWorkerTypeOK
  <2> QED
    BY <2>1 DEF CopiesCurrent, ClaimDeviceCopyCurrent, Fresh
<1>3. DeviceCopyCurrent'
  <2> SUFFICES ASSUME dw'.pc # "idle", <<BDMe, dw'.b>> \in seen' PROVE dw'.obj = bd'[dw'.b]
    BY DEF DeviceCopyCurrent, Fresh
  <2>1. dw.b \in BDs /\ <<BDMe, dw.b>> \in seen /\ bd'[dw.b] = bd[dw.b]
    BY DEF KeepsCopies, TypeOK, DeviceWorkerTypeOK
  <2> QED
    BY <2>1 DEF CopiesCurrent, DeviceCopyCurrent, Fresh
<1>4. DaemonCopyCurrent'
  <2> SUFFICES ASSUME dm'.pc = "write", <<"Daemon", dm'.b>> \in seen' PROVE dm'.obj = bd'[dm'.b]
    BY DEF DaemonCopyCurrent, Fresh
  <2>1. dm' = dm /\ dm.b \in BDs /\ <<"Daemon", dm.b>> \in seen /\ bd'[dm.b] = bd[dm.b]
    BY DEF KeepsCopies, TypeOK, DaemonTypeOK
  <2> QED
    BY <2>1 DEF CopiesCurrent, DaemonCopyCurrent, Fresh
<1>5. Lag => CacheCurrent'
  BY DEF CopiesCurrent, CacheCurrent, KeepsCopies, Fresh
<1> QED
  BY <1>1, <1>2, <1>3, <1>4, <1>5 DEF CopiesCurrent, Lag

\* A read through the cache makes a copy current only if the cache is.
LEMMA CachedReadBD ==
    ASSUME TypeOK, CopiesCurrent, NEW cl, NEW b \in BDs, CachedRead(cl, b)
    PROVE  /\ \A k, o : <<k, o>> \in seen' => <<k, o>> \in seen \/ (k = cl /\ o = b)
           /\ <<cl, b>> \in seen' => ViewBD(b) = bd[b]
BY DEF CachedRead, CopiesCurrent, CacheCurrent, ViewBD, Fresh

\* The same for a claim.
LEMMA CachedReadBDC ==
    ASSUME TypeOK, CopiesCurrent, NEW cl, NEW c \in BDCs, CachedRead(cl, c)
    PROVE  /\ \A k, o : <<k, o>> \in seen' => <<k, o>> \in seen \/ (k = cl /\ o = c)
           /\ <<cl, c>> \in seen' => ViewBDC(c) = bdc[c]
BY DEF CachedRead, CopiesCurrent, CacheCurrent, ViewBDC, Fresh

\* The claim controller's Get of a claim leaves all copies as current as they
\* look.
LEMMA CopiesReadClaim ==
    ASSUME TypeOK, CopiesCurrent, UNCHANGED <<bd, bdc, cbd, cbdc, dw, dm>>,
           NEW c \in BDCs, CachedRead(Me, c),
           cw'.c = c, cw'.inst = ViewBDC(c), cw'.pc \notin {"claim", "releaseBD"}
    PROVE  CopiesCurrent'
<1> USE DEF Fresh, Me, BDMe
<1>1. /\ \A k, o : <<k, o>> \in seen' => <<k, o>> \in seen \/ (k = Me /\ o = c)
      /\ <<Me, c>> \in seen' => ViewBDC(c) = bdc[c]
  BY CachedReadBDC
<1>2. Lag => CacheCurrent'
  BY <1>1 DEF CopiesCurrent, CacheCurrent
<1>3. ClaimCopyCurrent'
  BY <1>1, StoreAssumption DEF CopiesCurrent, ClaimCopyCurrent, TypeOK, ClaimWorkerTypeOK
<1>4. ClaimDeviceCopyCurrent'
  BY <1>1 DEF CopiesCurrent, ClaimDeviceCopyCurrent
<1>5. DeviceCopyCurrent'
  BY <1>1 DEF CopiesCurrent, DeviceCopyCurrent
<1>6. DaemonCopyCurrent'
  BY <1>1 DEF CopiesCurrent, DaemonCopyCurrent
<1> QED
  BY <1>2, <1>3, <1>4, <1>5, <1>6 DEF CopiesCurrent, Lag

\* So does the claim controller's choice of a device from a list.
LEMMA CopiesReadDevice ==
    ASSUME TypeOK, CopiesCurrent, UNCHANGED <<bd, bdc, cbd, cbdc, dw, dm>>,
           NEW b \in BDs, CachedRead(Me, b), cw.pc # "idle",
           cw'.c = cw.c, cw'.inst = cw.inst, cw'.b = b, cw'.obj = ViewBD(b)
    PROVE  CopiesCurrent'
<1> USE DEF Fresh, Me, BDMe
<1>1. /\ \A k, o : <<k, o>> \in seen' => <<k, o>> \in seen \/ (k = Me /\ o = b)
      /\ <<Me, b>> \in seen' => ViewBD(b) = bd[b]
  BY CachedReadBD
<1>2. Lag => CacheCurrent'
  BY <1>1 DEF CopiesCurrent, CacheCurrent
<1>3. ClaimCopyCurrent'
  BY <1>1, StoreAssumption DEF CopiesCurrent, ClaimCopyCurrent, TypeOK, ClaimWorkerTypeOK
<1>4. ClaimDeviceCopyCurrent'
  BY <1>1 DEF CopiesCurrent, ClaimDeviceCopyCurrent
<1>5. DeviceCopyCurrent'
  BY <1>1 DEF CopiesCurrent, DeviceCopyCurrent
<1>6. DaemonCopyCurrent'
  BY <1>1 DEF CopiesCurrent, DaemonCopyCurrent
<1> QED
  BY <1>2, <1>3, <1>4, <1>5, <1>6 DEF CopiesCurrent, Lag

\* So does the device controller's Get.
LEMMA CopiesReconcileDevice ==
    ASSUME TypeOK, CopiesCurrent, UNCHANGED <<bd, bdc, cbd, cbdc, cw, dm>>,
           NEW b \in BDs, CachedRead(BDMe, b), dw'.b = b, dw'.obj = ViewBD(b)
    PROVE  CopiesCurrent'
<1> USE DEF Fresh, Me, BDMe
<1>1. /\ \A k, o : <<k, o>> \in seen' => <<k, o>> \in seen \/ (k = BDMe /\ o = b)
      /\ <<BDMe, b>> \in seen' => ViewBD(b) = bd[b]
  BY CachedReadBD
<1>2. Lag => CacheCurrent'
  BY <1>1 DEF CopiesCurrent, CacheCurrent
<1>3. ClaimCopyCurrent'
  BY <1>1, StoreAssumption DEF CopiesCurrent, ClaimCopyCurrent, TypeOK, ClaimWorkerTypeOK
<1>4. ClaimDeviceCopyCurrent'
  BY <1>1 DEF CopiesCurrent, ClaimDeviceCopyCurrent
<1>5. DeviceCopyCurrent'
  BY <1>1 DEF CopiesCurrent, DeviceCopyCurrent
<1>6. DaemonCopyCurrent'
  BY <1>1 DEF CopiesCurrent, DaemonCopyCurrent
<1> QED
  BY <1>2, <1>3, <1>4, <1>5, <1>6 DEF CopiesCurrent, Lag

\* So does a read of the daemon, which is always current.
LEMMA CopiesDaemonRead ==
    ASSUME TypeOK, CopiesCurrent, UNCHANGED <<bd, bdc, cbd, cbdc, cw, dw>>,
           NEW b \in BDs, DirectRead("Daemon", b), dm'.b = b, dm'.obj = bd[b]
    PROVE  CopiesCurrent'
<1> USE DEF Fresh, Me, BDMe
<1>1. \A k, o : <<k, o>> \in seen' => <<k, o>> \in seen \/ (k = "Daemon" /\ o = b)
  BY DEF DirectRead
<1>2. Lag => CacheCurrent'
  BY <1>1 DEF CopiesCurrent, CacheCurrent
<1>3. ClaimCopyCurrent'
  BY <1>1, StoreAssumption DEF CopiesCurrent, ClaimCopyCurrent, TypeOK, ClaimWorkerTypeOK
<1>4. ClaimDeviceCopyCurrent'
  BY <1>1 DEF CopiesCurrent, ClaimDeviceCopyCurrent
<1>5. DeviceCopyCurrent'
  BY <1>1 DEF CopiesCurrent, DeviceCopyCurrent
<1>6. DaemonCopyCurrent'
  BY <1>1 DEF CopiesCurrent, DaemonCopyCurrent
<1> QED
  BY <1>2, <1>3, <1>4, <1>5, <1>6 DEF CopiesCurrent, Lag

-----------------------------------------------------------------------------
(* What a step may do to a device and to a claim. *)

\* the daemon finds a new device
Appears(b) == bd[b] = None /\ bd'[b] = NewDevice

\* a device that no claim has is deleted by hand
Vanishes(b) == bd[b] # None /\ bd[b].claim = "Unclaimed" /\ bd'[b] = None

\* the state, the finalizer or the deletion mark changes, the claim does not
Kept(b) ==
    /\ bd[b] # None /\ bd'[b] # None
    /\ bd'[b].claim = bd[b].claim /\ bd'[b].ref = bd[b].ref
    /\ bd[b].fin => bd'[b].fin
    /\ bd'[b].del => bd[b].del \/ "adminDelete" \in Env

\* the claim controller claims or releases the device for the claim it works on
Taken(b) ==
    /\ cw.pc = "claim" /\ cw.b = b /\ bd[b] # None /\ bd[b].claim = "Unclaimed"
    /\ bd'[b] = [bd[b] EXCEPT !.fin = TRUE, !.ref = cw.c, !.claim = "Claimed"]

GivenBack(b) ==
    /\ cw.pc = "releaseBD" /\ cw.b = b
    /\ bd[b] # None /\ bd[b].claim = "Claimed" /\ bd[b].ref = cw.c
    /\ bd'[b] = [bd[b] EXCEPT !.ref = None, !.claim = "Released"]

\* the device controller has seen the cleanup through
Cleaned(b) ==
    /\ dw.pc = "unclaim" /\ dw.b = b /\ bd[b] # None /\ bd[b].claim = "Released"
    /\ bd'[b] = StoredBD([bd[b] EXCEPT !.fin = FALSE, !.claim = "Unclaimed"])

DeviceStep(b) ==
    \/ bd'[b] = bd[b] \/ Appears(b) \/ Vanishes(b) \/ Kept(b)
    \/ Taken(b) \/ GivenBack(b) \/ Cleaned(b)

\* a claim is created, edited (which does not bind it and does not undo its
\* deletion) or bound to the device that the claim controller has taken
Created(c) == c \notin born /\ c \in born' /\ bdc'[c] # None /\ bdc'[c].phase = "Empty"

Edited(c) ==
    /\ bdc[c] # None
    /\ bdc'[c] # None => /\ bdc[c].del => bdc'[c].del
                         /\ bdc'[c].phase = "Bound" =>
                               bdc[c].phase = "Bound" /\ bdc'[c].name = bdc[c].name

BoundNow(c) ==
    /\ cw.pc = "bind" /\ cw.c = c /\ bdc[c] # None
    /\ bdc'[c] = [bdc[c] EXCEPT !.phase = "Bound", !.name = cw.b, !.fin = TRUE]

ClaimStep(c) == bdc'[c] = bdc[c] \/ Created(c) \/ Edited(c) \/ BoundNow(c)

Steps ==
    /\ \A b \in BDs : DeviceStep(b)
    /\ \A c \in BDCs : ClaimStep(c)
    /\ CopiesCurrent'

\* An unchanged store is a step of every device and claim.
LEMMA NoStep ==
    ASSUME UNCHANGED <<bd, bdc>>, CopiesCurrent'
    PROVE  Steps
BY DEF Steps, DeviceStep, ClaimStep

\* A device that a successful write leaves in the store.
LEMMA WriteStep ==
    ASSUME TypeOK, NEW b \in BDs, UNCHANGED bdc, CopiesCurrent',
           \E v : bd' = [bd EXCEPT ![b] = v], DeviceStep(b)
    PROVE  Steps
BY DEF Steps, DeviceStep, ClaimStep, TypeOK, StoreTypeOK

\* A claim that a successful write leaves in the store.
LEMMA WriteClaimStep ==
    ASSUME TypeOK, NEW c \in BDCs, UNCHANGED bd, CopiesCurrent',
           \E v : bdc' = [bdc EXCEPT ![c] = v], ClaimStep(c)
    PROVE  Steps
BY DEF Steps, DeviceStep, ClaimStep, TypeOK, StoreTypeOK

-----------------------------------------------------------------------------
(* The steps of the claim controller. *)

\* Reconcile's Get reads a claim that was born, and releases it only when it
\* is under deletion.
LEMMA ReconcileSteps ==
    ASSUME OwnershipInv, NEW c \in BDCs, Reconcile(c), UNCHANGED <<dw, daemonVars, born>>
    PROVE  Steps /\ ClaimWorkerInv'
<1> DEFINE inst == ViewBDC(c)
<1>0. TypeOK /\ CopiesCurrent /\ ClaimHistory
  BY DEF OwnershipInv
<1>1. PICK pc \in {"select", "pend", "release"} :
          /\ cw' = [cwIdle EXCEPT !.pc = pc, !.c = c, !.inst = inst]
          /\ pc = "release" => inst.del
  BY Zenon DEF Reconcile
<1>2. cw'.pc = pc /\ cw'.c = c /\ cw'.inst = inst
  BY <1>1 DEF cwIdle
<1>3. inst # None /\ CachedRead(Me, c) /\ UNCHANGED <<bd, bdc, cbd, cbdc>>
  BY DEF Reconcile, cacheVars
<1>4. c \in born /\ (inst.del => Gone(c))
  BY <1>0, <1>3 DEF ViewBDC, ClaimHistory, Gone
<1>5. CopiesCurrent'
  BY <1>0, <1>2, <1>3, CopiesReadClaim DEF daemonVars
<1>6. ClaimWorkerInv'
  BY <1>1, <1>2, <1>3, <1>4 DEF ClaimWorkerInv, Gone
<1> QED
  BY <1>3, <1>5, <1>6, NoStep

\* SelectDevice only picks Unclaimed devices.
LEMMA SelectSteps ==
    ASSUME OwnershipInv, SelectDevice, UNCHANGED <<dw, daemonVars, born>>
    PROVE  Steps /\ ClaimWorkerInv'
<1>0. TypeOK /\ CopiesCurrent /\ ClaimWorkerInv /\ cw.pc = "select"
  BY Zenon DEF OwnershipInv, SelectDevice
<1>1. UNCHANGED <<bd, bdc, cbd, cbdc>>
  BY Zenon DEF SelectDevice, cacheVars
<1>2. ASSUME NEW b \in Candidates(cw.c, cw.inst), CachedRead(Me, b),
             cw' = [cw EXCEPT !.pc = "claim", !.b = b, !.obj = ViewBD(b)]
      PROVE  Steps /\ ClaimWorkerInv'
  <2>1. b \in BDs /\ ViewBD(b).claim = "Unclaimed"
    BY DEF Candidates
  <2>2. /\ cw'.pc = "claim" /\ cw'.b = b /\ cw'.obj = ViewBD(b)
        /\ cw'.c = cw.c /\ cw'.inst = cw.inst
    BY <1>0, <1>2 DEF TypeOK, ClaimWorkerTypeOK
  <2>3. CopiesCurrent'
    BY <1>0, <1>1, <1>2, <2>1, <2>2, CopiesReadDevice DEF daemonVars
  <2>4. ClaimWorkerInv'
    BY <1>0, <2>1, <2>2 DEF ClaimWorkerInv
  <2> QED
    BY <1>1, <2>3, <2>4, NoStep
<1>3. ASSUME cw' = [cw EXCEPT !.pc = "pend"] \/ cw' = cwIdle, seen' \subseteq seen
      PROVE  Steps /\ ClaimWorkerInv'
  <2>1. cw'.pc = "idle" \/ (cw'.pc = "pend" /\ cw'.c = cw.c /\ cw'.inst = cw.inst)
    BY <1>0, <1>3 DEF TypeOK, ClaimWorkerTypeOK, cwIdle
  <2>2. CopiesCurrent'
    BY <1>0, <1>1, <1>3, <2>1, DiscardKeeps, CopiesKept DEF daemonVars
  <2>3. ClaimWorkerInv'
    BY <1>0, <2>1 DEF ClaimWorkerInv
  <2> QED
    BY <1>1, <2>2, <2>3, NoStep
<1> QED
  BY <1>2, <1>3, Zenon DEF SelectDevice, Discard

\* claimBlockDevice takes a device that was Unclaimed when it was written.
LEMMA ClaimBlockDeviceSteps ==
    ASSUME OwnershipInv, ClaimBlockDevice, UNCHANGED <<dw, daemonVars, born>>
    PROVE  Steps /\ ClaimWorkerInv'
<1> DEFINE new == [cw.obj EXCEPT !.fin = TRUE, !.ref = cw.c, !.claim = "Claimed"]
<1>0. TypeOK /\ CopiesCurrent /\ ClaimWorkerInv /\ cw.pc = "claim"
  BY DEF OwnershipInv, ClaimBlockDevice
<1>1. cw.b \in BDs /\ cw.c \in BDCs /\ cw.obj \in BlockDevice
  BY <1>0 DEF TypeOK, ClaimWorkerTypeOK
<1>2. PICK ok \in BOOLEAN :
          /\ UpdateBD(Me, cw.b, new, ok)
          /\ cw' = IF ok THEN [cw EXCEPT !.pc = "bind"] ELSE cwIdle
  BY DEF ClaimBlockDevice
<1>3. UNCHANGED <<bdc, cbd, cbdc>>
  BY DEF ClaimBlockDevice, cacheVars
<1>4. /\ KeepsCopies
      /\ \/ ~ok /\ UNCHANGED bd
         \/ Fresh(Me, cw.b) /\ bd' = [bd EXCEPT ![cw.b] = StoredBD(new)]
  <2>1. UNCHANGED bdc /\ UpdateBD(Me, cw.b, new, ok)
    BY <1>2, <1>3
  <2> HIDE DEF new
  <2>2. \/ ~ok /\ UNCHANGED bd
        \/ Fresh(Me, cw.b) /\ bd' = [bd EXCEPT ![cw.b] = StoredBD(new)]
    BY <2>1 DEF UpdateBD, PutBD
  <2> QED
    BY <1>0, <1>1, <2>1, <2>2, UpdateBDKeeps
<1>5. /\ ok => cw'.pc = "bind" /\ cw'.c = cw.c /\ cw'.inst = cw.inst /\ cw'.b = cw.b
      /\ ~ok => cw'.pc = "idle"
  <2>1. CASE ok
    <3>1. cw' = [cw EXCEPT !.pc = "bind"]
      BY <1>2, <2>1
    <3> QED
      BY <1>0, <2>1, <3>1 DEF TypeOK, ClaimWorkerTypeOK
  <2>2. CASE ~ok
    <3>1. cw' = cwIdle
      BY <1>2, <2>2
    <3> QED
      BY <2>2, <3>1 DEF cwIdle
  <2> QED
    BY <2>1, <2>2
<1>6. CopiesCurrent'
  BY <1>0, <1>3, <1>4, <1>5, CopiesKept DEF daemonVars
<1>7. StoredBD(new) = new /\ new \in BlockDevice /\ new # None
      /\ new.claim = "Claimed" /\ new.ref = cw.c
  <2>1. new.claim = "Claimed" /\ new.ref = cw.c /\ new.fin
    BY <1>1 DEF BlockDevice
  <2>2. new \in BlockDevice
    BY <1>1, Zenon DEF BlockDevice, ClaimState
  <2> HIDE DEF new
  <2>3. StoredBD(new) = new
    BY <2>1 DEF StoredBD
  <2> QED
    BY <2>1, <2>2, <2>3, StoreAssumption
<1>8. CASE ~ok /\ UNCHANGED bd
  BY <1>0, <1>3, <1>5, <1>6, <1>8, NoStep DEF ClaimWorkerInv
<1>9. CASE Fresh(Me, cw.b) /\ bd' = [bd EXCEPT ![cw.b] = StoredBD(new)]
  <2>1. bd[cw.b] = cw.obj /\ cw.obj # None /\ cw.obj.claim = "Unclaimed"
    BY <1>0, <1>1, <1>9, StoreAssumption DEF CopiesCurrent, ClaimDeviceCopyCurrent, ClaimWorkerInv
  <2>2. bd'[cw.b] = new
    BY <1>0, <1>1, <1>7, <1>9 DEF TypeOK, StoreTypeOK
  <2>3. DeviceStep(cw.b)
    BY <1>0, <2>1, <2>2 DEF DeviceStep, Taken
  <2>4. Steps
    BY <1>0, <1>1, <1>3, <1>6, <1>9, <2>3, WriteStep, Zenon
  <2> HIDE DEF new
  <2>5. ClaimWorkerInv'
    BY <1>0, <1>5, <1>7, <2>2 DEF ClaimWorkerInv, OwnershipInv
  <2> QED
    BY <2>4, <2>5
<1> QED
  BY <1>4, <1>8, <1>9

\* An update of the claim in hand that ends the reconcile.
LEMMA UpdateClaimSteps ==
    ASSUME OwnershipInv, cw.pc # "idle", cw' = cwIdle,
           NEW new, NEW ok \in BOOLEAN, UpdateBDC(Me, cw.c, new, ok),
           UNCHANGED <<bd, cacheVars, dw, daemonVars, born>>,
           bdc[cw.c] = cw.inst /\ bdc'[cw.c] = StoredBDC(new) => ClaimStep(cw.c)
    PROVE  Steps /\ ClaimWorkerInv'
<1>0. TypeOK /\ CopiesCurrent /\ cw.c \in BDCs /\ cw'.pc = "idle"
  BY DEF OwnershipInv, TypeOK, ClaimWorkerTypeOK, cwIdle
<1>1. /\ KeepsCopies
      /\ \/ UNCHANGED bdc
         \/ Fresh(Me, cw.c) /\ bdc' = [bdc EXCEPT ![cw.c] = StoredBDC(new)]
  <2>1. UNCHANGED bd
    OBVIOUS
  <2>2. \/ UNCHANGED bdc
        \/ Fresh(Me, cw.c) /\ bdc' = [bdc EXCEPT ![cw.c] = StoredBDC(new)]
    BY Zenon DEF UpdateBDC, PutBDC
  <2> QED
    BY <1>0, <2>1, <2>2, UpdateBDCKeeps
<1>2. CopiesCurrent'
  BY <1>0, <1>1, CopiesKept, Zenon DEF daemonVars, cacheVars
<1>3. ClaimWorkerInv'
  BY <1>0 DEF ClaimWorkerInv
<1>4. CASE UNCHANGED bdc
  BY <1>2, <1>3, <1>4, NoStep
<1>5. CASE Fresh(Me, cw.c) /\ bdc' = [bdc EXCEPT ![cw.c] = StoredBDC(new)]
  <2>1. bdc[cw.c] = cw.inst /\ bdc'[cw.c] = StoredBDC(new)
    BY <1>0, <1>5 DEF CopiesCurrent, ClaimCopyCurrent, TypeOK, StoreTypeOK
  <2> QED
    BY <1>0, <1>2, <1>3, <1>5, <2>1, WriteClaimStep, Zenon
<1> QED
  BY <1>1, <1>4, <1>5

\* updateClaimStatus(Done) binds the claim to the device just taken.
LEMMA BindClaimSteps ==
    ASSUME OwnershipInv, BindClaim, UNCHANGED <<dw, daemonVars, born>>
    PROVE  Steps /\ ClaimWorkerInv'
<1> DEFINE new == [cw.inst EXCEPT !.phase = "Bound", !.name = cw.b, !.fin = TRUE]
<1>0. cw.pc = "bind" /\ cw.inst \in BlockDeviceClaim
  BY DEF OwnershipInv, BindClaim, TypeOK, ClaimWorkerTypeOK
<1>1. PICK ok \in BOOLEAN : UpdateBDC(Me, cw.c, new, ok)
  BY DEF BindClaim
<1>2. StoredBDC(new) = new /\ cw.inst # None
  BY <1>0, StoreAssumption DEF StoredBDC, BlockDeviceClaim
<1>3. bdc[cw.c] = cw.inst /\ bdc'[cw.c] = StoredBDC(new) => ClaimStep(cw.c)
  BY <1>0, <1>2 DEF ClaimStep, BoundNow
<1> HIDE DEF new
<1> QED
  BY <1>0, <1>1, <1>3, UpdateClaimSteps DEF BindClaim

\* updateClaimStatus(Pending) binds nothing.
LEMMA PendClaimSteps ==
    ASSUME OwnershipInv, PendClaim, UNCHANGED <<dw, daemonVars, born>>
    PROVE  Steps /\ ClaimWorkerInv'
<1> DEFINE new == [cw.inst EXCEPT !.phase = "Pending"]
<1>0. cw.pc = "pend" /\ cw.inst \in BlockDeviceClaim
  BY DEF OwnershipInv, PendClaim, TypeOK, ClaimWorkerTypeOK
<1>1. PICK ok \in BOOLEAN : UpdateBDC(Me, cw.c, new, ok)
  BY DEF PendClaim
<1>2. cw.inst # None /\ new.phase = "Pending" /\ new.del = cw.inst.del
  BY <1>0, StoreAssumption DEF BlockDeviceClaim
<1> HIDE DEF new
<1>3. bdc[cw.c] = cw.inst /\ bdc'[cw.c] = StoredBDC(new) => ClaimStep(cw.c)
  BY <1>2 DEF ClaimStep, Edited, StoredBDC
<1> QED
  BY <1>0, <1>1, <1>3, UpdateClaimSteps DEF PendClaim

\* The finalizer of a claim is removed only when the claim is gone for its users.
LEMMA RemoveFinalizerSteps ==
    ASSUME OwnershipInv, RemoveFinalizer, UNCHANGED <<dw, daemonVars, born>>
    PROVE  Steps /\ ClaimWorkerInv'
<1> DEFINE new == [cw.inst EXCEPT !.fin = FALSE]
<1>0. cw.pc = "unfinalize" /\ cw.inst \in BlockDeviceClaim
  BY DEF OwnershipInv, RemoveFinalizer, TypeOK, ClaimWorkerTypeOK
<1>1. PICK ok \in BOOLEAN : UpdateBDC(Me, cw.c, new, ok)
  BY DEF RemoveFinalizer
<1>2. /\ cw.inst # None /\ new.phase = cw.inst.phase /\ new.del = cw.inst.del
      /\ new.name = cw.inst.name
  BY <1>0, StoreAssumption DEF BlockDeviceClaim
<1> HIDE DEF new
<1>3. bdc[cw.c] = cw.inst /\ bdc'[cw.c] = StoredBDC(new) => ClaimStep(cw.c)
  BY <1>2 DEF ClaimStep, Edited, StoredBDC
<1> QED
  BY <1>0, <1>1, <1>3, UpdateClaimSteps DEF RemoveFinalizer

\* releaseClaimedBlockDevice only picks devices that the claim holds.
LEMMA FindClaimedSteps ==
    ASSUME OwnershipInv, FindClaimed, UNCHANGED <<dw, daemonVars, born>>
    PROVE  Steps /\ ClaimWorkerInv'
<1>0. TypeOK /\ CopiesCurrent /\ ClaimWorkerInv /\ cw.pc = "release"
  BY Zenon DEF OwnershipInv, FindClaimed
<1>1. UNCHANGED <<bd, bdc, cbd, cbdc>>
  BY Zenon DEF FindClaimed, cacheVars
<1>2. ASSUME NEW b \in BDs, Requested(cw.c, ViewBD(b)), CachedRead(Me, b),
             cw' = [cw EXCEPT !.pc = "releaseBD", !.b = b, !.obj = ViewBD(b)]
      PROVE  Steps /\ ClaimWorkerInv'
  <2>1. ViewBD(b).claim = "Claimed" /\ ViewBD(b).ref = cw.c
    BY <1>2 DEF Requested
  <2>2. /\ cw'.pc = "releaseBD" /\ cw'.b = b /\ cw'.obj = ViewBD(b)
        /\ cw'.c = cw.c /\ cw'.inst = cw.inst
    BY <1>0, <1>2 DEF TypeOK, ClaimWorkerTypeOK
  <2>3. CopiesCurrent'
    BY <1>0, <1>1, <1>2, <2>2, CopiesReadDevice DEF daemonVars
  <2>4. ClaimWorkerInv'
    BY <1>0, <1>1, <2>1, <2>2 DEF ClaimWorkerInv, Gone
  <2> QED
    BY <1>1, <2>3, <2>4, NoStep
<1>3. ASSUME cw' = cwIdle, seen' \subseteq seen
      PROVE  Steps /\ ClaimWorkerInv'
  <2>1. cw'.pc = "idle"
    BY <1>3 DEF cwIdle
  <2>2. CopiesCurrent'
    BY <1>0, <1>1, <1>3, <2>1, DiscardKeeps, CopiesKept DEF daemonVars
  <2> QED
    BY <1>1, <2>1, <2>2, NoStep DEF ClaimWorkerInv
<1> QED
  BY <1>2, <1>3, Zenon DEF FindClaimed, Discard

\* A device that an Update replaces makes the step that its writer intended.
LEMMA UpdateDeviceSteps ==
    ASSUME TypeOK, CopiesCurrent', NEW cl, NEW b \in BDs, NEW new, NEW ok \in BOOLEAN,
           UpdateBD(cl, b, new, ok), UNCHANGED bdc,
           Fresh(cl, b) /\ bd'[b] = StoredBD(new) => DeviceStep(b)
    PROVE  Steps
<1>1. CASE UNCHANGED bd
  BY <1>1, NoStep
<1>2. CASE Fresh(cl, b) /\ bd' = [bd EXCEPT ![b] = StoredBD(new)]
  <2>1. DeviceStep(b)
    BY <1>2 DEF TypeOK, StoreTypeOK
  <2> QED
    BY <1>2, <2>1, WriteStep, Zenon
<1> QED
  BY <1>1, <1>2 DEF UpdateBD, PutBD

\* releaseClaimedBlockDevice gives back a device that the claim still held
\* when it was written.
LEMMA ReleaseBlockDeviceSteps ==
    ASSUME OwnershipInv, ReleaseBlockDevice, UNCHANGED <<dw, daemonVars, born>>
    PROVE  Steps /\ ClaimWorkerInv'
<1> DEFINE new == [cw.obj EXCEPT !.ref = None, !.claim = "Released"]
<1>0. TypeOK /\ CopiesCurrent /\ ClaimWorkerInv /\ DeviceProtected /\ cw.pc = "releaseBD"
  BY DEF OwnershipInv, ReleaseBlockDevice
<1>1. cw.b \in BDs /\ cw.c \in BDCs /\ cw.obj \in BlockDevice
  BY <1>0 DEF TypeOK, ClaimWorkerTypeOK
<1>2. PICK ok \in BOOLEAN :
          /\ UpdateBD(Me, cw.b, new, ok)
          /\ cw' = IF ok THEN [cw EXCEPT !.pc = "unfinalize"] ELSE cwIdle
  BY DEF ReleaseBlockDevice
<1>3. UNCHANGED <<bdc, cbd, cbdc>>
  BY DEF ReleaseBlockDevice, cacheVars
<1>4. \/ cw'.pc = "idle"
      \/ cw'.pc = "unfinalize" /\ cw'.c = cw.c /\ cw'.inst = cw.inst
  BY <1>0, <1>2 DEF TypeOK, ClaimWorkerTypeOK, cwIdle
<1>5. ClaimWorkerInv'
  BY <1>0, <1>3, <1>4 DEF ClaimWorkerInv, Gone
<1>6. /\ new.del = cw.obj.del /\ new.fin = cw.obj.fin
      /\ cw.obj # None
  BY <1>1, StoreAssumption DEF BlockDevice
<1>7. ASSUME Fresh(Me, cw.b), bd'[cw.b] = StoredBD(new)
      PROVE  DeviceStep(cw.b)
  <2>1. bd[cw.b] = cw.obj /\ cw.obj.claim = "Claimed" /\ cw.obj.ref = cw.c
    BY <1>0, <1>7 DEF CopiesCurrent, ClaimDeviceCopyCurrent, ClaimWorkerInv
  <2>2. cw.obj.del => cw.obj.fin
    BY <1>0, <1>1, <1>6, <2>1 DEF DeviceProtected
  <2>3. bd'[cw.b] = new
    BY <1>6, <1>7, <2>2 DEF StoredBD
  <2> QED
    BY <1>0, <1>6, <2>1, <2>3 DEF DeviceStep, GivenBack
<1>8. UNCHANGED bdc /\ UpdateBD(Me, cw.b, new, ok)
  BY <1>2, <1>3
<1> HIDE DEF new
<1>9. CopiesCurrent'
  <2>1. KeepsCopies
    BY <1>0, <1>1, <1>8, UpdateBDKeeps
  <2> QED
    BY <1>0, <1>3, <1>4, <2>1, CopiesKept DEF daemonVars
<1> QED
  BY <1>0, <1>1, <1>5, <1>7, <1>8, <1>9, UpdateDeviceSteps, Zenon

\* Together: what the claim controller does.
LEMMA ClaimControllerSteps ==
    ASSUME OwnershipInv, ClaimControllerNext
    PROVE  Steps /\ ClaimWorkerInv' /\ UNCHANGED <<cbd, cbdc, dw, born>>
<1>1. UNCHANGED <<dw, daemonVars, born>>
  BY DEF ClaimControllerNext
<1>2. ASSUME NEW c \in BDCs, Reconcile(c)
      PROVE  Steps /\ ClaimWorkerInv' /\ UNCHANGED <<cbd, cbdc>>
  BY <1>1, <1>2, ReconcileSteps, Zenon DEF Reconcile, cacheVars
<1>3. CASE SelectDevice
  BY <1>1, <1>3, SelectSteps, Zenon DEF SelectDevice, cacheVars
<1>4. CASE ClaimBlockDevice
  BY <1>1, <1>4, ClaimBlockDeviceSteps DEF ClaimBlockDevice, cacheVars
<1>5. CASE BindClaim
  BY <1>1, <1>5, BindClaimSteps DEF BindClaim, cacheVars
<1>6. CASE PendClaim
  BY <1>1, <1>6, PendClaimSteps DEF PendClaim, cacheVars
<1>7. CASE FindClaimed
  BY <1>1, <1>7, FindClaimedSteps, Zenon DEF FindClaimed, cacheVars
<1>8. CASE ReleaseBlockDevice
  BY <1>1, <1>8, ReleaseBlockDeviceSteps DEF ReleaseBlockDevice, cacheVars
<1>9. CASE RemoveFinalizer
  BY <1>1, <1>9, RemoveFinalizerSteps, Zenon DEF RemoveFinalizer, cacheVars
<1> QED
  BY <1>1, <1>2, <1>3, <1>4, <1>5, <1>6, <1>7, <1>8, <1>9
     DEF ClaimControllerNext, ClaimWorkerStep

-----------------------------------------------------------------------------
(* The steps of the device controller. *)

\* A step of the cleaner that continues or ends the reconcile.
LEMMA GotoSteps ==
    ASSUME OwnershipInv, UNCHANGED <<bd, bdc, cbd, cbdc, cw, dm>>, dw.pc \in Cleaning,
           NEW pc \in Cleaning \cup {"idle"}, Goto(pc)
    PROVE  Steps /\ DeviceWorkerInv'
<1>0. TypeOK /\ CopiesCurrent /\ DeviceWorkerInv
  BY DEF OwnershipInv
<1>1. seen' \subseteq seen
  BY DEF Goto, Discard
<1>2. dw'.pc = "idle" \/ (dw'.pc = pc /\ pc # "idle" /\ dw'.b = dw.b /\ dw'.obj = dw.obj)
  BY <1>0 DEF Goto, dwIdle, TypeOK, DeviceWorkerTypeOK
<1>3. dw.pc # "idle"
  BY DEF Cleaning
<1>4. CopiesCurrent'
  <2>1. KeepsCopies
    BY <1>1, DiscardKeeps
  <2>2. cw'.pc = "idle" \/ (cw.pc # "idle" /\ cw' = cw)
    OBVIOUS
  <2> QED
    BY <1>0, <1>2, <1>3, <2>1, <2>2, CopiesKept
<1>5. DeviceWorkerInv'
  BY <1>0, <1>2 DEF DeviceWorkerInv, Cleaning
<1> QED
  BY <1>4, <1>5, NoStep

\* The steps of the cleaner change no device and no claim.
LEMMA CleanerSteps ==
    ASSUME OwnershipInv, UNCHANGED <<cw, daemonVars, born>>,
           InProgress \/ CancelJob \/ RemoveJob \/ DeleteSucceededJob \/ RunJob
    PROVE  Steps /\ DeviceWorkerInv' /\ UNCHANGED <<cbd, cbdc>>
<1>1. UNCHANGED <<bd, bdc, cbd, cbdc, cw, dm>> /\ dw.pc \in Cleaning
  BY DEF InProgress, CancelJob, RemoveJob, DeleteSucceededJob, RunJob, cacheVars,
         daemonVars, Cleaning
<1>2. PICK pc \in Cleaning \cup {"idle"} : Goto(pc)
  BY Zenon DEF InProgress, CancelJob, RemoveJob, DeleteSucceededJob, RunJob, DeleteJob, Cleaning
<1> QED
  BY <1>1, <1>2, GotoSteps

\* Reconcile's Get reads a Released device, or a Claimed one.
LEMMA ReconcileDeviceSteps ==
    ASSUME OwnershipInv, NEW b \in BDs, ReconcileDevice(b), UNCHANGED <<cw, daemonVars, born>>
    PROVE  Steps /\ DeviceWorkerInv' /\ UNCHANGED <<cbd, cbdc>>
<1>0. TypeOK /\ CopiesCurrent
  BY DEF OwnershipInv
<1>1. UNCHANGED <<bd, bdc, cbd, cbdc, cw, dm>> /\ CachedRead(BDMe, b)
  BY DEF ReconcileDevice, cacheVars, daemonVars
<1>2. /\ dw'.b = b /\ dw'.obj = ViewBD(b)
      /\ \/ dw'.pc = "inProgress" /\ ViewBD(b).claim = "Released"
         \/ dw'.pc = "addFinalizer" /\ ViewBD(b).claim = "Claimed"
  BY DEF ReconcileDevice
<1>3. CopiesCurrent'
  BY <1>0, <1>1, <1>2, CopiesReconcileDevice
<1>4. DeviceWorkerInv'
  BY <1>2 DEF DeviceWorkerInv, Cleaning
<1> QED
  BY <1>1, <1>3, <1>4, NoStep

\* Unclaim frees a device that was Released when it was written.
LEMMA UnclaimSteps ==
    ASSUME OwnershipInv, Unclaim, UNCHANGED <<cw, daemonVars, born>>
    PROVE  Steps /\ DeviceWorkerInv' /\ UNCHANGED <<cbd, cbdc>>
<1> DEFINE new == [dw.obj EXCEPT !.fin = FALSE, !.claim = "Unclaimed"]
<1>0. TypeOK /\ CopiesCurrent /\ DeviceWorkerInv /\ dw.pc = "unclaim"
  BY DEF OwnershipInv, Unclaim
<1>1. dw.b \in BDs /\ dw.obj # None /\ dw.obj.claim = "Released"
  BY <1>0 DEF TypeOK, DeviceWorkerTypeOK, DeviceWorkerInv, Cleaning
<1>2. PICK ok \in BOOLEAN : UpdateBD(BDMe, dw.b, new, ok)
  BY DEF Unclaim
<1>3. UNCHANGED <<bdc, cbd, cbdc, cw, dm>> /\ dw'.pc = "idle"
  BY DEF Unclaim, cacheVars, daemonVars, dwIdle
<1>4. ASSUME Fresh(BDMe, dw.b), bd'[dw.b] = StoredBD(new)
      PROVE  DeviceStep(dw.b)
  <2>1. bd[dw.b] = dw.obj
    BY <1>0, <1>4 DEF CopiesCurrent, DeviceCopyCurrent
  <2> QED
    BY <1>0, <1>1, <1>4, <2>1 DEF DeviceStep, Cleaned
<1>5. UNCHANGED bdc /\ UpdateBD(BDMe, dw.b, new, ok)
  BY <1>2, <1>3
<1> HIDE DEF new
<1>6. CopiesCurrent'
  <2>1. KeepsCopies
    BY <1>0, <1>1, <1>5, UpdateBDKeeps
  <2>2. cw'.pc = "idle" \/ (cw.pc # "idle" /\ cw' = cw)
    BY <1>3
  <2> QED
    BY <1>0, <1>3, <2>1, <2>2, CopiesKept
<1>7. Steps
  BY <1>0, <1>1, <1>4, <1>5, <1>6, UpdateDeviceSteps, Zenon
<1> QED
  BY <1>3, <1>7 DEF DeviceWorkerInv, Cleaning

\* AddFinalizer changes nothing but the finalizer.
LEMMA AddFinalizerSteps ==
    ASSUME OwnershipInv, AddFinalizer, UNCHANGED <<cw, daemonVars, born>>
    PROVE  Steps /\ DeviceWorkerInv' /\ UNCHANGED <<cbd, cbdc>>
<1> DEFINE new == [dw.obj EXCEPT !.fin = TRUE]
<1>0. TypeOK /\ CopiesCurrent /\ dw.pc = "addFinalizer"
  BY DEF OwnershipInv, AddFinalizer
<1>1. dw.b \in BDs /\ dw.obj # None /\ dw.obj \in BlockDevice
  BY <1>0 DEF TypeOK, DeviceWorkerTypeOK
<1>2. PICK ok \in BOOLEAN : UpdateBD(BDMe, dw.b, new, ok)
  BY DEF AddFinalizer
<1>3. UNCHANGED <<bdc, cbd, cbdc, cw, dm>> /\ dw'.pc = "idle"
  BY DEF AddFinalizer, cacheVars, daemonVars, dwIdle
<1>4. /\ StoredBD(new) = new /\ new # None /\ new.fin
      /\ new.claim = dw.obj.claim /\ new.ref = dw.obj.ref /\ new.del = dw.obj.del
  BY <1>1, StoreAssumption, Zenon DEF StoredBD, BlockDevice
<1>5. UNCHANGED bdc /\ UpdateBD(BDMe, dw.b, new, ok)
  BY <1>2, <1>3
<1> HIDE DEF new
<1>6. ASSUME Fresh(BDMe, dw.b), bd'[dw.b] = StoredBD(new)
      PROVE  DeviceStep(dw.b)
  <2>1. bd[dw.b] = dw.obj
    BY <1>0, <1>6 DEF CopiesCurrent, DeviceCopyCurrent
  <2> QED
    BY <1>1, <1>4, <1>6, <2>1 DEF DeviceStep, Kept
<1>7. CopiesCurrent'
  <2>1. KeepsCopies
    BY <1>0, <1>1, <1>5, UpdateBDKeeps
  <2>2. cw'.pc = "idle" \/ (cw.pc # "idle" /\ cw' = cw)
    BY <1>3
  <2> QED
    BY <1>0, <1>3, <2>1, <2>2, CopiesKept
<1>8. Steps
  BY <1>0, <1>1, <1>5, <1>6, <1>7, UpdateDeviceSteps, Zenon
<1> QED
  BY <1>3, <1>8 DEF DeviceWorkerInv, Cleaning

\* Together: what the device controller does.
LEMMA DeviceControllerSteps ==
    ASSUME OwnershipInv, DeviceControllerNext
    PROVE  Steps /\ DeviceWorkerInv' /\ UNCHANGED <<cbd, cbdc, cw, born>>
<1>1. UNCHANGED <<cw, daemonVars, born>>
  BY DEF DeviceControllerNext
<1> QED
  BY <1>1, ReconcileDeviceSteps, CleanerSteps, UnclaimSteps, AddFinalizerSteps
     DEF DeviceControllerNext, DeviceWorkerStep

-----------------------------------------------------------------------------
(* The steps of the daemon. *)

\* A worker that the step leaves alone keeps its copies.
LEMMA OthersKept ==
    ASSUME TypeOK, CopiesCurrent, KeepsCopies, UNCHANGED <<cbd, cbdc, cw, dw>>,
           dm'.pc # "write" \/ dm' = dm
    PROVE  CopiesCurrent'
<1>1. cw'.pc = "idle" \/ (cw.pc # "idle" /\ cw' = cw)
  OBVIOUS
<1>2. dw'.pc = "idle" \/ (dw.pc # "idle" /\ dw'.b = dw.b /\ dw'.obj = dw.obj)
  OBVIOUS
<1> QED
  BY <1>1, <1>2, CopiesKept

\* A device is created as Unclaimed.
LEMMA CreateDeviceSteps ==
    ASSUME OwnershipInv, NEW b \in BDs, CreateDevice(b), UNCHANGED <<cw, dw, born>>
    PROVE  Steps
<1>0. TypeOK /\ CopiesCurrent
  BY DEF OwnershipInv
<1>1. UNCHANGED <<bdc, cbd, cbdc, dm>> /\ bd[b] = None
  BY DEF CreateDevice, cacheVars
<1>2. CASE UNCHANGED <<bd, seen>>
  BY <1>0, <1>1, <1>2, DiscardKeeps, OthersKept, NoStep
<1>3. CASE PutBD("Daemon", b, NewDevice)
  <2>1. CopiesCurrent'
    BY <1>0, <1>1, <1>3, PutBDKeeps, OthersKept
  <2>2. bd' = [bd EXCEPT ![b] = NewDevice]
    BY <1>3 DEF PutBD, StoredBD, NewDevice
  <2>3. DeviceStep(b)
    BY <1>0, <1>1, <2>2 DEF DeviceStep, Appears, TypeOK, StoreTypeOK
  <2> QED
    BY <1>0, <1>1, <2>1, <2>2, <2>3, WriteStep, Zenon
<1> QED
  BY <1>2, <1>3 DEF CreateDevice

\* What the daemon writes leaves the claim of a device alone: a device that is
\* not in use has no reference that a merge could lose.
LEMMA WrittenKeepsClaim ==
    ASSUME NEW op \in Ops, NEW old \in BlockDevice,
           old.claim = "Claimed" <=> old.ref # None
    PROVE  /\ Written(op, old) \in BlockDevice
           /\ Written(op, old).claim = old.claim /\ Written(op, old).ref = old.ref
           /\ Written(op, old).fin = old.fin /\ Written(op, old).del = old.del
<1>1. /\ Merge(old) \in BlockDevice
      /\ Merge(old).claim = old.claim /\ Merge(old).ref = old.ref
      /\ Merge(old).fin = old.fin /\ Merge(old).del = old.del
  BY Zenon DEF Merge, NewDevice, BlockDevice, State, ClaimState
<1>2. CASE op = "deactivate"
  BY <1>2 DEF Written, BlockDevice, State
<1>3. CASE op = "unknown"
  BY <1>3 DEF Written, BlockDevice, State
<1> QED
  BY <1>1, <1>2, <1>3 DEF Written

\* A device that the daemon writes keeps its claim.
LEMMA WriteDeviceSteps ==
    ASSUME OwnershipInv, WriteDevice, UNCHANGED <<cw, dw, born>>
    PROVE  Steps
<1> DEFINE new == Written(dm.op, dm.obj)
<1>0. TypeOK /\ CopiesCurrent /\ DeviceProtected /\ ClaimRefMatchesState /\ dm.pc = "write"
  BY DEF OwnershipInv, WriteDevice
<1>1. dm.b \in BDs /\ dm.op \in Ops /\ dm.obj \in BlockDevice /\ dm.obj # None
  BY <1>0 DEF TypeOK, DaemonTypeOK
<1>2. PICK ok \in BOOLEAN : UpdateBD("Daemon", dm.b, new, ok)
  BY DEF WriteDevice
<1>3. UNCHANGED <<bdc, cbd, cbdc>> /\ dm'.pc # "write"
  BY <1>0 DEF WriteDevice, cacheVars, dmIdle, TypeOK, DaemonTypeOK
<1>4. UNCHANGED bdc /\ UpdateBD("Daemon", dm.b, new, ok)
  BY <1>2, <1>3
<1> HIDE DEF new
<1>5. ASSUME Fresh("Daemon", dm.b), bd'[dm.b] = StoredBD(new)
      PROVE  DeviceStep(dm.b)
  <2>1. bd[dm.b] = dm.obj
    BY <1>0, <1>5 DEF CopiesCurrent, DaemonCopyCurrent
  <2>2. dm.obj.claim = "Claimed" <=> dm.obj.ref # None
    BY <1>0, <1>1, <2>1 DEF ClaimRefMatchesState, Present
  <2>3. /\ new \in BlockDevice
        /\ new.claim = dm.obj.claim /\ new.ref = dm.obj.ref
        /\ new.fin = dm.obj.fin /\ new.del = dm.obj.del
    BY <1>1, <2>2, WrittenKeepsClaim, SMTT(20) DEF new
  <2>4. CASE new.del /\ ~new.fin
    <3>1. dm.obj.claim = "Unclaimed"
      BY <1>0, <1>1, <2>1, <2>3, <2>4, Zenon DEF DeviceProtected
    <3> QED
      BY <1>1, <1>5, <2>1, <2>4, <3>1, Zenon DEF DeviceStep, Vanishes, StoredBD
  <2>5. CASE ~(new.del /\ ~new.fin)
    <3>1. bd'[dm.b] = new /\ new # None
      BY <1>5, <2>3, <2>5, StoreAssumption DEF StoredBD
    <3> QED
      BY <1>1, <2>1, <2>3, <3>1, Zenon DEF DeviceStep, Kept
  <2> QED
    BY <2>4, <2>5
<1>6. CopiesCurrent'
  BY <1>0, <1>1, <1>3, <1>4, UpdateBDKeeps, OthersKept
<1> QED
  BY <1>0, <1>1, <1>4, <1>5, <1>6, UpdateDeviceSteps, Zenon

\* Together: what the daemon does.
LEMMA DaemonSteps ==
    ASSUME OwnershipInv, DaemonNext
    PROVE  Steps /\ UNCHANGED <<cbd, cbdc, cw, dw, born>>
<1>0. TypeOK /\ CopiesCurrent
  BY DEF OwnershipInv
<1>1. UNCHANGED <<cw, dw, born>>
  BY DEF DaemonNext
<1>2. ASSUME NEW b \in BDs, NEW op \in Ops, ReadDevice(b, op)
      PROVE  Steps /\ UNCHANGED <<cbd, cbdc>>
  <2>1. UNCHANGED <<bd, bdc, cbd, cbdc>> /\ DirectRead("Daemon", b)
    BY <1>2 DEF ReadDevice, cacheVars
  <2>2. dm'.b = b /\ dm'.obj = bd[b]
    BY <1>2 DEF ReadDevice
  <2> QED
    BY <1>0, <1>1, <2>1, <2>2, CopiesDaemonRead, NoStep
<1>3. CASE RereadDevice
  <2>0. UNCHANGED <<bd, bdc, cbd, cbdc>> /\ dm.b \in BDs
    BY <1>0, <1>3 DEF RereadDevice, cacheVars, TypeOK, DaemonTypeOK
  <2>1. CASE DirectRead("Daemon", dm.b) /\ dm' = [dm EXCEPT !.pc = "write", !.obj = bd[dm.b], !.try = 2]
    <3>1. dm'.b = dm.b /\ dm'.obj = bd[dm.b]
      BY <1>0, <2>1 DEF TypeOK, DaemonTypeOK
    <3> QED
      BY <1>0, <1>1, <2>0, <2>1, <3>1, CopiesDaemonRead, NoStep
  <2>2. CASE dm' = dmIdle /\ UNCHANGED seen
    <3>1. dm'.pc # "write"
      BY <2>2 DEF dmIdle
    <3> QED
      BY <1>0, <1>1, <2>0, <2>2, <3>1, DiscardKeeps, OthersKept, NoStep
  <2> QED
    BY <1>3, <2>0, <2>1, <2>2 DEF RereadDevice
<1>4. ASSUME NEW b \in BDs, CreateDevice(b)
      PROVE  Steps /\ UNCHANGED <<cbd, cbdc>>
  BY <1>1, <1>4, CreateDeviceSteps DEF CreateDevice, cacheVars
<1>5. CASE WriteDevice
  BY <1>1, <1>5, WriteDeviceSteps DEF WriteDevice, cacheVars
<1> QED
  BY <1>1, <1>2, <1>3, <1>4, <1>5 DEF DaemonNext, DaemonStep

-----------------------------------------------------------------------------
(* The steps of the cache, of users, of Jobs, and restarts. *)

\* The cache of a claim changes only to what is stored.
CacheStep == \A c \in BDCs : cbdc'[c] = cbdc[c] \/ cbdc'[c] = bdc[c]

\* An event that the cache receives makes it current for its object.
LEMMA CacheSteps ==
    ASSUME OwnershipInv, CacheNext
    PROVE  Steps /\ CacheStep /\ UNCHANGED <<cw, dw, born>>
<1>0. TypeOK /\ CopiesCurrent
  BY DEF OwnershipInv
<1>1. UNCHANGED <<bd, bdc, cw, dw, dm, born>>
  BY DEF CacheNext, SyncBD, SyncBDC, SyncJob, daemonVars
<1>2. ASSUME \A k, o : <<k, o>> \in seen' => <<k, o>> \in seen \/ k = "Cache",
             Lag => CacheCurrent'
      PROVE  Steps
  <2> USE DEF Fresh, Me, BDMe
  <2>1. ClaimCopyCurrent' /\ ClaimDeviceCopyCurrent' /\ DeviceCopyCurrent'
    BY <1>0, <1>1, <1>2, Zenon
       DEF CopiesCurrent, ClaimCopyCurrent, ClaimDeviceCopyCurrent, DeviceCopyCurrent
  <2>2. DaemonCopyCurrent'
    BY <1>0, <1>1, <1>2 DEF CopiesCurrent, DaemonCopyCurrent
  <2> QED
    BY <1>1, <1>2, <2>1, <2>2, NoStep DEF CopiesCurrent, Lag
<1>3. ASSUME NEW b \in BDs, SyncBD(b)
      PROVE  Steps /\ CacheStep
  <2>1. \A k, o : <<k, o>> \in seen' => <<k, o>> \in seen \/ (k = "Cache" /\ o = b)
    BY <1>3 DEF SyncBD
  <2>2. UNCHANGED cbdc /\ cbd' = [cbd EXCEPT ![b] = bd[b]]
    BY <1>3 DEF SyncBD
  <2>3. Lag => CacheCurrent'
    BY <1>0, <1>1, <2>1, <2>2, StoreAssumption, SMTT(20)
       DEF CopiesCurrent, CacheCurrent, Fresh, TypeOK, StoreTypeOK
  <2> QED
    BY <1>2, <2>1, <2>2, <2>3 DEF CacheStep
<1>4. ASSUME NEW c \in BDCs, SyncBDC(c)
      PROVE  Steps /\ CacheStep
  <2>1. \A k, o : <<k, o>> \in seen' => <<k, o>> \in seen \/ (k = "Cache" /\ o = c)
    BY <1>4 DEF SyncBDC
  <2>2. UNCHANGED cbd /\ cbdc' = [cbdc EXCEPT ![c] = bdc[c]]
    BY <1>4 DEF SyncBDC
  <2>3. Lag => CacheCurrent'
    BY <1>0, <1>1, <2>1, <2>2, StoreAssumption, SMTT(20)
       DEF CopiesCurrent, CacheCurrent, Fresh, TypeOK, StoreTypeOK
  <2> QED
    BY <1>0, <1>2, <2>1, <2>2, <2>3 DEF CacheStep, TypeOK, StoreTypeOK
<1>5. ASSUME NEW b \in BDs, SyncJob(b)
      PROVE  Steps /\ CacheStep
  <2>1. UNCHANGED <<seen, cbd, cbdc>>
    BY <1>5, Zenon DEF SyncJob
  <2>2. Lag => CacheCurrent'
    BY <1>0, <1>1, <2>1, Zenon DEF CopiesCurrent, CacheCurrent, Fresh
  <2> QED
    BY <1>2, <2>1, <2>2 DEF CacheStep
<1> QED
  BY <1>1, <1>3, <1>4, <1>5 DEF CacheNext

\* A user's write of a claim that creates or edits it.
LEMMA PutClaimSteps ==
    ASSUME OwnershipInv, NEW c \in BDCs, NEW new, PutBDC("User", c, new),
           UNCHANGED <<bd, cacheVars, cw, dw, daemonVars>>,
           bdc'[c] = StoredBDC(new) => ClaimStep(c)
    PROVE  Steps
<1>0. TypeOK /\ CopiesCurrent
  BY DEF OwnershipInv
<1>1. UNCHANGED <<bd, cbd, cbdc, cw, dw, dm>>
  BY DEF cacheVars, daemonVars
<1>2. CopiesCurrent'
  BY <1>0, <1>1, PutBDCKeeps, OthersKept
<1>3. bdc' = [bdc EXCEPT ![c] = StoredBDC(new)] /\ bdc'[c] = StoredBDC(new)
  BY <1>0 DEF PutBDC, TypeOK, StoreTypeOK
<1> QED
  BY <1>0, <1>1, <1>2, <1>3, WriteClaimStep, Zenon

\* What users do to claims and devices.
LEMMA UserSteps ==
    ASSUME OwnershipInv, UserNext
    PROVE  Steps /\ UNCHANGED <<cbd, cbdc, cw, dw>> /\ born \subseteq born'
<1>0. TypeOK /\ CopiesCurrent /\ DeviceProtected
  BY DEF OwnershipInv
<1>1. ASSUME NEW c \in BDCs, NEW name \in BDs \cup {None}, NEW cap \in BOOLEAN,
             CreateClaim(c, name, cap)
      PROVE  Steps /\ UNCHANGED <<cbd, cbdc, cw, dw>> /\ born \subseteq born'
  <2> DEFINE new == NewClaim(name, cap)
  <2>1. StoredBDC(new) = new /\ new # None /\ new.phase = "Empty"
    <3>1. new \in BlockDeviceClaim
      BY DEF NewClaim, BlockDeviceClaim, Phase
    <3> QED
      BY <3>1, StoreAssumption, Zenon DEF NewClaim, StoredBDC
  <2>2. /\ PutBDC("User", c, new) /\ c \notin born /\ born' = born \cup {c}
        /\ UNCHANGED <<bd, cacheVars, cw, dw, daemonVars>>
    BY <1>1 DEF CreateClaim
  <2> HIDE DEF new
  <2>3. bdc'[c] = StoredBDC(new) => ClaimStep(c)
    BY <2>1, <2>2, Zenon DEF ClaimStep, Created
  <2>4. Steps
    BY <2>2, <2>3, PutClaimSteps
  <2> QED
    BY <2>2, <2>4 DEF cacheVars
<1>2. ASSUME NEW c \in BDCs, DeleteClaim(c)
      PROVE  Steps /\ UNCHANGED <<cbd, cbdc, cw, dw, born>>
  <2> DEFINE new == [bdc[c] EXCEPT !.del = TRUE]
  <2>0. bdc[c] # None /\ bdc[c] \in BlockDeviceClaim
    BY <1>0, <1>2 DEF DeleteClaim, TypeOK, StoreTypeOK
  <2>1. new.del /\ new.phase = bdc[c].phase /\ new.name = bdc[c].name
    BY <2>0 DEF BlockDeviceClaim
  <2>2. /\ PutBDC("User", c, new)
        /\ UNCHANGED <<bd, cacheVars, cw, dw, daemonVars, born>>
    BY <1>2 DEF DeleteClaim
  <2> HIDE DEF new
  <2>3. bdc'[c] = StoredBDC(new) => ClaimStep(c)
    BY <2>0, <2>1, Zenon DEF ClaimStep, Edited, StoredBDC
  <2>4. Steps
    BY <2>2, <2>3, PutClaimSteps
  <2> QED
    BY <2>2, <2>4 DEF cacheVars
<1>3. ASSUME NEW c \in BDCs, EditOwnerFinalizer(c)
      PROVE  Steps /\ UNCHANGED <<cbd, cbdc, cw, dw, born>>
  <2> DEFINE new == [bdc[c] EXCEPT !.own = ~@]
  <2>0. bdc[c] # None /\ bdc[c] \in BlockDeviceClaim
    BY <1>0, <1>3 DEF EditOwnerFinalizer, TypeOK, StoreTypeOK
  <2>1. new.del = bdc[c].del /\ new.phase = bdc[c].phase /\ new.name = bdc[c].name
    BY <2>0 DEF BlockDeviceClaim
  <2>2. /\ PutBDC("User", c, new)
        /\ UNCHANGED <<bd, cacheVars, cw, dw, daemonVars, born>>
    BY <1>3 DEF EditOwnerFinalizer
  <2> HIDE DEF new
  <2>3. bdc'[c] = StoredBDC(new) => ClaimStep(c)
    BY <2>0, <2>1, Zenon DEF ClaimStep, Edited, StoredBDC
  <2>4. Steps
    BY <2>2, <2>3, PutClaimSteps
  <2> QED
    BY <2>2, <2>4 DEF cacheVars
<1>4. ASSUME NEW b \in BDs, DeleteDevice(b)
      PROVE  Steps /\ UNCHANGED <<cbd, cbdc, cw, dw, born>>
  <2> DEFINE new == [bd[b] EXCEPT !.del = TRUE]
  <2>0. bd[b] # None /\ bd[b] \in BlockDevice /\ "adminDelete" \in Env
    BY <1>0, <1>4 DEF DeleteDevice, TypeOK, StoreTypeOK
  <2>1. /\ new \in BlockDevice /\ new.del /\ new.fin = bd[b].fin
        /\ new.claim = bd[b].claim /\ new.ref = bd[b].ref
    BY <2>0, Zenon DEF BlockDevice
  <2>2. PutBD("User", b, new) /\ UNCHANGED <<bdc, cbd, cbdc, cw, dw, dm, born>>
    BY <1>4 DEF DeleteDevice, cacheVars, daemonVars
  <2> HIDE DEF new
  <2>3. CopiesCurrent'
    BY <1>0, <2>2, PutBDKeeps, OthersKept
  <2>4. bd' = [bd EXCEPT ![b] = StoredBD(new)] /\ bd'[b] = StoredBD(new)
    BY <1>0, <2>2 DEF PutBD, TypeOK, StoreTypeOK
  <2>5. DeviceStep(b)
    <3>1. CASE new.fin
      <4>1. bd'[b] = new /\ new # None
        BY <2>1, <2>4, <3>1, StoreAssumption DEF StoredBD
      <4> QED
        BY <2>0, <2>1, <4>1, Zenon DEF DeviceStep, Kept
    <3>2. CASE ~new.fin
      BY <1>0, <2>0, <2>1, <2>4, <3>2, Zenon DEF DeviceStep, Vanishes, StoredBD, DeviceProtected
    <3> QED
      BY <3>1, <3>2
  <2> QED
    BY <1>0, <2>2, <2>3, <2>4, <2>5, WriteStep, Zenon
<1> QED
  BY <1>1, <1>2, <1>3, <1>4 DEF UserNext

\* Jobs change no device; a restart discards the copies of the process.
LEMMA JobAndFailureSteps ==
    ASSUME OwnershipInv, JobNext \/ FailureNext
    PROVE  /\ Steps /\ UNCHANGED <<cbd, cbdc, born>>
           /\ cw' = cw \/ cw' = cwIdle
           /\ dw' = dw \/ dw' = dwIdle
<1>0. TypeOK /\ CopiesCurrent
  BY DEF OwnershipInv
<1>1. UNCHANGED <<bd, bdc, cbd, cbdc, born>> /\ seen' \subseteq seen
  BY DEF JobNext, FinishJob, RemoveDeletedJob, FailureNext, RestartOperator,
         RestartDaemon, cacheVars, Discard
<1>2. /\ cw' = cw \/ cw' = cwIdle
      /\ dw' = dw \/ dw' = dwIdle
      /\ dm' = dm \/ dm' = dmIdle
  BY DEF JobNext, FinishJob, RemoveDeletedJob, FailureNext, RestartOperator,
         RestartDaemon, daemonVars
<1>3. /\ cw'.pc = "idle" \/ (cw.pc # "idle" /\ cw' = cw)
      /\ dw'.pc = "idle" \/ (dw.pc # "idle" /\ dw' = dw)
      /\ dm'.pc # "write" \/ dm' = dm
  <2>1. cwIdle.pc = "idle" /\ dwIdle.pc = "idle" /\ dmIdle.pc # "write"
    BY Zenon DEF cwIdle, dwIdle, dmIdle
  <2> QED
    BY <1>2, <2>1, Zenon
<1>4. CopiesCurrent'
  BY <1>0, <1>1, <1>3, DiscardKeeps, CopiesKept
<1> QED
  BY <1>1, <1>2, <1>4, NoStep

-----------------------------------------------------------------------------
(* These steps keep the ownership invariant. *)

\* A claim that its users have let go does not come back: UIDs are used once.
LEMMA GoneStays ==
    ASSUME TypeOK, Steps, NEW c \in born, Gone(c)
    PROVE  bdc'[c] = None \/ bdc'[c].del
<1>1. c \in BDCs /\ ClaimStep(c)
  BY DEF TypeOK, Steps
<1>2. CASE BoundNow(c)
  <2>1. bdc[c] \in BlockDeviceClaim /\ bdc[c].del
    BY <1>1, <1>2 DEF BoundNow, Gone, TypeOK, StoreTypeOK
  <2> QED
    BY <1>2, <2>1 DEF BoundNow, Gone, BlockDeviceClaim
<1> QED
  BY <1>1, <1>2, Zenon DEF ClaimStep, Created, Edited, Gone

\* A device that a claim holds stays with it until the claim gives it back.
LEMMA HeldStays ==
    ASSUME TypeOK, Steps, NEW b \in BDs, NEW c \in BDCs,
           bd[b] # None, bd[b].claim = "Claimed", bd[b].ref = c,
           ~(cw.pc = "releaseBD" /\ cw.c = c)
    PROVE  bd'[b] # None /\ bd'[b].claim = "Claimed" /\ bd'[b].ref = c
BY Zenon DEF Steps, DeviceStep, Appears, Vanishes, Kept, Taken, GivenBack, Cleaned

\* Claims are born once.
LEMMA HistoryKept ==
    ASSUME OwnershipInv, Steps, CacheStep, born \subseteq born'
    PROVE  ClaimHistory'
<1>0. TypeOK /\ ClaimHistory
  BY DEF OwnershipInv
<1>1. ASSUME NEW c \in BDCs, bdc'[c] # None
      PROVE  c \in born'
  BY <1>0, <1>1, Zenon DEF Steps, ClaimStep, Created, Edited, BoundNow, ClaimHistory
<1>2. ASSUME Lag, NEW c \in BDCs, cbdc'[c] # None
      PROVE  c \in born' /\ (cbdc'[c].del => Gone(c)')
  <2>1. c \in born
    BY <1>0, <1>2, Zenon DEF CacheStep, ClaimHistory
  <2>2. cbdc'[c].del => Gone(c)
    BY <1>0, <1>2 DEF CacheStep, ClaimHistory, Gone
  <2> QED
    BY <1>0, <2>1, <2>2, GoneStays DEF Gone
<1> QED
  BY <1>1, <1>2 DEF ClaimHistory, Lag

\* The work in hand of a claim controller that the step leaves alone.
LEMMA ClaimWorkerKept ==
    ASSUME OwnershipInv, Steps, cw' = cw \/ cw' = cwIdle, born \subseteq born'
    PROVE  ClaimWorkerInv'
<1>0. TypeOK /\ ClaimWorkerInv
  BY DEF OwnershipInv
<1>1. CASE cw' = cwIdle
  BY <1>1, Zenon DEF cwIdle, ClaimWorkerInv
<1>2. CASE cw' = cw
  <2>1. ASSUME cw.pc \in {"release", "releaseBD", "unfinalize"}
        PROVE  bdc'[cw.c] = None \/ bdc'[cw.c].del
    <3>1. cw.c \in born /\ Gone(cw.c)
      BY <1>0, <2>1, SMTT(20) DEF ClaimWorkerInv
    <3> QED
      BY <1>0, <3>1, GoneStays
  <2>2. ASSUME cw.pc = "bind"
        PROVE  bd'[cw.b] # None /\ bd'[cw.b].claim = "Claimed" /\ bd'[cw.b].ref = cw.c
    <3>1. cw.b \in BDs /\ cw.c \in BDCs /\ cw.pc # "releaseBD"
      BY <1>0, <2>2 DEF TypeOK, ClaimWorkerTypeOK
    <3>2. bd[cw.b] # None /\ bd[cw.b].claim = "Claimed" /\ bd[cw.b].ref = cw.c
      BY <1>0, <2>2, Zenon DEF ClaimWorkerInv
    <3> QED
      BY <1>0, <3>1, <3>2, HeldStays
  <2> QED
    BY <1>0, <1>2, <2>1, <2>2, Zenon DEF ClaimWorkerInv, Gone
<1> QED
  BY <1>1, <1>2

\* The finalizer and the reference of a device follow its claim.
LEMMA DevicesKept ==
    ASSUME OwnershipInv, Steps
    PROVE  DeviceProtected' /\ ClaimRefMatchesState'
<1>0. TypeOK /\ DeviceProtected /\ ClaimRefMatchesState
  BY DEF OwnershipInv
<1>1. SUFFICES ASSUME NEW b \in BDs, bd'[b] # None
               PROVE  /\ bd'[b].del => "adminDelete" \in Env
                      /\ bd'[b].claim # "Unclaimed" /\ "adminDelete" \in Env => bd'[b].fin
                      /\ bd'[b].claim = "Claimed" <=> bd'[b].ref # None
  BY DEF DeviceProtected, ClaimRefMatchesState, Present
<1>2. bd[b] = None \/ bd[b] \in BlockDevice
  BY <1>0 DEF TypeOK, StoreTypeOK
<1>3. bd[b] # None => /\ bd[b].del => "adminDelete" \in Env
                      /\ bd[b].claim # "Unclaimed" /\ "adminDelete" \in Env => bd[b].fin
                      /\ bd[b].claim = "Claimed" <=> bd[b].ref # None
  BY <1>0 DEF DeviceProtected, ClaimRefMatchesState, Present
<1>4. CASE bd'[b] = bd[b] \/ Vanishes(b) \/ Kept(b)
  <2>1. CASE bd'[b] = bd[b]
    BY <1>1, <1>3, <2>1, Zenon
  <2>2. CASE Vanishes(b)
    BY <1>1, <2>2 DEF Vanishes
  <2>3. CASE Kept(b)
    BY <1>1, <1>3, <2>3, Zenon DEF Kept
  <2> QED
    BY <1>4, <2>1, <2>2, <2>3, Zenon
<1>5. CASE Appears(b)
  BY <1>5, SMTT(20) DEF Appears, NewDevice
<1>6. CASE Taken(b)
  <2>1. cw.c # None
    BY <1>0, <1>6 DEF Taken, TypeOK, ClaimWorkerTypeOK
  <2> QED
    BY <1>2, <1>3, <1>6, <2>1 DEF Taken, BlockDevice
<1>7. CASE GivenBack(b)
  BY <1>2, <1>3, <1>7 DEF GivenBack, BlockDevice
<1>8. CASE Cleaned(b)
  BY <1>1, <1>2, <1>3, <1>8, SMTT(20) DEF Cleaned, StoredBD, BlockDevice
<1> QED
  BY <1>4, <1>5, <1>6, <1>7, <1>8, Zenon DEF Steps, DeviceStep

\* A bound claim keeps its device, and binding takes place only while the
\* claim holds the device.
LEMMA BackedKept ==
    ASSUME OwnershipInv, Steps
    PROVE  BoundBacked'
<1>0. TypeOK /\ ClaimWorkerInv /\ BoundBacked
  BY DEF OwnershipInv
<1>1. SUFFICES ASSUME NEW c \in BDCs, bdc'[c] # None, bdc'[c].phase = "Bound", ~bdc'[c].del
               PROVE  /\ bdc'[c].name \in BDs /\ bd'[bdc'[c].name] # None
                      /\ bd'[bdc'[c].name].claim = "Claimed" /\ bd'[bdc'[c].name].ref = c
  BY Zenon DEF BoundBacked, Present
<1>2. CASE bdc'[c] = bdc[c] \/ Edited(c)
  <2>1. /\ bdc[c] # None /\ bdc[c].phase = "Bound" /\ ~bdc[c].del
        /\ bdc'[c].name = bdc[c].name
    BY <1>1, <1>2, Zenon DEF Edited
  <2>2. /\ bdc[c].name \in BDs /\ bd[bdc[c].name] # None
        /\ bd[bdc[c].name].claim = "Claimed" /\ bd[bdc[c].name].ref = c
    BY <1>0, <2>1, Zenon DEF BoundBacked, Present
  <2>3. ~(cw.pc = "releaseBD" /\ cw.c = c)
    BY <1>0, <2>1, Zenon DEF ClaimWorkerInv, Gone
  <2> QED
    BY <1>0, <2>1, <2>2, <2>3, HeldStays, Zenon
<1>3. CASE BoundNow(c)
  <2>1. cw.pc = "bind" /\ cw.c = c /\ cw.b \in BDs
    BY <1>0, <1>3 DEF BoundNow, TypeOK, ClaimWorkerTypeOK
  <2>2. bdc'[c].name = cw.b
    BY <1>0, <1>3 DEF BoundNow, TypeOK, StoreTypeOK, BlockDeviceClaim
  <2>3. bd[cw.b] # None /\ bd[cw.b].claim = "Claimed" /\ bd[cw.b].ref = c
    BY <1>0, <2>1, Zenon DEF ClaimWorkerInv
  <2> QED
    BY <1>0, <2>1, <2>2, <2>3, HeldStays, Zenon
<1>4. CASE Created(c)
  BY <1>1, <1>4, Zenon DEF Created
<1> QED
  BY <1>2, <1>3, <1>4, Zenon DEF Steps, ClaimStep

\* The ownership invariant is inductive.
LEMMA OwnershipNext ==
    ASSUME OwnershipInv, [Next]_vars
    PROVE  OwnershipInv'
<1>0. TypeOK'
  BY TypeNext DEF OwnershipInv
<1>1. /\ Steps /\ CacheStep /\ born \subseteq born'
      /\ ClaimWorkerInv' \/ cw' = cw \/ cw' = cwIdle
      /\ DeviceWorkerInv' \/ dw' = dw \/ dw' = dwIdle
  <2>1. CASE ClaimControllerNext
    BY <2>1, ClaimControllerSteps DEF CacheStep
  <2>2. CASE DeviceControllerNext
    BY <2>2, DeviceControllerSteps DEF CacheStep
  <2>3. CASE DaemonNext
    BY <2>3, DaemonSteps DEF CacheStep
  <2>4. CASE CacheNext
    BY <2>4, CacheSteps
  <2>5. CASE UserNext
    BY <2>5, UserSteps DEF CacheStep
  <2>6. CASE JobNext \/ FailureNext
    BY <2>6, JobAndFailureSteps DEF CacheStep
  <2>7. CASE UNCHANGED vars
    <3>1. UNCHANGED <<bd, bdc, cbd, cbdc, seen, cw, dw, dm, born>>
      BY <2>7 DEF vars, storeVars, daemonVars
    <3>2. CopiesCurrent'
      BY <3>1, DiscardKeeps, OthersKept DEF OwnershipInv
    <3> QED
      BY <3>1, <3>2, NoStep DEF CacheStep
  <2> QED
    BY <2>1, <2>2, <2>3, <2>4, <2>5, <2>6, <2>7, Zenon DEF Next
<1>2. ClaimHistory'
  BY <1>1, HistoryKept
<1>3. ClaimWorkerInv'
  BY <1>1, ClaimWorkerKept
<1>4. DeviceWorkerInv'
  BY <1>1 DEF DeviceWorkerInv, OwnershipInv, dwIdle, Cleaning
<1>5. DeviceProtected' /\ ClaimRefMatchesState' /\ BoundBacked'
  BY <1>1, DevicesKept, BackedKept
<1> QED
  BY <1>0, <1>1, <1>2, <1>3, <1>4, <1>5 DEF OwnershipInv, Steps

\* It holds initially, with the objects of an earlier release too.
LEMMA OwnershipInit ==
    ASSUME NoLegacyDeletes, Init
    PROVE  OwnershipInv
<1>0. TypeOK
  BY TypeInit
<1>1. cw.pc = "idle" /\ dw.pc = "idle" /\ dm.pc = "idle"
  BY Zenon DEF Init, cwIdle, dwIdle, dmIdle
<1>2. cbd = bd /\ cbdc = bdc /\ born = {c \in BDCs : bdc[c] # None}
  BY SMTT(20) DEF Init
<1>3. CopiesCurrent /\ ClaimHistory /\ ClaimWorkerInv /\ DeviceWorkerInv
  BY <1>1, <1>2, Zenon DEF CopiesCurrent, ClaimCopyCurrent, ClaimDeviceCopyCurrent,
        DeviceCopyCurrent, DaemonCopyCurrent, CacheCurrent, ClaimHistory, Gone,
        ClaimWorkerInv, DeviceWorkerInv, Cleaning
<1>4. CASE bd = [b \in BDs |-> None] /\ bdc = [c \in BDCs |-> None]
  <2>1. DeviceProtected /\ ClaimRefMatchesState /\ BoundBacked
    BY <1>4 DEF DeviceProtected, ClaimRefMatchesState, BoundBacked, Present
  <2> QED
    BY <1>0, <1>3, <2>1 DEF OwnershipInv
<1>5. ASSUME "legacy" \in Env, NEW b0 \in BDs, NEW c0 \in BDCs, NEW c1 \in BDCs,
             bd = [b \in BDs |-> IF b = b0 THEN LegacyDevice(c0) ELSE None],
             bdc = [c \in BDCs |-> IF c = c0 THEN LegacyBound(b0)
                                   ELSE IF c = c1 THEN LegacyInvalid ELSE None]
      PROVE  OwnershipInv
  <2>1. /\ LegacyDevice(c0).claim = "Claimed" /\ LegacyDevice(c0).ref = c0
        /\ ~LegacyDevice(c0).del
    BY DEF LegacyDevice, NewDevice
  <2>2. LegacyBound(b0).name = b0 /\ LegacyInvalid.phase = "InvalidCapacity"
    BY DEF LegacyBound, LegacyInvalid, NewClaim
  <2>3. LegacyDevice(c0) # None /\ c0 # None
    <3>1. LegacyDevice(c0) \in BlockDevice
      BY Zenon DEF LegacyDevice, NewDevice, BlockDevice, State, ClaimState
    <3> QED
      BY <3>1, StoreAssumption
  <2>4. DeviceProtected
    BY <1>5, <2>1 DEF DeviceProtected, NoLegacyDeletes
  <2>5. ClaimRefMatchesState
    BY <1>5, <2>1, <2>3 DEF ClaimRefMatchesState, Present
  <2>6. BoundBacked
    BY <1>5, <2>1, <2>2, <2>3, Zenon DEF BoundBacked, Present
  <2> QED
    BY <1>0, <1>3, <2>4, <2>5, <2>6 DEF OwnershipInv
<1> QED
  BY <1>4, <1>5 DEF Init

\* The inductive invariant holds throughout, for every number of devices, claims,
\* daemon calls, failed calls and restarts, with a cache that lags.  The one
\* condition is that objects of an earlier release, whose devices have no
\* finalizer, are not deleted by hand.
THEOREM OwnershipInvariant == NoLegacyDeletes => (Spec => []OwnershipInv)
<1>1. NoLegacyDeletes /\ Init => OwnershipInv
  BY OwnershipInit
<1>2. OwnershipInv /\ [Next]_vars => OwnershipInv'
  BY OwnershipNext
<1> QED
  BY <1>1, <1>2, PTL DEF Spec

\* A bound claim that nobody has deleted owns the device it names: claimBlockDevice
\* and updateClaimStatus are two writes, and neither the device controller, the
\* daemon nor another claim comes between them.
THEOREM Ownership == NoLegacyDeletes => (Spec => []BoundBacked)
<1>1. OwnershipInv => BoundBacked
  BY DEF OwnershipInv
<1> QED
  BY <1>1, OwnershipInvariant, PTL

\* A device is Claimed exactly when it has a claim reference, so that the reconciler
\* may dereference the reference of every Claimed device (isDeviceRequested-
\* ByThisDeviceClaim) whoever wrote the device last.
THEOREM ClaimReferences == NoLegacyDeletes => (Spec => []ClaimRefMatchesState)
<1>1. OwnershipInv => ClaimRefMatchesState
  BY DEF OwnershipInv
<1> QED
  BY <1>1, OwnershipInvariant, PTL
=============================================================================
