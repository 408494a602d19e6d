--------------------------- MODULE CleanupProofs ----------------------------
(***************************************************************************)
(* A device is clean before it is claimed again, and no cleanup runs on a  *)
(* device in use, for every number of devices and claims, when the cache   *)
(* is up to date and a deleted Job is gone (without either, TLC finds the  *)
(* counterexamples of the runs lingering_job and stale_cleanup).  It       *)
(* follows that NDM implements the lifecycle of devices.                   *)
(*                                                                         *)
(* The argument: a step moves at most one device, in one of the ways of    *)
(* DeviceMove, or the cleaner or a Job goes on (CleanerMove, JobEnds) while *)
(* all devices stay.  A Released device leaves that state only through the *)
(* worker of the device controller, which has by then seen the Job of this *)
(* release succeed and has deleted it.                                     *)
(***************************************************************************)
EXTENDS OwnershipProofs

\* the operator reads what is stored, and a Job that it deletes is gone
Prompt == {"cacheLag", "jobLingers"} \cap Env = {}

-----------------------------------------------------------------------------
(* What a step does to the devices, their data and their Jobs. *)

\* one device changes, and its data as its claim says
DeviceMove(b) ==
    /\ \A x \in BDs : x # b => bd'[x] = bd[x]
    /\ \/ (Appears(b) \/ Vanishes(b) \/ Kept(b) \/ GivenBack(b)) /\ UNCHANGED dirty
       \/ Taken(b) /\ dirty' = dirty \cup {b}
       \/ Cleaned(b) /\ UNCHANGED dirty /\ dw' = dwIdle

Move ==
    /\ UNCHANGED job /\ (dw' = dw \/ dw' = dwIdle)
    /\ UNCHANGED <<bd, dirty>> \/ \E b \in BDs : DeviceMove(b)

\* the device controller takes up a device, or goes on with its cleanup; it deletes
\* a Job that has succeeded before it frees the device
JobsKept(b) == \A x \in BDs : x # b => job'[x] = job[x]

CleanerMove ==
    /\ UNCHANGED <<bd, dirty>>
    /\ \/ UNCHANGED job /\ dw'.b \in BDs /\ dw'.pc = "inProgress" /\ Released(dw'.b)
       \/ UNCHANGED job /\ dw'.pc = "addFinalizer"
       \/ /\ dw.pc \in Cleaning /\ dw'.b = dw.b /\ UNCHANGED job
          /\ \/ dw'.pc \in {"cancel", "removeJob", "runJob"}
             \/ dw'.pc = "deleteJob" /\ job[dw.b] # None /\ job[dw.b].st = "succeeded"
       \/ /\ dw.pc \in {"cancel", "deleteJob"} /\ JobsKept(dw.b) /\ job'[dw.b] = None
          /\ dw' = dwIdle \/ (dw.pc = "deleteJob" /\ dw'.pc = "unclaim" /\ dw'.b = dw.b)
       \/ /\ dw.pc = "runJob" /\ JobsKept(dw.b) /\ dw' = dwIdle
          /\ job[dw.b] = None /\ job'[dw.b] = [st |-> "running", del |-> FALSE]

JobEnds(b) ==
    /\ UNCHANGED <<bd, dw>> /\ JobsKept(b)
    /\ job[b] # None /\ job[b].st = "running"
    /\ \/ job'[b] = [job[b] EXCEPT !.st = "succeeded"] /\ dirty' = dirty \ {b}
       \/ job'[b] = [job[b] EXCEPT !.st = "failed"] /\ UNCHANGED dirty

\* client.Update changes nothing, or stores the new object.
Stores(cl, b, new) ==
    \/ UNCHANGED <<bd, dirty>>
    \/ Fresh(cl, b) /\ bd' = [bd EXCEPT ![b] = StoredBD(new)] /\ Soil(b, new)
LEMMA UpdateStores ==
    ASSUME NEW cl, NEW b \in BDs, NEW new, NEW ok \in BOOLEAN, UpdateBD(cl, b, new, ok)
    PROVE  Stores(cl, b, new)
BY DEF UpdateBD, PutBD, Stores

\* A write that leaves the claim of a device alone moves the device without a change
\* of its data, and removes it only when nothing claims it.
LEMMA RewriteMoves ==
    ASSUME OwnershipInv, DataOnlyInUse, NEW b \in BDs, NEW new \in BlockDevice,
           bd[b] # None, bd' = [bd EXCEPT ![b] = StoredBD(new)], Soil(b, new),
           new.claim = bd[b].claim, new.ref = bd[b].ref, bd[b].fin => new.fin,
           new.del => bd[b].del \/ "adminDelete" \in Env
    PROVE  DeviceMove(b)
<1>0. TypeOK /\ DeviceProtected /\ bd \in [BDs -> BlockDevice \cup {None}]
  BY DEF OwnershipInv, TypeOK, StoreTypeOK
<1>1. UNCHANGED dirty
  BY DEF Soil, DataOnlyInUse
<1>2. /\ \A x \in BDs : x # b => bd'[x] = bd[x]
      /\ bd'[b] = StoredBD(new)
  BY <1>0
<1>3. CASE new.del /\ ~new.fin
  <2>1. bd[b].claim = "Unclaimed"
    BY <1>0, <1>3 DEF DeviceProtected
  <2>2. Vanishes(b)
    BY <1>2, <1>3, <2>1 DEF Vanishes, StoredBD
  <2> QED
    BY <1>1, <1>2, <2>2 DEF DeviceMove
<1>4. CASE ~(new.del /\ ~new.fin)
  <2>1. bd'[b] = new /\ new # None
    BY <1>2, <1>4, StoreAssumption DEF StoredBD
  <2>2. Kept(b)
    BY <2>1 DEF Kept
  <2> QED
    BY <1>1, <1>2, <2>2 DEF DeviceMove
<1> QED
  BY <1>3, <1>4

-----------------------------------------------------------------------------
(* The steps of the claim controller. *)

\* claimBlockDevice takes a device that nobody has.
LEMMA ClaimBlockDeviceMoves ==
    ASSUME OwnershipInv, ClaimBlockDevice, UNCHANGED dw
    PROVE  Move
<1> DEFINE new == [cw.obj EXCEPT !.fin = TRUE, !.ref = cw.c, !.claim = "Claimed"]
<1>0. /\ TypeOK /\ CopiesCurrent /\ ClaimWorkerInv /\ cw.pc = "claim"
      /\ bd \in [BDs -> BlockDevice \cup {None}] /\ UNCHANGED job
  BY DEF OwnershipInv, ClaimBlockDevice, TypeOK, StoreTypeOK
<1>1. cw.b \in BDs /\ cw.c \in BDCs /\ cw.obj \in BlockDevice /\ cw.obj # None
  BY <1>0 DEF TypeOK, ClaimWorkerTypeOK
<1>2. PICK ok \in BOOLEAN : UpdateBD(Me, cw.b, new, ok)
  BY DEF ClaimBlockDevice
<1>3. StoredBD(new) = new /\ new.claim = "Claimed"
  BY <1>1 DEF StoredBD, BlockDevice
<1>a. Stores(Me, cw.b, new)
  <2> HIDE DEF new
  <2> QED
    BY <1>1, <1>2, UpdateStores, Zenon
<1>4. \/ UNCHANGED <<bd, dirty>>
      \/ Fresh(Me, cw.b) /\ bd' = [bd EXCEPT ![cw.b] = StoredBD(new)] /\ Soil(cw.b, new)
  BY <1>a, Zenon DEF Stores
<1>5. CASE Fresh(Me, cw.b) /\ bd' = [bd EXCEPT ![cw.b] = StoredBD(new)] /\ Soil(cw.b, new)
  <2>1. bd[cw.b] = cw.obj /\ cw.obj.claim = "Unclaimed"
    BY <1>0, <1>5 DEF CopiesCurrent, ClaimDeviceCopyCurrent, ClaimWorkerInv
  <2>2. bd'[cw.b] = new /\ \A x \in BDs : x # cw.b => bd'[x] = bd[x]
    BY <1>0, <1>1, <1>3, <1>5
  <2>3. Taken(cw.b)
    BY <1>0, <1>1, <2>1, <2>2 DEF Taken
  <2>4. dirty' = dirty \cup {cw.b}
    BY <1>3, <1>5 DEF Soil
  <2> QED
    BY <1>0, <1>1, <2>2, <2>3, <2>4 DEF DeviceMove, Move
<1> QED
  BY <1>0, <1>4, <1>5 DEF Move

\* releaseClaimedBlockDevice leaves the data on the device.
LEMMA ReleaseBlockDeviceMoves ==
    ASSUME OwnershipInv, ReleaseBlockDevice, UNCHANGED dw
    PROVE  Move
<1> DEFINE new == [cw.obj EXCEPT !.ref = None, !.claim = "Released"]
<1>0. /\ TypeOK /\ CopiesCurrent /\ ClaimWorkerInv /\ DeviceProtected /\ cw.pc = "releaseBD"
      /\ bd \in [BDs -> BlockDevice \cup {None}] /\ UNCHANGED job
  BY DEF OwnershipInv, ReleaseBlockDevice, TypeOK, StoreTypeOK
<1>1. cw.b \in BDs /\ cw.c \in BDCs /\ cw.obj \in BlockDevice /\ cw.obj # None
  BY <1>0 DEF TypeOK, ClaimWorkerTypeOK
<1>2. PICK ok \in BOOLEAN : UpdateBD(Me, cw.b, new, ok)
  BY DEF ReleaseBlockDevice
<1>3. new.claim = "Released" /\ new.del = cw.obj.del /\ new.fin = cw.obj.fin
  BY <1>1 DEF BlockDevice
<1>a. Stores(Me, cw.b, new)
  <2> HIDE DEF new
  <2> QED
    BY <1>1, <1>2, UpdateStores, Zenon
<1>4. \/ UNCHANGED <<bd, dirty>>
      \/ Fresh(Me, cw.b) /\ bd' = [bd EXCEPT ![cw.b] = StoredBD(new)] /\ Soil(cw.b, new)
  BY <1>a, Zenon DEF Stores
<1>5. CASE Fresh(Me, cw.b) /\ bd' = [bd EXCEPT ![cw.b] = StoredBD(new)] /\ Soil(cw.b, new)
  <2>1. bd[cw.b] = cw.obj /\ cw.obj.claim = "Claimed" /\ cw.obj.ref = cw.c
    BY <1>0, <1>5 DEF CopiesCurrent, ClaimDeviceCopyCurrent, ClaimWorkerInv
  <2>2. cw.obj.del => cw.obj.fin
    BY <1>0, <1>1, <2>1 DEF DeviceProtected
  <2>3. bd'[cw.b] = new /\ \A x \in BDs : x # cw.b => bd'[x] = bd[x]
    BY <1>0, <1>1, <1>3, <1>5, <2>2 DEF StoredBD
  <2>4. GivenBack(cw.b)
    BY <1>0, <1>1, <2>1, <2>3 DEF GivenBack
  <2>5. UNCHANGED dirty
    BY <1>3, <1>5 DEF Soil
  <2> QED
    BY <1>0, <1>1, <2>3, <2>4, <2>5 DEF DeviceMove, Move
<1> QED
  BY <1>0, <1>4, <1>5 DEF Move

\* Together: the claim controller takes and gives back devices, one at a time.
LEMMA ClaimControllerMoves ==
    ASSUME OwnershipInv, ClaimControllerNext
    PROVE  Move
<1>1. UNCHANGED dw
  BY DEF ClaimControllerNext
<1>2. CASE ClaimBlockDevice
  BY <1>1, <1>2, ClaimBlockDeviceMoves
<1>3. CASE ReleaseBlockDevice
  BY <1>1, <1>3, ReleaseBlockDeviceMoves
<1>4. CASE \/ \E c \in BDCs : Reconcile(c)
           \/ SelectDevice \/ BindClaim \/ PendClaim \/ FindClaimed \/ RemoveFinalizer
  <2>1. UNCHANGED <<bd, dirty, job>>
    BY <1>4, Zenon DEF Reconcile, SelectDevice, BindClaim, PendClaim, FindClaimed, RemoveFinalizer
  <2> QED
    BY <1>1, <2>1 DEF Move
<1> QED
  BY <1>2, <1>3, <1>4 DEF ClaimControllerNext, ClaimWorkerStep

-----------------------------------------------------------------------------
(* The steps of the device controller. *)

\* Unclaim frees the device that it has seen cleaned.
LEMMA UnclaimMoves ==
    ASSUME OwnershipInv, Unclaim
    PROVE  Move
<1> DEFINE new == [dw.obj EXCEPT !.fin = FALSE, !.claim = "Unclaimed"]
<1>0. /\ TypeOK /\ CopiesCurrent /\ DeviceWorkerInv /\ dw.pc = "unclaim" /\ dw' = dwIdle
      /\ bd \in [BDs -> BlockDevice \cup {None}] /\ UNCHANGED job
  BY DEF OwnershipInv, Unclaim, TypeOK, StoreTypeOK
<1>1. dw.b \in BDs /\ dw.obj \in BlockDevice /\ dw.obj # None /\ dw.obj.claim = "Released"
  BY <1>0 DEF TypeOK, DeviceWorkerTypeOK, DeviceWorkerInv, Cleaning
<1>2. PICK ok \in BOOLEAN : UpdateBD(BDMe, dw.b, new, ok)
  BY DEF Unclaim
<1>3. new.claim = "Unclaimed"
  BY <1>1 DEF BlockDevice
<1>4. \/ UNCHANGED <<bd, dirty>>
      \/ Fresh(BDMe, dw.b) /\ bd' = [bd EXCEPT ![dw.b] = StoredBD(new)] /\ Soil(dw.b, new)
  <2> HIDE DEF new
  <2>1. Stores(BDMe, dw.b, new)
    BY <1>1, <1>2, UpdateStores, Zenon
  <2> QED
    BY <2>1, Zenon DEF Stores
<1>5. CASE Fresh(BDMe, dw.b) /\ bd' = [bd EXCEPT ![dw.b] = StoredBD(new)] /\ Soil(dw.b, new)
  <2>1. bd[dw.b] = dw.obj
    BY <1>0, <1>5 DEF CopiesCurrent, DeviceCopyCurrent
  <2>2. bd'[dw.b] = StoredBD(new) /\ \A x \in BDs : x # dw.b => bd'[x] = bd[x]
    BY <1>0, <1>1, <1>5
  <2>3. Cleaned(dw.b)
    BY <1>0, <1>1, <2>1, <2>2 DEF Cleaned
  <2>4. UNCHANGED dirty
    BY <1>3, <1>5 DEF Soil
  <2> QED
    BY <1>0, <1>1, <2>2, <2>3, <2>4 DEF DeviceMove, Move
<1> QED
  BY <1>0, <1>4, <1>5 DEF Move

\* AddFinalizer leaves the claim and the data alone.
LEMMA AddFinalizerMoves ==
    ASSUME OwnershipInv, DataOnlyInUse, AddFinalizer
    PROVE  Move
<1> DEFINE new == [dw.obj EXCEPT !.fin = TRUE]
<1>0. /\ TypeOK /\ CopiesCurrent /\ dw.pc = "addFinalizer" /\ dw' = dwIdle /\ UNCHANGED job
  BY DEF OwnershipInv, AddFinalizer
<1>1. dw.b \in BDs /\ dw.obj \in BlockDevice /\ dw.obj # None
  BY <1>0 DEF TypeOK, DeviceWorkerTypeOK
<1>2. PICK ok \in BOOLEAN : UpdateBD(BDMe, dw.b, new, ok)
  BY DEF AddFinalizer
<1>3. /\ new \in BlockDevice /\ new.fin
      /\ new.claim = dw.obj.claim /\ new.ref = dw.obj.ref /\ new.del = dw.obj.del
  BY <1>1, Zenon DEF BlockDevice
<1> HIDE DEF new
<1>a. Stores(BDMe, dw.b, new)
  BY <1>1, <1>2, UpdateStores, Zenon
<1>4. \/ UNCHANGED <<bd, dirty>>
      \/ Fresh(BDMe, dw.b) /\ bd' = [bd EXCEPT ![dw.b] = StoredBD(new)] /\ Soil(dw.b, new)
  BY <1>a, Zenon DEF Stores
<1>5. CASE Fresh(BDMe, dw.b) /\ bd' = [bd EXCEPT ![dw.b] = StoredBD(new)] /\ Soil(dw.b, new)
  <2>1. bd[dw.b] = dw.obj
    BY <1>0, <1>5 DEF CopiesCurrent, DeviceCopyCurrent
  <2>2. DeviceMove(dw.b)
    BY <1>1, <1>3, <1>5, <2>1, RewriteMoves, Zenon
  <2> QED
    BY <1>0, <1>1, <2>2 DEF Move
<1> QED
  BY <1>0, <1>4, <1>5 DEF Move

\* Where Goto leads.
LEMMA GotoMoves ==
    ASSUME TypeOK, NEW pc, Goto(pc)
    PROVE  IF pc = "idle" THEN dw' = dwIdle ELSE dw'.pc = pc /\ dw'.b = dw.b
BY DEF Goto, TypeOK, DeviceWorkerTypeOK

\* DeleteJob removes the Job in hand, or ends the reconcile.
LEMMA DeleteJobMoves ==
    ASSUME Prompt, TypeOK, dw.pc # "idle", UNCHANGED <<bd, dirty>>,
           NEW next \in {"idle", "unclaim"}, DeleteJob(next),
           \/ dw.pc = "cancel" /\ next = "idle"
           \/ dw.pc = "deleteJob" /\ next = "unclaim"
    PROVE  Move \/ CleanerMove
<1>0. dw.b \in BDs /\ job \in [BDs -> Job \cup {None}]
  BY DEF TypeOK, StoreTypeOK, DeviceWorkerTypeOK
<1>1. CASE UNCHANGED job /\ Goto("idle")
  BY <1>1, GotoMoves DEF Move
<1>2. CASE job' = [job EXCEPT ![dw.b] = Deleted(@)] /\ (Goto(next) \/ Goto("idle"))
  <2>1. job'[dw.b] = None /\ JobsKept(dw.b)
    BY <1>0, <1>2 DEF Deleted, Prompt, JobsKept
  <2>2. dw' = dwIdle \/ (dw.pc = "deleteJob" /\ dw'.pc = "unclaim" /\ dw'.b = dw.b)
    BY <1>2, GotoMoves
  <2> QED
    BY <2>1, <2>2 DEF CleanerMove
<1> QED
  BY <1>1, <1>2 DEF DeleteJob

\* Together: what the device controller does.
LEMMA DeviceControllerMoves ==
    ASSUME Prompt, OwnershipInv, DataOnlyInUse, DeviceControllerNext
    PROVE  Move \/ CleanerMove
<1>0. /\ TypeOK /\ ~Lag /\ job \in [BDs -> Job \cup {None}]
      /\ dw.pc # "idle" => dw.b \in BDs
  BY DEF OwnershipInv, Prompt, Lag, TypeOK, StoreTypeOK, DeviceWorkerTypeOK
<1>1. ASSUME NEW b \in BDs, ReconcileDevice(b)
      PROVE  CleanerMove
  <2>1. UNCHANGED <<bd, dirty, job>> /\ bd[b] # None /\ dw'.b = b
        /\ \/ dw'.pc = "inProgress" /\ bd[b].claim = "Released"
           \/ dw'.pc = "addFinalizer"
    BY <1>0, <1>1 DEF ReconcileDevice, ViewBD
  <2> QED
    BY <2>1 DEF CleanerMove, Released
<1>2. CASE InProgress
  <2>1. UNCHANGED <<bd, dirty, job>> /\ dw.pc \in Cleaning
    BY <1>2 DEF InProgress, Cleaning
  <2>2. PICK pc \in {"idle", "cancel", "removeJob"} : Goto(pc)
    BY <1>2 DEF InProgress
  <2> QED
    BY <1>0, <2>1, <2>2, GotoMoves DEF Move, CleanerMove
<1>3. CASE CancelJob
  <2>1. UNCHANGED <<bd, dirty>> /\ dw.pc = "cancel" /\ dw.pc # "idle"
        /\ DeleteJob("idle")
    BY <1>3 DEF CancelJob
  <2> QED
    BY <1>0, <2>1, DeleteJobMoves, Zenon
<1>4. CASE RemoveJob
  <2>1. UNCHANGED <<bd, dirty, job>> /\ dw.pc \in Cleaning
    BY <1>4 DEF RemoveJob, Cleaning
  <2>2. PICK pc \in {"idle", "runJob", "deleteJob"} :
            Goto(pc) /\ (pc = "deleteJob" => job[dw.b] # None /\ job[dw.b].st = "succeeded")
    BY <1>0, <1>4 DEF RemoveJob, ViewJob
  <2> QED
    BY <1>0, <2>1, <2>2, GotoMoves DEF Move, CleanerMove
<1>5. CASE DeleteSucceededJob
  <2>1. UNCHANGED <<bd, dirty>> /\ dw.pc = "deleteJob" /\ dw.pc # "idle"
        /\ DeleteJob("unclaim")
    BY <1>5 DEF DeleteSucceededJob
  <2> QED
    BY <1>0, <2>1, DeleteJobMoves, Zenon
<1>6. CASE RunJob
  <2>1. UNCHANGED <<bd, dirty>> /\ dw' = dwIdle /\ dw.pc = "runJob" /\ dw.b \in BDs
    BY <1>0, <1>6, GotoMoves DEF RunJob
  <2>2. CASE UNCHANGED job
    BY <2>1, <2>2 DEF Move
  <2>3. CASE /\ job[dw.b] = None
             /\ job' = [job EXCEPT ![dw.b] = [st |-> "running", del |-> FALSE]]
    <3>1. JobsKept(dw.b) /\ job'[dw.b] = [st |-> "running", del |-> FALSE]
      BY <1>0, <2>1, <2>3 DEF JobsKept
    <3> QED
      BY <2>1, <2>3, <3>1 DEF CleanerMove
  <2> QED
    BY <1>6, <2>2, <2>3 DEF RunJob
<1>7. CASE Unclaim
  BY <1>7, UnclaimMoves
<1>8. CASE AddFinalizer
  BY <1>8, AddFinalizerMoves
<1> QED
  BY <1>1, <1>2, <1>3, <1>4, <1>5, <1>6, <1>7, <1>8
     DEF DeviceControllerNext, DeviceWorkerStep

-----------------------------------------------------------------------------
(* The steps of the daemon, the users, the Jobs and the failures. *)

\* The daemon creates devices, and leaves the claims and the data of the others alone.
LEMMA DaemonMoves ==
    ASSUME OwnershipInv, DataOnlyInUse, DaemonNext
    PROVE  Move
<1>0. /\ TypeOK /\ CopiesCurrent /\ ClaimRefMatchesState
      /\ bd \in [BDs -> BlockDevice \cup {None}]
  BY DEF OwnershipInv, TypeOK, StoreTypeOK
<1>1. UNCHANGED dw
  BY DEF DaemonNext
<1>2. ASSUME NEW b \in BDs, CreateDevice(b)
      PROVE  Move
  <2>1. UNCHANGED job /\ bd[b] = None
    BY <1>2 DEF CreateDevice
  <2>2. CASE PutBD("Daemon", b, NewDevice)
    <3>1. bd' = [bd EXCEPT ![b] = NewDevice] /\ UNCHANGED dirty
      BY <2>2 DEF PutBD, StoredBD, Soil, NewDevice
    <3>2. Appears(b) /\ \A x \in BDs : x # b => bd'[x] = bd[x]
      BY <1>0, <2>1, <3>1 DEF Appears
    <3> QED
      BY <1>1, <2>1, <3>1, <3>2 DEF DeviceMove, Move
  <2> QED
    BY <1>1, <1>2, <2>1, <2>2 DEF CreateDevice, Move
<1>3. ASSUME WriteDevice
      PROVE  Move
  <2> DEFINE new == Written(dm.op, dm.obj)
  <2>1. /\ dm.pc = "write" /\ UNCHANGED job
        /\ dm.b \in BDs /\ dm.op \in Ops /\ dm.obj \in BlockDevice /\ dm.obj # None
    BY <1>0, <1>3 DEF WriteDevice, TypeOK, DaemonTypeOK
  <2>2. PICK ok \in BOOLEAN : UpdateBD("Daemon", dm.b, new, ok)
    BY <1>3 DEF WriteDevice
  <2>3. UpdateBD("Daemon", dm.b, new, ok)
    BY <2>2
  <2> HIDE DEF new
  <2>4. \/ UNCHANGED <<bd, dirty>>
        \/ Fresh("Daemon", dm.b) /\ bd' = [bd EXCEPT ![dm.b] = StoredBD(new)] /\ Soil(dm.b, new)
    <3> DEFINE me == "Daemon"
    <3>1. UpdateBD(me, dm.b, new, ok) /\ dm.b \in BDs /\ ok \in BOOLEAN
      BY <2>1, <2>3
    <3>2. Stores(me, dm.b, new)
      <4> HIDE DEF me
      <4> QED
        BY <3>1, UpdateStores, Zenon
    <3> QED
      BY <3>2, Zenon DEF Stores
  <2>5. CASE Fresh("Daemon", dm.b) /\ bd' = [bd EXCEPT ![dm.b] = StoredBD(new)]
             /\ Soil(dm.b, new)
    <3>1. bd[dm.b] = dm.obj
      BY <1>0, <2>1, <2>5 DEF CopiesCurrent, DaemonCopyCurrent
    <3>2. dm.obj.claim = "Claimed" <=> dm.obj.ref # None
      BY <1>0, <2>1, <3>1 DEF ClaimRefMatchesState, Present
    <3>3. /\ new \in BlockDevice
          /\ new.claim = dm.obj.claim /\ new.ref = dm.obj.ref
          /\ new.fin = dm.obj.fin /\ new.del = dm.obj.del
      BY <2>1, <3>2, WrittenKeepsClaim DEF new
    <3>4. DeviceMove(dm.b)
      BY <2>1, <2>5, <3>1, <3>3, RewriteMoves, Zenon
    <3> QED
      BY <1>1, <2>1, <3>4 DEF Move
  <2> QED
    BY <1>1, <2>1, <2>4, <2>5 DEF Move
<1>4. CASE \/ \E b \in BDs, op \in Ops : ReadDevice(b, op)
           \/ RereadDevice
  <2>1. UNCHANGED <<bd, dirty, job>>
    BY <1>4 DEF ReadDevice, RereadDevice
  <2> QED
    BY <1>1, <2>1 DEF Move
<1> QED
  BY <1>2, <1>3, <1>4 DEF DaemonNext, DaemonStep

\* A user deletes a device: it goes at once when nothing claims it.
LEMMA UserMoves ==
    ASSUME OwnershipInv, DataOnlyInUse, UserNext
    PROVE  Move
<1>1. ASSUME NEW b \in BDs, DeleteDevice(b)
      PROVE  Move
  <2> DEFINE new == [bd[b] EXCEPT !.del = TRUE]
  <2>1. /\ "adminDelete" \in Env /\ bd[b] # None /\ UNCHANGED <<job, dw>>
        /\ bd[b] \in BlockDevice
        /\ bd' = [bd EXCEPT ![b] = StoredBD(new)] /\ Soil(b, new)
    BY <1>1 DEF DeleteDevice, PutBD, OwnershipInv, TypeOK, StoreTypeOK
  <2>2. /\ new \in BlockDevice /\ new.claim = bd[b].claim /\ new.ref = bd[b].ref
        /\ new.fin = bd[b].fin
    BY <2>1, Zenon DEF BlockDevice
  <2> HIDE DEF new
  <2>3. DeviceMove(b)
    BY <2>1, <2>2, RewriteMoves, Zenon
  <2> QED
    BY <2>1, <2>3 DEF Move
<1>2. CASE \E c \in BDCs :
             \/ \E name \in BDs \cup {None}, cap \in BOOLEAN : CreateClaim(c, name, cap)
             \/ DeleteClaim(c) \/ EditOwnerFinalizer(c)
  <2>1. UNCHANGED <<bd, dirty, job, dw>>
    BY <1>2 DEF CreateClaim, DeleteClaim, EditOwnerFinalizer
  <2> QED
    BY <2>1 DEF Move
<1> QED
  BY <1>1, <1>2 DEF UserNext

\* A Job ends; none has to wait for the garbage collector.
LEMMA JobMoves ==
    ASSUME TypeOK, JobsOnReleased, JobNext
    PROVE  \E b \in BDs : JobEnds(b)
<1>0. job \in [BDs -> Job \cup {None}]
  BY DEF TypeOK, StoreTypeOK
<1>1. PICK b \in BDs : (\E st \in {"succeeded", "failed"} : FinishJob(b, st)) \/ RemoveDeletedJob(b)
  BY DEF JobNext
<1>2. PICK st \in {"succeeded", "failed"} : FinishJob(b, st)
  BY <1>1 DEF RemoveDeletedJob, JobsOnReleased
<1>3. /\ UNCHANGED <<bd, dw>> /\ job[b] # None /\ job[b].st = "running"
      /\ job' = [job EXCEPT ![b].st = st]
      /\ dirty' = IF st = "succeeded" THEN dirty \ {b} ELSE dirty
  BY <1>2 DEF FinishJob
<1>4. job'[b] = [job[b] EXCEPT !.st = st] /\ JobsKept(b)
  BY <1>0, <1>3 DEF JobsKept
<1>5. CASE st = "succeeded"
  BY <1>3, <1>4, <1>5 DEF JobEnds
<1>6. CASE st = "failed"
  BY <1>3, <1>4, <1>6 DEF JobEnds
<1> QED
  BY <1>5, <1>6

\* Every step moves a device, or the cleaner, or ends a Job.
LEMMA NextMoves ==
    ASSUME Prompt, CleanupInv, [Next]_vars
    PROVE  Move \/ CleanerMove \/ \E b \in BDs : JobEnds(b)
<1>0. OwnershipInv /\ DataOnlyInUse /\ JobsOnReleased /\ TypeOK
  BY DEF CleanupInv, OwnershipInv
<1>1. CASE CacheNext \/ FailureNext \/ UNCHANGED vars
  <2>1. UNCHANGED <<bd, dirty, job>> /\ (dw' = dw \/ dw' = dwIdle)
    BY <1>1, Zenon DEF CacheNext, SyncBD, SyncJob, SyncBDC, Lag, Prompt, FailureNext, RestartOperator,
                RestartDaemon, vars, storeVars
  <2> QED
    BY <2>1 DEF Move
<1> QED
  BY <1>0, <1>1, ClaimControllerMoves, DeviceControllerMoves, DaemonMoves, UserMoves,
     JobMoves DEF Next

-----------------------------------------------------------------------------
(* The steps keep the invariant. *)

\* A device moves under the cleaner's eyes only when the cleaner itself moves it.
LEMMA MoveKeeps ==
    ASSUME CleanupInv, Move
    PROVE  JobsOnReleased' /\ DataOnlyInUse' /\ CleanerInv'
<1>0. /\ JobsOnReleased /\ DataOnlyInUse /\ CleanerInv /\ job' = job
      /\ (dw' = dw \/ dw' = dwIdle) /\ TypeOK
  BY DEF CleanupInv, OwnershipInv, Move
<1>1. CASE UNCHANGED <<bd, dirty>>
  <2>1. JobsOnReleased' /\ DataOnlyInUse'
    BY <1>0, <1>1 DEF JobsOnReleased, DataOnlyInUse, Released
  <2>2. CleanerInv'
    BY <1>0, <1>1 DEF CleanerInv, Released, Cleaning, dwIdle
  <2> QED
    BY <2>1, <2>2
<1>2. ASSUME NEW b \in BDs, DeviceMove(b)
      PROVE  JobsOnReleased' /\ DataOnlyInUse' /\ CleanerInv'
  <2>0. \A x \in BDs : x # b => bd'[x] = bd[x] /\ (x \in dirty' <=> x \in dirty)
    BY <1>2 DEF DeviceMove
  <2>1. CASE Kept(b) /\ dirty' = dirty
    <3>1. JobsOnReleased' /\ DataOnlyInUse'
      BY <1>0, <2>0, <2>1 DEF JobsOnReleased, DataOnlyInUse, Released, Kept
    <3>2. \A x \in BDs : Released(x) => Released(x)'
      BY <2>0, <2>1 DEF Released, Kept
    <3>3. dw.pc \in Cleaning => dw.b \in BDs
      BY <1>0 DEF TypeOK, DeviceWorkerTypeOK, Cleaning
    <3>4. CleanerInv'
      BY <1>0, <2>1, <3>2, <3>3 DEF CleanerInv, Cleaning, dwIdle
    <3> QED
      BY <3>1, <3>4
  <2>2. CASE ~Released(b)
    <3>1. job[b] = None /\ (dw.pc \in Cleaning => dw.b # b /\ dw.b \in BDs)
      BY <1>0, <2>2 DEF JobsOnReleased, CleanerInv, TypeOK, DeviceWorkerTypeOK, Cleaning
    <3>2. JobsOnReleased'
      BY <1>0, <2>0, <3>1 DEF JobsOnReleased, Released
    <3>3. CleanerInv'
      <4>1. dw.pc \in Cleaning => bd'[dw.b] = bd[dw.b] /\ (dw.b \in dirty' <=> dw.b \in dirty)
        BY <2>0, <3>1
      <4> QED
        BY <1>0, <4>1 DEF CleanerInv, Released, Cleaning, dwIdle
    <3>4. DataOnlyInUse'
      <4>1. /\ bd'[b] = None \/ bd'[b].claim = "Unclaimed" => b \notin dirty'
            /\ bd'[b] # None /\ bd'[b].claim = "Claimed" => b \in dirty'
        <5>1. CASE Appears(b) /\ dirty' = dirty
          BY <1>0, <5>1 DEF Appears, DataOnlyInUse, NewDevice
        <5>2. CASE Vanishes(b) /\ dirty' = dirty
          BY <1>0, <5>2 DEF Vanishes, DataOnlyInUse
        <5>3. CASE GivenBack(b)
          <6>1. bd[b] \in BlockDevice /\ bd'[b] \in BlockDevice /\ bd'[b].claim = "Released"
            <7>1. bd[b] \in BlockDevice
              BY <1>0, <5>3 DEF GivenBack, TypeOK, StoreTypeOK
            <7> QED
              BY <5>3, <7>1, Zenon DEF GivenBack, BlockDevice, ClaimState
          <6> QED
            BY <6>1, StoreAssumption
        <5>4. CASE Taken(b) /\ dirty' = dirty \cup {b}
          <6>1. bd[b] \in BlockDevice /\ cw.c \in BDCs
            BY <1>0, <5>4 DEF Taken, TypeOK, StoreTypeOK, ClaimWorkerTypeOK
          <6>2. bd'[b] \in BlockDevice /\ bd'[b].claim = "Claimed"
            BY <5>4, <6>1, Zenon DEF Taken, BlockDevice, ClaimState
          <6> QED
            BY <5>4, <6>2, StoreAssumption
        <5>5. CASE Cleaned(b)
          BY <2>2, <5>5 DEF Cleaned, Released
        <5> QED
          BY <1>2, <2>1, <5>1, <5>2, <5>3, <5>4, <5>5, <1>0, Zenon DEF DeviceMove, Kept, DataOnlyInUse
      <4> QED
        BY <1>0, <2>0, <4>1 DEF DataOnlyInUse
    <3> QED
      BY <3>2, <3>3, <3>4
  <2>3. CASE Cleaned(b) /\ dirty' = dirty /\ dw' = dwIdle
    <3>1. job[b] = None /\ b \notin dirty
      BY <1>0, <2>3 DEF Cleaned, CleanerInv
    <3>2. bd'[b] = None \/ bd'[b].claim = "Unclaimed"
      <4>1. bd[b] \in BlockDevice
        BY <1>0, <2>3 DEF Cleaned, TypeOK, StoreTypeOK
      <4> QED
        BY <2>3, <4>1 DEF Cleaned, StoredBD, BlockDevice
    <3>3. JobsOnReleased' /\ DataOnlyInUse'
      BY <1>0, <2>0, <2>3, <3>1, <3>2 DEF JobsOnReleased, DataOnlyInUse, Released
    <3>4. CleanerInv'
      BY <2>3 DEF CleanerInv, Cleaning, dwIdle
    <3> QED
      BY <3>3, <3>4
  <2> QED
    BY <1>2, <2>1, <2>2, <2>3
       DEF DeviceMove, Appears, Vanishes, GivenBack, Taken, Released
<1> QED
  BY <1>1, <1>2 DEF Move

\* The cleaner creates a Job only on a Released device, and goes on to free the device
\* only with a Job that has succeeded.
LEMMA CleanerKeeps ==
    ASSUME CleanupInv, CleanerMove
    PROVE  JobsOnReleased' /\ DataOnlyInUse' /\ CleanerInv'
<1>0. /\ JobsOnReleased /\ DataOnlyInUse /\ CleanerInv /\ UNCHANGED <<bd, dirty>> /\ TypeOK
  BY DEF CleanupInv, OwnershipInv, CleanerMove
<1>1. DataOnlyInUse' /\ \A x : Released(x)' = Released(x)
  BY <1>0 DEF DataOnlyInUse, Released
<1>2. CASE /\ UNCHANGED job
           /\ \/ dw'.b \in BDs /\ dw'.pc = "inProgress" /\ Released(dw'.b)
              \/ dw'.pc = "addFinalizer"
              \/ /\ dw.pc \in Cleaning /\ dw'.b = dw.b
                 /\ \/ dw'.pc \in {"cancel", "removeJob", "runJob"}
                    \/ dw'.pc = "deleteJob" /\ job[dw.b] # None /\ job[dw.b].st = "succeeded"
  <2>1. JobsOnReleased'
    BY <1>0, <1>1, <1>2 DEF JobsOnReleased
  <2>2. CASE dw'.b \in BDs /\ dw'.pc = "inProgress" /\ Released(dw'.b)
    <3>1. CleanerInv'
      BY <1>1, <2>2, Zenon DEF CleanerInv, Cleaning, Released
    <3> QED
      BY <1>1, <2>1, <3>1
  <2>3. CASE dw'.pc = "addFinalizer"
    <3>1. CleanerInv'
      BY <2>3 DEF CleanerInv, Cleaning
    <3> QED
      BY <1>1, <2>1, <3>1
  <2>4. CASE /\ dw.pc \in Cleaning /\ dw'.b = dw.b
             /\ \/ dw'.pc \in {"cancel", "removeJob", "runJob"}
                \/ dw'.pc = "deleteJob" /\ job[dw.b] # None /\ job[dw.b].st = "succeeded"
    <3>1. Released(dw.b)'
      BY <1>0, <1>1, <2>4 DEF CleanerInv
    <3>2. CleanerInv'
      BY <1>2, <2>4, <3>1 DEF CleanerInv
    <3> QED
      BY <1>1, <2>1, <3>2
  <2> QED
    BY <1>2, <2>2, <2>3, <2>4
<1>3. CASE /\ dw.pc \in {"cancel", "deleteJob"} /\ JobsKept(dw.b) /\ job'[dw.b] = None
           /\ dw' = dwIdle \/ (dw.pc = "deleteJob" /\ dw'.pc = "unclaim" /\ dw'.b = dw.b)
  <2>0. dw.b \in BDs /\ Released(dw.b)
    BY <1>0, <1>3 DEF TypeOK, DeviceWorkerTypeOK, CleanerInv, Cleaning
  <2>1. JobsOnReleased'
    BY <1>0, <1>1, <1>3 DEF JobsOnReleased, JobsKept
  <2>2. CleanerInv'
    <3>1. CASE dw' = dwIdle
      BY <3>1 DEF CleanerInv, Cleaning, dwIdle
    <3>2. CASE dw.pc = "deleteJob" /\ dw'.pc = "unclaim" /\ dw'.b = dw.b
      BY <1>0, <1>1, <1>3, <2>0, <3>2 DEF CleanerInv, Cleaning, JobsOnReleased
    <3> QED
      BY <1>3, <3>1, <3>2
  <2> QED
    BY <1>1, <2>1, <2>2
<1>4. CASE /\ dw.pc = "runJob" /\ JobsKept(dw.b) /\ dw' = dwIdle
           /\ job[dw.b] = None /\ job'[dw.b] = [st |-> "running", del |-> FALSE]
  <2>0. dw.b \in BDs /\ Released(dw.b)
    BY <1>0, <1>4 DEF TypeOK, DeviceWorkerTypeOK, CleanerInv, Cleaning
  <2>1. JobsOnReleased'
    BY <1>0, <1>1, <1>4, <2>0 DEF JobsOnReleased, JobsKept
  <2>2. CleanerInv'
    BY <1>4 DEF CleanerInv, Cleaning, dwIdle
  <2> QED
    BY <1>1, <2>1, <2>2
<1> QED
  BY <1>2, <1>3, <1>4, Zenon DEF CleanerMove

\* A Job that ends is not one whose success the cleaner has already seen.
LEMMA JobKeeps ==
    ASSUME CleanupInv, NEW b \in BDs, JobEnds(b)
    PROVE  JobsOnReleased' /\ DataOnlyInUse' /\ CleanerInv'
<1>0. /\ JobsOnReleased /\ DataOnlyInUse /\ CleanerInv /\ UNCHANGED <<bd, dw>> /\ TypeOK
      /\ JobsKept(b) /\ job[b] \in Job /\ job[b].st = "running" /\ Released(b) /\ ~job[b].del
  BY DEF CleanupInv, OwnershipInv, JobEnds, TypeOK, StoreTypeOK, JobsOnReleased
<1>1. \A x : Released(x)' = Released(x)
  BY <1>0 DEF Released
<1>2. /\ job'[b] \in Job /\ job'[b] # None /\ ~job'[b].del
      /\ job'[b].st = "succeeded" => b \notin dirty'
      /\ dirty' \subseteq dirty /\ \A x \in BDs : x # b => (x \in dirty' <=> x \in dirty)
  <2>1. CASE job'[b] = [job[b] EXCEPT !.st = "succeeded"] /\ dirty' = dirty \ {b}
    BY <1>0, <2>1, StoreAssumption DEF Job, JobState
  <2>2. CASE job'[b] = [job[b] EXCEPT !.st = "failed"] /\ dirty' = dirty
    BY <1>0, <2>2, StoreAssumption DEF Job, JobState
  <2> QED
    BY <2>1, <2>2 DEF JobEnds
<1>3. JobsOnReleased'
  BY <1>0, <1>1, <1>2, Zenon DEF JobsOnReleased, JobsKept
<1>4. DataOnlyInUse'
  BY <1>0, <1>2 DEF DataOnlyInUse, Released
<1>5. CleanerInv'
  <2>1. dw.pc \in {"deleteJob", "unclaim"} => dw.b \in BDs /\ dw.b # b
    BY <1>0, StoreAssumption DEF CleanerInv, TypeOK, DeviceWorkerTypeOK, Job
  <2>2. dw.pc \in {"deleteJob", "unclaim"} => job'[dw.b] = job[dw.b]
    BY <1>0, <2>1 DEF JobsKept
  <2> QED
    BY <1>0, <1>1, <1>2, <2>2, Zenon DEF CleanerInv
<1> QED
  BY <1>3, <1>4, <1>5

\* At the start no Job exists, and the data on a device is that of the claim it came with.
LEMMA CleanupInit ==
    ASSUME NoLegacyDeletes, Init
    PROVE  CleanupInv
<1>1. OwnershipInv
  BY OwnershipInit
<1>2. JobsOnReleased /\ CleanerInv
  BY Zenon DEF Init, JobsOnReleased, CleanerInv, Cleaning, dwIdle
<1>3. \A b \in BDs : bd[b] = None \/ bd[b].claim = "Claimed"
  BY DEF Init, LegacyDevice, NewDevice
<1>4. dirty = {b \in BDs : bd[b] # None}
  BY DEF Init
<1>5. DataOnlyInUse
  <2>1. \A b \in BDs : bd[b] # None => bd[b].claim = "Claimed"
    BY <1>3
  <2> QED
    BY <1>4, <2>1 DEF DataOnlyInUse
<1> QED
  BY <1>1, <1>2, <1>5 DEF CleanupInv

\* How the cache and the garbage collector behave does not change.
LEMMA PromptAlways == Prompt => []Prompt
<1>1. Prompt => Prompt'
  BY DEF Prompt
<1> QED
  BY <1>1, PTL

\* The inductive invariant of the cleanup holds throughout, for every number of devices,
\* claims, failed calls, failed Jobs and restarts: a Job exists only on a Released
\* device, data is only where a claim has or had the device, and the cleaner frees a
\* device only after the success of its Job.
THEOREM CleanupInvariant == NoLegacyDeletes /\ Prompt => (Spec => []CleanupInv)
<1>1. NoLegacyDeletes /\ Init => CleanupInv
  BY CleanupInit
<1>2. Prompt /\ CleanupInv /\ [Next]_vars => CleanupInv'
  <2> SUFFICES ASSUME Prompt, CleanupInv, [Next]_vars
               PROVE  CleanupInv'
    OBVIOUS
  <2>1. OwnershipInv'
    BY OwnershipNext DEF CleanupInv
  <2>2. JobsOnReleased' /\ DataOnlyInUse' /\ CleanerInv'
    BY NextMoves, MoveKeeps, CleanerKeeps, JobKeeps
  <2> QED
    BY <2>1, <2>2 DEF CleanupInv
<1> QED
  BY <1>1, <1>2, PromptAlways, PTL DEF Spec

\* An Unclaimed device holds no data of an earlier claim, and no cleanup Job is running
\* on it: Reconcile reports Unclaimed only after Clean has seen the Job of this release
\* succeed.
THEOREM CleanBeforeReuse == NoLegacyDeletes /\ Prompt => (Spec => []UnclaimedIsClean)
<1>1. CleanupInv => UnclaimedIsClean
  BY DEF CleanupInv, JobsOnReleased, DataOnlyInUse, UnclaimedIsClean, Present, JobRunning,
         Released
<1> QED
  BY <1>1, CleanupInvariant, PTL

\* No cleanup Job runs on a device that a claim has, although the cleaner creates and
\* deletes Jobs by the name of the device alone.
THEOREM CleanupOffClaimed == NoLegacyDeletes /\ Prompt => (Spec => []NoCleanupInUse)
<1>1. CleanupInv => NoCleanupInUse
  BY DEF CleanupInv, JobsOnReleased, NoCleanupInUse, Present, JobRunning, Released
<1> QED
  BY <1>1, CleanupInvariant, PTL

\* What a step does to the devices, whoever takes it: nothing, a move of one of them, or
\* a Job that ends.
LEMMA NextMovesDevices ==
    ASSUME Prompt, CleanupInv, [Next]_vars
    PROVE  \/ UNCHANGED <<bd, dirty>>
           \/ \E b \in BDs : DeviceMove(b)
           \/ \E b \in BDs : UNCHANGED bd /\ Released(b) /\ (dirty' = dirty \ {b} \/ dirty' = dirty)
<1>1. CASE Move \/ CleanerMove
  BY <1>1, Zenon DEF Move, CleanerMove
<1>2. ASSUME NEW b \in BDs, JobEnds(b)
      PROVE  UNCHANGED bd /\ Released(b) /\ (dirty' = dirty \ {b} \/ dirty' = dirty)
  BY <1>2 DEF JobEnds, CleanupInv, JobsOnReleased
<1> QED
  BY <1>1, <1>2, NextMoves

\* The finalizer keeps a device that is in use or not yet clean: the resource of a
\* Claimed device stays, and that of a Released one goes only when its cleanup is done,
\* whatever is deleted by hand.
THEOREM FinalizerProtects == NoLegacyDeletes /\ Prompt => (Spec => ProtectedFromDeletion)
<1>1. Prompt /\ CleanupInv /\ [Next]_vars =>
        [\A b \in BDs : Present(b) /\ bd[b].claim # "Unclaimed" /\ bd'[b] = None =>
                            bd[b].claim = "Released" /\ b \notin dirty]_vars
  <2> SUFFICES ASSUME Prompt, CleanupInv, [Next]_vars, NEW b \in BDs,
                      Present(b), bd[b].claim # "Unclaimed", bd'[b] = None
               PROVE  bd[b].claim = "Released" /\ b \notin dirty
    OBVIOUS
  <2>0. bd[b] # None /\ bd[b] \in BlockDevice /\ CleanerInv /\ cw.c \in BDCs \cup {None}
    BY SMTT(20) DEF Present, CleanupInv, OwnershipInv, TypeOK, StoreTypeOK, ClaimWorkerTypeOK
  <2>1. DeviceMove(b)
    BY <2>0, NextMovesDevices, Zenon DEF DeviceMove
  <2>2. CASE GivenBack(b)
    <3>1. bd'[b] \in BlockDevice
      BY <2>0, <2>2, Zenon DEF GivenBack, BlockDevice, ClaimState
    <3> QED
      BY <3>1, StoreAssumption, Zenon
  <2>3. CASE Cleaned(b)
    BY <2>0, <2>3 DEF Cleaned, CleanerInv
  <2> QED
    BY <2>0, <2>1, <2>2, <2>3 DEF DeviceMove, Appears, Vanishes, Kept, Taken
<1> QED
  BY <1>1, PromptAlways, CleanupInvariant, PTL DEF Spec, ProtectedFromDeletion

-----------------------------------------------------------------------------
(* The design implements the lifecycle. *)

\* The state and the holder of the lifecycle change where a device does.
LEMMA LifecycleAt ==
    ASSUME NEW b \in BDs, \A x \in BDs : x # b => bd'[x] = bd[x]
    PROVE  /\ \A s : (IF bd'[b] = None THEN "Absent" ELSE bd'[b].claim) = s =>
                        LifecycleState' = [LifecycleState EXCEPT ![b] = s]
           /\ \A h : (IF bd'[b] = None THEN None ELSE bd'[b].ref) = h =>
                        LifecycleHolder' = [LifecycleHolder EXCEPT ![b] = h]
BY Zenon DEF LifecycleState, LifecycleHolder

\* A move of a device is a step of its lifecycle.
LEMMA MoveRefines ==
    ASSUME CleanupInv, NEW b \in BDs, DeviceMove(b)
    PROVE  [Lifecycle!LifecycleNext]_(Lifecycle!lifecycleVars)
<1>0. /\ TypeOK /\ ClaimRefMatchesState /\ DataOnlyInUse /\ CleanerInv
      /\ bd \in [BDs -> BlockDevice \cup {None}]
      /\ \A x \in BDs : x # b => bd'[x] = bd[x]
  BY DEF CleanupInv, OwnershipInv, TypeOK, StoreTypeOK, DeviceMove
<1>s. /\ LifecycleState[b] = IF bd[b] = None THEN "Absent" ELSE bd[b].claim
      /\ LifecycleHolder[b] = IF bd[b] = None THEN None ELSE bd[b].ref
      /\ LifecycleState = [LifecycleState EXCEPT ![b] = LifecycleState[b]]
      /\ LifecycleHolder = [LifecycleHolder EXCEPT ![b] = LifecycleHolder[b]]
  BY Zenon DEF LifecycleState, LifecycleHolder
<1>u. /\ bd[b] # None /\ bd[b].claim # "Claimed" => bd[b].ref = None
      /\ bd[b] = None \/ bd[b].claim = "Unclaimed" => b \notin dirty
  BY <1>0 DEF ClaimRefMatchesState, Present, DataOnlyInUse
<1>1. CASE Appears(b) /\ dirty' = dirty
  <2>1. /\ bd[b] = None /\ bd'[b] = NewDevice /\ NewDevice # None
        /\ NewDevice.claim = "Unclaimed" /\ NewDevice.ref = None
    <3>1. NewDevice \in BlockDevice
      BY DEF NewDevice, BlockDevice, State, ClaimState
    <3> QED
      BY <1>1, <3>1, StoreAssumption, Zenon DEF Appears, NewDevice
  <2>2. /\ LifecycleState' = [LifecycleState EXCEPT ![b] = "Unclaimed"]
        /\ LifecycleHolder' = [LifecycleHolder EXCEPT ![b] = None]
    BY <1>0, <2>1, LifecycleAt
  <2>3. Lifecycle!Discover(b)
    BY <1>1, <1>s, <1>u, <2>1, <2>2 DEF Lifecycle!Discover
  <2> QED
    BY <2>3 DEF Lifecycle!LifecycleNext
<1>2. CASE Vanishes(b) /\ dirty' = dirty
  <2>1. bd[b] # None /\ bd[b].claim = "Unclaimed" /\ bd'[b] = None /\ bd[b].ref = None
    BY <1>2, <1>u DEF Vanishes
  <2>2. /\ LifecycleState' = [LifecycleState EXCEPT ![b] = "Absent"]
        /\ LifecycleHolder' = [LifecycleHolder EXCEPT ![b] = None]
    BY <1>0, <2>1, LifecycleAt, Zenon
  <2>3. Lifecycle!Remove(b)
    BY <1>2, <1>s, <2>1, <2>2 DEF Lifecycle!Remove
  <2> QED
    BY <2>3 DEF Lifecycle!LifecycleNext
<1>3. CASE Kept(b) /\ dirty' = dirty
  <2>1. /\ LifecycleState' = [LifecycleState EXCEPT ![b] = bd[b].claim]
        /\ LifecycleHolder' = [LifecycleHolder EXCEPT ![b] = bd[b].ref]
        /\ bd[b] # None
    BY <1>0, <1>3, LifecycleAt, Zenon DEF Kept
  <2> QED
    BY <1>3, <1>s, <2>1 DEF Lifecycle!lifecycleVars
<1>4. CASE Taken(b) /\ dirty' = dirty \cup {b}
  <2>0. bd[b] # None /\ bd[b] \in BlockDevice /\ cw.c \in BDCs
    BY <1>0, <1>4 DEF Taken, TypeOK, ClaimWorkerTypeOK
  <2>1. /\ bd[b].claim = "Unclaimed" /\ bd'[b] \in BlockDevice
        /\ bd'[b].claim = "Claimed" /\ bd'[b].ref = cw.c
    BY <1>4, <2>0, Zenon DEF Taken, BlockDevice, ClaimState
  <2>2. bd'[b] # None
    BY <2>1, StoreAssumption
  <2>3. /\ LifecycleState' = [LifecycleState EXCEPT ![b] = "Claimed"]
        /\ LifecycleHolder' = [LifecycleHolder EXCEPT ![b] = cw.c]
    BY <1>0, <2>1, <2>2, LifecycleAt
  <2>4. Lifecycle!Claim(b, cw.c)
    BY <1>4, <1>s, <1>u, <2>0, <2>1, <2>3 DEF Lifecycle!Claim
  <2> QED
    BY <2>0, <2>4 DEF Lifecycle!LifecycleNext
<1>5. CASE GivenBack(b) /\ dirty' = dirty
  <2>0. bd[b] # None /\ bd[b] \in BlockDevice
    BY <1>0, <1>5 DEF GivenBack
  <2>1. /\ bd[b].claim = "Claimed" /\ bd'[b] \in BlockDevice
        /\ bd'[b].claim = "Released" /\ bd'[b].ref = None
    BY <1>5, <2>0, Zenon DEF GivenBack, BlockDevice, ClaimState
  <2>2. bd'[b] # None
    BY <2>1, StoreAssumption
  <2>3. /\ LifecycleState' = [LifecycleState EXCEPT ![b] = "Released"]
        /\ LifecycleHolder' = [LifecycleHolder EXCEPT ![b] = None]
    BY <1>0, <2>1, <2>2, LifecycleAt
  <2>4. Lifecycle!Release(b)
    BY <1>5, <1>s, <2>0, <2>1, <2>3 DEF Lifecycle!Release
  <2> QED
    BY <2>4 DEF Lifecycle!LifecycleNext
<1>6. CASE Cleaned(b) /\ dirty' = dirty
  <2> DEFINE new == [bd[b] EXCEPT !.fin = FALSE, !.claim = "Unclaimed"]
  <2>0. /\ bd[b] # None /\ bd[b] \in BlockDevice /\ bd[b].claim = "Released"
        /\ b \notin dirty /\ bd[b].ref = None
    BY <1>0, <1>6, <1>u DEF Cleaned, CleanerInv
  <2>1. /\ new \in BlockDevice /\ new.claim = "Unclaimed" /\ new.ref = None
        /\ bd'[b] = StoredBD(new)
    BY <1>6, <2>0, Zenon DEF Cleaned, BlockDevice, ClaimState
  <2> HIDE DEF new
  <2>2. PICK s \in {"Unclaimed", "Absent"} :
           (IF bd'[b] = None THEN "Absent" ELSE bd'[b].claim) = s
    BY <2>1 DEF StoredBD
  <2>3. (IF bd'[b] = None THEN None ELSE bd'[b].ref) = None
    BY <2>1 DEF StoredBD
  <2>4. /\ LifecycleState' = [LifecycleState EXCEPT ![b] = s]
        /\ LifecycleHolder' = [LifecycleHolder EXCEPT ![b] = None]
    BY <1>0, <2>2, <2>3, LifecycleAt
  <2>5. Lifecycle!Free(b)
    BY <1>6, <1>s, <2>0, <2>2, <2>4, Zenon DEF Lifecycle!Free
  <2> QED
    BY <2>5 DEF Lifecycle!LifecycleNext
<1> QED
  BY <1>1, <1>2, <1>3, <1>4, <1>5, <1>6, Zenon DEF DeviceMove

\* Every step is a step of the lifecycle or leaves it where it is.
LEMMA NextRefines ==
    ASSUME Prompt, CleanupInv, [Next]_vars
    PROVE  [Lifecycle!LifecycleNext]_(Lifecycle!lifecycleVars)
<1>1. CASE UNCHANGED <<bd, dirty>>
  BY <1>1 DEF LifecycleState, LifecycleHolder, Lifecycle!lifecycleVars
<1>2. ASSUME NEW b \in BDs, UNCHANGED bd, Released(b), dirty' = dirty \ {b}
      PROVE  [Lifecycle!LifecycleNext]_(Lifecycle!lifecycleVars)
  <2>1. Lifecycle!Wipe(b)
    BY <1>2 DEF Lifecycle!Wipe, LifecycleState, LifecycleHolder, Released
  <2> QED
    BY <2>1 DEF Lifecycle!LifecycleNext
<1> QED
  BY <1>1, <1>2, NextMovesDevices, MoveRefines

\* The devices that are there at the start are claimed: the operator was upgraded.
LEMMA StartsHeld ==
    ASSUME Init
    PROVE  \A b \in BDs : bd[b] = None \/ (bd[b].claim = "Claimed" /\ bd[b].ref \in BDCs)
<1>1. \A c : LegacyDevice(c).claim = "Claimed" /\ LegacyDevice(c).ref = c
  BY DEF LegacyDevice, NewDevice
<1>2. \/ bd = [b \in BDs |-> None]
      \/ \E b0 \in BDs, c0 \in BDCs :
           bd = [b \in BDs |-> IF b = b0 THEN LegacyDevice(c0) ELSE None]
  BY Zenon DEF Init
<1>3. \A b \in BDs : bd[b] = None \/ \E c \in BDCs : bd[b] = LegacyDevice(c)
  BY <1>2, Zenon
<1>4. ASSUME NEW b \in BDs, bd[b] # None
      PROVE  bd[b].claim = "Claimed" /\ bd[b].ref \in BDCs
  <2>1. PICK c \in BDCs : bd[b] = LegacyDevice(c)
    BY <1>3, <1>4, Zenon
  <2>2. LegacyDevice(c).claim = "Claimed" /\ LegacyDevice(c).ref = c
    BY <1>1, Zenon
  <2> QED
    BY <2>1, <2>2, Zenon
<1> QED
  BY <1>4, Zenon

\* The operator, the daemons, the Jobs and the administrator together implement the
\* lifecycle of devices, whatever fails and whoever restarts: a device goes from one
\* claim to the next only by way of Released and of a wipe.
THEOREM LifecycleImplemented == NoLegacyDeletes /\ Prompt => (Spec => ImplementsLifecycle)
<1>1. Init => Lifecycle!LifecycleInit
  <2> SUFFICES ASSUME Init PROVE Lifecycle!LifecycleInit
    OBVIOUS
  <2>1. \A b \in BDs : bd[b] = None \/ (bd[b].claim = "Claimed" /\ bd[b].ref \in BDCs)
    BY StartsHeld
  <2>2. dirty = {b \in BDs : bd[b] # None}
    BY DEF Init
  <2>3. None \notin BDCs
    BY StoreAssumption
  <2> QED
    BY <2>1, <2>2, <2>3 DEF Lifecycle!LifecycleInit, LifecycleState, LifecycleHolder
<1>2. Prompt /\ CleanupInv /\ [Next]_vars => [Lifecycle!LifecycleNext]_(Lifecycle!lifecycleVars)
  BY NextRefines
<1> QED
  BY <1>1, <1>2, PromptAlways, CleanupInvariant, PTL
     DEF Spec, ImplementsLifecycle, Lifecycle!LifecycleSpec
=============================================================================
