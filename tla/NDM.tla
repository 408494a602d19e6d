-------------------------------- MODULE NDM ---------------------------------
(***************************************************************************)
(* The NDM operator's two controllers, a daemon, the users of claims, the  *)
(* cleanup Jobs, and the failures of calls and processes, together.        *)
(***************************************************************************)
EXTENDS ClaimController, DeviceController, DeviceDaemon

VARIABLE born   \* claims created so far

vars == <<storeVars, cw, dw, daemonVars, born>>

TypeOK ==
    /\ StoreTypeOK /\ ClaimWorkerTypeOK /\ DeviceWorkerTypeOK /\ DaemonTypeOK
    /\ born \subseteq BDCs

NewClaim(name, cap) ==
    [phase |-> "Empty", name |-> name, cap |-> cap,
     fin |-> FALSE, own |-> FALSE, del |-> FALSE]

\* Objects left by an earlier release: a bound claim whose device has no
\* finalizer, and a claim in the phase Invalid Capacity
LegacyBound(b) == [NewClaim(b, TRUE) EXCEPT !.phase = "Bound", !.fin = TRUE]
LegacyInvalid == [NewClaim(None, FALSE) EXCEPT !.phase = "InvalidCapacity"]
LegacyDevice(c) == [NewDevice EXCEPT !.claim = "Claimed", !.ref = c]

Init ==
    /\ \/ /\ bd = [b \in BDs |-> None]
          /\ bdc = [c \in BDCs |-> None]
       \/ /\ "legacy" \in Env
          /\ \E b0 \in BDs, c0 \in BDCs, c1 \in BDCs :
                /\ c0 # c1
                /\ bd = [b \in BDs |-> IF b = b0 THEN LegacyDevice(c0) ELSE None]
                /\ bdc = [c \in BDCs |->
                            IF c = c0 THEN LegacyBound(b0)
                            ELSE IF c = c1 THEN LegacyInvalid ELSE None]
    /\ job = [b \in BDs |-> None]
    /\ cbd = bd /\ cbdc = bdc /\ cjob = job
    /\ seen = {"Cache"} \X (BDs \cup BDCs)
    /\ faults = 0
    /\ cw = cwIdle /\ dw = dwIdle /\ dm = dmIdle
    /\ events = 0
    /\ born = {c \in BDCs : bdc[c] # None}
    /\ dirty = {b \in BDs : bd[b] # None}

-----------------------------------------------------------------------------
(* The users of claims, the administrator, and the Jobs. *)

CreateClaim(c, name, cap) ==
    /\ c \notin born /\ (name # None => cap)
    /\ born' = born \cup {c}
    /\ PutBDC("User", c, NewClaim(name, cap))
    /\ UNCHANGED <<bd, job, cacheVars, faults, dirty, cw, dw, daemonVars>>

DeleteClaim(c) ==
    /\ bdc[c] # None /\ ~bdc[c].del
    /\ PutBDC("User", c, [bdc[c] EXCEPT !.del = TRUE])
    /\ UNCHANGED <<bd, job, cacheVars, faults, dirty, cw, dw, daemonVars, born>>

\* the owner protects the claim with a finalizer of its own, or lets it go;
\* no finalizer can be added to an object that is being deleted
EditOwnerFinalizer(c) ==
    /\ "ownerEdits" \in Env
    /\ bdc[c] # None /\ (bdc[c].own \/ ~bdc[c].del)
    /\ PutBDC("User", c, [bdc[c] EXCEPT !.own = ~@])
    /\ UNCHANGED <<bd, job, cacheVars, faults, dirty, cw, dw, daemonVars, born>>

DeleteDevice(b) ==
    /\ "adminDelete" \in Env
    /\ bd[b] # None /\ ~bd[b].del
    /\ PutBD("User", b, [bd[b] EXCEPT !.del = TRUE])
    /\ UNCHANGED <<bdc, job, cacheVars, faults, cw, dw, daemonVars, born>>

FinishJob(b, st) ==
    /\ job[b] # None /\ job[b].st = "running"
    /\ st = "failed" => "jobFails" \in Env
    /\ job' = [job EXCEPT ![b].st = st]
    /\ dirty' = IF st = "succeeded" THEN dirty \ {b} ELSE dirty
    /\ UNCHANGED <<bd, bdc, cacheVars, seen, faults, cw, dw, daemonVars, born>>

\* the garbage collector has removed the pods of a deleted Job
RemoveDeletedJob(b) ==
    /\ job[b] # None /\ job[b].del
    /\ job' = [job EXCEPT ![b] = None]
    /\ UNCHANGED <<bd, bdc, cacheVars, seen, faults, dirty, cw, dw, daemonVars, born>>

-----------------------------------------------------------------------------
(* Failures. *)

RestartOperator ==
    /\ Fault
    /\ cw # cwIdle \/ dw # dwIdle
    /\ cw' = cwIdle /\ dw' = dwIdle
    /\ seen' = Discard("BDCReconciler") \cap Discard("BDReconciler")
    /\ UNCHANGED <<bd, bdc, job, cacheVars, dirty, daemonVars, born>>

RestartDaemon ==
    /\ Fault
    /\ dm # dmIdle
    /\ dm' = dmIdle
    /\ seen' = Discard("Daemon")
    /\ UNCHANGED <<bd, bdc, job, cacheVars, dirty, cw, dw, events, born>>

-----------------------------------------------------------------------------

ClaimControllerNext ==
    /\ (\E c \in BDCs : Reconcile(c)) \/ ClaimWorkerStep
    /\ UNCHANGED <<dw, daemonVars, born>>

DeviceControllerNext ==
    /\ (\E b \in BDs : ReconcileDevice(b)) \/ DeviceWorkerStep
    /\ UNCHANGED <<cw, daemonVars, born>>

DaemonNext ==
    /\ \/ \E b \in BDs : CreateDevice(b)
       \/ \E b \in BDs, op \in Ops :
             /\ op \in {"deactivate", "unknown"} => "deviceEvents" \in Env
             /\ ReadDevice(b, op)
       \/ DaemonStep
    /\ UNCHANGED <<cw, dw, born>>

CacheNext ==
    /\ \/ \E b \in BDs : SyncBD(b) \/ SyncJob(b)
       \/ \E c \in BDCs : SyncBDC(c)
    /\ UNCHANGED <<cw, dw, daemonVars, born>>

UserNext ==
    \/ \E c \in BDCs :
          \/ \E name \in BDs \cup {None}, cap \in BOOLEAN : CreateClaim(c, name, cap)
          \/ DeleteClaim(c)
          \/ EditOwnerFinalizer(c)
    \/ \E b \in BDs : DeleteDevice(b)

JobNext ==
    \E b \in BDs :
       (\E st \in {"succeeded", "failed"} : FinishJob(b, st)) \/ RemoveDeletedJob(b)

FailureNext == RestartOperator \/ RestartDaemon

Next ==
    \/ ClaimControllerNext \/ DeviceControllerNext \/ DaemonNext \/ CacheNext
    \/ UserNext \/ JobNext \/ FailureNext

Spec == Init /\ [][Next]_vars

-----------------------------------------------------------------------------
(* Safety. *)

Present(b) == bd[b] # None
Unbound(c) == bdc[c] # None /\ ~bdc[c].del /\ bdc[c].phase \in {"Empty", "Pending"}
JobRunning(b) == job[b] # None /\ job[b].st = "running"

\* A device is Claimed exactly when it has a claim reference: the reconciler
\* dereferences the reference of every Claimed device (isDeviceRequested-
\* ByThisDeviceClaim) whoever wrote the device last, daemon merges included.
ClaimRefMatchesState ==
    \A b \in BDs : Present(b) => (bd[b].claim = "Claimed" <=> bd[b].ref # None)

\* A bound claim that nobody has deleted owns its device: the device it names
\* exists, is Claimed and refers to this claim, so that no other bound claim
\* has it.  The two writes of claimDeviceForBlockDeviceClaim and the daemon's
\* and the device controller's writes in between must not break this.
BoundBacked ==
    \A c \in BDCs :
        bdc[c] # None /\ bdc[c].phase = "Bound" /\ ~bdc[c].del =>
            /\ bdc[c].name \in BDs
            /\ Present(bdc[c].name)
            /\ bd[bdc[c].name].claim = "Claimed"
            /\ bd[bdc[c].name].ref = c

\* An Unclaimed device holds no data of an earlier claim and no cleanup Job is
\* running on it: Reconcile may report Unclaimed only after Clean has seen
\* the Job of this release succeed.
UnclaimedIsClean ==
    \A b \in BDs : Present(b) /\ bd[b].claim = "Unclaimed" =>
                       b \notin dirty /\ ~JobRunning(b)

\* No cleanup Job runs on a device that a claim has: the cleaner acts on its
\* copies of the device and of the Job, and creates and deletes Jobs by name.
NoCleanupInUse ==
    \A b \in BDs : Present(b) /\ bd[b].claim = "Claimed" => ~JobRunning(b)

\* A bound claim is the claim of one device only, the one that it names: a
\* second attempt to claim must not take a second device.
OneDevicePerClaim ==
    \A c \in BDCs, b \in BDs :
        /\ bdc[c] # None /\ bdc[c].phase = "Bound"
        /\ Present(b) /\ bd[b].ref = c
        => bdc[c].name = b

\* The finalizer keeps a device that is in use or not yet clean: whatever is
\* deleted by hand, the resource of a Claimed device stays, and that of a
\* Released one goes only when its cleanup is done.
ProtectedFromDeletion ==
    [][\A b \in BDs :
          Present(b) /\ bd[b].claim # "Unclaimed" /\ bd'[b] = None =>
              bd[b].claim = "Released" /\ b \notin dirty]_vars

\* A device leaves its claim only after the users have deleted the claim and its
\* owner has taken the last finalizer of its own off it: FinalizerHandling decides
\* on a copy of the claim, and writes the device several calls later, when the
\* owner may have edited the claim and the daemon the device.
OwnersFirst ==
    [][\A b \in BDs :
          Present(b) /\ bd[b].claim = "Claimed" /\ bd'[b] # None /\ bd'[b].ref # bd[b].ref =>
              LET c == bd[b].ref IN bdc[c] # None /\ bdc[c].del /\ ~bdc[c].own]_vars

-----------------------------------------------------------------------------
(***************************************************************************)
(* The device lifecycle that this design implements.                       *)
(***************************************************************************)
LifecycleState == [b \in BDs |-> IF bd[b] = None THEN "Absent" ELSE bd[b].claim]
LifecycleHolder == [b \in BDs |-> IF bd[b] = None THEN None ELSE bd[b].ref]

Lifecycle == INSTANCE DeviceLifecycle
                WITH st <- LifecycleState, holder <- LifecycleHolder, data <- dirty

\* Every step of the operator, the daemon, the Jobs and the administrator is a
\* step of the lifecycle of one device or leaves all of them where they are.
ImplementsLifecycle == Lifecycle!LifecycleSpec

-----------------------------------------------------------------------------
(***************************************************************************)
(* Liveness.  The work queue hands every key to its worker in turn, and    *)
(* the manager's SyncPeriod puts every object back into the queue, so a    *)
(* reconcile that keeps becoming possible is eventually taken (strong      *)
(* fairness per key); a reconcile or daemon call that has begun goes on; a *)
(* Job runs; the cache and the garbage collector catch up.                 *)
(***************************************************************************)
Fairness ==
    /\ \A c \in BDCs :
          SF_vars(Reconcile(c) /\ UNCHANGED <<dw, daemonVars, born>>)
    /\ \A b \in BDs :
          SF_vars(ReconcileDevice(b) /\ UNCHANGED <<cw, daemonVars, born>>)
    /\ WF_vars(ClaimWorkerStep /\ UNCHANGED <<dw, daemonVars, born>>)
    /\ WF_vars(DeviceWorkerStep /\ UNCHANGED <<cw, daemonVars, born>>)
    /\ WF_vars(DaemonStep /\ UNCHANGED <<cw, dw, born>>)
    /\ \A b \in BDs :
          /\ WF_vars(SyncBD(b) /\ UNCHANGED <<cw, dw, daemonVars, born>>)
          /\ WF_vars(SyncJob(b) /\ UNCHANGED <<cw, dw, daemonVars, born>>)
          /\ WF_vars(FinishJob(b, "succeeded") \/ FinishJob(b, "failed"))
          /\ WF_vars(RemoveDeletedJob(b))
    /\ \A c \in BDCs : WF_vars(SyncBDC(c) /\ UNCHANGED <<cw, dw, daemonVars, born>>)

FairSpec == Spec /\ Fairness

\* A bound claim that its users have deleted goes away: FinalizerHandling
\* releases its device and removes NDM's finalizer.
DeletedClaimGoes ==
    \A c \in BDCs :
        bdc[c] # None /\ bdc[c].phase = "Bound" /\ bdc[c].del /\ ~bdc[c].own
            ~> bdc[c] = None

\* A Released device that stays active becomes available again, unless its
\* Job has failed for good: cancelled Jobs, failed deletes and lost updates
\* are made up for by later reconciles.
ReleasedDeviceFreed ==
    \A b \in BDs :
        bd[b] # None /\ bd[b].claim = "Released"
            ~> \/ bd[b] = None \/ bd[b].claim = "Unclaimed"
               \/ bd[b].state # "Active"
               \/ job[b] # None /\ job[b].st = "failed"

\* A device that claimBlockDevice has given to a claim is bound to it in the
\* end: the claim becomes Bound, or the device is released.
ClaimedDeviceBinds ==
    \A b \in BDs, c \in BDCs :
        bd[b] # None /\ bd[b].ref = c
            ~> \/ bd[b] = None \/ bd[b].ref # c
               \/ bdc[c] # None /\ bdc[c].phase = "Bound"

\* A device that was claimed under an earlier release gets the finalizer that
\* protects it from deletion, or is released first.
ClaimedGetsFinalizer ==
    \A b \in BDs :
        bd[b] # None /\ bd[b].claim = "Claimed"
            ~> bd[b] = None \/ bd[b].claim # "Claimed" \/ bd[b].fin

\* A claim for which there is a device gets one, unless it is deleted or the
\* last device that suits it goes to another claim first.
ClaimServed ==
    \A c \in BDCs :
        Unbound(c) /\ (bdc[c].name # None \/ bdc[c].cap)
            ~> \/ bdc[c] = None \/ bdc[c].del \/ bdc[c].phase = "Bound"
               \/ \A b \in BDs : ~(/\ bd[b] # None /\ <<c, b>> \in Fits
                                   /\ bd[b].state = "Active" /\ bd[b].claim = "Unclaimed"
                                   /\ bdc[c].name \in {None, b})
=============================================================================
