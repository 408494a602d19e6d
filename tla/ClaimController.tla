-------------------------- MODULE ClaimController ---------------------------
(***************************************************************************)
(* BlockDeviceClaimReconciler.Reconcile (pkg/controllers/blockdeviceclaim):*)
(* one worker that takes one claim at a time.  A step is one call to the   *)
(* API server with the code up to the next call; an error ends the         *)
(* reconcile, and the work queue or the periodic resync starts it again.   *)
(***************************************************************************)
EXTENDS NDMStore

CONSTANT Fits   \* <<c, b>>: b passes every filter of c's spec other than
                \* status, name and capacity validity (selector, type, mode,
                \* node, tag, size)

ASSUME FitsAssumption == Fits \subseteq BDCs \X BDs

VARIABLE cw     \* the worker: where it is, its key and the copies it holds

cwPCs == {"idle", "select", "claim", "bind", "pend",
          "release", "releaseBD", "unfinalize"}

cwIdle == [pc |-> "idle", c |-> None, inst |-> None, b |-> None, obj |-> None]

\* A worker past its first call has a claim in hand, and one that is about to
\* write a device, or has just written it, has the device in hand.
ClaimWorkerTypeOK ==
    /\ cw \in [pc: cwPCs, c: BDCs \cup {None}, inst: BlockDeviceClaim \cup {None},
               b: BDs \cup {None}, obj: BlockDevice \cup {None}]
    /\ cw.pc # "idle" => cw.c # None /\ cw.inst # None
    /\ cw.pc \in {"claim", "bind", "releaseBD", "unfinalize"} =>
          cw.b # None /\ cw.obj # None

Me == "BDCReconciler"

\* NewConfig: a claim that names a device is a manual selection
ManualSelection(inst) == inst.name # None

\* A variant that only looks for NDM's finalizer among the others
HasNDMFinalizer(inst) == inst.fin

\* the claim has only NDM's finalizer: its owner has let it go
OnlyNDMFinalizer(inst) == inst.fin /\ ~inst.own

\* A variant in which the case of Pending does not fall through to Empty
ReconcileNoFallthrough(c) ==
    LET inst == ViewBDC(c) IN
    /\ cw.pc = "idle" /\ c \notin Disabled /\ inst # None
    /\ \/ /\ inst.phase = "Empty" /\ ~inst.del
          /\ cw' = [cwIdle EXCEPT
                      !.pc = IF ManualSelection(inst) \/ inst.cap
                             THEN "select" ELSE "pend",
                      !.c = c, !.inst = inst]
       \/ /\ inst.phase = "Bound" /\ inst.del /\ OnlyNDMFinalizer(inst)
          /\ cw' = [cwIdle EXCEPT !.pc = "release", !.c = c, !.inst = inst]
    /\ CachedRead(Me, c)
    /\ UNCHANGED <<bd, bdc, job, cacheVars, faults, dirty>>

\* Get, and the switch on the phase.  An absent or disabled claim, a pending
\* claim under deletion and a bound claim in use need no work.
Reconcile(c) ==
    LET inst == ViewBDC(c) IN
    /\ cw.pc = "idle" /\ c \notin Disabled /\ inst # None
    /\ \/ /\ inst.phase \in {"Empty", "Pending"} /\ ~inst.del
          /\ cw' = [cwIdle EXCEPT
                      !.pc = IF ManualSelection(inst) \/ inst.cap
                             THEN "select" ELSE "pend",
                      !.c = c, !.inst = inst]
       \/ /\ inst.phase = "InvalidCapacity"
          /\ cw' = [cwIdle EXCEPT !.pc = "pend", !.c = c, !.inst = inst]
       \/ /\ inst.phase = "Bound" /\ inst.del /\ OnlyNDMFinalizer(inst)
          /\ cw' = [cwIdle EXCEPT !.pc = "release", !.c = c, !.inst = inst]
    /\ CachedRead(Me, c)
    /\ UNCHANGED <<bd, bdc, job, cacheVars, faults, dirty>>

\* A variant that only filters out the devices in use by other claims
CandidatesReleased(c, inst) ==
    {b \in BDs : /\ ViewBD(b) # None
                 /\ ViewBD(b).state = "Active" /\ ViewBD(b).claim # "Claimed"
                 /\ IF ManualSelection(inst) THEN inst.name = b ELSE TRUE
                 /\ <<c, b>> \in Fits}

\* Config.Filter on the listed devices
Candidates(c, inst) ==
    {b \in BDs : /\ ViewBD(b) # None
                 /\ ViewBD(b).state = "Active" /\ ViewBD(b).claim = "Unclaimed"
                 /\ IF ManualSelection(inst) THEN inst.name = b ELSE TRUE
                 /\ <<c, b>> \in Fits}

\* List and Filter: any candidate, as the order of the list is not defined;
\* no candidate leaves the claim pending, a failed List ends the reconcile
SelectDevice ==
    LET found == Candidates(cw.c, cw.inst) IN
    /\ cw.pc = "select"
    /\ \/ \E b \in found :
             /\ cw' = [cw EXCEPT !.pc = "claim", !.b = b, !.obj = ViewBD(b)]
             /\ CachedRead(Me, b)
             /\ UNCHANGED faults
       \/ found = {} /\ cw' = [cw EXCEPT !.pc = "pend"] /\ UNCHANGED <<seen, faults>>
       \/ Fault /\ cw' = cwIdle /\ seen' = Discard(Me)
    /\ UNCHANGED <<bd, bdc, job, cacheVars, dirty>>

\* A variant that sends its write without a resourceVersion
ClaimBlockDeviceUnversioned ==
    /\ cw.pc = "claim" /\ bd[cw.b] # None
    /\ PutBD(Me, cw.b, [cw.obj EXCEPT !.fin = TRUE, !.ref = cw.c, !.claim = "Claimed"])
    /\ cw' = [cw EXCEPT !.pc = "bind"]
    /\ UNCHANGED <<bdc, job, cacheVars, faults>>

\* A variant that leaves the finalizer to the device controller
ClaimBlockDeviceUnprotected ==
    /\ cw.pc = "claim"
    /\ \E ok \in BOOLEAN :
          /\ UpdateBD(Me, cw.b, [cw.obj EXCEPT !.ref = cw.c, !.claim = "Claimed"], ok)
          /\ cw' = IF ok THEN [cw EXCEPT !.pc = "bind"] ELSE cwIdle
    /\ UNCHANGED <<bdc, job, cacheVars>>

\* claimBlockDevice: finalizer, reference and state in one write
ClaimBlockDevice ==
    /\ cw.pc = "claim"
    /\ \E ok \in BOOLEAN :
          /\ UpdateBD(Me, cw.b, [cw.obj EXCEPT !.fin = TRUE, !.ref = cw.c,
                                               !.claim = "Claimed"], ok)
          /\ cw' = IF ok THEN [cw EXCEPT !.pc = "bind"] ELSE cwIdle
    /\ UNCHANGED <<bdc, job, cacheVars>>

\* updateClaimStatus(Done): only now does the claim itself change
BindClaim ==
    /\ cw.pc = "bind"
    /\ \E ok \in BOOLEAN :
          UpdateBDC(Me, cw.c, [cw.inst EXCEPT !.phase = "Bound", !.name = cw.b,
                                              !.fin = TRUE], ok)
    /\ cw' = cwIdle
    /\ UNCHANGED <<bd, job, cacheVars, dirty>>

\* updateClaimStatus(Pending): no device, no valid capacity, or the phase
\* Invalid Capacity of an earlier release
PendClaim ==
    /\ cw.pc = "pend"
    /\ \E ok \in BOOLEAN :
          UpdateBDC(Me, cw.c, [cw.inst EXCEPT !.phase = "Pending"], ok)
    /\ cw' = cwIdle
    /\ UNCHANGED <<bd, job, cacheVars, dirty>>

\* A variant that does not compare name and UID
RequestedByAnyClaim(c, dev) == dev # None /\ dev.claim = "Claimed"

\* isDeviceRequestedByThisDeviceClaim
Requested(c, dev) == dev # None /\ dev.claim = "Claimed" /\ dev.ref = c

\* A variant without the check for a nil device
FindClaimedUnchecked ==
    LET found == {b \in BDs : Requested(cw.c, ViewBD(b))} IN
    /\ cw.pc = "release"
    /\ \/ \E b \in found :
             /\ cw' = [cw EXCEPT !.pc = "releaseBD", !.b = b, !.obj = ViewBD(b)]
             /\ CachedRead(Me, b)
       \/ found = {} /\ cw' = [cw EXCEPT !.pc = "releaseBD"] /\ UNCHANGED seen
    /\ UNCHANGED <<bd, bdc, job, cacheVars, faults, dirty>>

\* releaseClaimedBlockDevice lists every device for one that the claim holds;
\* finding none is an error like a failed List
FindClaimed ==
    LET found == {b \in BDs : Requested(cw.c, ViewBD(b))} IN
    /\ cw.pc = "release"
    /\ \/ \E b \in found :
             /\ cw' = [cw EXCEPT !.pc = "releaseBD", !.b = b, !.obj = ViewBD(b)]
             /\ CachedRead(Me, b)
             /\ UNCHANGED faults
       \/ /\ (found = {} /\ UNCHANGED faults) \/ Fault
          /\ cw' = cwIdle /\ seen' = Discard(Me)
    /\ UNCHANGED <<bd, bdc, job, cacheVars, dirty>>

\* A variant that gives the device back without a cleanup
ReleaseToUnclaimed ==
    /\ cw.pc = "releaseBD"
    /\ \E ok \in BOOLEAN :
          /\ UpdateBD(Me, cw.b, [cw.obj EXCEPT !.ref = None, !.claim = "Unclaimed",
                                               !.fin = FALSE], ok)
          /\ cw' = IF ok THEN [cw EXCEPT !.pc = "unfinalize"] ELSE cwIdle
    /\ UNCHANGED <<bdc, job, cacheVars>>

\* A variant that leaves the claim's finalizer to the next reconcile
ReleaseAndReturn ==
    /\ cw.pc = "releaseBD"
    /\ \E ok \in BOOLEAN :
          UpdateBD(Me, cw.b, [cw.obj EXCEPT !.ref = None, !.claim = "Released"], ok)
    /\ cw' = cwIdle
    /\ UNCHANGED <<bdc, job, cacheVars>>

\* the device loses its reference and waits for its cleanup
ReleaseBlockDevice ==
    /\ cw.pc = "releaseBD"
    /\ \E ok \in BOOLEAN :
          /\ UpdateBD(Me, cw.b, [cw.obj EXCEPT !.ref = None,
                                               !.claim = "Released"], ok)
          /\ cw' = IF ok THEN [cw EXCEPT !.pc = "unfinalize"] ELSE cwIdle
    /\ UNCHANGED <<bdc, job, cacheVars>>

\* the second write of FinalizerHandling
RemoveFinalizer ==
    /\ cw.pc = "unfinalize"
    /\ \E ok \in BOOLEAN :
          UpdateBDC(Me, cw.c, [cw.inst EXCEPT !.fin = FALSE], ok)
    /\ cw' = cwIdle
    /\ UNCHANGED <<bd, job, cacheVars, dirty>>

ClaimWorkerStep ==
    \/ SelectDevice \/ ClaimBlockDevice \/ BindClaim \/ PendClaim
    \/ FindClaimed \/ ReleaseBlockDevice \/ RemoveFinalizer
=============================================================================
