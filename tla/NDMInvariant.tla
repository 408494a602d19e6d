---------------------------- MODULE NDMInvariant ----------------------------
(***************************************************************************)
(* The inductive invariants behind the safety properties of NDM.           *)
(***************************************************************************)
EXTENDS NDM

(***************************************************************************)
(* A copy whose resourceVersion is still the stored one has the stored     *)
(* contents, so that an Update that succeeds has been computed from the    *)
(* object that it replaces.                                                *)
(***************************************************************************)
ClaimCopyCurrent == cw.pc # "idle" /\ Fresh(Me, cw.c) => cw.inst = bdc[cw.c]

ClaimDeviceCopyCurrent ==
    cw.pc \in {"claim", "releaseBD"} /\ Fresh(Me, cw.b) => cw.obj = bd[cw.b]

DeviceCopyCurrent == dw.pc # "idle" /\ Fresh(BDMe, dw.b) => dw.obj = bd[dw.b]

DaemonCopyCurrent == dm.pc = "write" /\ Fresh("Daemon", dm.b) => dm.obj = bd[dm.b]

CacheCurrent ==
    /\ \A b \in BDs : Fresh("Cache", b) => cbd[b] = bd[b]
    /\ \A c \in BDCs : Fresh("Cache", c) => cbdc[c] = bdc[c]

CopiesCurrent ==
    /\ ClaimCopyCurrent /\ ClaimDeviceCopyCurrent /\ DeviceCopyCurrent
    /\ DaemonCopyCurrent /\ (Lag => CacheCurrent)

(***************************************************************************)
(* Who may change the claim of a device.                                   *)
(***************************************************************************)
Cleaning == {"inProgress", "cancel", "removeJob", "deleteJob", "runJob", "unclaim"}

\* the claim has been deleted, if not from the store then by its users
Gone(c) == bdc[c] = None \/ bdc[c].del

\* claims are born once, and the cache shows no claim under deletion that is not
ClaimHistory ==
    /\ \A c \in BDCs : bdc[c] # None => c \in born
    /\ Lag => \A c \in BDCs : cbdc[c] # None =>
                  c \in born /\ (cbdc[c].del => Gone(c))

ClaimWorkerInv ==
    /\ cw.pc # "idle" => cw.c \in born
    /\ cw.pc = "claim" => cw.obj.claim = "Unclaimed"
    /\ cw.pc = "bind" => /\ bd[cw.b] # None
                         /\ bd[cw.b].claim = "Claimed" /\ bd[cw.b].ref = cw.c
    /\ cw.pc \in {"release", "releaseBD", "unfinalize"} => Gone(cw.c)
    /\ cw.pc = "releaseBD" => cw.obj.claim = "Claimed" /\ cw.obj.ref = cw.c

DeviceWorkerInv ==
    /\ dw.pc \in Cleaning => dw.obj.claim = "Released"
    /\ dw.pc = "addFinalizer" => dw.obj.claim = "Claimed"

\* where BlockDevices can be deleted by hand, one in use has its finalizer
DeviceProtected ==
    \A b \in BDs : bd[b] # None =>
        /\ bd[b].del => "adminDelete" \in Env
        /\ bd[b].claim # "Unclaimed" /\ "adminDelete" \in Env => bd[b].fin

\* The inductive invariant of ownership: only current copies can be written,
\* a claim's worker binds a claim only while the device it took refers to that
\* claim and releases a device only for a claim that is gone, the device
\* controller rewrites only what its copy entitles it to, and so a bound claim
\* owns its device (claimDeviceForBlockDeviceClaim, FinalizerHandling, Clean
\* and the daemon's writes, in any order and from stale reads).
OwnershipInv ==
    /\ TypeOK /\ CopiesCurrent /\ ClaimHistory /\ ClaimWorkerInv /\ DeviceWorkerInv
    /\ DeviceProtected /\ ClaimRefMatchesState /\ BoundBacked

(***************************************************************************)
(* What a Job and its outcome say about a device, when neither the cache   *)
(* nor the deletion of Jobs lags behind.                                   *)
(***************************************************************************)
Released(b) == bd[b] # None /\ bd[b].claim = "Released"

JobsOnReleased ==
    \A b \in BDs : job[b] # None =>
        /\ Released(b) /\ ~job[b].del
        /\ job[b].st = "succeeded" => b \notin dirty

DataOnlyInUse ==
    \A b \in BDs :
        /\ bd[b] = None \/ bd[b].claim = "Unclaimed" => b \notin dirty
        /\ bd[b] # None /\ bd[b].claim = "Claimed" => b \in dirty

CleanerInv ==
    /\ dw.pc \in Cleaning => Released(dw.b)
    /\ dw.pc = "deleteJob" => job[dw.b] # None /\ job[dw.b].st = "succeeded"
    /\ dw.pc = "unclaim" => job[dw.b] = None /\ dw.b \notin dirty

CleanupInv == OwnershipInv /\ JobsOnReleased /\ DataOnlyInUse /\ CleanerInv
=============================================================================
