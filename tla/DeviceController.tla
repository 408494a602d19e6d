-------------------------- MODULE DeviceController --------------------------
(***************************************************************************)
(* BlockDeviceReconciler.Reconcile (pkg/controllers/blockdevice) with the  *)
(* cleaner it drives (pkg/cleaner): one worker that takes one device at a  *)
(* time, runs the cleanup Job of a Released device and makes the device    *)
(* Unclaimed when the Job has succeeded.  A step is one API call.          *)
(***************************************************************************)
EXTENDS NDMStore

VARIABLE dw     \* the worker: where it is, its key and its copy of the device

dwPCs == {"idle", "inProgress", "cancel", "removeJob", "deleteJob", "runJob",
          "unclaim", "addFinalizer"}

dwIdle == [pc |-> "idle", b |-> None, obj |-> None]

DeviceWorkerTypeOK ==
    /\ dw \in [pc: dwPCs, b: BDs \cup {None}, obj: BlockDevice \cup {None}]
    /\ dw.pc # "idle" => dw.b # None /\ dw.obj # None

BDMe == "BDReconciler"

\* A variant without the case of a Claimed device
ReconcileReleasedOnly(b) ==
    LET dev == ViewBD(b) IN
    /\ dw.pc = "idle" /\ b \notin Disabled /\ dev # None
    /\ dev.claim = "Released"
    /\ dw' = [pc |-> "inProgress", b |-> b, obj |-> dev]
    /\ CachedRead(BDMe, b)
    /\ UNCHANGED <<bd, bdc, job, cacheVars, faults, dirty>>

\* Reconcile's Get and its switch on the claim state
ReconcileDevice(b) ==
    LET dev == ViewBD(b) IN
    /\ dw.pc = "idle" /\ b \notin Disabled /\ dev # None
    /\ \/ dev.claim = "Released"
          /\ dw' = [pc |-> "inProgress", b |-> b, obj |-> dev]
       \/ dev.claim = "Claimed" /\ ~dev.fin
          /\ dw' = [pc |-> "addFinalizer", b |-> b, obj |-> dev]
    /\ CachedRead(BDMe, b)
    /\ UNCHANGED <<bd, bdc, job, cacheVars, faults, dirty>>

\* continue at pc, or leave the reconcile
Goto(pc) ==
    IF pc = "idle" THEN dw' = dwIdle /\ seen' = Discard(BDMe)
                   ELSE dw' = [dw EXCEPT !.pc = pc] /\ UNCHANGED seen

\* A variant that takes every error of the Get, NotFound too, for a running Job
InProgressIfNotFound ==
    LET j == ViewJob(dw.b)
        busy == IF dw.obj.state # "Active" THEN "cancel" ELSE "idle" IN
    /\ dw.pc = "inProgress"
    /\ Goto(IF j # None /\ j.st = "succeeded" THEN "removeJob" ELSE busy)
    /\ UNCHANGED <<bd, bdc, job, cacheVars, faults, dirty>>

\* CleanupStatusTracker.InProgress: any Job that has not succeeded counts as
\* running, and so does one that cannot be read
InProgress ==
    LET j == ViewJob(dw.b)
        busy == IF dw.obj.state # "Active" THEN "cancel" ELSE "idle" IN
    /\ dw.pc = "inProgress"
    /\ \/ /\ Goto(IF j = None \/ j.st = "succeeded" THEN "removeJob" ELSE busy)
          /\ UNCHANGED faults
       \/ Fault /\ Goto(busy)
    /\ UNCHANGED <<bd, bdc, job, cacheVars, dirty>>

\* CancelJob: Get, then Delete by name without any precondition.  A Job that
\* is not found, or a call that fails, is an error.
DeleteJob(next) ==
    LET there == ViewJob(dw.b) # None /\ job[dw.b] # None
        gone == [job EXCEPT ![dw.b] = Deleted(@)] IN
    \/ there /\ job' = gone /\ Goto(next) /\ UNCHANGED faults
    \/ ~there /\ Goto("idle") /\ UNCHANGED <<job, faults>>
    \/ Fault /\ Goto("idle") /\ UNCHANGED job
    \/ Fault /\ there /\ job' = gone /\ Goto("idle")

\* the Job of a device that is no longer active is cancelled
CancelJob ==
    /\ dw.pc = "cancel"
    /\ DeleteJob("idle")
    /\ UNCHANGED <<bd, bdc, cacheVars, dirty>>

\* A variant that goes on after a failed Get
RemoveJobErrorIgnored ==
    LET j == ViewJob(dw.b) IN
    /\ dw.pc = "removeJob"
    /\ \/ /\ Goto(IF j # None
                  THEN IF j.st = "succeeded" THEN "deleteJob" ELSE "runJob"
                  ELSE IF dw.obj.state = "Active" THEN "runJob" ELSE "idle")
          /\ UNCHANGED faults
       \/ Fault /\ Goto("unclaim")
    /\ UNCHANGED <<bd, bdc, job, cacheVars, dirty>>

\* RemoveStatus reads the Job again; Clean then looks at what it found.  A
\* Job that is running now is not told apart from one that has to be created.
RemoveJob ==
    LET j == ViewJob(dw.b) IN
    /\ dw.pc = "removeJob"
    /\ \/ /\ Goto(IF j # None
                  THEN IF j.st = "succeeded" THEN "deleteJob" ELSE "runJob"
                  ELSE IF dw.obj.state = "Active" THEN "runJob" ELSE "idle")
          /\ UNCHANGED faults
       \/ Fault /\ Goto("idle")
    /\ UNCHANGED <<bd, bdc, job, cacheVars, dirty>>

\* the succeeded Job is deleted before the device is made Unclaimed
DeleteSucceededJob ==
    /\ dw.pc = "deleteJob"
    /\ DeleteJob("unclaim")
    /\ UNCHANGED <<bd, bdc, cacheVars, dirty>>

\* runJob: the node is looked up, then the Job is created if no Job has its
\* name; the result is not awaited
RunJob ==
    LET started == [job EXCEPT ![dw.b] = [st |-> "running", del |-> FALSE]] IN
    /\ dw.pc = "runJob"
    /\ Goto("idle")
    /\ \/ job[dw.b] = None /\ job' = started /\ UNCHANGED faults
       \/ job[dw.b] # None /\ UNCHANGED <<job, faults>>
       \/ Fault /\ UNCHANGED job
       \/ Fault /\ job[dw.b] = None /\ job' = started
    /\ UNCHANGED <<bd, bdc, cacheVars, dirty>>

\* the finalizer goes and the state becomes Unclaimed in one write, whose
\* error is only logged
Unclaim ==
    /\ dw.pc = "unclaim"
    /\ \E ok \in BOOLEAN :
          UpdateBD(BDMe, dw.b, [dw.obj EXCEPT !.fin = FALSE,
                                              !.claim = "Unclaimed"], ok)
    /\ dw' = dwIdle
    /\ UNCHANGED <<bdc, job, cacheVars>>

\* a device claimed under an earlier release gets its finalizer
AddFinalizer ==
    /\ dw.pc = "addFinalizer"
    /\ \E ok \in BOOLEAN :
          UpdateBD(BDMe, dw.b, [dw.obj EXCEPT !.fin = TRUE], ok)
    /\ dw' = dwIdle
    /\ UNCHANGED <<bdc, job, cacheVars>>

DeviceWorkerStep ==
    \/ InProgress \/ CancelJob \/ RemoveJob \/ DeleteSucceededJob
    \/ RunJob \/ Unclaim \/ AddFinalizer
=============================================================================
