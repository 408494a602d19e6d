------------------------------ MODULE NDMStore ------------------------------
(***************************************************************************)
(* The cluster state that the NDM operator and the NDM daemons share: the  *)
(* BlockDevice (BD) and BlockDeviceClaim (BDC) custom resources, the       *)
(* cleanup Jobs, and the API server's rules for changing them.             *)
(*                                                                         *)
(* Optimistic concurrency is modelled without version numbers.  `seen`     *)
(* holds <<client, object>> when the copy of object that client read last  *)
(* still carries the stored resourceVersion.  A write to the object        *)
(* removes every pair that mentions it, and an Update succeeds exactly     *)
(* when its writer's pair is there; otherwise it is a Conflict (or a       *)
(* NotFound), and the caller only sees an error.                           *)
(***************************************************************************)
EXTENDS Naturals

CONSTANTS
    BDs,        \* names of block devices
    BDCs,       \* UIDs of claims; a UID is never used twice
    None,       \* an absent object, a nil reference, an empty name
    Disabled,   \* objects annotated openebs.io/reconcile=false
    Env,        \* behaviours of the environment this instance allows
    MaxFaults   \* bound on failed calls and crashes

EnvBehaviours == {"cacheLag",    \* the informer cache may be behind etcd
                  "jobLingers",  \* a deleted Job stays until its pods are gone
                  "jobFails",    \* a Job may reach its backoff limit
                  "deviceEvents",\* the daemon updates the state of devices
                  "adminDelete", \* BlockDevices are deleted by hand
                  "ownerEdits",  \* the owner of a claim edits its finalizers
                  "legacy"}      \* objects written by an earlier release

Clients == {"BDCReconciler", "BDReconciler", "Daemon", "Cache"}

State == {"Active", "Inactive", "Unknown"}
ClaimState == {"Unclaimed", "Claimed", "Released"}
Phase == {"Empty", "Pending", "InvalidCapacity", "Bound"}
JobState == {"running", "succeeded", "failed"}

\* status.state, status.claimState, spec.claimRef, whether the finalizer
\* openebs.io/bd-protection is set, whether deletionTimestamp is set
BlockDevice == [state: State, claim: ClaimState, ref: BDCs \cup {None},
                fin: BOOLEAN, del: BOOLEAN]

\* status.phase, spec.blockDeviceName, whether the requested capacity is
\* valid, whether openebs.io/bdc-protection is set, whether the owner of the
\* claim has a finalizer of its own on it, whether deletionTimestamp is set
BlockDeviceClaim == [phase: Phase, name: BDs \cup {None}, cap: BOOLEAN,
                     fin: BOOLEAN, own: BOOLEAN, del: BOOLEAN]

\* status, and whether foreground deletion has begun
Job == [st: JobState, del: BOOLEAN]

ASSUME StoreAssumption ==
    /\ BDs \cap BDCs = {}
    /\ None \notin BDs \cup BDCs \cup BlockDevice \cup BlockDeviceClaim \cup Job
    /\ Disabled \subseteq BDs \cup BDCs
    /\ Env \subseteq EnvBehaviours
    /\ MaxFaults \in Nat

VARIABLES
    bd,     \* stored BlockDevices
    bdc,    \* stored BlockDeviceClaims
    job,    \* stored cleanup Jobs, one name per BlockDevice
    cbd,    \* the operator's informer cache of bd
    cbdc,   \* ... of bdc
    cjob,   \* ... of job
    seen,   \* reads that are still current
    faults, \* failed calls and crashes so far
    dirty   \* the devices themselves: those that may hold data of a claim
            \* that has or had them and that no cleanup Job has wiped since

cacheVars == <<cbd, cbdc, cjob>>
storeVars == <<bd, bdc, job, cbd, cbdc, cjob, seen, faults, dirty>>

StoreTypeOK ==
    /\ bd \in [BDs -> BlockDevice \cup {None}]
    /\ bdc \in [BDCs -> BlockDeviceClaim \cup {None}]
    /\ job \in [BDs -> Job \cup {None}]
    /\ cbd \in [BDs -> BlockDevice \cup {None}]
    /\ cbdc \in [BDCs -> BlockDeviceClaim \cup {None}]
    /\ cjob \in [BDs -> Job \cup {None}]
    /\ seen \subseteq Clients \X (BDs \cup BDCs)
    /\ faults \in 0..MaxFaults
    /\ dirty \subseteq BDs

-----------------------------------------------------------------------------
(* Reads.  The operator's client reads through the cache. *)

Lag == "cacheLag" \in Env

ViewBD(b) == IF Lag THEN cbd[b] ELSE bd[b]
ViewBDC(c) == IF Lag THEN cbdc[c] ELSE bdc[c]
ViewJob(b) == IF Lag THEN cjob[b] ELSE job[b]

\* the operator reads object o: its copy is as current as the cache
CachedRead(cl, o) ==
    seen' = IF Lag /\ <<"Cache", o>> \notin seen
            THEN seen \ {<<cl, o>>}
            ELSE seen \cup {<<cl, o>>}

\* the daemon reads object o from the API server
DirectRead(cl, o) == seen' = seen \cup {<<cl, o>>}

Fresh(cl, o) == <<cl, o>> \in seen

-----------------------------------------------------------------------------
(* Writes. *)

\* a write of object o by cl: no other copy of o is current any more (cl does
\* not use its own copy again)
Forget(o) == {p \in seen : p[2] # o}

\* client cl returns from its handler and discards the copies it has read
Discard(cl) == {p \in seen : p[1] # cl}

\* An object that is being deleted goes away with its last finalizer.
StoredBD(new) == IF new.del /\ ~new.fin THEN None ELSE new
StoredBDC(new) == IF new.del /\ ~new.fin /\ ~new.own THEN None ELSE new

\* from the write that gives a device to a claim on, the device is in use
Soil(b, new) == dirty' = IF new.claim = "Claimed" THEN dirty \cup {b} ELSE dirty

\* a write that changes nothing leaves the resourceVersion alone
PutBD(cl, b, new) ==
    /\ bd' = [bd EXCEPT ![b] = StoredBD(new)]
    /\ Soil(b, new)
    /\ seen' = IF StoredBD(new) = bd[b] THEN seen \ {<<cl, b>>} ELSE Forget(b)

PutBDC(cl, c, new) ==
    /\ bdc' = [bdc EXCEPT ![c] = StoredBDC(new)]
    /\ seen' = IF StoredBDC(new) = bdc[c] THEN seen \ {<<cl, c>>} ELSE Forget(c)

\* one of the calls or processes that this instance lets fail
Fault == faults < MaxFaults /\ faults' = faults + 1

\* client.Update: a failed call may or may not have taken effect, and its
\* caller gives up
UpdateBD(cl, b, new, ok) ==
    \/ ok /\ Fresh(cl, b) /\ PutBD(cl, b, new) /\ UNCHANGED faults
    \/ ~ok /\ ~Fresh(cl, b) /\ seen' = Discard(cl) /\ UNCHANGED <<bd, dirty, faults>>
    \/ ~ok /\ Fault /\ seen' = Discard(cl) /\ UNCHANGED <<bd, dirty>>
    \/ /\ ~ok /\ Fault /\ Fresh(cl, b)
       /\ bd' = [bd EXCEPT ![b] = StoredBD(new)]
       /\ Soil(b, new)
       /\ seen' = Discard(cl) \cap Forget(b)

UpdateBDC(cl, c, new, ok) ==
    \/ ok /\ Fresh(cl, c) /\ PutBDC(cl, c, new) /\ UNCHANGED faults
    \/ ~ok /\ ~Fresh(cl, c) /\ seen' = Discard(cl) /\ UNCHANGED <<bdc, faults>>
    \/ ~ok /\ Fault /\ seen' = Discard(cl) /\ UNCHANGED bdc
    \/ /\ ~ok /\ Fault /\ Fresh(cl, c)
       /\ bdc' = [bdc EXCEPT ![c] = StoredBDC(new)]
       /\ seen' = Discard(cl) \cap Forget(c)

\* client.Delete of a Job with foreground propagation
Deleted(j) == IF "jobLingers" \in Env THEN [j EXCEPT !.del = TRUE] ELSE None

-----------------------------------------------------------------------------
(* Steps of the API server and of the cache. *)

SyncBD(b) ==
    /\ Lag /\ ~Fresh("Cache", b)
    /\ cbd' = [cbd EXCEPT ![b] = bd[b]]
    /\ seen' = seen \cup {<<"Cache", b>>}
    /\ UNCHANGED <<bd, bdc, job, cbdc, cjob, faults, dirty>>

SyncBDC(c) ==
    /\ Lag /\ ~Fresh("Cache", c)
    /\ cbdc' = [cbdc EXCEPT ![c] = bdc[c]]
    /\ seen' = seen \cup {<<"Cache", c>>}
    /\ UNCHANGED <<bd, bdc, job, cbd, cjob, faults, dirty>>

SyncJob(b) ==
    /\ Lag /\ cjob[b] # job[b]
    /\ cjob' = [cjob EXCEPT ![b] = job[b]]
    /\ UNCHANGED <<bd, bdc, job, cbd, cbdc, seen, faults, dirty>>
=============================================================================
