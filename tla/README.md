# Node Disk Manager in TLA+

This directory specifies Node Disk Manager (NDM): who may use a block device, how
the devices of a node become resources, and the parts around these two. TLC checks
the specification on small instances. TLAPS proves its central safety properties
for every instance.

## The system

NDM runs as two programs on a Kubernetes cluster, which meet only in the API server:

* The **operator** (`cmd/manager`) runs two controllers with one worker each. The
  *BlockDeviceClaim controller* gives a BlockDevice (BD) to a BlockDeviceClaim
  (BDC) and takes it back. The *BlockDevice controller* runs a cleanup Job on a
  device that was released, and makes the device available again.
* A **daemon** (`cmd/ndm_daemonset`) on every node learns of devices from udev
  events and scans, fills in their details with probes, applies filters, and
  writes the BDs. A gRPC service on the node lists devices and starts scans.

Around them: an **exporter** that turns BDs and SeaChest readings into metrics, and
two **upgrade tasks** that rewrite claims of earlier releases.

A BD goes from Unclaimed to Claimed to Released and back to Unclaimed. A BDC goes
from empty or Pending to Bound, and disappears when it has been deleted and its
device has been released. No lock spans the two resources. Ownership rests on the
order of the writes, on `resourceVersion`, and on finalizers.

### What makes it hard

* Claiming takes two writes (the BD, then the BDC), and so does releasing. A
  crash, a failed call or another writer can come between them.
* The operator reads from an informer cache that may be behind.
* The daemon writes whole BDs while the operator changes their claim.
* Deleting a Job does not make it go away at once, and the next Job for the same
  device has the same name.
* In the daemon, the udev monitor, several scans, the mount probe and the listener
  share a channel without a buffer and a cache without a lock. A message describes
  devices that may have changed by the time it is handled.
* Several errors are only logged, so later work has to make up for them.

`PROJECT.json` lists every part with its sources, every hazard with its line, and
for every definition the lines of code it models.

## The modules

| Module | Models | Kept in |
|---|---|---|
| `NDMStore` | stored objects, cache, reads and writes with optimistic concurrency | API server, client |
| `ClaimController` | the BDC reconciler | `pkg/controllers/blockdeviceclaim` |
| `DeviceController` | the BD reconciler, the cleaner and its Jobs | `pkg/controllers/blockdevice`, `pkg/cleaner` |
| `DeviceDaemon` | the daemon's calls on BDs, as the operator meets them | `controller/blockdevicestore.go` |
| `NDM` | the composition, users, Jobs, restarts, properties, fairness | |
| `DeviceLifecycle` | the abstract specification of a device | |
| `DaemonEvents` | udev monitor, scans, channel, listener, add, remove and change handlers | `ndm_daemonset/probe`, `controller`, `pkg/udevevent` |
| `DeviceIdentity` | the choice of the identifying fields of a device | `probe/uuid.go` |
| `DaemonLife` | start, sparse files, first scan, API scans, shutdown, crash, restart | `app/command/start.go`, `controller` |
| `MountWatch` | mount probe, difference of mount tables, epoll | `probe/mountprobe.go`, `pkg/mount/libmount`, `pkg/epoll` |
| `Selection` | the filters that pick a device for a claim | `pkg/select` |
| `DeviceFilters` | os-disk, path, vendor and validity filters, parents and partitions in sysfs | `ndm_daemonset/filter`, `pkg/mount`, `pkg/sysfs` |
| `DeviceProbes` | what each probe fills, in the order of priorities | `ndm_daemonset/probe` |
| `DiskGeometry` | capacity, block size, sectors of the partition | `pkg/smart`, `pkg/sysfs`, `pkg/partition` |
| `SmartAccess` | SCSI calls with their descriptor and their errors | `pkg/smart` |
| `FeatureGates` | parsing and validation of feature gates | `pkg/features` |
| `Exporter` | both collectors, the guard, labels and gauges | `ndm-exporter`, `pkg/metrics` |
| `Upgrade` | the two pre-upgrade tasks | `pkg/upgrade` |
| `NodeAPI` | concurrent list requests | `api-service/node/services` |

`NDMInvariant` holds the inductive invariants of `NDM`. `MCNDM`, `MCEvents` and
`MCNode` are the instances for TLC. The theorems are in
`OwnershipProofs` and `CleanupProofs` (the operator), `EventProofs`, `MountProofs` and
`FilterProofs` (the daemon), `LifeProofs` (`DaemonLife`, `NodeAPI`), `DiskProofs`
(`DiskGeometry`, `DeviceProbes`, `SmartAccess`, `FeatureGates`) and `ToolProofs`
(`Exporter`, `Upgrade`, `Selection`).

Operators whose comment begins with "A variant" are mutated forms of the operator
that follows them. Only the mutants listed in `PROJECT.json` use them; each shows
that a property can fail.

### The operator: `NDM`

**One step is one API call**, together with the code up to the next call. The
handlers are chains of such steps, and `cw.pc` and `dw.pc` say where a worker is. A
handler that finds nothing to do takes no step. An error ends the handler
(`cwIdle`, `dwIdle`), as `return err` does.

**Versions.** `resourceVersion` is modelled without counters. `seen` holds the
pair of a client and an object when the client's last copy is still the stored
version. A write that changes the object removes the pairs of all clients.
`UpdateBD` and `UpdateBDC` succeed only for a client whose pair is present. A
failed call may or may not have taken effect.

**Cache.** With `"cacheLag" \in Env` the operator reads `cbd`, `cbdc` and `cjob`,
which the `Sync` actions bring up to date one object at a time. Otherwise it reads
the stored objects. The daemon's client has no cache.

**Data on devices.** `dirty` is the set of devices that may hold data of a claim.
A device becomes dirty with the write that gives it to a claim, and clean when a
cleanup Job succeeds on it. The code has no such variable: it is what the cleanup
is about.

**Environment.** `Env` names what the surroundings may do: a lagging cache, Jobs
that linger or fail, daemon state changes, deletes of BDs by hand, owners editing
the finalizers of their claims, and objects of an earlier release.

**Daemon.** Seen from the operator any call of the daemon's store may come next,
for any device, up to `MaxEvents` calls. Why the daemon makes a call is the
subject of `DaemonEvents`.

**Abstracted data.** Capacity, type, node, tag and selector filters are the
constant relation `Fits`; `Selection` models the filters themselves. Claim names
are UIDs, so a claim created again under the same name is another member of
`BDCs`.

### The daemon's events: `DaemonEvents`

The state is the hardware (`hw`: disks, partitions, volumes with path, table, file
system and use), the BDs, the hierarchy cache, and one record for each goroutine:
the monitor `mon`, the scanners, and the listener `lst` with the message it works
on. The channel has no buffer, so a send is a step of sender and listener together.
The listener takes one step per device and per API call. It keeps the list of BDs
that it read once per message, as the handlers do.

Hardware is attached, detached, partitioned and formatted at any moment, and users
claim and free devices. API calls fail, and writes conflict, within the bounds of
each start. `on` in a BD is the device it stands for: the one it was made for, and,
while it is claimed, the one that was claimed. The code has no such field; it is what
"the same disk" means in the properties.

Writing a partition table takes three steps, between which anything may happen to the
disks (`fd` is the disk that was opened): the path is opened and the open disk is
searched for a table (`OpenDisk`), blkid searches the *path* for a file system
(`CheckFileSystem`), and the open disk is written (`WriteTable`). `fd.late` is what was put
on the disk after NDM had looked for it.

`lost` becomes true when the code itself drops a change. The properties about BDs at
rest, `PresentIsActive`, `ActiveIsPresent` and `NoOverlap`, say nothing of behaviours
with one of these cases, so they show nothing about them:

* the second attempt of a create fails, which `CreateBlockDevice` swallows;
* the deactivation in a remove, the write of a change, or the list in a scan or a
  remove fails and is only logged;
* a scan's deactivation of a device that is gone conflicts with another write, which
  is only logged;
* a scan is refused because another one holds the semaphore;
* a device is handled before all probes are registered;
* a table is written over what somebody put on the disk after NDM had looked;
* a change comes after a scan in progress has looked, or takes the last partition
  or volume off a disk, for which udev sends nothing about the disk itself.

### The other parts

`DaemonLife` takes the start of the daemon statement by statement, as far as the
order matters: sparse files, subscription, the goroutine of the monitor (`monitor`),
filters, first scan, probes. Start does not wait for that goroutine: a device that
comes after the first scan has looked and before the monitor receives is in `unseen`. It
excuses a first scan that was refused (`skipped`), and a sparse file whose creation
failed, or which a scan did not see because it came too late or the directory could
not be read (`excused`).

`MountWatch` has the kernel's mounts file, epoll's pending event and channel, the
last table of the probe, and the write to the BD. `missed` excuses a failed set-up,
a failed read or write in the change handler, and a change that was undone before
it was handled.

`Selection`, `DeviceFilters`, `DeviceProbes`, `DiskGeometry` and `FeatureGates` are
algorithms: the state is an input and the result, and the property compares the
result with a declarative reference. Names are sequences of tokens, so that one may
be a prefix of another. Sizes are counted in units of 512 bytes, and the 64-bit
unsigned arithmetic of the partition code wraps at `Word`, scaled down for TLC.

`Exporter`, `Upgrade`, `NodeAPI` and `SmartAccess` take one step per call or per
access to a shared variable. `alone` in `NodeAPI` holds the requests that no other
request wrote into; their replies may be mixed and are not described. `blind` in `SmartAccess` holds the descriptors that
`detectSCSIType` leaves open when its inquiry fails.

## The runs

### Runs that pass

| Run | Instance | Checks |
|---|---|---|
| `core` | 2 devices × 2 claims; device events, legacy objects, owner edits, failing Jobs; 1 fault, 2 daemon calls | types, `BoundBacked`, `ClaimRefMatchesState`, `UnclaimedIsClean`, `NoCleanupInUse`, `OwnersFirst` |
| `stale` | 1 × 2; lagging cache; 2 daemon calls | `OwnershipInv`, which implies `BoundBacked` |
| `lifecycle` | 1 × 2; device events, deletes by hand; 1 fault, 3 daemon calls | `ProtectedFromDeletion`, refinement of `DeviceLifecycle` |
| `progress` | 1 × 2; legacy objects, lingering and failing Jobs, device events; 2 daemon calls | `DeletedClaimGoes`, `ReleasedDeviceFreed`, `ClaimServed`, `ClaimedGetsFinalizer` |
| `events` | 2 disks and a partition, 2 paths, 2 scanners; the starts of `MCEvents` | the daemon's events |
| `node` | one of eleven parts at a time, chosen by `part` | all the other parts |

What they show:

* **Ownership.** A bound claim that nobody deleted names a device that is Claimed
  and refers back to it. A device has a reference exactly when it is Claimed. A device
  leaves its claim only when the stored claim is deleted and its owners have removed
  their finalizers, although the test is made on a copy (`OwnersFirst`).
* **Cleanup.** An Unclaimed device has no data of an earlier claim. No cleanup runs
  on a Claimed device. Deleting a BD by hand never removes one in use. Every step
  is a step of the abstract lifecycle.
* **Progress.** A deleted claim goes, a released device is freed, a claim is served
  when a device suits it, a legacy device gets its finalizer.
* **Events.** At rest, if nothing was lost, every device of the node that can be named has an Active BD
  with its path (`PresentIsActive`) and every Active BD a device
  (`ActiveIsPresent`). The handler of a device never touches the claimed BD of
  another disk, even when virtual disks have swapped their paths
  (`ClaimKeepsDisk`). A partition table is written only to the disk that was opened, never
  over a table or a file system that was there when NDM looked for it (`NoOverwrite`);
  what is put there between the look and the write is overwritten. The pipeline comes
  to rest (`ComesToRest`).
* **Start.** No device passes before the filters are there (`FiltersFirst`). A device
  is missed only if the first scan was refused or the device came in the window before
  the monitor receives (`DevicesKnown`). Sparse devices that every scan could see
  survive restarts (`SparseActive`). No start hangs (`StartsUp`).
* **Mounts.** Mount points in BDs catch up with the node (`MountsReported`), and the
  difference of two tables is exact (`DiffIsExact`).
* **Algorithms.** `SelectsFirstSuitable`, `OSDiskExact`, `FamilyConsistent`,
  `DetailsFromAnySource`, `UsedByRight`, `CapacityExact`, `PartitionFits`,
  `GatesRight`.
* **Services.** `OneCollection` and `AnswerOfOneList` for scrapes,
  `SuccessMeansUpgraded` and `EditsKept` for upgrades,
  `ReplyOfOwnList` for list requests, `DescriptorsClosed` for SCSI calls.

`ComesToRest` has two exceptions, which the code does not rule out. A disk that has
a table but no partition is an error each time it is handled, and each error asks
for a scan: the comment in `uuid.go:52-54` says that NDM rewrites such a table, but
`partition.go:132-136` and `176-180` give up. And a scan empties the hierarchy cache while the listener works on the
message of the scan before, which can repeat.

**Bounds.** In `core`, two claims compete for a device, and two devices let a claim
take the wrong one. A worker holds one claim and one device at a time, so more of
either repeats these cases; the proofs confirm it for the safety properties. One
fault breaks any handler between any two of its calls. Two daemon calls are a
discovery and one concurrent write. `core` uses symmetry, which is sound because it
checks invariants and one property of single steps, and the members of the sets are treated alike.

In `events`, each start gives a budget of hardware changes, claims, faults and
scans of the API, at most two in sum. Two is what the races need: one event whose
message is on its way while another happens, or one event and one failure. The
starts are disks with identifiers (`WwnDisks`), change detection (`Changes`), disks
on which NDM writes a table (`BlankDisks`), devices used by storage engines
(`Engines`), the old naming scheme (`OldScheme`), a volume (`Volume`), and a first
scan before the probes are registered (`FirstScan`).

In `node`, the bounds are those of `MC_node.cfg`. Two scrapes, requests, claims and
mounts are the smallest numbers that interfere. The sizes in `DiskGeometry` lie
around each boundary: the tables, the first megabyte, and the largest address of
READ CAPACITY(10), which is scaled to 6000 blocks.

**Deadlock** is checked in `events`: a state where nothing can happen must be a
quiet one. The other runs do not check it, because claims, calls and edits are
bounded and the instance ends when they are used up. `StartsUp` and the liveness
properties of the operator say that nothing stops too early.

**Fairness.** In `NDM` each reconcile has strong fairness per key: the work queue
is first in, first out with one worker, and the manager's `SyncPeriod` puts every
object back into it. A handler that has begun has weak fairness, and so have the
cache, the garbage collector and the end of a Job. In `DaemonEvents` and
`DaemonLife` the daemon as a whole has weak fairness: if one of its goroutines can
run, one does, which is what the Go scheduler gives. `events` uses `StepSpec`,
which states of that fairness only what TLC needs: behaviours do not stop where a
step of the daemon is possible. Nothing is assumed of users, hardware or faults.

### Runs that find a violation

Each is a disagreement between the code and what its comments or documents say,
quoted in `PROJECT.json`.

| Run | Property | What happens |
|---|---|---|
| `lingering_job` | `UnclaimedIsClean` | A Job deleted in the foreground still shows its success when the device is released again, and the device is freed without cleanup. |
| `stale_cleanup` | `NoCleanupInUse` | The cleaner acts on a cached device and starts a Job after the device was claimed again. |
| `second_device` | `OneDevicePerClaim` | The update of the claim is refused after its device was taken, and the retry takes a second device. |
| `release_retry` | `DeletedClaimGoes` | The device is released but the finalizer could not be removed. The retry finds no device and fails forever. |
| `orphan` | `ClaimedDeviceBinds` | A claim deleted between the two writes leaves a device Claimed forever. |
| `overlap` | `NoOverlap` | A rescan of the node API is under way when a disk gets a partition. The partition's event deactivates the BD of the disk; the rescan's message then finds that BD Unclaimed and makes it Active again without a look at the partitions (`addhandler.go:246`). Disk and partition are both on offer. No call fails. |

The passing runs stay clear of these cases: `UnclaimedIsClean` is checked without
lingering Jobs, `NoCleanupInUse` without a lagging cache and `DeletedClaimGoes`
without faults. The theorems about cleanup assume the same.

### Other observations

No run is about these, but the models contain them or are restricted by them:

* `changehandler.go:78`: a device annotated not to be reconciled is read with Get
  and updated all the same. `Disabled` is the set of annotated objects. The proofs
  cover every `Disabled`; the runs leave it empty.
* `blockdevicestore.go:212`: the loop that removes annotated devices from a list
  skips the element after each one it removes.
* `jobcontroller.go:116`: a Job keeps the path that its device had when the Job was
  made.
* `pkg/metrics/smart/metrics.go:373,385`: the setters of the highest and the lowest
  temperature's validity write the gauge of the current one, so none of the three is
  what its Help text says. `Series` in `Exporter` does so too, and `AnswerOfOneList`
  does not speak of validity.
* No series of the exporter is ever removed. The series of a device that is gone, or
  that was at another path, is answered as it was last set; `AnswerOfOneList` speaks of
  the labels of the scrape's own list. In node mode sparse devices, which are not read,
  get series of zeros; the property leaves them out.
* `ataidentify.go:59-69`: an ATA disk with logical blocks of 4096 bytes is reported
  with 512. `PartitionFits` excludes disks whose block size is read wrong.
* `usedbyprobe.go:138-146`: an error of the cStor check counts as in use by cStor.
* `usedbyprobe.go`: a use that was found is kept in the cache and never taken back by
  a later event; `UsedByRight` says so.
* A change event runs the udev probe but not blkid, and sets the file system to what
  udev says, nothing included, over what blkid or the mount probe had found.
  `DetailsFromAnySource` speaks of the sources of the probes of the event.
* `osdiskexcludefilter.go`: for a root on a mapper device that device is excluded; the
  disks under it are not looked for. The path filter excludes loop devices by default
  and no longer when it is configured, even with empty lists. `OSDiskExact` says both.
* `partition.go:138-147`: the file system is looked for by path while the table is
  read from and written to the open disk.
* `listBlockDevice.go:258`: a partition belongs to every disk whose name occurs in
  its own, so `sdaa1` is listed under `sda`. `ReplyOfOwnList` asks only that a disk
  has its own partitions.
* `udevprobe.go:161`: a scan that finds another one in progress is dropped.

## The proofs

The assumptions are those of the constants, named in the module that declares them
(`StoreAssumption`, `FitsAssumption`, `EventsAssumption`, `StartAssumption`,
`LifeAssumption`, `MountAssumption`, `UpgradeAssumption`, `SelectionAssumption`,
`GeometryAssumption`, `ExporterAssumption`, `ProbeAssumption`, `SmartAssumption`,
`ApiAssumption`, `TokenAssumption`). Most say that sets are disjoint or contained in each other, that
`None` is in none of them, that bounds are natural numbers. Three say more:

* `StartAssumption`: a node has finitely many devices; in every start a partition or a
  volume is on a disk, a disk with a partition has a table, and the BDs in the API
  server are well-formed resources under names of the daemon's two schemes.
* `ProbeAssumption`: every probe has a priority (the constants of the `init` functions).
* `ApiAssumption`: the name of a disk occurs in the names of its own partitions.

The theorems hold for all such constants.

**Types** (`OwnershipProofs`). `TypeCorrect`: `Spec => []TypeOK`. `TypeOK` includes what a
worker holds at each step: a worker about to release a device has one in hand,
which is the nil check of `releaseClaimedBlockDevice`.

**Ownership** (`OwnershipProofs`). Under `NoLegacyDeletes`, `Ownership` and
`ClaimReferences` prove `BoundBacked` and `ClaimRefMatchesState`, with any number of
faults and daemon calls and a lagging cache. `NoLegacyDeletes` excludes legacy
objects together with deletes of BDs by hand: a device of an earlier release has no
finalizer until the BD controller adds it. `BoundBacked` is not inductive.
`OwnershipInv` adds what makes it so:

1. *Copies* (`CopiesCurrent`): a copy that may still be written equals the stored
   object. A successful update therefore starts from the object it replaces, even
   if it was read from a stale cache.
2. *History* (`ClaimHistory`): a claim is created once, and what the cache shows as
   deleted is deleted. Without this, a stale copy could justify a release.
3. *Workers* (`ClaimWorkerInv`, `DeviceWorkerInv`): between the two writes of a
   claim, the device still refers to that claim. A worker on the release path
   works for a claim that is gone. The cleaner holds a copy in state Released.
4. *Protection* (`DeviceProtected`): where BDs can be deleted by hand, one in use
   has its finalizer.

The proof reduces every action to a few shapes of change of one device
(`DeviceStep`) and one claim (`ClaimStep`), one lemma per action, and shows that
each shape preserves each conjunct. The run `stale` checks `OwnershipInv`.

**Cleanup and lifecycle** (`CleanupProofs`). Under `NoLegacyDeletes` and `Prompt`
(neither `"cacheLag"` nor `"jobLingers"` is in `Env`) the theorems
`CleanBeforeReuse`, `CleanupOffClaimed` and `FinalizerProtects` prove
`UnclaimedIsClean`, `NoCleanupInUse` and `ProtectedFromDeletion`. Without `Prompt`
the first two fail, as the runs `lingering_job` and `stale_cleanup` show.
`CleanupInv` adds to `OwnershipInv`:

1. A Job exists only on a Released device, and if it has succeeded the device is
   clean (`JobsOnReleased`).
2. A Claimed device has data, an Unclaimed or absent one has none
   (`DataOnlyInUse`).
3. While the cleaner works, its device is Released; when it is about to delete the
   Job, the Job has succeeded; when it is about to free the device, the Job is gone
   and the device is clean (`CleanerInv`).

One lemma per action shows that a step moves at most one device (`DeviceMove`), or
the cleaner (`CleanerMove`), or ends a Job (`JobEnds`). One lemma per kind of move
shows that the invariant is kept. `LifecycleImplemented` then proves
`ImplementsLifecycle`, the refinement of `DeviceLifecycle`: each kind of device
move is one action of the lifecycle or a stutter, and the end of a Job is `Wipe`.

**Event pipeline** (`EventProofs`). `EventsTyped` proves `TypeOK` and
`EventsNoOverwrite` the action property `NoOverwrite`, for all devices, gates, starts
and bounds. `EventsNoOverwrite` follows the open disk through the three steps: `FdOK`
relates `fd` to the hardware, to the listener and to what came late. `TypeOK` is not
inductive: that a push has a name depends on what the
monitor or a scan put into the message long before. `EventInv` adds:

1. *Hardware* (`HwOK`): what `StartAssumption` says of a start stays true. A partition
   that is there is on a disk that is there and has a table, so the write to an open
   disk reaches nothing but that disk and its own partitions.
2. *Messages* (`MsgOK`, `ScanOK`): events and lists hold devices, and without the GPT
   gate a device to be added has its name before the listener gets it (`Named`).
3. *Listener* (`LstOK`): it has a device whenever a handler takes the first one, and
   the list it read names only BDs that still exist. A BD is never removed by the
   daemon, so what is left to deactivate exists.

A lemma per decision (`handleUnmanagedDevices`, `upgradeBD`, `addIdentified`, ...)
shows that its plan is well formed (`PlanOK`), and one per action that `EventInv` is
kept.

**Start and shutdown** (`LifeProofs`). `LifeDevicesKnown`, `LifeSparseActive` and
`LifeFiltersFirst`, for any number of devices, sparse files, calls, crashes and
restarts. `LifeInv`: the phase of main says which filters there are (`StartOrder`);
once the first scan has looked an attached device is known, in that scan or in `unseen`
(`ScanOfMain`); a sparse file is found by a running scan or was made too late for it
(`ScanKeeps`); those that main is done with are Active or excused (`SparseDone`).

**Mount probe** (`MountProofs`). `MountReports` and `MountDiff`, for mounts files of any
length. `DiffIsExact` is a fact about `GenerateDiff` on two tables. `MountInv` says where
a change may be on its way: a device is up to date, or about to be read again, or
differs in the table while an event is pending (`Tracked`).

**Filters** (`FilterProofs`). `FiltersExact` and `FamiliesConsistent` prove
`OSDiskExact` and `FamilyConsistent`, for names and mounts files of any length and any
number of disks and partitions. They are about the nodes that satisfy `NodeOK`:

1. *Disks*: a disk has one of the kinds the model knows, and sysfs has a path for it
   and for each of its partitions, and no others.
2. *Names* (`NamesTell`): a name belongs to one device, and a device that is called
   like a partition of another one (`sda1`, `nvme0n1p1`) is one. The kernel names
   devices that way; the patterns of `Exclude` rest on it.
3. *Mounts* (`MountsTell`): the lines of a mounts file for a mount point lead, by
   name or through the root device of the command line, to the device mounted there;
   others are mapper names that no longer lead anywhere, which the code skips.

`MCNode` assumes `NodeOK` of each of its nodes (`SystemsAreNodes`), so TLC evaluates it
on all of them. The argument goes along the code. A sysfs path has one of two lengths, and
the component after `block` or two after `nvme` is its disk (`ParentIs`). The first
line that has a name leads to the mounted device (`LineLeads`, `FileLeads`), so `Start`
collects exactly the names wanted (`StartFinds`). A name matches the pattern of another
if and only if it is that name or one of a partition (`MatchIs`), which by `NamesTell`
is one of the same disk (`MatchIsKin`). `FilterInv` keeps what `Start` found, and the
verdicts, until the end.

**Upgrade** (`ToolProofs`). `UpgradeInv`: a copy that is not outdated equals the
stored claim, and the claims that the task has passed are upgraded. From it
`UpgradeComplete` and `UpgradeKeepsEdits`, for any number of claims, edits, failures
and runs.

**Selection** (`ToolProofs`). `SelectionCorrect`: for device lists of any
length the pipeline picks the first suitable device. Each filter keeps the order of
the list; the two that keep a single device come after all filters that could
reject it.

**Exporter** (`ToolProofs`). `ExporterExclusive` and `ExporterAnswers`, for any
number of scrapes and devices. `ExporterInv`: the flag is set exactly while a scrape
is inside, and the gauges that the scrape has set hold what its list and its readings
said, under labels that no other device of the list has.

**List service** (`LifeProofs`). `ApiReplies`, for any number of requests. `ApiInv`: as
long as no other request wrote into the shared variable, the fields a request has
written hold its own list, and its reply is made of the fields it has read.

**Geometry** (`DiskProofs`). `GeometryCapacity` and `GeometryPartition`, for
disks of every size and every word that is large enough. `GeometryInv` relates what
was read, and the sectors computed from it, to the disk.

**Probes** (`DiskProofs`). `ProbeDetails` and `ProbeUse`, for all answers of all sources
and every set of enabled probes. `ProbeInv`: the probes that have run are closed
downwards in the order of priorities, and each detail is known as soon as one of its
sources has been asked.

**SCSI access** (`DiskProofs`). `SmartDescriptors`, for any number of calls. `SmartInv`:
besides the current call only blind ones hold a descriptor, and the commands still to
be sent fill in what is missing.

**Feature gates** (`DiskProofs`). `GatesAreRight`, for command lines of any length and
every order of the map. `GateInv`: during validation a gate is what was asked until
its turn comes and right afterwards, and what is memoized is right.

Only model-checked:

* `OwnersFirst`, which needs `OwnershipInv` extended by what a worker on the release
  path knows of the finalizers of its claim.
* All liveness, which the prover does not support under fairness.
* `PresentIsActive` and `ActiveIsPresent`: they speak of the pipeline at rest, and an
  invariant for them has to follow every device through queue, monitor, scan, listener
  and API server at once.
* `ClaimKeepsDisk`: it rests on how the starts were written, in particular on which
  BDs carry an annotation. A start with a legacy BD of another disk under the same
  name satisfies `StartAssumption` and not the property.

## Not modelled

* The decoding of the daemon's configuration file: its lists and flags are inputs
  of the filters and probes.
* The gRPC services that read or write one file or ask one library and keep no
  state, and the gRPC server.
* C bindings and raw device access (udev, SeaChest, blkid, SPDK), the layout of
  SCSI and ATA pages, `GetDeviceType` and `GetDriveType`: pure I/O, whose answers
  are inputs.
* Generated code, logging, Kubernetes events, links, labels and descriptive fields
  of BDs, and the pod template of the Job.
* Code without a caller or that never runs: `DeleteBlockDevice`, `Unsubscribe`, and
  stopping epoll.
* A second operator. Leader election is off by default, so two may overlap during a
  rollout. Ownership rests on resource versions, which both respect. The cleanup
  properties already fail with one operator whose cache lags.
