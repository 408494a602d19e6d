----------------------------- MODULE MountWatch -----------------------------
(***************************************************************************)
(* The mount probe of the daemon (mountprobe.go), which keeps the mount    *)
(* points of the BlockDevices up to date: the kernel marks the mounts file *)
(* as changed, the epoll goroutine (pkg/epoll) passes an event on, the     *)
(* probe compares the file with the table it read last (pkg/mount/         *)
(* libmount) and sends the devices that differ to the listener, which      *)
(* reads the file once more for each of them (changehandler.go).           *)
(***************************************************************************)
EXTENDS Naturals, Sequences, FiniteSets, Functions

CONSTANTS
    Source,      \* what is mounted
    DevSource,   \* the sources under /dev/, which are devices
    Target,      \* where it is mounted
    DenyTarget,  \* the targets of pods and containers, which are filtered out
    MaxMounts,   \* bound on the entries of the mounts file
    MaxChanges,  \* bound on mounts and unmounts
    MaxErrors    \* bound on failed reads and writes

Idle == "idle"   \* the listener is writing no device

ASSUME MountAssumption ==
    /\ DevSource \subseteq Source /\ DenyTarget \subseteq Target
    /\ MaxMounts \in Nat /\ MaxChanges \in Nat /\ MaxErrors \in Nat
    /\ Idle \notin DevSource

VARIABLES
    mounts,  \* the mounts file, in the order of the mounts
    armed,   \* the epoll instance watches the file
    marked,  \* the file changed since epoll_wait last reported it
    events,  \* events in the channel of epoll (buffered)
    waiter,  \* the epoll goroutine: off, waiting, or with an event to send
    tab,     \* mountProbe.mountTable
    probe,   \* the goroutine of the probe: [pc, all, srcs]
    cached,  \* the mount points of the devices in BDHierarchy
    stored,  \* the mount points of their BlockDevices
    todo,    \* the devices of the message the listener is at
    writing, \* the device the listener is about to write
    changes, \* mounts and unmounts so far
    errors,  \* failed calls so far
    missed   \* a failure the probe does not come back to

mountVars == <<mounts, armed, marked, events, waiter, tab, probe, cached, stored,
               todo, writing, changes, errors, missed>>

BufferSize == 1   \* 10 in the code
NoTable == <<>>   \* a nil table is treated as one without entries

\* the filters of the probe: the source is a device, the target is not a pod's
applyFilters(f) == f.source \in DevSource /\ f.target \notin DenyTarget

\* the entries that pass the filters, each at its line of the file
newMountTable == [i \in {j \in DOMAIN mounts : applyFilters(mounts[j])} |-> mounts[i]]

\* MountTab.Find by source and target
Find(table, f) == \E i \in DOMAIN table : table[i] = f

\* GenerateDiff: an entry that came and one that went are paired as a move when
\* they have the same source and id; the parser sets no id, so the pairs are made
\* in the order of the tables.  It sets no options either: nothing is a remount.
GenerateDiff(oldTab, newTab) ==
    LET came == {i \in DOMAIN newTab : ~Find(oldTab, newTab[i])}
        went == {j \in DOMAIN oldTab : ~Find(newTab, oldTab[j])}
        rank(table, lines, i) ==
            Cardinality({j \in lines : j <= i /\ table[j].source = table[i].source})
        paired(i, j) == /\ newTab[i].source = oldTab[j].source
                        /\ rank(newTab, came, i) = rank(oldTab, went, j) IN
    {[action |-> "move", old |-> oldTab[p[2]], new |-> newTab[p[1]]] :
        p \in {q \in came \X went : paired(q[1], q[2])}}
    \cup {[action |-> "mount", new |-> newTab[i]] :
            i \in {i \in came : \A j \in went : ~paired(i, j)}}
    \cup {[action |-> "umount", old |-> oldTab[j]] :
            j \in {j \in went : \A i \in came : ~paired(i, j)}}

\* A variant that forgets the sources that are only unmounted
ListMounted(diff) == {e.new.source : e \in {e \in diff : e.action # "umount"}}

\* ListSources: the devices of the diff
ListSources(diff) ==
    {IF e.action = "umount" THEN e.old.source ELSE e.new.source : e \in diff}

\* DeviceBasicMountInfo: the mount points of a device, from the whole file
DeviceBasicMountInfo(s) == {f.target : f \in {g \in Range(mounts) : g.source = s}}

----------------------------------------------------------------------------
\* The kernel

\* a change takes back one that the probe has not read: its table shows neither,
\* and a device that was filled in between is not filled again
Of(s, table) == {f \in Range(table) : f.source = s}
Undone == \E s \in DevSource : Of(s, newMountTable') = Of(s, tab) /\ Of(s, newMountTable) # Of(s, tab)

Change ==
    /\ changes < MaxChanges /\ changes' = changes + 1
    /\ \/ /\ Len(mounts) < MaxMounts
          /\ \E s \in Source, t \in Target :
               /\ ~Find(mounts, [source |-> s, target |-> t])
               /\ mounts' = Append(mounts, [source |-> s, target |-> t])
       \/ \E i \in DOMAIN mounts :
            mounts' = SubSeq(mounts, 1, i - 1) \o SubSeq(mounts, i + 1, Len(mounts))
    /\ marked' = armed
    /\ missed' = (missed \/ Undone)
    /\ UNCHANGED <<armed, events, waiter, tab, probe, cached, stored, todo, writing, errors>>

\* a call fails
Err == errors < MaxErrors /\ errors' = errors + 1

----------------------------------------------------------------------------
\* The epoll goroutine (Epoll.listen, dispatchEvent)

\* the file is added to the interest list; Start runs the goroutine
AddWatcher == armed' = TRUE
EpollStart == waiter' = "wait"

\* epoll_wait reports the file once for all changes up to now
EpollWait ==
    /\ waiter = "wait" /\ marked
    /\ waiter' = "send" /\ marked' = FALSE
    /\ UNCHANGED <<mounts, armed, events, tab, probe, cached, stored, todo, writing,
                   changes, errors, missed>>

EpollSend ==
    /\ waiter = "send" /\ events < BufferSize
    /\ events' = events + 1 /\ waiter' = "wait"
    /\ UNCHANGED <<mounts, armed, marked, tab, probe, cached, stored, todo, writing,
                   changes, errors, missed>>

----------------------------------------------------------------------------
\* The probe (Start, listen, processDiff)

\* setupEpoll: a failure ends the probe
setupEpoll ==
    /\ probe.pc = "setup"
    /\ \/ AddWatcher /\ probe' = [probe EXCEPT !.pc = "table"] /\ UNCHANGED <<errors, missed>>
       \/ /\ Err /\ missed' = TRUE /\ probe' = [probe EXCEPT !.pc = "off"]
          /\ UNCHANGED armed
    /\ UNCHANGED <<mounts, marked, events, waiter, tab, cached, stored, todo, writing, changes>>

\* the first table, then Epoll.Start
StartListening ==
    /\ probe.pc = "table"
    /\ \/ /\ tab' = newMountTable /\ EpollStart
          /\ probe' = [probe EXCEPT !.pc = "loop"] /\ UNCHANGED <<errors, missed>>
       \/ /\ Err /\ missed' = TRUE /\ probe' = [probe EXCEPT !.pc = "off"]
          /\ UNCHANGED <<tab, waiter>>
    /\ UNCHANGED <<mounts, armed, marked, events, cached, stored, todo, writing, changes>>

\* A variant that sends the diff only when the file cannot be read
HandleEventDiffOnly ==
    /\ probe.pc = "loop" /\ events > 0
    /\ events' = events - 1
    /\ \/ tab' = newMountTable /\ UNCHANGED errors
       \/ Err /\ tab' = NoTable
    /\ LET srcs == ListSources(GenerateDiff(tab, tab')) IN
       probe' = [pc |-> IF srcs = {} THEN "loop" ELSE "send", all |-> FALSE, srcs |-> srcs]
    /\ UNCHANGED <<mounts, armed, marked, waiter, cached, stored, todo, writing, changes, missed>>

\* one event: the new table replaces the old one and the devices of the diff are
\* sent.  When the file cannot be read, a message for all devices goes first, and
\* the new table is empty.
HandleEvent ==
    /\ probe.pc = "loop" /\ events > 0
    /\ events' = events - 1
    /\ \/ /\ tab' = newMountTable
          /\ LET srcs == ListSources(GenerateDiff(tab, newMountTable)) IN
             probe' = [pc |-> IF srcs = {} THEN "loop" ELSE "send", all |-> FALSE, srcs |-> srcs]
          /\ UNCHANGED errors
       \/ /\ Err /\ tab' = NoTable
          /\ probe' = [pc |-> "send", all |-> TRUE, srcs |-> ListSources(GenerateDiff(tab, NoTable))]
    /\ UNCHANGED <<mounts, armed, marked, waiter, cached, stored, todo, writing, changes, missed>>

----------------------------------------------------------------------------
\* The listener, one device at a time

Known == DOMAIN cached

\* a message of the probe: all devices, or those of the diff that are cached
Receive ==
    /\ todo = {} /\ writing = Idle /\ probe.pc = "send"
    /\ todo' = IF probe.all THEN Known ELSE probe.srcs \cap Known
    /\ probe' = [pc |-> IF probe.all /\ probe.srcs # {} THEN "send" ELSE "loop",
                 all |-> FALSE, srcs |-> IF probe.all THEN probe.srcs ELSE {}]
    /\ UNCHANGED <<mounts, armed, marked, events, waiter, tab, cached, stored, writing,
                   changes, errors, missed>>

\* an add event of a device: all probes fill it, this one has started before them.
\* The cache takes the details, then the BlockDevice is written.
AddDevice(s) ==
    /\ todo = {} /\ writing = Idle /\ probe.pc \notin {"setup", "table"}
    /\ s \in DevSource \ Known
    /\ cached' = [d \in Known \cup {s} |-> IF d = s THEN DeviceBasicMountInfo(s) ELSE cached[d]]
    /\ writing' = s
    /\ UNCHANGED <<mounts, armed, marked, events, waiter, tab, probe, stored, todo,
                   changes, errors, missed>>

\* changeBlockDevice: fill, compare with the cache, and write what has changed; a
\* file that cannot be read changes nothing
changeBlockDevice(s) ==
    /\ writing = Idle /\ s \in todo
    /\ todo' = todo \ {s}
    /\ \/ /\ cached' = [cached EXCEPT ![s] = DeviceBasicMountInfo(s)]
          /\ writing' = IF cached' = cached THEN Idle ELSE s
          /\ UNCHANGED <<errors, missed>>
       \/ Err /\ missed' = TRUE /\ UNCHANGED <<cached, writing>>
    /\ UNCHANGED <<mounts, armed, marked, events, waiter, tab, probe, stored, changes>>

\* UpdateBlockDevice: a failure is only logged, and the cache has the new details
UpdateBlockDevice ==
    /\ writing # Idle /\ writing' = Idle
    /\ \/ stored' = [stored EXCEPT ![writing] = cached[writing]] /\ UNCHANGED <<errors, missed>>
       \/ Err /\ missed' = TRUE /\ UNCHANGED stored
    /\ UNCHANGED <<mounts, armed, marked, events, waiter, tab, probe, cached, todo, changes>>

----------------------------------------------------------------------------
MountInit(initial) ==
    /\ mounts \in initial
    /\ armed = FALSE /\ marked = FALSE /\ events = 0 /\ waiter = "off"
    /\ tab = NoTable /\ probe = [pc |-> "setup", all |-> FALSE, srcs |-> {}]
    /\ cached = <<>> /\ stored = [s \in DevSource |-> {}]
    /\ todo = {} /\ writing = Idle
    /\ changes = 0 /\ errors = 0 /\ missed = FALSE

MountNext ==
    \/ Change \/ EpollWait \/ EpollSend
    \/ setupEpoll \/ StartListening \/ HandleEvent
    \/ Receive \/ UpdateBlockDevice
    \/ \E s \in DevSource : AddDevice(s) \/ changeBlockDevice(s)

\* every mounts file at the start
MountEntry == [source: Source, target: Target]
MountSpec == MountInit(Seq(MountEntry)) /\ [][MountNext]_mountVars

MountRest ==
    /\ (marked => waiter = "off") /\ events = 0 /\ waiter # "send" /\ probe.pc \in {"loop", "off"}
    /\ todo = {} /\ writing = Idle

\* MountsReported: when the probe has come to rest and no failure was given up on,
\* the BlockDevice of every known device has the mount points of the device, but
\* for the filtered ones, although the file changes while it is read and a read of
\* it may fail
MountsReported ==
    MountRest /\ ~missed =>
        \A s \in Known : stored[s] \ DenyTarget = DeviceBasicMountInfo(s) \ DenyTarget

\* DiffIsExact: the diff of the table with the file has a source exactly when its
\* mount points have changed, and turns the one into the other
DiffIsExact ==
    LET diff == GenerateDiff(tab, newMountTable)
        came == {e.new : e \in {e \in diff : e.action # "umount"}}
        went == {e.old : e \in {e \in diff : e.action # "mount"}} IN
    /\ (Range(tab) \ went) \cup came = Range(newMountTable)
    /\ ListSources(diff) = {s \in Source : \E f \in (Range(tab) \ Range(newMountTable))
                               \cup (Range(newMountTable) \ Range(tab)) : f.source = s}
=============================================================================
