----------------------------- MODULE LifeProofs -----------------------------
(***************************************************************************)
(* The start of the daemon, for every number of devices and of sparse      *)
(* files and any number of calls, failures, signals and crashes: no device *)
(* passes before the filters are there, none is overlooked outside the     *)
(* window in which the monitor starts, and a scan leaves the BlockDevices  *)
(* of the sparse files it found alone.  And the list service that runs in  *)
(* the daemon, for any number of requests.                                 *)
(***************************************************************************)
EXTENDS DaemonLife, NodeAPI, TLAPS

Phases == {"off", "new", "options", "filters", "udev", "enter", "scan", "sparse", "run",
           "unknown"}
ScanState == [pc: {"idle", "dir", "list", "deactivate", "send"}, seen: SUBSET NodeDisk,
              keep: SUBSET SparseFile, todo: SUBSET SparseFile, late: SUBSET SparseFile]

LifeTypes ==
    /\ phase \in Phases /\ filters \in 0..FilterCount
    /\ scans \in [ScanCaller -> ScanState]
    /\ attached \in SUBSET NodeDisk /\ known \in SUBSET NodeDisk /\ unseen \in SUBSET NodeDisk
    /\ files \in SUBSET SparseFile /\ at \in SUBSET SparseFile
    /\ sbd \in [SparseFile -> {"none", "Active", "Inactive", "Unknown"}]

\* the udev probe has started its goroutines
Probing == phase = "enter" \/ Looked

\* how far main is says which filters there are, whether the listener runs and whether
\* the monitor has been started
StartOrder ==
    /\ phase \in {"off", "new", "options"} => filters = 0
    /\ phase = "filters" => filters < FilterCount
    /\ phase \notin {"off", "new", "options", "filters"} => filters = FilterCount
    /\ listening <=> Probing
    /\ Probing => monitor \in {"starting", "on"}

\* main scans in one phase only, and the devices of a running scan are not lost
ScanOfMain ==
    /\ scans["main"].pc # "idle" => phase = "scan"
    /\ \A r \in ScanCaller : scans[r].pc = "idle" => scans[r].seen = {}
    /\ Looked /\ ~skipped => attached \subseteq known \cup scans["main"].seen \cup unseen

\* a file is found by a scan or noted as made too late for it; there is none while
\* the process is down
ScanKeeps ==
    \A r \in ScanCaller :
      /\ phase = "off" => scans[r].pc = "idle"
      /\ scans[r].pc \in {"list", "deactivate"} => files \subseteq scans[r].keep \cup scans[r].late
      /\ scans[r].todo \cap scans[r].keep = {}
      /\ scans[r].pc \in {"dir", "list"} => scans[r].todo = {}

\* the files main is done with
SparseDone ==
    /\ phase = "run" => at = {}
    /\ phase \in {"sparse", "run"} =>
         \A i \in files : i \in at \/ i \in excused \/ sbd[i] = "Active"

LifeInv == LifeTypes /\ StartOrder /\ ScanOfMain /\ ScanKeeps /\ SparseDone

\* the invariants of the run follow
LEMMA LifeInvImplies == LifeInv => DevicesKnown /\ SparseActive
  BY DEF LifeInv, LifeTypes, ScanOfMain, SparseDone, DevicesKnown, SparseActive, AtRest,
         Probing, Looked, ScanCaller

\* The daemon starts in the invariant: no process, no file, no BlockDevice.
LEMMA LifeInitial == LifeInit(SUBSET NodeDisk, LifeBounds) => LifeInv
<1> SUFFICES ASSUME LifeInit(SUBSET NodeDisk, LifeBounds) PROVE LifeInv
  OBVIOUS
<1>1. noScan \in ScanState
  BY DEF noScan, ScanState
<1>2. \A r \in ScanCaller : scans[r] = noScan /\ scans[r].pc = "idle" /\ scans[r].seen = {}
                           /\ scans[r].todo = {}
  BY DEF LifeInit, noScan
<1>3. LifeTypes
  <2>1. scans \in [ScanCaller -> ScanState]
    BY <1>1 DEF LifeInit
  <2>2. sbd \in [SparseFile -> {"none", "Active", "Inactive", "Unknown"}]
    BY DEF LifeInit
  <2>3. QED
    BY <2>1, <2>2 DEF LifeInit, LifeTypes, Phases, FilterCount
<1>4. StartOrder /\ SparseDone
  BY DEF LifeInit, StartOrder, SparseDone, Probing, Looked
<1>5. ScanOfMain /\ ScanKeeps
  BY <1>2 DEF LifeInit, ScanOfMain, ScanKeeps, Probing, Looked, ScanCaller
<1>6. QED
  BY <1>3, <1>4, <1>5 DEF LifeInv

\* The end of the process, by a signal, a crash or a fatal error, keeps the invariant.
LEMMA ExitKeeps ==
    ASSUME LifeInv, Exit, UNCHANGED <<attached, files, sbd, unseen>>
    PROVE  LifeInv'
<1>1. noScan \in ScanState /\ noScan.pc = "idle" /\ noScan.seen = {} /\ noScan.todo = {}
  BY DEF noScan, ScanState
<1>2. LifeTypes'
  <2>1. scans' \in [ScanCaller -> ScanState]
    BY <1>1 DEF Exit
  <2>2. QED
    BY <2>1 DEF LifeInv, LifeTypes, Exit, Phases, FilterCount
<1>3. (StartOrder /\ SparseDone)'
  BY DEF Exit, StartOrder, SparseDone, Probing, Looked
<1>4. (ScanOfMain /\ ScanKeeps)'
  BY <1>1 DEF Exit, ScanOfMain, ScanKeeps, Probing, Looked, ScanCaller
<1>5. QED
  BY <1>2, <1>3, <1>4 DEF LifeInv

\* The steps of a scan.
LEMMA ScanStepKeeps ==
    ASSUME LifeInv, NEW r \in ScanCaller, ScanStep(r)
    PROVE  LifeInv'
<1> USE DEF LifeInv
<1>0. scans[r] \in ScanState
  BY DEF LifeTypes
<1>1. CASE GetActiveSparse(r)
  <2>0. PICK new \in ScanState :
          /\ scans' = [scans EXCEPT ![r] = new]
          /\ new.pc = "list" /\ new.seen = scans[r].seen /\ new.todo = scans[r].todo
          /\ files \subseteq new.keep \cup new.late /\ new.todo \cap new.keep = {}
    <3> DEFINE found == [scans[r] EXCEPT !.pc = "list", !.keep = files]
               blind == [scans[r] EXCEPT !.pc = "list", !.late = SparseFile]
    <3>1. files \in SUBSET SparseFile /\ SparseFile \in SUBSET SparseFile
      BY DEF LifeTypes
    <3>2. scans[r].todo = {}
      BY <1>1 DEF GetActiveSparse, ScanKeeps
    <3>3. /\ found \in ScanState /\ found.pc = "list" /\ found.seen = scans[r].seen
          /\ found.todo = scans[r].todo /\ found.keep = files
      BY <1>0, <3>1 DEF ScanState
    <3>4. /\ blind \in ScanState /\ blind.pc = "list" /\ blind.seen = scans[r].seen
          /\ blind.todo = scans[r].todo /\ blind.late = SparseFile
      BY <1>0, <3>1 DEF ScanState
    <3>5. scans' = [scans EXCEPT ![r] = found] \/ scans' = [scans EXCEPT ![r] = blind]
      BY <1>1, Zenon DEF GetActiveSparse
    <3> HIDE DEF found, blind
    <3>6. QED
      BY <3>1, <3>2, <3>3, <3>4, <3>5
  <2>1. /\ scans'[r] = new /\ \A q \in ScanCaller \ {r} : scans'[q] = scans[q]
    BY <2>0 DEF LifeTypes
  <2>2. LifeTypes'
    BY <1>1, <2>0 DEF GetActiveSparse, LifeTypes
  <2>3. ScanOfMain'
    <3>1. \A q \in ScanCaller : /\ scans'[q].pc # "idle" => scans[q].pc # "idle"
                                /\ scans'[q].pc = "idle" => scans[q].pc = "idle"
                                /\ scans'[q].seen = scans[q].seen
      BY <1>1, <2>0, <2>1 DEF GetActiveSparse
    <3>2. QED
      BY <1>1, <3>1, Zenon DEF GetActiveSparse, ScanOfMain, Probing, Looked, ScanCaller
  <2>4. ScanKeeps'
    BY <1>1, <2>0, <2>1 DEF GetActiveSparse, ScanKeeps
  <2>5. QED
    BY <1>1, <2>2, <2>3, <2>4 DEF GetActiveSparse, StartOrder, SparseDone, Probing, Looked
<1>2. CASE ListStale(r)
  <2>0. PICK pc \in {"deactivate", "send"}, td \in {scans[r].todo,
                        {i \in SparseFile : sbd[i] # "none"} \ scans[r].keep} :
          scans' = [scans EXCEPT ![r] = [scans[r] EXCEPT !.pc = pc, !.todo = td]]
    BY <1>0, <1>2, Zenon DEF ListStale, LifeTypes, ScanState
  <2>1. /\ scans'[r] = [scans[r] EXCEPT !.pc = pc, !.todo = td]
        /\ scans'[r].pc = pc /\ scans'[r].todo = td
        /\ scans'[r].seen = scans[r].seen /\ scans'[r].keep = scans[r].keep
        /\ scans'[r].late = scans[r].late
        /\ \A q \in ScanCaller \ {r} : scans'[q] = scans[q]
    BY <1>0, <2>0 DEF LifeTypes, ScanState
  <2>2. LifeTypes'
    <3>1. td \in SUBSET SparseFile
      BY <1>0 DEF ScanState
    <3>2. scans'[r] \in ScanState
      BY <1>0, <2>1, <3>1, Zenon DEF ScanState
    <3>3. QED
      BY <1>2, <2>0, <3>2 DEF ListStale, LifeTypes
  <2>3. ScanOfMain'
    <3>1. scans'["main"].pc # "idle" => scans["main"].pc # "idle"
      BY <1>2, <2>1 DEF ListStale, ScanCaller
    <3>2. \A q \in ScanCaller : scans'[q].seen = scans[q].seen
                               /\ (scans'[q].pc = "idle" => scans[q].pc = "idle")
      BY <2>1, Zenon
    <3>3. QED
      BY <1>2, <3>1, <3>2 DEF ListStale, ScanOfMain, Probing, Looked, ScanCaller
  <2>4. ScanKeeps'
    <3>1. phase' = phase /\ files' = files /\ phase # "off"
      BY <1>2 DEF ListStale, ScanKeeps
    <3>2. ASSUME NEW q \in ScanCaller
          PROVE  /\ scans'[q].pc \in {"list", "deactivate"} =>
                       files \subseteq scans'[q].keep \cup scans'[q].late
                 /\ scans'[q].todo \cap scans'[q].keep = {}
                 /\ scans'[q].pc \in {"dir", "list"} => scans'[q].todo = {}
      <4>1. CASE q = r
        BY <1>2, <2>1, <4>1 DEF ListStale, ScanKeeps
      <4>2. CASE q # r
        BY <2>1, <4>2 DEF ScanKeeps
      <4>3. QED
        BY <4>1, <4>2
    <3>3. QED
      BY <3>1, <3>2 DEF ScanKeeps
  <2>5. QED
    BY <1>2, <2>2, <2>3, <2>4 DEF ListStale, StartOrder, SparseDone, Probing, Looked
<1>3. CASE Deactivate(r)
  <2>1. CASE scans[r].todo = {} /\ scans' = [scans EXCEPT ![r].pc = "send"]
               /\ UNCHANGED <<sbd, old, budget, excused>>
    BY <1>0, <1>3, <2>1 DEF Deactivate, LifeTypes, StartOrder, ScanOfMain, ScanKeeps,
       SparseDone, Probing, Looked, ScanState, ScanCaller
  <2>2. ASSUME NEW i \in scans[r].todo,
               scans' = [scans EXCEPT ![r].todo = @ \ {i}],
               \/ sbd' = sbd /\ excused' = excused
               \/ /\ sbd' = [sbd EXCEPT ![i] = "Inactive"]
                  /\ excused' = excused \cup ({i} \cap scans[r].late)
        PROVE  LifeInv'
    <3>1. /\ scans'[r] = [scans[r] EXCEPT !.todo = @ \ {i}]
          /\ \A q \in ScanCaller \ {r} : scans'[q] = scans[q]
      BY <2>2 DEF LifeTypes
    <3>2. i \in SparseFile
      BY <1>0 DEF ScanState
    <3>3. LifeTypes'
      <4>1. [scans[r] EXCEPT !.todo = @ \ {i}] \in ScanState
        BY <1>0 DEF ScanState
      <4>2. scans' = [scans EXCEPT ![r] = [scans[r] EXCEPT !.todo = @ \ {i}]]
        BY <2>2, Zenon
      <4>3. scans' \in [ScanCaller -> ScanState]
        BY <4>1, <4>2 DEF LifeTypes
      <4>4. sbd' \in [SparseFile -> {"none", "Active", "Inactive", "Unknown"}]
        BY <2>2, <3>2 DEF LifeTypes
      <4>5. QED
        BY <1>3, <4>3, <4>4 DEF Deactivate, LifeTypes
    <3>4. ScanOfMain' /\ ScanKeeps'
      BY <1>0, <1>3, <3>1 DEF Deactivate, ScanOfMain, ScanKeeps, Probing, Looked, ScanState, ScanCaller
    <3>5. i \in files => i \in scans[r].late
      BY <1>3 DEF Deactivate, ScanKeeps
    <3>6. SparseDone'
      BY <1>3, <2>2, <3>2, <3>5 DEF Deactivate, SparseDone, LifeTypes
    <3>7. QED
      BY <1>3, <3>3, <3>4, <3>6 DEF Deactivate, StartOrder, Probing, Looked
  <2>3. QED
    BY <1>3, <2>1, <2>2 DEF Deactivate, Write
<1>4. CASE Deliver(r)
  BY <1>0, <1>4 DEF Deliver, noScan, LifeTypes, StartOrder, ScanOfMain, ScanKeeps,
     SparseDone, Probing, Looked, ScanState
<1>5. QED
  BY <1>1, <1>2, <1>3, <1>4 DEF ScanStep

\* The steps of main, of the operators of the process and of the environment.
LEMMA LifeStep == LifeInv /\ [LifeNext]_lifeVars => LifeInv'
<1> SUFFICES ASSUME LifeInv, [LifeNext]_lifeVars
             PROVE  LifeInv'
  OBVIOUS
<1> USE DEF LifeInv
<1>1. CASE NewController
  <2>1. CASE Exit
    BY <1>1, <2>1, ExitKeeps DEF NewController
  <2>2. CASE ~Exit
    BY <1>1, <2>2 DEF NewController, LifeTypes, StartOrder, ScanOfMain, ScanKeeps,
       SparseDone, Probing, Looked, Phases
  <2>. QED BY <2>1, <2>2
<1>2. CASE SetControllerOptions
  <2>1. CASE Exit
    BY <1>2, <2>1, ExitKeeps DEF SetControllerOptions
  <2>2. CASE ~Exit
    BY <1>2, <2>2 DEF SetControllerOptions, After, LifeTypes, StartOrder, ScanOfMain, ScanKeeps,
       SparseDone, Probing, Looked, Phases, FilterCount
  <2>. QED BY <2>1, <2>2
<1>3. CASE RegisterFilter
  BY <1>3 DEF RegisterFilter, After, LifeTypes, StartOrder, ScanOfMain, ScanKeeps,
     SparseDone, Probing, Looked, Phases, FilterCount
<1>4. CASE StartUdev
  BY <1>4 DEF StartUdev, LifeTypes, StartOrder, ScanOfMain, ScanKeeps,
     SparseDone, Probing, Looked, Phases
<1>4a. CASE EnableReceiving
  <2>1. CASE Exit
    BY <1>4a, <2>1, ExitKeeps DEF EnableReceiving
  <2>2. CASE ~Exit
    BY <1>4a, <2>2 DEF EnableReceiving, LifeTypes, StartOrder, ScanOfMain, ScanKeeps,
       SparseDone, Probing, Looked
  <2>. QED BY <2>1, <2>2
<1>4b. CASE FirstScan
  <2> DEFINE new == [noScan EXCEPT !.pc = "dir", !.seen = attached]
  <2>1. /\ new \in ScanState /\ new.pc = "dir" /\ new.seen = attached /\ new.todo = {}
        /\ noScan \in ScanState /\ noScan.pc = "idle" /\ noScan.seen = {} /\ noScan.todo = {}
    BY DEF noScan, ScanState, LifeTypes
  <2>2. /\ phase = "enter" /\ phase' = "scan"
        /\ UNCHANGED <<filters, listening, monitor, attached, known, files, sbd, at, old,
                       unseen, excused>>
        /\ \/ scans' = [scans EXCEPT !["main"] = new]
           \/ (scans' = [scans EXCEPT !["main"] = noScan] \/ scans' = scans) /\ skipped'
    BY <1>4b DEF FirstScan, ScanEnter
  <2> HIDE DEF new
  <2>3. LifeTypes'
    BY <2>1, <2>2 DEF LifeTypes, Phases
  <2>4. ScanOfMain' /\ ScanKeeps'
    BY <2>1, <2>2 DEF LifeTypes, ScanOfMain, ScanKeeps, Looked, ScanCaller
  <2>5. QED
    BY <2>2, <2>3, <2>4 DEF StartOrder, SparseDone, Probing, Looked
<1>5. CASE ProbesStarted
  BY <1>5 DEF ProbesStarted, After, LifeTypes, StartOrder, ScanOfMain, ScanKeeps,
     SparseDone, Probing, Looked, Phases, ScanCaller
<1>6. CASE Run
  BY <1>6 DEF Run, LifeTypes, StartOrder, ScanOfMain, ScanKeeps,
     SparseDone, Probing, Looked, Phases
<1>7. CASE MarkUnknown
  <2>1. CASE Exit
    BY <1>7, <2>1, ExitKeeps DEF MarkUnknown, Exit
  <2>2. CASE ~Exit
    <3>1. PICK i \in at : at' = at \ {i} /\ (sbd' = sbd \/ sbd' = [sbd EXCEPT ![i] = "Unknown"])
      BY <1>7, <2>2 DEF MarkUnknown, Write
    <3>2. UNCHANGED <<phase, filters, listening, monitor, scans, known, attached, files,
                      skipped, unseen, excused>>
      BY <1>7, <2>2 DEF MarkUnknown
    <3>3. LifeTypes'
      BY <3>1, <3>2 DEF LifeTypes
    <3>4. QED
      BY <1>7, <3>2, <3>3 DEF MarkUnknown, StartOrder, ScanOfMain, ScanKeeps, SparseDone, Probing, Looked
  <2>. QED BY <2>1, <2>2
<1>8. ASSUME NEW i \in SparseFile, CheckAndCreateSparseFile(i)
      PROVE  LifeInv'
  BY <1>8 DEF CheckAndCreateSparseFile, Use, LifeTypes, StartOrder, ScanOfMain, ScanKeeps,
     SparseDone, Probing, Looked, Phases, ScanState, ScanCaller
<1>9. ASSUME NEW i \in SparseFile, MarkSparseBlockDeviceStateActive(i)
      PROVE  LifeInv'
  BY <1>9 DEF MarkSparseBlockDeviceStateActive, Write, Use, LifeTypes, StartOrder, ScanOfMain,
     ScanKeeps, SparseDone, Probing, Looked, Phases
<1>10. CASE Restart
  BY <1>10 DEF Restart, LifeTypes, StartOrder, ScanOfMain, ScanKeeps,
     SparseDone, Probing, Looked, Phases
<1>11. CASE Call
  BY <1>11, Zenon DEF Call, ScanEnter, Busy, noScan, LifeTypes, StartOrder, ScanOfMain, ScanKeeps,
     SparseDone, Probing, Looked, Phases, ScanState, ScanCaller
<1>12. CASE Signal
  BY <1>12 DEF Signal, LifeTypes, StartOrder, ScanOfMain, ScanKeeps,
     SparseDone, Probing, Looked, Phases
<1>13. CASE Crash
  BY <1>13, ExitKeeps DEF Crash
<1>14. ASSUME NEW d \in NodeDisk, AttachDisk(d)
       PROVE  LifeInv'
  BY <1>14 DEF AttachDisk, LifeTypes, StartOrder, ScanOfMain, ScanKeeps,
     SparseDone, Probing, Looked, Phases
<1>15. ASSUME NEW i \in SparseFile, WriteByOthers(i)
       PROVE  LifeInv'
  BY <1>15 DEF WriteByOthers, Alive, LifeTypes, StartOrder, ScanOfMain, ScanKeeps,
     SparseDone, Probing, Looked, Phases
<1>16. CASE UNCHANGED lifeVars
  BY <1>16 DEF lifeVars, LifeTypes, StartOrder, ScanOfMain, ScanKeeps,
     SparseDone, Probing, Looked
<1>17. QED
  BY <1>1, <1>2, <1>3, <1>4, <1>5, <1>6, <1>7, <1>8, <1>9, <1>10, <1>11, <1>12, <1>13,
     <1>14, <1>15, <1>16, <1>4a, <1>4b, ScanStepKeeps, Zenon DEF LifeNext, LifeGo, Main

\* Every behaviour of the daemon keeps the invariant.
THEOREM LifeInvariant == LifeSpec => []LifeInv
  BY LifeInitial, LifeStep, PTL DEF LifeSpec

\* Once the daemon is up, the listener has been told of every device of the node,
\* unless the first scan was refused or the device came between that scan and the
\* first event the monitor receives: there is no other window.
THEOREM LifeDevicesKnown == LifeSpec => []DevicesKnown
  BY LifeInvariant, LifeInvImplies, PTL

\* Once the daemon is up, every sparse file has an Active BlockDevice, whatever
\* restarts, crashes and scans came before, unless a call for it failed or a scan
\* could not see the file.
THEOREM LifeSparseActive == LifeSpec => []SparseActive
  BY LifeInvariant, LifeInvImplies, PTL

\* No device reaches the listener before every filter is registered, also when a scan
\* of the node API has been waiting since before that.
THEOREM LifeFiltersFirst == LifeSpec => FiltersFirst
<1>1. LifeInv /\ [LifeNext]_lifeVars =>
        [\A r \in ScanCaller : Deliver(r) => filters = FilterCount]_lifeVars
  BY DEF LifeInv, StartOrder, Deliver, Probing, Looked
<1>2. QED
  BY <1>1, LifeInvariant, PTL DEF LifeSpec, FiltersFirst

----------------------------------------------------------------------------
\* The node API: the reply to a request that is alone

Fields == 1..6

\* the entries of the reply from field i, when the fields hold l
EntriesOf(l, i) ==
    {[name |-> n, type |-> Field[i],
      parts |-> IF i \in {1, 5} THEN FilterPartitions(n, l[2]) ELSE {}] : n \in l[i]}

\* the fields that have been read at a step
ReadAt(step) == {i \in Fields : i # 2 /\ i + 6 < step}

FieldName == {Field[i] : i \in Fields}
Paths == UNION {{d.path, d.parent} \cup d.parts : d \in NodeDevice}
Replies == SUBSET [name: Paths, type: FieldName, parts: SUBSET Paths]
ApiCall == [step: (0..13) \cup {99}, listed: [Fields -> SUBSET Paths],
            reply: Replies]
ApiTypes ==
    /\ onNode \in SUBSET NodeDevice /\ all \in [Fields -> SUBSET Paths]
    /\ call \in [ApiRequest -> ApiCall] /\ alone \in SUBSET ApiRequest

\* A request that is alone finds in `all` what it wrote, up to its last read, and its
\* reply has the entries of the fields it has read.
Wrote(r) ==
    call[r].step \in 1..12 => \A i \in Fields : i < call[r].step => all[i] = call[r].listed[i]
Replied(r) ==
    call[r].step \in 1..13 =>
      call[r].reply = UNION {EntriesOf(call[r].listed, i) : i \in ReadAt(call[r].step)}
OfOwnList(r) == Wrote(r) /\ Replied(r)
ApiInv == ApiTypes /\ \A r \in alone : OfOwnList(r)

\* A request starts with nothing listed.
LEMMA NothingListed == NoDevices \in [Fields -> SUBSET Paths]
<1>1. Len(Field) = 6
  BY DEF Field
<1>2. QED
  BY <1>1 DEF NoDevices, Fields

\* Replies start empty, and grow by the entries of a field.
LEMMA RepliesGrow ==
    /\ {} \in Replies
    /\ \A S \in Replies, T \in Replies : S \cup T \in Replies
  BY DEF Replies

\* the record of a request after a step of it
Answered(c, s, rep) == [c EXCEPT !.step = s, !.reply = rep]
IsAnswer(d, c, s, rep) ==
    d \in ApiCall /\ d.step = s /\ d.listed = c.listed /\ d.reply = rep

\* Reading a field sets the step and the reply of the request, and nothing else.
LEMMA CallFields ==
    ASSUME NEW c \in ApiCall, NEW s \in (0..13) \cup {99}, NEW rep \in Replies
    PROVE  IsAnswer(Answered(c, s, rep), c, s, rep)
  BY Zenon DEF ApiCall, Answered, IsAnswer

\* What a request lists, and the entries read from the fields, are made of paths.
LEMMA ListedTypes ==
    ASSUME ApiTypes
    PROVE  GetAllTypes(onNode) \in [Fields -> SUBSET Paths]
<1>1. ASSUME NEW t
      PROVE  /\ Named(onNode, t) \in SUBSET Paths
             /\ Named({d \in onNode : d.path \in inSysfs}, t) \in SUBSET Paths
  BY DEF Named, Paths, ApiTypes
<1>2. PartsOf({d \in onNode : d.path \in inSysfs}, {"disk", "loop"}) \in SUBSET Paths
  BY DEF PartsOf, Paths, ApiTypes
<1>3. {d.parent : d \in {x \in {d \in onNode : d.path \in inSysfs} : x.type = "partition"}}
        \in SUBSET Paths
  BY DEF Paths, ApiTypes
<1>4. ASSUME NEW S1 \in SUBSET Paths, NEW S2 \in SUBSET Paths, NEW S3 \in SUBSET Paths,
             NEW S4 \in SUBSET Paths, NEW S5 \in SUBSET Paths, NEW S6 \in SUBSET Paths
      PROVE  <<S1, S2, S3, S4, S5, S6>> \in [Fields -> SUBSET Paths]
  BY DEF Fields
<1>5. QED
  BY <1>1, <1>2, <1>3, <1>4, Zenon DEF GetAllTypes

\* The entries of a field make a reply.
LEMMA EntriesTypes ==
    ASSUME ApiTypes, NEW i \in Fields
    PROVE  Entries(i) \in Replies
<1>1. Field[i] \in FieldName
  BY DEF FieldName
<1>2. \A n \in all[i] : n \in Paths /\ FilterPartitions(n, all[2]) \in SUBSET Paths
  BY DEF ApiTypes, FilterPartitions, Fields
<1>3. QED
  BY <1>1, <1>2 DEF Entries, Replies

\* A step that leaves `all` and the record of a request alone keeps what is known of it.
LEMMA OwnListKept ==
    ASSUME NEW q, OfOwnList(q), all' = all, call'[q] = call[q]
    PROVE  OfOwnList(q)'
<1>1. Wrote(q)'
  BY DEF OfOwnList, Wrote
<1>2. Replied(q)'
  BY DEF OfOwnList, Replied
<1>3. QED
  BY <1>1, <1>2 DEF OfOwnList

\* A step of a request sets its record and no other, and keeps the types.
LEMMA CallSet ==
    ASSUME ApiTypes, NEW r \in ApiRequest, NEW c, call' = [call EXCEPT ![r] = c]
    PROVE  call'[r] = c /\ \A q \in ApiRequest \ {r} : call'[q] = call[q]
  BY DEF ApiTypes

LEMMA CallTyped ==
    ASSUME ApiTypes, NEW r \in ApiRequest, NEW c \in ApiCall, call' = [call EXCEPT ![r] = c],
           onNode' = onNode, all' \in [Fields -> SUBSET Paths], alone' \in SUBSET ApiRequest
    PROVE  ApiTypes'
  BY DEF ApiTypes

\* The requests that the step of another one leaves alone keep what is known of them.
LEMMA OthersKept ==
    ASSUME ApiInv, NEW r \in ApiRequest, NEW c, call' = [call EXCEPT ![r] = c], all' = all
    PROVE  \A q \in alone \ {r} : OfOwnList(q)'
<1>1. ASSUME NEW q \in alone \ {r}
      PROVE  OfOwnList(q)'
  <2>1. OfOwnList(q) /\ q \in ApiRequest \ {r} /\ ApiTypes
    BY DEF ApiInv, ApiTypes
  <2>2. call'[q] = call[q]
    BY <2>1, CallSet, Zenon
  <2>3. QED
    BY <2>1, <2>2, OwnListKept
<1>2. QED
  BY <1>1

\* Listing the devices starts a request with an empty reply, or ends it with an error.
LEMMA ListStep ==
    ASSUME ApiInv, NEW r \in ApiRequest, ListDevices(r)
    PROVE  ApiInv'
<1>0. ApiTypes
  BY DEF ApiInv
<1>1. /\ call[r] \in ApiCall /\ UNCHANGED <<onNode, all>> /\ alone' = alone \cup {r}
      /\ alone' \in SUBSET ApiRequest /\ all' \in [Fields -> SUBSET Paths]
  BY <1>0 DEF ListDevices, ApiTypes
<1>2. PICK c \in ApiCall : call' = [call EXCEPT ![r] = c]
                            /\ (c.step = 99 \/ (c.step = 1 /\ c.reply = {}))
  <2> DEFINE first == [step |-> 1, listed |-> GetAllTypes(onNode), reply |-> {}]
             error == [call[r] EXCEPT !.step = 99]
  <2>1. call' = [call EXCEPT ![r] = first] \/ call' = [call EXCEPT ![r] = error]
    BY DEF ListDevices
  <2>2. first \in ApiCall /\ first.step = 1 /\ first.reply = {}
    <3>1. GetAllTypes(onNode) \in [Fields -> SUBSET Paths] /\ {} \in Replies
      BY <1>0, ListedTypes, RepliesGrow
    <3>2. QED
      BY <3>1 DEF ApiCall
  <2>3. error \in ApiCall /\ error.step = 99
    BY <1>1 DEF ApiCall
  <2> HIDE DEF first, error
  <2>4. QED
    BY <2>1, <2>2, <2>3
<1>3. call'[r] = c
  BY <1>0, <1>2, CallSet, Zenon
<1>4. ApiTypes'
  BY <1>0, <1>1, <1>2, CallTyped, Zenon
<1>5. OfOwnList(r)'
  <2>1. Wrote(r)'
    BY <1>2, <1>3 DEF Wrote, Fields
  <2>2. ReadAt(1) = {}
    BY DEF ReadAt, Fields
  <2>3. Replied(r)'
    BY <1>2, <1>3, <2>2 DEF Replied
  <2>4. QED
    BY <2>1, <2>3 DEF OfOwnList
<1>6. \A q \in alone \ {r} : OfOwnList(q)'
  BY <1>1, <1>2, OthersKept, Zenon
<1>7. QED
  BY <1>1, <1>4, <1>5, <1>6 DEF ApiInv

\* Writing a field ends being alone for the requests that wrote or read before.
LEMMA WriteStep ==
    ASSUME ApiInv, NEW r \in ApiRequest, WriteField(r)
    PROVE  ApiInv'
<1> DEFINE i == call[r].step
           c == [call[r] EXCEPT !.step = i + 1]
<1>0. ApiTypes /\ Len(Field) = 6
  BY DEF ApiInv, Field
<1>1. /\ i \in Fields /\ call[r] \in ApiCall /\ onNode' = onNode
      /\ all' = [all EXCEPT ![i] = call[r].listed[i]]
      /\ call' = [call EXCEPT ![r] = c]
      /\ alone' = {q \in alone : q = r \/ call[q].step \notin 2..12}
  BY <1>0 DEF WriteField, ApiTypes, Fields
<1>2. /\ c \in ApiCall /\ c.step = i + 1 /\ c.listed = call[r].listed
      /\ c.reply = call[r].reply
  BY <1>1 DEF ApiCall, Fields
<1> HIDE DEF c
<1>3. call'[r] = c /\ \A q \in ApiRequest \ {r} : call'[q] = call[q]
  BY <1>0, <1>1, CallSet, Zenon
<1>4. all \in [Fields -> SUBSET Paths] /\ call[r].listed \in [Fields -> SUBSET Paths]
      /\ alone' \in SUBSET ApiRequest
  BY <1>0, <1>1 DEF ApiTypes, ApiCall
<1>5. ApiTypes'
  <2>1. all' \in [Fields -> SUBSET Paths]
    BY <1>1, <1>4
  <2>2. QED
    BY <1>0, <1>1, <1>2, <1>4, <2>1, CallTyped, Zenon
<1>6. ASSUME r \in alone
      PROVE  OfOwnList(r)'
  <2>1. ReadAt(i) = {} /\ ReadAt(i + 1) = {} /\ i \in 1..12 /\ i \in 1..13
    BY <1>1 DEF ReadAt, Fields
  <2>2. call[r].reply = {}
    BY <1>6, <2>1 DEF ApiInv, OfOwnList, Replied
  <2>3. \A j \in Fields : j < i => all[j] = call[r].listed[j]
    BY <1>6, <2>1 DEF ApiInv, OfOwnList, Wrote
  <2>4. \A j \in Fields : j < i + 1 => j < i \/ j = i
    BY <1>1 DEF Fields
  <2>5. \A j \in Fields : j < i + 1 => all'[j] = call[r].listed[j]
    BY <1>1, <1>4, <2>3, <2>4
  <2>6. Wrote(r)'
    BY <1>2, <1>3, <2>5 DEF Wrote
  <2>7. Replied(r)'
    BY <1>2, <1>3, <2>1, <2>2 DEF Replied
  <2>8. QED
    BY <2>6, <2>7 DEF OfOwnList
<1>7. ASSUME NEW q \in alone', q # r
      PROVE  OfOwnList(q)'
  <2>1. q \in alone /\ q \in ApiRequest /\ call[q].step \notin 2..12
    BY <1>0, <1>1, <1>7 DEF ApiTypes
  <2>2. call'[q] = call[q]
    BY <1>3, <1>7, <2>1
  <2>3. Replied(q)'
    BY <2>1, <2>2 DEF ApiInv, OfOwnList, Replied
  <2>4. \A j \in Fields : ~(j < 1)
    BY DEF Fields
  <2>5. call[q].step \in 1..12 => call[q].step = 1
    BY <2>1
  <2>6. Wrote(q)'
    BY <2>2, <2>4, <2>5 DEF Wrote
  <2>7. QED
    BY <2>3, <2>6 DEF OfOwnList
<1>8. QED
  BY <1>1, <1>5, <1>6, <1>7 DEF ApiInv

\* Reading a field adds its entries to the reply, the second one none.
LEMMA ReadStep ==
    ASSUME ApiInv, NEW r \in ApiRequest, ReadField(r)
    PROVE  ApiInv'
<1> DEFINE i == call[r].step - 6
           s == call[r].step + 1
           new == IF i = 2 THEN call[r].reply ELSE call[r].reply \cup Entries(i)
           c == Answered(call[r], s, new)
<1>0. ApiTypes /\ Len(Field) = 6
  BY DEF ApiInv, Field
<1>1. i \in Fields /\ call[r] \in ApiCall /\ UNCHANGED <<onNode, all, alone>>
  BY <1>0 DEF ReadField, ApiTypes, Fields
<1>2. call' = [call EXCEPT ![r] = c]
  BY <1>0, Zenon DEF Answered, ReadField, ApiTypes, Fields
<1>3. s \in (0..13) \cup {99} /\ s = i + 7 /\ call[r].step = i + 6
  BY <1>1 DEF ApiCall, Fields
<1>4. new \in Replies
  <2>1. Entries(i) \in Replies /\ call[r].reply \in Replies
    BY <1>0, <1>1, EntriesTypes DEF ApiCall
  <2>2. QED
    BY <2>1, RepliesGrow
<1> HIDE DEF new, s, i
<1>5. IsAnswer(c, call[r], s, new)
  BY <1>1, <1>3, <1>4, CallFields
<1> HIDE DEF c
<1>6. c \in ApiCall /\ c.step = i + 7 /\ c.listed = call[r].listed /\ c.reply = new
  BY <1>3, <1>5 DEF IsAnswer
<1>7. call'[r] = c
  BY <1>0, <1>2, CallSet, Zenon
<1>8. ApiTypes'
  <2>1. all' \in [Fields -> SUBSET Paths] /\ alone' \in SUBSET ApiRequest
    BY <1>0, <1>1 DEF ApiTypes
  <2>2. QED
    BY <1>0, <1>1, <1>2, <1>6, <2>1, CallTyped, Zenon
<1>9. ASSUME r \in alone
      PROVE  OfOwnList(r)'
  <2>1. /\ i + 6 \in 1..12 /\ i + 6 \in 1..13 /\ \A j \in Fields : j < i + 6
        /\ \A j \in Fields : j < i + 7
    BY <1>1 DEF Fields
  <2>2. \A j \in Fields : all[j] = call[r].listed[j]
    BY <1>3, <1>9, <2>1 DEF ApiInv, OfOwnList, Wrote
  <2>3. call[r].reply = UNION {EntriesOf(call[r].listed, j) : j \in ReadAt(i + 6)}
    BY <1>3, <1>9, <2>1 DEF ApiInv, OfOwnList, Replied
  <2>4. Entries(i) = EntriesOf(call[r].listed, i)
    <3>1. all[i] = call[r].listed[i] /\ all[2] = call[r].listed[2]
      BY <1>1, <2>2 DEF Fields
    <3>2. QED
      BY <3>1, Zenon DEF Entries, EntriesOf
  <2>5. ReadAt(i + 7) = IF i = 2 THEN ReadAt(i + 6) ELSE ReadAt(i + 6) \cup {i}
    BY <1>1 DEF ReadAt, Fields
  <2>6. new = UNION {EntriesOf(call[r].listed, j) : j \in ReadAt(i + 7)}
    BY <2>3, <2>4, <2>5 DEF new
  <2>7. Wrote(r)'
    BY <1>1, <1>6, <1>7, <2>2 DEF Wrote
  <2>8. Replied(r)'
    BY <1>6, <1>7, <2>6 DEF Replied
  <2>9. QED
    BY <2>7, <2>8 DEF OfOwnList
<1>10. \A q \in alone \ {r} : OfOwnList(q)'
  BY <1>1, <1>2, OthersKept, Zenon
<1>11. QED
  BY <1>1, <1>8, <1>9, <1>10 DEF ApiInv

\* The end of a request leaves the others alone.
LEMMA EndStep ==
    ASSUME ApiInv, NEW r \in ApiRequest, EndCall(r)
    PROVE  ApiInv'
<1> DEFINE c == [step |-> 0, listed |-> NoDevices, reply |-> {}]
<1>0. ApiTypes
  BY DEF ApiInv
<1>1. call' = [call EXCEPT ![r] = c] /\ alone' = alone \ {r} /\ UNCHANGED <<onNode, all>>
  BY DEF EndCall
<1>2. c \in ApiCall
  BY NothingListed, RepliesGrow DEF ApiCall
<1> HIDE DEF c
<1>3. all' \in [Fields -> SUBSET Paths] /\ alone' \in SUBSET ApiRequest
  BY <1>0, <1>1 DEF ApiTypes
<1>4. ApiTypes'
  BY <1>0, <1>1, <1>2, <1>3, CallTyped, Zenon
<1>5. \A q \in alone \ {r} : OfOwnList(q)'
  BY <1>1, OthersKept, Zenon
<1>6. QED
  BY <1>1, <1>4, <1>5 DEF ApiInv

\* Every step keeps the invariant: a write of another request ends being alone.
LEMMA ApiStep == ApiInv /\ [ApiNext]_apiVars => ApiInv'
<1> SUFFICES ASSUME ApiInv, [ApiNext]_apiVars PROVE ApiInv'
  OBVIOUS
<1>1. CASE NodeChange \/ UNCHANGED apiVars
  <2>1. UNCHANGED <<all, call, alone>> /\ onNode' \in SUBSET NodeDevice /\ ApiTypes
    BY <1>1 DEF NodeChange, apiVars, ApiInv, ApiTypes
  <2>2. ApiTypes'
    BY <2>1 DEF ApiTypes
  <2>3. ASSUME NEW q \in alone
        PROVE  OfOwnList(q)'
    BY <2>1, OwnListKept DEF ApiInv
  <2>4. QED
    BY <2>1, <2>2, <2>3 DEF ApiInv
<1>2. QED
  BY <1>1, ListStep, WriteStep, ReadStep, EndStep DEF ApiNext

\* The reply read at the last step is the one of the list.
LEMMA ApiInvImplies == ApiInv => ReplyOfOwnList
<1> SUFFICES ASSUME ApiInv, NEW r \in alone, call[r].step = 13
             PROVE  LET l == call[r].listed IN
               /\ \A i \in {1, 3, 4, 5, 6} :
                    {e.name : e \in {x \in call[r].reply : x.type = Field[i]}} = l[i]
               /\ \A d \in NodeDevice, e \in call[r].reply :
                    e.name = d.path /\ e.type \in {"parents", "loops"} =>
                       d.parts \cap l[2] \subseteq e.parts
  BY DEF ReplyOfOwnList
<1> DEFINE l == call[r].listed
<1>1. ReadAt(13) = {1, 3, 4, 5, 6}
  BY DEF ReadAt, Fields
<1>2. call[r].reply = UNION {EntriesOf(l, i) : i \in {1, 3, 4, 5, 6}}
  BY <1>1 DEF ApiInv, OfOwnList, Replied
<1> HIDE DEF l
<1>3. \A i, j \in {1, 3, 4, 5, 6} : Field[i] = Field[j] => i = j
  BY DEF Field
<1>4. \A i \in {1, 3, 4, 5, 6} : Field[i] \in {"parents", "loops"} <=> i \in {1, 5}
  BY DEF Field
<1>5. \A i : \A e \in EntriesOf(l, i) :
         /\ e.type = Field[i] /\ e.name \in l[i]
         /\ i \in {1, 5} => e.parts = FilterPartitions(e.name, l[2])
  BY DEF EntriesOf
<1>6. ASSUME NEW i, NEW n \in l[i]
      PROVE  \E e \in EntriesOf(l, i) : e.name = n
  <2> DEFINE e == [name |-> n, type |-> Field[i],
                   parts |-> IF i \in {1, 5} THEN FilterPartitions(n, l[2]) ELSE {}]
  <2>1. e \in EntriesOf(l, i)
    BY Zenon DEF EntriesOf
  <2>2. e.name = n
    OBVIOUS
  <2> HIDE DEF e
  <2>3. QED
    BY <2>1, <2>2
<1>7. ASSUME NEW i \in {1, 3, 4, 5, 6}
      PROVE  {e.name : e \in {x \in call[r].reply : x.type = Field[i]}} = l[i]
  <2>1. {x \in call[r].reply : x.type = Field[i]} = EntriesOf(l, i)
    BY <1>2, <1>3, <1>5
  <2>2. QED
    BY <1>5, <1>6, <2>1
<1>8. ASSUME NEW d \in NodeDevice, NEW e \in call[r].reply, e.name = d.path,
             e.type \in {"parents", "loops"}
      PROVE  d.parts \cap l[2] \subseteq e.parts
  <2>1. PICK i \in {1, 3, 4, 5, 6} : e \in EntriesOf(l, i)
    BY <1>2
  <2>2. e.parts = FilterPartitions(d.path, l[2])
    BY <1>4, <1>5, <1>8, <2>1
  <2>3. QED
    BY <2>2, ApiAssumption DEF FilterPartitions
<1>9. QED
  BY <1>7, <1>8 DEF l

\* The reply to a request that no other request wrote into has an entry for exactly the
\* devices the request listed, and each disk has its own partitions.
THEOREM ApiReplies == ApiSpec => []ReplyOfOwnList
<1>1. ApiInit(SUBSET NodeDevice) => ApiInv
  <2> SUFFICES ASSUME ApiInit(SUBSET NodeDevice) PROVE ApiInv
    OBVIOUS
  <2> DEFINE c == [step |-> 0, listed |-> NoDevices, reply |-> {}]
  <2>1. c \in ApiCall
    BY NothingListed, RepliesGrow DEF ApiCall
  <2>2. /\ onNode \in SUBSET NodeDevice /\ all = NoDevices /\ alone = {}
        /\ call = [r \in ApiRequest |-> c]
    BY DEF ApiInit
  <2> HIDE DEF c
  <2>3. QED
    BY <2>1, <2>2, NothingListed DEF ApiInv, ApiTypes
<1>2. QED
  BY <1>1, ApiInvImplies, ApiStep, PTL DEF ApiSpec
=============================================================================
