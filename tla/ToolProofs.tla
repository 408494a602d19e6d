----------------------------- MODULE ToolProofs -----------------------------
(***************************************************************************)
(* The exporter, the pre-upgrade tasks and the selection of a device for a *)
(* claim are correct for every value of their constants: any number of     *)
(* scrapes, claims, devices and edits.                                     *)
(***************************************************************************)
EXTENDS Exporter, Upgrade, Selection,
        NaturalsInduction, WellFoundedInduction, TLAPS

----------------------------------------------------------------------------
\* The exporter: one scrape at a time, each answered from its own list

\* the devices a scrape answers for
Answered(r) == Present(listed[r]) \ Sparse

ExporterTypes ==
    /\ pc \in [Scrape -> Inside \cup {"idle", "done"}]
    /\ etcd \in Stores /\ listed \in [Scrape -> Stores]
    /\ read = [r \in Scrape |-> read[r]]
    /\ unset \in [Scrape -> SUBSET Disk] /\ \A r \in Scrape : unset[r] \subseteq Present(listed[r])
    /\ gauge = [x \in Labels |-> gauge[x]]
    /\ answer = [r \in Scrape |-> answer[r]]
    /\ requestInProgress \in BOOLEAN

\* Where a scrape is, what it has still to set, and what the shared labels and gauges
\* hold on its behalf
Progress(r) ==
    /\ pc[r] \in {"idle", "init", "list", "data", "set", "gauge", "collect"} => answer[r] = <<>>
    /\ pc[r] = "data" => Answered(r) \subseteq unset[r]
    /\ pc[r] = "gauge" => unset[r] # {} /\ label = LabelsOf(r, nextDevice(r))
    /\ pc[r] = "collect" => unset[r] = {}
    /\ pc[r] \in {"set", "gauge", "collect"} =>
         \A d \in Answered(r) \ unset[r] : gauge[LabelsOf(r, d)] = Value(r, d)

\* its answer is what its list and its readings make of every device it answers for
AnsweredOwn(r) ==
    answer[r] # <<>> => \A d \in Answered(r) : answer[r][LabelsOf(r, d)] = Value(r, d)

ExporterInv ==
    /\ ExporterTypes /\ OneCollection
    /\ \A r \in Scrape : Progress(r) /\ AnsweredOwn(r)

\* what a step of one scrape leaves alone in another one that is not inside
Kept(q) ==
    /\ pc'[q] = pc[q] /\ unset'[q] = unset[q] /\ answer'[q] = answer[q]
    /\ listed'[q] = listed[q] /\ read'[q] = read[q] /\ mode' = mode

\* A scrape that is outside, or inside while label and gauges stay, keeps its part of
\* the invariant when a step does not touch what is its own.
LEMMA KeptProgress ==
    ASSUME NEW q \in Scrape, Progress(q), Kept(q),
           pc[q] \in {"idle", "done"} \/ (label' = label /\ gauge' = gauge)
    PROVE  Progress(q)'
  BY SMT DEF Progress, Kept, Value, nextDevice, Answered, LabelsOf

\* and its answer
LEMMA KeptAnswer ==
    ASSUME NEW q \in Scrape, Kept(q), AnsweredOwn(q)
    PROVE  AnsweredOwn(q)'
  BY SMT DEF AnsweredOwn, Answered, Kept, Value, LabelsOf

\* The exporter starts in the invariant: no request, no series
LEMMA ExporterInitial == ExporterInit({"cluster", "node"}, Stores) => ExporterInv
  <1> SUFFICES ASSUME ExporterInit({"cluster", "node"}, Stores) PROVE ExporterInv
    OBVIOUS
  <1>1. ExporterTypes
    <2>1. [d \in Disk |-> NoDevice] \in Stores
      BY DEF Stores
    <2> QED
      BY <2>1 DEF ExporterInit, ExporterTypes, Inside
  <1>2. OneCollection
    BY DEF ExporterInit, OneCollection, Inside
  <1>3. \A r \in Scrape : Progress(r) /\ AnsweredOwn(r)
    BY DEF ExporterInit, Progress, AnsweredOwn
  <1> QED
    BY <1>1, <1>2, <1>3 DEF ExporterInv

\* Every step of a scrape keeps the types
LEMMA ServeTypes ==
    ASSUME ExporterTypes, NEW r \in Scrape, Serve(r)
    PROVE  ExporterTypes'
  <1> USE DEF ExporterTypes
  <1>1. CASE Enter(r)
    BY <1>1, Zenon DEF Enter, Inside
  <1>2. CASE InitClient(r)
    BY <1>2, Zenon DEF InitClient, Fail, Inside
  <1>3. CASE ListBlockDevice(r)
    <2>1. Present(etcd) \in SUBSET Disk /\ (Present(etcd) \ Sparse) \in SUBSET Disk
      BY DEF Present
    <2>2. unset' \in [Scrape -> SUBSET Disk]
      BY <1>3, <2>1 DEF ListBlockDevice
    <2>3. /\ pc' \in [Scrape -> Inside \cup {"idle", "done"}]
          /\ answer' = [q \in Scrape |-> answer'[q]]
      BY <1>3, Zenon DEF ListBlockDevice, Fail, Inside
    <2>4. listed' \in [Scrape -> Stores]
      BY <1>3, Zenon DEF ListBlockDevice
    <2>5. ASSUME NEW q \in Scrape PROVE unset'[q] \subseteq Present(listed'[q])
      <3>1. CASE q = r /\ pc'[r] # "leave"
        <4>1. listed'[r] = etcd /\ unset'[r] \in {Present(etcd), Present(etcd) \ Sparse}
          BY <1>3, <3>1 DEF ListBlockDevice, Fail
        <4> QED
          BY <3>1, <4>1
      <3>2. CASE ~(q = r /\ pc'[r] # "leave")
        <4>1. unset'[q] = unset[q] /\ listed'[q] = listed[q]
          BY <1>3, <3>2 DEF ListBlockDevice, Fail
        <4> QED
          BY <4>1
      <3> QED
        BY <3>1, <3>2
    <2> QED
      BY <1>3, <2>2, <2>3, <2>4, <2>5, Zenon DEF ListBlockDevice
  <1>4. CASE getMetricData(r)
    <2>1. /\ pc' \in [Scrape -> Inside \cup {"idle", "done"}]
          /\ answer' = [q \in Scrape |-> answer'[q]]
      BY <1>4, Zenon DEF getMetricData, Fail, Inside
    <2>2. read' = [q \in Scrape |-> read'[q]]
      BY <1>4 DEF getMetricData
    <2> QED
      BY <1>4, <2>1, <2>2, Zenon DEF getMetricData
  <1>5. CASE setLabels(r)
    BY <1>5, Zenon DEF setLabels, Inside
  <1>6. CASE setMetricData(r)
    BY <1>6, Zenon DEF setMetricData, Inside
  <1>7. CASE Collect(r)
    BY <1>7, Zenon DEF Collect, Inside
  <1>8. CASE setRequestProgressToFalse(r)
    BY <1>8, Zenon DEF setRequestProgressToFalse, Inside
  <1> QED
    BY <1>1, <1>2, <1>3, <1>4, <1>5, <1>6, <1>7, <1>8, Zenon DEF Serve

\* Every step of a scrape keeps the exclusion: the flag is taken and given back together
\* with being inside
LEMMA ServeOne ==
    ASSUME ExporterTypes, OneCollection, NEW r \in Scrape, Serve(r)
    PROVE  OneCollection'
  <1> USE DEF ExporterTypes, OneCollection
  <1>1. CASE Enter(r)
    BY <1>1 DEF Enter, Inside
  <1>2. CASE setRequestProgressToFalse(r)
    BY <1>2 DEF setRequestProgressToFalse, Inside
  <1>3. CASE InitClient(r) \/ ListBlockDevice(r) \/ getMetricData(r) \/ setLabels(r)
             \/ setMetricData(r) \/ Collect(r)
    <2>1. pc[r] \in Inside /\ requestInProgress' = requestInProgress
          /\ \E s \in Inside : pc' = [pc EXCEPT ![r] = s]
      BY <1>3, Zenon DEF InitClient, ListBlockDevice, getMetricData, setLabels, setMetricData,
                  Collect, Fail, Inside
    <2> QED
      BY <2>1
  <1> QED
    BY <1>1, <1>2, <1>3 DEF Serve

\* Every step of a scrape keeps where that scrape is: the gauges it has set hold what its
\* list said
LEMMA ServeProgress ==
    ASSUME ExporterTypes, NEW r \in Scrape, Progress(r), Serve(r)
    PROVE  Progress(r)'
  <1> USE DEF ExporterTypes, Progress
  <1>1. CASE Enter(r)
    BY <1>1 DEF Enter
  <1>2. CASE InitClient(r)
    BY <1>2 DEF InitClient, Fail
  <1>3. CASE ListBlockDevice(r)
    <2>1. CASE pc'[r] = "leave"
      BY <2>1
    <2>2. CASE pc'[r] # "leave"
      <3>1. /\ pc'[r] \in {"set", "data"} /\ answer'[r] = <<>>
            /\ Answered(r)' \subseteq unset'[r]
        BY <1>3, <2>2 DEF ListBlockDevice, Fail, Answered
      <3> QED
        BY <3>1
    <2> QED
      BY <2>1, <2>2
  <1>4. CASE getMetricData(r)
    <2>1. CASE pc'[r] = "leave"
      BY <2>1
    <2>2. CASE pc'[r] # "leave"
      <3>1. /\ pc'[r] = "set" /\ answer'[r] = <<>>
            /\ Answered(r)' \subseteq unset'[r]
        BY <1>4, <2>2 DEF getMetricData, Fail, Answered
      <3> QED
        BY <3>1
    <2> QED
      BY <2>1, <2>2
  <1>5. CASE setLabels(r)
    BY <1>5 DEF setLabels, Value, nextDevice, Answered, LabelsOf
  <1>6. CASE setMetricData(r)
    <2> DEFINE d0 == nextDevice(r)
    <2>1. d0 \in unset[r] /\ d0 \in Present(listed[r]) /\ label = LabelsOf(r, d0)
      BY <1>6 DEF setMetricData, nextDevice
    <2>2. /\ pc'[r] = "set" /\ answer'[r] = <<>> /\ unset'[r] = unset[r] \ {d0}
          /\ gauge' = [gauge EXCEPT ![LabelsOf(r, d0)] = Value(r, d0)]
      BY <1>6, <2>1 DEF setMetricData
    <2>3. /\ Answered(r)' = Answered(r)
          /\ \A d \in Disk : Value(r, d)' = Value(r, d) /\ LabelsOf(r, d)' = LabelsOf(r, d)
      BY <1>6 DEF setMetricData, Value, Answered, LabelsOf
    <2>4. Answered(r) \subseteq Disk /\ \A d \in Present(listed[r]) : LabelsOf(r, d) \in Labels
      BY DEF Answered, Present, LabelsOf, Labels, Stores
    <2>5. \A d, e : LabelsOf(r, d) = LabelsOf(r, e) => d = e
      BY DEF LabelsOf
    <2> HIDE DEF d0
    <2>6. ASSUME NEW d \in Answered(r) \ unset'[r]
          PROVE  gauge'[LabelsOf(r, d)] = Value(r, d)
      <3>1. CASE d = d0
        BY <3>1, <2>1, <2>2, <2>4
      <3>2. CASE d # d0
        <4>1. d \notin unset[r] /\ LabelsOf(r, d) # LabelsOf(r, d0)
          BY <3>2, <2>2, <2>5
        <4>2. gauge'[LabelsOf(r, d)] = gauge[LabelsOf(r, d)]
          BY <4>1, <2>2, <2>4 DEF Answered
        <4>3. gauge[LabelsOf(r, d)] = Value(r, d)
          BY <4>1, <1>6 DEF setMetricData
        <4> QED
          BY <4>2, <4>3
      <3> QED
        BY <3>1, <3>2
    <2> QED
      BY <2>2, <2>3, <2>4, <2>6
  <1>7. CASE Collect(r)
    BY <1>7 DEF Collect
  <1>8. CASE setRequestProgressToFalse(r)
    BY <1>8 DEF setRequestProgressToFalse
  <1> QED
    BY <1>1, <1>2, <1>3, <1>4, <1>5, <1>6, <1>7, <1>8, Zenon DEF Serve

\* and the answer it gives is the one of its list
LEMMA ServeAnswer ==
    ASSUME ExporterTypes, NEW r \in Scrape, Progress(r), Serve(r), AnsweredOwn(r)
    PROVE  AnsweredOwn(r)'
  <1> USE DEF ExporterTypes, AnsweredOwn
  <1>1. CASE Enter(r) \/ InitClient(r) \/ ListBlockDevice(r) \/ getMetricData(r)
             \/ setLabels(r) \/ setMetricData(r)
    <2>1. answer'[r] = <<>>
      BY <1>1, Zenon DEF Enter, InitClient, ListBlockDevice, getMetricData, setLabels,
                  setMetricData, Fail, Progress
    <2> QED
      BY <2>1
  <1>2. CASE Collect(r)
    <2>1. answer'[r] = gauge /\ unset[r] = {}
      BY <1>2 DEF Collect, Progress
    <2>2. \A d \in Answered(r) : gauge[LabelsOf(r, d)] = Value(r, d)
      BY <1>2, <2>1 DEF Collect, Progress
    <2>3. /\ Answered(r)' = Answered(r)
          /\ \A d : Value(r, d)' = Value(r, d) /\ LabelsOf(r, d)' = LabelsOf(r, d)
      BY <1>2 DEF Collect, Value, Answered, LabelsOf
    <2> QED
      BY <2>1, <2>2, <2>3
  <1>3. CASE setRequestProgressToFalse(r)
    BY <1>3 DEF setRequestProgressToFalse, Value, Answered, LabelsOf
  <1> QED
    BY <1>1, <1>2, <1>3 DEF Serve

\* A step of one scrape leaves the others alone, and only the one that is inside writes
\* labels and gauges
LEMMA ServeOthers ==
    ASSUME ExporterTypes, OneCollection, NEW r \in Scrape, NEW q \in Scrape, q # r, Serve(r)
    PROVE  Kept(q) /\ (pc[q] \in {"idle", "done"} \/ (label' = label /\ gauge' = gauge))
  <1> USE DEF ExporterTypes, Kept
  <1>1. CASE Enter(r)
    BY <1>1 DEF Enter
  <1>2. CASE setRequestProgressToFalse(r)
    BY <1>2 DEF setRequestProgressToFalse
  <1>3. CASE InitClient(r) \/ ListBlockDevice(r) \/ getMetricData(r) \/ Collect(r)
    BY <1>3, Zenon DEF InitClient, ListBlockDevice, getMetricData, Collect, Fail
  <1>4. CASE setLabels(r) \/ setMetricData(r)
    <2>1. pc[r] \in Inside
      BY <1>4 DEF setLabels, setMetricData, Inside
    <2>2. pc[q] \in {"idle", "done"}
      BY <2>1 DEF OneCollection
    <2>3. Kept(q)
      BY <1>4 DEF setLabels, setMetricData
    <2> QED
      BY <2>2, <2>3
  <1> QED
    BY <1>1, <1>2, <1>3, <1>4 DEF Serve

\* The invariant is inductive
LEMMA ExporterStep == ExporterInv /\ [ExporterNext]_exporterVars => ExporterInv'
  <1> SUFFICES ASSUME ExporterInv, [ExporterNext]_exporterVars PROVE ExporterInv'
    OBVIOUS
  <1> USE DEF ExporterInv
  <1>1. ASSUME NEW r \in Scrape, Serve(r) PROVE ExporterInv'
    <2>1. ExporterTypes' /\ OneCollection'
      BY <1>1, ServeTypes, ServeOne
    <2>2. ASSUME NEW q \in Scrape PROVE Progress(q)'
      BY <1>1, ServeProgress, ServeOthers, KeptProgress
    <2>3. ASSUME NEW q \in Scrape PROVE AnsweredOwn(q)'
      BY <1>1, ServeAnswer, ServeOthers, KeptAnswer
    <2> QED
      BY <2>1, <2>2, <2>3
  <1>2. CASE EtcdChange \/ UNCHANGED exporterVars
    <2>1. /\ \A q \in Scrape : Kept(q)
          /\ UNCHANGED <<label, gauge, pc, requestInProgress, listed, read, unset, answer>>
      BY <1>2 DEF EtcdChange, exporterVars, Kept
    <2>2. etcd' \in Stores
      <3> DEFINE E == [path: LabelPath, state: {"Active", "Inactive", "Unknown"}] \cup {NoDevice}
      <3>1. CASE UNCHANGED etcd
        BY <3>1 DEF ExporterTypes
      <3>2. CASE ~UNCHANGED etcd
        <4>1. PICK d \in Disk, e \in E : etcd' = [etcd EXCEPT ![d] = e]
          BY <1>2, <3>2, Zenon DEF EtcdChange, exporterVars
        <4> HIDE DEF E
        <4>2. QED
          BY <4>1 DEF ExporterTypes, Stores, E
      <3> QED
        BY <3>1, <3>2
    <2>3. ExporterTypes' /\ OneCollection'
      BY <2>1, <2>2, Zenon DEF ExporterTypes, OneCollection
    <2>4. ASSUME NEW q \in Scrape PROVE Progress(q)'
      BY <2>1, KeptProgress
    <2>5. ASSUME NEW q \in Scrape PROVE AnsweredOwn(q)'
      BY <2>1, KeptAnswer
    <2> QED
      BY <2>3, <2>4, <2>5
  <1> QED
    BY <1>1, <1>2 DEF ExporterNext

\* At most one scrape is between the check of the flag and its reset, in either mode and
\* on every way out of Collect.
THEOREM ExporterExclusive == ExporterSpec => []OneCollection
  <1>1. ExporterInv => OneCollection
    BY DEF ExporterInv
  <1> QED
    BY <1>1, ExporterInitial, ExporterStep, PTL DEF ExporterSpec

\* Of the devices it has listed a scrape answers what its own list and its own readings
\* said (AnswerOfOneList), although labels and gauges are shared with the scrapes before
\* and after it, no series is ever removed, and devices change, come and go meanwhile.
THEOREM ExporterAnswers == ExporterSpec => []AnswerOfOneList
  <1>1. ASSUME ExporterInv PROVE AnswerOfOneList
    <2> SUFFICES ASSUME NEW r \in Scrape, answer[r] # <<>>, NEW d \in Present(listed[r]) \ Sparse
                 PROVE  /\ answer[r][LabelsOf(r, d)] # NoSeries
                        /\ IF mode = "cluster"
                           THEN answer[r][LabelsOf(r, d)].state = getState(listed[r][d].state)
                           ELSE answer[r][LabelsOf(r, d)]["temperature"] = read[r][d].temp
      BY DEF AnswerOfOneList
    <2>1. answer[r][LabelsOf(r, d)] = Value(r, d)
      BY <1>1 DEF ExporterInv, AnsweredOwn, Answered
    <2>4. DOMAIN NoSeries = {}
      BY DEF NoSeries
    <2>2. CASE mode = "cluster"
      <3>1. DOMAIN answer[r][LabelsOf(r, d)] = {"state"}
        BY <2>1, <2>2 DEF Value
      <3>2. answer[r][LabelsOf(r, d)].state = getState(listed[r][d].state)
        BY <2>1, <2>2 DEF Value
      <3> QED
        BY <2>2, <2>4, <3>1, <3>2
    <2>3. CASE mode # "cluster"
      <3>1. "temperature" \in Gauge /\ answer[r][LabelsOf(r, d)] = Series(read[r][d])
        BY <2>1, <2>3 DEF Value, Gauge
      <3>2. Series(read[r][d])["temperature"] = read[r][d].temp
        BY <3>1, Zenon DEF Series
      <3>3. "temperature" \in DOMAIN Series(read[r][d])
        BY <3>1, Zenon DEF Series
      <3> QED
        BY <2>3, <2>4, <3>1, <3>2, <3>3
    <2> QED
      BY <2>2, <2>3
  <1> QED
    BY <1>1, ExporterInitial, ExporterStep, PTL DEF ExporterSpec

----------------------------------------------------------------------------
\* The pre-upgrade tasks: UpgradeInv is inductive

\* The old installation satisfies the invariant.
LEMMA UpgradeInitInv == UpgradeInit(OldClaims) => UpgradeInv
BY DEF UpgradeInit, OldClaims, UpgradeInv, UpgradeTypeOK, EditsKept, Tasks,
       BlockDeviceClaims

\* The written copy (renameFinalizer, copyHostName) is a claim that the task does
\* not have to visit again, with the note of the copy.
LEMMA RenewedIsNew ==
    ASSUME NEW kind \in Tasks, NEW copy \in BlockDeviceClaims
    PROVE  /\ Renewed(kind, copy) \in BlockDeviceClaims
           /\ ~Old(kind, Renewed(kind, copy))
           /\ Renewed(kind, copy).note = copy.note
BY Zenon DEF Renewed, Old, Tasks, BlockDeviceClaims, Finalizer

\* The List of PreUpgrade starts from copies that are up to date.
LEMMA PreUpgradeInv ==
    ASSUME UpgradeInv, NEW kind \in Tasks, PreUpgrade(kind)
    PROVE  UpgradeInv'
<1>1. UpgradeTypeOK' /\ EditsKept'
  BY DEF UpgradeInv, UpgradeTypeOK, PreUpgrade, EditsKept
<1>2. QED
  BY <1>1 DEF UpgradeInv, PreUpgrade, UpgradeTypeOK

\* A round of the loop of PreUpgrade: the write of a copy that is not outdated
\* upgrades the claim, and a failure ends the task.
LEMMA VisitInv ==
    ASSUME UpgradeInv, NEW c \in Claim, Visit(c)
    PROVE  UpgradeInv'
<1> DEFINE new == Renewed(task.kind, task.copy[c])
<1>0. /\ UpgradeTypeOK /\ EditsKept /\ task.kind \in Tasks /\ task.pc = "each"
      /\ c \in task.todo /\ task.copy[c] \in BlockDeviceClaims
      /\ outdated' = outdated /\ edited' = edited
  BY DEF UpgradeInv, UpgradeTypeOK, Visit
<1>1. CASE /\ ~Old(task.kind, task.copy[c]) /\ task' = [task EXCEPT !.todo = @ \ {c}]
           /\ UNCHANGED claims
  <2>1. UpgradeTypeOK' /\ EditsKept'
    BY <1>0, <1>1 DEF UpgradeTypeOK, EditsKept
  <2>2. QED
    BY <1>0, <1>1, <2>1 DEF UpgradeInv, UpgradeTypeOK
<1>2. CASE /\ Old(task.kind, task.copy[c]) /\ Update(c)
           /\ task' = [task EXCEPT !.todo = @ \ {c}]
  <2>1. /\ new \in BlockDeviceClaims /\ ~Old(task.kind, new)
        /\ new.note = task.copy[c].note
    BY <1>0, RenewedIsNew
  <2>2. c \notin outdated /\ task.copy[c] = claims[c] /\ claims[c].live
    BY <1>0, <1>2 DEF UpgradeInv, Update
  <2>3. claims' = [claims EXCEPT ![c] = new]
    BY <1>2 DEF Update
  <2> HIDE DEF new
  <2>4. UpgradeTypeOK'
    BY <1>0, <1>2, <2>1, <2>3 DEF UpgradeTypeOK
  <2>5. EditsKept'
    BY <1>0, <2>1, <2>2, <2>3 DEF EditsKept, UpgradeTypeOK
  <2>6. QED
    BY <1>0, <1>2, <2>1, <2>3, <2>4, <2>5 DEF UpgradeInv, UpgradeTypeOK
<1>3. CASE task' = [task EXCEPT !.pc = "failed"] /\ UNCHANGED claims
  <2>1. UpgradeTypeOK' /\ EditsKept'
    BY <1>0, <1>3 DEF UpgradeTypeOK, EditsKept
  <2>2. task'.pc = "failed"
    BY <1>0, <1>3 DEF UpgradeTypeOK
  <2>3. QED
    BY <2>1, <2>2 DEF UpgradeInv
<1>4. QED
  BY <1>1, <1>2, <1>3 DEF Visit

\* An edit, a deletion or a creation outdates the copy of the task, and makes no
\* claim old that it has listed.
LEMMA OthersInv ==
    ASSUME UpgradeInv, NEW c \in Claim, Others(c)
    PROVE  UpgradeInv'
<1>0. /\ UpgradeTypeOK /\ EditsKept
      /\ claims[c] \in BlockDeviceClaims /\ edited[c] \in Nat
      /\ outdated' = outdated \cup {c}
  BY DEF UpgradeInv, UpgradeTypeOK, Others
<1>1. CASE Edit(c)
  <2>1. PICK attr \in {claims[c].attr, TRUE} :
          claims' = [claims EXCEPT ![c] = [claims[c] EXCEPT !.note = edited[c] + 1, !.attr = attr]]
    BY <1>1, Zenon DEF Edit
  <2> DEFINE new == [claims[c] EXCEPT !.note = edited[c] + 1, !.attr = attr]
  <2>2. claims' = [claims EXCEPT ![c] = new]
    BY <2>1
  <2>3. /\ new \in BlockDeviceClaims /\ new.note = edited[c] + 1
        /\ new.live = claims[c].live
    <3>1. claims[c].attr \in BOOLEAN
      BY <1>0 DEF BlockDeviceClaims
    <3>2. attr \in BOOLEAN
      BY <3>1, Zenon
    <3>3. edited[c] + 1 \in Nat
      BY <1>0
    <3>4. new \in BlockDeviceClaims
      BY <1>0, <3>2, <3>3, Zenon DEF BlockDeviceClaims
    <3>5. QED
      BY <1>0, <3>4 DEF BlockDeviceClaims
  <2>6. new.fins = claims[c].fins /\ new.host = claims[c].host
        /\ new.attr \in {claims[c].attr, TRUE}
    BY <1>0, Zenon DEF BlockDeviceClaims
  <2> HIDE DEF new
  <2>7. \A kind \in Tasks : Old(kind, new) => Old(kind, claims[c])
    BY <2>6, Zenon DEF Old, Tasks
  <2>8. edited' = [edited EXCEPT ![c] = @ + 1] /\ task' = task
    BY <1>1 DEF Edit
  <2>4. UpgradeTypeOK'
    BY <1>0, <2>8, <2>2, <2>3 DEF UpgradeTypeOK
  <2>5. EditsKept'
    BY <1>0, <1>1, <2>2, <2>3, <2>8 DEF EditsKept, UpgradeTypeOK, Edit
  <2>9. QED
    BY <1>0, <1>1, <2>2, <2>3, <2>4, <2>5, <2>7, <2>8 DEF UpgradeInv, UpgradeTypeOK, Edit
<1>2. CASE Release(c)
  <2>1. /\ claims' = [claims EXCEPT ![c].live = FALSE]
        /\ task' = task /\ edited' = edited
    BY <1>2 DEF Release
  <2>2. /\ UpgradeTypeOK' /\ ~claims'[c].live
        /\ \A x \in Claim : x # c => claims'[x] = claims[x]
    BY <1>0, <2>1, Zenon DEF UpgradeTypeOK, BlockDeviceClaims
  <2>3. EditsKept'
    BY <1>0, <2>1, <2>2 DEF EditsKept
  <2>4. QED
    BY <1>0, <2>1, <2>2, <2>3 DEF UpgradeInv, UpgradeTypeOK
<1>3. CASE Create(c)
  <2>1. PICK f \in Finalizer, host \in BOOLEAN :
          claims' = [claims EXCEPT ![c] =
                       [live |-> TRUE, fins |-> {f}, host |-> host, attr |-> FALSE,
                        note |-> edited[c]]]
    BY <1>3, Zenon DEF Create
  <2>2. /\ task' = [task EXCEPT !.listed = @ \ {c}] /\ edited' = edited
    BY <1>3 DEF Create
  <2>3. /\ UpgradeTypeOK' /\ claims'[c].note = edited[c]
        /\ \A x \in Claim : x # c => claims'[x] = claims[x]
    BY <1>0, <2>1, <2>2, Zenon DEF UpgradeTypeOK, BlockDeviceClaims
  <2>4. EditsKept'
    BY <1>0, <2>2, <2>3 DEF EditsKept
  <2>5. QED
    BY <1>0, <2>2, <2>3, <2>4 DEF UpgradeInv, UpgradeTypeOK
<1>4. QED
  BY <1>1, <1>2, <1>3 DEF Others

\* The invariant holds in every state of the tasks.
THEOREM UpgradeInvariant == UpgradeSpec => []UpgradeInv
<1>1. ASSUME UpgradeInv, [UpgradeNext]_upgradeVars
      PROVE  UpgradeInv'
  <2>1. CASE \E kind \in Tasks : PreUpgrade(kind)
    BY <1>1, <2>1, PreUpgradeInv
  <2>2. CASE \E c \in Claim : Visit(c) \/ Others(c)
    BY <1>1, <2>2, VisitInv, OthersInv
  <2>3. CASE Succeed
    BY <1>1, <2>3 DEF UpgradeInv, UpgradeTypeOK, Succeed, EditsKept
  <2>4. CASE UNCHANGED upgradeVars
    BY <1>1, <2>4 DEF UpgradeInv, UpgradeTypeOK, upgradeVars, EditsKept
  <2>5. QED
    BY <1>1, <2>1, <2>2, <2>3, <2>4 DEF UpgradeNext
<1>2. QED
  BY <1>1, UpgradeInitInv, PTL DEF UpgradeSpec

\* PreUpgrade returns true only after it has upgraded every claim it listed.
THEOREM UpgradeComplete == UpgradeSpec => []SuccessMeansUpgraded
<1>1. UpgradeInv => SuccessMeansUpgraded
  BY DEF UpgradeInv, SuccessMeansUpgraded
<1>2. QED
  BY <1>1, UpgradeInvariant, PTL

\* The tasks never overwrite the edit of a user.
THEOREM UpgradeKeepsEdits == UpgradeSpec => []EditsKept
<1>1. UpgradeInv => EditsKept
  BY DEF UpgradeInv
<1>2. QED
  BY <1>1, UpgradeInvariant, PTL

----------------------------------------------------------------------------
\* The selection of a device, for every list and every claim

\* A set of positions that is not empty has a first one.
LEMMA FirstIsLeast ==
    ASSUME NEW S \in SUBSET Nat, S # {}
    PROVE  First(S) \in S /\ \A j \in S : First(S) <= j
<1>1. PICK i \in S : \A j \in S : <<j, i>> \notin OpToRel(<, Nat)
  BY NatLessThanWellFounded, WFMin
<1>2. ASSUME NEW j \in S
      PROVE  i <= j
  <2>1. ~(j < i)
    BY <1>1, Zenon DEF OpToRel
  <2>2. QED
    BY <2>1
<1>3. QED
  BY <1>2, Zenon DEF First

\* The positions of a list hold its elements.
LEMMA ListElements ==
    ASSUME NEW B, NEW l \in Seq(B)
    PROVE  \A i \in DOMAIN l : l[i] \in B
<1>1. DOMAIN l = 1..Len(l)
  OBVIOUS
<1>2. QED
  BY <1>1

\* the positions of the suitable devices
Suited(l, spec) == {i \in DOMAIN l : Suitable(l[i], spec)}

\* The candidates of a manual selection are the first free device with the name.
LEMMA ManualCandidates ==
    ASSUME NEW l \in Seq(BlockDevices), NEW spec \in DeviceClaimSpec, spec.name # ""
    PROVE  getCandidateDevices(l, spec) =
             OnlyFirst(Suited(l, spec))
<1>1. \A i \in DOMAIN l : l[i] \in BlockDevices
  BY ListElements
<1>2. Suited(l, spec) =
        {i \in filterBlockDeviceTag(l, filterOutLegacyAnnotation(l,
           filterUnclaimed(l, filterActive(l, DOMAIN l, spec), spec), spec), spec) :
              l[i].name = spec.name}
  BY <1>1 DEF filterBlockDeviceTag, filterOutLegacyAnnotation, filterUnclaimed,
     filterActive, Suited, Suitable, Free, BlockDevices
<1>3. QED
  BY <1>2, Zenon DEF getCandidateDevices, filterBlockDeviceName

\* The candidates of an automatic selection that are large enough are the suitable
\* devices.
LEMMA AutomaticCandidates ==
    ASSUME NEW l \in Seq(BlockDevices), NEW spec \in DeviceClaimSpec, spec.name = ""
    PROVE  {i \in getCandidateDevices(l, spec) : l[i].cap >= spec.cap} = Suited(l, spec)
<1>1. ASSUME NEW i \in DOMAIN l
      PROVE  Suitable(l[i], spec) <=>
                i \in getCandidateDevices(l, spec) /\ l[i].cap >= spec.cap
  <2>1. l[i] \in BlockDevices
    BY ListElements
  <2> DEFINE free == filterBlockDeviceTag(l, filterOutLegacyAnnotation(l,
                       filterUnclaimed(l, filterActive(l, DOMAIN l, spec), spec),
                       spec), spec)
  <2>2. i \in free <=> Free(l[i], spec)
    BY <2>1 DEF filterBlockDeviceTag, filterOutLegacyAnnotation, filterUnclaimed,
       filterActive, Free, BlockDevices
  <2> HIDE DEF free
  <2>3. l[i].name # "" /\ l[i].type # "" /\ l[i].node # ""
    BY <2>1, SelectionAssumption DEF BlockDevices
  <2>4. i \in getCandidateDevices(l, spec) <=>
          i \in filterNodeName(l, filterVolumeMode(l, filterDeviceType(l,
                  filterOutSparseBlockDevice(l, free, spec), spec), spec), spec)
    BY DEF getCandidateDevices, free
  <2>5. spec.mode \in {"", "Block", "FileSystem"}
    BY DEF DeviceClaimSpec
  <2>6. QED
    BY <2>2, <2>3, <2>4, <2>5 DEF filterNodeName, filterVolumeMode, filterDeviceType,
       filterOutSparseBlockDevice, Suitable, Meets
<1>2. getCandidateDevices(l, spec) \subseteq DOMAIN l
  BY DEF getCandidateDevices, filterNodeName, filterVolumeMode, filterDeviceType,
     filterOutSparseBlockDevice, filterBlockDeviceTag, filterOutLegacyAnnotation,
     filterUnclaimed, filterActive
<1>3. QED
  BY <1>1, <1>2 DEF Suited

\* Config.Filter returns the first suitable device, or an error when there is none.
LEMMA FilterIsFirstSuitable ==
    ASSUME NEW l \in Seq(BlockDevices), NEW spec \in DeviceClaimSpec
    PROVE  Filter(l, spec) = IF Suited(l, spec) = {} THEN 0 ELSE First(Suited(l, spec))
<1> DEFINE T == Suited(l, spec)
           S == getCandidateDevices(l, spec)
           sel == IF spec.name # "" THEN S ELSE OnlyFirst({i \in S : l[i].cap >= spec.cap})
<1>1. Filter(l, spec) = IF S = {} THEN 0 ELSE IF sel = {} THEN 0 ELSE First(sel)
  BY DEF Filter, getSelectedDevice, filterResourceStorage
<1>2. sel = OnlyFirst(T)
  BY ManualCandidates, AutomaticCandidates
<1>3. S = {} => sel = {}
  BY DEF OnlyFirst
<1> HIDE DEF S, sel
<1>4. \A x : First({x}) = x
  BY DEF First
<1>5. Filter(l, spec) = IF T = {} THEN 0 ELSE First(T)
  <2>1. CASE T = {}
    BY <1>1, <1>2, <2>1 DEF OnlyFirst
  <2>2. CASE T # {}
    <3>1. sel = {First(T)}
      BY <1>2, <2>2 DEF OnlyFirst
    <3>2. First(sel) = First(T) /\ S # {}
      BY <1>3, <1>4, <3>1, Zenon
    <3>3. QED
      BY <1>1, <2>2, <3>1, <3>2
  <2>3. QED
    BY <2>1, <2>2
<1>6. QED
  BY <1>5

\* The selected device is the first suitable one of the list, for every list of
\* devices and every claim.
THEOREM SelectionCorrect == SelectionSpec => []SelectsFirstSuitable
<1> DEFINE Inv == input \in SelectionInputs /\ SelectsFirstSuitable
<1>1. SelectInit(SelectionInputs) => Inv
  BY DEF SelectInit, SelectsFirstSuitable
<1>2. ASSUME Inv, Select
      PROVE  Inv'
  <2> DEFINE T == Suited(input.list, input.spec)
  <2>1. input' = input /\ input.list \in Seq(BlockDevices) /\ input.spec \in DeviceClaimSpec
    BY <1>2 DEF Select, SelectionInputs
  <2>2. picked' = IF T = {} THEN 0 ELSE First(T)
    BY <1>2, <2>1, FilterIsFirstSuitable DEF Select
  <2>3. T \in SUBSET Nat /\ 0 \notin T
    BY <2>1 DEF Suited
  <2>4. T # {} => First(T) \in T /\ \A j \in T : First(T) <= j
    BY <2>3, FirstIsLeast
  <2>5. QED
    BY <1>2, <2>1, <2>2, <2>3, <2>4, Zenon DEF SelectsFirstSuitable, Suited, Undecided
<1>3. ASSUME Inv, UNCHANGED selectVars
      PROVE  Inv'
  BY <1>3 DEF SelectsFirstSuitable, selectVars
<1>4. QED
  BY <1>1, <1>2, <1>3, PTL DEF SelectionSpec
=============================================================================
