------------------------------ MODULE Exporter ------------------------------
(***************************************************************************)
(* The exporter (ndm-exporter): each scrape of the metrics endpoint runs   *)
(* Collect of the registered collector in a goroutine of its own, the      *)
(* static one in cluster mode, the SeaChest one in node mode.  All scrapes *)
(* share the client, the gauges and the labels that are set on them; a     *)
(* flag under a mutex lets one scrape in at a time.  A series is named by  *)
(* its labels, the device and its path, and no series is ever removed.     *)
(***************************************************************************)
EXTENDS Integers, FiniteSets

CONSTANTS
    Scrape,      \* the requests
    Disk,        \* the names (UUIDs) of BlockDevices
    LabelPath,   \* their paths
    Sparse,      \* those of type sparse
    Reading,     \* what SeaChest reads from a drive
    MaxUpdates   \* bound on the changes in etcd

ASSUME ExporterAssumption == Sparse \subseteq Disk /\ "" \notin LabelPath /\ MaxUpdates \in Nat

VARIABLES
    mode,               \* "cluster" or "node"
    etcd,               \* the path and the state of every BlockDevice there is
    updates,            \* changes of etcd so far
    requestInProgress,  \* the flag of the collector
    pc,                 \* where each request is
    listed,             \* the devices each request has listed, path and state
    read,               \* the readings of the devices that SeaChest could read
    unset,              \* the devices whose gauges a request has still to set
    label,              \* the device and the path that the shared labels name
    gauge,              \* the series of every device and path
    answer,             \* what a request has returned
    rejectRequestCount, errorRequestCount

exporterVars == <<mode, etcd, updates, requestInProgress, pc, listed, read, unset, label,
                  gauge, answer, rejectRequestCount, errorRequestCount>>

\* the gauges of the SeaChest collector; those that the setters treat alike are one
Gauge == {"temperature", "currentValid", "highestValid", "lowestValid", "bytes"}
NoSeries == <<>>   \* labels for which a gauge was never set
NoDevice == [path |-> "", state |-> ""]
Labels == Disk \X LabelPath
NoReading == [temp |-> 0, current |-> FALSE, highest |-> FALSE, lowest |-> FALSE]
Inside == {"init", "list", "data", "set", "gauge", "collect", "leave"}

\* the devices of a list
Present(list) == {d \in Disk : list[d] # NoDevice}

\* getState: (0,1,2) = {Active, Inactive, Unknown}
getState(state) == CASE state = "Active" -> 0 [] state = "Inactive" -> 1 [] OTHER -> 2

\* the client and its list fail in the same way: count, and answer the counters only
Fail(r) ==
    /\ errorRequestCount' = errorRequestCount + 1
    /\ answer' = [answer EXCEPT ![r] = <<>>]
    /\ pc' = [pc EXCEPT ![r] = "leave"]

\* A variant that looks at the flag without the mutex: it sets it later
EnterUnlocked(r) ==
    /\ pc[r] = "idle" /\ ~requestInProgress
    /\ pc' = [pc EXCEPT ![r] = "init"]
    /\ UNCHANGED <<requestInProgress, rejectRequestCount, answer, mode, etcd, updates, listed,
                   read, unset, label, gauge, errorRequestCount>>

\* Collect, first part: a second request is rejected
Enter(r) ==
    /\ pc[r] = "idle"
    /\ \/ /\ requestInProgress
          /\ rejectRequestCount' = rejectRequestCount + 1
          /\ pc' = [pc EXCEPT ![r] = "done"] /\ answer' = [answer EXCEPT ![r] = <<>>]
          /\ UNCHANGED requestInProgress
       \/ /\ ~requestInProgress
          /\ requestInProgress' = TRUE
          /\ pc' = [pc EXCEPT ![r] = "init"]
          /\ UNCHANGED <<rejectRequestCount, answer>>
    /\ UNCHANGED <<mode, etcd, updates, listed, read, unset, label, gauge, errorRequestCount>>

InitClient(r) ==
    /\ pc[r] = "init"
    /\ \/ pc' = [pc EXCEPT ![r] = "list"] /\ UNCHANGED <<errorRequestCount, answer>>
       \/ Fail(r)
    /\ UNCHANGED <<mode, etcd, updates, requestInProgress, listed, read, unset, label, gauge,
                   rejectRequestCount>>

\* ListBlockDevice and the conversion of the list
ListBlockDevice(r) ==
    /\ pc[r] = "list"
    /\ \/ /\ listed' = [listed EXCEPT ![r] = etcd]
          /\ unset' = [unset EXCEPT ![r] = IF mode = "cluster" THEN Present(etcd) \ Sparse
                                           ELSE Present(etcd)]
          /\ pc' = [pc EXCEPT ![r] = IF mode = "cluster" THEN "set" ELSE "data"]
          /\ UNCHANGED <<errorRequestCount, answer>>
       \/ Fail(r) /\ UNCHANGED <<listed, unset>>
    /\ UNCHANGED <<mode, etcd, updates, requestInProgress, read, label, gauge, rejectRequestCount>>

\* getMetricData of the SeaChest collector: every device of the list that is not sparse
\* is read, which may fail; that all fail is an error
getMetricData(r) ==
    /\ pc[r] = "data"
    /\ \E ok \in SUBSET (Present(listed[r]) \ Sparse) : \E data \in [ok -> Reading] :
         /\ read' = [read EXCEPT ![r] = [d \in Disk |-> IF d \in ok THEN data[d] ELSE NoReading]]
         /\ \/ ok = {} /\ Fail(r)
            \/ /\ ok # {} /\ pc' = [pc EXCEPT ![r] = "set"]
               /\ UNCHANGED <<errorRequestCount, answer>>
    /\ UNCHANGED <<mode, etcd, updates, requestInProgress, listed, unset, label, gauge,
                   rejectRequestCount>>

\* the setters of the SeaChest gauges: the three for the validity write the gauge of the
\* current temperature, the two for the bytes read and written only create the series
Series(reading) ==
    [g \in Gauge |-> CASE g = "temperature" -> reading.temp
                       [] g = "currentValid" -> reading.lowest
                       [] g = "bytes" -> 0
                       [] OTHER -> NoSeries]

\* SetMetrics and setMetricData: the state, or the reading, zero when there is none
Value(r, d) ==
    IF mode = "cluster" THEN [state |-> getState(listed[r][d].state)] ELSE Series(read[r][d])

\* the labels of a device of the list
LabelsOf(r, d) == <<d, listed[r][d].path>>

\* the loop over the list: the next device
nextDevice(r) == CHOOSE d \in unset[r] : TRUE

\* one device: the labels, which the SeaChest collector keeps in fields of the shared
\* metrics, then the gauges of whatever the labels name
setLabels(r) ==
    /\ pc[r] = "set"
    /\ \/ /\ unset[r] # {} /\ label' = LabelsOf(r, nextDevice(r))
          /\ pc' = [pc EXCEPT ![r] = "gauge"]
       \/ unset[r] = {} /\ pc' = [pc EXCEPT ![r] = "collect"] /\ UNCHANGED label
    /\ UNCHANGED <<mode, etcd, updates, requestInProgress, listed, read, unset, gauge, answer,
                   rejectRequestCount, errorRequestCount>>

setMetricData(r) ==
    /\ pc[r] = "gauge"
    /\ gauge' = [gauge EXCEPT ![label] = Value(r, nextDevice(r))]
    /\ unset' = [unset EXCEPT ![r] = @ \ {nextDevice(r)}]
    /\ pc' = [pc EXCEPT ![r] = "set"]
    /\ UNCHANGED <<mode, etcd, updates, requestInProgress, listed, read, label, answer,
                   rejectRequestCount, errorRequestCount>>

\* Collectors: the gauges as they are now
Collect(r) ==
    /\ pc[r] = "collect"
    /\ answer' = [answer EXCEPT ![r] = gauge]
    /\ pc' = [pc EXCEPT ![r] = "leave"]
    /\ UNCHANGED <<mode, etcd, updates, requestInProgress, listed, read, unset, label, gauge,
                   rejectRequestCount, errorRequestCount>>

\* A variant whose error paths leave the flag set
LeaveOnSuccess(r) ==
    /\ pc[r] = "leave"
    /\ requestInProgress' = (answer[r] = <<>>)
    /\ pc' = [pc EXCEPT ![r] = "done"]
    /\ UNCHANGED <<mode, etcd, updates, listed, read, unset, label, gauge, answer,
                   rejectRequestCount, errorRequestCount>>

\* the deferred setRequestProgressToFalse, on every way out
setRequestProgressToFalse(r) ==
    /\ pc[r] = "leave"
    /\ requestInProgress' = FALSE
    /\ pc' = [pc EXCEPT ![r] = "done"]
    /\ UNCHANGED <<mode, etcd, updates, listed, read, unset, label, gauge, answer,
                   rejectRequestCount, errorRequestCount>>

Serve(r) == Enter(r) \/ InitClient(r) \/ ListBlockDevice(r) \/ getMetricData(r)
            \/ setLabels(r) \/ setMetricData(r) \/ Collect(r) \/ setRequestProgressToFalse(r)

\* the daemon and the operator change a BlockDevice: its state, its path after a restart
\* of the node; they create it and delete it
EtcdChange ==
    /\ updates < MaxUpdates /\ updates' = updates + 1
    /\ \E d \in Disk :
         \/ \E p \in LabelPath, s \in {"Active", "Inactive", "Unknown"} :
              etcd' = [etcd EXCEPT ![d] = [path |-> p, state |-> s]]
         \/ etcd' = [etcd EXCEPT ![d] = NoDevice]
    /\ UNCHANGED <<mode, requestInProgress, pc, listed, read, unset, label, gauge, answer,
                   rejectRequestCount, errorRequestCount>>

----------------------------------------------------------------------------
ExporterInit(modes, stores) ==
    /\ mode \in modes
    /\ etcd \in stores /\ updates = 0
    /\ requestInProgress = FALSE
    /\ pc = [r \in Scrape |-> "idle"]
    /\ listed = [r \in Scrape |-> [d \in Disk |-> NoDevice]]
    /\ read = [r \in Scrape |-> [d \in Disk |-> NoReading]]
    /\ label = <<>> /\ unset = [r \in Scrape |-> {}]
    /\ gauge = [x \in Labels |-> NoSeries]
    /\ answer = [r \in Scrape |-> <<>>]
    /\ rejectRequestCount = 0 /\ errorRequestCount = 0

ExporterNext == EtcdChange \/ \E r \in Scrape : Serve(r)

\* any content of etcd
Stores == [Disk -> [path: LabelPath, state: {"Active", "Inactive", "Unknown"}] \cup {NoDevice}]
ExporterSpec == ExporterInit({"cluster", "node"}, Stores) /\ [][ExporterNext]_exporterVars

\* OneCollection: one scrape at a time is between the check of the flag and its
\* reset, and the flag is set exactly as long
OneCollection ==
    /\ \A r, q \in Scrape : pc[r] \in Inside /\ pc[q] \in Inside => r = q
    /\ requestInProgress <=> \E r \in Scrape : pc[r] \in Inside

\* AnswerOfOneList: of a device that a scrape has listed it answers, under the labels
\* of that list, the state the list said, in node mode the temperature that this scrape
\* read (zero when it could not), whatever other scrapes, earlier lists with the same
\* labels and changes in etcd come in between.  Of the labels that the list does not have
\* it says nothing: the series of a device that is gone, or was at another path, are
\* still answered as the last scrape that listed them left them.
AnswerOfOneList ==
    \A r \in Scrape : answer[r] # <<>> =>
        \A d \in Present(listed[r]) \ Sparse :
          LET series == answer[r][LabelsOf(r, d)] IN
          /\ series # NoSeries
          /\ IF mode = "cluster" THEN series.state = getState(listed[r][d].state)
             ELSE series["temperature"] = read[r][d].temp
=============================================================================
