----------------------------- MODULE SmartAccess ----------------------------
(***************************************************************************)
(* pkg/smart: how the smart probe and the node service ask a SCSI disk for *)
(* its details, all of them (SCSIBasicDiskInfo) or one by its name         *)
(* (SCSIBasicDiskInfoByAttrName).  Every call opens the device itself,     *)
(* sends it commands any of which may fail, and closes it.                 *)
(***************************************************************************)
EXTENDS Naturals, Sequences

CONSTANT MaxCalls   \* bound on the calls
ASSUME SmartAssumption == MaxCalls \in Nat

VARIABLES
    asked,    \* the current call: what is asked for, the device, the commands still to send
    open,     \* the calls whose descriptor is open
    info,     \* the details filled in by the current call
    failed,   \* the keys of its error map
    blind     \* the calls that could not find out the type of the device

smartVars == <<asked, open, info, failed, blind>>

\* types.go: which command gives an attribute
ScsiInqAttr == {"vendor", "serial"}
SimpleSCSIAttr == {"pbs", "lbs", "capacity"}
ATACSAttr == {"wwn", "lbs", "pbs"}
Attribute == ScsiInqAttr \cup SimpleSCSIAttr \cup ATACSAttr

\* getBasicDiskInfoByAttr of SATA and of SCSIDev: the command for one attribute; "none"
\* for the ones that the device has not, and for the physical size of a SCSI disk
getBasicDiskInfoByAttr(ata, a) ==
    IF a \in ScsiInqAttr THEN "inquiry"
    ELSE IF ata /\ a \in ATACSAttr THEN "identify"
    ELSE IF a = "lbs" THEN "lbs" ELSE IF a = "capacity" THEN "capacity" ELSE "none"

\* getBasicDiskInfo of SATA and of SCSIDev
getBasicDiskInfo(ata) ==
    IF ata THEN <<"identify", "inquiry", "capacity">> ELSE <<"inquiry", "capacity", "lbs">>

\* what the answer to a command fills in (fillDiskInfoUsingATACSPage, ...UsingSI)
Fills(c) == CASE c = "identify" -> {"serial", "wwn", "lbs", "pbs"}
              [] c = "inquiry" -> ScsiInqAttr
              [] c = "none" -> {}
              [] OTHER -> {c}

----------------------------------------------------------------------------
NoCall(n) == [n |-> n, at |-> "idle", attr |-> "all", ata |-> FALSE, todo |-> <<>>]
Return == asked' = [asked EXCEPT !.at = "idle", !.todo = <<>>]

\* SCSIBasicDiskInfo and SCSIBasicDiskInfoByAttrName: an error of isConditionSatisfied
\* (path, permissions, bus) ends the call, for one attribute also that it is not named
AskDisk(attr, ata) ==
    /\ asked.at = "idle" /\ asked.n < MaxCalls
    /\ info' = {}
    /\ \/ /\ asked' = [n |-> asked.n + 1, at |-> "open", attr |-> attr, ata |-> ata, todo |-> <<>>]
          /\ attr # "" /\ failed' = {}
       \/ asked' = [NoCall(asked.n + 1) EXCEPT !.attr = attr] /\ failed' = {"conditions"}
    /\ UNCHANGED <<open, blind>>

\* detectSCSIType opens the device
Open ==
    /\ asked.at = "open"
    /\ \/ /\ open' = open \cup {asked.n}
          /\ asked' = [asked EXCEPT !.at = "detect"] /\ UNCHANGED <<failed, blind>>
       \/ Return /\ failed' = failed \cup {"detect"} /\ blind' = blind \cup {asked.n}
          /\ UNCHANGED open
    /\ UNCHANGED info

\* and sends an inquiry; when that fails it returns no device that could be closed
Detect ==
    /\ asked.at = "detect"
    /\ \/ /\ asked' = [asked EXCEPT !.at = "query", !.todo =
                         IF asked.attr = "all" THEN getBasicDiskInfo(asked.ata)
                         ELSE <<getBasicDiskInfoByAttr(asked.ata, asked.attr)>>]
          /\ UNCHANGED <<failed, blind>>
       \/ Return /\ failed' = failed \cup {"detect"} /\ blind' = blind \cup {asked.n}
    /\ UNCHANGED <<open, info>>

\* one command, answered or not (sendSCSICDB); a failed one is collected and the next sent
Command ==
    /\ asked.at = "query" /\ asked.todo # <<>>
    /\ LET c == Head(asked.todo) IN
         \/ c # "none" /\ info' = info \cup Fills(c) /\ UNCHANGED failed
         \/ failed' = failed \cup {c} /\ UNCHANGED info
    /\ asked' = [asked EXCEPT !.todo = Tail(@)]
    /\ UNCHANGED <<open, blind>>

\* A variant that returns before the deferred Close when a command failed
CloseIfAnswered ==
    /\ asked.at = "query" /\ asked.todo = <<>>
    /\ open' = IF failed = {} THEN open \ {asked.n} ELSE open
    /\ Return /\ UNCHANGED <<info, failed, blind>>

\* the deferred Close
Close ==
    /\ asked.at = "query" /\ asked.todo = <<>>
    /\ open' = open \ {asked.n}
    /\ Return /\ UNCHANGED <<info, failed, blind>>

SmartInit == asked = NoCall(0) /\ open = {} /\ info = {} /\ failed = {} /\ blind = {}
SmartNext ==
    \/ \E attr \in Attribute \cup {"all", ""}, ata \in BOOLEAN : AskDisk(attr, ata)
    \/ Open \/ Detect \/ Command \/ Close
SmartSpec == SmartInit /\ [][SmartNext]_smartVars

----------------------------------------------------------------------------
\* DescriptorsClosed: between two calls the only descriptors still open are those of
\* calls whose type detection failed, whichever of the later commands failed, and a
\* call that returned without an error has filled in what was asked for.
DescriptorsClosed ==
    asked.at = "idle" =>
      /\ open \subseteq blind
      /\ asked.n > 0 /\ failed = {} =>
           IF asked.attr = "all" THEN ScsiInqAttr \cup {"capacity", "lbs"} \subseteq info
           ELSE asked.attr \in info
=============================================================================
