---------------------------- MODULE FeatureGates ----------------------------
(***************************************************************************)
(* SetFeatureFlag (pkg/features): the flags of the command line are set    *)
(* one by one, then every feature of the map is validated against its      *)
(* dependencies, in the random order of a Go map, with memoized results.   *)
(***************************************************************************)
EXTENDS Naturals, Sequences

Feature == {"GPTBasedUUID", "APIService", "UseOSDisk", "ChangeDetection", "PartitionTableUUID"}
defaultFeatureGates == [f \in Feature |-> f = "GPTBasedUUID"]
featureDependencies(f) == IF f = "PartitionTableUUID" THEN {"GPTBasedUUID"} ELSE {}

VARIABLES
    args,        \* the flags of the command line: sequence of [name, form, on]
    argAt,       \* how many of them are set
    gates,       \* FeatureGates
    unchecked,   \* the features the loop has yet to validate
    memoized,    \* memoizedValues: a set of <<feature, value>>
    gateState    \* "parsing", "validating", "set" or "fatal"

gateVars == <<args, argAt, gates, unchecked, memoized, gateState>>

----------------------------------------------------------------------------
\* ValidateDependencies: the new gates and memo; a feature has at most one dependency
\* and that one has none, so the recursion is one deep
Memo(f, m) == {v \in BOOLEAN : <<f, v>> \in m}
ValidateLeaf(f, g, m) ==
    IF Memo(f, m) # {} \/ ~g[f] THEN m ELSE m \cup {<<f, TRUE>>}
Valid(f, g, m) == IF Memo(f, m) # {} THEN TRUE \in Memo(f, m) ELSE g[f]

ValidateDependencies(f, g, m) ==
    IF Memo(f, m) # {} \/ ~g[f] THEN [g |-> g, m |-> m]
    ELSE LET met == \A d \in featureDependencies(f) : Valid(d, g, m)
             m2 == m \cup UNION {ValidateLeaf(d, g, m) : d \in featureDependencies(f)} IN
         [g |-> [g EXCEPT ![f] = met], m |-> m2 \cup {<<f, met>>}]

\* A variant that validates a feature as soon as it is read
SetAndValidate(a) ==
    LET set == [gates EXCEPT ![a.name] = a.form = "plain" \/ a.on] IN
    /\ gates' = ValidateDependencies(a.name, set, {}).g
    /\ argAt' = argAt + 1
    /\ unchecked' = {}
    /\ UNCHANGED gateState

\* one flag: Name, Name=state, or malformed
SetFlag(a) ==
    /\ gates' = [gates EXCEPT ![a.name] = a.form = "plain" \/ a.on]
    /\ argAt' = argAt + 1
    /\ UNCHANGED <<unchecked, gateState>>

\* one turn of the first loop; an unknown feature or a malformed flag ends the process
ParseArg ==
    /\ gateState = "parsing" /\ argAt < Len(args)
    /\ LET a == args[argAt + 1] IN
       IF a.form = "malformed" \/ a.name \notin Feature
       THEN gateState' = "fatal" /\ UNCHANGED <<gates, argAt, unchecked>>
       ELSE SetFlag(a)
    /\ UNCHANGED <<args, memoized>>

EndParsing ==
    /\ gateState = "parsing" /\ argAt = Len(args)
    /\ gateState' = "validating"
    /\ UNCHANGED <<args, argAt, gates, unchecked, memoized>>

\* one turn of the loop over the map
ValidateOne(f) ==
    /\ gateState = "validating" /\ f \in unchecked
    /\ LET r == ValidateDependencies(f, gates, memoized) IN gates' = r.g /\ memoized' = r.m
    /\ unchecked' = unchecked \ {f}
    /\ UNCHANGED <<args, argAt, gateState>>

EndValidating ==
    /\ gateState = "validating" /\ unchecked = {}
    /\ gateState' = "set"
    /\ UNCHANGED <<args, argAt, gates, unchecked, memoized>>

GateInit(inputs) ==
    /\ args \in inputs /\ argAt = 0 /\ gates = defaultFeatureGates
    /\ unchecked = Feature /\ memoized = {} /\ gateState = "parsing"
GateNext == ParseArg \/ EndParsing \/ (\E f \in Feature : ValidateOne(f)) \/ EndValidating

\* every command line
GateArg == [name: STRING, form: {"plain", "state", "malformed"}, on: BOOLEAN]
GateSpec == GateInit(Seq(GateArg)) /\ [][GateNext]_gateVars

----------------------------------------------------------------------------
\* what the command line asks of a feature: its last flag, or the default
Asked(f) ==
    LET at == {i \in DOMAIN args : args[i].name = f} IN
    IF at = {} THEN defaultFeatureGates[f]
    ELSE LET i == CHOOSE i \in at : \A j \in at : j <= i IN
         args[i].form = "plain" \/ args[i].on

\* GatesRight: whatever the order of the flags and of the map, in the end a feature is
\* on exactly if it was asked for and each feature it depends on was: the daemon never
\* runs with PartitionTableUUID and without GPTBasedUUID.
GatesRight ==
    gateState = "set" => \A f \in Feature :
       gates[f] <=> Asked(f) /\ \A d \in featureDependencies(f) : Asked(d)
=============================================================================
