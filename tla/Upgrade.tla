------------------------------ MODULE Upgrade -------------------------------
(***************************************************************************)
(* The pre-upgrade tasks (pkg/upgrade): one lists the claims and renames   *)
(* their finalizer, the other copies their host name, with one conditional *)
(* write for each claim that needs it.  A failed call ends the task, and   *)
(* it is run again from its beginning.  The users and the operator edit,   *)
(* delete and create claims meanwhile.                                     *)
(***************************************************************************)
EXTENDS Naturals

CONSTANTS
    Claim,       \* names of BlockDeviceClaims
    MaxEdits,    \* bound on the edits, deletions and creations by others
    MaxRuns      \* bound on the runs of the tasks

ASSUME UpgradeAssumption == MaxEdits \in Nat /\ MaxRuns \in Nat

Finalizer == {"blockdeviceclaim.finalizer", "openebs.io/bdc-protection"}
Tasks == {"v040_041", "v041_042"}

VARIABLES
    claims,   \* the claims in the API server; live: it exists
    edited,   \* the last edit of each claim by its user
    task,     \* the task at work: its list, and what it has yet to visit
    outdated, \* the claims written since the task listed them
    edits,    \* what others did so far
    runs      \* tasks started so far

upgradeVars == <<claims, edited, task, outdated, edits, runs>>

\* note: what the user last wrote; host, attr: the two host name fields are set
BlockDeviceClaims == [live: BOOLEAN, fins: SUBSET Finalizer, host: BOOLEAN,
                      attr: BOOLEAN, note: Nat]

\* PreUpgrade: a failed List ends the task; note that the copies of the list are
\* the ones written later
PreUpgrade(kind) ==
    /\ task.pc \in {"idle", "ok", "failed"} /\ runs < MaxRuns
    /\ LET listed == {c \in Claim : claims[c].live} IN
       \/ task' = [kind |-> kind, pc |-> "each", listed |-> listed, todo |-> listed,
                   copy |-> claims]
       \/ task' = [kind |-> kind, pc |-> "failed", listed |-> {}, todo |-> {},
                   copy |-> claims]
    /\ outdated' = {} /\ runs' = runs + 1
    /\ UNCHANGED <<claims, edited, edits>>

\* renameFinalizer and copyHostName: whether the copy needs a write, and the write
Old(kind, copy) ==
    IF kind = "v040_041" THEN "blockdeviceclaim.finalizer" \in copy.fins
    ELSE copy.host /\ ~copy.attr

Renewed(kind, copy) ==
    IF kind = "v040_041"
    THEN [copy EXCEPT !.fins = (@ \ {"blockdeviceclaim.finalizer"})
                                 \cup {"openebs.io/bdc-protection"}]
    ELSE [copy EXCEPT !.attr = TRUE]

\* A variant whose writes carry no resource version
UpdateUnversioned(c) ==
    /\ claims[c].live
    /\ claims' = [claims EXCEPT ![c] = Renewed(task.kind, task.copy[c])]

\* client.Update with the copy of the list
Update(c) ==
    /\ claims[c].live /\ c \notin outdated
    /\ claims' = [claims EXCEPT ![c] = Renewed(task.kind, task.copy[c])]

\* A variant that goes on to the next claim after an error
VisitAll(c) ==
    /\ task.pc = "each" /\ c \in task.todo
    /\ IF Old(task.kind, task.copy[c])
       THEN Update(c) \/ UNCHANGED claims
       ELSE UNCHANGED claims
    /\ task' = [task EXCEPT !.todo = @ \ {c}]
    /\ UNCHANGED <<edited, outdated, edits, runs>>

\* one round of the loop of PreUpgrade; any write may fail, one of an outdated
\* copy or of a deleted claim does
Visit(c) ==
    /\ task.pc = "each" /\ c \in task.todo
    /\ \/ /\ ~Old(task.kind, task.copy[c])
          /\ task' = [task EXCEPT !.todo = @ \ {c}]
          /\ UNCHANGED claims
       \/ /\ Old(task.kind, task.copy[c]) /\ Update(c)
          /\ task' = [task EXCEPT !.todo = @ \ {c}]
       \/ /\ Old(task.kind, task.copy[c])
          /\ task' = [task EXCEPT !.pc = "failed"]
          /\ UNCHANGED claims
    /\ UNCHANGED <<edited, outdated, edits, runs>>

\* return true
Succeed ==
    /\ task.pc = "each" /\ task.todo = {}
    /\ task' = [task EXCEPT !.pc = "ok"]
    /\ UNCHANGED <<claims, edited, outdated, edits, runs>>

\* what others do to a claim: its user edits it, and may set the new host name;
\* the operator lets a deleted claim go; a claim is created, which the operator of
\* either version protects
Edit(c) ==
    /\ claims[c].live
    /\ edited' = [edited EXCEPT ![c] = @ + 1]
    /\ \E attr \in {claims[c].attr, TRUE} :
          claims' = [claims EXCEPT ![c] = [claims[c] EXCEPT !.note = edited[c] + 1, !.attr = attr]]
    /\ UNCHANGED task

Release(c) ==
    /\ claims[c].live
    /\ claims' = [claims EXCEPT ![c].live = FALSE]
    /\ UNCHANGED <<edited, task>>

Create(c) ==
    /\ ~claims[c].live
    /\ \E f \in Finalizer, host \in BOOLEAN :
          claims' = [claims EXCEPT ![c] =
                       [live |-> TRUE, fins |-> {f}, host |-> host, attr |-> FALSE,
                        note |-> edited[c]]]
    /\ task' = [task EXCEPT !.listed = @ \ {c}]
    /\ UNCHANGED edited

Others(c) ==
    /\ edits < MaxEdits /\ edits' = edits + 1
    /\ Edit(c) \/ Release(c) \/ Create(c)
    /\ outdated' = outdated \cup {c}
    /\ UNCHANGED runs

----------------------------------------------------------------------------
UpgradeInit(initial) ==
    /\ claims \in initial
    /\ edited = [c \in Claim |-> 0]
    /\ task = [kind |-> "v040_041", pc |-> "idle", listed |-> {}, todo |-> {},
               copy |-> claims]
    /\ outdated = {} /\ edits = 0 /\ runs = 0

UpgradeNext ==
    \/ \E kind \in Tasks : PreUpgrade(kind)
    \/ \E c \in Claim : Visit(c) \/ Others(c)
    \/ Succeed

\* the claims of an old installation: protected by the old finalizer
OldClaims == {f \in [Claim -> BlockDeviceClaims] :
                \A c \in Claim : /\ f[c].note = 0
                                 /\ f[c].fins = {"blockdeviceclaim.finalizer"}}

UpgradeSpec == UpgradeInit(OldClaims) /\ [][UpgradeNext]_upgradeVars

----------------------------------------------------------------------------
UpgradeTypeOK ==
    /\ claims \in [Claim -> BlockDeviceClaims] /\ edited \in [Claim -> Nat]
    /\ task \in [kind: Tasks, pc: {"idle", "each", "ok", "failed"},
                 listed: SUBSET Claim, todo: SUBSET Claim,
                 copy: [Claim -> BlockDeviceClaims]]
    /\ outdated \in SUBSET Claim

\* A task that reports success (PreUpgrade returned true) has upgraded every claim
\* it listed that still exists, whatever was edited, deleted or created meanwhile.
SuccessMeansUpgraded ==
    task.pc = "ok" => \A c \in task.listed : claims[c].live => ~Old(task.kind, claims[c])

\* An upgrade never undoes the edit of a user that came between its List and its
\* Update: the write of an outdated copy is refused.
EditsKept == \A c \in Claim : claims[c].live => claims[c].note = edited[c]

\* What makes the two invariants inductive: a copy that is not outdated is the claim,
\* a claim that is old was so when it was listed, and the claims the task has passed
\* are upgraded.
UpgradeInv ==
    /\ UpgradeTypeOK
    /\ EditsKept
    /\ task.pc \in {"each", "ok"} =>
          /\ \A c \in task.todo : c \notin outdated => task.copy[c] = claims[c]
          /\ \A c \in task.listed \cap task.todo :
                claims[c].live /\ Old(task.kind, claims[c]) => Old(task.kind, task.copy[c])
          /\ \A c \in task.listed \ task.todo :
                claims[c].live => ~Old(task.kind, claims[c])
    /\ task.pc = "ok" => task.todo = {}
=============================================================================
