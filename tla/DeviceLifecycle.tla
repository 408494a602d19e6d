-------------------------- MODULE DeviceLifecycle ---------------------------
(***************************************************************************)
(* What NDM promises the users of a BlockDevice, whatever its controllers  *)
(* and daemons do in between: a device is given to one claim at a time,    *)
(* goes from one claim to the next only by way of Released, and leaves     *)
(* Released only when the data of the claim that had it has been wiped.    *)
(***************************************************************************)
CONSTANTS BDs, BDCs, None

VARIABLES
    st,      \* Absent, or the claim state of the device
    holder,  \* the claim that has the device, or None
    data     \* devices with data of a claim on them

lifecycleVars == <<st, holder, data>>

LifecycleInit ==
    /\ st \in [BDs -> {"Absent", "Claimed"}]
    /\ holder \in [BDs -> BDCs \cup {None}]
    /\ \A b \in BDs : st[b] = "Claimed" <=> holder[b] # None
    /\ data = {b \in BDs : st[b] = "Claimed"}

Discover(b) ==
    /\ st[b] = "Absent" /\ b \notin data
    /\ st' = [st EXCEPT ![b] = "Unclaimed"]
    /\ UNCHANGED <<holder, data>>

Claim(b, c) ==
    /\ st[b] = "Unclaimed" /\ b \notin data
    /\ st' = [st EXCEPT ![b] = "Claimed"]
    /\ holder' = [holder EXCEPT ![b] = c]
    /\ data' = data \cup {b}

Release(b) ==
    /\ st[b] = "Claimed"
    /\ st' = [st EXCEPT ![b] = "Released"]
    /\ holder' = [holder EXCEPT ![b] = None]
    /\ UNCHANGED data

Wipe(b) ==
    /\ st[b] = "Released"
    /\ data' = data \ {b}
    /\ UNCHANGED <<st, holder>>

\* the resource of a device that was deleted by hand goes away when it is free
Free(b) ==
    /\ st[b] = "Released" /\ b \notin data
    /\ \E s \in {"Unclaimed", "Absent"} : st' = [st EXCEPT ![b] = s]
    /\ UNCHANGED <<holder, data>>

Remove(b) ==
    /\ st[b] = "Unclaimed"
    /\ st' = [st EXCEPT ![b] = "Absent"]
    /\ UNCHANGED <<holder, data>>

LifecycleNext ==
    \E b \in BDs :
        \/ Discover(b) \/ Release(b) \/ Wipe(b) \/ Free(b) \/ Remove(b)
        \/ \E c \in BDCs : Claim(b, c)

LifecycleSpec == LifecycleInit /\ [][LifecycleNext]_lifecycleVars
=============================================================================
