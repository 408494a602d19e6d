------------------------------ MODULE MCEvents ------------------------------
(***************************************************************************)
(* The situations in which the daemon of DaemonEvents starts, for TLC: two *)
(* disks and a partition of the first, each situation with its bounds.     *)
(***************************************************************************)
EXTENDS DaemonEvents

CONSTANTS d1, d2, e1, p1, p2, s1, s2

Disk(p) == [present |-> TRUE, path |-> p, type |-> "disk", on |-> None, wwn |-> TRUE,
            local |-> FALSE, fs |-> FALSE, table |-> FALSE, use |-> "none", excluded |-> FALSE]
Virtual(p) == [Disk(p) EXCEPT !.wwn = FALSE, !.local = TRUE]
Away(h) == [h EXCEPT !.present = FALSE]
Part(p) == [Disk(PartPath(p)) EXCEPT !.type = "partition", !.on = d1]
NoPart == Away(Part(p1))
NoDisk == Away(Disk(p2))
Using(h, engine) == [h EXCEPT !.use = engine, !.table = engine # "localpv",
                              !.fs = engine = "localpv"]
Known(p, d) == [NoBD EXCEPT !.state = "Active", !.path = p, !.on = d]
Taken(p, d) == [Known(p, d) EXCEPT !.claim = "Claimed"]

Bound(h, c, f, r) == [hw |-> h, claims |-> c, faults |-> f, calls |-> r]
Sits(g, a, b, e, stored, bounds) ==
    {[gates |-> g, hw |-> d1 :> a @@ d2 :> b @@ e1 :> e, bds |-> f, probes |-> 2, left |-> n] :
       f \in stored, n \in bounds}

G == {"GPTBasedUUID"}
GP == G \cup {"PartitionTableUUID"}
GC == G \cup {"ChangeDetection"}

\* disks with a WWN: the first may be partitioned, the second may come
WwnDisks ==
    Sits(G, Disk(p1), NoDisk, NoPart,
         {<<>>, <<"wwn", d1>> :> Known(p1, d1) @@ <<"wwn", d2>> :> Known(p2, d2)},
         {Bound(2, 0, 0, 0), Bound(1, 1, 0, 0), Bound(1, 0, 1, 0), Bound(1, 0, 0, 1)})
Changes == Sits(GC, Disk(p1), NoDisk, NoPart, {<<>>}, {Bound(2, 0, 0, 0), Bound(1, 0, 1, 0)})

\* disks without an identifier, on which NDM writes a table or a partition
BlankDisks ==
    Sits(G, Virtual(p1), NoDisk, NoPart, {<<>>},
         {Bound(1, 0, 1, 0), Bound(1, 0, 0, 1), Bound(2, 0, 0, 0)})
    \cup Sits(GP, Virtual(p1), [NoDisk EXCEPT !.fs = TRUE], NoPart, {<<>>},
              {Bound(1, 0, 1, 0), Bound(1, 0, 0, 1), Bound(2, 0, 0, 0)})

\* virtual disks in use under names made of their paths, which they have swapped
Swapped(engine, ann) ==
    LET bd(p, d) == IF ann = "pt" THEN [Taken(p, d) EXCEPT !.ptuuid = d]
                                  ELSE [Taken(p, d) EXCEPT !.fsuuid = d] IN
    Sits(G, Using(Virtual(p2), engine), Using(Virtual(p1), engine), Away(Part(p2)),
         {<<"localpath", p1>> :> bd(p1, d1) @@ <<"localpath", p2>> :> bd(p2, d2)},
         {Bound(2, 0, 0, 0), Bound(0, 0, 1, 1)})
Engines == Swapped("cstor", "pt") \cup Swapped("localpv", "fs")
           \cup Sits(G, Using(Disk(p1), "zfs"), Using(Disk(p2), "mayastor"), Part(p1), {<<>>},
                     {Bound(0, 0, 1, 1)})

\* the old scheme, and a volume on the first disk
OldScheme == Sits({}, Disk(p1), NoDisk, NoPart, {<<>>, <<"serial", d2>> :> Known(p2, d2)},
                  {Bound(1, 0, 1, 0), Bound(1, 0, 0, 1), Bound(2, 0, 0, 0)})
Volume == Sits(G, Disk(p1), [Disk(p2) EXCEPT !.type = "lvm", !.on = d1], NoPart,
               {<<>>}, {Bound(0, 0, 1, 1)})

\* the first scan, before the other probes are there
FirstScan == {[s EXCEPT !.probes = 0] :
                s \in Sits(G, Disk(p1), NoDisk, NoPart, {<<>>}, {Bound(1, 0, 0, 0)})}

AllStarts == WwnDisks \cup Changes \cup BlankDisks \cup Engines \cup OldScheme \cup Volume \cup FirstScan
=============================================================================
