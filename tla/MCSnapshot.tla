----------------------------- MODULE MCSnapshot -----------------------------
(***************************************************************************)
(* ScanMem with the history of the target's memory, to compare what a scan *)
(* records with a snapshot.                                                *)
(***************************************************************************)
EXTENDS MCScanMem

(* prog and libz are both mapped, a page each. *)
MCTwoMapped == {1, 2}
MCTwoMem == [p \in Page |-> {4}]
MCTwoLinkmap == <<"prog", "libz">>

VARIABLE hist   \* ghost: the states of the memory since the scan began

SnapshotSpec ==
    /\ Init /\ hist = {mem}
    /\ [][Next /\ hist' = hist \cup {mem'}]_<<vars, hist>>

(* What the scan has recorded of a page. *)
Recorded(r, n) == {c.slot : c \in {d \in cap_info : d.block = r /\ d.page = n}}

(* "The data can then be queried to retrieve information regarding the     *)
(* capabilities created at that snapshot" (README.md:8): after a scan in   *)
(* which nothing failed, the rows are those of one instant of the memory.  *)
OneSnapshot ==
    pc = "done" /\ silent = {} =>
        \E m \in hist : \A k \in 1..Len(vmmap) :
            Region[vmmap[k]].hascap =>
                \A n \in 1..Region[vmmap[k]].pages :
                    Recorded(vmmap[k], n) = FoundTags(m[<<vmmap[k], n>>], 0..31)
=============================================================================
