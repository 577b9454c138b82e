------------------------------ MODULE TagScan ------------------------------
(***************************************************************************)
(* get_tags (cap_capture.c) for one page, char by char of the tag buffer:  *)
(* the step that ScanMem takes as a whole.  The buffer is read once; the   *)
(* rows of all tagged granules are collected and inserted with one         *)
(* statement.                                                              *)
(***************************************************************************)
EXTENDS TagBuffer, Integers, FiniteSets

CONSTANTS
    TagChars,   \* the length of tagsbuf: 32 in the code
    Start       \* the address of the page

ASSUME TagScanAssumption == TagChars \in Nat /\ Start \in Nat

Granule == 0..8 * TagChars - 1

VARIABLES
    pc,        \* "read", "chars", "insert" or "done"
    tagged,    \* the granules of the page that are tagged
    k,         \* index into tagsbuf
    addrs,     \* the addresses in insert_cap_query_values
    cap_count, \* the count get_tags returns
    stored     \* the addresses whose rows are in cap_info

tagVars == <<pc, tagged, k, addrs, cap_count, stored>>

TagInit ==
    /\ pc = "read" /\ tagged \in SUBSET Granule
    /\ k = 0 /\ addrs = {} /\ cap_count = 0 /\ stored = {}

(* ptrace(PT_IO, PIOD_READ_CHERI_TAGS): on failure there is nothing to do. *)
ReadTags ==
    /\ pc = "read" /\ pc' \in {"chars", "done"}
    /\ UNCHANGED <<tagged, k, addrs, cap_count, stored>>

(* One turn of the loop over tagsbuf, with the loop over its bits. *)
ScanChar ==
    /\ pc = "chars" /\ k < TagChars
    /\ LET bits == IF Examined(tagged, k) THEN TagChar(tagged, k) ELSE {}
       IN  /\ addrs' = addrs \cup {TagAddress(Start, k, j) : j \in bits}
           /\ cap_count' = cap_count + Cardinality(bits)
    /\ k' = k + 1
    /\ UNCHANGED <<pc, tagged, stored>>

(* The INSERT, if there is anything to insert; its failure is ignored. *)
InsertCaps ==
    /\ pc = "chars" /\ k >= TagChars
    /\ stored' \in {{}, addrs}
    /\ pc' = "done"
    /\ UNCHANGED <<tagged, k, addrs, cap_count>>

TagNext == ReadTags \/ ScanChar \/ InsertCaps

TagSpec == TagInit /\ [][TagNext]_tagVars

-----------------------------------------------------------------------------
(* The address of a granule of the page. *)
GranuleAddress(g) == Start + g * GranuleSize

(* What has been collected after k chars is what FoundTags says of the     *)
(* first k chars, at the addresses of the granules: the step that ScanMem  *)
(* takes with FoundTags is the loop of the code.                           *)
CollectedIsFound ==
    addrs = {GranuleAddress(g) : g \in FoundTags(tagged, 0..k - 1)}

(* Every row is of a tagged granule of the page, none is of another page.  *)
RowsAreTagged ==
    \A a \in addrs \cup stored :
        \E g \in tagged : a = GranuleAddress(g) /\ a < Start + TagChars * CharSpan

(* What is missing after the loop are whole chars, equal to '0'. *)
MissingAreZeroChars ==
    k = TagChars =>
        \A g \in tagged : GranuleAddress(g) \notin addrs =>
            \E c \in 0..TagChars - 1 :
                TagChar(tagged, c) = CharZero /\ \E j \in CharZero : g = 8 * c + j

(* "... scans each provided capability - u_long start - and find all the   *)
(* marked tags" (cap_capture.c:104).                                       *)
AllTagsFound ==
    k = TagChars => \A g \in tagged : GranuleAddress(g) \in addrs
=============================================================================
