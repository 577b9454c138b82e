----------------------------- MODULE MCScanMem -----------------------------
(***************************************************************************)
(* Instances of ScanMem for TLC.  The target is the program `prog' with    *)
(* its anonymous data, a library `libz' that comes and goes, and a guard.  *)
(***************************************************************************)
EXTENDS ScanMem

MCBlock(path, pages, resv, hascap, kind) ==
    [path |-> path, pages |-> pages, resv |-> resv, hascap |-> hascap,
     kind |-> kind]

(* 1: text of prog, 2: its zero-filled data, without a path but in prog's  *)
(* reservation, 3: libz, 4: a guard.                                       *)
MCRegion == <<MCBlock("prog", 1, 1, FALSE, "Heap(others)"),
              MCBlock("none", 2, 1, TRUE, "Heap(others)"),
              MCBlock("libz", 1, 3, TRUE, "Heap(others)"),
              MCBlock("none", 1, 4, FALSE, "Guard")>>
MCMapped == {1, 2, 4}

(* prog and one page of data, and libz. *)
MCSmallRegion == <<MCBlock("prog", 1, 1, TRUE, "Heap(others)"),
                   MCBlock("libz", 1, 2, TRUE, "Heap(others)")>>
MCSmallMapped == {1}

MCFile == {"prog", "libz"}
MCLib == MCFile
MCElf == [f \in MCFile |-> IF f = "prog" THEN [elf |-> TRUE, plt |-> 1, got |-> 2]
                           ELSE [elf |-> TRUE, plt |-> 3, got |-> 0]]
MCSmallElf ==
    [f \in MCFile |-> IF f = "prog" THEN [elf |-> TRUE, plt |-> 0, got |-> 1]
                      ELSE [elf |-> FALSE, plt |-> 0, got |-> 0]]
MCSub == [l \in MCLib |-> <<>>]
MCDefault == [l \in MCLib |-> IF l = "prog" THEN 0 ELSE 1]
MCLinkmap == <<"prog">>
(* libz is a plugin beside the program: its path begins with the program's. *)
MCExtends == {<<"prog", "libz">>}

(* Granules 4 and 5 share a tag char; the initial memory holds the one     *)
(* tag 4, so that a store makes the char 4 and 5 or empties it.            *)
MCMem == [p \in Page |-> IF p[1] \in MCMapped \ {1} THEN {4} ELSE {}]
MCSmallMem == [p \in Page |-> IF p[1] = 1 THEN {4} ELSE {}]
=============================================================================
