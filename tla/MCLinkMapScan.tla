--------------------------- MODULE MCLinkMapScan ---------------------------
(***************************************************************************)
(* Instances of LinkMapScan: a program `prog' in compartment 1, a library  *)
(* `libc' in compartment 2 with a sub-compartment 3, and a library `libz'  *)
(* that the target may dlopen and that has a compartment of its own (4) or *)
(* shares libc's.                                                          *)
(***************************************************************************)
EXTENDS LinkMapScan

MCLib == {"prog", "libc", "libz"}
MCSubComparts == [l \in MCLib |-> IF l = "libc" THEN <<3>> ELSE <<>>]
MCOwnCompart ==
    [l \in MCLib |-> CASE l = "prog" -> 1 [] l = "libc" -> 2 [] l = "libz" -> 4]
MCSharedCompart ==
    [l \in MCLib |-> CASE l = "prog" -> 1 [] l = "libc" -> 2 [] l = "libz" -> 2]
MCInitLinkmap == <<"prog", "libc">>
=============================================================================
