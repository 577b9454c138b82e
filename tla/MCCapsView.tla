----------------------------- MODULE MCCapsView -----------------------------
(***************************************************************************)
(* The readers of a finished database, each on its own: the summary views, *)
(* the symbol view and the full graph.                                     *)
(*                                                                         *)
(* Blocks: two that adjoin, the first with an end of more digits than its  *)
(* start, one behind a gap.  Symbols: of two files, one of them a function *)
(* with its lowest bit set.  Labels: a library, its .plt, one whose path   *)
(* contains the first one's, one that agrees with the first but for the    *)
(* last six characters, and "Stack".                                       *)
(***************************************************************************)
EXTENDS CapsSymsView, FullGraph

MCRanges == {[start |-> 1, end |-> 3], [start |-> 3, end |-> 4], [start |-> 6, end |-> 7]}
MCSymbol(base, value, func) == [base |-> base, value |-> value, func |-> func]
MCElfSymbols == {MCSymbol(0, 1, FALSE), MCSymbol(0, 4, FALSE), MCSymbol(2, 3, TRUE)}

MCLabel == {"libz.so.1", "libz.so.1(.plt)", "libz.so.10", "libm.so.5", "Stack"}
MCMatches == {<<l, l>> : l \in MCLabel}
             \cup {<<"libz.so.1(.plt)", "libz.so.1">>, <<"libz.so.10", "libz.so.1">>}
MCCut == [l \in MCLabel |-> CASE l = "libz.so.1(.plt)" -> "libz.so.1"
                               [] l = "libz.so.10" -> "libz"
                               [] l = "Stack" -> "" [] OTHER -> "lib"]

NoSyms == elf = <<>> /\ symCount = 0 /\ s = 0 /\ listed = <<>>
NoGraph ==
    /\ blocks = <<>> /\ pointers = <<>> /\ todo = {} /\ node = "none" /\ p = 1 /\ b = 1
    /\ penwidth = Thin /\ edges = <<>> /\ drawing = "drawn"
NoCounts == rows = <<>> /\ shown = <<>>

MCInit ==
    \/ ViewInit /\ NoSyms /\ NoGraph
    \/ /\ command = "syms" /\ NoCounts
       /\ caps \in SeqOf([loc : Address, addr : Address, perms : {{}}], NumCaps)
       /\ SymsInit /\ NoGraph
    \/ command = "graph" /\ NoCounts /\ caps = <<>> /\ NoSyms /\ GraphInit

MCNext ==
    \/ ShowRow /\ UNCHANGED <<symsVars, graphVars>>
    \/ command = "syms" /\ ListStep /\ UNCHANGED graphVars
    \/ command = "graph" /\ GraphStep /\ UNCHANGED symsVars

MCSpec == MCInit /\ [][MCNext]_<<viewVars, symsVars, graphVars>>
=============================================================================
