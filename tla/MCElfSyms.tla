----------------------------- MODULE MCElfSyms -----------------------------
(***************************************************************************)
(* Files with a .dynsym and a .symtab of up to four symbols, in either     *)
(* order, one of them or none, and another section in any place.           *)
(***************************************************************************)
EXTENDS ElfSyms, SequencesExt

MCTable(type) == {[type |-> type, syms |-> s] : s \in SeqOf(BOOLEAN, 4)}
MCOther == [type |-> "other", syms |-> <<>>]

MCFiles ==
    {<<>>, <<MCOther>>}
    \cup {<<t, MCOther>> : t \in MCTable("dynsym")}
    \cup {<<MCOther, t>> : t \in MCTable("symtab")}
    \cup {<<d, MCOther, t>> : d \in MCTable("dynsym"), t \in MCTable("symtab")}
    \cup {<<t, d, MCOther>> : d \in MCTable("dynsym"), t \in MCTable("symtab")}
=============================================================================
