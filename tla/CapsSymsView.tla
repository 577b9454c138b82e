---------------------------- MODULE CapsSymsView ----------------------------
(***************************************************************************)
(* caps_syms_view (chericat -i, show lib) lists the capabilities of one    *)
(* library and looks for the symbol at the address where each lies and for *)
(* the one at the address it holds, in the symbols that get_elf_info has   *)
(* stored.                                                                 *)
(***************************************************************************)
EXTENDS CapsView

CONSTANTS
    ElfSymbols,  \* symbols of ELF files: [base, value, func], base being the
                 \* first block of the file
    NumSyms      \* bound on the symbols

ASSUME CapsSymsViewAssumption ==
    /\ ElfSymbols \subseteq [base : Nat, value : Nat, func : BOOLEAN]
    /\ NumSyms \in Nat

VARIABLES
    elf,       \* the symbols as the files define them, in the order of elf_sym
    symCount,  \* sym_count: the length of sym_info_captured, or -1
    s,         \* the loop index, counted from 0
    listed     \* the names shown so far, two for a capability: the number of
               \* a symbol, or one of these
NoSymbol == 0  \* "- (-)"
Null == -1     \* the pointer that no branch has set

symsVars == <<elf, symCount, s, listed>>

(* The address that is stored for a symbol: the lowest bit of a function's *)
(* value says that it is run in capability mode and is cleared.            *)
ClearedForAll(e) == e.base + (e.value - (e.value % 2))
SymAddr(e) == e.base + (IF e.func THEN e.value - (e.value % 2) ELSE e.value)

(* The k-th address that is looked for: cap_loc_addr, then cap_addr. *)
Sought(k) ==
    LET c == caps[(k - 1) \div 2 + 1] IN IF k % 2 = 1 THEN c.loc ELSE c.addr

(* get_all_sym_info gives the symbols, or -1 when the SELECT has failed. *)
SymsInit ==
    /\ elf \in SeqOf(ElfSymbols, NumSyms)
    /\ symCount \in {Len(elf), -1}
    /\ s = 0 /\ listed = <<>>

Searching == Len(listed) < 2 * Len(caps)
AtSymbol == SymAddr(elf[s + 1]) = Sought(Len(listed) + 1)

(* One turn of an inner loop: strcmp with the next symbol, and break.      *)
NextSymbol ==
    /\ Searching /\ s < symCount /\ ~AtSymbol
    /\ s' = s + 1
    /\ UNCHANGED <<elf, symCount, listed>>

FoundAndGoesOn ==
    /\ Searching /\ s < symCount /\ AtSymbol
    /\ listed' = Append(listed, s + 1) /\ UNCHANGED s
    /\ UNCHANGED <<elf, symCount>>

SymbolFound ==
    /\ Searching /\ s < symCount /\ AtSymbol
    /\ listed' = Append(listed, s + 1) /\ s' = 0
    /\ UNCHANGED <<elf, symCount>>

(* The loop ended without a break: `if (s == sym_count)'. *)
LoopEnd ==
    /\ Searching /\ s >= symCount
    /\ listed' = Append(listed, IF s = symCount THEN NoSymbol ELSE Null) /\ s' = 0
    /\ UNCHANGED <<elf, symCount>>

ListStep == (NextSymbol \/ SymbolFound \/ LoopEnd) /\ UNCHANGED viewVars

SymsSpec ==
    /\ caps \in SeqOf(CapRow, NumCaps) /\ SymsInit
    /\ [][ListStep]_<<viewVars, symsVars>>

-----------------------------------------------------------------------------
(* Each address is given the name of the first symbol stored for it: of    *)
(* its base plus its value, or its value without the lowest bit if it is a *)
(* function; "-" only if there is none.  Nothing at all is printed only if *)
(* the symbols could not be read, and then for every address               *)
(* (caps_syms_view.c:88-126).                                              *)
NamesOfAddresses ==
    \A k \in 1..Len(listed) :
        LET At == {j \in 1..Len(elf) :
                      \/ elf[j].base + elf[j].value = Sought(k)
                            /\ (elf[j].func => elf[j].value % 2 = 0)
                      \/ elf[j].func /\ elf[j].value % 2 = 1
                            /\ elf[j].base + elf[j].value = Sought(k) + 1}
        IN  IF symCount = -1 THEN listed[k] = Null
            ELSE IF At = {} THEN listed[k] = NoSymbol
            ELSE listed[k] \in At /\ \A j \in At : listed[k] <= j
=============================================================================
