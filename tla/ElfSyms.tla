------------------------------ MODULE ElfSyms ------------------------------
(***************************************************************************)
(* get_elf_info (elf_utils.c) for one file: the walk over the sections, in *)
(* which the symbols of .dynsym and .symtab are collected and inserted     *)
(* into elf_sym batch by batch, the step that ScanMem takes as a whole.    *)
(* What has been collected is carried from one table to the next; the last *)
(* INSERT is made after the walk.                                          *)
(***************************************************************************)
EXTENDS Integers, Sequences, FiniteSets, Functions

CONSTANTS
    Files,     \* the files: sequences of [type, syms]; syms says of each
               \* symbol whether elf_strptr finds its name
    Batch,     \* 200 in the code
    DbMayFail  \* an INSERT may fail

SectionType == {"dynsym", "symtab", "other"}

ASSUME ElfSymsAssumption ==
    /\ Files \subseteq Seq([type : SectionType, syms : Seq(BOOLEAN)])
    /\ \A f \in Files : \A s, t \in 1..Len(f) :
          f[s].type = f[t].type /\ f[s].type # "other" => s = t
    /\ Batch \in Nat \ {0} /\ DbMayFail \in BOOLEAN

VARIABLES
    epc,         \* "sections", "symbols", "flush", "done", "crashed", "killed"
    file,        \* the sections of the file
    sec,         \* the section reached
    sym,         \* the symbol reached in it: i of the code
    dynsym,      \* seen_dynsym
    symtab,      \* seen_symtab
    initialized, \* insert_syms_query_values has been assigned
    pending,     \* the symbols in insert_syms_query_values
    stored,      \* the INSERTs made: a sequence of sets of symbols
    lost         \* the symbols of INSERTs that failed

symVars ==
    <<epc, file, sec, sym, dynsym, symtab, initialized, pending, stored, lost>>

Current == file[sec]

(* An INSERT of the symbols S: made, or failed and forgotten. *)
Insert(S) ==
    \/ stored' = Append(stored, S) /\ UNCHANGED lost
    \/ DbMayFail /\ lost' = lost \cup S /\ UNCHANGED stored

-----------------------------------------------------------------------------
SymInit ==
    /\ epc = "sections" /\ file \in Files /\ sec = 1 /\ sym = 0
    /\ dynsym = FALSE /\ symtab = FALSE
    /\ initialized = FALSE /\ pending = {} /\ stored = <<>> /\ lost = {}

StopsAtOneTable == dynsym' \/ symtab'
StopsAtBoth == dynsym' /\ symtab'

(* The end of one turn of the loop over the sections. *)
SectionDone == epc' = IF StopsAtBoth THEN "flush" ELSE "sections"

(* elf_nextscn: a section, or no more of them. *)
NextSection ==
    /\ epc = "sections"
    /\ IF sec > Len(file)
       THEN epc' = "flush" /\ UNCHANGED <<sec, sym, dynsym, symtab>>
       ELSE /\ dynsym' = (dynsym \/ Current.type = "dynsym")
            /\ symtab' = (symtab \/ Current.type = "symtab")
            /\ IF Current.type = "other"
               THEN SectionDone /\ sec' = sec + 1 /\ UNCHANGED sym
               ELSE epc' = "symbols" /\ sym' = 0 /\ UNCHANGED sec
    /\ UNCHANGED <<file, initialized, pending, stored, lost>>

InsertsAtEnd == sym % Batch = Batch - 1 /\ sym > 0
InsertsAt == sym % Batch = 0

(* One symbol: it goes to those collected; all of them are inserted when   *)
(* its index is a multiple of 200.                                         *)
NextSymbol ==
    /\ epc = "symbols" /\ sym < Len(Current.syms)
    /\ LET collected == pending \cup {<<sec, sym>>}
       IN  IF ~Current.syms[sym + 1]
           THEN UNCHANGED <<initialized, pending, stored, lost>>
           ELSE /\ initialized' = TRUE
                /\ IF InsertsAt
                   THEN Insert(collected) /\ pending' = {}
                   ELSE pending' = collected /\ UNCHANGED <<stored, lost>>
    /\ sym' = sym + 1
    /\ UNCHANGED <<epc, file, sec, dynsym, symtab>>

SymbolsEnd ==
    /\ epc = "symbols" /\ sym >= Len(Current.syms)
    /\ sec' = sec + 1 /\ sym' = 0
    /\ UNCHANGED <<file, dynsym, symtab, initialized, pending, stored, lost>>
    /\ SectionDone

(* The INSERT of what is left; NULL if the last symbol was inserted.  When *)
(* there was no symbol the pointer has never been set: it may be NULL, or  *)
(* what is inserted and freed is not a string.                             *)
InsertRest ==
    /\ epc = "flush"
    /\ IF ~initialized
       THEN epc' \in {"done", "crashed"} /\ UNCHANGED <<pending, stored, lost>>
       ELSE /\ epc' = "done" /\ pending' = {}
            /\ IF pending = {} THEN UNCHANGED <<stored, lost>> ELSE Insert(pending)
    /\ UNCHANGED <<file, sec, sym, dynsym, symtab, initialized>>

(* SIGTERM, SIGINT or SIGQUIT. *)
KilledInSymbols ==
    /\ epc \in {"sections", "symbols", "flush"} /\ epc' = "killed"
    /\ UNCHANGED <<file, sec, sym, dynsym, symtab, initialized, pending, stored,
                   lost>>

SymNext ==
    NextSection \/ NextSymbol \/ SymbolsEnd \/ InsertRest \/ KilledInSymbols

SymSpec == SymInit /\ [][SymNext]_symVars

-----------------------------------------------------------------------------
(* The symbols with a name, by section and index: of the file, and those   *)
(* of them the walk has passed.                                            *)
Symbols ==
    UNION {{<<s, k>> : k \in {n \in 0..Len(file[s].syms) - 1 : file[s].syms[n + 1]}} :
              s \in {t \in 1..Len(file) : file[t].type # "other"}}

Passed == {x \in Symbols : x[1] < sec \/ (x[1] = sec /\ x[2] < sym)}

(* What is in one INSERT or another, or was in one that failed. *)
Gone == (UNION Range(stored)) \cup lost

(* Every symbol the walk has passed is collected, or in one INSERT and no  *)
(* other, or was in an INSERT that failed; after the walk, which may stop  *)
(* in front of the last section, none of the file's symbols is missing and *)
(* nothing is left uninserted (elf_utils.c:224-294).                       *)
SymbolsStoredOnce ==
    /\ epc # "done" => Passed = pending \cup Gone
    /\ epc = "done" => Symbols = Gone
    /\ pending \cap Gone = {}
    /\ \A m, n \in 1..Len(stored) : m # n => stored[m] \cap stored[n] = {}

(* The pointer that was never set is used only for a file in which no      *)
(* symbol has a name (elf_utils.c:284).                                    *)
CrashOnlyWithoutSymbols == epc = "crashed" => Symbols = {}

(* An INSERT has at most 200 rows, although what is left of .dynsym goes   *)
(* into the first of .symtab, as long as the symbols at whose index it is  *)
(* made have a name (elf_utils.c:226, 261).                                *)
InsertIsBounded ==
    (\A s \in 1..Len(file) : \A k \in 0..Len(file[s].syms) - 1 :
        k % Batch = 0 => file[s].syms[k + 1])
    => \A n \in 1..Len(stored) : Cardinality(stored[n]) <= Batch
=============================================================================
