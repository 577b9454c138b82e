--------------------------- MODULE ElfSyms_proofs ---------------------------
(***************************************************************************)
(* Proofs about ElfSyms: for files of any sections, tables of any length   *)
(* and batches of any size, whichever INSERTs fail and wherever a signal   *)
(* ends the walk.                                                          *)
(***************************************************************************)
EXTENDS ElfSyms, SequenceTheorems, FiniteSetTheorems, TLAPS

Place == Nat \X Nat

TypesOfWalk ==
    /\ epc \in {"sections", "symbols", "flush", "done", "crashed", "killed"}
    /\ file \in Files /\ sec \in 1..Len(file) + 1 /\ sym \in Nat
    /\ dynsym \in BOOLEAN /\ symtab \in BOOLEAN /\ initialized \in BOOLEAN
    /\ pending \in SUBSET Place /\ stored \in Seq(SUBSET Place) /\ lost \in SUBSET Place

(* A flag says that its table lies behind the walk, or under it; the walk  *)
(* ends behind the last section or when both tables have been seen.        *)
Seen(type) ==
    \E t \in 1..Len(file) :
        file[t].type = type /\ (t < sec \/ (epc = "symbols" /\ t = sec))

WalkInv ==
    /\ epc = "symbols" =>
          sec <= Len(file) /\ Current.type # "other" /\ sym <= Len(Current.syms)
    /\ epc \in {"sections", "flush"} => sym = 0
    /\ dynsym => epc \in {"done", "crashed", "killed"} \/ Seen("dynsym")
    /\ symtab => epc \in {"done", "crashed", "killed"} \/ Seen("symtab")
    /\ epc = "flush" => sec > Len(file) \/ (dynsym /\ symtab)

(* Nothing has been collected as long as the pointer has not been set. *)
UntouchedInv ==
    /\ ~initialized => pending = {} /\ stored = <<>> /\ lost = {}
    /\ epc = "crashed" => ~initialized

(* SymbolsStoredOnce in two parts. *)
OnceInv ==
    /\ epc # "done" => Passed = pending \cup Gone
    /\ epc = "done" => Symbols = Gone
    /\ pending \cap Gone = {}
Apart == \A m, n \in 1..Len(stored) : m # n => stored[m] \cap stored[n] = {}

(* The inductive invariant. *)
SymInv == TypesOfWalk /\ WalkInv /\ UntouchedInv
          /\ OnceInv /\ Apart /\ CrashOnlyWithoutSymbols

-----------------------------------------------------------------------------
(* Sections and the symbols in them. *)
LEMMA SectionOfFile ==
    ASSUME TypesOfWalk, NEW t \in 1..Len(file)
    PROVE  file[t] \in [type : SectionType, syms : Seq(BOOLEAN)]
  BY ElfSymsAssumption, ElementOfSeq DEF TypesOfWalk

LEMMA FileIsSeq ==
    ASSUME TypesOfWalk
    PROVE  file \in Seq([type : SectionType, syms : Seq(BOOLEAN)]) /\ Len(file) \in Nat
  BY ElfSymsAssumption, LenProperties DEF TypesOfWalk

LEMMA OneTableOfAType ==
    ASSUME TypesOfWalk, NEW t \in 1..Len(file), NEW u \in 1..Len(file),
           file[t].type = file[u].type, file[t].type # "other"
    PROVE  t = u
  BY ElfSymsAssumption DEF TypesOfWalk

(* A symbol is a place in a table of the file that has a name. *)
NamedAt(t, n) ==
    /\ t \in 1..Len(file) /\ file[t].type # "other"
    /\ n \in 0..Len(file[t].syms) - 1 /\ file[t].syms[n + 1]

LEMMA SymbolIsNamed ==
    /\ \A t, n : NamedAt(t, n) => <<t, n>> \in Symbols
    /\ \A x \in Symbols : x = <<x[1], x[2]>> /\ NamedAt(x[1], x[2])
<1>1. ASSUME NEW t, NEW n, NamedAt(t, n)
      PROVE  <<t, n>> \in Symbols
  <2>1. /\ t \in {u \in 1..Len(file) : file[u].type # "other"}
        /\ n \in {m \in 0..Len(file[t].syms) - 1 : file[t].syms[m + 1]}
    BY <1>1 DEF NamedAt
  <2> QED
    BY <2>1 DEF Symbols
<1>2. ASSUME NEW x \in Symbols
      PROVE  x = <<x[1], x[2]>> /\ NamedAt(x[1], x[2])
  <2>1. PICK t \in {u \in 1..Len(file) : file[u].type # "other"} :
            \E n \in {m \in 0..Len(file[t].syms) - 1 : file[t].syms[m + 1]} : x = <<t, n>>
    BY <1>2 DEF Symbols
  <2>2. PICK n \in {m \in 0..Len(file[t].syms) - 1 : file[t].syms[m + 1]} : x = <<t, n>>
    BY <2>1
  <2> QED
    BY <2>2 DEF NamedAt
<1> QED
  BY <1>1, <1>2

LEMMA SymbolsArePlaces ==
    ASSUME TypesOfWalk
    PROVE  Symbols \subseteq Place
<1> SUFFICES ASSUME NEW x \in Symbols PROVE x \in Place
  OBVIOUS
<1>1. x = <<x[1], x[2]>> /\ x[1] \in 1..Len(file) /\ x[2] \in 0..Len(file[x[1]].syms) - 1
  BY SymbolIsNamed DEF NamedAt
<1>2. x[1] \in Nat /\ x[2] \in Nat
  BY <1>1, FileIsSeq, SectionOfFile
<1> QED
  BY <1>1, <1>2 DEF Place

(* One more INSERT. *)
LEMMA RangeOfAppend ==
    ASSUME NEW S, NEW q \in Seq(S), NEW e \in S
    PROVE  Range(Append(q, e)) = Range(q) \cup {e}
<1>1. /\ Append(q, e) \in Seq(S) /\ Len(Append(q, e)) = Len(q) + 1
      /\ \A i \in 1..Len(q) : Append(q, e)[i] = q[i]
      /\ Append(q, e)[Len(q) + 1] = e
  BY AppendProperties
<1>2. DOMAIN q = 1..Len(q) /\ DOMAIN Append(q, e) = 1..Len(q) + 1 /\ Len(q) \in Nat
  BY <1>1, LenProperties
<1> QED
  BY <1>1, <1>2 DEF Range

LEMMA GoneAfterInsert ==
    ASSUME TypesOfWalk, NEW S \in SUBSET Place, Insert(S)
    PROVE  Gone' = Gone \cup S
<1>1. CASE stored' = Append(stored, S) /\ UNCHANGED lost
  <2>1. Range(stored') = Range(stored) \cup {S}
    BY <1>1, RangeOfAppend DEF TypesOfWalk
  <2> QED
    BY <1>1, <2>1 DEF Gone
<1>2. CASE DbMayFail /\ lost' = lost \cup S /\ UNCHANGED stored
  BY <1>2 DEF Gone
<1> QED
  BY <1>1, <1>2 DEF Insert

LEMMA ApartAfterInsert ==
    ASSUME TypesOfWalk, NEW S \in SUBSET Place, Insert(S), Apart, S \cap Gone = {}
    PROVE  Apart'
<1>1. CASE stored' = Append(stored, S) /\ UNCHANGED lost
  <2>1. /\ stored \in Seq(SUBSET Place) /\ Len(stored) \in Nat
        /\ Len(stored') = Len(stored) + 1
        /\ \A i \in 1..Len(stored) : stored'[i] = stored[i]
        /\ stored'[Len(stored) + 1] = S
    BY <1>1, AppendProperties, LenProperties DEF TypesOfWalk
  <2>2. \A i \in 1..Len(stored) : stored[i] \subseteq Gone
    <3>1. DOMAIN stored = 1..Len(stored)
      BY <2>1, LenProperties
    <3> QED
      BY <3>1 DEF Gone, Range
  <2>3. ASSUME NEW m \in 1..Len(stored'), NEW n \in 1..Len(stored'), m # n
        PROVE  stored'[m] \cap stored'[n] = {}
    <3>1. CASE m \in 1..Len(stored) /\ n \in 1..Len(stored)
      BY <2>1, <2>3, <3>1 DEF Apart
    <3>2. CASE m = Len(stored) + 1 /\ n \in 1..Len(stored)
      BY <2>1, <2>2, <3>2
    <3>3. CASE n = Len(stored) + 1 /\ m \in 1..Len(stored)
      BY <2>1, <2>2, <3>3
    <3> QED
      BY <2>1, <2>3, <3>1, <3>2, <3>3
  <2> QED
    BY <2>3 DEF Apart
<1>2. CASE DbMayFail /\ lost' = lost \cup S /\ UNCHANGED stored
  BY <1>2 DEF Apart
<1> QED
  BY <1>1, <1>2 DEF Insert

LEMMA InsertTypes ==
    ASSUME TypesOfWalk, NEW S \in SUBSET Place, Insert(S)
    PROVE  stored' \in Seq(SUBSET Place) /\ lost' \in SUBSET Place
  BY AppendProperties DEF Insert, TypesOfWalk

-----------------------------------------------------------------------------
(* The symbols the walk passes. *)
LEMMA SameFileSameSymbols ==
    ASSUME UNCHANGED file
    PROVE  Symbols' = Symbols
  BY DEF Symbols

LEMMA PassesSymbol ==
    ASSUME TypesOfWalk, WalkInv, epc = "symbols", sym < Len(Current.syms),
           UNCHANGED <<file, sec>>, sym' = sym + 1
    PROVE  /\ Current.syms[sym + 1] => Passed' = Passed \cup {<<sec, sym>>}
           /\ ~Current.syms[sym + 1] => Passed' = Passed
           /\ <<sec, sym>> \notin Passed /\ <<sec, sym>> \in Place
<1>1. sec \in 1..Len(file) /\ sec \in Nat /\ sym \in Nat /\ Len(Current.syms) \in Nat
  <2>1. sec \in 1..Len(file)
    BY FileIsSeq DEF TypesOfWalk, WalkInv
  <2> QED
    BY <2>1, SectionOfFile, LenProperties DEF TypesOfWalk, Current
<1>2. Symbols' = Symbols
  BY SameFileSameSymbols
<1>3. \A x \in Symbols : /\ x = <<x[1], x[2]>> /\ x[1] \in Nat /\ x[2] \in Nat
  BY SymbolsArePlaces DEF Place
<1>4. <<sec, sym>> \notin Passed
  <2>1. ~(<<sec, sym>>[1] < sec \/ (<<sec, sym>>[1] = sec /\ <<sec, sym>>[2] < sym))
    BY <1>1
  <2> QED
    BY <2>1 DEF Passed
<1>5. Passed' = {x \in Symbols : x[1] < sec \/ (x[1] = sec /\ x[2] < sym + 1)}
  BY <1>2 DEF Passed
<1>6. ASSUME Current.syms[sym + 1]
      PROVE  Passed' = Passed \cup {<<sec, sym>>}
  <2>1. NamedAt(sec, sym)
    BY <1>1, <1>6 DEF NamedAt, Current, WalkInv
  <2>2. <<sec, sym>> \in Symbols
    BY <2>1, SymbolIsNamed
  <2>3. \A x \in Symbols : x[1] = sec /\ x[2] < sym + 1 => x[2] < sym \/ x = <<sec, sym>>
    BY <1>1, <1>3
  <2>4. <<sec, sym>> \in Passed'
    BY <1>1, <1>5, <2>2
  <2>5. \A x \in Symbols : x[1] = sec /\ x[2] < sym => x[1] = sec /\ x[2] < sym + 1
    BY <1>1, <1>3
  <2> QED
    BY <1>5, <2>3, <2>4, <2>5 DEF Passed
<1>7. ASSUME ~Current.syms[sym + 1]
      PROVE  Passed' = Passed
  <2>1. \A x \in Symbols : x[1] = sec /\ x[2] < sym + 1 => x[2] < sym
    <3> SUFFICES ASSUME NEW x \in Symbols, x[1] = sec, x[2] < sym + 1, ~(x[2] < sym)
                 PROVE  FALSE
      OBVIOUS
    <3>1. x[2] = sym /\ NamedAt(sec, x[2])
      BY <1>1, <1>3, SymbolIsNamed
    <3> QED
      BY <3>1, <1>7 DEF NamedAt, Current
  <2>2. \A x \in Symbols : x[2] < sym => x[2] < sym + 1
    BY <1>1, <1>3
  <2> QED
    BY <1>5, <2>1, <2>2 DEF Passed
<1> QED
  BY <1>1, <1>4, <1>6, <1>7 DEF Place

LEMMA PassesSection ==
    ASSUME TypesOfWalk, UNCHANGED file, sec \in 1..Len(file), sec' = sec + 1, sym' = 0,
           \A n : NamedAt(sec, n) => n < sym
    PROVE  Passed' = Passed
<1>1. Symbols' = Symbols
  BY SameFileSameSymbols
<1>2. \A x \in Symbols : x[1] \in Nat /\ x[2] \in Nat /\ NamedAt(x[1], x[2])
  BY SymbolsArePlaces, SymbolIsNamed DEF Place
<1>3. sec \in Nat /\ sym \in Nat
  BY FileIsSeq DEF TypesOfWalk
<1>4. \A x \in Symbols : (x[1] < sec + 1 \/ (x[1] = sec + 1 /\ x[2] < 0))
                         <=> (x[1] < sec \/ (x[1] = sec /\ x[2] < sym))
  BY <1>2, <1>3
<1>5. Passed' = {x \in Symbols : x[1] < sec + 1 \/ (x[1] = sec + 1 /\ x[2] < 0)}
  BY <1>1 DEF Passed
<1> QED
  BY <1>4, <1>5 DEF Passed

(* At the end of the walk no symbol is left: behind the last section, or   *)
(* when both tables have been seen, for there is no third.                 *)
LEMMA NothingAhead ==
    ASSUME TypesOfWalk, WalkInv, epc = "flush"
    PROVE  Symbols = Passed
<1>1. sec \in Nat /\ sym \in Nat /\ Len(file) \in Nat
  BY FileIsSeq DEF TypesOfWalk
<1> SUFFICES ASSUME NEW x \in Symbols PROVE x[1] < sec
  BY DEF Passed
<1>2. x[1] \in 1..Len(file) /\ file[x[1]].type # "other"
  BY SymbolIsNamed DEF NamedAt
<1>3. CASE sec > Len(file)
  BY <1>1, <1>2, <1>3
<1>4. CASE dynsym /\ symtab
  <2>1. /\ \E t \in 1..Len(file) : file[t].type = "dynsym" /\ t < sec
        /\ \E t \in 1..Len(file) : file[t].type = "symtab" /\ t < sec
    BY <1>4 DEF WalkInv, Seen
  <2>2. file[x[1]].type \in {"dynsym", "symtab"}
    BY <1>2, SectionOfFile DEF SectionType
  <2> QED
    BY <1>2, <2>1, <2>2, OneTableOfAType
<1> QED
  BY <1>3, <1>4 DEF WalkInv

(* As long as no symbol was collected, none was passed. *)
LEMMA NothingCollected ==
    ASSUME UntouchedInv, ~initialized
    PROVE  pending = {} /\ Gone = {}
  BY DEF UntouchedInv, Gone, Range

-----------------------------------------------------------------------------
LEMMA SymInvInit == SymInit => SymInv
<1> SUFFICES ASSUME SymInit PROVE SymInv
  OBVIOUS
<1>1. TypesOfWalk
  <2>1. file \in Seq([type : SectionType, syms : Seq(BOOLEAN)]) /\ Len(file) \in Nat
    BY ElfSymsAssumption, LenProperties DEF SymInit
  <2>2. <<>> \in Seq(SUBSET Place)
    BY EmptySeq
  <2>3. stored \in Seq(SUBSET Place)
    BY <2>2, Zenon DEF SymInit
  <2>4. sec \in 1..Len(file) + 1 /\ sym \in Nat
    BY <2>1 DEF SymInit
  <2> QED
    BY <2>3, <2>4, Zenon DEF SymInit, TypesOfWalk
<1>2. WalkInv /\ UntouchedInv /\ CrashOnlyWithoutSymbols
  BY DEF SymInit, WalkInv, UntouchedInv, CrashOnlyWithoutSymbols
<1>3. Gone = {} /\ Apart
  BY DEF SymInit, Gone, Range, Apart
<1>4. Passed = {}
  <2>1. \A x \in Symbols : x[1] \in Nat /\ x[1] # 0 /\ x[2] \in Nat
    BY <1>1, SymbolsArePlaces, SymbolIsNamed, FileIsSeq DEF Place, NamedAt
  <2> QED
    BY <2>1 DEF SymInit, Passed
<1>5. OnceInv
  BY <1>3, <1>4 DEF SymInit, OnceInv
<1> QED
  BY <1>1, <1>2, <1>3, <1>5 DEF SymInv

LEMMA NextSectionKeeps ==
    ASSUME SymInv, NextSection
    PROVE  SymInv'
<1>0. /\ TypesOfWalk /\ WalkInv /\ UntouchedInv /\ OnceInv /\ Apart
      /\ epc = "sections" /\ sym = 0
      /\ UNCHANGED <<file, initialized, pending, stored, lost>>
  BY DEF SymInv, NextSection, WalkInv
<1>1. sec \in 1..Len(file) + 1 /\ sec \in Nat /\ Len(file) \in Nat
  BY <1>0, FileIsSeq DEF TypesOfWalk
<1>2. Gone' = Gone /\ Apart'
  BY <1>0 DEF Gone, Apart
<1>3. UntouchedInv' /\ CrashOnlyWithoutSymbols'
  <2>1. epc' # "crashed"
    BY DEF NextSection, SectionDone
  <2> QED
    BY <1>0, <2>1 DEF UntouchedInv, CrashOnlyWithoutSymbols
<1>4. CASE sec > Len(file)
  <2>1. epc' = "flush" /\ UNCHANGED <<sec, sym, dynsym, symtab>>
    BY <1>4 DEF NextSection
  <2>2. TypesOfWalk'
    BY <1>0, <2>1 DEF TypesOfWalk
  <2>3. WalkInv'
    BY <1>0, <2>1, <1>4 DEF WalkInv, Seen
  <2>4. Passed' = Passed
    BY <1>0, <2>1, SameFileSameSymbols DEF Passed
  <2>5. OnceInv'
    BY <1>0, <1>2, <2>1, <2>4 DEF OnceInv
  <2> QED
    BY <1>2, <1>3, <2>2, <2>3, <2>5 DEF SymInv
<1>5. CASE sec <= Len(file)
  <2>0. /\ dynsym' = (dynsym \/ Current.type = "dynsym")
        /\ symtab' = (symtab \/ Current.type = "symtab")
        /\ sec \in 1..Len(file)
        /\ Current \in [type : SectionType, syms : Seq(BOOLEAN)]
    BY <1>0, <1>1, <1>5, SectionOfFile DEF NextSection, Current
  <2>1. CASE Current.type = "other"
    <3>1. SectionDone /\ sec' = sec + 1 /\ sym' = 0
      BY <1>0, <1>1, <1>5, <2>1 DEF NextSection
    <3>2. dynsym' = dynsym /\ symtab' = symtab
      BY <1>0, <2>0, <2>1 DEF TypesOfWalk
    <3>3. epc' \in {"sections", "flush"} /\ (epc' = "flush" => dynsym /\ symtab)
      BY <3>1, <3>2 DEF SectionDone, StopsAtBoth
    <3>4. TypesOfWalk'
      BY <1>0, <1>1, <2>0, <3>1, <3>2, <3>3 DEF TypesOfWalk
    <3>5. WalkInv'
      <4>1. \A ty \in {"dynsym", "symtab"} : Seen(ty) => Seen(ty)'
        BY <1>0, <1>1, <3>1 DEF Seen
      <4> QED
        BY <1>0, <3>1, <3>2, <3>3, <4>1 DEF WalkInv
    <3>6. Passed' = Passed
      BY <1>0, <2>0, <2>1, <3>1, PassesSection DEF NamedAt, Current
    <3>7. OnceInv'
      BY <1>0, <1>2, <3>3, <3>6 DEF OnceInv
    <3> QED
      BY <1>2, <1>3, <3>4, <3>5, <3>7 DEF SymInv
  <2>2. CASE Current.type # "other"
    <3>1. epc' = "symbols" /\ sym' = 0 /\ sec' = sec
      BY <1>1, <1>5, <2>2 DEF NextSection
    <3>2. dynsym' \in BOOLEAN /\ symtab' \in BOOLEAN
      BY <2>0
    <3>3. TypesOfWalk'
      BY <1>0, <3>1, <3>2 DEF TypesOfWalk
    <3>4. WalkInv'
      <4>1. Current' = Current
        BY <1>0, <3>1 DEF Current
      <4>2. sec' <= Len(file') /\ Current'.type # "other" /\ sym' <= Len(Current'.syms)
        BY <1>0, <1>5, <2>0, <2>2, <3>1, <4>1, LenProperties
      <4>3. dynsym' => Seen("dynsym")'
        <5>1. CASE dynsym
          BY <1>0, <3>1, <5>1 DEF WalkInv, Seen
        <5>2. CASE Current.type = "dynsym"
          BY <1>0, <2>0, <3>1, <5>2 DEF Seen, Current
        <5> QED
          BY <2>0, <5>1, <5>2
      <4>4. symtab' => Seen("symtab")'
        <5>1. CASE symtab
          BY <1>0, <3>1, <5>1 DEF WalkInv, Seen
        <5>2. CASE Current.type = "symtab"
          BY <1>0, <2>0, <3>1, <5>2 DEF Seen, Current
        <5> QED
          BY <2>0, <5>1, <5>2
      <4> QED
        BY <3>1, <4>2, <4>3, <4>4 DEF WalkInv
    <3>5. Passed' = Passed
      BY <1>0, <3>1, SameFileSameSymbols DEF Passed
    <3>6. OnceInv'
      BY <1>0, <1>2, <3>1, <3>5 DEF OnceInv
    <3> QED
      BY <1>2, <1>3, <3>3, <3>4, <3>6 DEF SymInv
  <2> QED
    BY <2>1, <2>2
<1> QED
  BY <1>1, <1>4, <1>5

LEMMA NextSymbolKeeps ==
    ASSUME SymInv, NextSymbol
    PROVE  SymInv'
<1>0. /\ TypesOfWalk /\ WalkInv /\ UntouchedInv /\ OnceInv /\ Apart
      /\ epc = "symbols" /\ sym < Len(Current.syms) /\ sym' = sym + 1
      /\ UNCHANGED <<epc, file, sec, dynsym, symtab>>
  BY DEF SymInv, NextSymbol
<1>1. sec \in 1..Len(file) /\ sym \in Nat /\ Len(Current.syms) \in Nat
  <2>1. sec \in 1..Len(file)
    BY <1>0, FileIsSeq DEF TypesOfWalk, WalkInv
  <2> QED
    BY <1>0, <2>1, SectionOfFile, LenProperties DEF TypesOfWalk, Current
<1>2. /\ Current.syms[sym + 1] => Passed' = Passed \cup {<<sec, sym>>}
      /\ ~Current.syms[sym + 1] => Passed' = Passed
      /\ <<sec, sym>> \notin Passed /\ <<sec, sym>> \in Place
  BY <1>0, PassesSymbol
<1>3. WalkInv'
  BY <1>0, <1>1 DEF WalkInv, Seen, Current
<1>4. Passed = pending \cup Gone /\ pending \cap Gone = {}
  BY <1>0 DEF OnceInv
<1>5. CrashOnlyWithoutSymbols'
  BY <1>0 DEF CrashOnlyWithoutSymbols
<1>6. CASE ~Current.syms[sym + 1]
  <2>1. UNCHANGED <<initialized, pending, stored, lost>>
    BY <1>6 DEF NextSymbol
  <2>2. Gone' = Gone /\ Apart'
    BY <1>0, <2>1 DEF Gone, Apart
  <2>3. TypesOfWalk' /\ UntouchedInv'
    BY <1>0, <1>1, <2>1 DEF TypesOfWalk, UntouchedInv
  <2>4. OnceInv'
    BY <1>0, <1>2, <1>4, <1>6, <2>1, <2>2 DEF OnceInv
  <2> QED
    BY <1>3, <1>5, <2>2, <2>3, <2>4 DEF SymInv
<1>7. CASE Current.syms[sym + 1]
  <2> DEFINE collected == pending \cup {<<sec, sym>>}
  <2>0. collected \in SUBSET Place
    BY <1>0, <1>2 DEF TypesOfWalk
  <2>1. UntouchedInv' /\ initialized' = TRUE
    BY <1>0, <1>7 DEF NextSymbol, UntouchedInv
  <2>2. Passed' = collected \cup Gone /\ collected \cap Gone = {}
    BY <1>2, <1>4, <1>7
  <2>3. CASE InsertsAt
    <3>1. Insert(collected) /\ pending' = {}
      BY <1>7, <2>3 DEF NextSymbol
    <3> HIDE DEF collected
    <3>2. Gone' = Gone \cup collected /\ Apart'
      BY <1>0, <2>0, <2>2, <3>1, GoneAfterInsert, ApartAfterInsert
    <3>3. stored' \in Seq(SUBSET Place) /\ lost' \in SUBSET Place
      BY <1>0, <2>0, <3>1, InsertTypes
    <3>4. TypesOfWalk'
      BY <1>0, <1>1, <2>1, <3>1, <3>3 DEF TypesOfWalk
    <3>5. OnceInv'
      BY <1>0, <2>2, <3>1, <3>2 DEF OnceInv
    <3> QED
      BY <1>3, <1>5, <2>1, <3>2, <3>4, <3>5 DEF SymInv
  <2>4. CASE ~InsertsAt
    <3>1. pending' = collected /\ UNCHANGED <<stored, lost>>
      BY <1>7, <2>4 DEF NextSymbol
    <3> HIDE DEF collected
    <3>2. Gone' = Gone /\ Apart'
      BY <1>0, <3>1 DEF Gone, Apart
    <3>3. TypesOfWalk'
      BY <1>0, <1>1, <2>0, <2>1, <3>1 DEF TypesOfWalk
    <3>4. OnceInv'
      BY <1>0, <2>2, <3>1, <3>2 DEF OnceInv
    <3> QED
      BY <1>3, <1>5, <2>1, <3>2, <3>3, <3>4 DEF SymInv
  <2> QED
    BY <2>3, <2>4
<1> QED
  BY <1>6, <1>7

LEMMA SymbolsEndKeeps ==
    ASSUME SymInv, SymbolsEnd
    PROVE  SymInv'
<1>0. /\ TypesOfWalk /\ WalkInv /\ UntouchedInv /\ OnceInv /\ Apart
      /\ epc = "symbols" /\ sym >= Len(Current.syms)
      /\ sec' = sec + 1 /\ sym' = 0 /\ SectionDone
      /\ UNCHANGED <<file, dynsym, symtab, initialized, pending, stored, lost>>
  BY DEF SymInv, SymbolsEnd
<1>1. /\ sec \in 1..Len(file) /\ sec \in Nat /\ sym \in Nat
      /\ Current \in [type : SectionType, syms : Seq(BOOLEAN)] /\ Len(Current.syms) \in Nat
  <2>1. sec \in 1..Len(file)
    BY <1>0, FileIsSeq DEF TypesOfWalk, WalkInv
  <2> QED
    BY <1>0, <2>1, SectionOfFile, LenProperties DEF TypesOfWalk, Current
<1>2. epc' \in {"sections", "flush"} /\ (epc' = "flush" => dynsym /\ symtab)
  BY <1>0 DEF SectionDone, StopsAtBoth
<1>3. TypesOfWalk'
  BY <1>0, <1>1, <1>2 DEF TypesOfWalk
<1>4. WalkInv'
  <2>1. \A ty \in {"dynsym", "symtab"} : Seen(ty) => Seen(ty)'
    BY <1>0, <1>1 DEF Seen
  <2> QED
    BY <1>0, <1>2, <2>1 DEF WalkInv
<1>5. UntouchedInv' /\ CrashOnlyWithoutSymbols' /\ Apart' /\ Gone' = Gone
  BY <1>0, <1>2 DEF UntouchedInv, CrashOnlyWithoutSymbols, Apart, Gone
<1>6. Passed' = Passed
  <2>1. \A n : NamedAt(sec, n) => n < sym
    BY <1>0, <1>1 DEF NamedAt, Current
  <2> QED
    BY <1>0, <1>1, <2>1, PassesSection
<1>7. OnceInv'
  BY <1>0, <1>2, <1>5, <1>6 DEF OnceInv
<1> QED
  BY <1>3, <1>4, <1>5, <1>7 DEF SymInv

LEMMA InsertRestKeeps ==
    ASSUME SymInv, InsertRest
    PROVE  SymInv'
<1>0. /\ TypesOfWalk /\ WalkInv /\ UntouchedInv /\ OnceInv /\ Apart
      /\ epc = "flush" /\ epc' \in {"done", "crashed"}
      /\ UNCHANGED <<file, sec, sym, dynsym, symtab, initialized>>
  BY DEF SymInv, InsertRest
<1>1. Passed' = Passed /\ Symbols' = Symbols /\ Symbols = pending \cup Gone
  BY <1>0, SameFileSameSymbols, NothingAhead DEF Passed, OnceInv
<1>2. WalkInv'
  BY <1>0 DEF WalkInv
<1>3. CASE ~initialized
  <2>1. UNCHANGED <<pending, stored, lost>>
    BY <1>3 DEF InsertRest
  <2>2. pending = {} /\ Gone = {} /\ Symbols = {}
    BY <1>0, <1>1, <1>3, NothingCollected
  <2>3. Gone' = Gone /\ Apart' /\ TypesOfWalk' /\ UntouchedInv'
    BY <1>0, <1>3, <2>1 DEF Gone, Apart, TypesOfWalk, UntouchedInv
  <2>4. OnceInv' /\ CrashOnlyWithoutSymbols'
    BY <1>0, <1>1, <2>1, <2>2, <2>3 DEF OnceInv, CrashOnlyWithoutSymbols
  <2> QED
    BY <1>2, <2>3, <2>4 DEF SymInv
<1>4. CASE initialized
  <2>1. epc' = "done" /\ pending' = {}
    BY <1>4 DEF InsertRest
  <2>2. UntouchedInv' /\ CrashOnlyWithoutSymbols'
    BY <1>0, <1>4, <2>1 DEF UntouchedInv, CrashOnlyWithoutSymbols
  <2>3. Gone' = Gone \cup pending /\ Apart'
        /\ stored' \in Seq(SUBSET Place) /\ lost' \in SUBSET Place
    <3>1. CASE pending = {}
      <4>1. UNCHANGED <<stored, lost>>
        BY <1>4, <3>1 DEF InsertRest
      <4> QED
        BY <1>0, <3>1, <4>1 DEF Gone, Apart, TypesOfWalk
    <3>2. CASE pending # {}
      <4>1. Insert(pending) /\ pending \in SUBSET Place /\ pending \cap Gone = {}
        BY <1>0, <1>4, <3>2 DEF InsertRest, TypesOfWalk, OnceInv
      <4> QED
        BY <1>0, <4>1, GoneAfterInsert, ApartAfterInsert, InsertTypes
    <3> QED
      BY <3>1, <3>2
  <2>4. TypesOfWalk'
    BY <1>0, <2>1, <2>3 DEF TypesOfWalk
  <2>5. OnceInv'
    BY <1>1, <2>1, <2>3 DEF OnceInv
  <2> QED
    BY <1>2, <2>2, <2>3, <2>4, <2>5 DEF SymInv
<1> QED
  BY <1>3, <1>4

LEMMA KilledKeeps ==
    ASSUME SymInv, KilledInSymbols \/ UNCHANGED symVars
    PROVE  SymInv'
<1>0. /\ TypesOfWalk /\ WalkInv /\ UntouchedInv /\ OnceInv /\ Apart /\ CrashOnlyWithoutSymbols
      /\ UNCHANGED <<file, sec, sym, dynsym, symtab, initialized, pending, stored, lost>>
  BY DEF SymInv, KilledInSymbols, symVars
<1>1. Passed' = Passed /\ Symbols' = Symbols /\ Gone' = Gone /\ Apart'
  BY <1>0, SameFileSameSymbols DEF Passed, Gone, Apart
<1>2. CASE KilledInSymbols
  <2>1. epc' = "killed" /\ epc # "done"
    BY <1>2 DEF KilledInSymbols
  <2> QED
    BY <1>0, <1>1, <2>1
       DEF SymInv, TypesOfWalk, WalkInv, UntouchedInv, OnceInv, CrashOnlyWithoutSymbols
<1>3. CASE UNCHANGED symVars
  <2>1. epc' = epc
    BY <1>3 DEF symVars
  <2>2. WalkInv'
    BY <1>0, <2>1 DEF WalkInv, Seen, Current
  <2> QED
    BY <1>0, <1>1, <2>1, <2>2
       DEF SymInv, TypesOfWalk, UntouchedInv, OnceInv, CrashOnlyWithoutSymbols
<1> QED
  BY <1>2, <1>3

LEMMA SymInvNext == SymInv /\ [SymNext]_symVars => SymInv'
  BY NextSectionKeeps, NextSymbolKeeps, SymbolsEndKeeps, InsertRestKeeps, KilledKeeps
     DEF SymNext

LEMMA SymInvHolds == SymSpec => []SymInv
  BY SymInvInit, SymInvNext, PTL DEF SymSpec

(* Every named symbol the walk has passed is collected or in exactly one   *)
(* INSERT, and after the walk none is missing (elf_utils.c:224-294): for   *)
(* any file with at most one table of each type.                           *)
THEOREM StoredOnce == SymSpec => []SymbolsStoredOnce
<1>1. SymInv => SymbolsStoredOnce
  BY DEF SymInv, OnceInv, Apart, SymbolsStoredOnce
<1> QED
  BY <1>1, SymInvHolds, PTL

(* The pointer that was never set is used only for a file without a named  *)
(* symbol (elf_utils.c:284).                                               *)
THEOREM CrashNeedsNoSymbols == SymSpec => []CrashOnlyWithoutSymbols
<1>1. SymInv => CrashOnlyWithoutSymbols
  BY DEF SymInv
<1> QED
  BY <1>1, SymInvHolds, PTL

-----------------------------------------------------------------------------
(* The remainder of the next number is one more, or it is 0.               *)
LEMMA NextRemainder ==
    ASSUME NEW B \in Nat \ {0}, NEW n \in Nat
    PROVE  /\ n % B \in 0..B - 1 /\ 0 % B = 0
           /\ n > 0 /\ n % B # 0 => n % B = ((n - 1) % B) + 1
<1>1. n % B \in 0..B - 1 /\ 0 % B = 0
  OBVIOUS
<1>2. ASSUME n > 0, n % B # 0
      PROVE  n % B = ((n - 1) % B) + 1
  <2> DEFINE q == n \div B
             r == n % B
  <2>1. n = B * q + r /\ r \in 1..B - 1 /\ q \in Int
    BY <1>1, <1>2
  <2>2. n - 1 = B * q + (r - 1) /\ r - 1 \in 0..B - 1
    BY <2>1
  <2> HIDE DEF q, r
  <2>3. (B * q + (r - 1)) % B = r - 1
    BY <2>1, <2>2
  <2> QED
    BY <2>1, <2>2, <2>3 DEF r
<1> QED
  BY <1>1, <1>2

(* The symbols at whose index an INSERT is made have names. *)
Marked ==
    \A t \in 1..Len(file) : \A n \in 0..Len(file[t].syms) - 1 :
        n % Batch = 0 => file[t].syms[n + 1]

(* Within a table at most as many symbols are collected as its index is    *)
(* ahead of the last INSERT; what is left of a table is less than a batch. *)
BoundInv ==
    /\ IsFiniteSet(pending)
    /\ Marked =>
         /\ Cardinality(pending) <= Batch - 1
         /\ epc = "symbols" /\ sym > 0 => Cardinality(pending) <= (sym - 1) % Batch
         /\ \A n \in 1..Len(stored) : Cardinality(stored[n]) <= Batch

LEMMA EmptyIsBounded == IsFiniteSet({}) /\ Cardinality({}) = 0
  BY FS_EmptySet

LEMMA BoundOfStored ==
    ASSUME TypesOfWalk, NEW S \in SUBSET Place, Insert(S), Cardinality(S) <= Batch,
           \A n \in 1..Len(stored) : Cardinality(stored[n]) <= Batch
    PROVE  \A n \in 1..Len(stored') : Cardinality(stored'[n]) <= Batch
<1>1. CASE stored' = Append(stored, S) /\ UNCHANGED lost
  <2>1. /\ Len(stored) \in Nat /\ Len(stored') = Len(stored) + 1
        /\ \A i \in 1..Len(stored) : stored'[i] = stored[i]
        /\ stored'[Len(stored) + 1] = S
    BY <1>1, AppendProperties, LenProperties DEF TypesOfWalk
  <2> SUFFICES ASSUME NEW n \in 1..Len(stored') PROVE Cardinality(stored'[n]) <= Batch
    OBVIOUS
  <2>2. CASE n \in 1..Len(stored)
    BY <2>1, <2>2
  <2>3. CASE n = Len(stored) + 1
    BY <2>1, <2>3
  <2> QED
    BY <2>1, <2>2, <2>3
<1>2. CASE DbMayFail /\ lost' = lost \cup S /\ UNCHANGED stored
  BY <1>2
<1> QED
  BY <1>1, <1>2 DEF Insert

LEMMA BoundInit == SymInit => BoundInv
<1> SUFFICES ASSUME SymInit PROVE BoundInv
  OBVIOUS
<1>1. pending = {} /\ Len(stored) = 0 /\ epc = "sections"
  BY EmptySeq DEF SymInit
<1> QED
  BY <1>1, EmptyIsBounded, ElfSymsAssumption DEF BoundInv

LEMMA BoundNextSymbol ==
    ASSUME SymInv, BoundInv, NextSymbol
    PROVE  BoundInv'
<1>0. /\ TypesOfWalk /\ WalkInv /\ epc = "symbols" /\ sym < Len(Current.syms)
      /\ sym' = sym + 1 /\ UNCHANGED <<epc, file, sec, dynsym, symtab>>
  BY DEF SymInv, NextSymbol
<1>1. /\ sec \in 1..Len(file) /\ sym \in 0..Len(Current.syms) - 1 /\ sym \in Nat
      /\ Batch \in Nat \ {0} /\ IsFiniteSet(pending) /\ Cardinality(pending) \in Nat
  <2>1. sec \in 1..Len(file)
    BY <1>0, FileIsSeq DEF TypesOfWalk, WalkInv
  <2>2. sym \in Nat /\ Len(Current.syms) \in Nat
    BY <1>0, <2>1, SectionOfFile, LenProperties DEF TypesOfWalk, Current
  <2> QED
    BY <1>0, <2>1, <2>2, FS_CardinalityType, ElfSymsAssumption DEF BoundInv
<1>2. /\ sym % Batch \in 0..Batch - 1 /\ 0 % Batch = 0
      /\ sym > 0 /\ sym % Batch # 0 => sym % Batch = ((sym - 1) % Batch) + 1
  BY <1>1, NextRemainder
<1>3. Marked' <=> Marked
  BY <1>0 DEF Marked
<1>4. (sym + 1) - 1 = sym
  BY <1>1
<1>5. CASE ~Current.syms[sym + 1]
  <2>1. UNCHANGED <<pending, stored>>
    BY <1>5 DEF NextSymbol
  <2>2. ASSUME Marked
        PROVE  Cardinality(pending) <= sym % Batch
    <3>1. sym % Batch # 0
      BY <1>1, <1>5, <2>2 DEF Marked, Current
    <3>2. Cardinality(pending) <= (sym - 1) % Batch /\ sym % Batch = ((sym - 1) % Batch) + 1
      BY <1>0, <1>1, <1>2, <2>2, <3>1 DEF BoundInv
    <3>3. (sym - 1) % Batch \in Int
      BY <1>1, <1>2, <3>1, NextRemainder
    <3> QED
      BY <1>1, <1>2, <3>2, <3>3
  <2> QED
    BY <1>0, <1>3, <1>4, <2>1, <2>2 DEF BoundInv
<1>6. CASE Current.syms[sym + 1]
  <2> DEFINE collected == pending \cup {<<sec, sym>>}
  <2>1. /\ IsFiniteSet(collected) /\ collected \in SUBSET Place
        /\ Cardinality(collected) \in Nat
        /\ Cardinality(collected) <= Cardinality(pending) + 1
    <3>1. IsFiniteSet(collected) /\ Cardinality(collected) <= Cardinality(pending) + 1
      <4>1. /\ IsFiniteSet(collected)
            /\ Cardinality(collected) =
                 IF <<sec, sym>> \in pending THEN Cardinality(pending)
                 ELSE Cardinality(pending) + 1
        BY <1>1, FS_AddElement, Zenon
      <4> QED
        BY <1>1, <4>1
    <3>2. <<sec, sym>> \in Place
      BY <1>1, FileIsSeq, <1>0 DEF Place
    <3> QED
      BY <1>0, <3>1, <3>2, FS_CardinalityType DEF TypesOfWalk
  <2>2. CASE InsertsAt
    <3>1. Insert(collected) /\ pending' = {}
      BY <1>6, <2>2 DEF NextSymbol
    <3> HIDE DEF collected
    <3>2. Marked => \A n \in 1..Len(stored') : Cardinality(stored'[n]) <= Batch
      <4> SUFFICES ASSUME Marked
                   PROVE  \A n \in 1..Len(stored') : Cardinality(stored'[n]) <= Batch
        OBVIOUS
      <4>1. Cardinality(collected) <= Batch
            /\ \A n \in 1..Len(stored) : Cardinality(stored[n]) <= Batch
        BY <1>1, <2>1 DEF BoundInv
      <4> QED
        BY <1>0, <2>1, <3>1, <4>1, BoundOfStored
    <3> QED
      BY <1>0, <1>1, <1>2, <1>3, <1>4, <3>1, <3>2, EmptyIsBounded DEF BoundInv
  <2>3. CASE ~InsertsAt
    <3>1. pending' = collected /\ UNCHANGED stored
      BY <1>6, <2>3 DEF NextSymbol
    <3> HIDE DEF collected
    <3>2. sym % Batch # 0 /\ sym > 0
      BY <1>1, <1>2, <2>3 DEF InsertsAt
    <3>3. Marked => Cardinality(collected) <= sym % Batch
      <4>1. Marked => Cardinality(pending) <= (sym - 1) % Batch
        BY <1>0, <3>2 DEF BoundInv
      <4>2. sym - 1 \in Nat
        BY <1>1, <3>2
      <4>3. (sym - 1) % Batch \in Int
        BY <1>1, <4>2, NextRemainder
      <4> QED
        BY <1>1, <1>2, <2>1, <3>2, <4>1, <4>3
    <3> QED
      BY <1>0, <1>1, <1>2, <1>3, <1>4, <2>1, <3>1, <3>3 DEF BoundInv
  <2> QED
    BY <2>2, <2>3
<1> QED
  BY <1>5, <1>6

LEMMA BoundInsertRest ==
    ASSUME SymInv, BoundInv, InsertRest
    PROVE  BoundInv'
<1>0. TypesOfWalk /\ epc' # "symbols" /\ UNCHANGED file
  BY DEF SymInv, InsertRest
<1>1. Marked' <=> Marked
  BY <1>0 DEF Marked
<1>2. CASE UNCHANGED <<pending, stored>>
  BY <1>0, <1>1, <1>2 DEF BoundInv
<1>3. CASE pending' = {} /\ UNCHANGED stored
  BY <1>0, <1>1, <1>3, EmptyIsBounded, ElfSymsAssumption DEF BoundInv
<1>4. CASE pending' = {} /\ Insert(pending)
  <2>1. pending \in SUBSET Place /\ Cardinality(pending) \in Nat /\ Batch \in Nat \ {0}
    BY <1>0, FS_CardinalityType, ElfSymsAssumption DEF TypesOfWalk, BoundInv
  <2>2. ASSUME Marked
        PROVE  \A n \in 1..Len(stored') : Cardinality(stored'[n]) <= Batch
    <3>1. Cardinality(pending) <= Batch
          /\ \A n \in 1..Len(stored) : Cardinality(stored[n]) <= Batch
      BY <2>1, <2>2 DEF BoundInv
    <3> QED
      BY <1>0, <1>4, <2>1, <3>1, BoundOfStored
  <2> QED
    BY <1>0, <1>1, <1>4, <2>1, <2>2, EmptyIsBounded DEF BoundInv
<1> QED
  BY <1>2, <1>3, <1>4 DEF InsertRest

LEMMA BoundNext == SymInv /\ BoundInv /\ [SymNext]_symVars => BoundInv'
<1> SUFFICES ASSUME SymInv, BoundInv, [SymNext]_symVars PROVE BoundInv'
  OBVIOUS
<1>1. ASSUME UNCHANGED <<file, pending, stored>>,
             epc' # "symbols" \/ sym' = 0 \/ UNCHANGED <<epc, sym>>
      PROVE  BoundInv'
  <2>1. Marked' <=> Marked
    BY <1>1 DEF Marked
  <2> QED
    BY <1>1, <2>1 DEF BoundInv
<1>2. CASE NextSection
  <2>1. epc' # "symbols" \/ sym' = 0
    BY <1>2 DEF NextSection, SectionDone
  <2> QED
    BY <1>1, <1>2, <2>1 DEF NextSection
<1>3. CASE SymbolsEnd
  BY <1>1, <1>3 DEF SymbolsEnd
<1>4. CASE KilledInSymbols
  BY <1>1, <1>4 DEF KilledInSymbols
<1>5. CASE UNCHANGED symVars
  BY <1>1, <1>5 DEF symVars
<1> QED
  BY <1>2, <1>3, <1>4, <1>5, BoundNextSymbol, BoundInsertRest DEF SymNext

(* No INSERT has more rows than a batch, over the border of the two tables *)
(* too, if the symbols at whose index it is made have names                *)
(* (elf_utils.c:226, 261).                                                 *)
THEOREM InsertBound == SymSpec => []InsertIsBounded
<1>1. SymInv /\ BoundInv => InsertIsBounded
  BY DEF BoundInv, Marked, InsertIsBounded
<1> QED
  BY <1>1, SymInvInit, SymInvNext, BoundInit, BoundNext, PTL DEF SymSpec
==============================================================================
