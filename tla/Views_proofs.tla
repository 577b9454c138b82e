---------------------------- MODULE Views_proofs ----------------------------
(***************************************************************************)
(* Proofs about the readers of a finished database: the counts of the      *)
(* summary views, the names the symbol view gives to addresses, and the    *)
(* edges of the full graph, for tables of any length.                      *)
(***************************************************************************)
EXTENDS CapsSymsView, FullGraph, SequenceTheorems, FiniteSetTheorems, TLAPS

(* A bounded sequence is a sequence. *)
LEMMA SeqOfIsSeq ==
    ASSUME NEW S, NEW n \in Nat, NEW q \in SeqOf(S, n)
    PROVE  q \in Seq(S)
<1>1. PICK m \in 0..n : q \in [1..m -> S]
  BY DEF SeqOf
<1>2. m \in Nat
  BY <1>1
<1> QED
  BY <1>1, <1>2, SeqDef

(* What two sets without a common element have together. *)
LEMMA CardOfDisjoint ==
    ASSUME NEW S, NEW T, IsFiniteSet(S), IsFiniteSet(T), S \cap T = {}
    PROVE  /\ IsFiniteSet(S \cup T)
           /\ Cardinality(S \cup T) = Cardinality(S) + Cardinality(T)
<1>1. /\ IsFiniteSet(S \cup T)
      /\ Cardinality(S \cup T) = Cardinality(S) + Cardinality(T) - Cardinality({})
  BY FS_Union
<1>2. Cardinality({}) = 0 /\ Cardinality(S) \in Nat /\ Cardinality(T) \in Nat
  BY FS_EmptySet, FS_CardinalityType
<1> QED
  BY <1>1, <1>2

-----------------------------------------------------------------------------
(* The summary views. *)
CountRow == [total : Nat, ro : Nat, rw : Nat, rx : Nat, rwx : Nat]

ViewInv ==
    /\ caps \in Seq(CapRow)
    /\ rows \in Seq(Ranges)
    /\ shown \in Seq(CountRow) /\ Len(shown) <= Len(rows)
    /\ \A k \in 1..Len(shown) : shown[k] = Counts(rows[k])

LEMMA CountedIsFinite ==
    ASSUME caps \in Seq(CapRow), NEW r, NEW T \in SUBSET CountedIn(r)
    PROVE  IsFiniteSet(T) /\ Cardinality(T) \in Nat
<1>1. IsFiniteSet(1..Len(caps))
  BY LenProperties, FS_Interval
<1>2. T \in SUBSET (1..Len(caps))
  BY DEF CountedIn
<1>3. IsFiniteSet(T)
  BY <1>1, <1>2, FS_Subset
<1> QED
  BY <1>3, FS_CardinalityType

(* The columns of a row. *)
LEMMA CountsInParts ==
    ASSUME NEW r
    PROVE  Counts(r) = [total |-> Cardinality(CountedIn(r)),
                        ro |-> Cardinality({j \in CountedIn(r) : ReadOnly(caps[j])}),
                        rw |-> Cardinality({j \in CountedIn(r) : ReadWrite(caps[j])}),
                        rx |-> Cardinality({j \in CountedIn(r) : ReadExec(caps[j])}),
                        rwx |-> Cardinality({j \in CountedIn(r) : ReadWriteExec(caps[j])})]
  BY Zenon DEF Counts

LEMMA CountsType ==
    ASSUME caps \in Seq(CapRow), NEW r
    PROVE  Counts(r) \in CountRow
<1>1. \A T \in SUBSET CountedIn(r) : Cardinality(T) \in Nat
  BY CountedIsFinite
<1> QED
  BY <1>1, CountsInParts DEF CountRow

LEMMA ViewInvInit == ViewInit => ViewInv
<1> SUFFICES ASSUME ViewInit PROVE ViewInv
  OBVIOUS
<1>1. caps \in Seq(CapRow)
  BY SeqOfIsSeq, CapsViewAssumption DEF ViewInit
<1>2. rows \in Seq(Ranges)
  BY SeqOfIsSeq, CapsViewAssumption DEF ViewInit
<1>3. shown \in Seq(CountRow) /\ Len(shown) = 0
  BY EmptySeq, Zenon DEF ViewInit
<1>4. Len(rows) \in Nat
  BY <1>2, LenProperties
<1> QED
  BY <1>1, <1>2, <1>3, <1>4 DEF ViewInv

LEMMA ViewInvNext == ViewInv /\ [ShowRow]_viewVars => ViewInv'
<1> SUFFICES ASSUME ViewInv, [ShowRow]_viewVars PROVE ViewInv'
  OBVIOUS
<1>1. CASE ShowRow
  <2>1. /\ Len(shown) < Len(rows) /\ UNCHANGED <<command, rows, caps>>
        /\ shown' = Append(shown, Counts(rows[Len(shown) + 1]))
    BY <1>1 DEF ShowRow
  <2>2. Counts(rows[Len(shown) + 1]) \in CountRow
    BY CountsType DEF ViewInv
  <2>3. \A r : Counts(r)' = Counts(r)
    BY <2>1 DEF Counts, CountedIn
  <2>4. /\ shown' \in Seq(CountRow) /\ Len(shown') = Len(shown) + 1 /\ Len(shown) \in Nat
        /\ \A k \in 1..Len(shown) : shown'[k] = shown[k]
        /\ shown'[Len(shown) + 1] = Counts(rows[Len(shown) + 1])
    BY <2>1, <2>2, AppendProperties, LenProperties DEF ViewInv
  <2>5. Len(shown') <= Len(rows)
    BY <2>1, <2>4, LenProperties DEF ViewInv
  <2>6. \A k \in 1..Len(shown') : shown'[k] = Counts(rows[k])
    <3>1. \A k \in 1..Len(shown) : shown[k] = Counts(rows[k])
      BY DEF ViewInv
    <3> SUFFICES ASSUME NEW k \in 1..Len(shown') PROVE shown'[k] = Counts(rows[k])
      OBVIOUS
    <3>2. k \in 1..Len(shown) \/ k = Len(shown) + 1
      BY <2>4
    <3> QED
      BY <2>4, <3>1, <3>2
  <2> QED
    BY <2>1, <2>3, <2>4, <2>5, <2>6 DEF ViewInv
<1>2. CASE UNCHANGED viewVars
  <2>1. UNCHANGED <<command, rows, caps, shown>>
    BY <1>2 DEF viewVars
  <2>2. \A r : Counts(r)' = Counts(r)
    BY <2>1 DEF Counts, CountedIn
  <2> QED
    BY <2>1, <2>2 DEF ViewInv
<1> QED
  BY <1>1, <1>2

LEMMA ViewInvHolds == ViewSpec => []ViewInv
  BY ViewInvInit, ViewInvNext, PTL DEF ViewSpec

(* Each capability that is counted is in one class, or cannot be read.     *)
LEMMA ClassesPartition ==
    ASSUME caps \in Seq(CapRow), NEW r
    PROVE  Counts(r).total - (Counts(r).ro + Counts(r).rw + Counts(r).rx + Counts(r).rwx) =
             Cardinality({j \in CountedIn(r) : "r" \notin caps[j].perms})
<1> DEFINE C == CountedIn(r)
           A1 == {j \in C : ReadOnly(caps[j])}
           A2 == {j \in C : ReadWrite(caps[j])}
           A3 == {j \in C : ReadExec(caps[j])}
           A4 == {j \in C : ReadWriteExec(caps[j])}
           A5 == {j \in C : "r" \notin caps[j].perms}
<1>1. A1 \cap A2 = {} /\ (A1 \cup A2) \cap A3 = {} /\ (A1 \cup A2 \cup A3) \cap A4 = {}
      /\ (A1 \cup A2 \cup A3 \cup A4) \cap A5 = {}
      /\ C = A1 \cup A2 \cup A3 \cup A4 \cup A5
  BY DEF ReadOnly, ReadWrite, ReadExec, ReadWriteExec
<1>2. \A T \in SUBSET C : IsFiniteSet(T) /\ Cardinality(T) \in Nat
  BY CountedIsFinite
<1>3. Counts(r) = [total |-> Cardinality(C), ro |-> Cardinality(A1), rw |-> Cardinality(A2),
                   rx |-> Cardinality(A3), rwx |-> Cardinality(A4)]
  BY CountsInParts
<1>4. /\ A1 \in SUBSET C /\ A2 \in SUBSET C /\ A3 \in SUBSET C /\ A4 \in SUBSET C
      /\ A5 \in SUBSET C
  OBVIOUS
<1> HIDE DEF C, A1, A2, A3, A4, A5
<1>5. Cardinality(A1 \cup A2) = Cardinality(A1) + Cardinality(A2)
  BY <1>1, <1>2, <1>4, CardOfDisjoint
<1>6. Cardinality(A1 \cup A2 \cup A3) = Cardinality(A1 \cup A2) + Cardinality(A3)
  <2>1. A1 \cup A2 \in SUBSET C
    BY <1>4
  <2> QED
    BY <1>1, <1>2, <1>4, <2>1, CardOfDisjoint
<1>7. Cardinality(A1 \cup A2 \cup A3 \cup A4) =
        Cardinality(A1 \cup A2 \cup A3) + Cardinality(A4)
  <2>1. A1 \cup A2 \cup A3 \in SUBSET C
    BY <1>4
  <2> QED
    BY <1>1, <1>2, <1>4, <2>1, CardOfDisjoint
<1>8. Cardinality(C) = Cardinality(A1 \cup A2 \cup A3 \cup A4) + Cardinality(A5)
  <2>1. A1 \cup A2 \cup A3 \cup A4 \in SUBSET C
    BY <1>4
  <2> QED
    BY <1>1, <1>2, <1>4, <2>1, CardOfDisjoint
<1>9. Counts(r).total - (Counts(r).ro + Counts(r).rw + Counts(r).rx + Counts(r).rwx) =
        Cardinality(A5)
  BY <1>2, <1>3, <1>4, <1>5, <1>6, <1>7, <1>8
<1> QED
  BY <1>9 DEF A5, C

(* The columns of a row of either view add up to its total, but for the    *)
(* capabilities that cannot be used to read (vm_caps_view.c:112-146,       *)
(* comp_caps_view.c:89-125).                                               *)
THEOREM CountsAddUp == ViewSpec => []ClassesAddUp
<1>1. ViewInv => ClassesAddUp
  BY ClassesPartition DEF ViewInv, ClassesAddUp
<1> QED
  BY <1>1, ViewInvHolds, PTL

-----------------------------------------------------------------------------
(* The symbol view. *)

(* The symbols at the k-th address, and the name that is right for it. *)
At(n) ==
    {j \in 1..Len(elf) :
        \/ elf[j].base + elf[j].value = Sought(n) /\ (elf[j].func => elf[j].value % 2 = 0)
        \/ elf[j].func /\ elf[j].value % 2 = 1 /\ elf[j].base + elf[j].value = Sought(n) + 1}
Right(n, name) ==
    IF symCount = -1 THEN name = Null
    ELSE IF At(n) = {} THEN name = NoSymbol
    ELSE name \in At(n) /\ \A j \in At(n) : name <= j

AllRight == \A n \in 1..Len(listed) : Right(n, listed[n])

(* The symbols in front of the loop index are not at the address that is   *)
(* looked for.                                                             *)
NamesInv ==
    /\ caps \in Seq(CapRow) /\ elf \in Seq(ElfSymbols)
    /\ symCount \in {Len(elf), -1} /\ s \in Nat /\ (s > 0 => s <= symCount)
    /\ listed \in Seq(Int) /\ Len(listed) <= 2 * Len(caps)
    /\ \A j \in 1..s : SymAddr(elf[j]) # Sought(Len(listed) + 1)
    /\ AllRight

LEMMA SoughtIsAddress ==
    ASSUME caps \in Seq(CapRow), NEW n \in 1..2 * Len(caps)
    PROVE  Sought(n) \in Nat
<1>1. \A c \in CapRow : c.loc \in Nat /\ c.addr \in Nat
  BY CapsViewAssumption DEF CapRow
<1>2. Len(caps) \in Nat
  BY LenProperties
<1>3. (n - 1) \div 2 + 1 \in 1..Len(caps)
  BY <1>2
<1>4. caps[(n - 1) \div 2 + 1] \in CapRow
  BY <1>3, ElementOfSeq
<1> QED
  BY <1>1, <1>4 DEF Sought

LEMMA AddressOfSymbol ==
    ASSUME NEW e \in ElfSymbols, NEW a \in Nat
    PROVE  SymAddr(e) = a <=>
             \/ e.base + e.value = a /\ (e.func => e.value % 2 = 0)
             \/ e.func /\ e.value % 2 = 1 /\ e.base + e.value = a + 1
<1>1. e.base \in Nat /\ e.value \in Nat /\ e.func \in BOOLEAN
  BY CapsSymsViewAssumption
<1>2. e.value % 2 \in {0, 1}
  BY <1>1
<1>3. CASE ~e.func
  BY <1>1, <1>3 DEF SymAddr
<1>4. CASE e.func /\ e.value % 2 = 0
  BY <1>1, <1>4 DEF SymAddr
<1>5. CASE e.func /\ e.value % 2 = 1
  BY <1>1, <1>5 DEF SymAddr
<1> QED
  BY <1>1, <1>2, <1>3, <1>4, <1>5

LEMMA AtIsByAddress ==
    ASSUME NamesInv, NEW n \in 1..2 * Len(caps)
    PROVE  At(n) = {j \in 1..Len(elf) : SymAddr(elf[j]) = Sought(n)}
<1>1. \A j \in 1..Len(elf) : elf[j] \in ElfSymbols
  BY ElementOfSeq DEF NamesInv
<1>2. Sought(n) \in Nat
  BY SoughtIsAddress DEF NamesInv
<1>3. \A j \in 1..Len(elf) : SymAddr(elf[j]) = Sought(n) <=>
         \/ elf[j].base + elf[j].value = Sought(n) /\ (elf[j].func => elf[j].value % 2 = 0)
         \/ elf[j].func /\ elf[j].value % 2 = 1 /\ elf[j].base + elf[j].value = Sought(n) + 1
  BY <1>1, <1>2, AddressOfSymbol
<1> QED
  BY <1>3 DEF At

LEMMA NamesInit ==
    ASSUME caps \in SeqOf(CapRow, NumCaps), SymsInit
    PROVE  NamesInv
<1>1. caps \in Seq(CapRow) /\ elf \in Seq(ElfSymbols)
  BY SeqOfIsSeq, CapsViewAssumption, CapsSymsViewAssumption DEF SymsInit
<1>2. listed \in Seq(Int) /\ Len(listed) = 0
  BY EmptySeq, Zenon DEF SymsInit
<1>3. Len(caps) \in Nat
  BY <1>1, LenProperties
<1> QED
  BY <1>1, <1>2, <1>3 DEF SymsInit, NamesInv, AllRight

LEMMA RightStays ==
    ASSUME UNCHANGED <<elf, symCount, caps>>,
           \A n \in 1..Len(listed') : Right(n, listed'[n])
    PROVE  AllRight'
  BY DEF AllRight, Right, At, Sought

(* A name is added that is right for the address. *)
LEMMA NameAdded ==
    ASSUME NamesInv, Searching, NEW name \in Int, Right(Len(listed) + 1, name),
           listed' = Append(listed, name), s' = 0,
           UNCHANGED <<elf, symCount, caps>>
    PROVE  NamesInv'
<1>1. /\ listed' \in Seq(Int) /\ Len(listed) \in Nat /\ Len(listed') = Len(listed) + 1
      /\ \A n \in 1..Len(listed) : listed'[n] = listed[n]
      /\ listed'[Len(listed) + 1] = name
  BY AppendProperties, LenProperties DEF NamesInv
<1>3. \A n \in 1..Len(listed) : Right(n, listed[n])
  BY DEF NamesInv, AllRight
<1>4. \A n \in 1..Len(listed') : Right(n, listed'[n])
  <2> SUFFICES ASSUME NEW n \in 1..Len(listed') PROVE Right(n, listed'[n])
    OBVIOUS
  <2>1. n \in 1..Len(listed) \/ n = Len(listed) + 1
    BY <1>1
  <2> QED
    BY <1>1, <1>3, <2>1
<1>5. Len(listed') <= 2 * Len(caps) /\ Len(caps) \in Nat
  BY <1>1, LenProperties DEF Searching, NamesInv
<1>6. AllRight'
  BY <1>4, RightStays
<1> QED
  BY <1>1, <1>5, <1>6 DEF NamesInv

LEMMA NamesNext == NamesInv /\ [ListStep]_<<viewVars, symsVars>> => NamesInv'
<1> SUFFICES ASSUME NamesInv, [ListStep]_<<viewVars, symsVars>> PROVE NamesInv'
  OBVIOUS
<1>0. UNCHANGED caps
  BY DEF ListStep, viewVars
<1>1. /\ Len(listed) \in Nat /\ Len(caps) \in Nat /\ Len(elf) \in Nat
      /\ symCount \in {Len(elf), -1} /\ s \in Nat
  BY LenProperties DEF NamesInv
<1>2. Searching => Len(listed) + 1 \in 1..2 * Len(caps)
  BY <1>1 DEF Searching
<1>3. Searching => At(Len(listed) + 1) =
                     {j \in 1..Len(elf) : SymAddr(elf[j]) = Sought(Len(listed) + 1)}
  BY <1>2, AtIsByAddress
<1>4. CASE NextSymbol
  <2>1. /\ s < symCount /\ SymAddr(elf[s + 1]) # Sought(Len(listed) + 1) /\ s' = s + 1
        /\ UNCHANGED <<elf, symCount, listed, caps>>
    BY <1>0, <1>4 DEF NextSymbol, AtSymbol
  <2>2. \A j \in 1..s + 1 : SymAddr(elf[j]) # Sought(Len(listed) + 1)
    <3>1. \A j \in 1..s : SymAddr(elf[j]) # Sought(Len(listed) + 1)
      BY DEF NamesInv
    <3>2. \A j \in 1..s + 1 : j \in 1..s \/ j = s + 1
      BY <1>1
    <3> QED
      BY <2>1, <3>1, <3>2
  <2>4. (\A j \in 1..s : SymAddr(elf[j]) # Sought(Len(listed) + 1))'
    BY <2>1, <2>2 DEF Sought
  <2>5. AllRight'
    <3>1. AllRight
      BY DEF NamesInv
    <3> QED
      BY <2>1, <3>1 DEF AllRight, Right, At, Sought
  <2>6. s' \in Nat /\ s' <= symCount
    BY <1>1, <2>1
  <2> QED
    BY <2>1, <2>4, <2>5, <2>6 DEF NamesInv
<1>5. CASE SymbolFound
  <2>1. /\ Searching /\ s < symCount /\ SymAddr(elf[s + 1]) = Sought(Len(listed) + 1)
        /\ listed' = Append(listed, s + 1) /\ s' = 0 /\ UNCHANGED <<elf, symCount, caps>>
    BY <1>0, <1>5 DEF SymbolFound, AtSymbol
  <2>2. symCount = Len(elf) /\ s + 1 \in 1..Len(elf)
    BY <1>1, <2>1
  <2>3. s + 1 \in At(Len(listed) + 1)
    BY <1>3, <2>1, <2>2
  <2>4. \A j \in At(Len(listed) + 1) : s + 1 <= j
    <3> SUFFICES ASSUME NEW j \in At(Len(listed) + 1), ~(s + 1 <= j) PROVE FALSE
      OBVIOUS
    <3>1. j \in 1..Len(elf) /\ SymAddr(elf[j]) = Sought(Len(listed) + 1)
      BY <1>3, <2>1
    <3>2. j \in 1..s
      BY <1>1, <3>1
    <3> QED
      BY <3>1, <3>2 DEF NamesInv
  <2>5. Right(Len(listed) + 1, s + 1)
    BY <1>1, <2>2, <2>3, <2>4 DEF Right
  <2>6. s + 1 \in Int
    BY <1>1
  <2> QED
    BY <2>1, <2>5, <2>6, NameAdded
<1>6. CASE LoopEnd
  <2> DEFINE name == IF s = symCount THEN NoSymbol ELSE Null
  <2>1. /\ Searching /\ s >= symCount /\ s' = 0 /\ UNCHANGED <<elf, symCount, caps>>
        /\ listed' = Append(listed, name)
    BY <1>0, <1>6 DEF LoopEnd
  <2>2. Right(Len(listed) + 1, name)
    <3>1. CASE symCount = -1
      BY <1>1, <3>1 DEF Right
    <3>2. CASE symCount = Len(elf) /\ symCount # -1
      <4>1. s = Len(elf)
        BY <1>1, <2>1, <3>2 DEF NamesInv
      <4>2. At(Len(listed) + 1) = {}
        BY <1>3, <2>1, <4>1 DEF NamesInv
      <4> QED
        BY <3>2, <4>1, <4>2 DEF Right
    <3> QED
      BY <1>1, <3>1, <3>2
  <2>3. name \in Int
    BY DEF NoSymbol, Null
  <2> HIDE DEF name
  <2> QED
    BY <2>1, <2>2, <2>3, NameAdded
<1>7. CASE UNCHANGED <<viewVars, symsVars>>
  <2>1. UNCHANGED <<caps, elf, symCount, s, listed>>
    BY <1>7 DEF viewVars, symsVars
  <2>2. AllRight' <=> AllRight
    BY <2>1 DEF AllRight, Right, At, Sought
  <2>3. (\A j \in 1..s : SymAddr(elf[j]) # Sought(Len(listed) + 1))'
        <=> \A j \in 1..s : SymAddr(elf[j]) # Sought(Len(listed) + 1)
    BY <2>1 DEF Sought
  <2> QED
    BY <2>1, <2>2, <2>3 DEF NamesInv
<1> QED
  BY <1>4, <1>5, <1>6, <1>7 DEF ListStep

(* Each address is given the first symbol that is stored for it, or "-" if *)
(* there is none, or nothing if the symbols could not be read              *)
(* (caps_syms_view.c:88-126).                                              *)
THEOREM NamesAreRight == SymsSpec => []NamesOfAddresses
<1>1. NamesInv => NamesOfAddresses
  BY DEF NamesInv, AllRight, Right, At, NamesOfAddresses
<1>2. SymsSpec => []NamesInv
  BY NamesInit, NamesNext, PTL DEF SymsSpec
<1> QED
  BY <1>1, <1>2, PTL

-----------------------------------------------------------------------------
(* The strings of addresses. *)

(* A non-empty set of numbers has a least one. *)
LEMMA LeastNumber ==
    ASSUME NEW I, I \subseteq Nat, I # {}
    PROVE  \E m \in I : \A n \in I : m <= n
<1> DEFINE Less == OpToRel(<, Nat)
<1>1. \A m, n \in Nat : <<n, m>> \notin Less => m <= n
  BY DEF OpToRel
<1>2. IsWellFoundedOn(Less, Nat)
  BY NatLessThanWellFounded
<1> HIDE DEF Less
<1>3. PICK m \in I : \A n \in I : <<n, m>> \notin Less
  BY <1>2, WFMin
<1> QED
  BY <1>1, <1>3

(* The number without its last digit is smaller. *)
LEMMA WithoutLastDigit ==
    ASSUME NEW n \in Nat
    PROVE  /\ n \div Radix \in Nat /\ n % Radix \in 0..Radix - 1
           /\ n = Radix * (n \div Radix) + (n % Radix)
           /\ n >= Radix => n \div Radix < n
<1>1. Radix \in Nat /\ Radix >= 2
  BY FullGraphAssumption
<1>2. n \div Radix \in Nat /\ n % Radix \in 0..Radix - 1
      /\ n = Radix * (n \div Radix) + (n % Radix)
  BY <1>1
<1>3. ASSUME n >= Radix
      PROVE  n \div Radix < n
  <2> DEFINE q == n \div Radix
  <2>1. q \in Nat /\ n >= Radix * q /\ n > 0
    BY <1>1, <1>2, <1>3
  <2> HIDE DEF q
  <2>2. Radix * q >= 2 * q
    BY <1>1, <2>1
  <2>3. Radix * q \in Nat
    BY <1>1, <2>1
  <2>4. q < n
    BY <2>1, <2>2, <2>3
  <2> QED
    BY <2>4 DEF q
<1> QED
  BY <1>2, <1>3

(* One turn of the recursion, and the functions that obey it up to n.      *)
DigitsFrom(f, n) ==
    IF n < Radix THEN <<n>> ELSE Append(f[n \div Radix], n % Radix)
UpTo(f, n) == f = [m \in 0..n |-> DigitsFrom(f, m)]

LEMMA OneUpTo ==
    ASSUME NEW f, NEW g, NEW n \in Nat, NEW m \in Nat, UpTo(f, n), UpTo(g, m),
           NEW q \in 0..n, q <= m
    PROVE  f[q] = g[q]
<1> DEFINE I == {u \in 0..n : u <= m /\ f[u] # g[u]}
<1> SUFFICES ASSUME I # {} PROVE FALSE
  OBVIOUS
<1>1. I \subseteq Nat
  OBVIOUS
<1> HIDE DEF I
<1>2. PICK u \in I : \A v \in I : u <= v
  BY <1>1, LeastNumber
<1>3. u \in 0..n /\ u \in 0..m /\ u \in Nat /\ f[u] # g[u]
  BY <1>2 DEF I
<1>4. f[u] = DigitsFrom(f, u) /\ g[u] = DigitsFrom(g, u)
  BY <1>3 DEF UpTo
<1>5. u >= Radix /\ Radix \in Nat
  BY <1>3, <1>4, FullGraphAssumption DEF DigitsFrom
<1>6. u \div Radix \in Nat /\ u \div Radix < u
  BY <1>3, <1>5, WithoutLastDigit
<1>7. f[u \div Radix] = g[u \div Radix]
  BY <1>2, <1>3, <1>6 DEF I
<1> QED
  BY <1>3, <1>4, <1>7 DEF DigitsFrom

LEMMA SomeUpTo ==
    ASSUME NEW n \in Nat
    PROVE  \E f : UpTo(f, n)
<1> DEFINE I == {u \in Nat : ~\E f : UpTo(f, u)}
<1> SUFFICES ASSUME I # {} PROVE FALSE
  OBVIOUS
<1>0. I \subseteq Nat
  OBVIOUS
<1> HIDE DEF I
<1>1. PICK u \in I : \A v \in I : u <= v
  BY <1>0, LeastNumber
<1>2. u \in Nat /\ ~\E f : UpTo(f, u)
  BY <1>1 DEF I
<1>3. Radix \in Nat /\ Radix >= 2
  BY FullGraphAssumption
<1>4. CASE u = 0
  <2> DEFINE g == [m \in 0..0 |-> <<m>>]
  <2>1. g = [m \in 0..0 |-> DigitsFrom(g, m)]
    BY <1>3 DEF DigitsFrom
  <2> HIDE DEF g
  <2> QED
    BY <1>2, <1>4, <2>1 DEF UpTo
<1>5. CASE u > 0
  <2>1. u - 1 \in Nat /\ u - 1 \notin I
    BY <1>1, <1>2, <1>5
  <2>2. PICK f : UpTo(f, u - 1)
    BY <2>1 DEF I
  <2> DEFINE g == [m \in 0..u |-> IF m < u THEN f[m] ELSE DigitsFrom(f, u)]
  <2>3. \A m \in 0..u - 1 : g[m] = f[m] /\ f[m] = DigitsFrom(f, m)
    BY <1>2, <2>2 DEF UpTo
  <2>4. \A m \in 0..u : m >= Radix => m \div Radix \in 0..u - 1
    <3> SUFFICES ASSUME NEW m \in 0..u, m >= Radix PROVE m \div Radix \in 0..u - 1
      OBVIOUS
    <3>1. m \in Nat /\ m \div Radix \in Nat /\ m \div Radix < m
      BY <1>2, WithoutLastDigit
    <3> QED
      BY <1>2, <3>1
  <2>5. \A m \in 0..u : g[m] = DigitsFrom(f, m)
    <3>1. g[u] = DigitsFrom(f, u)
      BY <1>2
    <3>2. \A m \in 0..u : m \in 0..u - 1 \/ m = u
      BY <1>2
    <3> HIDE DEF g
    <3> QED
      BY <2>3, <3>1, <3>2
  <2>6. g = [m \in 0..u |-> g[m]]
    OBVIOUS
  <2> HIDE DEF g
  <2>7. \A m \in 0..u : DigitsFrom(g, m) = DigitsFrom(f, m)
    <3> SUFFICES ASSUME NEW m \in 0..u PROVE DigitsFrom(g, m) = DigitsFrom(f, m)
      OBVIOUS
    <3>1. CASE m < Radix
      BY <3>1 DEF DigitsFrom
    <3>2. CASE m >= Radix
      <4>1. g[m \div Radix] = f[m \div Radix]
        BY <2>3, <2>4, <3>2
      <4> QED
        BY <4>1 DEF DigitsFrom
    <3> QED
      BY <1>2, <1>3, <3>1, <3>2
  <2>8. g = [m \in 0..u |-> DigitsFrom(g, m)]
    BY <2>5, <2>6, <2>7
  <2> QED
    BY <1>2, <2>8 DEF UpTo
<1> QED
  BY <1>2, <1>4, <1>5

(* The recursion defines the digits of every number. *)
LEMMA DigitsOf ==
    ASSUME NEW n \in Nat
    PROVE  Digits[n] = IF n < Radix THEN <<n>> ELSE Append(Digits[n \div Radix], n % Radix)
<1> DEFINE Best(u) == CHOOSE f : UpTo(f, u)
           F == [u \in Nat |-> Best(u)[u]]
<1>1. \A u \in Nat : UpTo(Best(u), u)
  BY SomeUpTo
<1> HIDE DEF Best
<1>2. ASSUME NEW u \in Nat
      PROVE  F[u] = DigitsFrom(F, u)
  <2>1. Best(u)[u] = DigitsFrom(Best(u), u)
    BY <1>1 DEF UpTo
  <2>2. CASE u < Radix
    BY <2>1, <2>2 DEF DigitsFrom
  <2>3. CASE ~(u < Radix)
    <3>1. u \div Radix \in Nat /\ u \div Radix < u
      BY <2>3, WithoutLastDigit, FullGraphAssumption
    <3>2. Best(u)[u \div Radix] = Best(u \div Radix)[u \div Radix]
      BY <1>1, <3>1, OneUpTo
    <3> QED
      BY <2>1, <2>3, <3>1, <3>2 DEF DigitsFrom
  <2> QED
    BY <2>2, <2>3
<1>3. F = [u \in Nat |-> F[u]]
  OBVIOUS
<1> HIDE DEF F
<1>4. F = [u \in Nat |-> DigitsFrom(F, u)]
  BY <1>2, <1>3
<1>5. \E f : f = [u \in Nat |-> IF u < Radix THEN <<u>> ELSE Append(f[u \div Radix], u % Radix)]
  BY <1>4, Zenon DEF DigitsFrom
<1>6. Digits = [u \in Nat |-> IF u < Radix THEN <<u>>
                              ELSE Append(Digits[u \div Radix], u % Radix)]
  BY <1>5, Zenon DEF Digits
<1> QED
  BY <1>6, Zenon

LEMMA DigitsType ==
    ASSUME NEW n \in Nat
    PROVE  Digits[n] \in Seq(Nat) /\ Len(Digits[n]) \in Nat \ {0}
<1> DEFINE I == {u \in Nat : ~(Digits[u] \in Seq(Nat) /\ Len(Digits[u]) \in Nat \ {0})}
<1> SUFFICES ASSUME I # {} PROVE FALSE
  OBVIOUS
<1>0. I \subseteq Nat
  OBVIOUS
<1> HIDE DEF I
<1>1. PICK u \in I : \A v \in I : u <= v
  BY <1>0, LeastNumber
<1>2. u \in Nat /\ ~(Digits[u] \in Seq(Nat) /\ Len(Digits[u]) \in Nat \ {0})
  BY <1>1 DEF I
<1>3. CASE u < Radix
  <2>1. Digits[u] = <<u>>
    BY <1>2, <1>3, DigitsOf
  <2>2. <<u>> \in Seq(Nat) /\ Len(<<u>>) = 1
    BY <1>2
  <2> QED
    BY <1>2, <2>1, <2>2
<1>4. CASE u >= Radix
  <2> DEFINE q == u \div Radix
  <2>1. q \in Nat /\ q < u /\ u % Radix \in Nat
    <3>1. u \in Nat
      BY <1>2
    <3>2. q \in Nat /\ q < u /\ u % Radix \in 0..Radix - 1
      BY <1>4, <3>1, WithoutLastDigit
    <3> QED
      BY <3>2, FullGraphAssumption
  <2>2. Digits[q] \in Seq(Nat) /\ Len(Digits[q]) \in Nat
    BY <1>1, <1>2, <2>1 DEF I
  <2>3. Digits[u] = Append(Digits[q], u % Radix)
    <3>1. ~(u < Radix)
      BY <1>2, <1>4, FullGraphAssumption
    <3> QED
      BY <1>2, <3>1, DigitsOf, Zenon
  <2> HIDE DEF q
  <2>4. Digits[u] \in Seq(Nat) /\ Len(Digits[u]) = Len(Digits[q]) + 1
    BY <2>1, <2>2, <2>3, AppendProperties
  <2> QED
    BY <1>2, <2>2, <2>4
<1> QED
  BY <1>2, <1>3, <1>4, FullGraphAssumption

(* A number of two digits or more: its digits without the last are those   *)
(* of the number without its last digit.                                   *)
LEMMA LongDigits ==
    ASSUME NEW n \in Nat, n >= Radix
    PROVE  /\ Len(Digits[n]) = Len(Digits[n \div Radix]) + 1
           /\ \A k \in 1..Len(Digits[n \div Radix]) : Digits[n][k] = Digits[n \div Radix][k]
           /\ Digits[n][Len(Digits[n])] = n % Radix
<1> DEFINE q == n \div Radix
<1>1. q \in Nat /\ n % Radix \in Nat
  BY WithoutLastDigit, FullGraphAssumption
<1>2. Digits[q] \in Seq(Nat) /\ Len(Digits[q]) \in Nat
  BY <1>1, DigitsType
<1>3. Digits[n] = Append(Digits[q], n % Radix)
  <2>1. ~(n < Radix)
    BY FullGraphAssumption
  <2> QED
    BY <2>1, DigitsOf, Zenon
<1> HIDE DEF q
<1>4. /\ Len(Digits[n]) = Len(Digits[q]) + 1
      /\ \A k \in 1..Len(Digits[q]) : Digits[n][k] = Digits[q][k]
      /\ Digits[n][Len(Digits[q]) + 1] = n % Radix
  BY <1>1, <1>2, <1>3, AppendProperties
<1> QED
  BY <1>4 DEF q

LEMMA ShortDigits ==
    ASSUME NEW n \in Nat, n < Radix
    PROVE  Len(Digits[n]) = 1 /\ Digits[n][1] = n
<1>1. Digits[n] = <<n>>
  BY DigitsOf
<1> QED
  BY <1>1

(* The first place at which two strings differ. *)
LessAt(u, v, k) == u[k] < v[k] /\ \A j \in 1..k - 1 : u[j] = v[j]

LEMMA DigitsInOrder ==
    ASSUME NEW m \in Nat, NEW n \in Nat, m < n, Len(Digits[m]) = Len(Digits[n])
    PROVE  \E k \in 1..Len(Digits[n]) : LessAt(Digits[m], Digits[n], k)
<1> DEFINE Wrong(v, u) == /\ v < u /\ Len(Digits[v]) = Len(Digits[u])
                          /\ ~\E k \in 1..Len(Digits[u]) : LessAt(Digits[v], Digits[u], k)
           I == {u \in Nat : \E v \in Nat : Wrong(v, u)}
<1> SUFFICES ASSUME I # {} PROVE FALSE
  OBVIOUS
<1>0. I \subseteq Nat
  OBVIOUS
<1> HIDE DEF I
<1>1. PICK u \in I : \A w \in I : u <= w
  BY <1>0, LeastNumber
<1>2. PICK v \in Nat : Wrong(v, u)
  BY <1>1 DEF I
<1>3. /\ u \in Nat /\ v < u /\ Len(Digits[v]) = Len(Digits[u])
      /\ \A k \in 1..Len(Digits[u]) : ~LessAt(Digits[v], Digits[u], k)
  BY <1>0, <1>1, <1>2
<1> DEFINE qu == u \div Radix
           qv == v \div Radix
<1>4. /\ Radix \in Nat /\ qu \in Nat /\ qv \in Nat
      /\ Len(Digits[u]) \in Nat \ {0} /\ Len(Digits[qu]) \in Nat \ {0}
      /\ Len(Digits[qv]) \in Nat \ {0}
  BY <1>3, WithoutLastDigit, DigitsType, FullGraphAssumption
<1>5. CASE u < Radix
  <2>1. Digits[u][1] = u /\ Digits[v][1] = v /\ Len(Digits[u]) = 1
    BY <1>3, <1>4, <1>5, ShortDigits
  <2>2. LessAt(Digits[v], Digits[u], 1)
    BY <1>3, <2>1 DEF LessAt
  <2> QED
    BY <1>3, <2>1, <2>2
<1>6. CASE u >= Radix
  <2>0. /\ Len(Digits[u]) = Len(Digits[qu]) + 1
        /\ \A k \in 1..Len(Digits[qu]) : Digits[u][k] = Digits[qu][k]
        /\ Digits[u][Len(Digits[u])] = u % Radix
    BY <1>3, <1>6, LongDigits
  <2>1. v >= Radix
    <3>1. v < Radix => Len(Digits[v]) = 1
      BY ShortDigits
    <3> HIDE DEF qu, qv
    <3> QED
      BY <1>3, <1>4, <2>0, <3>1
  <2>a. /\ Len(Digits[v]) = Len(Digits[qv]) + 1
        /\ \A k \in 1..Len(Digits[qv]) : Digits[v][k] = Digits[qv][k]
        /\ Digits[v][Len(Digits[v])] = v % Radix
    BY <2>1, LongDigits
  <2>2. /\ Len(Digits[qv]) = Len(Digits[qu]) /\ Len(Digits[u]) = Len(Digits[qu]) + 1
        /\ \A k \in 1..Len(Digits[qu]) : Digits[u][k] = Digits[qu][k] /\ Digits[v][k] = Digits[qv][k]
        /\ Digits[u][Len(Digits[u])] = u % Radix /\ Digits[v][Len(Digits[u])] = v % Radix
    <3> HIDE DEF qu, qv
    <3>1. Len(Digits[qv]) = Len(Digits[qu])
      <4> DEFINE a == Len(Digits[qu])
                 c == Len(Digits[qv])
      <4>1. a \in Nat /\ c \in Nat /\ a + 1 = c + 1
        BY <1>3, <1>4, <2>0, <2>a
      <4> HIDE DEF a, c
      <4>2. a = c
        BY <4>1
      <4> QED
        BY <4>2 DEF a, c
    <3> QED
      BY <1>3, <2>0, <2>a, <3>1
  <2>3. qv < qu \/ (qv = qu /\ v % Radix < u % Radix)
    <3>1. /\ u = Radix * qu + (u % Radix) /\ u % Radix \in 0..Radix - 1
          /\ v = Radix * qv + (v % Radix) /\ v % Radix \in 0..Radix - 1
      BY <1>3, WithoutLastDigit
    <3>2. ASSUME qu < qv
          PROVE  FALSE
      <4> HIDE DEF qu, qv
      <4>1. Radix * (qu + 1) <= Radix * qv
        BY <1>4, <3>2
      <4>2. Radix * (qu + 1) = Radix * qu + Radix
        BY <1>4
      <4> DEFINE A == Radix * qu
                 B == Radix * qv
      <4>3. A \in Nat /\ B \in Nat /\ A + Radix <= B
        BY <1>4, <4>1, <4>2
      <4>4. u = A + (u % Radix) /\ v = B + (v % Radix)
        BY <3>1
      <4> HIDE DEF A, B
      <4> QED
        BY <1>3, <1>4, <3>1, <4>3, <4>4
    <3>3. ASSUME qu = qv
          PROVE  v % Radix < u % Radix
      <4> HIDE DEF qu, qv
      <4>1. Radix * qu \in Nat
        BY <1>4
      <4> QED
        BY <1>3, <1>4, <3>1, <3>3, <4>1
    <3> QED
      BY <1>4, <3>2, <3>3
  <2>4. CASE qv < qu
    <3>1. qu < u /\ qu \notin I
      BY <1>1, <1>3, <1>4, <1>6, WithoutLastDigit
    <3>2. PICK k \in 1..Len(Digits[qu]) : LessAt(Digits[qv], Digits[qu], k)
      BY <1>4, <2>2, <2>4, <3>1 DEF I
    <3>3. k \in 1..Len(Digits[u]) /\ \A j \in 1..k - 1 : j \in 1..Len(Digits[qu])
      BY <1>4, <2>2
    <3> HIDE DEF qu, qv
    <3>4. LessAt(Digits[v], Digits[u], k)
      BY <2>2, <3>2, <3>3 DEF LessAt
    <3> QED
      BY <1>3, <3>3, <3>4
  <2>5. CASE qv = qu /\ v % Radix < u % Radix
    <3>1. \A j \in 1..Len(Digits[u]) - 1 : j \in 1..Len(Digits[qu])
      BY <1>4, <2>2
    <3>2. LessAt(Digits[v], Digits[u], Len(Digits[u]))
      <4>1. Digits[qv] = Digits[qu]
        BY <2>5
      <4> HIDE DEF qu, qv
      <4> QED
        BY <2>2, <2>5, <3>1, <4>1 DEF LessAt
    <3> QED
      BY <1>3, <1>4, <3>2
  <2> QED
    BY <2>3, <2>4, <2>5
<1> QED
  BY <1>3, <1>4, <1>5, <1>6

(* Strings of one length are in the order of the numbers.                  *)
LEMMA StringsInOrder ==
    ASSUME NEW m \in Nat, NEW n \in Nat, Len(Digits[m]) = Len(Digits[n])
    PROVE  AtMost(m, n) <=> m <= n
<1> DEFINE u == Digits[m]
           v == Digits[n]
<1>1. u \in Seq(Nat) /\ v \in Seq(Nat) /\ Len(u) = Len(v) /\ Len(u) \in Nat
  BY DigitsType, LenProperties
<1>2. AtMost(m, n) <=>
        \/ IsPrefix(u, v)
        \/ \E k \in 1..Len(u) \cap 1..Len(v) :
              u[k] < v[k] /\ SubSeq(u, 1, k - 1) = SubSeq(v, 1, k - 1)
  BY Zenon DEF AtMost
<1>3. /\ m < n => \E k \in 1..Len(v) : LessAt(u, v, k)
      /\ n < m => \E k \in 1..Len(u) : LessAt(v, u, k)
  BY DigitsInOrder
<1>4. m = n => u = v
  OBVIOUS
<1> HIDE DEF u, v
<1>5. \A k \in 1..Len(u) :
        SubSeq(u, 1, k - 1) = SubSeq(v, 1, k - 1) <=> \A j \in 1..k - 1 : u[j] = v[j]
  <2> SUFFICES ASSUME NEW k \in 1..Len(u)
               PROVE  SubSeq(u, 1, k - 1) = SubSeq(v, 1, k - 1)
                      <=> \A j \in 1..k - 1 : u[j] = v[j]
    OBVIOUS
  <2>1. /\ SubSeq(u, 1, k - 1) = [j \in 1..k - 1 |-> u[j]]
        /\ SubSeq(v, 1, k - 1) = [j \in 1..k - 1 |-> v[j]]
    BY <1>1
  <2> QED
    BY <2>1
<1>6. SubSeq(u, 1, Len(u)) = u /\ SubSeq(v, 1, Len(v)) = v
  BY <1>1, SubSeqFull
<1>7. IsPrefix(u, v) <=> u = v
  <2>1. SubSeq(v, 1, Len(u)) = v
    BY <1>1, <1>6, Zenon
  <2>2. Len(u) <= Len(v)
    BY <1>1
  <2> QED
    BY <1>6, <2>1, <2>2, Zenon DEF IsPrefix
<1>8. CASE m < n
  <2>1. PICK k \in 1..Len(v) : LessAt(u, v, k)
    BY <1>3, <1>8
  <2>2. /\ k \in 1..Len(u) /\ k \in 1..Len(v) /\ u[k] < v[k]
        /\ SubSeq(u, 1, k - 1) = SubSeq(v, 1, k - 1)
    BY <1>1, <1>5, <2>1 DEF LessAt
  <2>3. m <= n
    BY <1>8
  <2> QED
    BY <1>2, <2>2, <2>3, Zenon
<1>9. CASE m = n
  <2>1. m <= n
    BY <1>9
  <2> QED
    BY <1>2, <1>4, <1>7, <1>9, <2>1, Zenon
<1>10. CASE n < m
  <2>1. PICK k \in 1..Len(u) : LessAt(v, u, k)
    BY <1>3, <1>10
  <2>2. v[k] < u[k] /\ v[k] \in Nat /\ u[k] \in Nat /\ \A j \in 1..k - 1 : v[j] = u[j]
    BY <1>1, <2>1, ElementOfSeq DEF LessAt
  <2>3. ~IsPrefix(u, v)
    BY <1>7, <2>2
  <2>4. ASSUME NEW l \in 1..Len(u), u[l] < v[l], \A j \in 1..l - 1 : u[j] = v[j]
        PROVE  FALSE
    <3>1. u[l] \in Nat /\ v[l] \in Nat
      BY <1>1, ElementOfSeq
    <3>2. l < k \/ l = k \/ k < l
      BY <1>1
    <3>3. CASE l < k
      BY <1>1, <2>2, <2>4, <3>1, <3>3
    <3>4. CASE l = k
      BY <2>2, <2>4, <3>4
    <3>5. CASE k < l
      BY <1>1, <2>2, <2>4, <3>5
    <3> QED
      BY <3>2, <3>3, <3>4, <3>5
  <2> QED
    <3>1. ~(m <= n)
      BY <1>10
    <3>2. \A l \in 1..Len(u) \cap 1..Len(v) :
            ~(u[l] < v[l] /\ SubSeq(u, 1, l - 1) = SubSeq(v, 1, l - 1))
      BY <1>5, <2>4
    <3> QED
      BY <1>2, <2>3, <3>1, <3>2, Zenon
<1> QED
  BY <1>8, <1>9, <1>10

-----------------------------------------------------------------------------
(* The full graph. *)
Labels == {blocks[k].label : k \in 1..Len(blocks)}
Cells == (1..Len(pointers)) \X (1..Len(blocks))

(* The capabilities an edge stands for, with the blocks they point into,   *)
(* and those of them that have been passed.                                *)
OfEdge(l, m, r) ==
    {w \in Cells : /\ pointers[w[1]].label = l /\ pointers[w[1]].perms = r
                   /\ Like(blocks[w[2]].label, m)
                   /\ PointsInto(pointers[w[1]], blocks[w[2]])}
Behind(w) == w[1] < p \/ (w[1] = p /\ w[2] < b)
Counted(l, m, r) ==
    {w \in OfEdge(l, m, r) : m \notin todo /\ (m = node => Behind(w))}

EdgeIs(l, m, r) ==
    LET n == Cardinality(Counted(l, m, r))
    IN  IF n > 0 /\ Apart(l, m)
        THEN <<l, m, r>> \in DOMAIN edges /\ edges[<<l, m, r>>] = Thin + n - 1
        ELSE <<l, m, r>> \notin DOMAIN edges

TypesOfGraph ==
    /\ blocks \in Seq([label : Label, range : Ranges])
    /\ pointers \in Seq([label : Label, addr : Address, perms : Perm])
    /\ p \in Nat \ {0} /\ b \in Nat \ {0}
    /\ todo \in SUBSET Labels /\ node \in (Labels \cup {"none"}) \ todo
    /\ node = "none" => todo = Labels
    /\ drawing = "drawn" => todo = {} /\ (node = "none" \/ p > Len(pointers))

(* A capability whose penwidth is not the first one has its edge.          *)
WidthInv ==
    Drawing => \/ penwidth = Thin
               \/ <<pointers[p].label, node, pointers[p].perms>> \in DOMAIN edges

EdgesInv == \A l \in Label, m \in Labels, r \in Perm : EdgeIs(l, m, r)

GraphInv == TypesOfGraph /\ WidthInv /\ EdgesInv

LEMMA GraphLengths ==
    ASSUME TypesOfGraph
    PROVE  Len(blocks) \in Nat /\ Len(pointers) \in Nat
  BY LenProperties DEF TypesOfGraph

LEMMA NodesAreLabels ==
    ASSUME TypesOfGraph
    PROVE  Labels \subseteq Label /\ "none" \notin Labels
<1>1. \A k \in 1..Len(blocks) : blocks[k] \in [label : Label, range : Ranges]
  BY ElementOfSeq DEF TypesOfGraph
<1> QED
  BY <1>1, FullGraphAssumption DEF Labels

LEMMA CountedIsNumber ==
    ASSUME TypesOfGraph, NEW l, NEW m, NEW r
    PROVE  IsFiniteSet(Counted(l, m, r)) /\ Cardinality(Counted(l, m, r)) \in Nat
<1>1. IsFiniteSet(1..Len(pointers)) /\ IsFiniteSet(1..Len(blocks))
  BY GraphLengths, FS_Interval
<1>2. IsFiniteSet(Cells)
  BY <1>1, FS_Product DEF Cells
<1>3. Counted(l, m, r) \in SUBSET Cells
  BY DEF Counted, OfEdge
<1>4. IsFiniteSet(Counted(l, m, r))
  BY <1>2, <1>3, FS_Subset
<1> QED
  BY <1>4, FS_CardinalityType

LEMMA CellNumbers ==
    ASSUME TypesOfGraph, NEW w \in Cells
    PROVE  /\ w = <<w[1], w[2]>> /\ w[1] \in 1..Len(pointers) /\ w[2] \in 1..Len(blocks)
           /\ w[1] \in Nat /\ w[2] \in Nat
  BY GraphLengths DEF Cells

LEMMA GraphInvInit == GraphInit => GraphInv
<1> SUFFICES ASSUME GraphInit PROVE GraphInv
  OBVIOUS
<1>1. /\ blocks \in Seq([label : Label, range : Ranges])
      /\ pointers \in Seq([label : Label, addr : Address, perms : Perm])
  BY SeqOfIsSeq, FullGraphAssumption DEF GraphInit
<1>2. "none" \notin Labels
  <2>1. \A k \in 1..Len(blocks) : blocks[k] \in [label : Label, range : Ranges]
    BY <1>1, ElementOfSeq
  <2> QED
    BY <2>1, FullGraphAssumption DEF Labels
<1>3. todo = Labels /\ node = "none" /\ drawing = "yes" /\ edges = <<>> /\ penwidth = Thin
      /\ p = 1 /\ b = 1
  BY DEF GraphInit, Labels
<1>4. TypesOfGraph
  BY <1>1, <1>2, <1>3 DEF TypesOfGraph
<1>5. WidthInv
  BY <1>3 DEF WidthInv
<1>6. ASSUME NEW l \in Label, NEW m \in Labels, NEW r \in Perm
      PROVE  EdgeIs(l, m, r)
  <2>1. Counted(l, m, r) = {}
    BY <1>3 DEF Counted
  <2>2. Cardinality(Counted(l, m, r)) = 0
    BY <2>1, FS_EmptySet
  <2>3. <<l, m, r>> \notin DOMAIN edges
    BY <1>3
  <2> QED
    BY <2>2, <2>3 DEF EdgeIs
<1> QED
  BY <1>4, <1>5, <1>6 DEF GraphInv, EdgesInv

(* Steps between the capabilities and between the nodes count nothing.     *)
LEMMA NothingCounted ==
    ASSUME EdgesInv, UNCHANGED <<blocks, edges>>,
           \A l \in Label, m \in Labels, r \in Perm : Counted(l, m, r)' = Counted(l, m, r)
    PROVE  EdgesInv'
<1>1. Labels' = Labels
  BY DEF Labels
<1>2. ASSUME NEW l \in Label, NEW m \in Labels, NEW r \in Perm
      PROVE  EdgeIs(l, m, r)'
  <2>1. EdgeIs(l, m, r)
    BY DEF EdgesInv
  <2>2. Counted(l, m, r)' = Counted(l, m, r)
    OBVIOUS
  <2> QED
    BY <2>1, <2>2 DEF EdgeIs
<1> QED
  BY <1>1, <1>2 DEF EdgesInv

LEMMA NextNodeKeeps ==
    ASSUME GraphInv, NextNode
    PROVE  GraphInv'
<1>0. /\ TypesOfGraph /\ EdgesInv /\ drawing = "yes" /\ (node = "none" \/ p > Len(pointers))
      /\ UNCHANGED <<blocks, pointers, edges>>
  BY DEF GraphInv, NextNode
<1>1. Labels' = Labels /\ Cells' = Cells /\ \A l, m, r : OfEdge(l, m, r)' = OfEdge(l, m, r)
  BY <1>0 DEF Labels, Cells, OfEdge
<1>2. CASE todo = {}
  <2>1. drawing' = "drawn" /\ UNCHANGED <<todo, node, p, b, penwidth>>
    BY <1>2 DEF NextNode
  <2>2. TypesOfGraph'
    BY <1>0, <1>1, <1>2, <2>1 DEF TypesOfGraph
  <2>3. WidthInv'
    BY <2>1 DEF WidthInv, Drawing
  <2>4. \A l, m, r : Counted(l, m, r)' = Counted(l, m, r)
    BY <1>1, <2>1 DEF Counted, Behind
  <2> QED
    BY <1>0, <2>2, <2>3, <2>4, NothingCounted DEF GraphInv
<1>3. CASE todo # {}
  <2>1. PICK q \in todo : /\ todo' = todo \ {q} /\ node' = q /\ p' = 1 /\ b' = 1
                          /\ penwidth' = Thin /\ UNCHANGED drawing
    BY <1>3 DEF NextNode
  <2>2. q \in Labels /\ q # "none"
    BY <1>0, <2>1, NodesAreLabels DEF TypesOfGraph
  <2>3. TypesOfGraph'
    BY <1>0, <1>1, <2>1, <2>2 DEF TypesOfGraph
  <2>4. WidthInv'
    BY <2>1 DEF WidthInv
  <2>5. ASSUME NEW l \in Label, NEW m \in Labels, NEW r \in Perm
        PROVE  Counted(l, m, r)' = Counted(l, m, r)
    <3>1. \A w \in OfEdge(l, m, r) :
            (m \notin todo' /\ (m = node' => Behind(w)')) <=> (m \notin todo /\ (m = node => Behind(w)))
      <4> SUFFICES ASSUME NEW w \in OfEdge(l, m, r)
                   PROVE  (m \notin todo' /\ (m = node' => Behind(w)'))
                          <=> (m \notin todo /\ (m = node => Behind(w)))
        OBVIOUS
      <4>1. /\ w[1] \in 1..Len(pointers) /\ w[2] \in 1..Len(blocks)
            /\ Len(pointers) \in Nat /\ Len(blocks) \in Nat
        BY <1>0, CellNumbers, GraphLengths DEF OfEdge
      <4>2. CASE m = q
        BY <2>1, <4>1, <4>2 DEF Behind
      <4>3. CASE m # q
        <5>1. m = node => Behind(w)
          <6>1. node = "none" => m # node
            BY <1>0, NodesAreLabels
          <6>2. p > Len(pointers) => w[1] < p
            BY <1>0, <4>1 DEF TypesOfGraph
          <6> QED
            BY <1>0, <6>1, <6>2 DEF Behind
        <5> QED
          BY <2>1, <4>3, <5>1
      <4> QED
        BY <4>2, <4>3
    <3> QED
      BY <1>1, <3>1 DEF Counted
  <2> QED
    BY <1>0, <2>3, <2>4, <2>5, NothingCounted DEF GraphInv
<1> QED
  BY <1>2, <1>3

LEMMA NextPointerKeeps ==
    ASSUME GraphInv, NextPointer
    PROVE  GraphInv'
<1>0. /\ TypesOfGraph /\ EdgesInv /\ b > Len(blocks) /\ p' = p + 1 /\ b' = 1 /\ penwidth' = Thin
      /\ Drawing /\ UNCHANGED <<blocks, pointers, todo, node, edges, drawing>>
  BY DEF GraphInv, NextPointer, WidthReset
<1>1. Labels' = Labels /\ Cells' = Cells /\ \A l, m, r : OfEdge(l, m, r)' = OfEdge(l, m, r)
  BY <1>0 DEF Labels, Cells, OfEdge
<1>2. TypesOfGraph'
  BY <1>0, <1>1 DEF TypesOfGraph, Drawing
<1>3. WidthInv'
  BY <1>0 DEF WidthInv
<1>4. \A w \in Cells : Behind(w)' <=> Behind(w)
  <2>1. p \in Nat /\ b \in Nat /\ Len(blocks) \in Nat
    BY <1>0, GraphLengths DEF TypesOfGraph
  <2>2. \A w \in Cells : w[1] \in Nat /\ w[2] \in 1..Len(blocks)
    BY <1>0, CellNumbers
  <2> QED
    BY <1>0, <2>1, <2>2 DEF Behind
<1>5. \A l, m, r : OfEdge(l, m, r) \subseteq Cells
  BY DEF OfEdge
<1>6. \A l, m, r : Counted(l, m, r)' = Counted(l, m, r)
  BY <1>0, <1>1, <1>4, <1>5 DEF Counted
<1> QED
  BY <1>0, <1>2, <1>3, <1>6, NothingCounted DEF GraphInv

(* A turn of the innermost loop: one more cell has been passed.            *)
LEMMA CellPassed ==
    ASSUME TypesOfGraph, Drawing, b <= Len(blocks), b' = b + 1,
           UNCHANGED <<blocks, pointers, todo, node, p>>,
           NEW l, NEW m, NEW r
    PROVE  /\ m = node /\ <<p, b>> \in OfEdge(l, m, r) =>
                 Counted(l, m, r)' = Counted(l, m, r) \cup {<<p, b>>}
           /\ ~(m = node /\ <<p, b>> \in OfEdge(l, m, r)) =>
                 Counted(l, m, r)' = Counted(l, m, r)
           /\ <<p, b>> \notin Counted(l, node, r)
<1>1. p \in Nat /\ b \in Nat /\ node \notin todo
  BY DEF TypesOfGraph
<1>2. OfEdge(l, m, r)' = OfEdge(l, m, r)
  BY DEF OfEdge, Cells
<1>3. \A w \in Cells : Behind(w)' <=> Behind(w) \/ w = <<p, b>>
  <2> SUFFICES ASSUME NEW w \in Cells PROVE Behind(w)' <=> Behind(w) \/ w = <<p, b>>
    OBVIOUS
  <2>1. w = <<w[1], w[2]>> /\ w[1] \in Nat /\ w[2] \in Nat
    BY CellNumbers
  <2>2. w = <<p, b>> <=> w[1] = p /\ w[2] = b
    BY <2>1
  <2> QED
    BY <1>1, <2>1, <2>2 DEF Behind
<1>4. OfEdge(l, m, r) \subseteq Cells
  BY DEF OfEdge
<1>5. ~Behind(<<p, b>>)
  BY <1>1 DEF Behind
<1>6. <<p, b>> \notin Counted(l, node, r)
  BY <1>5 DEF Counted
<1>7. CASE m = node
  <2>1. Counted(l, m, r) = {w \in OfEdge(l, m, r) : Behind(w)}
    BY <1>1, <1>7 DEF Counted
  <2>2. Counted(l, m, r)' = {w \in OfEdge(l, m, r) : Behind(w)'}
    BY <1>1, <1>2, <1>7 DEF Counted
  <2> QED
    BY <1>3, <1>4, <1>6, <1>7, <2>1, <2>2
<1>8. CASE m # node
  BY <1>2, <1>6, <1>8 DEF Counted
<1> QED
  BY <1>7, <1>8

LEMMA ThisCell ==
    ASSUME TypesOfGraph, Drawing, b <= Len(blocks), NEW l, NEW r
    PROVE  <<p, b>> \in OfEdge(l, node, r) <=>
             /\ l = pointers[p].label /\ r = pointers[p].perms
             /\ Like(blocks[b].label, node) /\ PointsInto(pointers[p], blocks[b])
<1>1. <<p, b>> \in Cells
  BY GraphLengths DEF TypesOfGraph, Drawing, Cells
<1> QED
  BY <1>1 DEF OfEdge

LEMMA BlockMissedKeeps ==
    ASSUME GraphInv, BlockMissed
    PROVE  GraphInv'
<1>0. /\ TypesOfGraph /\ WidthInv /\ EdgesInv /\ Drawing /\ b <= Len(blocks) /\ b' = b + 1
      /\ ~Hit /\ UNCHANGED <<blocks, pointers, todo, node, p, penwidth, edges, drawing>>
  BY DEF GraphInv, BlockMissed
<1>1. Labels' = Labels
  BY <1>0 DEF Labels
<1>2. TypesOfGraph'
  BY <1>0, <1>1 DEF TypesOfGraph
<1>3. WidthInv'
  BY <1>0 DEF WidthInv, Drawing
<1>4. ASSUME NEW l \in Label, NEW m \in Labels, NEW r \in Perm
      PROVE  EdgeIs(l, m, r)'
  <2>1. EdgeIs(l, m, r)
    BY <1>0 DEF EdgesInv
  <2>2. CASE m = node /\ <<p, b>> \in OfEdge(l, m, r)
    <3>1. ~Apart(l, m)
      BY <1>0, <2>2, ThisCell DEF Hit
    <3> QED
      BY <1>0, <2>1, <3>1 DEF EdgeIs
  <2>3. CASE ~(m = node /\ <<p, b>> \in OfEdge(l, m, r))
    <3>1. Counted(l, m, r)' = Counted(l, m, r)
      BY <1>0, <2>3, CellPassed
    <3> QED
      BY <1>0, <2>1, <3>1 DEF EdgeIs
  <2> QED
    BY <2>2, <2>3
<1>5. EdgesInv'
  BY <1>1, <1>4 DEF EdgesInv
<1> QED
  BY <1>2, <1>3, <1>5 DEF GraphInv

LEMMA BlockHitKeeps ==
    ASSUME GraphInv, BlockHit
    PROVE  GraphInv'
<1> DEFINE edge == <<pointers[p].label, node, pointers[p].perms>>
<1>0. /\ TypesOfGraph /\ WidthInv /\ EdgesInv /\ Drawing /\ b <= Len(blocks) /\ Hit
      /\ UNCHANGED <<blocks, pointers, todo, node, p>>
  BY DEF GraphInv, BlockHit
<1>1. Labels' = Labels
  BY <1>0 DEF Labels
<1>2. CASE drawing' = "raised" /\ UNCHANGED <<b, penwidth, edges>>
  <2>1. TypesOfGraph'
    BY <1>0, <1>1, <1>2 DEF TypesOfGraph
  <2>2. WidthInv'
    BY <1>2 DEF WidthInv, Drawing
  <2>3. \A l, m, r : Counted(l, m, r)' = Counted(l, m, r)
    BY <1>0, <1>2 DEF Counted, OfEdge, Cells, Behind
  <2> QED
    BY <1>0, <1>2, <2>1, <2>2, <2>3, NothingCounted DEF GraphInv
<1>3. CASE /\ penwidth' = IF edge \in DOMAIN edges THEN edges[edge] + 1 ELSE penwidth
           /\ edges' = [e \in DOMAIN edges \cup {edge} |->
                           IF e = edge THEN penwidth' ELSE edges[e]]
           /\ b' = b + 1 /\ UNCHANGED drawing
  <2>1. TypesOfGraph'
    BY <1>0, <1>1, <1>3 DEF TypesOfGraph
  <2>2. WidthInv'
    BY <1>0, <1>3 DEF WidthInv
  <2>3. /\ \A e : e \in DOMAIN edges' <=> e \in DOMAIN edges \/ e = edge
        /\ edges'[edge] = penwidth'
        /\ \A e \in DOMAIN edges : e # edge => edges'[e] = edges[e]
    BY <1>3
  <2>4. edge \in DOMAIN edges \/ penwidth = Thin
    BY <1>0 DEF WidthInv
  <2>5. ASSUME NEW l \in Label, NEW m \in Labels, NEW r \in Perm
        PROVE  EdgeIs(l, m, r)'
    <3>1. EdgeIs(l, m, r)
      BY <1>0 DEF EdgesInv
    <3>2. CASE m = node /\ <<p, b>> \in OfEdge(l, m, r)
      <4>1. edge = <<l, m, r>> /\ Apart(l, m)
        BY <1>0, <3>2, ThisCell DEF Hit
      <4> DEFINE n == Cardinality(Counted(l, m, r))
      <4>2. Cardinality(Counted(l, m, r))' = n + 1 /\ n \in Nat
        <5>1. /\ Counted(l, m, r)' = Counted(l, m, r) \cup {<<p, b>>}
              /\ <<p, b>> \notin Counted(l, m, r)
          BY <1>0, <1>3, <3>2, CellPassed
        <5>2. IsFiniteSet(Counted(l, m, r)) /\ n \in Nat
          BY <1>0, CountedIsNumber
        <5>3. Cardinality(Counted(l, m, r) \cup {<<p, b>>}) = n + 1
          BY <5>1, <5>2, FS_AddElement, Zenon
        <5> QED
          BY <5>1, <5>2, <5>3
      <4> HIDE DEF n, edge
      <4>3. edges'[<<l, m, r>>] = Thin + (n + 1) - 1 /\ <<l, m, r>> \in DOMAIN edges'
        <5>1. CASE n > 0
          <6>1. edge \in DOMAIN edges /\ edges[edge] = Thin + n - 1
            BY <3>1, <4>1, <5>1 DEF EdgeIs, n
          <6> QED
            BY <1>3, <2>3, <4>1, <4>2, <6>1 DEF Thin
        <5>2. CASE n = 0
          <6>1. edge \notin DOMAIN edges
            BY <3>1, <4>1, <4>2, <5>2 DEF EdgeIs, n
          <6> QED
            BY <1>3, <2>3, <2>4, <4>1, <4>2, <5>2, <6>1 DEF Thin
        <5> QED
          BY <4>2, <5>1, <5>2
      <4>4. n + 1 > 0
        BY <4>2
      <4>5. Apart(l, m)'
        BY <4>1 DEF Apart
      <4> QED
        BY <4>2, <4>3, <4>4, <4>5 DEF EdgeIs
    <3>3. CASE ~(m = node /\ <<p, b>> \in OfEdge(l, m, r))
      <4>1. Counted(l, m, r)' = Counted(l, m, r)
        BY <1>0, <1>3, <3>3, CellPassed
      <4>2. edge # <<l, m, r>>
        BY <1>0, <3>3, ThisCell DEF Hit
      <4> HIDE DEF edge
      <4> QED
        BY <2>3, <3>1, <4>1, <4>2 DEF EdgeIs, Apart
    <3> QED
      BY <3>2, <3>3
  <2>6. EdgesInv'
    BY <1>1, <2>5 DEF EdgesInv
  <2> QED
    BY <2>1, <2>2, <2>6 DEF GraphInv
<1> QED
  BY <1>2, <1>3, Zenon DEF BlockHit

LEMMA GraphInvNext == GraphInv /\ [GraphStep]_<<viewVars, graphVars>> => GraphInv'
<1> SUFFICES ASSUME GraphInv, [GraphStep]_<<viewVars, graphVars>> PROVE GraphInv'
  OBVIOUS
<1>1. CASE UNCHANGED graphVars
  <2>1. UNCHANGED <<blocks, pointers, todo, node, p, b, penwidth, edges, drawing>>
    BY <1>1 DEF graphVars
  <2>2. TypesOfGraph' /\ WidthInv'
    BY <2>1 DEF GraphInv, TypesOfGraph, WidthInv, Labels, Drawing
  <2>3. \A l, m, r : Counted(l, m, r)' = Counted(l, m, r)
    BY <2>1 DEF Counted, OfEdge, Cells, Behind
  <2> QED
    BY <2>1, <2>2, <2>3, NothingCounted DEF GraphInv
<1> QED
  BY <1>1, NextNodeKeeps, NextPointerKeeps, BlockMissedKeeps, BlockHitKeeps DEF GraphStep

(* When the graph is drawn, everything has been counted. *)
LEMMA DrawnIsCounted ==
    ASSUME TypesOfGraph, drawing = "drawn", NEW l, NEW m \in Labels, NEW r
    PROVE  Counted(l, m, r) = OfEdge(l, m, r)
<1>1. todo = {} /\ (node = "none" \/ p > Len(pointers))
  BY DEF TypesOfGraph
<1>2. m # "none"
  BY NodesAreLabels
<1>3. \A w \in Cells : w[1] \in 1..Len(pointers) /\ Len(pointers) \in Nat
  BY CellNumbers, GraphLengths
<1>4. p \in Nat
  BY DEF TypesOfGraph
<1>5. m \notin todo /\ \A w \in Cells : m = node => Behind(w)
  BY <1>1, <1>2, <1>3, <1>4 DEF Behind
<1> QED
  BY <1>5 DEF Counted, OfEdge

(* The comparison of strings finds what is surely inside and nothing that  *)
(* surely is not: strings of one length compare like the addresses.        *)
LEMMA StringsMayTell ==
    ASSUME NEW a \in Nat, NEW range, range.start \in Nat, range.end \in Nat
    PROVE  LET found == AtMost(range.start, a) /\ AtMost(a, range.end)
           IN  (SurelyInto(a, range) => found) /\ (found => MaybeInto(a, range))
<1>1. Alike(range.start, a) => (AtMost(range.start, a) <=> range.start <= a)
  BY StringsInOrder DEF Alike
<1>2. Alike(a, range.end) => (AtMost(a, range.end) <=> a <= range.end)
  BY StringsInOrder DEF Alike
<1> QED
  BY <1>1, <1>2, Zenon DEF SurelyInto, MaybeInto

(* So the pairs that were counted lie between the sure and the possible.   *)
LEMMA CountedIsBetween ==
    ASSUME TypesOfGraph, NEW l, NEW m, NEW r
    PROVE  /\ Sure(l, m, r) \subseteq OfEdge(l, m, r)
           /\ OfEdge(l, m, r) \subseteq Possible(l, m, r)
           /\ Cardinality(Sure(l, m, r)) <= Cardinality(OfEdge(l, m, r))
           /\ Cardinality(OfEdge(l, m, r)) <= Cardinality(Possible(l, m, r))
           /\ Cardinality(OfEdge(l, m, r)) \in Nat
           /\ Cardinality(Sure(l, m, r)) \in Nat /\ Cardinality(Possible(l, m, r)) \in Nat
<1>1. ASSUME NEW w \in Cells
      PROVE  /\ SurelyInto(pointers[w[1]].addr, blocks[w[2]].range)
                => PointsInto(pointers[w[1]], blocks[w[2]])
             /\ PointsInto(pointers[w[1]], blocks[w[2]])
                => MaybeInto(pointers[w[1]].addr, blocks[w[2]].range)
  <2>1. w[1] \in 1..Len(pointers) /\ w[2] \in 1..Len(blocks)
    BY CellNumbers
  <2>2. /\ pointers[w[1]] \in [label : Label, addr : Address, perms : Perm]
        /\ blocks[w[2]] \in [label : Label, range : Ranges]
    BY <2>1, ElementOfSeq DEF TypesOfGraph
  <2>3. pointers[w[1]].addr \in Address /\ blocks[w[2]].range \in Ranges
    BY <2>2
  <2>4. /\ pointers[w[1]].addr \in Nat
        /\ blocks[w[2]].range.start \in Nat /\ blocks[w[2]].range.end \in Nat
    BY <2>3, CapsViewAssumption
  <2> QED
    BY <2>4, StringsMayTell, Zenon DEF PointsInto
<1>2. /\ Sure(l, m, r) \subseteq OfEdge(l, m, r)
      /\ OfEdge(l, m, r) \subseteq Possible(l, m, r)
  BY <1>1, Zenon DEF Sure, Possible, OfPair, OfEdge, Cells
<1>3. IsFiniteSet(Possible(l, m, r))
  <2>1. IsFiniteSet(1..Len(pointers)) /\ IsFiniteSet(1..Len(blocks))
    BY GraphLengths, FS_Interval
  <2>2. IsFiniteSet(Cells)
    BY <2>1, FS_Product DEF Cells
  <2>3. Possible(l, m, r) \subseteq Cells
    BY DEF Possible, OfPair, Cells
  <2> QED
    BY <2>2, <2>3, FS_Subset
<1>4. IsFiniteSet(OfEdge(l, m, r)) /\ IsFiniteSet(Sure(l, m, r))
  BY <1>2, <1>3, FS_Subset
<1> QED
  BY <1>2, <1>3, <1>4, FS_Subset, FS_CardinalityType

(* The edges of the drawn graph are those there are capabilities for, and  *)
(* the width of each counts them, whatever the order of the rows and the   *)
(* labels LIKE finds; only addresses with different numbers of digits may  *)
(* be counted where they are not, or left out (full_graph.py:52-108).      *)
THEOREM EdgesAreCounts == GraphSpec => []EdgesCountPointers
<1>1. ASSUME GraphInv
      PROVE  EdgesCountPointers
  <2> SUFFICES ASSUME drawing = "drawn", NEW l \in Label, NEW m \in Labels, NEW r \in Perm
               PROVE  LET drawn == <<l, m, r>> \in DOMAIN edges
                          n == IF drawn THEN edges[<<l, m, r>>] - Thin + 1 ELSE 0
                      IN  /\ drawn => n > 0 /\ Apart(l, m)
                          /\ Apart(l, m) => n >= Cardinality(Sure(l, m, r))
                          /\ n <= Cardinality(Possible(l, m, r))
    BY Zenon DEF EdgesCountPointers, Labels
  <2> DEFINE c == Cardinality(OfEdge(l, m, r))
             lo == Cardinality(Sure(l, m, r))
             hi == Cardinality(Possible(l, m, r))
  <2>1. IF c > 0 /\ Apart(l, m)
        THEN <<l, m, r>> \in DOMAIN edges /\ edges[<<l, m, r>>] = Thin + c - 1
        ELSE <<l, m, r>> \notin DOMAIN edges
    BY <1>1, DrawnIsCounted DEF GraphInv, EdgesInv, EdgeIs
  <2>2. c \in Nat /\ lo \in Nat /\ hi \in Nat /\ lo <= c /\ c <= hi
    BY <1>1, CountedIsBetween DEF GraphInv
  <2> HIDE DEF c, lo, hi
  <2>3. Thin \in Nat
    BY DEF Thin
  <2>4. CASE c > 0 /\ Apart(l, m)
    <3>1. <<l, m, r>> \in DOMAIN edges /\ edges[<<l, m, r>>] - Thin + 1 = c
      BY <2>1, <2>2, <2>3, <2>4
    <3> QED
      BY <2>2, <2>4, <3>1 DEF lo, hi
  <2>5. CASE ~(c > 0 /\ Apart(l, m))
    <3>1. <<l, m, r>> \notin DOMAIN edges
      BY <2>1, <2>5
    <3>2. Apart(l, m) => lo = 0
      BY <2>2, <2>5
    <3> QED
      BY <2>2, <3>1, <3>2 DEF lo, hi
  <2> QED
    BY <2>4, <2>5
<1>2. GraphSpec => []GraphInv
  BY GraphInvInit, GraphInvNext, PTL DEF GraphSpec
<1> QED
  BY <1>1, <1>2, PTL
==============================================================================
