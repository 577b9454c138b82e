--------------------------- MODULE TagScan_proofs ---------------------------
(***************************************************************************)
(* Proofs about TagScan, for a tag buffer of any length and a page at any  *)
(* address.                                                                *)
(***************************************************************************)
EXTENDS TagScan, TLAPS

(* The address the loop computes from char and bit is the address of the   *)
(* granule they stand for (cap_capture.c:144).                             *)
LEMMA TagAddressOfGranule ==
    ASSUME NEW i \in Nat, NEW j \in Bit
    PROVE  TagAddress(Start, i, j) = GranuleAddress(8 * i + j)
  BY TagScanAssumption
     DEF TagAddress, GranuleAddress, CharSpan, GranuleSize, Bit

(* FoundTags of one more char: what was found before, and the char's own   *)
(* granules if it is examined at all.                                      *)
LEMMA FoundTagsNext ==
    ASSUME NEW T \in SUBSET Granule, NEW n \in Nat
    PROVE  FoundTags(T, 0..(n + 1) - 1) =
             FoundTags(T, 0..n - 1) \cup
             {8 * n + j : j \in IF Examined(T, n) THEN TagChar(T, n) ELSE {}}
<1>1. ASSUME NEW g \in FoundTags(T, 0..(n + 1) - 1)
      PROVE  g \in FoundTags(T, 0..n - 1) \cup
             {8 * n + j : j \in IF Examined(T, n) THEN TagChar(T, n) ELSE {}}
  <2>0. PICK i \in 0..(n + 1) - 1 :
              \E j \in TagChar(T, i) : Examined(T, i) /\ g = 8 * i + j /\ g \in T
    BY <1>1 DEF FoundTags
  <2>1. PICK j \in TagChar(T, i) : Examined(T, i) /\ g = 8 * i + j /\ g \in T
    BY <2>0
  <2>2. CASE i = n
    BY <2>1, <2>2
  <2>3. CASE i # n
    <3>1. i \in 0..n - 1
      BY <2>3
    <3> QED
      BY <2>1, <3>1 DEF FoundTags
  <2> QED
    BY <2>2, <2>3
<1>2. FoundTags(T, 0..n - 1) \subseteq FoundTags(T, 0..(n + 1) - 1)
  <2>1. 0..n - 1 \subseteq 0..(n + 1) - 1
    OBVIOUS
  <2> QED
    BY <2>1 DEF FoundTags
<1>3. ASSUME Examined(T, n), NEW j \in TagChar(T, n)
      PROVE  8 * n + j \in FoundTags(T, 0..(n + 1) - 1)
  <2>1. n \in 0..(n + 1) - 1 /\ 8 * n + j \in T
    BY <1>3 DEF TagChar
  <2> QED
    BY <1>3, <2>1 DEF FoundTags
<1> QED
  BY <1>1, <1>2, <1>3

-----------------------------------------------------------------------------
(* The invariant: the index stays in the buffer and the collected          *)
(* addresses are those of FoundTags.                                       *)
TagInv ==
    /\ k \in 0..TagChars
    /\ tagged \in SUBSET Granule
    /\ CollectedIsFound
    /\ stored \subseteq addrs

LEMMA TagInvInit == TagInit => TagInv
<1> SUFFICES ASSUME TagInit PROVE TagInv
  OBVIOUS
<1>1. FoundTags(tagged, 0..k - 1) = {}
  BY DEF TagInit, FoundTags
<1> QED
  BY <1>1, TagScanAssumption DEF TagInit, TagInv, CollectedIsFound

LEMMA TagInvNext == TagInv /\ [TagNext]_tagVars => TagInv'
<1> SUFFICES ASSUME TagInv, [TagNext]_tagVars PROVE TagInv'
  OBVIOUS
<1> USE TagScanAssumption
<1>1. CASE ReadTags
  BY <1>1 DEF TagInv, ReadTags, CollectedIsFound
<1>2. CASE ScanChar
  <2> DEFINE bits == IF Examined(tagged, k) THEN TagChar(tagged, k) ELSE {}
  <2>1. k \in Nat /\ k' = k + 1 /\ tagged' = tagged /\ stored' = stored
        /\ addrs' = addrs \cup {TagAddress(Start, k, j) : j \in bits}
    BY <1>2 DEF TagInv, ScanChar
  <2>2. bits \subseteq Bit
    BY DEF TagChar
  <2>3. {TagAddress(Start, k, j) : j \in bits} =
        {GranuleAddress(g) : g \in {8 * k + j : j \in bits}}
    <3>1. \A j \in bits : TagAddress(Start, k, j) = GranuleAddress(8 * k + j)
      BY <2>1, <2>2, TagAddressOfGranule
    <3> QED
      BY <3>1
  <2>4. FoundTags(tagged, 0..(k + 1) - 1) =
        FoundTags(tagged, 0..k - 1) \cup {8 * k + j : j \in bits}
    BY <2>1, FoundTagsNext DEF TagInv
  <2>5. {GranuleAddress(g) : g \in FoundTags(tagged, 0..(k + 1) - 1)} =
        {GranuleAddress(g) : g \in FoundTags(tagged, 0..k - 1)} \cup
        {GranuleAddress(g) : g \in {8 * k + j : j \in bits}}
    BY <2>4
  <2>6. CollectedIsFound'
    BY <2>1, <2>3, <2>5 DEF CollectedIsFound, TagInv, GranuleAddress
  <2>7. k' \in 0..TagChars
    BY <1>2 DEF ScanChar, TagInv
  <2> QED
    BY <2>1, <2>6, <2>7 DEF TagInv
<1>3. CASE InsertCaps
  BY <1>3 DEF TagInv, InsertCaps, CollectedIsFound
<1>4. CASE UNCHANGED tagVars
  BY <1>4 DEF TagInv, tagVars, CollectedIsFound
<1> QED
  BY <1>1, <1>2, <1>3, <1>4 DEF TagNext

(* The loop of get_tags collects exactly what FoundTags says, for a buffer *)
(* of any length and any tags (cap_capture.c:129-172).                     *)
THEOREM TagScanCollects == TagSpec => []CollectedIsFound
<1>1. TagInv => CollectedIsFound
  BY DEF TagInv
<1> QED
  BY <1>1, TagInvInit, TagInvNext, PTL DEF TagSpec

(* Every row that get_tags stores is of a tagged granule of the page it    *)
(* was called for (cap_capture.c:144-152).                                 *)
THEOREM TagScanSound == TagSpec => []RowsAreTagged
<1>1. TagInv => RowsAreTagged
  <2> SUFFICES ASSUME TagInv, NEW a \in addrs \cup stored
               PROVE  \E g \in tagged : a = GranuleAddress(g)
                                        /\ a < Start + TagChars * CharSpan
    BY DEF RowsAreTagged
  <2>1. PICK g \in FoundTags(tagged, 0..k - 1) : a = GranuleAddress(g)
    BY DEF TagInv, CollectedIsFound
  <2>2. g \in tagged /\ g \in Granule
    BY DEF FoundTags, TagInv
  <2>3. GranuleAddress(g) < Start + TagChars * CharSpan
    BY <2>2, TagScanAssumption DEF GranuleAddress, Granule, CharSpan, GranuleSize
  <2> QED
    BY <2>1, <2>2, <2>3
<1> QED
  BY <1>1, TagInvInit, TagInvNext, PTL DEF TagSpec

(* A tag that the finished loop has missed lies in a char equal to '0'     *)
(* (cap_capture.c:135).                                                    *)
THEOREM TagScanMisses == TagSpec => []MissingAreZeroChars
<1>1. TagInv => MissingAreZeroChars
  <2> SUFFICES ASSUME TagInv, k = TagChars, NEW g \in tagged,
                      GranuleAddress(g) \notin addrs
               PROVE  \E c \in 0..TagChars - 1 :
                         TagChar(tagged, c) = CharZero
                         /\ \E j \in CharZero : g = 8 * c + j
    BY DEF MissingAreZeroChars
  <2>1. g \in Granule
    BY DEF TagInv
  <2>2. PICK c \in 0..TagChars - 1, j \in Bit : g = 8 * c + j
    <3>1. g \div 8 \in 0..TagChars - 1 /\ g % 8 \in Bit /\ g = 8 * (g \div 8) + (g % 8)
      BY <2>1, TagScanAssumption DEF Granule, Bit
    <3> QED
      BY <3>1
  <2>3. j \in TagChar(tagged, c)
    BY <2>2 DEF TagChar
  <2>4. g \notin FoundTags(tagged, 0..k - 1)
    BY DEF TagInv, CollectedIsFound
  <2>5. ~Examined(tagged, c)
    BY <2>2, <2>3, <2>4 DEF FoundTags
  <2>6. TagChar(tagged, c) = CharZero
    BY <2>5 DEF Examined
  <2> QED
    BY <2>2, <2>3, <2>6
<1> QED
  BY <1>1, TagInvInit, TagInvNext, PTL DEF TagSpec
=============================================================================
