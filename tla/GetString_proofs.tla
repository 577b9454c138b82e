-------------------------- MODULE GetString_proofs --------------------------
(***************************************************************************)
(* get_string for every page size, every limit, every string and every     *)
(* mapping.                                                                *)
(***************************************************************************)
EXTENDS GetString, TLAPS

(* A position where a page of the target ends. *)
PageEnd(p) == \E k \in Nat : p = lead + k * PageSize

(* Between a read and the next the buffer is full; the reads without max   *)
(* begin where a page begins, and the NUL is not in what has been read.    *)
BufferInv ==
    /\ StringTypeOK
    /\ spc = "start" => offset = 0 /\ totalsize = 0
    /\ spc = "read" => size > 0 /\ offset + size = totalsize
    /\ spc = "grow" => totalsize > 0 /\ offset = totalsize
    /\ max = 0 => totalsize <= MaxSize
    /\ spc \in {"ok", "cut"} => ended \in 0..totalsize - 1
    /\ nul >= offset \/ spc \in {"ok", "cut"}

PageInv ==
    /\ mapped = 0 \/ PageEnd(mapped)
    /\ max = 0 =>
          /\ spc = "start" => offset = 0
          /\ spc = "read" =>
                /\ \/ offset = 0 /\ size <= lead
                   \/ PageEnd(offset) /\ size <= PageSize
                /\ PageEnd(offset + size) \/ totalsize >= MaxSize
          /\ spc = "grow" => PageEnd(offset) \/ totalsize >= MaxSize

StringInv == BufferInv /\ PageInv

-----------------------------------------------------------------------------
LEMMA LeastIs ==
    ASSUME NEW a \in Int, NEW b \in Int
    PROVE  Least(a, b) \in {a, b} /\ Least(a, b) <= a /\ Least(a, b) <= b
BY DEF Least

(* Pages that begin before a page ends, end by there. *)
LEMMA PagesApart ==
    ASSUME NEW P \in Nat \ {0}, NEW k \in Nat, NEW m \in Nat, k < m
    PROVE  (k + 1) * P <= m * P
<1>1. PICK d \in Nat : m = (k + 1) + d
  <2>1. m - (k + 1) \in Nat /\ m = (k + 1) + (m - (k + 1))
    OBVIOUS
  <2> QED
    BY <2>1
<1>2. m * P = (k + 1) * P + d * P
  BY <1>1
<1>3. d * P \in Nat /\ (k + 1) * P \in Nat
  OBVIOUS
<1> QED
  BY <1>2, <1>3

LEMMA StringInvInit == StringInit => StringInv
<1> SUFFICES ASSUME StringInit PROVE StringInv
  OBVIOUS
<1> USE GetStringAssumption
<1>1. lead \in 1..PageSize
  BY DEF StringInit
<1>2. (mapped = 0 \/ PageEnd(mapped)) /\ mapped \in Nat
  <2>1. CASE mapped = 0
    BY <2>1
  <2>2. CASE mapped # 0
    <3>1. PICK k \in 0..MaxSize + 1 : mapped = lead + k * PageSize
      BY <2>2 DEF StringInit
    <3>2. k * PageSize \in Nat
      OBVIOUS
    <3> QED
      BY <1>1, <3>1, <3>2 DEF PageEnd
  <2> QED
    BY <2>1, <2>2
<1>3. nul \in Nat /\ max \in Nat
  BY DEF StringInit
<1> QED
  BY <1>1, <1>2, <1>3 DEF StringInit, StringInv, BufferInv, PageInv, StringTypeOK

LEMMA BufferStep == BufferInv /\ [StringNext]_stringVars => BufferInv'
<1> SUFFICES ASSUME BufferInv, [StringNext]_stringVars PROVE BufferInv'
  OBVIOUS
<1> USE GetStringAssumption
<1>1. CASE StartString
  <2>1. size' \in Nat /\ size' > 0 /\ (max = 0 => size' <= MaxSize)
    BY <1>1, LeastIs DEF StartString, FirstSize, BufferInv, StringTypeOK
  <2> QED
    BY <1>1, <2>1 DEF StartString, FirstSize, BufferInv, StringTypeOK, targetString
<1>2. CASE ReadChunk
  BY <1>2 DEF ReadChunk, NulFound, BufferInv, StringTypeOK, targetString
<1>3. CASE GrowBuffer
  <2>1. CASE spc' = "read"
    <3>1. /\ size' = Least(MaxSize - totalsize, PageSize)
          /\ totalsize < MaxSize /\ totalsize' = totalsize + size'
      BY <1>3, <2>1 DEF GrowBuffer, Room, NextSize, LastByte
    <3>2. size' \in Nat /\ size' > 0 /\ size' <= MaxSize - totalsize
      BY <3>1, LeastIs DEF BufferInv, StringTypeOK
    <3> QED
      BY <1>3, <2>1, <3>1, <3>2 DEF GrowBuffer, Room, NextSize, LastByte, BufferInv, StringTypeOK, targetString
  <2>2. CASE spc' # "read"
    BY <1>3, <2>2 DEF GrowBuffer, Room, NextSize, LastByte, BufferInv, StringTypeOK, targetString
  <2> QED
    BY <2>1, <2>2
<1>4. CASE UNCHANGED stringVars
  BY <1>4 DEF stringVars, targetString, BufferInv, StringTypeOK
<1> QED
  BY <1>1, <1>2, <1>3, <1>4 DEF StringNext

LEMMA PageStep == BufferInv /\ PageInv /\ [StringNext]_stringVars => PageInv'
<1> SUFFICES ASSUME BufferInv, PageInv, [StringNext]_stringVars PROVE PageInv'
  OBVIOUS
<1> USE GetStringAssumption
<1>0. (mapped' = 0 \/ PageEnd(mapped)') /\ UNCHANGED <<lead, max>>
  BY DEF PageInv, PageEnd, StringNext, StartString, FirstSize, ReadChunk, NulFound, GrowBuffer, Room, NextSize, LastByte,
         stringVars, targetString
<1>1. CASE StartString
  <2>1. spc = "start" /\ offset = 0 /\ offset' = 0 /\ spc' \in {"read", "null"}
    BY <1>1 DEF StartString, FirstSize, BufferInv
  <2>2. ASSUME max = 0, spc' = "read"
        PROVE  size' <= lead /\ (size' = lead \/ totalsize' >= MaxSize)
    BY <1>1, <2>2, LeastIs DEF StartString, FirstSize, BufferInv, StringTypeOK
  <2>3. 0 + lead = lead + 0 * PageSize
    BY DEF BufferInv, StringTypeOK
  <2>4. ASSUME max = 0, spc' = "read"
        PROVE  PageEnd(offset + size)' \/ totalsize' >= MaxSize
    <3>1. CASE size' = lead
      <4>1. offset' + size' = lead' + 0 * PageSize
        BY <1>0, <2>1, <2>3, <3>1
      <4>2. \E k \in Nat : offset' + size' = lead' + k * PageSize
        BY <4>1
      <4> QED
        BY <4>2 DEF PageEnd
    <3> QED
      BY <2>2, <2>4, <3>1
  <2> QED
    BY <1>0, <2>1, <2>2, <2>4 DEF PageInv
<1>2. CASE ReadChunk
  <2>1. CASE spc' # "grow"
    BY <1>0, <1>2, <2>1 DEF ReadChunk, NulFound, PageInv
  <2>2. CASE spc' = "grow"
    <3>1. spc = "read" /\ offset' = offset + size /\ UNCHANGED totalsize
      BY <1>2, <2>2 DEF ReadChunk, NulFound
    <3>2. max = 0 => PageEnd(offset + size) \/ totalsize >= MaxSize
      BY <3>1 DEF PageInv
    <3>3. max = 0 => PageEnd(offset)' \/ totalsize' >= MaxSize
      BY <1>0, <3>1, <3>2 DEF PageEnd
    <3> QED
      BY <1>0, <2>2, <3>3 DEF PageInv
  <2> QED
    BY <2>1, <2>2
<1>3. CASE GrowBuffer
  <2>1. CASE spc' # "read"
    BY <1>0, <1>3, <2>1 DEF GrowBuffer, Room, NextSize, LastByte, PageInv
  <2>2. CASE spc' = "read"
    <3>1. /\ spc = "grow" /\ totalsize < MaxSize /\ max = 0
          /\ size' = Least(MaxSize - totalsize, PageSize)
          /\ totalsize' = totalsize + size' /\ UNCHANGED offset
      BY <1>3, <2>2 DEF GrowBuffer, Room, NextSize, LastByte
    <3>2. totalsize \in Nat /\ offset \in Nat
      BY DEF BufferInv, StringTypeOK
    <3>3. /\ size' <= PageSize /\ size' \in Int
          /\ size' = PageSize \/ totalsize' >= MaxSize
      BY <3>1, <3>2, LeastIs
    <3>4. PICK k \in Nat : offset = lead + k * PageSize
      BY <3>1, <3>2 DEF PageInv, PageEnd
    <3>5. lead \in Nat /\ offset + PageSize = lead + (k + 1) * PageSize
      BY <3>4 DEF BufferInv, StringTypeOK
    <3>6. PageEnd(offset)'
      BY <1>0, <3>1, <3>4 DEF PageEnd
    <3>7. PageEnd(offset + size)' \/ totalsize' >= MaxSize
      <4>1. CASE size' = PageSize
        <5>1. offset' + size' = lead' + (k + 1) * PageSize
          BY <1>0, <3>1, <3>5, <4>1
        <5>2. \E n \in Nat : offset' + size' = lead' + n * PageSize
          <6> k + 1 \in Nat
            OBVIOUS
          <6> QED
            BY <5>1
        <5> QED
          BY <5>2 DEF PageEnd
      <4> QED
        BY <3>3, <4>1
    <3> QED
      BY <1>0, <2>2, <3>3, <3>6, <3>7 DEF PageInv
  <2> QED
    BY <2>1, <2>2
<1>4. CASE UNCHANGED stringVars
  BY <1>4 DEF stringVars, targetString, PageInv, PageEnd
<1> QED
  BY <1>1, <1>2, <1>3, <1>4 DEF StringNext

LEMMA StringInvariant == StringSpec => []StringInv
<1>1. StringInv /\ [StringNext]_stringVars => StringInv'
  BY BufferStep, PageStep DEF StringInv
<1> QED
  BY <1>1, StringInvInit, PTL DEF StringSpec

-----------------------------------------------------------------------------
(* No read goes behind the buffer, whose length has a limit. *)
THEOREM ReadsStayInBuffer == StringSpec => []ReadInBuffer
<1>1. StringInv => ReadInBuffer
  BY DEF StringInv, BufferInv, StringTypeOK, ReadInBuffer
<1> QED
  BY <1>1, StringInvariant, PTL

(* What get_string returns ends with a NUL within its buffer. *)
THEOREM AlwaysString == StringSpec => []ReturnsString
<1>1. StringInv => ReturnsString
  BY DEF StringInv, BufferInv, ReturnsString
<1> QED
  BY <1>1, StringInvariant, PTL

(* A read that fails was of a page the string itself reaches: a string at  *)
(* the end of the last mapped page is read.                                *)
THEOREM NullMeansUnmapped == StringSpec => []NullOnlyIfUnmapped
<1>1. StringInv => NullOnlyIfUnmapped
  <2> SUFFICES ASSUME StringInv, spc = "read", max = 0, offset + size > mapped
               PROVE  nul >= mapped
    BY DEF NullOnlyIfUnmapped
  <2>1. /\ lead \in Nat /\ lead > 0 /\ mapped \in Nat /\ nul \in Nat
        /\ offset \in Nat /\ size \in Nat /\ nul >= offset
    BY DEF StringInv, BufferInv, StringTypeOK
  <2>2. CASE mapped = 0
    BY <2>1, <2>2
  <2>3. CASE mapped # 0
    <3>1. PICK m \in Nat : mapped = lead + m * PageSize
      BY <2>3 DEF StringInv, PageInv, PageEnd
    <3>2. m * PageSize \in Nat
      BY GetStringAssumption
    <3>3. PageEnd(offset) /\ size <= PageSize
      <4>1. ~(offset = 0 /\ size <= lead)
        BY <2>1, <3>1, <3>2
      <4> QED
        BY <4>1 DEF StringInv, PageInv
    <3>4. PICK k \in Nat : offset = lead + k * PageSize
      BY <3>3 DEF PageEnd
    <3>5. k * PageSize \in Nat /\ (k + 1) * PageSize = k * PageSize + PageSize
      BY GetStringAssumption
    <3>6. ~(k < m)
      <4> SUFFICES ASSUME k < m PROVE FALSE
        OBVIOUS
      <4>1. (k + 1) * PageSize <= m * PageSize
        BY PagesApart, GetStringAssumption
      <4> QED
        BY <2>1, <3>1, <3>2, <3>3, <3>4, <3>5, <4>1, GetStringAssumption
    <3>7. m * PageSize <= k * PageSize
      <4>1. CASE m = k
        BY <3>2, <4>1
      <4>2. CASE m < k
        <5>1. (m + 1) * PageSize <= k * PageSize
          BY <4>2, PagesApart, GetStringAssumption
        <5>2. (m + 1) * PageSize = m * PageSize + PageSize
          BY GetStringAssumption
        <5> QED
          BY <3>2, <3>5, <5>1, <5>2, GetStringAssumption
      <4> QED
        BY <3>6, <4>1, <4>2
    <3> QED
      BY <2>1, <3>1, <3>2, <3>4, <3>5, <3>7
  <2> QED
    BY <2>2, <2>3
<1> QED
  BY <1>1, StringInvariant, PTL
=============================================================================
