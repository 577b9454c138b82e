--------------------------- MODULE ScanMem_proofs ---------------------------
(***************************************************************************)
(* Proofs about ScanMem, for every vm map, every program, any number of    *)
(* scans and every combination of failures: the types, when the target is  *)
(* held (it is released between the blocks), and that what is recorded was *)
(* in the memory of a held target (the refinement of TracedCapture).       *)
(***************************************************************************)
EXTENDS ScanMem, SequenceTheorems, FiniteSetTheorems, TLAPS

(* What the type invariant needs to know about the control: inside a block *)
(* there is a block; before the first block nothing has been parsed; the   *)
(* walk of the link map counts from 1.                                     *)
InBlock == {"b_attach", "b_wait", "b_tags", "b_caps"}
BeforeWalkEnds ==
    {"ps", "mk_vm", "mk_comparts", "rd_auxv", "rd_attach", "rd_wait", "rd_io",
     "lm_attach", "lm_wait", "lm_io", "lm_sub"}

ControlInv ==
    /\ pc \in InBlock => i <= Len(vmmap)
    /\ pc \in SessionPoints \cup {"ps", "mk_vm"} => i = 1 /\ seen = <<>>
    /\ pc \in BeforeWalkEnds => node > 0
    /\ pc = "lm_sub" => tgt = "gone" \/ (tgt = "stopped" /\ node <= Len(linkmap))
    /\ pc = "ps" => vmmap = <<>>

TypeInv == TypeOK /\ ControlInv

-----------------------------------------------------------------------------
(* Facts about the constants, in the form the proofs use them. *)
LEMMA RegionType ==
    /\ Len(Region) \in Nat
    /\ \A r \in Block : /\ Region[r].path \in File \cup {NoPath}
                        /\ Region[r].pages \in Nat
                        /\ Region[r].hascap \in BOOLEAN
<1> DEFINE B == [path : File \cup {NoPath}, pages : Nat, resv : Nat,
                 hascap : BOOLEAN, kind : {"Guard", "Stack", "Heap(others)"}]
<1>1. Region \in Seq(B)
  BY ScanAssumption
<1> HIDE DEF B
<1>2. Len(Region) \in Nat /\ \A r \in Block : Region[r] \in B
  BY <1>1, LenProperties, ElementOfSeq DEF Block
<1> QED
  BY <1>2 DEF B

(* The listing of the map is a sequence of blocks. *)
LEMMA ListingType ==
    ASSUME NEW R \in SUBSET Block, NEW s \in InAddressOrder(R)
    PROVE  s \in Seq(Block)
<1>1. Len(Region) \in Nat
  BY RegionType
<1>2. IsFiniteSet(Block)
  BY <1>1, FS_Interval DEF Block
<1>3. Cardinality(R) \in Nat
  BY <1>2, FS_Subset, FS_CardinalityType
<1> DEFINE n == Cardinality(R)
<1>4. s \in [1..n -> Block] /\ n \in Nat
  BY <1>3 DEF InAddressOrder
<1> HIDE DEF n
<1> QED
  BY <1>4

LEMMA RemoveAtType ==
    ASSUME NEW S, NEW s \in Seq(S), NEW k \in 1..Len(s)
    PROVE  RemoveAt(s, k) \in Seq(S)
<1>1. SubSeq(s, 1, k - 1) \in Seq(S)
  <2>1. \A j \in 1..k - 1 : s[j] \in S
    BY ElementOfSeq
  <2> QED
    BY <2>1, SubSeqProperties
<1>2. SubSeq(s, k + 1, Len(s)) \in Seq(S)
  <2>1. \A j \in k + 1..Len(s) : s[j] \in S
    BY ElementOfSeq
  <2> QED
    BY <2>1, SubSeqProperties
<1> QED
  BY <1>1, <1>2, ConcatProperties DEF RemoveAt

(* get_tags finds granules that the page has. *)
LEMMA FoundTagsSubset == \A T, I : FoundTags(T, I) \subseteq T
  BY DEF FoundTags

LEMMA SectionOutcomesType ==
    ASSUME NEW f \in File, NEW s \in SectionOutcomes(f)
    PROVE  s \in [file : File \cup {NoPath}, plt : 0..Len(Region),
                  got : 0..Len(Region)]
<1>1. Elf[f].plt \in 0..Len(Region) /\ Elf[f].got \in 0..Len(Region)
  BY ScanAssumption
<1>2. CASE ~Elf[f].elf
  BY <1>2 DEF SectionOutcomes
<1>3. CASE Elf[f].elf
  BY <1>1, <1>3 DEF SectionOutcomes
<1> QED
  BY <1>2, <1>3

(* A block of the map has the fields the assumption gives it. *)
LEMMA CurrentType ==
    ASSUME BlockTypes, i <= Len(vmmap)
    PROVE  /\ vmmap[i] \in Block
           /\ Current.path \in File \cup {NoPath}
           /\ Current.pages \in Nat
           /\ Current.hascap \in BOOLEAN
<1>1. vmmap[i] \in Block
  BY ElementOfSeq DEF BlockTypes
<1> QED
  BY <1>1, RegionType DEF Current

-----------------------------------------------------------------------------
LEMMA TypeInvInit == Init => TypeInv
<1> SUFFICES ASSUME Init PROVE TypeInv
  OBVIOUS
<1> USE LinkMapAssumption, ScanAssumption
<1>1. \A S : <<>> \in Seq(S) /\ Len(<<>>) = 0
  OBVIOUS
<1>2. 1 \in 1..MaxScans
  OBVIOUS
<1>3. rcomp \in [size : 0..NumComparts, gen : Nat]
  <2>1. rcomp \in [size : 0..NumComparts, gen : {0}]
    BY Zenon DEF Init
  <2> HIDE LinkMapAssumption, ScanAssumption
  <2> QED
    BY <2>1
<1>4. LinkTypes
  <2>1. /\ tgt = "running" /\ silent = {} /\ moves = 0 /\ tables = {}
        /\ linkmap = InitLinkmap /\ libs = <<>> /\ node = 1 /\ sub = 1
        /\ rdbg = [size |-> 0, gen |-> 0]
    BY Zenon DEF Init
  <2>2. rdbg \in [size : 0..NumComparts, gen : Nat] /\ linkmap \in Seq(Lib)
    BY <2>1
  <2> QED
    BY <1>1, <1>3, <2>1, <2>2 DEF LinkTypes, TargetState
<1>5. BlockTypes
  <2>1. /\ mapped = InitMapped /\ mem = InitMem /\ vmmap = <<>> /\ i = 1
        /\ pg = 1 /\ tags = {} /\ upd = 1 /\ seen = <<>> /\ ssect = <<>>
        /\ capacity = InitialSize /\ scan = 1 /\ lossy = {}
        /\ stopmem = [p \in Page |-> {}]
    BY Zenon DEF Init
  <2> QED
    BY <1>1, <1>2, <2>1 DEF BlockTypes
<1>6. ControlInv /\ pc \in ScanPoints
  <2>1. pc = "ps" /\ i = 1 /\ seen = <<>> /\ node = 1 /\ vmmap = <<>>
    BY Zenon DEF Init
  <2> QED
    BY <2>1
       DEF ControlInv, InBlock, SessionPoints, AttachPoints, ScanPoints
<1> QED
  BY <1>4, <1>5, <1>6 DEF TypeInv, TypeOK

(* What is ignored is recorded by its kind. *)
LEMMA SqlSilentType ==
    ASSUME silent \subseteq SilentFailure, NEW ok, SqlSilent(ok)
    PROVE  silent' \subseteq SilentFailure
<1>1. silent' = silent \/ silent' = silent \cup {"sql"}
  BY DEF SqlSilent
<1> QED
  BY <1>1 DEF SilentFailure

(* Where a session step leads, and that it keeps the types. *)
LEMMA SessionTypes ==
    ASSUME LinkTypes, ControlInv, Sessions
    PROVE  LinkTypes'
<1> USE DEF LinkTypes, linkTargetVars, sessionVars, linkDbVars
<1>1. CASE CreateCompartsTable
  <2>1. silent' \subseteq SilentFailure
    BY <1>1, SqlSilentType DEF CreateCompartsTable
  <2> QED
    BY <1>1, <2>1 DEF CreateCompartsTable
<1>2. CASE GetAuxv
  BY <1>2 DEF GetAuxv
<1>3. CASE SessionAttach
  BY <1>3 DEF SessionAttach, PtAttach, Waitpid, TargetState, SilentFailure
<1>4. CASE PiodReadFails
  BY <1>4 DEF PiodReadFails, ExitFrom
<1>5. CASE GetRDebug
  BY <1>5 DEF GetRDebug, PtDetach, TargetState
<1>6. CASE LinkmapEntry
  <2>1. silent' \subseteq SilentFailure
    BY <1>6, SqlSilentType DEF LinkmapEntry, AddToList
  <2>2. node \in 1..Len(linkmap)
    BY <1>6 DEF LinkmapEntry, AddToList, ControlInv, BeforeWalkEnds
  <2>3. linkmap[node] \in Lib
    BY <2>2, ElementOfSeq
  <2>4. libs' \in Seq(Lib)
    BY <1>6, <2>3 DEF LinkmapEntry, AddToList
  <2>5. /\ UNCHANGED <<tgt, linkmap, rcomp, moves, rdbg, tables>>
        /\ node' \in {node, node + 1} /\ sub' \in {sub, 1}
    BY <1>6 DEF LinkmapEntry, AddToList
  <2> QED
    BY <2>1, <2>4, <2>5
<1>7. CASE SubcompartEntry
  <2>1. silent' \subseteq SilentFailure
    BY <1>7, SqlSilentType DEF SubcompartEntry
  <2>2. /\ UNCHANGED <<tgt, linkmap, rcomp, moves, rdbg, libs, tables>>
        /\ node' \in {node, node + 1} /\ sub' \in {sub, sub + 1}
    BY <1>7 DEF SubcompartEntry
  <2> QED
    BY <2>1, <2>2
<1>8. CASE LinkmapEnd
  BY <1>8 DEF LinkmapEnd, PtDetach, TargetState
<1>9. CASE CompartsEntry
  <2>1. silent' \subseteq SilentFailure
    BY <1>9, SqlSilentType DEF CompartsEntry
  <2>2. /\ UNCHANGED <<tgt, linkmap, rcomp, moves, rdbg, sub, libs, tables>>
        /\ node' \in {node, node + 1}
    BY <1>9 DEF CompartsEntry
  <2> QED
    BY <2>1, <2>2
<1>10. CASE CompartsEnd
  BY <1>10 DEF CompartsEnd, PtDetach, TargetState
<1>11. CASE CompartsNameLost
  BY <1>11 DEF CompartsNameLost, TargetState
<1> QED
  BY <1>1, <1>2, <1>3, <1>4, <1>5, <1>6, <1>7, <1>8, <1>9, <1>10, <1>11
     DEF Sessions

LEMMA SessionControl ==
    ASSUME LinkTypes, ControlInv, Sessions
    PROVE  /\ pc \in SessionPoints
           /\ pc' \in SessionPoints \cup {"blk", "exited"}
           /\ pc' \in BeforeWalkEnds => node' > 0
           /\ pc' = "lm_sub" => tgt' = "gone" \/ (tgt' = "stopped" /\ node' <= Len(linkmap'))
<1> DEFINE Goal == /\ pc \in SessionPoints
                   /\ pc' \in SessionPoints \cup {"blk", "exited"}
                   /\ pc' \in BeforeWalkEnds => node' > 0
                   /\ pc' = "lm_sub" => tgt' = "gone" \/ (tgt' = "stopped" /\ node' <= Len(linkmap'))
<1> USE DEF SessionPoints, AttachPoints, BeforeWalkEnds
<1>n. node \in Nat /\ (pc \in BeforeWalkEnds => node > 0)
  BY DEF LinkTypes, ControlInv
<1>1. CASE CreateCompartsTable
  <2>1. pc = "mk_comparts" /\ pc' = "rd_auxv" /\ UNCHANGED node
    BY <1>1 DEF CreateCompartsTable, sessionVars
  <2> QED
    BY <1>n, <2>1
<1>2. CASE GetAuxv
  <2>1. pc = "rd_auxv" /\ pc' \in {"exited", "rd_attach"} /\ UNCHANGED node
    BY <1>2 DEF GetAuxv, sessionVars
  <2> QED
    BY <1>n, <2>1
<1>3. CASE SessionAttach
  <2>1. /\ \/ pc \in {"rd_attach", "rd_wait"} /\ pc' \in {"rd_wait", "rd_io"}
           \/ pc \in {"lm_attach", "lm_wait"} /\ pc' \in {"lm_wait", "lm_io"}
           \/ pc \in {"rc_attach", "rc_wait"} /\ pc' \in {"rc_wait", "rc_io"}
        /\ UNCHANGED node
    BY <1>3 DEF SessionAttach, PtAttach, Waitpid, sessionVars
  <2> QED
    BY <1>n, <2>1
<1>4. CASE PiodReadFails
  <2>1. pc \in {"rd_io", "lm_io", "lm_sub", "rc_io"} /\ pc' = "exited"
    BY <1>4 DEF PiodReadFails, ExitFrom
  <2> QED
    BY <2>1
<1>5. CASE GetRDebug
  <2>1. pc = "rd_io" /\ pc' = "lm_attach" /\ UNCHANGED node
    BY <1>5 DEF GetRDebug, PtDetach
  <2> QED
    BY <1>n, <2>1
<1>6. CASE LinkmapEntry
  <2>1. /\ pc = "lm_io" /\ tgt = "stopped" /\ node <= Len(linkmap)
        /\ UNCHANGED <<linkmap, tgt>>
        /\ \/ node' = node + 1 /\ UNCHANGED pc
           \/ pc' = "lm_sub" /\ UNCHANGED node
    BY <1>6 DEF LinkmapEntry, AddToList, linkTargetVars
  <2> QED
    BY <1>n, <2>1
<1>7. CASE SubcompartEntry
  <2>1. /\ pc = "lm_sub" /\ tgt = "stopped" /\ UNCHANGED <<linkmap, tgt>>
        /\ \/ UNCHANGED <<pc, node>>
           \/ pc' = "lm_io" /\ node' = node + 1
    BY <1>7 DEF SubcompartEntry, linkTargetVars
  <2>2. node <= Len(linkmap)
    BY <2>1 DEF ControlInv
  <2> QED
    BY <1>n, <2>1, <2>2
<1>8. CASE LinkmapEnd
  <2>1. pc = "lm_io" /\ pc' = "rc_attach"
    BY <1>8 DEF LinkmapEnd, PtDetach
  <2> QED
    BY <2>1
<1>9. CASE CompartsEntry
  <2>1. pc = "rc_io" /\ pc' \in {"rc_io", "exited"}
    BY <1>9 DEF CompartsEntry
  <2> QED
    BY <2>1
<1>10. CASE CompartsEnd
  <2>1. pc = "rc_io" /\ pc' = "blk"
    BY <1>10 DEF CompartsEnd, PtDetach
  <2> QED
    BY <2>1
<1>11. CASE CompartsNameLost
  <2>1. pc = "rc_io" /\ pc' = "rc_io"
    BY <1>11 DEF CompartsNameLost
  <2> QED
    BY <2>1
<1> QED
  BY <1>1, <1>2, <1>3, <1>4, <1>5, <1>6, <1>7, <1>8, <1>9, <1>10, <1>11
     DEF Sessions

(* The variables of the sessions, when a step leaves them alone. *)
LEMMA LinkTypesKept ==
    ASSUME LinkTypes, tgt' \in TargetState, silent' \subseteq SilentFailure,
           UNCHANGED <<linkTargetVars, sessionVars>>,
           tables' \subseteq {"vm", "cap_info", "elf_sym", "comparts"}
    PROVE  LinkTypes'
<1>1. UNCHANGED <<linkmap, rcomp, moves>>
  BY DEF linkTargetVars
<1>2. UNCHANGED <<rdbg, node, sub, libs>>
  BY DEF sessionVars
<1> QED
  BY <1>1, <1>2 DEF LinkTypes

(* The facts of LinkTypes a step of the block loop starts from. *)
LEMMA LinkTypesFacts ==
    ASSUME LinkTypes
    PROVE  /\ tgt \in TargetState /\ silent \subseteq SilentFailure
           /\ tables \subseteq {"vm", "cap_info", "elf_sym", "comparts"}
BY DEF LinkTypes

LEMMA TypeGetVmMap == TypeInv /\ GetVmMap => TypeInv'
<1> SUFFICES ASSUME TypeInv, GetVmMap PROVE TypeInv'
  OBVIOUS
<1> USE DEF TypeInv, TypeOK
<1>1. /\ pc = "ps" /\ pc' \in {"exited", "mk_vm"}
      /\ vmmap' = vmmap \/ vmmap' \in InAddressOrder(mapped)
      /\ UNCHANGED <<tgt, silent, linkTargetVars, sessionVars, tables, memVars,
                     i, pg, tags, seen, capacity, ssect, upd, scan, stopmem, lossy>>
  BY DEF GetVmMap, linkDbVars, ghostVars
<1>2. LinkTypes'
  BY <1>1, LinkTypesFacts, LinkTypesKept
<1>3. vmmap' \in Seq(Block)
  BY <1>1, ListingType DEF BlockTypes
<1>4. i = 1 /\ seen = <<>> /\ node > 0
  BY <1>1 DEF ControlInv, BeforeWalkEnds
<1>5. 1 \in 1..Len(vmmap') + 1
  BY <1>3, LenProperties
<1>6. BlockTypes'
  BY <1>1, <1>3, <1>4, <1>5 DEF BlockTypes, memVars
<1>7. UNCHANGED node
  BY <1>1 DEF sessionVars
<1>8. ControlInv'
  BY <1>1, <1>4, <1>7 DEF ControlInv, InBlock, SessionPoints, AttachPoints,
                          BeforeWalkEnds
<1> QED
  BY <1>1, <1>2, <1>6, <1>8 DEF ScanPoints

LEMMA TypeCreateVmCapDb == TypeInv /\ CreateVmCapDb => TypeInv'
<1> SUFFICES ASSUME TypeInv, CreateVmCapDb PROVE TypeInv'
  OBVIOUS
<1> USE DEF TypeInv, TypeOK
<1>1. /\ pc = "mk_vm" /\ pc' = "mk_comparts"
      /\ tables' \subseteq tables \cup {"cap_info", "vm"}
      /\ UNCHANGED <<tgt, linkTargetVars, sessionVars, memVars, blockVars,
                     ghostVars>>
  BY DEF CreateVmCapDb
<1>2. silent' \subseteq SilentFailure
  BY LinkTypesFacts, SqlSilentType DEF CreateVmCapDb
<1>3. LinkTypes'
  BY <1>1, <1>2, LinkTypesFacts, LinkTypesKept
<1>4. BlockTypes'
  BY <1>1 DEF BlockTypes, memVars, blockVars, ghostVars
<1>5. i = 1 /\ seen = <<>> /\ node > 0
  BY <1>1 DEF ControlInv, BeforeWalkEnds
<1>6. UNCHANGED <<node, i, seen>>
  BY <1>1 DEF sessionVars, blockVars
<1>7. ControlInv'
  BY <1>1, <1>5, <1>6 DEF ControlInv, InBlock, SessionPoints, AttachPoints,
                          BeforeWalkEnds
<1> QED
  BY <1>1, <1>3, <1>4, <1>7 DEF ScanPoints, SessionPoints, AttachPoints

LEMMA TypeScanSessions == TypeInv /\ ScanSessions => TypeInv'
<1> SUFFICES ASSUME TypeInv, ScanSessions PROVE TypeInv'
  OBVIOUS
<1> USE DEF TypeInv, TypeOK
<1>1. Sessions /\ UNCHANGED <<memVars, blockVars, ghostVars>>
  BY DEF ScanSessions
<1>2. LinkTypes'
  BY <1>1, SessionTypes
<1>3. BlockTypes'
  BY <1>1 DEF BlockTypes, memVars, blockVars, ghostVars
<1>4. /\ pc \in SessionPoints
      /\ pc' \in SessionPoints \cup {"blk", "exited"}
      /\ pc' \in BeforeWalkEnds => node' > 0
      /\ pc' = "lm_sub" => tgt' = "gone" \/ (tgt' = "stopped" /\ node' <= Len(linkmap'))
  BY <1>1, SessionControl
<1>5. i' = 1 /\ seen' = <<>>
  BY <1>1, <1>4 DEF ControlInv, blockVars
<1>6. pc' \notin InBlock \cup {"ps"}
  BY <1>4 DEF InBlock, SessionPoints, AttachPoints
<1>7. ControlInv'
  BY <1>4, <1>5, <1>6 DEF ControlInv
<1> QED
  BY <1>2, <1>3, <1>4, <1>7 DEF ScanPoints

-----------------------------------------------------------------------------
(* From the first block on, the control says no more than that inside a    *)
(* block there is a block.                                                 *)
BlockPoints == InBlock \cup {"blk", "upd", "done", "exited"}

LEMMA BlockControl ==
    ASSUME pc' \in BlockPoints, pc' \in InBlock => i' <= Len(vmmap')
    PROVE  ControlInv' /\ pc' \in ScanPoints \cup {"exited"}
<1>1. pc' \notin SessionPoints \cup {"ps", "mk_vm"}
  BY DEF BlockPoints, InBlock, SessionPoints, AttachPoints
<1>2. pc' \notin BeforeWalkEnds \cup {"lm_sub"}
  BY DEF BlockPoints, InBlock, BeforeWalkEnds
<1>3. pc' \in ScanPoints \cup {"exited"}
  BY DEF BlockPoints, InBlock, ScanPoints
<1> QED
  BY <1>1, <1>2, <1>3 DEF ControlInv

LEMMA TypeParseElf == TypeInv /\ ParseElf => TypeInv'
<1> SUFFICES ASSUME TypeInv, ParseElf PROVE TypeInv'
  OBVIOUS
<1> USE DEF TypeInv, TypeOK
<1>1. /\ pc = "blk" /\ pc' \in {"blk", "exited"} /\ i <= Len(vmmap)
      /\ tables' \subseteq tables \cup {"elf_sym"}
      /\ UNCHANGED <<tgt, linkTargetVars, sessionVars, memVars, ghostVars,
                     vmmap, i, pg, tags, upd>>
  BY DEF ParseElf
<1>2. silent' \subseteq SilentFailure
  <2>1. silent' = silent \/ \E ok : SqlSilent(ok)
    BY DEF ParseElf
  <2> QED
    BY <2>1, LinkTypesFacts, SqlSilentType
<1>3. LinkTypes'
  BY <1>1, <1>2, LinkTypesFacts, LinkTypesKept
<1>4. vmmap[i] \in Block /\ Current.path \in File
  <2>1. vmmap[i] \in Block /\ Current.path \in File \cup {NoPath}
    BY <1>1, CurrentType
  <2> QED
    BY <2>1 DEF ParseElf
<1>5. capacity' \in Nat
  <2>1. capacity' = capacity \/ capacity' = 2 * capacity
    BY DEF ParseElf, Grown
  <2> QED
    BY <2>1 DEF BlockTypes
<1>6. seen' \in Seq(Block)
  <2>1. seen' = seen \/ seen' = Append(seen, vmmap[i])
    BY DEF ParseElf
  <2>2. seen \in Seq(Block) /\ vmmap[i] \in Block
    BY <1>4 DEF BlockTypes
  <2> HIDE DEF TypeInv, TypeOK
  <2> QED
    BY <2>1, <2>2, AppendProperties
<1>7. ssect' \in Seq([file : File \cup {NoPath}, plt : 0..Len(Region),
                      got : 0..Len(Region)])
  <2> DEFINE S == [file : File \cup {NoPath}, plt : 0..Len(Region),
                   got : 0..Len(Region)]
  <2>1. ssect' = ssect \/ \E s \in SectionOutcomes(Current.path) :
                              ssect' = Append(ssect, s)
    BY DEF ParseElf
  <2>2. \A s \in SectionOutcomes(Current.path) : s \in S
    BY <1>4, SectionOutcomesType
  <2>3. ssect \in Seq(S)
    BY DEF BlockTypes
  <2> HIDE DEF S
  <2>4. ssect' \in Seq(S)
    BY <2>1, <2>2, <2>3, AppendProperties
  <2> QED
    BY <2>4 DEF S
<1>8. BlockTypes'
  BY <1>1, <1>5, <1>6, <1>7 DEF BlockTypes, memVars, ghostVars
<1>9. ControlInv' /\ pc' \in ScanPoints \cup {"exited"}
  BY <1>1, BlockControl DEF BlockPoints, InBlock
<1> QED
  BY <1>3, <1>8, <1>9

LEMMA TypeLabelBlock == TypeInv /\ LabelBlock => TypeInv'
<1> SUFFICES ASSUME TypeInv, LabelBlock PROVE TypeInv'
  OBVIOUS
<1> USE DEF TypeInv, TypeOK
<1>1. /\ pc' = "b_attach" /\ i <= Len(vmmap) /\ pg' = 1
      /\ UNCHANGED <<tgt, silent, linkTargetVars, sessionVars, tables, memVars,
                     ghostVars, vmmap, i, tags, seen, capacity, ssect, upd>>
  BY DEF LabelBlock, linkDbVars
<1>2. LinkTypes'
  BY <1>1, LinkTypesFacts, LinkTypesKept
<1>3. BlockTypes'
  BY <1>1 DEF BlockTypes, memVars, ghostVars
<1>4. ControlInv' /\ pc' \in ScanPoints \cup {"exited"}
  BY <1>1, BlockControl DEF BlockPoints, InBlock
<1> QED
  BY <1>2, <1>3, <1>4

LEMMA TypeBlockAttach == TypeInv /\ BlockAttach => TypeInv'
<1> SUFFICES ASSUME TypeInv, BlockAttach PROVE TypeInv'
  OBVIOUS
<1> USE DEF TypeInv, TypeOK
<1>1. /\ pc \in InBlock /\ pc' \in {"b_wait", "b_tags"}
      /\ tgt' \in TargetState /\ silent' \subseteq SilentFailure
      /\ UNCHANGED <<linkTargetVars, sessionVars, tables, memVars, blockVars,
                     ghostVars>>
  BY LinkTypesFacts DEF BlockAttach, PtAttach, Waitpid, linkDbVars, InBlock,
                        TargetState, SilentFailure
<1>2. LinkTypes'
  BY <1>1, LinkTypesFacts, LinkTypesKept
<1>3. BlockTypes'
  BY <1>1 DEF BlockTypes, memVars, blockVars, ghostVars
<1>4. i' <= Len(vmmap')
  BY <1>1 DEF ControlInv, blockVars
<1>5. ControlInv' /\ pc' \in ScanPoints \cup {"exited"}
  BY <1>1, <1>4, BlockControl DEF BlockPoints, InBlock
<1> QED
  BY <1>2, <1>3, <1>5

LEMMA TypeGetTags == TypeInv /\ GetTags => TypeInv'
<1> SUFFICES ASSUME TypeInv, GetTags PROVE TypeInv'
  OBVIOUS
<1> USE DEF TypeInv, TypeOK
<1>1. /\ pc = "b_tags" /\ pc' \in {"b_tags", "b_caps"} /\ pg' \in {pg, pg + 1}
      /\ silent' \subseteq silent \cup {"io"}
      /\ lossy' \subseteq lossy \cup {vmmap[i]}
      /\ pg <= Current.pages
      /\ UNCHANGED <<tgt, linkTargetVars, sessionVars, tables, memVars, vmmap,
                     i, seen, capacity, ssect, upd, scan, stopmem>>
  BY DEF GetTags, PageDone, linkDbVars
<1>2. i <= Len(vmmap)
  BY <1>1 DEF ControlInv, InBlock
<1>3. vmmap[i] \in Block /\ Current.pages \in Nat
  BY <1>2, CurrentType
<1>4. LinkTypes'
  BY <1>1, LinkTypesFacts, LinkTypesKept DEF SilentFailure
<1>5. tags' \subseteq Slot
  <2>1. tags' = tags \/ tags' = FoundTags(mem[<<vmmap[i], pg>>], 0..31)
    BY DEF GetTags
  <2>2. <<vmmap[i], pg>> \in Page
    <3>1. pg \in 1..Region[vmmap[i]].pages
      BY <1>1, <1>3 DEF BlockTypes, Current
    <3> QED
      BY <1>3, <3>1 DEF Page
  <2>3. mem[<<vmmap[i], pg>>] \subseteq Slot /\ tags \subseteq Slot
    BY <2>2 DEF BlockTypes
  <2>4. FoundTags(mem[<<vmmap[i], pg>>], 0..31) \subseteq Slot
    BY <2>3, FoundTagsSubset
  <2> HIDE DEF TypeInv, TypeOK
  <2> QED
    BY <2>1, <2>3, <2>4
<1>6. BlockTypes'
  BY <1>1, <1>3, <1>5 DEF BlockTypes, memVars
<1>7. ControlInv' /\ pc' \in ScanPoints \cup {"exited"}
  BY <1>1, <1>2, BlockControl DEF BlockPoints, InBlock
<1> QED
  BY <1>4, <1>6, <1>7

LEMMA TypeGetCapabilities == TypeInv /\ GetCapabilities => TypeInv'
<1> SUFFICES ASSUME TypeInv, GetCapabilities PROVE TypeInv'
  OBVIOUS
<1> USE DEF TypeInv, TypeOK
<1>1. /\ pc = "b_caps" /\ pc' = "b_tags" /\ pg' = pg + 1 /\ tags' = {}
      /\ silent' \subseteq silent \cup {"sql", "io"}
      /\ lossy' \subseteq lossy \cup {vmmap[i]}
      /\ UNCHANGED <<tgt, linkTargetVars, sessionVars, tables, memVars, vmmap,
                     i, seen, capacity, ssect, upd, scan, stopmem>>
  BY DEF GetCapabilities, PageDone, linkDbVars
<1>2. i <= Len(vmmap)
  BY <1>1 DEF ControlInv, InBlock
<1>3. vmmap[i] \in Block
  BY <1>2, CurrentType
<1>4. LinkTypes'
  BY <1>1, LinkTypesFacts, LinkTypesKept DEF SilentFailure
<1>5. BlockTypes'
  BY <1>1, <1>3 DEF BlockTypes, memVars
<1>6. ControlInv' /\ pc' \in ScanPoints \cup {"exited"}
  BY <1>1, <1>2, BlockControl DEF BlockPoints, InBlock
<1> QED
  BY <1>4, <1>5, <1>6

LEMMA TypeBlockDetach == TypeInv /\ BlockDetach => TypeInv'
<1> SUFFICES ASSUME TypeInv, BlockDetach PROVE TypeInv'
  OBVIOUS
<1> USE DEF TypeInv, TypeOK
<1>1. /\ pc = "b_tags" /\ pc' = "blk" /\ i' = i + 1 /\ tgt' \in {"running", tgt}
      /\ UNCHANGED <<silent, linkTargetVars, sessionVars, tables, memVars, vmmap,
                     pg, tags, seen, capacity, ssect, upd, ghostVars>>
  BY DEF BlockDetach, PtDetach, linkDbVars
<1>2. i <= Len(vmmap)
  BY <1>1 DEF ControlInv, InBlock
<1>3. LinkTypes'
  BY <1>1, LinkTypesFacts, LinkTypesKept DEF TargetState
<1>4. Len(vmmap) \in Nat /\ i' \in 1..Len(vmmap) + 1
  BY <1>1, <1>2, LenProperties DEF BlockTypes
<1>5. BlockTypes'
  BY <1>1, <1>4 DEF BlockTypes, memVars, ghostVars
<1>6. ControlInv' /\ pc' \in ScanPoints \cup {"exited"}
  BY <1>1, BlockControl DEF BlockPoints, InBlock
<1> QED
  BY <1>3, <1>5, <1>6

LEMMA TypeInsertVm == TypeInv /\ InsertVm => TypeInv'
<1> SUFFICES ASSUME TypeInv, InsertVm PROVE TypeInv'
  OBVIOUS
<1> USE DEF TypeInv, TypeOK
<1>1. /\ pc' = "upd" /\ upd' = 1
      /\ UNCHANGED <<tgt, linkTargetVars, sessionVars, tables, memVars, vmmap, i,
                     pg, tags, seen, capacity, ssect, ghostVars>>
  BY DEF InsertVm, linkDbVars
<1>2. silent' \subseteq SilentFailure
  BY LinkTypesFacts, SqlSilentType DEF InsertVm
<1>3. LinkTypes'
  BY <1>1, <1>2, LinkTypesFacts, LinkTypesKept
<1>4. BlockTypes'
  BY <1>1 DEF BlockTypes, memVars, ghostVars
<1>5. ControlInv' /\ pc' \in ScanPoints \cup {"exited"}
  BY <1>1, BlockControl DEF BlockPoints, InBlock
<1> QED
  BY <1>3, <1>4, <1>5

LEMMA TypeUpdateVm == TypeInv /\ UpdateVm => TypeInv'
<1> SUFFICES ASSUME TypeInv, UpdateVm PROVE TypeInv'
  OBVIOUS
<1> USE DEF TypeInv, TypeOK
<1>1. /\ pc = "upd" /\ pc' = "upd" /\ upd' = upd + 1
      /\ UNCHANGED <<tgt, linkTargetVars, sessionVars, tables, memVars, vmmap, i,
                     pg, tags, seen, capacity, ssect, ghostVars>>
  BY DEF UpdateVm, linkDbVars
<1>2. silent' \subseteq SilentFailure
  BY LinkTypesFacts, SqlSilentType DEF UpdateVm
<1>3. LinkTypes'
  BY <1>1, <1>2, LinkTypesFacts, LinkTypesKept
<1>4. BlockTypes'
  BY <1>1 DEF BlockTypes, memVars, ghostVars
<1>5. ControlInv' /\ pc' \in ScanPoints \cup {"exited"}
  BY <1>1, BlockControl DEF BlockPoints, InBlock
<1> QED
  BY <1>3, <1>4, <1>5

(* scan_mem returns, main ends, a signal ends it: only pc changes. *)
LEMMA TypeReturns == TypeInv /\ (ScanReturns \/ Finish) => TypeInv'
<1> SUFFICES ASSUME TypeInv, ScanReturns \/ Finish PROVE TypeInv'
  OBVIOUS
<1> USE DEF TypeInv, TypeOK
<1>1. /\ pc' \in {"done", "exited"}
      /\ UNCHANGED <<tgt, silent, linkTargetVars, sessionVars, tables, memVars,
                     blockVars, ghostVars>>
  BY DEF ScanReturns, Finish, ExitFrom, linkDbVars
<1>2. LinkTypes'
  BY <1>1, LinkTypesFacts, LinkTypesKept
<1>3. BlockTypes'
  BY <1>1 DEF BlockTypes, memVars, blockVars, ghostVars
<1>4. ControlInv' /\ pc' \in ScanPoints \cup {"exited"}
  BY <1>1, BlockControl DEF BlockPoints, InBlock
<1> QED
  BY <1>2, <1>3, <1>4

(* The linker's own steps keep its list and its array. *)
LEMMA LinkerTypes ==
    ASSUME LinkTypes, NEW l \in Lib, Dlopen(l) \/ Dlclose(l)
    PROVE  /\ linkmap' \in Seq(Lib) /\ rcomp' \in [size : 0..NumComparts, gen : Nat]
           /\ moves' \in 0..MaxMoves /\ TargetRuns
<1>1. moves' \in 0..MaxMoves /\ TargetRuns
  <2>1. moves < MaxMoves /\ moves' = moves + 1 /\ TargetRuns
    BY DEF Dlopen, Dlclose
  <2> QED
    BY <2>1, LinkMapAssumption DEF LinkTypes
<1>2. linkmap \in Seq(Lib) /\ rcomp \in [size : 0..NumComparts, gen : Nat]
  BY DEF LinkTypes
<1>3. CASE Dlopen(l)
  <2>1. linkmap' = Append(linkmap, l)
    BY <1>3 DEF Dlopen
  <2>2. rcomp' = rcomp \/ \E n \in 0..NumComparts :
                              rcomp' = [size |-> n, gen |-> rcomp.gen + 1]
    BY <1>3 DEF Dlopen
  <2>3. linkmap' \in Seq(Lib)
    BY <1>2, <2>1, AppendProperties
  <2> QED
    BY <1>1, <1>2, <2>2, <2>3
<1>4. CASE Dlclose(l)
  <2>1. UNCHANGED rcomp
    BY <1>4 DEF Dlclose
  <2>2. PICK k \in 1..Len(linkmap) : linkmap' = RemoveAt(linkmap, k)
    BY <1>4 DEF Dlclose
  <2>3. linkmap' \in Seq(Lib)
    BY <1>2, <2>2, RemoveAtType
  <2> QED
    BY <1>1, <1>2, <2>1, <2>3
<1> QED
  BY <1>3, <1>4

(* A step of the target keeps the types of what belongs to the target. *)
LEMMA TargetFacts ==
    ASSUME LinkTypes, BlockTypes, Target
    PROVE  /\ linkmap' \in Seq(Lib) /\ rcomp' \in [size : 0..NumComparts, gen : Nat]
           /\ moves' \in 0..MaxMoves /\ TargetRuns
           /\ mapped' \subseteq Block /\ mem' \in [Page -> SUBSET Slot]
           /\ UNCHANGED <<ptraceVars, sessionVars, linkDbVars, blockVars, ghostVars>>
<1> DEFINE Linker == /\ linkmap' \in Seq(Lib)
                     /\ rcomp' \in [size : 0..NumComparts, gen : Nat]
                     /\ moves' \in 0..MaxMoves /\ TargetRuns
<1>1. UNCHANGED <<ptraceVars, sessionVars, linkDbVars, blockVars, ghostVars>>
  BY DEF Target
<1>2. mapped \subseteq Block /\ mem \in [Page -> SUBSET Slot]
  BY DEF BlockTypes
<1>3. ASSUME TargetRuns, moves < MaxMoves, moves' = moves + 1,
             UNCHANGED <<linkmap, rcomp>>
      PROVE  Linker
  BY <1>3, LinkMapAssumption DEF LinkTypes
<1>4. ASSUME NEW l \in Lib, Dlopen(l) \/ Dlclose(l) PROVE Linker
  BY <1>4, LinkerTypes
<1> HIDE DEF Linker
<1>5. ASSUME NEW r \in Block, MapMemory(r)
      PROVE  Linker /\ mapped' \subseteq Block /\ mem' \in [Page -> SUBSET Slot]
  <2>1. mapped' = mapped \cup Reservation(r) /\ UNCHANGED mem
    BY <1>5 DEF MapMemory
  <2>2. ASSUME Region[r].path \in Lib PROVE Linker
    <3>1. Dlopen(Region[r].path)
      BY <1>5, <2>2 DEF MapMemory
    <3> QED
      BY <1>4, <2>2, <3>1
  <2>3. ASSUME Region[r].path \notin Lib PROVE Linker
    BY <1>3, <1>5, <2>3 DEF MapMemory
  <2> QED
    BY <1>2, <2>1, <2>2, <2>3 DEF Reservation
<1>6. ASSUME NEW r \in Block, UnmapMemory(r)
      PROVE  Linker /\ mapped' \subseteq Block /\ mem' \in [Page -> SUBSET Slot]
  <2>1. mapped' \subseteq mapped /\ mem' = Empty(mem, Reservation(r))
    BY <1>6 DEF UnmapMemory
  <2>2. Empty(mem, Reservation(r)) \in [Page -> SUBSET Slot]
    BY <1>2 DEF Empty
  <2>3. ASSUME Region[r].path \in Lib PROVE Linker
    <3>1. Dlclose(Region[r].path)
      BY <1>6, <2>3 DEF UnmapMemory
    <3> QED
      BY <1>4, <2>3, <3>1
  <2>4. ASSUME Region[r].path \notin Lib PROVE Linker
    BY <1>3, <1>6, <2>4 DEF UnmapMemory
  <2> QED
    BY <1>2, <2>1, <2>2, <2>3, <2>4
<1>7. ASSUME NEW p \in Page, NEW g \in Slot, StoreToMemory(p, g)
      PROVE  Linker /\ mapped' \subseteq Block /\ mem' \in [Page -> SUBSET Slot]
  <2>1. /\ TargetRuns /\ moves < MaxMoves /\ moves' = moves + 1
        /\ UNCHANGED <<mapped, linkmap, rcomp>>
        /\ mem' = [mem EXCEPT ![p] = IF g \in @ THEN @ \ {g} ELSE @ \cup {g}]
    BY <1>7 DEF StoreToMemory
  <2>2. mem' \in [Page -> SUBSET Slot]
    BY <1>2, <2>1
  <2> QED
    BY <1>2, <1>3, <2>1, <2>2
<1>8. Linker /\ mapped' \subseteq Block /\ mem' \in [Page -> SUBSET Slot]
  BY <1>5, <1>6, <1>7 DEF Target
<1> QED
  BY <1>1, <1>8 DEF Linker

LEMMA TypeTarget == TypeInv /\ Target => TypeInv'
<1> SUFFICES ASSUME TypeInv, Target PROVE TypeInv'
  OBVIOUS
<1> USE DEF TypeInv, TypeOK
<1>1. /\ linkmap' \in Seq(Lib) /\ rcomp' \in [size : 0..NumComparts, gen : Nat]
      /\ moves' \in 0..MaxMoves /\ TargetRuns
      /\ mapped' \subseteq Block /\ mem' \in [Page -> SUBSET Slot]
      /\ UNCHANGED <<ptraceVars, sessionVars, linkDbVars, blockVars, ghostVars>>
  BY TargetFacts
<1>2. LinkTypes'
  BY <1>1 DEF LinkTypes, ptraceVars, sessionVars, linkDbVars
<1>3. BlockTypes'
  BY <1>1 DEF BlockTypes, blockVars, ghostVars
<1>4. UNCHANGED <<pc, tgt, node, vmmap, i, seen>> /\ tgt \in {"running", "traced"}
  BY <1>1 DEF ptraceVars, sessionVars, blockVars, TargetRuns
<1>5. ControlInv'
  BY <1>4 DEF ControlInv
<1> QED
  BY <1>2, <1>3, <1>4, <1>5

LEMMA TypeKernel == TypeInv /\ Kernel => TypeInv'
<1> SUFFICES ASSUME TypeInv, Kernel PROVE TypeInv'
  OBVIOUS
<1> USE DEF TypeInv, TypeOK
<1>1. /\ UNCHANGED <<pc, silent, linkTargetVars, sessionVars, tables, memVars,
                     blockVars, scan, lossy>>
      /\ \/ tgt = "traced" /\ tgt' = "stopped"
         \/ pc = "exited" /\ tgt' \in {"gone", "running"}
  BY DEF Kernel, KernelStop, KernelReap, linkDbVars
<1>2. LinkTypes'
  BY <1>1, LinkTypesFacts, LinkTypesKept DEF TargetState
<1>3. stopmem' \in [Page -> SUBSET Slot]
  <2>1. stopmem \in [Page -> SUBSET Slot] /\ mem \in [Page -> SUBSET Slot]
    BY DEF BlockTypes
  <2>2. stopmem' = stopmem \/
        stopmem' = [p \in Page |-> IF p[1] \in Finished THEN stopmem[p] ELSE mem[p]]
    BY DEF Kernel
  <2> HIDE DEF TypeInv, TypeOK
  <2> QED
    BY <2>1, <2>2
<1>4. BlockTypes'
  BY <1>1, <1>3 DEF BlockTypes, memVars, blockVars
<1>5. UNCHANGED <<node, linkmap, vmmap, i, seen>>
  BY <1>1 DEF sessionVars, linkTargetVars, blockVars
<1>6. ControlInv'
  BY <1>1, <1>5 DEF ControlInv, BeforeWalkEnds, InBlock, SessionPoints, AttachPoints
<1> QED
  BY <1>1, <1>2, <1>4, <1>6

LEMMA TypeKilled == TypeInv /\ Killed => TypeInv'
<1> SUFFICES ASSUME TypeInv, Killed PROVE TypeInv'
  OBVIOUS
<1> USE DEF TypeInv, TypeOK
<1>1. /\ UNCHANGED <<silent, linkTargetVars, sessionVars, tables, memVars,
                     blockVars, ghostVars>>
      /\ \/ tgt' = "gone" /\ pc' = pc
         \/ tgt' = tgt /\ pc' = "exited"
  <2>1. CASE TargetDies
    BY <2>1 DEF Killed, TargetDies, linkDbVars
  <2>2. CASE ExitFrom(ScanPoints)
    BY <2>2 DEF Killed, ExitFrom, linkDbVars
  <2> QED
    BY <2>1, <2>2 DEF Killed
<1>2. LinkTypes'
  BY <1>1, LinkTypesFacts, LinkTypesKept DEF TargetState
<1>3. BlockTypes'
  BY <1>1 DEF BlockTypes, memVars, blockVars, ghostVars
<1>4. UNCHANGED <<node, linkmap, vmmap, i, seen>>
  BY <1>1 DEF sessionVars, linkTargetVars, blockVars
<1>5. ControlInv'
  BY <1>1, <1>4 DEF ControlInv, BeforeWalkEnds, InBlock, SessionPoints, AttachPoints
<1> QED
  BY <1>1, <1>2, <1>3, <1>5

LEMMA TypeRunAgain == TypeInv /\ RunAgain => TypeInv'
<1> SUFFICES ASSUME TypeInv, RunAgain PROVE TypeInv'
  OBVIOUS
<1> USE DEF TypeInv, TypeOK
<1>1. /\ pc' = "ps" /\ silent' = {}
      /\ rdbg' = [size |-> 0, gen |-> 0] /\ node' = 1 /\ sub' = 1 /\ libs' = <<>>
      /\ vmmap' = <<>> /\ i' = 1 /\ pg' = 1 /\ tags' = {} /\ upd' = 1
      /\ seen' = <<>> /\ capacity' = InitialSize /\ ssect' = <<>>
      /\ UNCHANGED <<tgt, linkmap, rcomp, moves, tables, mapped, mem>>
  BY DEF RunAgain, linkTargetVars, linkDbVars, memVars
<1>2. /\ scan < MaxScans /\ scan' = scan + 1 /\ lossy' = {}
      /\ stopmem' = [p \in Page |-> {}]
  BY DEF RunAgain
<1>3. \A S : <<>> \in Seq(S) /\ Len(<<>>) = 0
  OBVIOUS
<1>4. LinkTypes'
  BY <1>1, <1>3, LinkMapAssumption DEF LinkTypes
<1>5. scan' \in 1..MaxScans
  BY <1>2, ScanAssumption DEF BlockTypes
<1>6. BlockTypes'
  BY <1>1, <1>2, <1>3, <1>5, ScanAssumption DEF BlockTypes
<1>7. ControlInv'
  BY <1>1 DEF ControlInv, InBlock
<1> QED
  BY <1>1, <1>4, <1>6, <1>7 DEF ScanPoints

-----------------------------------------------------------------------------
LEMMA TypeInvStep == TypeInv /\ [Next]_vars => TypeInv'
<1> SUFFICES ASSUME TypeInv, [Next]_vars PROVE TypeInv'
  OBVIOUS
<1>1. CASE UNCHANGED vars
  <2>1. UNCHANGED <<pc, tgt, silent, linkmap, rcomp, moves, rdbg, node, sub,
                    libs, tables>>
    BY <1>1 DEF vars, linkVars, ptraceVars, linkTargetVars, sessionVars, linkDbVars
  <2>2. UNCHANGED <<memVars, blockVars, ghostVars>>
    BY <1>1 DEF vars
  <2>3. LinkTypes' /\ pc' \in ScanPoints \cup {"exited"}
    BY <2>1 DEF TypeInv, TypeOK, LinkTypes
  <2>4. BlockTypes'
    BY <2>2 DEF TypeInv, TypeOK, BlockTypes, memVars, blockVars, ghostVars
  <2>5. ControlInv'
    BY <2>1, <2>2 DEF TypeInv, ControlInv, blockVars
  <2> QED
    BY <2>3, <2>4, <2>5 DEF TypeInv, TypeOK
<1>2. CASE ScanMem
  BY <1>2, TypeGetVmMap, TypeCreateVmCapDb, TypeScanSessions, TypeParseElf,
     TypeLabelBlock, TypeBlockAttach, TypeGetTags, TypeGetCapabilities,
     TypeBlockDetach, TypeInsertVm, TypeUpdateVm, TypeReturns DEF ScanMem
<1>3. CASE Target
  BY <1>3, TypeTarget
<1>4. CASE Kernel
  BY <1>4, TypeKernel
<1>5. CASE Killed
  BY <1>5, TypeKilled
<1>6. CASE RunAgain
  BY <1>6, TypeRunAgain
<1> QED
  BY <1>1, <1>2, <1>3, <1>4, <1>5, <1>6 DEF Next

LEMMA TypeInvariant == Spec => []TypeInv
BY TypeInvInit, TypeInvStep, PTL DEF Spec

(* The variables of scan_mem keep their types, whatever the vm map, the    *)
(* program and its steps, and whatever fails.                              *)
THEOREM TypeCorrect == Spec => []TypeOK
<1>1. TypeInv => TypeOK
  BY DEF TypeInv
<1> QED
  BY <1>1, TypeInvariant, PTL

-----------------------------------------------------------------------------
(* The places after PT_ATTACH and before waitpid has returned, and those   *)
(* where chericat reads from the target.                                   *)
WaitPoints == {"rd_wait", "lm_wait", "rc_wait", "b_wait"}
HeldPoints == {"rd_io", "lm_io", "lm_sub", "rc_io", "b_tags", "b_caps"}
TracingPoints == WaitPoints \cup HeldPoints \cup {"exited"}

(* As long as no waitpid has failed, the target is traced or stopped only  *)
(* where chericat expects it to be.                                        *)
HeldInv ==
    "wait" \notin silent =>
        /\ tgt = "traced" => pc \in WaitPoints \cup {"exited"}
        /\ tgt = "stopped" => pc \in TracingPoints

-----------------------------------------------------------------------------
(* Steps by what they do to the target; each caller of ptrace_attach and   *)
(* ptrace_detach has its own places.                                       *)
LEMMA WorkStep ==
    ASSUME HeldInv, UNCHANGED tgt, silent \subseteq silent',
           \/ pc' \in {pc, "exited"}
           \/ pc \in HeldPoints /\ pc' \in HeldPoints
           \/ pc \notin TracingPoints
    PROVE  HeldInv'
BY DEF HeldInv, WaitPoints, HeldPoints, TracingPoints

LEMMA AttachStep ==
    ASSUME HeldInv, NEW from, NEW wait \in WaitPoints, NEW return \in HeldPoints,
           from \notin TracingPoints, PtAttach(from, wait, return)
    PROVE  HeldInv'
BY DEF HeldInv, PtAttach, WaitPoints, HeldPoints, TracingPoints

LEMMA WaitStep ==
    ASSUME HeldInv, NEW wait \in WaitPoints, NEW return \in HeldPoints,
           Waitpid(wait, return)
    PROVE  HeldInv'
BY DEF HeldInv, Waitpid, WaitPoints, HeldPoints, TracingPoints

LEMMA DetachStep ==
    ASSUME HeldInv, NEW from \in HeldPoints, NEW return, PtDetach(from, return)
    PROVE  HeldInv'
BY DEF HeldInv, PtDetach, WaitPoints, HeldPoints, TracingPoints

LEMMA SqlSilentGrows ==
    ASSUME NEW ok, SqlSilent(ok) PROVE silent \subseteq silent'
BY DEF SqlSilent

LEMMA HeldSessions == HeldInv /\ Sessions => HeldInv'
<1> SUFFICES ASSUME HeldInv, Sessions PROVE HeldInv'
  OBVIOUS
<1> USE DEF WaitPoints, HeldPoints, TracingPoints
<1>1. CASE CreateCompartsTable
  <2>1. pc = "mk_comparts" /\ UNCHANGED tgt /\ silent \subseteq silent'
    BY <1>1, SqlSilentGrows DEF CreateCompartsTable
  <2> QED
    BY <2>1, WorkStep
<1>2. CASE GetAuxv
  <2>1. pc = "rd_auxv" /\ UNCHANGED tgt /\ silent \subseteq silent'
    BY <1>2 DEF GetAuxv
  <2> QED
    BY <2>1, WorkStep
<1>3. CASE SessionAttach
  BY <1>3, AttachStep, WaitStep DEF SessionAttach
<1>4. CASE PiodReadFails
  <2>1. pc' = "exited" /\ UNCHANGED tgt /\ silent \subseteq silent'
    BY <1>4 DEF PiodReadFails, ExitFrom
  <2> QED
    BY <2>1, WorkStep
<1>5. CASE GetRDebug
  BY <1>5, DetachStep DEF GetRDebug
<1>6. CASE LinkmapEntry
  <2>1. /\ pc = "lm_io" /\ pc' \in {"lm_io", "lm_sub"}
        /\ UNCHANGED tgt /\ silent \subseteq silent'
    BY <1>6, SqlSilentGrows DEF LinkmapEntry
  <2> QED
    BY <2>1, WorkStep
<1>7. CASE SubcompartEntry
  <2>1. /\ pc = "lm_sub" /\ pc' \in {"lm_io", "lm_sub"}
        /\ UNCHANGED tgt /\ silent \subseteq silent'
    BY <1>7, SqlSilentGrows DEF SubcompartEntry
  <2> QED
    BY <2>1, WorkStep
<1>8. CASE LinkmapEnd
  BY <1>8, DetachStep DEF LinkmapEnd
<1>9. CASE CompartsEntry
  <2>1. /\ pc = "rc_io" /\ pc' \in {"rc_io", "exited"}
        /\ UNCHANGED tgt /\ silent \subseteq silent'
    BY <1>9, SqlSilentGrows DEF CompartsEntry
  <2> QED
    BY <2>1, WorkStep
<1>10. CASE CompartsEnd
  BY <1>10, DetachStep DEF CompartsEnd
<1>11. CASE CompartsNameLost
  BY <1>11 DEF CompartsNameLost, HeldInv
<1> QED
  BY <1>1, <1>2, <1>3, <1>4, <1>5, <1>6, <1>7, <1>8, <1>9, <1>10, <1>11
     DEF Sessions

LEMMA HeldScanMem == HeldInv /\ ScanMem => HeldInv'
<1> SUFFICES ASSUME HeldInv, ScanMem PROVE HeldInv'
  OBVIOUS
<1> USE DEF WaitPoints, HeldPoints, TracingPoints
<1>1. CASE GetVmMap
  <2>1. pc = "ps" /\ UNCHANGED tgt /\ silent \subseteq silent'
    BY <1>1 DEF GetVmMap
  <2> QED
    BY <2>1, WorkStep
<1>2. CASE CreateVmCapDb
  <2>1. pc = "mk_vm" /\ UNCHANGED tgt /\ silent \subseteq silent'
    BY <1>2, SqlSilentGrows DEF CreateVmCapDb
  <2> QED
    BY <2>1, WorkStep
<1>3. CASE ScanSessions
  BY <1>3, HeldSessions DEF ScanSessions
<1>4. CASE ParseElf
  <2>1. pc = "blk" /\ UNCHANGED tgt
    BY <1>4 DEF ParseElf
  <2>2. silent \subseteq silent'
    BY <1>4, SqlSilentGrows DEF ParseElf
  <2> QED
    BY <2>1, <2>2, WorkStep
<1>5. CASE LabelBlock
  <2>1. pc = "blk" /\ UNCHANGED tgt /\ silent \subseteq silent'
    BY <1>5 DEF LabelBlock
  <2> QED
    BY <2>1, WorkStep
<1>6. CASE BlockAttach
  BY <1>6, AttachStep, WaitStep DEF BlockAttach
<1>7. CASE GetTags
  <2>1. /\ pc = "b_tags" /\ pc' \in {"b_tags", "b_caps"}
        /\ UNCHANGED tgt /\ silent \subseteq silent'
    BY <1>7 DEF GetTags
  <2> QED
    BY <2>1, WorkStep
<1>8. CASE GetCapabilities
  <2>1. /\ pc = "b_caps" /\ pc' = "b_tags"
        /\ UNCHANGED tgt /\ silent \subseteq silent'
    BY <1>8 DEF GetCapabilities
  <2> QED
    BY <2>1, WorkStep
<1>9. CASE BlockDetach
  BY <1>9, DetachStep DEF BlockDetach
<1>10. CASE InsertVm
  <2>1. pc = "blk" /\ UNCHANGED tgt /\ silent \subseteq silent'
    BY <1>10, SqlSilentGrows DEF InsertVm
  <2> QED
    BY <2>1, WorkStep
<1>11. CASE UpdateVm
  <2>1. pc = "upd" /\ UNCHANGED tgt /\ silent \subseteq silent'
    BY <1>11, SqlSilentGrows DEF UpdateVm
  <2> QED
    BY <2>1, WorkStep
<1>12. CASE ScanReturns \/ Finish
  <2>1. pc \in {"upd", "done"} /\ UNCHANGED tgt /\ silent \subseteq silent'
    BY <1>12 DEF ScanReturns, Finish, ExitFrom
  <2> QED
    BY <2>1, WorkStep
<1> QED
  BY <1>1, <1>2, <1>3, <1>4, <1>5, <1>6, <1>7, <1>8, <1>9, <1>10, <1>11, <1>12
     DEF ScanMem

LEMMA HeldStep == HeldInv /\ [Next]_vars => HeldInv'
<1> SUFFICES ASSUME HeldInv, [Next]_vars PROVE HeldInv'
  OBVIOUS
<1>1. CASE UNCHANGED vars
  <2>1. UNCHANGED <<pc, tgt, silent>>
    BY <1>1 DEF vars, linkVars, ptraceVars
  <2> QED
    BY <2>1 DEF HeldInv
<1>2. CASE ScanMem
  BY <1>2, HeldScanMem
<1>3. CASE Target
  <2>1. UNCHANGED <<pc, tgt, silent>>
    BY <1>3 DEF Target, ptraceVars
  <2> QED
    BY <2>1 DEF HeldInv
<1>4. CASE Kernel
  BY <1>4 DEF Kernel, KernelStop, KernelReap, HeldInv, WaitPoints, HeldPoints,
              TracingPoints
<1>5. CASE Killed
  BY <1>5 DEF Killed, TargetDies, ExitFrom, HeldInv, WaitPoints, HeldPoints,
              TracingPoints
<1>6. CASE RunAgain
  BY <1>6 DEF RunAgain, HeldInv
<1> QED
  BY <1>1, <1>2, <1>3, <1>4, <1>5, <1>6 DEF Next

(* Between the blocks, between the sessions and when scan_mem returns,     *)
(* the target is released or gone, unless a waitpid has failed, whatever   *)
(* else fails and wherever the target dies.                                *)
THEOREM Released == Spec => []ReleasedBetweenBlocks
<1>1. Init => HeldInv
  BY DEF Init, HeldInv
<1>2. TypeInv /\ HeldInv => ReleasedBetweenBlocks
  <2>1. TypeInv => tgt \in TargetState
    BY DEF TypeInv, TypeOK, LinkTypes
  <2> QED
    BY <2>1 DEF HeldInv, ReleasedBetweenBlocks, WaitPoints, HeldPoints,
                TracingPoints, AttachPoints, TargetState
<1> QED
  BY <1>1, <1>2, HeldStep, TypeInvariant, PTL DEF Spec

-----------------------------------------------------------------------------
(* Between get_tags' read of the tag buffer and its INSERT, the page is as *)
(* it was read: the target is stopped or gone.                             *)
CapsInv ==
    pc = "b_caps" =>
        /\ tgt \in {"stopped", "gone"}
        /\ i <= Len(vmmap)
        /\ <<vmmap[i], pg>> \in Page
        /\ tags \subseteq mem[<<vmmap[i], pg>>]

LEMMA CapsStep == TypeInv /\ CapsInv /\ [Next]_vars => CapsInv'
<1> SUFFICES ASSUME TypeInv, CapsInv, [Next]_vars, pc' = "b_caps" PROVE CapsInv'
  BY DEF CapsInv
<1>1. CASE UNCHANGED vars
  <2>1. UNCHANGED <<pc, tgt, i, vmmap, pg, tags, mem>>
    BY <1>1 DEF vars, linkVars, ptraceVars, blockVars, memVars
  <2> QED
    BY <2>1 DEF CapsInv
<1>2. CASE ScanMem
  <2>1. CASE GetTags
    <3>1. /\ pc = "b_tags" /\ pg <= Current.pages
          /\ UNCHANGED <<tgt, i, vmmap, mem>>
      BY <2>1 DEF GetTags, memVars
    <3>2. /\ tgt = "stopped" /\ tags' = FoundTags(mem[<<vmmap[i], pg>>], 0..31)
          /\ UNCHANGED pg
      BY <2>1, <3>1 DEF GetTags
    <3>3. i <= Len(vmmap) /\ BlockTypes
      BY <3>1 DEF TypeInv, TypeOK, ControlInv, InBlock
    <3>4. vmmap[i] \in Block /\ Current.pages \in Nat
      BY <3>3, CurrentType
    <3>5. pg \in 1..Region[vmmap[i]].pages
      BY <3>1, <3>3, <3>4 DEF BlockTypes, Current
    <3>6. <<vmmap[i], pg>> \in Page
      BY <3>4, <3>5 DEF Page
    <3>7. tags' \subseteq mem[<<vmmap[i], pg>>]
      BY <3>2, FoundTagsSubset
    <3> QED
      BY <3>1, <3>2, <3>3, <3>6, <3>7 DEF CapsInv
  <2>2. CASE ScanSessions
    <3>1. pc' \in SessionPoints \cup {"blk", "exited"}
      BY <2>2, SessionControl DEF ScanSessions, TypeInv, TypeOK
    <3> QED
      BY <3>1 DEF SessionPoints, AttachPoints
  <2>3. CASE ParseElf
    <3>1. pc' \in {"blk", "exited"}
      BY <2>3 DEF ParseElf
    <3> QED
      BY <3>1
  <2>4. CASE ~(GetTags \/ ScanSessions \/ ParseElf)
    <3>1. pc' # "b_caps"
      BY <1>2, <2>4 DEF ScanMem, GetVmMap, CreateVmCapDb, LabelBlock,
         BlockAttach, PtAttach, Waitpid, GetCapabilities, BlockDetach, PtDetach,
         InsertVm, UpdateVm, ScanReturns, Finish, ExitFrom
    <3> QED
      BY <3>1
  <2> QED
    BY <2>1, <2>2, <2>3, <2>4
<1>3. CASE Target
  <2>1. UNCHANGED <<pc, tgt>> /\ TargetRuns
    BY <1>3, TargetFacts DEF TypeInv, TypeOK, ptraceVars
  <2> QED
    BY <2>1 DEF CapsInv, TargetRuns
<1>4. CASE Kernel \/ Killed
  <2>1. /\ pc = "b_caps" /\ tgt' \in {"stopped", "gone"}
        /\ UNCHANGED <<memVars, blockVars>>
    BY <1>4 DEF Kernel, KernelStop, KernelReap, Killed, TargetDies, ExitFrom, CapsInv
  <2>2. UNCHANGED <<i, vmmap, pg, tags, mem>>
    BY <2>1 DEF memVars, blockVars
  <2> QED
    BY <2>1, <2>2 DEF CapsInv
<1>5. CASE RunAgain
  BY <1>5 DEF RunAgain
<1> QED
  BY <1>1, <1>2, <1>3, <1>4, <1>5 DEF Next

(* A step that changes neither the target's state nor its memory nor the   *)
(* rows of cap_info is no step of TracedCapture.                           *)
LEMMA CaptureStutters ==
    UNCHANGED <<tgt, mem, cap_info>> => UNCHANGED Capture!captureVars
BY DEF Capture!captureVars

(* Neither is one that keeps the target free, or held.                     *)
LEMMA CaptureTarget ==
    ASSUME tgt \in TargetState, tgt' \in TargetState, UNCHANGED <<mem, cap_info>>,
           tgt = "gone" => tgt' = "gone"
    PROVE  [Capture!CaptureNext]_Capture!captureVars
<1>1. CASE tgt = "gone" \/ tgt' = tgt
  BY <1>1 DEF Capture!captureVars
<1>2. CASE tgt # "gone" /\ tgt' = "gone"
  <2>1. Capture!Die
    BY <1>2 DEF Capture!Die
  <2> QED
    BY <2>1 DEF Capture!CaptureNext
<1>3. CASE tgt \in {"running", "traced"} /\ tgt' = "stopped"
  <2>1. Capture!Hold
    BY <1>3 DEF Capture!Hold
  <2> QED
    BY <2>1 DEF Capture!CaptureNext
<1>4. CASE tgt = "stopped" /\ tgt' \in {"running", "traced"}
  <2>1. Capture!Release
    BY <1>4 DEF Capture!Release
  <2> QED
    BY <2>1 DEF Capture!CaptureNext
<1>5. CASE tgt \in {"running", "traced"} /\ tgt' \in {"running", "traced"}
  BY <1>5 DEF Capture!captureVars
<1> QED
  BY <1>1, <1>2, <1>3, <1>4, <1>5 DEF TargetState

LEMMA CaptureExecutes ==
    ASSUME TypeInv, Target
    PROVE  Capture!CaptureNext
<1>1. UNCHANGED <<tgt, cap_info>> /\ tgt \in {"running", "traced"}
  <2>1. UNCHANGED <<ptraceVars, dbVars>> /\ TargetRuns
    BY TargetFacts DEF Target, TypeInv, TypeOK
  <2> QED
    BY <2>1 DEF ptraceVars, dbVars, TargetRuns
<1>2. Capture!Execute
  BY <1>1 DEF Capture!Execute
<1> QED
  BY <1>2 DEF Capture!CaptureNext

LEMMA CaptureRecords ==
    ASSUME TypeInv, CapsInv, GetCapabilities
    PROVE  Capture!CaptureNext
<1> DEFINE Rec(c) == [place |-> <<<<c.block, c.page>>, c.slot>>, junk |-> c.junk]
           New(bad) == {[scan |-> scan, block |-> vmmap[i], page |-> pg, slot |-> g,
                         base |-> Last(values).base, suffix |-> Last(values).suffix,
                         junk |-> g \in bad] : g \in tags}
<1>1. /\ tgt \in {"stopped", "gone"} /\ UNCHANGED <<tgt, mem>>
      /\ <<vmmap[i], pg>> \in Page /\ tags \subseteq mem[<<vmmap[i], pg>>]
  BY DEF GetCapabilities, CapsInv, memVars
<1>2. tags \subseteq Slot
  BY DEF TypeInv, TypeOK, BlockTypes
<1>3. PICK bad \in IF tgt = "stopped" THEN {{}} ELSE SUBSET tags :
          cap_info' = cap_info \/ cap_info' = cap_info \cup New(bad)
  BY DEF GetCapabilities, LabelPassed
<1>4. cap_info \subseteq cap_info'
  BY <1>3
<1>5. \A c \in cap_info' \ cap_info :
          IF c.junk THEN tgt = "gone"
          ELSE <<<<c.block, c.page>>, c.slot>> \in
                   {pl \in Page \X Slot : pl[2] \in mem[pl[1]]}
  <2> SUFFICES ASSUME NEW c \in New(bad)
               PROVE  IF c.junk THEN tgt = "gone"
                      ELSE <<<<c.block, c.page>>, c.slot>> \in
                               {pl \in Page \X Slot : pl[2] \in mem[pl[1]]}
    BY <1>3
  <2>1. PICK g \in tags : /\ c.block = vmmap[i] /\ c.page = pg /\ c.slot = g
                          /\ c.junk = (g \in bad)
    OBVIOUS
  <2>2. CASE g \in bad
    BY <1>1, <1>3, <2>1, <2>2
  <2>3. CASE g \notin bad
    BY <1>1, <1>2, <2>1, <2>3
  <2> QED
    BY <2>2, <2>3
<1>6. \A r \in {Rec(c) : c \in cap_info'} \ {Rec(c) : c \in cap_info} :
          IF r.junk THEN ~(tgt # "gone")
          ELSE r.place \in {pl \in Page \X Slot : pl[2] \in mem[pl[1]]}
  <2> SUFFICES ASSUME NEW c \in cap_info' \ cap_info
               PROVE  IF Rec(c).junk THEN ~(tgt # "gone")
                      ELSE Rec(c).place \in {pl \in Page \X Slot : pl[2] \in mem[pl[1]]}
    OBVIOUS
  <2> QED
    BY <1>5
<1>7. {Rec(c) : c \in cap_info} \subseteq {Rec(c) : c \in cap_info'}
  BY <1>4
<1>8. Capture!Record
  BY <1>1, <1>6, <1>7 DEF Capture!Record
<1> QED
  BY <1>8 DEF Capture!CaptureNext

LEMMA CaptureStep ==
    TypeInv /\ TypeInv' /\ CapsInv /\ [Next]_vars
        => [Capture!CaptureNext]_Capture!captureVars
<1> SUFFICES ASSUME TypeInv, TypeInv', CapsInv, [Next]_vars
             PROVE  [Capture!CaptureNext]_Capture!captureVars
  OBVIOUS
<1>1. tgt \in TargetState /\ tgt' \in TargetState
  BY DEF TypeInv, TypeOK, LinkTypes
<1>2. CASE UNCHANGED vars
  <2>1. UNCHANGED <<tgt, mem, cap_info>>
    BY <1>2 DEF vars, linkVars, ptraceVars, memVars, dbVars
  <2> QED
    BY <2>1, CaptureStutters
<1>3. CASE Target
  BY <1>3, CaptureExecutes
<1>4. CASE GetCapabilities
  BY <1>4, CaptureRecords
<1>5. CASE ScanMem /\ ~GetCapabilities
  <2>1. UNCHANGED <<mem, cap_info>>
    BY <1>5 DEF ScanMem, GetVmMap, CreateVmCapDb, ScanSessions, ParseElf,
       LabelBlock, BlockAttach, GetTags, BlockDetach, InsertVm, UpdateVm,
       ScanReturns, Finish, memVars, dbVars
  <2>2. tgt = "gone" => tgt' = "gone"
    BY <1>5 DEF ScanMem, GetVmMap, CreateVmCapDb, ParseElf, LabelBlock,
       BlockAttach, GetTags, BlockDetach, InsertVm, UpdateVm, ScanReturns, Finish,
       PtAttach, Waitpid, PtDetach, ExitFrom, ScanSessions, Sessions,
       CreateCompartsTable, GetAuxv, SessionAttach, PiodReadFails, GetRDebug,
       LinkmapEntry, SubcompartEntry, LinkmapEnd, CompartsEntry, CompartsEnd,
       CompartsNameLost
  <2> QED
    BY <1>1, <2>1, <2>2, CaptureTarget
<1>6. CASE Kernel \/ Killed
  <2>1. UNCHANGED <<mem, cap_info>>
    BY <1>6 DEF Kernel, Killed, memVars, dbVars
  <2>2. tgt = "gone" => tgt' = "gone"
    BY <1>6 DEF Kernel, Killed, KernelStop, KernelReap, TargetDies, ExitFrom
  <2> QED
    BY <1>1, <2>1, <2>2, CaptureTarget
<1>7. CASE RunAgain
  <2>1. UNCHANGED <<tgt, mem, cap_info>>
    BY <1>7 DEF RunAgain, memVars, dbVars
  <2> QED
    BY <2>1, CaptureStutters
<1> QED
  BY <1>2, <1>3, <1>4, <1>5, <1>6, <1>7 DEF Next

(* scan_mem keeps the promise of TracedCapture: what it records was in the *)
(* memory of a target that was held at that moment, and junk is recorded   *)
(* only of a target that is gone.                                          *)
THEOREM CaptureRefined == Spec => ImplementsCapture
<1>1. Init => Capture!CaptureInit
  BY DEF Init, Capture!CaptureInit
<1>2. Init => CapsInv
  BY DEF Init, CapsInv
<1>3. Spec => [](TypeInv /\ CapsInv)
  BY <1>2, CapsStep, TypeInvariant, PTL DEF Spec
<1> QED
  BY <1>1, <1>3, CaptureStep, PTL DEF Spec, ImplementsCapture, Capture!CaptureSpec
=============================================================================
