------------------------- MODULE ScanMemRows_proofs -------------------------
(***************************************************************************)
(* What the rows of a scan say, for every instance of ScanMem: the rows of *)
(* vm are a commit mark, a junk row means that the target was killed, the  *)
(* buffer of parsed paths has room, a compartment in vm is in comparts,    *)
(* no listed library is given the compartment of the program, and the rows *)
(* of a block are the capabilities that were in it when its stop took      *)
(* effect and carry the label of the block's row in vm; and a scan stores  *)
(* what belongs to a row before the row.                                   *)
(***************************************************************************)
EXTENDS ScanMem_proofs, WellFoundedInduction

(* The places before the loop over the blocks. *)
Early == SessionPoints \cup {"ps", "mk_vm"}

(* The rows put together so far are those of the blocks passed, in order;  *)
(* the current block has its row from LabelBlock on.                       *)
ValuesInv ==
    /\ values \in Seq(ToSet(values))
    /\ \A k \in 1..Len(values) : values[k].scan = scan /\ values[k].block = vmmap[k]
    /\ pc \in Early => values = <<>>
    /\ pc = "blk" => Len(values) = i - 1
    /\ pc \in InBlock => Len(values) = i

(* Before InsertVm, the table has rows of earlier scans only. *)
VmInv ==
    /\ \A row \in vm : row.scan \in Nat /\ row.scan <= scan
    /\ pc \in Early \cup InBlock \cup {"blk"} => \A row \in vm : row.scan # scan
    /\ VmRowsLast

-----------------------------------------------------------------------------
(* A step that leaves the rows alone and takes no place back. *)
LEMMA RowsQuiet ==
    ASSUME ValuesInv, VmInv, UNCHANGED <<vm, values, vmmap, i, scan>>,
           \/ pc' \in {pc, "upd", "done", "exited"}
           \/ pc \in Early /\ pc' \in Early
           \/ pc \in Early /\ pc' = "blk" /\ i = 1
           \/ pc \in InBlock /\ pc' \in InBlock
    PROVE  ValuesInv' /\ VmInv'
<1>1. /\ "upd" \notin Early \cup InBlock \cup {"blk"}
      /\ "done" \notin Early \cup InBlock \cup {"blk"}
      /\ "exited" \notin Early \cup InBlock \cup {"blk"}
      /\ "blk" \notin Early \cup InBlock /\ Early \cap InBlock = {}
  BY DEF Early, InBlock, SessionPoints, AttachPoints
<1>2. pc \in Early => Len(values) = 0
  BY DEF ValuesInv
<1>3. ValuesInv'
  BY <1>1, <1>2 DEF ValuesInv
<1>4. VmInv'
  BY <1>1 DEF VmInv, VmRowsLast
<1> QED
  BY <1>3, <1>4

LEMMA RowsGetVmMap == ValuesInv /\ VmInv /\ GetVmMap => ValuesInv' /\ VmInv'
<1> SUFFICES ASSUME ValuesInv, VmInv, GetVmMap PROVE ValuesInv' /\ VmInv'
  OBVIOUS
<1>1. /\ pc = "ps" /\ pc' \in {"exited", "mk_vm"}
      /\ UNCHANGED <<vm, values, i, scan>>
  BY DEF GetVmMap, dbVars, ghostVars
<1>2. "mk_vm" \in Early /\ "ps" \in Early
  BY DEF Early
<1>3. values = <<>> /\ \A row \in vm : row.scan # scan
  BY <1>1, <1>2 DEF ValuesInv, VmInv
<1>4. pc' \notin InBlock \cup {"blk"}
  BY <1>1 DEF InBlock
<1>5. ValuesInv'
  BY <1>1, <1>3, <1>4 DEF ValuesInv
<1>6. VmInv'
  BY <1>1, <1>3 DEF VmInv, VmRowsLast
<1> QED
  BY <1>5, <1>6

LEMMA RowsLabelBlock ==
    TypeInv /\ ValuesInv /\ VmInv /\ LabelBlock => ValuesInv' /\ VmInv'
<1> SUFFICES ASSUME TypeInv, ValuesInv, VmInv, LabelBlock
             PROVE  ValuesInv' /\ VmInv'
  OBVIOUS
<1>1. /\ pc = "blk" /\ pc' = "b_attach" /\ i <= Len(vmmap)
      /\ UNCHANGED <<vm, vmmap, i, scan>>
  BY DEF LabelBlock, dbVars, ghostVars
<1>2. PICK row : /\ values' = Append(values, row)
                 /\ row.scan = scan /\ row.block = vmmap[i]
  BY DEF LabelBlock
<1>3. Len(values) = i - 1 /\ i \in Nat \ {0}
  BY <1>1 DEF ValuesInv, TypeInv, TypeOK, BlockTypes
<1> DEFINE S == ToSet(values) \cup {row}
<1>4. values \in Seq(S) /\ row \in S
  BY DEF ValuesInv
<1> HIDE DEF S
<1>5. /\ values' \in Seq(S) /\ Len(values') = i
      /\ \A k \in 1..i : values'[k] = IF k = i THEN row ELSE values[k]
  BY <1>2, <1>3, <1>4, AppendProperties
<1>6. values' \in Seq(ToSet(values'))
  <2>1. DOMAIN values' = 1..Len(values') /\ Len(values') \in Nat
    BY <1>5, LenProperties
  <2>2. values' \in [1..Len(values') -> S]
    BY <1>5, LenProperties
  <2>3. \A k \in 1..Len(values') : values'[k] \in ToSet(values')
    BY <2>1 DEF ToSet
  <2>4. values' \in [1..Len(values') -> ToSet(values')]
    BY <2>2, <2>3
  <2> QED
    BY <2>1, <2>4
<1>7. \A k \in 1..Len(values') :
          values'[k].scan = scan' /\ values'[k].block = vmmap'[k]
  <2> SUFFICES ASSUME NEW k \in 1..i
               PROVE  values'[k].scan = scan /\ values'[k].block = vmmap[k]
    BY <1>1, <1>5
  <2>1. CASE k = i
    BY <1>2, <1>5, <2>1
  <2>2. CASE k # i
    <3>1. k \in 1..Len(values)
      BY <1>3, <2>2
    <3> QED
      BY <1>5, <2>2, <3>1 DEF ValuesInv
  <2> QED
    BY <2>1, <2>2
<1>8. ValuesInv'
  BY <1>1, <1>5, <1>6, <1>7 DEF ValuesInv, Early, SessionPoints, AttachPoints
<1>9. VmInv'
  BY <1>1 DEF VmInv, VmRowsLast
<1> QED
  BY <1>8, <1>9

LEMMA RowsBlockDetach ==
    TypeInv /\ ValuesInv /\ VmInv /\ BlockDetach => ValuesInv' /\ VmInv'
<1> SUFFICES ASSUME TypeInv, ValuesInv, VmInv, BlockDetach
             PROVE  ValuesInv' /\ VmInv'
  OBVIOUS
<1>1. /\ pc = "b_tags" /\ pc' = "blk" /\ i' = i + 1
      /\ UNCHANGED <<vm, values, vmmap, scan>>
  BY DEF BlockDetach, PtDetach, dbVars, ghostVars
<1>2. Len(values) = i /\ (\A row \in vm : row.scan # scan) /\ i \in Nat
  BY <1>1 DEF ValuesInv, VmInv, InBlock, TypeInv, TypeOK, BlockTypes
<1>3. ValuesInv'
  BY <1>1, <1>2 DEF ValuesInv, Early, InBlock, SessionPoints, AttachPoints
<1>4. VmInv'
  BY <1>1, <1>2 DEF VmInv, VmRowsLast
<1> QED
  BY <1>3, <1>4

(* The one INSERT: a row for every block, or none. *)
LEMMA RowsInsertVm ==
    TypeInv /\ ValuesInv /\ VmInv /\ InsertVm => ValuesInv' /\ VmInv'
<1> SUFFICES ASSUME TypeInv, ValuesInv, VmInv, InsertVm
             PROVE  ValuesInv' /\ VmInv'
  OBVIOUS
<1>1. /\ pc = "blk" /\ pc' = "upd" /\ i > Len(vmmap)
      /\ UNCHANGED <<values, vmmap, i, scan>>
      /\ vm' = vm \/ vm' = vm \cup ToSet(values)
  BY DEF InsertVm, ghostVars
<1>2. /\ i \in 1..Len(vmmap) + 1 /\ Len(vmmap) \in Nat /\ scan \in Nat
      /\ Len(values) = i - 1 /\ \A row \in vm : row.scan # scan
  <2>1. vmmap \in Seq(Block) /\ i \in 1..Len(vmmap) + 1 /\ scan \in 1..MaxScans
    BY DEF TypeInv, TypeOK, BlockTypes
  <2>2. Len(vmmap) \in Nat
    BY <2>1, LenProperties
  <2> QED
    BY <1>1, <2>1, <2>2, ScanAssumption DEF ValuesInv, VmInv
<1>3. i = Len(vmmap) + 1 /\ Len(values) = Len(vmmap)
  BY <1>1, <1>2
<1>4. ToSet(values) = {values[k] : k \in 1..Len(vmmap)}
  <2>1. DOMAIN values = 1..Len(vmmap)
    BY <1>3, LenProperties DEF ValuesInv
  <2> QED
    BY <2>1 DEF ToSet
<1>5. \A k \in 1..Len(vmmap) : values[k].scan = scan /\ values[k].block = vmmap[k]
  BY <1>3 DEF ValuesInv
<1>6. ValuesInv'
  BY <1>1 DEF ValuesInv, Early, InBlock, SessionPoints, AttachPoints
<1>7. \A row \in vm' : row.scan \in Nat /\ row.scan <= scan
  BY <1>1, <1>2, <1>4, <1>5 DEF VmInv
<1>8. VmRowsLast'
  <2> SUFFICES ASSUME NEW row \in vm', row.scan = scan, NEW k \in 1..Len(vmmap)
               PROVE  \E q \in vm' : q.scan = scan /\ q.block = vmmap[k]
    BY <1>1, <1>3 DEF VmRowsLast
  <2>1. vm' = vm \cup ToSet(values)
    BY <1>1, <1>2
  <2>2. values[k] \in vm'
    BY <1>4, <2>1
  <2> QED
    BY <1>5, <2>2
<1>9. pc' \notin Early \cup InBlock \cup {"blk"}
  BY <1>1 DEF Early, InBlock, SessionPoints, AttachPoints
<1>10. VmInv'
  BY <1>1, <1>7, <1>8, <1>9 DEF VmInv
<1> QED
  BY <1>6, <1>10

(* The UPDATEs change the rows but neither their scan nor their block. *)
LEMMA RowsUpdateVm == ValuesInv /\ VmInv /\ UpdateVm => ValuesInv' /\ VmInv'
<1> SUFFICES ASSUME ValuesInv, VmInv, UpdateVm PROVE ValuesInv' /\ VmInv'
  OBVIOUS
<1>1. /\ pc = "upd" /\ pc' = "upd"
      /\ UNCHANGED <<values, vmmap, i, scan>>
  BY DEF UpdateVm, ghostVars
<1> DEFINE U(row) == IF row.base = ssect[upd].file /\ row.suffix = {}
                     THEN [row EXCEPT !.sect = [plt |-> ssect[upd].plt,
                                                got |-> ssect[upd].got]]
                     ELSE row
<1>2. vm' = vm \/ vm' = {U(row) : row \in vm}
  BY DEF UpdateVm
<1>3. \A row : U(row).scan = row.scan /\ U(row).block = row.block
  OBVIOUS
<1> HIDE DEF U
<1>4. /\ \A row \in vm' : \E q \in vm : q.scan = row.scan /\ q.block = row.block
      /\ \A q \in vm : \E row \in vm' : q.scan = row.scan /\ q.block = row.block
  BY <1>2, <1>3
<1>5. ValuesInv'
  BY <1>1 DEF ValuesInv
<1>6. VmRowsLast'
  <2> SUFFICES ASSUME NEW row \in vm', row.scan = scan
               PROVE  /\ i = Len(vmmap) + 1
                      /\ \A k \in 1..Len(vmmap) :
                            \E q \in vm' : q.scan = scan /\ q.block = vmmap[k]
    BY <1>1 DEF VmRowsLast
  <2>1. \E q \in vm : q.scan = scan
    BY <1>4
  <2>2. /\ i = Len(vmmap) + 1
        /\ \A k \in 1..Len(vmmap) :
              \E q \in vm : q.scan = scan /\ q.block = vmmap[k]
    BY <2>1 DEF VmInv, VmRowsLast
  <2> QED
    BY <1>4, <2>2
<1>7. VmInv'
  <2>1. pc' \notin Early \cup InBlock \cup {"blk"}
    BY <1>1 DEF Early, InBlock, SessionPoints, AttachPoints
  <2>2. \A row \in vm' : row.scan \in Nat /\ row.scan <= scan'
    BY <1>1, <1>4 DEF VmInv
  <2> QED
    BY <1>6, <2>1, <2>2 DEF VmInv
<1> QED
  BY <1>5, <1>7

(* The rest of the scan leaves these rows alone. *)
LEMMA RowsScanMem ==
    TypeInv /\ ValuesInv /\ VmInv /\ ScanMem => ValuesInv' /\ VmInv'
<1> SUFFICES ASSUME TypeInv, ValuesInv, VmInv, ScanMem
             PROVE  ValuesInv' /\ VmInv'
  OBVIOUS
<1>1. CASE CreateVmCapDb
  <2>1. /\ pc = "mk_vm" /\ pc' = "mk_comparts"
        /\ UNCHANGED <<vm, values, vmmap, i, scan>>
    BY <1>1 DEF CreateVmCapDb, blockVars, dbVars, ghostVars
  <2>2. pc \in Early /\ pc' \in Early
    BY <2>1 DEF Early, SessionPoints
  <2> QED
    BY <2>1, <2>2, RowsQuiet
<1>2. CASE ScanSessions
  <2>1. /\ pc \in SessionPoints /\ pc' \in SessionPoints \cup {"blk", "exited"}
        /\ UNCHANGED <<vm, values, vmmap, i, scan>>
    BY <1>2, SessionControl DEF ScanSessions, blockVars, dbVars, ghostVars,
       TypeInv, TypeOK
  <2>2. i = 1
    BY <2>1 DEF TypeInv, ControlInv
  <2> QED
    BY <2>1, <2>2, RowsQuiet DEF Early
<1>3. CASE ParseElf
  <2>1. /\ pc' \in {pc, "exited"} /\ UNCHANGED <<vm, values, vmmap, i, scan>>
    BY <1>3 DEF ParseElf, ghostVars
  <2> QED
    BY <2>1, RowsQuiet
<1>4. CASE BlockAttach \/ GetTags \/ GetCapabilities
  <2>1. pc \in InBlock /\ pc' \in InBlock
    BY <1>4 DEF BlockAttach, PtAttach, Waitpid, GetTags, GetCapabilities, InBlock
  <2>2. UNCHANGED <<vm, values, vmmap, i, scan>>
    BY <1>4 DEF BlockAttach, GetTags, GetCapabilities, blockVars, dbVars, ghostVars
  <2> QED
    BY <2>1, <2>2, RowsQuiet
<1>5. CASE ScanReturns \/ Finish
  <2>1. /\ pc' \in {"done", "exited"} /\ UNCHANGED <<vm, values, vmmap, i, scan>>
    BY <1>5 DEF ScanReturns, Finish, ExitFrom, blockVars, dbVars, ghostVars
  <2> QED
    BY <2>1, RowsQuiet
<1> QED
  BY <1>1, <1>2, <1>3, <1>4, <1>5, RowsGetVmMap, RowsLabelBlock, RowsBlockDetach,
     RowsInsertVm, RowsUpdateVm DEF ScanMem

LEMMA RowsStep ==
    TypeInv /\ ValuesInv /\ VmInv /\ [Next]_vars => ValuesInv' /\ VmInv'
<1> SUFFICES ASSUME TypeInv, ValuesInv, VmInv, [Next]_vars
             PROVE  ValuesInv' /\ VmInv'
  OBVIOUS
<1>1. CASE ScanMem
  BY <1>1, RowsScanMem
<1>2. CASE UNCHANGED vars \/ Target \/ Kernel \/ Killed
  <2>1. UNCHANGED <<vm, values, vmmap, i, scan>>
    BY <1>2 DEF vars, Target, Kernel, Killed, blockVars, dbVars, ghostVars
  <2>2. pc' \in {pc, "exited"}
    BY <1>2 DEF vars, linkVars, ptraceVars, Target, Kernel, KernelStop, KernelReap,
       Killed, TargetDies, ExitFrom
  <2> QED
    BY <2>1, <2>2, RowsQuiet
<1>3. CASE RunAgain
  <2>1. /\ pc' = "ps" /\ values' = <<>> /\ scan' = scan + 1 /\ scan \in Nat
        /\ UNCHANGED vm
    <3>1. scan \in 1..MaxScans
      BY DEF TypeInv, TypeOK, BlockTypes
    <3> QED
      BY <1>3, <3>1, ScanAssumption DEF RunAgain, dbVars
  <2>2. ValuesInv'
    BY <2>1 DEF ValuesInv, InBlock
  <2>3. \A row \in vm : row.scan \in Nat /\ row.scan <= scan' /\ row.scan # scan'
    BY <2>1 DEF VmInv
  <2>4. VmInv'
    BY <2>1, <2>3 DEF VmInv, VmRowsLast
  <2> QED
    BY <2>2, <2>4
<1> QED
  BY <1>1, <1>2, <1>3 DEF Next

(* The table vm has no row of a scan before its last block is finished,    *)
(* and then a row for each block, wherever a signal, an exit or the end of *)
(* the target comes and whichever statements fail (mem_scan.c:283-294).    *)
THEOREM RowsAreMark == Spec => []VmRowsLast
<1>1. Init => ValuesInv /\ VmInv
  BY DEF Init, ValuesInv, VmInv, VmRowsLast, InBlock
<1>2. VmInv => VmRowsLast
  BY DEF VmInv
<1> QED
  BY <1>1, <1>2, RowsStep, TypeInvariant, PTL DEF Spec

-----------------------------------------------------------------------------
(* Junk rows: of this scan, while the target is gone. *)
JunkInv ==
    /\ \A c \in cap_info : c.scan \in Nat /\ c.scan <= scan
    /\ JunkOnlyWhenKilled

LEMMA JunkQuiet ==
    ASSUME JunkInv, UNCHANGED <<cap_info, scan>>, lossy \subseteq lossy',
           tgt = "gone" => tgt' = "gone"
    PROVE  JunkInv'
BY DEF JunkInv, JunkOnlyWhenKilled

LEMMA JunkGetCapabilities ==
    TypeInv /\ CapsInv /\ JunkInv /\ GetCapabilities => JunkInv'
<1> SUFFICES ASSUME TypeInv, CapsInv, JunkInv, GetCapabilities PROVE JunkInv'
  OBVIOUS
<1> DEFINE Row(g, bad) ==
        [scan |-> scan, block |-> vmmap[i], page |-> pg, slot |-> g,
         base |-> Last(values).base, suffix |-> Last(values).suffix,
         junk |-> g \in bad]
<1>1. tgt \in {"stopped", "gone"} /\ UNCHANGED <<tgt, scan>>
  BY DEF GetCapabilities, CapsInv
<1>2. scan \in Nat
  <2>1. scan \in 1..MaxScans
    BY DEF TypeInv, TypeOK, BlockTypes
  <2> QED
    BY <2>1, ScanAssumption
<1>3. PICK bad \in IF tgt = "stopped" THEN {{}} ELSE SUBSET tags :
          /\ cap_info' = cap_info \/ cap_info' = cap_info \cup {Row(g, bad) : g \in tags}
          /\ lossy \subseteq lossy'
          /\ bad # {} => vmmap[i] \in lossy'
  BY DEF GetCapabilities, LabelPassed
<1>4. \A g : /\ Row(g, bad).scan = scan /\ Row(g, bad).block = vmmap[i]
             /\ Row(g, bad).junk = (g \in bad)
  OBVIOUS
<1> HIDE DEF Row
<1>5. ASSUME NEW c \in cap_info'
      PROVE  /\ c.scan \in Nat /\ c.scan <= scan
             /\ c.junk /\ c.scan = scan => tgt = "gone" /\ c.block \in lossy'
  <2>1. CASE c \in cap_info
    BY <1>3, <2>1 DEF JunkInv, JunkOnlyWhenKilled
  <2>2. CASE c \notin cap_info
    <3>1. PICK g \in tags : c = Row(g, bad)
      BY <1>3, <1>5, <2>2
    <3>2. c.scan = scan /\ c.block = vmmap[i] /\ c.junk = (g \in bad)
      BY <1>4, <3>1
    <3>3. g \in bad => tgt = "gone" /\ bad # {}
      BY <1>1, <1>3
    <3>4. c.junk => tgt = "gone" /\ c.block \in lossy'
      BY <1>3, <3>2, <3>3, Zenon
    <3>5. c.scan \in Nat /\ c.scan <= scan
      BY <1>2, <3>2
    <3> QED
      BY <3>4, <3>5, Zenon
  <2> QED
    BY <2>1, <2>2
<1> QED
  BY <1>1, <1>5 DEF JunkInv, JunkOnlyWhenKilled

(* A target that is gone does not come back. *)
LEMMA GoneForGood == [Next]_vars => (tgt = "gone" => tgt' = "gone")
<1>1. ScanMem => (tgt = "gone" => tgt' = "gone")
  BY DEF ScanMem, GetVmMap, CreateVmCapDb, ParseElf, LabelBlock,
     BlockAttach, GetTags, GetCapabilities, BlockDetach, InsertVm, UpdateVm,
     ScanReturns, Finish, PtAttach, Waitpid, PtDetach, ExitFrom, ScanSessions,
     Sessions, CreateCompartsTable, GetAuxv, SessionAttach, PiodReadFails,
     GetRDebug, LinkmapEntry, SubcompartEntry, LinkmapEnd, CompartsEntry,
     CompartsEnd, CompartsNameLost
<1>2. Target \/ Kernel \/ Killed \/ RunAgain => (tgt = "gone" => tgt' = "gone")
  BY DEF Target, Kernel, Killed, KernelStop, KernelReap, TargetDies, ExitFrom,
     RunAgain, ptraceVars
<1>3. UNCHANGED vars => UNCHANGED tgt
  BY DEF vars, linkVars, ptraceVars
<1> QED
  BY <1>1, <1>2, <1>3 DEF Next

LEMMA JunkStep == TypeInv /\ CapsInv /\ JunkInv /\ [Next]_vars => JunkInv'
<1> SUFFICES ASSUME TypeInv, CapsInv, JunkInv, [Next]_vars PROVE JunkInv'
  OBVIOUS
<1>1. CASE GetCapabilities
  BY <1>1, JunkGetCapabilities
<1>2. CASE GetTags
  <2>1. UNCHANGED <<cap_info, scan>> /\ lossy \subseteq lossy'
    BY <1>2 DEF GetTags, dbVars
  <2> QED
    BY <2>1, GoneForGood, JunkQuiet
<1>3. CASE RunAgain
  <2>1. UNCHANGED cap_info /\ scan' = scan + 1 /\ scan \in Nat
    <3>1. scan \in 1..MaxScans
      BY DEF TypeInv, TypeOK, BlockTypes
    <3> QED
      BY <1>3, <3>1, ScanAssumption DEF RunAgain, dbVars
  <2>2. \A c \in cap_info : c.scan \in Nat /\ c.scan <= scan' /\ c.scan # scan'
    BY <2>1 DEF JunkInv
  <2> QED
    BY <2>1, <2>2 DEF JunkInv, JunkOnlyWhenKilled
<1>4. CASE ~(GetCapabilities \/ GetTags \/ RunAgain)
  <2>1. UNCHANGED <<cap_info, scan, lossy>>
    <3>1. CASE ScanMem
      BY <1>4, <3>1 DEF ScanMem, GetVmMap, CreateVmCapDb, ScanSessions, ParseElf,
         LabelBlock, BlockAttach, BlockDetach, InsertVm, UpdateVm, ScanReturns,
         Finish, dbVars, ghostVars
    <3>2. CASE UNCHANGED vars \/ Target \/ Kernel \/ Killed
      BY <3>2 DEF vars, Target, Kernel, Killed, dbVars, ghostVars
    <3> QED
      BY <1>4, <3>1, <3>2 DEF Next
  <2> QED
    BY <2>1, GoneForGood, JunkQuiet
<1> QED
  BY <1>1, <1>2, <1>3, <1>4

(* A row that is not made of a capability of the target is recorded only   *)
(* of a target that was killed under the stop, and its block is among      *)
(* those in which a failure was ignored (cap_capture.c:64-99).             *)
THEOREM JunkMeansKilled == Spec => []JunkOnlyWhenKilled
<1>1. Init => CapsInv /\ JunkInv
  BY DEF Init, CapsInv, JunkInv, JunkOnlyWhenKilled
<1>2. JunkInv => JunkOnlyWhenKilled
  BY DEF JunkInv
<1> QED
  BY <1>1, <1>2, CapsStep, JunkStep, TypeInvariant, PTL DEF Spec
-----------------------------------------------------------------------------
(* A path is parsed at most once per block that has been reached: that is  *)
(* why the entries of special_sections are never more than the blocks.     *)
SeenInv ==
    /\ capacity > 0
    /\ SeenInBounds
    /\ pc \in InBlock => Len(seen) <= i
    /\ pc = "blk" => \/ Len(seen) <= i - 1
                     \/ /\ i <= Len(vmmap) /\ Len(seen) <= i
                        /\ Current.path \in SeenPaths

LEMMA SeenQuiet ==
    ASSUME SeenInv, UNCHANGED <<seen, capacity, ssect, vmmap, i>>,
           \/ pc' = pc
           \/ pc' \notin InBlock \cup {"blk"}
           \/ pc' = "blk" /\ Len(seen) = 0 /\ i = 1
           \/ pc \in InBlock /\ pc' \in InBlock
    PROVE  SeenInv'
<1>1. SeenInBounds'
  BY DEF SeenInv, SeenInBounds
<1>2. "blk" \notin InBlock
  BY DEF InBlock
<1>3. pc' = "blk" => \/ Len(seen) <= i - 1
                     \/ /\ pc = "blk" /\ i <= Len(vmmap) /\ Len(seen) <= i
                        /\ Current.path \in SeenPaths
  BY <1>2 DEF SeenInv
<1>4. Current' = Current /\ SeenPaths' = SeenPaths
  BY DEF Current, SeenPaths
<1> QED
  BY <1>1, <1>2, <1>3, <1>4 DEF SeenInv

(* The lists have room, and lengths are numbers. *)
LEMMA SeenLengths ==
    ASSUME BlockTypes
    PROVE  /\ Len(seen) \in Nat /\ Len(ssect) \in Nat /\ Len(vmmap) \in Nat
           /\ capacity \in Nat /\ i \in Nat
<1>1. /\ seen \in Seq(Block) /\ vmmap \in Seq(Block) /\ capacity \in Nat
      /\ ssect \in Seq([file : File \cup {NoPath}, plt : 0..Len(Region),
                        got : 0..Len(Region)])
      /\ i \in 1..Len(vmmap) + 1
  BY DEF BlockTypes
<1>2. Len(vmmap) \in Nat
  BY <1>1, LenProperties
<1> QED
  BY <1>1, <1>2, LenProperties

LEMMA SeenParseElf == TypeInv /\ SeenInv /\ ParseElf => SeenInv'
<1> SUFFICES ASSUME TypeInv, SeenInv, ParseElf PROVE SeenInv'
  OBVIOUS
<1>1. /\ pc = "blk" /\ i <= Len(vmmap) /\ UNCHANGED <<vmmap, i>>
      /\ Current.path \notin SeenPaths
  BY DEF ParseElf
<1>2. CASE pc' = "exited"
  <2>1. UNCHANGED <<seen, capacity, ssect>>
    BY <1>1, <1>2 DEF ParseElf
  <2> QED
    BY <1>1, <1>2, <2>1, SeenQuiet DEF InBlock
<1>3. CASE pc' # "exited"
  <2>1. PICK s : /\ seen' = Append(seen, vmmap[i]) /\ ssect' = Append(ssect, s)
                 /\ capacity' = Grown /\ pc' = pc
    BY <1>1, <1>3 DEF ParseElf
  <2>2. /\ BlockTypes /\ BlockTypes'
    BY TypeParseElf DEF TypeInv, TypeOK
  <2>3. /\ Len(seen') = Len(seen) + 1
        /\ \A k \in 1..Len(seen') :
              seen'[k] = IF k = Len(seen) + 1 THEN vmmap[i] ELSE seen[k]
    <3>1. seen \in Seq(Block) /\ vmmap[i] \in Block
      BY <1>1, <2>2, CurrentType DEF BlockTypes
    <3> QED
      BY <2>1, <3>1, AppendProperties
  <2>4. Len(ssect') = Len(ssect) + 1
    BY <2>1, <2>2, AppendProperties DEF BlockTypes
  <2>5. Len(seen) = Len(ssect) /\ Len(seen) <= capacity /\ capacity > 0
        /\ Len(seen) <= i - 1
    BY <1>1 DEF SeenInv, SeenInBounds
  <2>6. Len(seen') <= capacity' /\ capacity' > 0 /\ Len(seen') <= i
        /\ Len(ssect') = Len(seen') /\ Len(ssect') <= Len(vmmap')
    BY <1>1, <2>1, <2>2, <2>3, <2>4, <2>5, SeenLengths DEF Grown
  <2>7. Current.path \in SeenPaths'
    <3>1. Len(seen) + 1 \in 1..Len(seen')
      BY <2>2, <2>3, SeenLengths
    <3>2. Region[seen'[Len(seen) + 1]].path = Current.path
      BY <2>3, <3>1 DEF Current
    <3> QED
      BY <3>1, <3>2 DEF SeenPaths
  <2>8. \A j, k \in 1..Len(seen') :
            Region[seen'[j]].path = Region[seen'[k]].path => j = k
    <3>1. \A k \in 1..Len(seen) : Region[seen[k]].path # Current.path
      BY <1>1 DEF SeenPaths
    <3>2. \A k \in 1..Len(seen') : k = Len(seen) + 1 \/ k \in 1..Len(seen)
      BY <2>2, <2>3, SeenLengths
    <3>3. \A j, k \in 1..Len(seen) :
              Region[seen[j]].path = Region[seen[k]].path => j = k
      BY DEF SeenInv, SeenInBounds
    <3>4. \A k \in 1..Len(seen) : seen'[k] = seen[k]
      BY <2>2, <2>3, SeenLengths
    <3>5. Region[seen'[Len(seen) + 1]].path = Current.path
      BY <2>2, <2>3, SeenLengths DEF Current
    <3> QED
      BY <3>1, <3>2, <3>3, <3>4, <3>5
  <2>9. SeenInBounds'
    BY <2>6, <2>8 DEF SeenInBounds
  <2>10. Current' = Current
    BY <1>1 DEF Current
  <2> QED
    BY <1>1, <2>1, <2>6, <2>7, <2>9, <2>10 DEF SeenInv, InBlock
<1> QED
  BY <1>2, <1>3

LEMMA SeenScanMem == TypeInv /\ SeenInv /\ ScanMem => SeenInv'
<1> SUFFICES ASSUME TypeInv, SeenInv, ScanMem PROVE SeenInv'
  OBVIOUS
<1>1. BlockTypes
  BY DEF TypeInv, TypeOK
<1>2. CASE GetVmMap
  <2>1. /\ UNCHANGED <<seen, capacity, ssect, i>> /\ pc' \in {"exited", "mk_vm"}
        /\ seen = <<>>
    BY <1>2 DEF GetVmMap, TypeInv, ControlInv
  <2>2. Len(seen) = 0 /\ Len(ssect) = 0
    BY <2>1 DEF SeenInv, SeenInBounds
  <2>3. Len(vmmap') \in Nat
    <3>1. BlockTypes'
      BY <1>2, TypeGetVmMap DEF TypeInv, TypeOK
    <3>2. vmmap' \in Seq(Block)
      BY <3>1 DEF BlockTypes
    <3> QED
      BY <3>2, LenProperties
  <2> QED
    BY <2>1, <2>2, <2>3 DEF SeenInv, SeenInBounds, InBlock
<1>3. CASE CreateVmCapDb \/ InsertVm \/ UpdateVm \/ ScanReturns \/ Finish
  <2>1. UNCHANGED <<seen, capacity, ssect, vmmap, i>>
    BY <1>3 DEF CreateVmCapDb, InsertVm, UpdateVm, ScanReturns, Finish, blockVars
  <2>2. pc' \in {"mk_comparts", "upd", "done", "exited"}
    BY <1>3 DEF CreateVmCapDb, InsertVm, UpdateVm, ScanReturns, Finish, ExitFrom
  <2> QED
    BY <2>1, <2>2, SeenQuiet DEF InBlock
<1>4. CASE ScanSessions
  <2>1. /\ pc \in SessionPoints /\ pc' \in SessionPoints \cup {"blk", "exited"}
        /\ UNCHANGED <<seen, capacity, ssect, vmmap, i>>
    BY <1>4, SessionControl DEF ScanSessions, blockVars, TypeInv, TypeOK
  <2>2. i = 1 /\ Len(seen) = 0
    BY <2>1 DEF TypeInv, ControlInv
  <2> QED
    BY <2>1, <2>2, SeenQuiet DEF InBlock, SessionPoints, AttachPoints
<1>5. CASE LabelBlock
  <2>1. /\ pc = "blk" /\ pc' = "b_attach"
        /\ UNCHANGED <<seen, capacity, ssect, vmmap, i>>
    BY <1>5 DEF LabelBlock
  <2>2. Len(seen) <= i
    BY <1>1, <2>1, SeenLengths DEF SeenInv
  <2>3. SeenInBounds'
    BY <2>1 DEF SeenInv, SeenInBounds
  <2> QED
    BY <2>1, <2>2, <2>3 DEF SeenInv
<1>6. CASE BlockAttach \/ GetTags \/ GetCapabilities
  <2>1. UNCHANGED <<seen, capacity, ssect, vmmap, i>>
    BY <1>6 DEF BlockAttach, GetTags, GetCapabilities, blockVars
  <2>2. pc \in InBlock /\ pc' \in InBlock
    BY <1>6 DEF BlockAttach, PtAttach, Waitpid, GetTags, GetCapabilities, InBlock
  <2> QED
    BY <2>1, <2>2, SeenQuiet
<1>7. CASE BlockDetach
  <2>1. /\ pc = "b_tags" /\ pc' = "blk" /\ i' = i + 1
        /\ UNCHANGED <<seen, capacity, ssect, vmmap>>
    BY <1>7 DEF BlockDetach, PtDetach
  <2>2. Len(seen) <= i' - 1
    BY <1>1, <2>1, SeenLengths DEF SeenInv, InBlock
  <2>3. SeenInBounds'
    BY <2>1 DEF SeenInv, SeenInBounds
  <2> QED
    BY <2>1, <2>2, <2>3 DEF SeenInv, InBlock
<1> QED
  BY <1>2, <1>3, <1>4, <1>5, <1>6, <1>7, SeenParseElf DEF ScanMem

LEMMA SeenStep == TypeInv /\ SeenInv /\ [Next]_vars => SeenInv'
<1> SUFFICES ASSUME TypeInv, SeenInv, [Next]_vars PROVE SeenInv'
  OBVIOUS
<1>1. CASE UNCHANGED vars \/ Target \/ Kernel \/ Killed
  <2>1. UNCHANGED <<seen, capacity, ssect, vmmap, i>>
    BY <1>1 DEF vars, Target, Kernel, Killed, blockVars
  <2>2. pc' \in {pc, "exited"}
    BY <1>1 DEF vars, linkVars, ptraceVars, Target, Kernel, KernelStop, KernelReap,
       Killed, TargetDies, ExitFrom
  <2> QED
    BY <2>1, <2>2, SeenQuiet DEF InBlock
<1>2. CASE RunAgain
  <2>1. /\ pc' = "ps" /\ vmmap' = <<>> /\ seen' = <<>> /\ ssect' = <<>>
        /\ capacity' = InitialSize
    BY <1>2 DEF RunAgain
  <2>2. Len(seen') = 0 /\ Len(ssect') = 0 /\ Len(vmmap') = 0
    BY <2>1
  <2>3. capacity' \in Nat \ {0}
    BY <2>1, ScanAssumption
  <2> QED
    BY <2>1, <2>2, <2>3 DEF SeenInv, SeenInBounds, InBlock
<1> QED
  BY <1>1, <1>2, SeenScanMem DEF Next

(* The doubled buffer of parsed paths is never written behind its end, and *)
(* the array of special_sections, allocated with an entry per block, never *)
(* runs out, whatever the map (mem_scan.c:127-179).                        *)
THEOREM SeenFits == Spec => []SeenInBounds
<1>1. Init => SeenInv
  <2> SUFFICES ASSUME Init PROVE SeenInv
    OBVIOUS
  <2>1. /\ pc = "ps" /\ vmmap = <<>> /\ seen = <<>> /\ ssect = <<>>
        /\ capacity \in Nat \ {0}
    BY ScanAssumption DEF Init
  <2>2. Len(seen) = 0 /\ Len(ssect) = 0 /\ Len(vmmap) = 0
    BY <2>1
  <2> QED
    BY <2>1, <2>2 DEF SeenInv, SeenInBounds, InBlock
<1>2. SeenInv => SeenInBounds
  BY DEF SeenInv
<1> QED
  BY <1>1, <1>2, SeenStep, TypeInvariant, PTL DEF Spec

-----------------------------------------------------------------------------
(* When no statement may fail, none does: the tables are there when the    *)
(* rows come.                                                              *)
TablesInv ==
    ~DbMayFail =>
        /\ "sql" \notin silent
        /\ pc \notin {"ps", "mk_vm", "exited"} => {"cap_info", "vm"} \subseteq tables
        /\ pc \notin {"ps", "mk_vm", "mk_comparts", "exited"} => "comparts" \in tables

(* The compartments that the objects of the list, the rows put together    *)
(* and the rows of vm speak of have a row in comparts; those of the vm     *)
(* rows of earlier scans have one if no statement of those scans failed.   *)
Ids == {c.id : c \in comparts}

Answerable(row) == row.scan = scan \/ ~DbMayFail

KnownInv ==
    "sql" \notin silent =>
        /\ \A k \in 1..Len(libs) : DefaultCompart[libs[k]] \in Ids
        /\ \A k \in 1..Len(values) :
              values[k].compart # -1 => values[k].compart \in Ids
        /\ \A row \in vm : Answerable(row) /\ row.compart # -1 => row.compart \in Ids

(* The rows of comparts are replaced and renamed, and never lost. *)
IdsKept == Ids \subseteq Ids'

LEMMA KeptByStatements ==
    ASSUME NEW row, NEW id, NEW name,
           comparts' \in {comparts, Replace(comparts, row), Rename(comparts, id, name)}
    PROVE  IdsKept /\ (comparts' = Replace(comparts, row) => row.id \in Ids')
<1> SUFFICES ASSUME NEW x \in Ids PROVE x \in Ids'
  BY DEF IdsKept, Ids, Replace
<1>1. PICK c \in comparts : c.id = x
  BY DEF Ids
<1>2. CASE comparts' = comparts
  BY <1>1, <1>2 DEF Ids
<1>3. CASE comparts' = Replace(comparts, row)
  BY <1>1, <1>3 DEF Ids, Replace
<1>4. CASE comparts' = Rename(comparts, id, name)
  <2>1. \A d : [d EXCEPT !.name = name].id = d.id
    OBVIOUS
  <2> QED
    BY <1>1, <1>4, <2>1 DEF Ids, Rename
<1> QED
  BY <1>2, <1>3, <1>4

(* What a statement does when none may fail. *)
LEMMA SqlWorks ==
    ASSUME NEW table \in tables, NEW ok \in SqlOutcomes(table), SqlSilent(ok)
    PROVE  ~DbMayFail => ok /\ silent' = silent
BY DEF SqlOutcomes, SqlSilent

LEMMA SqlNotSilent ==
    ASSUME NEW ok, SqlSilent(ok), "sql" \notin silent'
    PROVE  ok /\ silent' = silent
BY DEF SqlSilent

LEMMA TablesQuiet ==
    ASSUME TablesInv, UNCHANGED <<tables>>,
           ~DbMayFail /\ "sql" \in silent' => "sql" \in silent,
           \/ pc' \in {pc, "exited"}
           \/ pc \notin {"ps", "mk_vm", "mk_comparts", "exited"}
    PROVE  TablesInv'
BY DEF TablesInv

LEMMA TablesSessions ==
    TablesInv /\ Sessions /\ pc \in SessionPoints => TablesInv'
<1> SUFFICES ASSUME TablesInv, Sessions, pc \in SessionPoints PROVE TablesInv'
  OBVIOUS
<1>1. CASE CreateCompartsTable
  <2>1. PICK ok \in CreateOutcomes("comparts") :
            /\ tables' = IF ok THEN tables \cup {"comparts"} ELSE tables
            /\ SqlSilent(ok)
    BY <1>1 DEF CreateCompartsTable
  <2>2. pc = "mk_comparts" /\ pc' = "rd_auxv"
    BY <1>1 DEF CreateCompartsTable
  <2>3. ~DbMayFail => ok
    BY <2>1 DEF CreateOutcomes
  <2> QED
    BY <2>1, <2>2, <2>3 DEF TablesInv, SqlSilent
<1>2. CASE GetAuxv \/ SessionAttach \/ PiodReadFails \/ GetRDebug \/ LinkmapEnd
           \/ CompartsEnd \/ CompartsNameLost
  <2>1. /\ UNCHANGED tables /\ silent' \subseteq silent \cup {"attach", "wait"}
        /\ pc \notin {"ps", "mk_vm", "mk_comparts", "exited"}
    BY <1>2 DEF GetAuxv, SessionAttach, PtAttach, Waitpid, PiodReadFails, ExitFrom,
       GetRDebug, LinkmapEnd, CompartsEnd, CompartsNameLost, PtDetach, linkDbVars
  <2> QED
    BY <2>1, TablesQuiet
<1>3. CASE LinkmapEntry \/ SubcompartEntry \/ CompartsEntry
  <2>1. /\ UNCHANGED tables /\ pc \in {"lm_io", "lm_sub", "rc_io"}
        /\ \/ silent' = silent
           \/ \E ok \in SqlOutcomes("comparts") : SqlSilent(ok)
    BY <1>3 DEF LinkmapEntry, SubcompartEntry, CompartsEntry
  <2>2. ~DbMayFail => "comparts" \in tables
    BY <2>1 DEF TablesInv
  <2>3. ~DbMayFail => silent' = silent
    BY <2>1, <2>2, SqlWorks
  <2> QED
    BY <2>1, <2>3, TablesQuiet
<1> QED
  BY <1>1, <1>2, <1>3 DEF Sessions

LEMMA TablesStep == TypeInv /\ TablesInv /\ [Next]_vars => TablesInv'
<1> SUFFICES ASSUME TypeInv, TablesInv, [Next]_vars PROVE TablesInv'
  OBVIOUS
<1>1. CASE GetVmMap
  BY <1>1 DEF GetVmMap, linkDbVars, TablesInv
<1>2. CASE CreateVmCapDb
  <2>1. PICK cap_ok \in CreateOutcomes("cap_info"), vm_ok \in CreateOutcomes("vm") :
            /\ tables' = tables \cup (IF cap_ok THEN {"cap_info"} ELSE {})
                                \cup (IF cap_ok /\ vm_ok THEN {"vm"} ELSE {})
            /\ SqlSilent(cap_ok /\ vm_ok)
    BY <1>2 DEF CreateVmCapDb
  <2>2. pc' = "mk_comparts"
    BY <1>2 DEF CreateVmCapDb
  <2>3. ~DbMayFail => cap_ok /\ vm_ok
    BY <2>1 DEF CreateOutcomes
  <2> QED
    BY <2>1, <2>2, <2>3 DEF TablesInv, SqlSilent
<1>3. CASE ScanSessions
  <2>1. Sessions /\ pc \in SessionPoints
    BY <1>3, SessionControl DEF ScanSessions, TypeInv, TypeOK
  <2> QED
    BY <2>1, TablesSessions
<1>4. CASE ParseElf
  <2>1. CASE pc' = "exited"
    BY <1>4, <2>1 DEF ParseElf, TablesInv
  <2>2. CASE pc' # "exited"
    <3>1. PICK created, batches, stored :
              /\ created \in CreateOutcomes("elf_sym")
              /\ stored \in IF ~created THEN {{}}
                            ELSE IF DbMayFail THEN SUBSET batches ELSE {batches}
              /\ tables' = IF created THEN tables \cup {"elf_sym"} ELSE tables
              /\ SqlSilent(created /\ stored = batches)
              /\ pc = "blk" /\ pc' = pc
      BY <1>4, <2>2 DEF ParseElf
    <3>2. ~DbMayFail => created /\ stored = batches
      BY <3>1 DEF CreateOutcomes
    <3> QED
      BY <3>1, <3>2 DEF TablesInv, SqlSilent
  <2> QED
    BY <2>1, <2>2
<1>5. CASE LabelBlock \/ BlockAttach \/ GetTags \/ BlockDetach \/ ScanReturns \/ Finish
  <2>1. /\ UNCHANGED tables /\ silent' \subseteq silent \cup {"attach", "wait", "io"}
        /\ pc \notin {"ps", "mk_vm", "mk_comparts", "exited"}
    BY <1>5 DEF LabelBlock, BlockAttach, PtAttach, Waitpid, GetTags, BlockDetach,
       PtDetach, ScanReturns, Finish, ExitFrom, linkDbVars
  <2> QED
    BY <2>1, TablesQuiet
<1>6. CASE GetCapabilities
  <2>1. PICK ok \in SqlOutcomes("cap_info") :
            silent' \subseteq silent \cup (IF ok THEN {} ELSE {"sql"}) \cup {"io"}
    BY <1>6 DEF GetCapabilities
  <2>2. pc = "b_caps" /\ UNCHANGED tables
    BY <1>6 DEF GetCapabilities, linkDbVars
  <2>3. ~DbMayFail => ok
    BY <2>1, <2>2 DEF TablesInv, SqlOutcomes
  <2> QED
    BY <2>1, <2>2, <2>3, TablesQuiet
<1>7. CASE InsertVm \/ UpdateVm
  <2>1. /\ pc \in {"blk", "upd"} /\ UNCHANGED tables
        /\ \E ok \in SqlOutcomes("vm") : SqlSilent(ok)
    BY <1>7 DEF InsertVm, UpdateVm, linkDbVars
  <2>2. ~DbMayFail => "vm" \in tables
    BY <2>1 DEF TablesInv
  <2>3. ~DbMayFail => silent' = silent
    BY <2>1, <2>2, SqlWorks
  <2> QED
    BY <2>1, <2>3, TablesQuiet
<1>8. CASE UNCHANGED vars \/ Target \/ Kernel \/ Killed
  <2>1. UNCHANGED <<tables, silent>> /\ pc' \in {pc, "exited"}
    BY <1>8 DEF vars, linkVars, linkDbVars, ptraceVars, Target, Kernel, KernelStop,
       KernelReap, Killed, TargetDies, ExitFrom
  <2> QED
    BY <2>1, TablesQuiet
<1>9. CASE RunAgain
  BY <1>9 DEF RunAgain, TablesInv
<1> QED
  BY <1>1, <1>2, <1>3, <1>4, <1>5, <1>6, <1>7, <1>8, <1>9 DEF Next, ScanMem

-----------------------------------------------------------------------------
(* The statements of the sessions: no row is lost, and an object is in the *)
(* list only with its row.                                                 *)
LEMMA KnownSessions ==
    LinkTypes /\ ControlInv /\ Sessions =>
        /\ IdsKept /\ silent \subseteq silent'
        /\ \/ libs' = libs
           \/ \E l \in Lib : /\ libs' = <<l>> \o libs
                             /\ "sql" \notin silent' => DefaultCompart[l] \in Ids'
<1> SUFFICES ASSUME LinkTypes, ControlInv, Sessions
             PROVE  /\ IdsKept /\ silent \subseteq silent'
                    /\ \/ libs' = libs
                       \/ \E l \in Lib :
                             /\ libs' = <<l>> \o libs
                             /\ "sql" \notin silent' => DefaultCompart[l] \in Ids'
  OBVIOUS
<1>1. CASE CreateCompartsTable \/ GetAuxv \/ SessionAttach \/ PiodReadFails
           \/ GetRDebug \/ LinkmapEnd \/ CompartsEnd \/ CompartsNameLost
  <2>1. UNCHANGED comparts /\ silent \subseteq silent'
    BY <1>1, SqlSilentGrows DEF CreateCompartsTable, GetAuxv, SessionAttach, PtAttach,
       Waitpid, PiodReadFails, ExitFrom, GetRDebug, LinkmapEnd, CompartsEnd, PtDetach,
       CompartsNameLost, linkDbVars
  <2>2. UNCHANGED libs
    BY <1>1 DEF CreateCompartsTable, GetAuxv, SessionAttach, PiodReadFails, GetRDebug,
       LinkmapEnd, CompartsEnd, CompartsNameLost, sessionVars
  <2> QED
    BY <2>1, <2>2 DEF IdsKept, Ids
<1>2. CASE LinkmapEntry
  <2>1. linkmap[node] \in Lib
    BY <1>2, ElementOfSeq DEF LinkmapEntry, LinkTypes, ControlInv, BeforeWalkEnds
  <2> DEFINE l == linkmap[node]
             row == DefaultRow(l)
  <2>2. libs' = <<l>> \o libs
    BY <1>2 DEF LinkmapEntry, AddToList
  <2>3. PICK ok : /\ comparts' = IF ok THEN Replace(comparts, row) ELSE comparts
                  /\ SqlSilent(ok)
    BY <1>2 DEF LinkmapEntry
  <2>4. row.id = DefaultCompart[l]
    BY DEF DefaultRow
  <2> HIDE DEF l, row
  <2>5. /\ IdsKept /\ silent \subseteq silent'
        /\ "sql" \notin silent' => row.id \in Ids'
    <3>1. comparts' = comparts \/ comparts' = Replace(comparts, row)
      BY <2>3
    <3>2. "sql" \notin silent' => comparts' = Replace(comparts, row)
      BY <2>3, SqlNotSilent
    <3> QED
      BY <2>3, <3>1, <3>2, KeptByStatements, SqlSilentGrows
  <2> QED
    BY <2>1, <2>2, <2>4, <2>5 DEF l
<1>3. CASE SubcompartEntry
  <2>1. PICK row, ok : /\ comparts' = IF ok THEN Replace(comparts, row) ELSE comparts
                       /\ SqlSilent(ok) /\ UNCHANGED libs
    BY <1>3 DEF SubcompartEntry
  <2> QED
    BY <2>1, KeptByStatements, SqlSilentGrows
<1>4. CASE CompartsEntry
  <2>1. /\ \E id, name : comparts' \in {comparts, Rename(comparts, id, name)}
        /\ silent' = silent \/ \E ok : SqlSilent(ok)
        /\ UNCHANGED libs
    BY <1>4 DEF CompartsEntry
  <2> QED
    BY <2>1, KeptByStatements, SqlSilentGrows
<1> QED
  BY <1>1, <1>2, <1>3, <1>4 DEF Sessions

LEMMA KnownListed ==
    ASSUME libs \in Seq(Lib), KnownInv, UNCHANGED <<values, vm, scan>>,
           IdsKept, silent \subseteq silent',
           \/ libs' = libs
           \/ \E l \in Lib : /\ libs' = <<l>> \o libs
                             /\ "sql" \notin silent' => DefaultCompart[l] \in Ids'
    PROVE  KnownInv'
<1> SUFFICES ASSUME "sql" \notin silent' PROVE KnownInv'
  BY DEF KnownInv
<1>1. "sql" \notin silent
  OBVIOUS
<1>2. \A k \in 1..Len(libs') : DefaultCompart[libs'[k]] \in Ids'
  <2>1. CASE libs' = libs
    BY <1>1, <2>1 DEF KnownInv, IdsKept
  <2>2. CASE libs' # libs
    <3>1. PICK l \in Lib : libs' = <<l>> \o libs /\ DefaultCompart[l] \in Ids'
      BY <2>2
    <3>2. /\ Len(libs) \in Nat /\ Len(libs') = 1 + Len(libs)
          /\ \A k \in 1..1 + Len(libs) :
                libs'[k] = IF k = 1 THEN l ELSE libs[k - 1]
      BY <3>1
    <3>3. \A k \in 1..Len(libs') : k = 1 \/ k - 1 \in 1..Len(libs)
      BY <3>2
    <3> QED
      BY <1>1, <3>1, <3>2, <3>3 DEF KnownInv, IdsKept
  <2> QED
    BY <2>1, <2>2
<1>3. \A k \in 1..Len(values') :
          values'[k].compart # -1 => values'[k].compart \in Ids'
  BY <1>1 DEF KnownInv, IdsKept
<1>4. \A row \in vm' :
          Answerable(row) /\ row.compart # -1 => row.compart \in Ids'
  BY <1>1 DEF KnownInv, IdsKept, Answerable
<1> QED
  BY <1>2, <1>3, <1>4 DEF KnownInv, Answerable

LEMMA KnownQuiet ==
    ASSUME KnownInv, UNCHANGED <<libs, comparts, values, vm, scan>>,
           "sql" \notin silent' => "sql" \notin silent
    PROVE  KnownInv'
BY DEF KnownInv, Ids, Answerable

(* A non-empty set of numbers has a least one, and Min finds it. *)
LEMMA MinIsLeast ==
    ASSUME NEW I, I \subseteq Nat, NEW k \in I
    PROVE  Min(I) \in I /\ Min(I) <= k
<1> DEFINE Less == OpToRel(<, Nat)
<1>1. \A m, n \in Nat : <<n, m>> \notin Less => m <= n
  BY DEF OpToRel
<1>2. IsWellFoundedOn(Less, Nat)
  BY NatLessThanWellFounded
<1> HIDE DEF Less
<1>3. PICK m \in I : \A n \in I : <<n, m>> \notin Less
  BY <1>2, WFMin
<1>4. \A n \in I : m <= n
  BY <1>1, <1>3
<1> QED
  BY <1>4 DEF Min

(* A block is given the compartment of an object of the list, or none. *)
LEMMA CompartIdListed ==
    ASSUME libs \in Seq(Lib), NEW base
    PROVE  \/ CompartId(base) = -1
           \/ \E k \in 1..Len(libs) : CompartId(base) = DefaultCompart[libs[k]]
<1> DEFINE I == {k \in 1..Len(libs) : libs[k] = base \/ <<libs[k], base>> \in Extends}
<1>1. CompartId(base) = LET k == IF I # {} THEN Min(I) ELSE 0
                        IN  IF k = 0 THEN -1 ELSE DefaultCompart[libs[k]]
  BY DEF CompartId, SelectInSeq
<1>2. I \subseteq Nat
  OBVIOUS
<1> HIDE DEF I
<1>3. I # {} => Min(I) \in I
  BY <1>2, MinIsLeast
<1>4. I \subseteq 1..Len(libs) /\ 0 \notin 1..Len(libs)
  BY DEF I
<1> QED
  BY <1>1, <1>3, <1>4

LEMMA KnownLabelBlock ==
    TypeInv /\ ValuesInv /\ KnownInv /\ LabelBlock => KnownInv'
<1> SUFFICES ASSUME TypeInv, ValuesInv, KnownInv, LabelBlock, "sql" \notin silent'
             PROVE  KnownInv'
  BY DEF KnownInv
<1>1. UNCHANGED <<silent, vm, scan, libs, comparts>>
  BY DEF LabelBlock, dbVars, ghostVars, linkDbVars, sessionVars
<1>2. PICK row : /\ values' = Append(values, row)
                 /\ row.compart = CompartId(MmapPath(vmmap[i]))
  BY DEF LabelBlock
<1>3. row.compart # -1 => row.compart \in Ids
  <2>1. libs \in Seq(Lib)
    BY DEF TypeInv, TypeOK, LinkTypes
  <2> QED
    BY <1>1, <1>2, <2>1, CompartIdListed DEF KnownInv
<1> DEFINE S == ToSet(values) \cup {row}
<1>4. values \in Seq(S) /\ row \in S
  BY DEF ValuesInv
<1> HIDE DEF S
<1>5. /\ Len(values) \in Nat /\ Len(values') = Len(values) + 1
      /\ \A k \in 1..Len(values) + 1 :
            values'[k] = IF k = Len(values) + 1 THEN row ELSE values[k]
  BY <1>2, <1>4, AppendProperties, LenProperties
<1>6. \A k \in 1..Len(values') :
          values'[k].compart # -1 => values'[k].compart \in Ids
  <2>1. \A k \in 1..Len(values') : k = Len(values) + 1 \/ k \in 1..Len(values)
    BY <1>5
  <2> QED
    BY <1>1, <1>3, <1>5, <2>1 DEF KnownInv
<1> QED
  BY <1>1, <1>6 DEF KnownInv, Ids, Answerable

LEMMA KnownVm ==
    ASSUME KnownInv, UNCHANGED <<libs, comparts, values, scan>>,
           "sql" \notin silent' => "sql" \notin silent,
           \A row \in vm' : \/ \E q \in vm : q.scan = row.scan /\ q.compart = row.compart
                            \/ \E k \in 1..Len(values) : row = values[k]
    PROVE  KnownInv'
<1> SUFFICES ASSUME "sql" \notin silent' PROVE KnownInv'
  BY DEF KnownInv
<1>1. /\ \A k \in 1..Len(libs') : DefaultCompart[libs'[k]] \in Ids'
      /\ \A k \in 1..Len(values') :
            values'[k].compart # -1 => values'[k].compart \in Ids'
  BY DEF KnownInv, Ids
<1>2. \A row \in vm' :
          Answerable(row) /\ row.compart # -1 => row.compart \in Ids'
  <2> SUFFICES ASSUME NEW row \in vm', Answerable(row), row.compart # -1
               PROVE  row.compart \in Ids
    BY DEF Ids
  <2>1. CASE \E q \in vm : q.scan = row.scan /\ q.compart = row.compart
    BY <2>1 DEF KnownInv, Answerable
  <2>2. CASE \E k \in 1..Len(values) : row = values[k]
    BY <2>2 DEF KnownInv
  <2> QED
    BY <2>1, <2>2
<1> QED
  BY <1>1, <1>2 DEF KnownInv, Answerable

LEMMA KnownStep ==
    /\ TypeInv /\ ValuesInv /\ VmInv /\ TablesInv /\ KnownInv /\ [Next]_vars
    => KnownInv'
<1> SUFFICES ASSUME TypeInv, ValuesInv, VmInv, TablesInv, KnownInv, [Next]_vars
             PROVE  KnownInv'
  OBVIOUS
<1>1. CASE ScanSessions
  <2>1. /\ Sessions /\ UNCHANGED <<values, vm, scan>>
    BY <1>1 DEF ScanSessions, blockVars, dbVars, ghostVars
  <2>2. LinkTypes /\ ControlInv /\ libs \in Seq(Lib)
    BY DEF TypeInv, TypeOK, LinkTypes
  <2> QED
    BY <2>1, <2>2, KnownSessions, KnownListed
<1>2. CASE LabelBlock
  BY <1>2, KnownLabelBlock
<1>3. CASE InsertVm
  <2>1. /\ UNCHANGED <<libs, comparts, values, scan>>
        /\ silent \subseteq silent'
        /\ vm' \subseteq vm \cup ToSet(values)
    BY <1>3, SqlSilentGrows DEF InsertVm, ghostVars, linkDbVars, sessionVars
  <2>2. ToSet(values) = {values[k] : k \in 1..Len(values)}
    BY LenProperties DEF ValuesInv, ToSet
  <2> QED
    BY <2>1, <2>2, KnownVm
<1>4. CASE UpdateVm
  <2>1. /\ UNCHANGED <<libs, comparts, values, scan>>
        /\ silent \subseteq silent'
    BY <1>4, SqlSilentGrows DEF UpdateVm, ghostVars, linkDbVars, sessionVars
  <2> DEFINE U(row) == IF row.base = ssect[upd].file /\ row.suffix = {}
                       THEN [row EXCEPT !.sect = [plt |-> ssect[upd].plt,
                                                  got |-> ssect[upd].got]]
                       ELSE row
  <2>2. vm' = vm \/ vm' = {U(row) : row \in vm}
    BY <1>4 DEF UpdateVm
  <2>3. \A row : U(row).scan = row.scan /\ U(row).compart = row.compart
    OBVIOUS
  <2> HIDE DEF U
  <2> QED
    BY <2>1, <2>2, <2>3, KnownVm
<1>5. CASE GetVmMap \/ CreateVmCapDb \/ ParseElf \/ BlockAttach \/ GetTags
           \/ GetCapabilities \/ BlockDetach \/ ScanReturns \/ Finish
  <2>1. UNCHANGED <<libs, values, vm, scan>>
    BY <1>5 DEF GetVmMap, CreateVmCapDb, ParseElf, BlockAttach, GetTags,
       GetCapabilities, BlockDetach, ScanReturns, Finish, blockVars, dbVars,
       ghostVars, sessionVars
  <2>2. UNCHANGED comparts
    BY <1>5 DEF GetVmMap, CreateVmCapDb, ParseElf, BlockAttach, GetTags,
       GetCapabilities, BlockDetach, ScanReturns, Finish, linkDbVars
  <2>3. silent \subseteq silent'
    BY <1>5, SqlSilentGrows DEF GetVmMap, CreateVmCapDb, ParseElf, BlockAttach,
       PtAttach, Waitpid, GetTags, GetCapabilities, BlockDetach, PtDetach,
       ScanReturns, Finish, ExitFrom
  <2> QED
    BY <2>1, <2>2, <2>3, KnownQuiet
<1>6. CASE UNCHANGED vars \/ Target \/ Kernel \/ Killed
  <2>1. UNCHANGED <<libs, comparts, values, vm, scan>>
    BY <1>6 DEF vars, linkVars, sessionVars, linkDbVars, Target, Kernel, Killed,
       blockVars, dbVars, ghostVars
  <2>2. UNCHANGED silent
    BY <1>6 DEF vars, linkVars, ptraceVars, Target, Kernel, KernelStop, KernelReap,
       Killed, TargetDies, ExitFrom
  <2> QED
    BY <2>1, <2>2, KnownQuiet
<1>7. CASE RunAgain
  <2>1. /\ libs' = <<>> /\ values' = <<>> /\ scan' = scan + 1 /\ scan \in Nat
        /\ UNCHANGED <<vm, comparts>>
    <3>1. scan \in 1..MaxScans
      BY DEF TypeInv, TypeOK, BlockTypes
    <3> QED
      BY <1>7, <3>1, ScanAssumption DEF RunAgain, dbVars, linkDbVars
  <2>2. \A row \in vm : Answerable(row)' => ~DbMayFail /\ Answerable(row)
    BY <2>1 DEF VmInv, Answerable
  <2>3. \A row \in vm : Answerable(row)' /\ row.compart # -1 => row.compart \in Ids
    BY <2>2 DEF TablesInv, KnownInv
  <2> QED
    BY <2>1, <2>3 DEF KnownInv, Ids
<1> QED
  BY <1>1, <1>2, <1>3, <1>4, <1>5, <1>6, <1>7 DEF Next, ScanMem

LEMMA KnownHolds == Spec => [](TablesInv /\ KnownInv)
<1>1. Init => ValuesInv /\ VmInv /\ TablesInv /\ KnownInv
  BY DEF Init, ValuesInv, VmInv, VmRowsLast, InBlock, TablesInv, KnownInv
<1> QED
  BY <1>1, RowsStep, TablesStep, KnownStep, TypeInvariant, PTL DEF Spec

(* The compartments that vm shows are listed: those of the rows of every   *)
(* scan if no statement can fail, and whatever fails those of this scan as *)
(* long as none of its statements has, whatever the target loads and       *)
(* closes and whichever rows INSERT OR REPLACE replaces                    *)
(* (mem_scan.c:226-235, rtld_linkmap_scan.c:262-286).                      *)
THEOREM CompartsAreKnown == Spec => []CompartsListed
<1>1. TablesInv /\ KnownInv => CompartsListed
  <2> SUFFICES ASSUME TablesInv, KnownInv, NEW row \in vm, row.compart # -1,
                      ~DbMayFail \/ (row.scan = scan /\ "sql" \notin silent)
               PROVE  \E c \in comparts : c.id = row.compart
    BY DEF CompartsListed
  <2>1. "sql" \notin silent /\ Answerable(row)
    BY DEF TablesInv, Answerable
  <2>2. row.compart \in Ids
    BY <2>1 DEF KnownInv
  <2> QED
    BY <2>2 DEF Ids
<1> QED
  BY <1>1, KnownHolds, PTL

-----------------------------------------------------------------------------
(* The program is the first object of the linker's list, and nowhere else; *)
(* so it is the last of chericat's list, once it is there.                 *)
MainFirst ==
    Len(linkmap) > 0 /\ \A k \in 1..Len(linkmap) : linkmap[k] = Main <=> k = 1

BeforeList ==
    {"ps", "mk_vm", "mk_comparts", "rd_auxv", "rd_attach", "rd_wait", "rd_io",
     "lm_attach", "lm_wait", "lm_io"}

ListInv ==
    /\ MainFirst
    /\ pc \in BeforeList /\ node = 1 => libs = <<>>
    /\ \A k \in 1..Len(libs) : libs[k] = Main => k = Len(libs)

(* A listed path was given the compartment of an object of the list that   *)
(* is not the program.                                                     *)
OwnInv ==
    \A k \in 1..Len(values) : values[k].base \in ToSet(libs) \ {Main} =>
        \E j \in 1..Len(libs) :
            libs[j] # Main /\ values[k].compart = DefaultCompart[libs[j]]

LEMMA ListQuiet ==
    ASSUME ListInv, UNCHANGED <<linkmap, libs>>,
           \/ UNCHANGED node /\ (pc \in BeforeList \/ pc' = pc)
           \/ pc' \notin BeforeList
    PROVE  ListInv'
BY DEF ListInv, MainFirst

(* The object in front: only the first entry of the list is the program.   *)
LEMMA ListEntry == LinkTypes /\ ControlInv /\ ListInv /\ LinkmapEntry => ListInv'
<1> SUFFICES ASSUME LinkTypes, ControlInv, ListInv, LinkmapEntry PROVE ListInv'
  OBVIOUS
<1> DEFINE l == linkmap[node]
<1>1. /\ libs' = <<l>> \o libs /\ UNCHANGED linkmap /\ pc = "lm_io"
      /\ \/ node' = node + 1
         \/ pc' = "lm_sub"
      /\ node \in 1..Len(linkmap) /\ node \in Nat
  BY DEF LinkmapEntry, AddToList, linkTargetVars, LinkTypes, ControlInv, BeforeWalkEnds
<1>2. l = Main => libs = <<>>
  <2>1. l = Main => node = 1
    BY <1>1 DEF ListInv, MainFirst
  <2> QED
    BY <1>1, <2>1 DEF ListInv, BeforeList
<1>3. l \in Lib /\ libs \in Seq(Lib)
  BY <1>1, ElementOfSeq DEF LinkTypes
<1> HIDE DEF l
<1>4. /\ Len(libs) \in Nat /\ Len(libs') = 1 + Len(libs)
      /\ \A k \in 1..1 + Len(libs) : libs'[k] = IF k = 1 THEN l ELSE libs[k - 1]
  BY <1>1, <1>3
<1>5. ASSUME NEW k \in 1..Len(libs'), libs'[k] = Main PROVE k = Len(libs')
  <2>1. CASE k = 1
    BY <1>2, <1>4, <1>5, <2>1
  <2>2. CASE k # 1
    <3>1. k - 1 \in 1..Len(libs) /\ libs[k - 1] = Main
      BY <1>4, <1>5, <2>2
    <3> QED
      BY <1>4, <3>1 DEF ListInv
  <2> QED
    BY <2>1, <2>2
<1>6. node' = 1 => pc' \notin BeforeList
  BY <1>1 DEF BeforeList
<1>7. MainFirst'
  BY <1>1 DEF ListInv, MainFirst
<1> QED
  BY <1>5, <1>6, <1>7 DEF ListInv

LEMMA ListSessions == LinkTypes /\ ControlInv /\ ListInv /\ Sessions => ListInv'
<1> SUFFICES ASSUME LinkTypes, ControlInv, ListInv, Sessions PROVE ListInv'
  OBVIOUS
<1>1. CASE CreateCompartsTable \/ GetAuxv \/ GetRDebug
  <2>1. /\ pc \in {"mk_comparts", "rd_auxv", "rd_io"} /\ UNCHANGED <<linkmap, libs, node>>
    BY <1>1 DEF CreateCompartsTable, GetAuxv, GetRDebug, PtDetach, linkTargetVars,
       sessionVars
  <2> QED
    BY <2>1, ListQuiet DEF BeforeList
<1>2. CASE SessionAttach
  <2>1. /\ UNCHANGED <<linkmap, libs, node>>
        /\ \/ pc \in {"rd_attach", "rd_wait", "lm_attach", "lm_wait"}
           \/ pc' \in {"rc_wait", "rc_io"}
    BY <1>2 DEF SessionAttach, PtAttach, Waitpid, linkTargetVars, sessionVars
  <2> QED
    BY <2>1, ListQuiet DEF BeforeList
<1>3. CASE PiodReadFails \/ LinkmapEnd \/ CompartsEntry \/ CompartsEnd
           \/ CompartsNameLost
  <2>1. /\ UNCHANGED <<linkmap, libs>> /\ pc' \in {"exited", "rc_attach", "rc_io", "blk"}
    BY <1>3 DEF PiodReadFails, ExitFrom, LinkmapEnd, CompartsEntry, CompartsEnd,
       CompartsNameLost, PtDetach, linkTargetVars, sessionVars
  <2> QED
    BY <2>1, ListQuiet DEF BeforeList
<1>4. CASE SubcompartEntry
  <2>1. /\ UNCHANGED <<linkmap, libs>> /\ pc = "lm_sub" /\ node \in Nat /\ node > 0
        /\ \/ pc' = "lm_sub"
           \/ node' = node + 1
    BY <1>4 DEF SubcompartEntry, linkTargetVars, LinkTypes, ControlInv, BeforeWalkEnds
  <2>2. node' = 1 => pc' \notin BeforeList
    BY <2>1 DEF BeforeList
  <2> QED
    BY <2>1, <2>2 DEF ListInv, MainFirst
<1> QED
  BY <1>1, <1>2, <1>3, <1>4, ListEntry DEF Sessions

(* What is left when one element is taken out. *)
LEMMA RemoveAtElements ==
    ASSUME NEW S, NEW s \in Seq(S), NEW n \in 1..Len(s)
    PROVE  /\ Len(RemoveAt(s, n)) = Len(s) - 1
           /\ \A k \in 1..Len(RemoveAt(s, n)) :
                 \/ k < n /\ k \in 1..Len(s) /\ RemoveAt(s, n)[k] = s[k]
                 \/ k >= n /\ k + 1 \in 1..Len(s) /\ RemoveAt(s, n)[k] = s[k + 1]
<1> DEFINE a == SubSeq(s, 1, n - 1)
           b == SubSeq(s, n + 1, Len(s))
<1>1. Len(s) \in Nat /\ n \in Nat /\ n >= 1 /\ n <= Len(s)
  OBVIOUS
<1>2. /\ a \in Seq(S) /\ Len(a) = n - 1
      /\ \A k \in 1..n - 1 : a[k] = s[k]
  <2>1. \A k \in 1..n - 1 : s[k] \in S
    BY <1>1, ElementOfSeq
  <2> QED
    BY <1>1, <2>1, SubSeqProperties
<1>3. /\ b \in Seq(S) /\ Len(b) = Len(s) - n
      /\ \A k \in 1..Len(s) - n : b[k] = s[n + k]
  <2>1. \A k \in n + 1..Len(s) : s[k] \in S
    BY <1>1, ElementOfSeq
  <2>2. /\ b \in Seq(S)
        /\ Len(b) = IF n + 1 <= Len(s) THEN Len(s) - (n + 1) + 1 ELSE 0
        /\ \A k \in 1..Len(s) - (n + 1) + 1 : b[k] = s[n + 1 + k - 1]
    BY <1>1, <2>1, SubSeqProperties
  <2>3. \A k \in 1..Len(s) - n : n + 1 + k - 1 = n + k
    BY <1>1
  <2>4. Len(s) - (n + 1) + 1 = Len(s) - n
    BY <1>1
  <2>5. \A k \in 1..Len(s) - n : b[k] = s[n + k]
    BY <2>2, <2>3, <2>4
  <2>6. Len(b) = Len(s) - n
    BY <1>1, <2>2
  <2> QED
    BY <2>2, <2>5, <2>6
<1>4. RemoveAt(s, n) = a \o b
  BY DEF RemoveAt
<1> HIDE DEF a, b
<1>5. /\ Len(a \o b) = Len(s) - 1
      /\ \A k \in 1..Len(s) - 1 :
            (a \o b)[k] = IF k <= n - 1 THEN a[k] ELSE b[k - (n - 1)]
  <2>1. /\ Len(a \o b) = Len(a) + Len(b)
        /\ \A k \in 1..Len(a) + Len(b) :
              (a \o b)[k] = IF k <= Len(a) THEN a[k] ELSE b[k - Len(a)]
    BY <1>2, <1>3, ConcatProperties
  <2>2. Len(a) = n - 1 /\ Len(a) + Len(b) = Len(s) - 1
    BY <1>1, <1>2, <1>3
  <2> QED
    BY <2>1, <2>2
<1>6. SUFFICES ASSUME NEW k \in 1..Len(s) - 1
               PROVE  \/ k < n /\ k \in 1..Len(s) /\ (a \o b)[k] = s[k]
                      \/ k >= n /\ k + 1 \in 1..Len(s) /\ (a \o b)[k] = s[k + 1]
  BY <1>4, <1>5
<1>7. CASE k < n
  BY <1>1, <1>2, <1>5, <1>7
<1>8. CASE k >= n
  <2>1. k - (n - 1) \in 1..Len(s) - n /\ n + (k - (n - 1)) = k + 1
    BY <1>1, <1>8
  <2>2. (a \o b)[k] = b[k - (n - 1)]
    BY <1>1, <1>5, <1>8
  <2>3. b[k - (n - 1)] = s[k + 1]
    BY <1>3, <2>1
  <2> QED
    BY <1>1, <1>8, <2>2, <2>3
<1>9. k < n \/ k >= n
  BY <1>1
<1> QED
  BY <1>7, <1>8, <1>9

(* The target's linker puts an object at the end, and removes any but the  *)
(* program.                                                                *)
LEMMA ListLinker ==
    ASSUME linkmap \in Seq(Lib), MainFirst, NEW l \in Lib, Dlopen(l) \/ Dlclose(l)
    PROVE  MainFirst'
<1>1. Len(linkmap) \in Nat
  OBVIOUS
<1>2. CASE Dlopen(l)
  <2>1. /\ linkmap' = Append(linkmap, l)
        /\ \A k \in 1..Len(linkmap) : linkmap[k] # l
    BY <1>2 DEF Dlopen, Loaded, ToSet
  <2>2. l # Main
    BY <1>1, <2>1 DEF MainFirst
  <2>3. /\ Len(linkmap') = Len(linkmap) + 1
        /\ \A k \in 1..Len(linkmap) + 1 :
              linkmap'[k] = IF k = Len(linkmap) + 1 THEN l ELSE linkmap[k]
    BY <2>1, AppendProperties
  <2>4. \A k \in 1..Len(linkmap') : k = Len(linkmap) + 1 \/ k \in 1..Len(linkmap)
    BY <1>1, <2>3
  <2> QED
    BY <1>1, <2>2, <2>3, <2>4 DEF MainFirst
<1>3. CASE Dlclose(l)
  <2>1. PICK n \in 1..Len(linkmap) : linkmap[n] = l /\ linkmap' = RemoveAt(linkmap, n)
    BY <1>3 DEF Dlclose
  <2>2. l # Main /\ n > 1
    BY <1>1, <1>3, <2>1 DEF Dlclose, MainFirst
  <2>3. /\ Len(linkmap') = Len(linkmap) - 1
        /\ \A k \in 1..Len(linkmap') :
              \/ k < n /\ k \in 1..Len(linkmap) /\ linkmap'[k] = linkmap[k]
              \/ k >= n /\ k + 1 \in 1..Len(linkmap) /\ linkmap'[k] = linkmap[k + 1]
    BY <2>1, RemoveAtElements
  <2>4. ASSUME NEW k \in 1..Len(linkmap') PROVE linkmap'[k] = Main <=> k = 1
    <3>1. CASE k < n
      BY <1>1, <2>3, <3>1 DEF MainFirst
    <3>2. CASE k >= n
      BY <1>1, <2>2, <2>3, <3>2 DEF MainFirst
    <3>3. k < n \/ k >= n
      BY <1>1, <2>2, <2>3
    <3> QED
      BY <3>1, <3>2, <3>3
  <2>5. Len(linkmap') > 0
    BY <1>1, <2>2, <2>3
  <2> QED
    BY <2>4, <2>5 DEF MainFirst
<1> QED
  BY <1>2, <1>3

LEMMA ListStep ==
    TypeInv /\ ListInv /\ [Next]_vars => ListInv'
<1> SUFFICES ASSUME TypeInv, ListInv, [Next]_vars PROVE ListInv'
  OBVIOUS
<1> USE DEF TypeInv, TypeOK
<1>1. CASE ScanSessions
  BY <1>1, ListSessions DEF ScanSessions
<1>2. CASE GetVmMap \/ CreateVmCapDb
  <2>1. /\ UNCHANGED <<linkmap, libs, node>> /\ pc \in {"ps", "mk_vm"}
        /\ pc' \in {"exited", "mk_vm", "mk_comparts"}
    BY <1>2 DEF GetVmMap, CreateVmCapDb, linkTargetVars, sessionVars
  <2> QED
    BY <2>1, ListQuiet DEF BeforeList
<1>3. CASE ParseElf \/ LabelBlock \/ BlockAttach \/ GetTags \/ GetCapabilities
           \/ BlockDetach \/ InsertVm \/ UpdateVm \/ ScanReturns \/ Finish
  <2>1. UNCHANGED <<linkmap, libs, node>>
    BY <1>3 DEF ParseElf, LabelBlock, BlockAttach, GetTags, GetCapabilities,
       BlockDetach, InsertVm, UpdateVm, ScanReturns, Finish, linkTargetVars,
       sessionVars
  <2>2. pc' \in {"blk", "b_attach", "b_wait", "b_tags", "b_caps", "upd", "done",
                 "exited"}
    BY <1>3 DEF ParseElf, LabelBlock, BlockAttach, PtAttach, Waitpid, GetTags,
       GetCapabilities, BlockDetach, PtDetach, InsertVm, UpdateVm, ScanReturns,
       Finish, ExitFrom
  <2> QED
    BY <2>1, <2>2, ListQuiet DEF BeforeList
<1>4. CASE Target
  <2>1. UNCHANGED <<pc, node, libs>>
    BY <1>4 DEF Target, ptraceVars, sessionVars
  <2>2. \/ UNCHANGED linkmap
        \/ \E l \in Lib : Dlopen(l) \/ Dlclose(l)
    BY <1>4 DEF Target, MapMemory, UnmapMemory, StoreToMemory
  <2>3. MainFirst'
    BY <2>2, ListLinker DEF ListInv, MainFirst, LinkTypes
  <2> QED
    BY <2>1, <2>3 DEF ListInv
<1>5. CASE Kernel \/ Killed \/ UNCHANGED vars
  <2>1. UNCHANGED <<linkmap, libs, node>> /\ pc' \in {pc, "exited"}
    BY <1>5 DEF Kernel, KernelStop, KernelReap, Killed, TargetDies, ExitFrom, vars,
       linkVars, ptraceVars, linkTargetVars, sessionVars
  <2>2. CASE pc' = "exited"
    BY <2>1, <2>2, ListQuiet DEF BeforeList
  <2>3. CASE pc' = pc
    BY <2>1, <2>3 DEF ListInv, MainFirst
  <2> QED
    BY <2>1, <2>2, <2>3
<1>6. CASE RunAgain
  BY <1>6 DEF RunAgain, ListInv, MainFirst, linkTargetVars
<1> QED
  BY <1>1, <1>2, <1>3, <1>4, <1>5, <1>6 DEF Next, ScanMem

(* The first object of the list whose path begins a listed path is not the *)
(* program: the path's own object stands before it.                        *)
LEMMA CompartIdOwn ==
    ASSUME libs \in Seq(Lib), ListInv, NEW base \in ToSet(libs) \ {Main}
    PROVE  \E j \in 1..Len(libs) :
              libs[j] # Main /\ CompartId(base) = DefaultCompart[libs[j]]
<1> DEFINE I == {k \in 1..Len(libs) : libs[k] = base \/ <<libs[k], base>> \in Extends}
<1>1. Len(libs) \in Nat /\ DOMAIN libs = 1..Len(libs)
  BY LenProperties
<1>2. PICK own \in 1..Len(libs) : libs[own] = base
  BY <1>1 DEF ToSet
<1>3. own \in I /\ I \subseteq 1..Len(libs)
  BY <1>2
<1>4. CompartId(base) = LET k == IF I # {} THEN Min(I) ELSE 0
                        IN  IF k = 0 THEN -1 ELSE DefaultCompart[libs[k]]
  BY DEF CompartId, SelectInSeq
<1> HIDE DEF I
<1>5. Min(I) \in I /\ Min(I) <= own
  <2>1. I \subseteq Nat
    BY <1>1, <1>3
  <2> QED
    BY <1>3, <2>1, MinIsLeast
<1>6. Min(I) \in 1..Len(libs) /\ CompartId(base) = DefaultCompart[libs[Min(I)]]
  <2>1. I # {}
    BY <1>3
  <2>2. Min(I) \in 1..Len(libs)
    BY <1>3, <1>5, Zenon
  <2>3. Min(I) # 0
    BY <1>1, <2>2
  <2> QED
    BY <1>4, <2>1, <2>2, <2>3, Zenon
<1>7. libs[Min(I)] # Main
  <2> SUFFICES ASSUME libs[Min(I)] = Main PROVE FALSE
    OBVIOUS
  <2>1. Min(I) = Len(libs)
    BY <1>6 DEF ListInv
  <2>2. own = Min(I)
    <3> DEFINE m == Min(I)
    <3>1. /\ m \in 1..Len(libs) /\ m = Len(libs) /\ m <= own
          /\ own \in 1..Len(libs) /\ Len(libs) \in Nat
      BY <1>1, <1>2, <1>5, <1>6, <2>1, Zenon
    <3> HIDE DEF m
    <3>2. own = m
      BY <3>1
    <3> QED
      BY <3>2 DEF m
  <2> QED
    BY <1>2, <2>2
<1> QED
  BY <1>6, <1>7

LEMMA OwnStep ==
    TypeInv /\ ValuesInv /\ ListInv /\ OwnInv /\ [Next]_vars => OwnInv'
<1> SUFFICES ASSUME TypeInv, ValuesInv, ListInv, OwnInv, [Next]_vars PROVE OwnInv'
  OBVIOUS
<1>1. CASE ScanSessions
  <2>1. pc \in SessionPoints /\ UNCHANGED values
    BY <1>1, SessionControl DEF ScanSessions, blockVars, TypeInv, TypeOK
  <2>2. values = <<>>
    BY <2>1 DEF ValuesInv, Early
  <2> QED
    BY <2>1, <2>2 DEF OwnInv
<1>2. CASE LabelBlock
  <2>1. UNCHANGED libs
    BY <1>2 DEF LabelBlock, sessionVars
  <2>2. PICK row : /\ values' = Append(values, row)
                   /\ row.base = MmapPath(vmmap[i])
                   /\ row.compart = CompartId(MmapPath(vmmap[i]))
    BY <1>2 DEF LabelBlock
  <2>3. row.base \in ToSet(libs) \ {Main} =>
            \E j \in 1..Len(libs) :
                libs[j] # Main /\ row.compart = DefaultCompart[libs[j]]
    BY <2>2, CompartIdOwn DEF TypeInv, TypeOK, LinkTypes
  <2> DEFINE S == ToSet(values) \cup {row}
  <2>4. values \in Seq(S) /\ row \in S
    BY DEF ValuesInv
  <2> HIDE DEF S
  <2>5. /\ Len(values) \in Nat /\ Len(values') = Len(values) + 1
        /\ \A k \in 1..Len(values) + 1 :
              values'[k] = IF k = Len(values) + 1 THEN row ELSE values[k]
    BY <2>2, <2>4, AppendProperties, LenProperties
  <2>6. \A k \in 1..Len(values') : k = Len(values) + 1 \/ k \in 1..Len(values)
    BY <2>5
  <2>7. \A k \in 1..Len(values') :
            \/ values'[k] = row
            \/ k \in 1..Len(values) /\ values'[k] = values[k]
    BY <2>5, <2>6
  <2> QED
    BY <2>1, <2>3, <2>7 DEF OwnInv
<1>3. CASE RunAgain
  BY <1>3 DEF RunAgain, OwnInv
<1>4. CASE GetVmMap \/ CreateVmCapDb \/ ParseElf \/ BlockAttach \/ GetTags
           \/ GetCapabilities \/ BlockDetach \/ InsertVm \/ UpdateVm \/ ScanReturns
           \/ Finish
  <2>1. UNCHANGED <<values, libs>>
    BY <1>4 DEF GetVmMap, CreateVmCapDb, ParseElf, BlockAttach, GetTags,
       GetCapabilities, BlockDetach, InsertVm, UpdateVm, ScanReturns, Finish,
       blockVars, sessionVars
  <2> QED
    BY <2>1 DEF OwnInv
<1>5. CASE Target \/ Kernel \/ Killed \/ UNCHANGED vars
  <2>1. UNCHANGED <<values, libs>>
    BY <1>5 DEF Target, Kernel, Killed, vars, linkVars, blockVars, sessionVars
  <2> QED
    BY <2>1 DEF OwnInv
<1> QED
  BY <1>1, <1>2, <1>3, <1>4, <1>5 DEF Next, ScanMem

(* No block of a listed library is given the program's compartment by the  *)
(* comparison of path beginnings (unless they share it): the list is       *)
(* newest first and the program's entry the oldest, whatever is loaded and *)
(* closed before the walk and between its session and the scan of the      *)
(* blocks (mem_scan.c:226-235, rtld_linkmap_scan.c:262).                   *)
THEOREM OwnCompartment == Spec => []NotTheProgram
<1>1. Init => ValuesInv /\ VmInv /\ ListInv /\ OwnInv
  <2> SUFFICES ASSUME Init PROVE ValuesInv /\ VmInv /\ ListInv /\ OwnInv
    OBVIOUS
  <2>1. ValuesInv /\ VmInv /\ OwnInv
    BY DEF Init, ValuesInv, VmInv, VmRowsLast, InBlock, OwnInv
  <2>2. ListInv
    BY LinkMapAssumption DEF Init, ListInv, MainFirst
  <2> QED
    BY <2>1, <2>2
<1>2. TypeInv /\ OwnInv => NotTheProgram
  <2> SUFFICES ASSUME TypeInv, OwnInv,
                      \A l \in ToSet(libs) \ {Main} :
                          DefaultCompart[l] # DefaultCompart[Main],
                      NEW k \in 1..Len(values), values[k].base \in ToSet(libs) \ {Main}
               PROVE  values[k].compart # DefaultCompart[Main]
    BY DEF NotTheProgram
  <2>1. PICK j \in 1..Len(libs) :
            libs[j] # Main /\ values[k].compart = DefaultCompart[libs[j]]
    BY DEF OwnInv
  <2>2. libs[j] \in ToSet(libs)
    BY LenProperties DEF ToSet, TypeInv, TypeOK, LinkTypes
  <2> QED
    BY <2>1, <2>2
<1> QED
  BY <1>1, <1>2, RowsStep, ListStep, OwnStep, TypeInvariant, PTL DEF Spec

-----------------------------------------------------------------------------
(* The places at which the pages of a block are read. *)
Reading == {"b_tags", "b_caps"}

Complete(r, n) ==
    \A g \in FoundTags(stopmem[<<r, n>>], 0..31) :
        \E c \in cap_info : /\ c.scan = scan /\ c.block = r
                            /\ c.page = n /\ c.slot = g

(* No block comes twice in the map. *)
OrderInv == \A j, k \in 1..Len(vmmap) : j < k => vmmap[j] < vmmap[k]

(* A stopped target's memory is what it was at the stop, but for the       *)
(* blocks finished under an earlier one.                                   *)
FrozenInv ==
    tgt = "stopped" =>
        \A p \in Page : p[1] \notin Finished => stopmem[p] = mem[p]

(* The rows of this scan are of the blocks finished and of the current one. *)
RowsInv ==
    /\ \A c \in cap_info : c.scan = scan => <<c.block, c.page>> \in Page
    /\ pc # "exited" => \A c \in cap_info : c.scan = scan =>
          c.block \in Finished \/ (pc \in Reading /\ c.block = vmmap[i])

(* The pages of the current block: all before pg are complete or a failure *)
(* was ignored; before the stop there are no rows.                         *)
PageInv ==
    /\ pc \in {"b_attach", "b_wait"} => pg = 1
    /\ pc \in Reading /\ tgt \notin {"stopped", "gone"} =>
          /\ \A c \in cap_info : c.scan = scan => c.block # vmmap[i]
          /\ vmmap[i] \in lossy \/ pg = 1
    /\ pc \in Reading /\ vmmap[i] \notin lossy =>
          \A n \in 1..pg - 1 : n <= Current.pages => Complete(vmmap[i], n)
    /\ pc = "b_caps" => tags = FoundTags(stopmem[<<vmmap[i], pg>>], 0..31)

StopInv == OrderInv /\ FrozenInv /\ RowsInv /\ PageInv /\ CapturedAtStop

-----------------------------------------------------------------------------
(* The blocks finished are those in front of the current one. *)
LEMMA FinishedIs ==
    ASSUME BlockTypes
    PROVE  /\ Len(vmmap) \in Nat /\ i \in 1..Len(vmmap) + 1
           /\ Finished = {vmmap[k] : k \in 1..i - 1}
<1>1. Len(vmmap) \in Nat /\ i \in 1..Len(vmmap) + 1
  <2>1. vmmap \in Seq(Block) /\ i \in 1..Len(vmmap) + 1
    BY DEF BlockTypes
  <2> QED
    BY <2>1, LenProperties
<1>2. (IF i > Len(vmmap) THEN Len(vmmap) ELSE i - 1) = i - 1
  BY <1>1
<1> QED
  BY <1>1, <1>2 DEF Finished

LEMMA FinishedKept == UNCHANGED <<vmmap, i>> => Finished' = Finished
BY DEF Finished

LEMMA CurrentNotFinished ==
    ASSUME BlockTypes, OrderInv, i <= Len(vmmap)
    PROVE  /\ vmmap[i] \in Block /\ vmmap[i] \notin Finished
           /\ Region[vmmap[i]].pages \in Nat
<1>1. vmmap[i] \in Block /\ Len(Region) \in Nat /\ Region[vmmap[i]].pages \in Nat
  BY CurrentType, RegionType DEF Current
<1>2. i \in 1..Len(vmmap) /\ Len(vmmap) \in Nat
  BY FinishedIs
<1>3. \A k \in 1..i - 1 : vmmap[k] # vmmap[i]
  <2> SUFFICES ASSUME NEW k \in 1..i - 1, vmmap[k] = vmmap[i] PROVE FALSE
    OBVIOUS
  <2>1. vmmap[k] < vmmap[i]
    BY <1>2 DEF OrderInv
  <2>2. vmmap[i] \in Nat
    BY <1>1 DEF Block
  <2> QED
    BY <2>1, <2>2
<1> QED
  BY <1>1, <1>3, FinishedIs

(* The place of a step that touches neither the blocks nor their rows:     *)
(* inside a block it goes forward, the stop is not left, and the target's  *)
(* memory changes only while it runs.                                      *)
QuietPlace ==
    \/ pc' = "exited"
    \/ pc' = pc /\ (tgt \in {"stopped", "gone"} => tgt' \in {"stopped", "gone"})
    \/ pc' \notin InBlock /\ pc \notin Reading \cup {"exited"}
    \/ pc \in {"b_attach", "b_wait"} /\ pc' \in {"b_wait", "b_tags"}

LEMMA StopQuiet ==
    ASSUME TypeInv, StopInv, QuietPlace,
           pc = "exited" => pc' = "exited" \/ pc' = pc,
           UNCHANGED <<vmmap, i, pg, tags, cap_info, scan, stopmem, lossy>>,
           tgt' = "stopped" => tgt = "stopped" /\ UNCHANGED mem
    PROVE  StopInv'
<1> USE DEF StopInv
<1>1. Finished' = Finished
  BY FinishedKept
<1>2. \A r, n : Complete(r, n)' = Complete(r, n)
  BY DEF Complete
<1>3. pc \in InBlock => i <= Len(vmmap)
  BY DEF TypeInv, ControlInv
<1>4. pc \in InBlock => vmmap[i] \notin Finished
  BY <1>3, CurrentNotFinished DEF TypeInv, TypeOK
<1>5. OrderInv'
  BY DEF OrderInv
<1>6. FrozenInv'
  BY <1>1 DEF FrozenInv
<1>7. RowsInv'
  BY <1>1 DEF RowsInv, QuietPlace, Reading, InBlock
<1>8. CapturedAtStop'
  BY <1>1 DEF CapturedAtStop
<1>9. PageInv'
  <2>1. CASE pc' = "exited" \/ (pc' \notin InBlock)
    BY <2>1 DEF PageInv, Reading, InBlock
  <2>2. CASE /\ pc' = pc /\ pc' \in InBlock
             /\ tgt \in {"stopped", "gone"} => tgt' \in {"stopped", "gone"}
    <3>1. Current' = Current
      BY DEF Current
    <3> QED
      BY <1>2, <2>2, <3>1 DEF PageInv
  <2>3. CASE pc \in {"b_attach", "b_wait"} /\ pc' \in {"b_wait", "b_tags"}
    <3>1. pg = 1 /\ pc \in InBlock /\ pc # "exited" /\ pc \notin Reading
      BY <2>3 DEF PageInv, InBlock, Reading
    <3>2. \A c \in cap_info : c.scan = scan => c.block # vmmap[i]
      BY <1>4, <3>1 DEF RowsInv
    <3> QED
      BY <2>3, <3>1, <3>2 DEF PageInv
  <2> QED
    BY <2>1, <2>2, <2>3 DEF QuietPlace
<1> QED
  BY <1>5, <1>6, <1>7, <1>8, <1>9

-----------------------------------------------------------------------------
LEMMA StopGetVmMap == TypeInv /\ StopInv /\ GetVmMap => StopInv'
<1> SUFFICES ASSUME TypeInv, StopInv, GetVmMap PROVE StopInv'
  OBVIOUS
<1> USE DEF StopInv
<1>1. /\ pc = "ps" /\ pc' \in {"exited", "mk_vm"} /\ i = 1
      /\ vmmap' = vmmap \/ vmmap' \in InAddressOrder(mapped)
      /\ UNCHANGED <<tgt, mem, i, pg, tags, cap_info, scan, stopmem, lossy>>
  BY DEF GetVmMap, memVars, dbVars, ghostVars, TypeInv, ControlInv
<1>2. Finished = {} /\ Finished' = {}
  <2>1. Len(vmmap) \in Nat /\ Len(vmmap') \in Nat
    <3>1. BlockTypes /\ BlockTypes'
      BY TypeGetVmMap DEF TypeInv, TypeOK
    <3>2. vmmap \in Seq(Block) /\ vmmap' \in Seq(Block)
      BY <3>1 DEF BlockTypes
    <3> QED
      BY <3>2, LenProperties
  <2> QED
    BY <1>1, <2>1 DEF Finished
<1>3. \A c \in cap_info : c.scan # scan
  BY <1>1, <1>2 DEF RowsInv, Reading
<1>4. OrderInv'
  <2>1. CASE vmmap' = vmmap
    BY <2>1 DEF OrderInv
  <2>2. CASE vmmap' \in InAddressOrder(mapped)
    <3>1. IsFiniteSet(Block)
      BY RegionType, FS_Interval DEF Block
    <3>2. Cardinality(mapped) \in Nat
      BY <3>1, FS_Subset, FS_CardinalityType DEF TypeInv, TypeOK, BlockTypes
    <3>3. Len(vmmap') = Cardinality(mapped)
      BY <2>2, <3>2 DEF InAddressOrder
    <3> QED
      BY <2>2, <3>3 DEF InAddressOrder, OrderInv
  <2> QED
    BY <1>1, <2>1, <2>2
<1>5. FrozenInv'
  BY <1>1, <1>2 DEF FrozenInv
<1>6. RowsInv'
  BY <1>1, <1>3 DEF RowsInv
<1>7. PageInv'
  BY <1>1 DEF PageInv, Reading
<1>8. CapturedAtStop'
  BY <1>1, <1>2, <1>3 DEF CapturedAtStop
<1> QED
  BY <1>4, <1>5, <1>6, <1>7, <1>8

LEMMA StopLabelBlock == StopInv /\ LabelBlock => StopInv'
<1> SUFFICES ASSUME StopInv, LabelBlock PROVE StopInv'
  OBVIOUS
<1> USE DEF StopInv
<1>1. /\ pc = "blk" /\ pc' = "b_attach" /\ pg' = 1
      /\ UNCHANGED <<tgt, mem, vmmap, i, cap_info, scan, stopmem, lossy>>
  BY DEF LabelBlock, memVars, dbVars, ghostVars
<1>2. Finished' = Finished
  BY <1>1, FinishedKept
<1>3. OrderInv' /\ FrozenInv'
  BY <1>1, <1>2 DEF OrderInv, FrozenInv
<1>4. RowsInv' /\ CapturedAtStop'
  BY <1>1, <1>2 DEF RowsInv, CapturedAtStop, Reading
<1>5. PageInv'
  BY <1>1 DEF PageInv, Reading
<1> QED
  BY <1>3, <1>4, <1>5

(* One page's tags are read, or the page is left out. *)
LEMMA StopGetTags == TypeInv /\ StopInv /\ GetTags => StopInv'
<1> SUFFICES ASSUME TypeInv, StopInv, GetTags PROVE StopInv'
  OBVIOUS
<1> USE DEF StopInv
<1> DEFINE cur == vmmap[i]
           found == FoundTags(mem[<<cur, pg>>], 0..31)
<1>1. /\ pc = "b_tags" /\ Current.hascap /\ pg <= Current.pages
      /\ UNCHANGED <<tgt, mem, vmmap, i, cap_info, scan, stopmem>>
  BY DEF GetTags, memVars, dbVars
<1>2. \/ /\ tgt = "stopped" /\ found = {} /\ pc' = pc /\ pg' = pg + 1
         /\ UNCHANGED lossy
      \/ /\ tgt = "stopped" /\ pc' = "b_caps" /\ pg' = pg /\ tags' = found
         /\ UNCHANGED lossy
      \/ pc' = pc /\ pg' = pg + 1 /\ lossy' = lossy \cup {cur}
  BY DEF GetTags, PageDone
<1>3. /\ BlockTypes /\ i <= Len(vmmap) /\ pg \in Nat \ {0}
  BY <1>1 DEF TypeInv, TypeOK, ControlInv, InBlock, BlockTypes
<1>4. cur \in Block /\ cur \notin Finished /\ Region[cur].pages \in Nat
  BY <1>3, CurrentNotFinished
<1>5. <<cur, pg>> \in Page
  BY <1>1, <1>3, <1>4 DEF Page, Current
<1>6. tgt = "stopped" => mem[<<cur, pg>>] = stopmem[<<cur, pg>>]
  <2>1. <<cur, pg>>[1] = cur
    OBVIOUS
  <2> QED
    BY <1>4, <1>5, <2>1 DEF FrozenInv
<1>7. Finished' = Finished /\ Current' = Current
  BY <1>1, FinishedKept DEF Current
<1>8. \A r, n : Complete(r, n)' = Complete(r, n)
  BY <1>1 DEF Complete
<1>9. OrderInv' /\ FrozenInv'
  BY <1>1, <1>7 DEF OrderInv, FrozenInv
<1>10. RowsInv'
  BY <1>1, <1>2, <1>7 DEF RowsInv, Reading
<1>11. CapturedAtStop'
  <2>1. lossy \subseteq lossy'
    BY <1>2
  <2> QED
    BY <1>1, <1>7, <2>1 DEF CapturedAtStop
<1>12. PageInv'
  <2> HIDE DEF found
  <2>1. pc' \notin {"b_attach", "b_wait"} /\ pc \in Reading /\ cur' = cur
    BY <1>1, <1>2 DEF Reading
  <2>2. ASSUME tgt' \notin {"stopped", "gone"}
        PROVE  /\ \A c \in cap_info' : c.scan = scan' => c.block # cur
               /\ cur \in lossy'
    BY <1>1, <1>2, <2>1, <2>2 DEF PageInv
  <2>3. ASSUME cur \notin lossy', NEW n \in 1..pg' - 1, n <= Current.pages
        PROVE  Complete(cur, n)
    <3>1. cur \notin lossy
      BY <1>2, <2>3
    <3>2. CASE n <= pg - 1
      BY <1>3, <2>1, <2>3, <3>1, <3>2 DEF PageInv
    <3>3. CASE ~(n <= pg - 1)
      <4>1. tgt = "stopped" /\ found = {} /\ n = pg
        BY <1>2, <1>3, <2>3, <3>3
      <4>2. FoundTags(stopmem[<<cur, pg>>], 0..31) = {}
        BY <1>6, <4>1 DEF found
      <4> QED
        BY <4>1, <4>2 DEF Complete
    <3> QED
      BY <3>2, <3>3
  <2>4. pc' = "b_caps" => tags' = FoundTags(stopmem[<<cur, pg>>], 0..31) /\ pg' = pg
    BY <1>1, <1>2, <1>6 DEF found
  <2> QED
    BY <1>1, <1>7, <1>8, <2>1, <2>2, <2>3, <2>4 DEF PageInv
<1> QED
  BY <1>9, <1>10, <1>11, <1>12

(* The rows of one page are stored, or a failure is on record. *)
LEMMA StopGetCapabilities ==
    TypeInv /\ CapsInv /\ StopInv /\ GetCapabilities => StopInv'
<1> SUFFICES ASSUME TypeInv, CapsInv, StopInv, GetCapabilities PROVE StopInv'
  OBVIOUS
<1> USE DEF StopInv
<1> DEFINE cur == vmmap[i]
           Row(g, bad) ==
        [scan |-> scan, block |-> cur, page |-> pg, slot |-> g,
         base |-> Last(values).base, suffix |-> Last(values).suffix,
         junk |-> g \in bad]
<1>1. /\ pc = "b_caps" /\ pc' = "b_tags" /\ pg' = pg + 1
      /\ UNCHANGED <<tgt, mem, vmmap, i, scan, stopmem>>
  BY DEF GetCapabilities, PageDone, memVars
<1>2. PICK bad : \/ /\ cap_info' = cap_info \cup {Row(g, bad) : g \in tags}
                    /\ lossy \subseteq lossy'
                 \/ cap_info' = cap_info /\ lossy' = lossy \cup {cur}
  <2>1. PICK ok \in SqlOutcomes("cap_info"),
             bad \in IF tgt = "stopped" THEN {{}} ELSE SUBSET tags :
           /\ cap_info' = IF ~ok THEN cap_info
                                ELSE cap_info \cup {Row(g, bad) : g \in tags}
           /\ lossy' = IF ok /\ bad = {} THEN lossy ELSE lossy \cup {cur}
    BY ZenonT(40) DEF GetCapabilities, LabelPassed
  <2>2. CASE ok
    <3>1. cap_info' = cap_info \cup {Row(g, bad) : g \in tags}
      BY <2>1, <2>2
    <3>2. lossy \subseteq lossy'
      BY <2>1
    <3> QED
      BY <3>1, <3>2
  <2>3. CASE ~ok
    <3>1. cap_info' = cap_info /\ lossy' = lossy \cup {cur}
      BY <2>1, <2>3
    <3> QED
      BY <3>1
  <2> QED
    BY <2>2, <2>3
<1>3. \A g : /\ Row(g, bad).scan = scan /\ Row(g, bad).block = cur
             /\ Row(g, bad).page = pg /\ Row(g, bad).slot = g
  OBVIOUS
<1> HIDE DEF Row
<1>4. \A c \in cap_info' \ cap_info : /\ c.scan = scan /\ c.block = cur
                                      /\ c.page = pg /\ c.slot \in tags
  BY <1>2, <1>3
<1>5. /\ cap_info \subseteq cap_info' /\ lossy \subseteq lossy'
      /\ cur \notin lossy' => \A g \in tags :
            \E c \in cap_info' : /\ c.scan = scan /\ c.block = cur
                                 /\ c.page = pg /\ c.slot = g
  BY <1>2, <1>3
<1>6. /\ tgt \in {"stopped", "gone"} /\ <<cur, pg>> \in Page /\ pg \in Nat
      /\ tags = FoundTags(stopmem[<<cur, pg>>], 0..31)
  BY <1>1 DEF CapsInv, PageInv, TypeInv, TypeOK, BlockTypes
<1>7. Finished' = Finished /\ Current' = Current
  BY <1>1, FinishedKept DEF Current
<1>8. pc \in Reading /\ pc' \in Reading
  BY <1>1 DEF Reading
<1>9. OrderInv' /\ FrozenInv'
  BY <1>1, <1>7 DEF OrderInv, FrozenInv
<1>10. RowsInv'
  <2> SUFFICES ASSUME NEW c \in cap_info', c.scan = scan
               PROVE  /\ <<c.block, c.page>> \in Page
                      /\ c.block \in Finished \/ c.block = cur
    BY <1>1, <1>7, <1>8 DEF RowsInv
  <2>1. CASE c \in cap_info
    BY <1>1, <2>1 DEF RowsInv
  <2>2. CASE c \notin cap_info
    <3>1. c.block = cur /\ c.page = pg
      BY <1>4, <2>2
    <3> QED
      BY <1>6, <3>1
  <2> QED
    BY <2>1, <2>2
<1>11. \A r, n : Complete(r, n) => Complete(r, n)'
  BY <1>1, <1>5 DEF Complete
<1>12. CapturedAtStop'
  <2>1. ASSUME NEW c \in cap_info', c.scan = scan, ~c.junk
        PROVE  c.slot \in stopmem[<<c.block, c.page>>]
    <3>1. CASE c \in cap_info
      BY <2>1, <3>1 DEF CapturedAtStop
    <3>2. CASE c \notin cap_info
      <4>1. c.block = cur /\ c.page = pg /\ c.slot \in tags
        BY <1>4, <3>2
      <4>2. tags \subseteq stopmem[<<cur, pg>>]
        BY <1>6, FoundTagsSubset
      <4> QED
        BY <4>1, <4>2
    <3> QED
      BY <3>1, <3>2
  <2>2. ASSUME NEW r \in Finished \ lossy', Region[r].hascap,
               NEW n \in 1..Region[r].pages
        PROVE  Complete(r, n)'
    <3>1. Complete(r, n)
      BY <1>5, <2>2 DEF CapturedAtStop, Complete
    <3> QED
      BY <1>11, <3>1
  <2> QED
    BY <1>1, <1>7, <2>1, <2>2 DEF CapturedAtStop, Complete
<1>13. PageInv'
  <2>1. ASSUME cur \notin lossy', NEW n \in 1..pg' - 1, n <= Current.pages
        PROVE  Complete(cur, n)'
    <3>1. CASE n <= pg - 1
      BY <1>1, <1>5, <1>6, <1>8, <1>11, <2>1, <3>1 DEF PageInv
    <3>2. CASE ~(n <= pg - 1)
      <4>1. n = pg
        BY <1>1, <1>6, <2>1, <3>2
      <4> QED
        BY <1>1, <1>5, <1>6, <2>1, <4>1 DEF Complete
    <3> QED
      BY <3>1, <3>2
  <2>2. cur' = cur
    BY <1>1
  <2> QED
    BY <1>1, <1>6, <1>7, <2>1, <2>2 DEF PageInv
<1> QED
  BY <1>9, <1>10, <1>12, <1>13

(* The block's pages are all stored when it is left. *)
LEMMA StopBlockDetach == TypeInv /\ StopInv /\ BlockDetach => StopInv'
<1> SUFFICES ASSUME TypeInv, StopInv, BlockDetach PROVE StopInv'
  OBVIOUS
<1> USE DEF StopInv
<1> DEFINE cur == vmmap[i]
<1>1. /\ pc = "b_tags" /\ pc' = "blk" /\ i' = i + 1
      /\ Current.hascap => pg > Current.pages
      /\ tgt' = "stopped" => tgt = "stopped"
      /\ UNCHANGED <<mem, vmmap, pg, tags, cap_info, scan, stopmem, lossy>>
  BY DEF BlockDetach, PtDetach, memVars, dbVars, ghostVars
<1>2. BlockTypes /\ BlockTypes'
  BY TypeBlockDetach DEF TypeInv, TypeOK
<1>3. i <= Len(vmmap) /\ pg \in Nat
  BY <1>1 DEF TypeInv, TypeOK, ControlInv, InBlock, BlockTypes
<1>4. Region[cur].pages \in Nat
  BY <1>2, <1>3, CurrentNotFinished
<1>5. Finished' = Finished \cup {cur}
  <2>1. /\ i \in Nat \ {0}
        /\ Finished = {vmmap[k] : k \in 1..i - 1}
    <3>1. /\ Len(vmmap) \in Nat /\ i \in 1..Len(vmmap) + 1
          /\ Finished = {vmmap[k] : k \in 1..i - 1}
      BY <1>2, FinishedIs
    <3> QED
      BY <3>1
  <2>2. Finished' = {vmmap[k] : k \in 1..i}
    <3>1. (IF i + 1 > Len(vmmap) THEN Len(vmmap) ELSE (i + 1) - 1) = i
      BY <1>2, <1>3, <2>1, FinishedIs
    <3>2. (IF i' > Len(vmmap') THEN Len(vmmap') ELSE i' - 1) = i
      BY <1>1, <3>1
    <3>3. Finished' = {vmmap'[k] : k \in 1..(IF i' > Len(vmmap') THEN Len(vmmap')
                                             ELSE i' - 1)}
      BY DEF Finished
    <3>4. Finished' = {vmmap'[k] : k \in 1..i}
      BY <3>2, <3>3
    <3> QED
      BY <1>1, <3>4
  <2>3. 1..i = (1..i - 1) \cup {i}
    BY <2>1
  <2> QED
    BY <2>1, <2>2, <2>3
<1>6. OrderInv' /\ FrozenInv'
  BY <1>1, <1>5 DEF OrderInv, FrozenInv
<1>7. RowsInv'
  BY <1>1, <1>5 DEF RowsInv
<1>8. PageInv'
  BY <1>1 DEF PageInv, Reading
<1>9. CapturedAtStop'
  <2>1. ASSUME NEW r \in Finished' \ lossy, Region[r].hascap,
               NEW n \in 1..Region[r].pages
        PROVE  Complete(r, n)
    <3>1. CASE r \in Finished
      BY <2>1, <3>1 DEF CapturedAtStop, Complete
    <3>2. CASE r = cur
      <4>1. n \in 1..pg - 1 /\ n <= Current.pages
        BY <1>1, <1>3, <1>4, <2>1, <3>2 DEF Current
      <4> QED
        BY <1>1, <2>1, <3>2, <4>1 DEF PageInv, Reading
    <3> QED
      BY <1>5, <2>1, <3>1, <3>2
  <2> QED
    BY <1>1, <2>1 DEF CapturedAtStop, Complete
<1> QED
  BY <1>6, <1>7, <1>8, <1>9

(* The stop takes effect: the memory of the blocks to come is noted. *)
LEMMA StopKernel == TypeInv /\ CapsInv /\ StopInv /\ Kernel => StopInv'
<1> SUFFICES ASSUME TypeInv, CapsInv, StopInv, Kernel PROVE StopInv'
  OBVIOUS
<1> USE DEF StopInv
<1>1. UNCHANGED <<pc, mem, vmmap, i, pg, tags, cap_info, scan, lossy>>
  BY DEF Kernel, KernelStop, KernelReap, memVars, blockVars, dbVars
<1>2. CASE KernelReap
  <2>1. pc = "exited" /\ tgt' # "stopped" /\ UNCHANGED stopmem
    BY <1>2 DEF Kernel, KernelReap, KernelStop
  <2> QED
    BY <1>1, <2>1, StopQuiet DEF QuietPlace
<1>3. CASE KernelStop
  <2>1. /\ tgt = "traced" /\ tgt' = "stopped" /\ pc # "exited"
        /\ stopmem' = [p \in Page |-> IF p[1] \in Finished THEN stopmem[p]
                                      ELSE mem[p]]
    BY <1>3 DEF Kernel, KernelStop, KernelReap
  <2>2. pc # "b_caps"
    BY <2>1 DEF CapsInv
  <2>3. Finished' = Finished /\ Current' = Current
    BY <1>1, FinishedKept DEF Current
  <2>4. \A r, n : <<r, n>> \in Page /\ r \in Finished =>
                      stopmem'[<<r, n>>] = stopmem[<<r, n>>]
    BY <2>1
  <2>5. OrderInv'
    BY <1>1 DEF OrderInv
  <2>6. FrozenInv'
    BY <1>1, <2>1, <2>3 DEF FrozenInv
  <2>7. RowsInv'
    BY <1>1, <2>3 DEF RowsInv
  <2>8. \A c \in cap_info : c.scan = scan =>
            c.block \in Finished /\ <<c.block, c.page>> \in Page
    BY <2>1 DEF RowsInv, PageInv
  <2>9. CapturedAtStop'
    <3>1. ASSUME NEW c \in cap_info, c.scan = scan, ~c.junk
          PROVE  c.slot \in stopmem'[<<c.block, c.page>>]
      <4>1. c.slot \in stopmem[<<c.block, c.page>>]
        BY <3>1 DEF CapturedAtStop
      <4> QED
        BY <2>4, <2>8, <3>1, <4>1
    <3>2. ASSUME NEW r \in Finished \ lossy, Region[r].hascap,
                 NEW n \in 1..Region[r].pages
          PROVE  Complete(r, n)'
      <4>1. r \in Block
        <5>1. BlockTypes
          BY DEF TypeInv, TypeOK
        <5>2. /\ Finished = {vmmap[k] : k \in 1..i - 1}
              /\ i \in 1..Len(vmmap) + 1 /\ Len(vmmap) \in Nat
          BY <5>1, FinishedIs
        <5>3. \A k \in 1..Len(vmmap) : vmmap[k] \in Block
          BY <5>1, ElementOfSeq DEF BlockTypes
        <5> QED
          BY <3>2, <5>2, <5>3
      <4>2. <<r, n>> \in Page
        BY <3>2, <4>1 DEF Page
      <4>3. stopmem'[<<r, n>>] = stopmem[<<r, n>>]
        BY <2>4, <3>2, <4>2
      <4>4. Complete(r, n)
        BY <3>2 DEF CapturedAtStop, Complete
      <4> QED
        BY <1>1, <4>3, <4>4 DEF Complete
    <3> QED
      BY <1>1, <2>3, <3>1, <3>2 DEF CapturedAtStop, Complete
  <2>10. PageInv'
    <3>1. pc \in Reading /\ vmmap[i] \notin lossy => pg = 1
      BY <2>1 DEF PageInv
    <3> QED
      BY <1>1, <2>1, <2>2, <3>1 DEF PageInv
  <2> QED
    BY <2>5, <2>6, <2>7, <2>9, <2>10
<1> QED
  BY <1>2, <1>3 DEF Kernel

LEMMA StopRunAgain == TypeInv /\ JunkInv /\ RunAgain => StopInv'
<1> SUFFICES ASSUME TypeInv, JunkInv, RunAgain PROVE StopInv'
  OBVIOUS
<1>1. /\ pc' = "ps" /\ tgt' = "running" /\ vmmap' = <<>> /\ i' = 1
      /\ UNCHANGED cap_info /\ scan' = scan + 1
  BY DEF RunAgain, dbVars
<1>2. scan \in Nat
  <2>1. scan \in 1..MaxScans
    BY DEF TypeInv, TypeOK, BlockTypes
  <2> QED
    BY <2>1, ScanAssumption
<1>3. \A c \in cap_info' : c.scan # scan'
  BY <1>1, <1>2 DEF JunkInv
<1>4. Len(vmmap') = 0
  BY <1>1
<1>5. Finished' = {}
  BY <1>1, <1>4 DEF Finished
<1>6. OrderInv' /\ FrozenInv'
  BY <1>1, <1>4 DEF OrderInv, FrozenInv
<1>7. RowsInv' /\ PageInv'
  BY <1>1, <1>3 DEF RowsInv, PageInv, Reading
<1>8. CapturedAtStop'
  BY <1>3, <1>5 DEF CapturedAtStop
<1> QED
  BY <1>6, <1>7, <1>8 DEF StopInv

LEMMA StopInit == Init => StopInv
<1> SUFFICES ASSUME Init PROVE StopInv
  OBVIOUS
<1>1. /\ pc = "ps" /\ tgt = "running" /\ vmmap = <<>> /\ i = 1 /\ cap_info = {}
      /\ Len(vmmap) = 0
  BY DEF Init
<1>2. Finished = {}
  BY <1>1 DEF Finished
<1> QED
  BY <1>1, <1>2 DEF StopInv, OrderInv, FrozenInv, RowsInv, PageInv, Reading,
     CapturedAtStop

(* The rest of the scan is outside the loop over the pages. *)
LEMMA StopScanMem ==
    TypeInv /\ CapsInv /\ StopInv /\ ScanMem => StopInv'
<1> SUFFICES ASSUME TypeInv, CapsInv, StopInv, ScanMem PROVE StopInv'
  OBVIOUS
<1> DEFINE Kept == UNCHANGED <<vmmap, i, pg, tags, cap_info, scan, stopmem,
                               lossy, mem>>
<1>1. CASE CreateVmCapDb \/ InsertVm \/ UpdateVm \/ ScanReturns \/ Finish
  <2>1. Kept /\ UNCHANGED tgt
    BY <1>1 DEF CreateVmCapDb, InsertVm, UpdateVm, ScanReturns, Finish, ExitFrom,
       blockVars, dbVars, ghostVars, memVars
  <2>2. /\ pc \in {"mk_vm", "blk", "upd", "done"}
        /\ pc' \in {"mk_comparts", "upd", "done", "exited"}
    BY <1>1 DEF CreateVmCapDb, InsertVm, UpdateVm, ScanReturns, Finish, ExitFrom
  <2>3. QuietPlace
    BY <2>2 DEF QuietPlace, InBlock, Reading
  <2> QED
    BY <2>1, <2>2, <2>3, StopQuiet
<1>2. CASE ScanSessions
  <2>1. pc \in SessionPoints /\ pc' \in SessionPoints \cup {"blk", "exited"}
    BY <1>2, SessionControl DEF ScanSessions, TypeInv, TypeOK
  <2>2. Kept
    BY <1>2 DEF ScanSessions, blockVars, dbVars, ghostVars, memVars
  <2>3. tgt' = "stopped" => tgt = "stopped"
    BY <1>2 DEF ScanSessions, Sessions, CreateCompartsTable, GetAuxv,
       SessionAttach, PiodReadFails, GetRDebug, LinkmapEntry, SubcompartEntry,
       LinkmapEnd, CompartsEntry, CompartsEnd, CompartsNameLost, PtAttach, Waitpid,
       PtDetach, ExitFrom
  <2>4. QuietPlace /\ pc # "exited"
    BY <2>1 DEF QuietPlace, InBlock, Reading, SessionPoints, AttachPoints
  <2> QED
    BY <2>2, <2>3, <2>4, StopQuiet
<1>3. CASE ParseElf
  <2>1. /\ pc = "blk" /\ pc' \in {pc, "exited"} /\ Kept /\ UNCHANGED tgt
    BY <1>3 DEF ParseElf, ghostVars, memVars
  <2>2. QuietPlace
    BY <2>1 DEF QuietPlace
  <2> QED
    BY <2>1, <2>2, StopQuiet
<1>4. CASE BlockAttach
  <2>1. /\ pc \in {"b_attach", "b_wait"} /\ pc' \in {"b_wait", "b_tags"}
        /\ tgt' = "stopped" => tgt = "stopped"
    BY <1>4 DEF BlockAttach, PtAttach, Waitpid
  <2>2. Kept
    BY <1>4 DEF BlockAttach, blockVars, dbVars, ghostVars, memVars
  <2> QED
    BY <2>1, <2>2, StopQuiet DEF QuietPlace
<1> QED
  BY <1>1, <1>2, <1>3, <1>4, StopGetVmMap, StopLabelBlock, StopGetTags,
     StopGetCapabilities, StopBlockDetach DEF ScanMem

LEMMA StopStep ==
    TypeInv /\ CapsInv /\ JunkInv /\ StopInv /\ [Next]_vars => StopInv'
<1> SUFFICES ASSUME TypeInv, CapsInv, JunkInv, StopInv, [Next]_vars PROVE StopInv'
  OBVIOUS
<1> DEFINE Kept == UNCHANGED <<vmmap, i, pg, tags, cap_info, scan, stopmem, lossy>>
<1>1. CASE ScanMem
  BY <1>1, StopScanMem
<1>2. CASE Target
  <2>1. /\ TargetRuns
        /\ UNCHANGED <<ptraceVars, sessionVars, linkDbVars, blockVars, ghostVars>>
    BY <1>2, TargetFacts DEF TypeInv, TypeOK
  <2>2. UNCHANGED dbVars
    BY <1>2 DEF Target
  <2>3. Kept /\ UNCHANGED <<pc, tgt>> /\ tgt # "stopped"
    BY <2>1, <2>2 DEF ptraceVars, blockVars, ghostVars, dbVars, TargetRuns
  <2> QED
    BY <2>3, StopQuiet DEF QuietPlace
<1>3. CASE Kernel
  BY <1>3, StopKernel
<1>4. CASE Killed
  <2>1. Kept /\ UNCHANGED mem
    BY <1>4 DEF Killed, blockVars, dbVars, ghostVars, memVars
  <2>2. \/ pc' = pc /\ tgt' = "gone"
        \/ pc' = "exited" /\ tgt' = tgt
    BY <1>4 DEF Killed, TargetDies, ExitFrom
  <2> QED
    BY <2>1, <2>2, StopQuiet DEF QuietPlace
<1>5. CASE RunAgain
  BY <1>5, StopRunAgain
<1>6. CASE UNCHANGED vars
  <2>1. Kept /\ UNCHANGED <<pc, tgt, mem>>
    BY <1>6 DEF vars, linkVars, ptraceVars, blockVars, dbVars, ghostVars, memVars
  <2> QED
    BY <2>1, StopQuiet DEF QuietPlace
<1> QED
  BY <1>1, <1>2, <1>3, <1>4, <1>5, <1>6 DEF Next

(* The rows of a block are the capabilities that get_tags recognizes in it *)
(* at the moment its stop took effect: none too many ever, and none        *)
(* missing once the block is finished without an ignored failure, however  *)
(* the target's writes, failures and deaths fall between the attach, the   *)
(* pages and the detach (mem_scan.c:258-274, cap_capture.c:127-189).       *)
THEOREM CaptureAtStop == Spec => []CapturedAtStop
<1>1. Init => CapsInv /\ JunkInv
  BY DEF Init, CapsInv, JunkInv, JunkOnlyWhenKilled
<1>2. StopInv => CapturedAtStop
  BY DEF StopInv
<1> QED
  BY <1>1, <1>2, StopInit, CapsStep, JunkStep, StopStep, TypeInvariant, PTL DEF Spec

-----------------------------------------------------------------------------
(* The rows of this scan carry the label that `values' has for their       *)
(* block, those of vm since the INSERT and through every UPDATE; once it   *)
(* has succeeded every block of `values' has its row.                      *)
Labelled(rows) ==
    \A r \in rows : r.scan = scan =>
        \E k \in 1..Len(values) :
            values[k].block = r.block /\ LabelOf(values[k]) = LabelOf(r)

Stored ==
    \A k \in 1..Len(values) :
        \E row \in vm : row.scan = scan /\ row.block = values[k].block

Joined ==
    \A c \in cap_info, row \in vm :
        c.scan = row.scan /\ c.block = row.block => LabelOf(c) = LabelOf(row)

LabelInv ==
    /\ Labelled(cap_info) /\ Labelled(vm) /\ Joined
    /\ pc \in {"upd", "done"} /\ "sql" \notin silent => Stored

LEMMA LabelQuiet ==
    ASSUME LabelInv, UNCHANGED <<vm, cap_info, values, scan>>,
           pc' \in {"upd", "done"} =>
               pc \in {"upd", "done"} /\ silent \subseteq silent'
    PROVE  LabelInv'
<1>1. Labelled(cap_info)' /\ Labelled(vm)' /\ Joined' /\ (Stored' <=> Stored)
  BY DEF LabelInv, Labelled, Joined, Stored, LabelOf
<1> QED
  BY <1>1 DEF LabelInv

LEMMA LabelLabelBlock ==
    TypeInv /\ ValuesInv /\ LabelInv /\ LabelBlock => LabelInv'
<1> SUFFICES ASSUME TypeInv, ValuesInv, LabelInv, LabelBlock PROVE LabelInv'
  OBVIOUS
<1>1. /\ pc' = "b_attach" /\ UNCHANGED <<vm, cap_info, scan>>
      /\ \E row : values' = Append(values, row)
  BY DEF LabelBlock, dbVars, ghostVars
<1>2. /\ Len(values) \in Nat /\ Len(values') = Len(values) + 1
      /\ \A k \in 1..Len(values) : values'[k] = values[k]
  <2>1. PICK row : values' = Append(values, row)
    BY <1>1
  <2>2. values \in Seq(ToSet(values) \cup {row}) /\ row \in ToSet(values) \cup {row}
    BY DEF ValuesInv
  <2> DEFINE S == ToSet(values) \cup {row}
  <2>3. values \in Seq(S) /\ row \in S
    BY <2>2
  <2> HIDE DEF S
  <2>4. Len(values) \in Nat
    BY <2>3, LenProperties
  <2> QED
    BY <2>1, <2>3, <2>4, AppendProperties
<1>3. \A k \in 1..Len(values) : k \in 1..Len(values') /\ values'[k] = values[k]
  BY <1>2
<1>4. Labelled(cap_info)' /\ Labelled(vm)'
  <2>1. ASSUME NEW r \in cap_info \cup vm, r.scan = scan
        PROVE  \E k \in 1..Len(values') :
                  /\ values'[k].block = r.block
                  /\ LabelOf(values'[k]) = LabelOf(r)
    <3>1. PICK k \in 1..Len(values) :
              values[k].block = r.block /\ LabelOf(values[k]) = LabelOf(r)
      BY <2>1 DEF LabelInv, Labelled
    <3> QED
      BY <1>3, <3>1
  <2> QED
    BY <1>1, <2>1 DEF Labelled, LabelOf
<1>5. Joined'
  BY <1>1 DEF LabelInv, Joined, LabelOf
<1> QED
  BY <1>1, <1>4, <1>5 DEF LabelInv

(* The rows of get_tags are given the label of the current block, before   *)
(* vm has a row of this scan.                                              *)
LEMMA LabelGetCapabilities ==
    TypeInv /\ ValuesInv /\ VmInv /\ LabelInv /\ GetCapabilities => LabelInv'
<1> SUFFICES ASSUME TypeInv, ValuesInv, VmInv, LabelInv, GetCapabilities
             PROVE  LabelInv'
  OBVIOUS
<1> DEFINE Row(g, bad) ==
        [scan |-> scan, block |-> vmmap[i], page |-> pg, slot |-> g,
         base |-> Last(values).base, suffix |-> Last(values).suffix,
         junk |-> g \in bad]
<1>1. /\ pc = "b_caps" /\ pc' = "b_tags" /\ UNCHANGED <<vm, values, scan>>
  BY DEF GetCapabilities, ghostVars
<1>2. PICK bad : cap_info' \subseteq cap_info \cup {Row(g, bad) : g \in tags}
  BY DEF GetCapabilities, LabelPassed
<1>3. \A g : /\ Row(g, bad).scan = scan /\ Row(g, bad).block = vmmap[i]
             /\ LabelOf(Row(g, bad)) = LabelOf(Last(values))
  BY DEF LabelOf
<1> HIDE DEF Row
<1>4. /\ i \in 1..Len(values) /\ Last(values) = values[i] /\ values[i].block = vmmap[i]
      /\ \A row \in vm : row.scan # scan
  <2>1. Len(values) = i /\ i \in Nat \ {0}
    BY <1>1 DEF ValuesInv, InBlock, TypeInv, TypeOK, BlockTypes
  <2> QED
    BY <1>1, <2>1 DEF ValuesInv, VmInv, InBlock, Last
<1>5. \A c \in cap_info' : c \in cap_info \/
          (c.scan = scan /\ c.block = vmmap[i] /\ LabelOf(c) = LabelOf(values[i]))
  BY <1>2, <1>3, <1>4
<1>6. Labelled(cap_info)' /\ Labelled(vm)'
  BY <1>1, <1>4, <1>5 DEF LabelInv, Labelled, LabelOf
<1>7. Joined'
  BY <1>1, <1>4, <1>5 DEF LabelInv, Joined, LabelOf
<1> QED
  BY <1>1, <1>6, <1>7 DEF LabelInv

(* A block comes once in the map, so the label of its row is the one. *)
LEMMA LabelInsertVm ==
    TypeInv /\ ValuesInv /\ VmInv /\ OrderInv /\ LabelInv /\ InsertVm => LabelInv'
<1> SUFFICES ASSUME TypeInv, ValuesInv, VmInv, OrderInv, LabelInv, InsertVm
             PROVE  LabelInv'
  OBVIOUS
<1>1. /\ pc = "blk" /\ pc' = "upd" /\ UNCHANGED <<cap_info, values, scan>>
      /\ Len(values) = i - 1
      /\ \A row \in vm : row.scan # scan
  BY DEF InsertVm, ghostVars, ValuesInv, VmInv
<1>2. \/ vm' = vm /\ "sql" \in silent'
      \/ vm' = vm \cup ToSet(values)
  BY DEF InsertVm, SqlSilent
<1>3. /\ ToSet(values) = {values[k] : k \in 1..Len(values)}
      /\ Len(values) \in Nat
  BY LenProperties DEF ValuesInv, ToSet
<1>4. \A k \in 1..Len(values) : values[k].scan = scan /\ values[k].block = vmmap[k]
  BY DEF ValuesInv
<1>5. \A j, k \in 1..Len(values) : vmmap[j] = vmmap[k] => j = k
  <2>1. /\ vmmap \in Seq(Block) /\ Len(vmmap) \in Nat /\ i \in 1..Len(vmmap) + 1
    BY FinishedIs DEF TypeInv, TypeOK, BlockTypes
  <2>2. \A k \in 1..Len(values) : k \in 1..Len(vmmap) /\ vmmap[k] \in Nat
    <3> SUFFICES ASSUME NEW k \in 1..Len(values)
                 PROVE  k \in 1..Len(vmmap) /\ vmmap[k] \in Nat
      OBVIOUS
    <3>1. k \in 1..Len(vmmap)
      BY <1>1, <2>1
    <3>2. vmmap[k] \in Block
      BY <2>1, <3>1, ElementOfSeq
    <3> QED
      BY <3>1, <3>2 DEF Block
  <2>3. \A j, k \in 1..Len(values) : j < k => vmmap[j] < vmmap[k]
    BY <2>2 DEF OrderInv
  <2> QED
    BY <2>2, <2>3
<1>6. Labelled(cap_info)' /\ Labelled(vm)'
  BY <1>1, <1>2, <1>3 DEF LabelInv, Labelled, LabelOf
<1>7. Joined'
  <2> SUFFICES ASSUME NEW c \in cap_info, NEW row \in vm',
                      c.scan = row.scan, c.block = row.block
               PROVE  LabelOf(c) = LabelOf(row)
    BY <1>1 DEF Joined, LabelOf
  <2>1. CASE row \in vm
    BY <2>1 DEF LabelInv, Joined
  <2>2. CASE row \notin vm
    <3>1. PICK k \in 1..Len(values) : row = values[k]
      BY <1>2, <1>3, <2>2
    <3>2. c.scan = scan /\ c.block = vmmap[k]
      BY <1>4, <3>1
    <3>3. PICK j \in 1..Len(values) :
              values[j].block = c.block /\ LabelOf(values[j]) = LabelOf(c)
      BY <3>2 DEF LabelInv, Labelled
    <3>4. j = k
      BY <1>4, <1>5, <3>2, <3>3
    <3> QED
      BY <3>1, <3>3, <3>4
  <2> QED
    BY <2>1, <2>2
<1>8. "sql" \notin silent' => Stored'
  BY <1>1, <1>2, <1>3, <1>4 DEF Stored
<1> QED
  BY <1>6, <1>7, <1>8 DEF LabelInv

LEMMA LabelUpdateVm == LabelInv /\ UpdateVm => LabelInv'
<1> SUFFICES ASSUME LabelInv, UpdateVm PROVE LabelInv'
  OBVIOUS
<1>1. /\ pc = "upd" /\ pc' = "upd" /\ silent \subseteq silent'
      /\ UNCHANGED <<cap_info, values, scan>>
  BY SqlSilentGrows DEF UpdateVm, ghostVars
<1> DEFINE U(row) == IF row.base = ssect[upd].file /\ row.suffix = {}
                     THEN [row EXCEPT !.sect = [plt |-> ssect[upd].plt,
                                                got |-> ssect[upd].got]]
                     ELSE row
<1>2. vm' = vm \/ vm' = {U(row) : row \in vm}
  BY DEF UpdateVm
<1>3. \A row : /\ U(row).scan = row.scan /\ U(row).block = row.block
               /\ LabelOf(U(row)) = LabelOf(row)
  BY DEF LabelOf
<1> HIDE DEF U
<1>4. /\ \A row \in vm' : \E q \in vm : q.scan = row.scan /\ q.block = row.block
                                         /\ LabelOf(q) = LabelOf(row)
      /\ \A q \in vm : \E row \in vm' : q.scan = row.scan /\ q.block = row.block
  BY <1>2, <1>3
<1>5. Labelled(cap_info)'
  BY <1>1 DEF LabelInv, Labelled, LabelOf
<1>6. Labelled(vm)'
  <2> SUFFICES ASSUME NEW row \in vm', row.scan = scan
               PROVE  \E k \in 1..Len(values) : values[k].block = row.block
                          /\ LabelOf(values[k]) = LabelOf(row)
    BY <1>1 DEF Labelled, LabelOf
  <2> QED
    BY <1>4 DEF LabelInv, Labelled
<1>7. Joined'
  <2> SUFFICES ASSUME NEW c \in cap_info, NEW row \in vm',
                      c.scan = row.scan, c.block = row.block
               PROVE  LabelOf(c) = LabelOf(row)
    BY <1>1 DEF Joined, LabelOf
  <2> QED
    BY <1>4 DEF LabelInv, Joined
<1>8. "sql" \notin silent' => Stored'
  BY <1>1, <1>4 DEF LabelInv, Stored
<1> QED
  BY <1>5, <1>6, <1>7, <1>8 DEF LabelInv

LEMMA LabelScanMem ==
    /\ TypeInv /\ ValuesInv /\ VmInv /\ OrderInv /\ LabelInv /\ ScanMem
    => LabelInv'
<1> SUFFICES ASSUME TypeInv, ValuesInv, VmInv, OrderInv, LabelInv, ScanMem
             PROVE  LabelInv'
  OBVIOUS
<1>1. CASE GetVmMap
  <2>1. UNCHANGED <<vm, cap_info, values, scan>> /\ pc' \in {"exited", "mk_vm"}
    BY <1>1 DEF GetVmMap, dbVars, ghostVars
  <2> QED
    BY <2>1, LabelQuiet
<1>2. CASE CreateVmCapDb \/ BlockAttach \/ GetTags \/ BlockDetach
  <2>1. UNCHANGED <<vm, cap_info, values, scan>>
    BY <1>2 DEF CreateVmCapDb, BlockAttach, GetTags, BlockDetach, blockVars, dbVars,
       ghostVars
  <2>2. pc' \in {"mk_comparts", "blk"} \cup InBlock
    BY <1>2 DEF CreateVmCapDb, BlockAttach, PtAttach, Waitpid, GetTags, BlockDetach,
       PtDetach, InBlock
  <2> QED
    BY <2>1, <2>2, LabelQuiet DEF InBlock
<1>3. CASE ScanSessions
  <2>1. /\ pc' \in SessionPoints \cup {"blk", "exited"}
        /\ UNCHANGED <<vm, cap_info, values, scan>>
    BY <1>3, SessionControl DEF ScanSessions, blockVars, dbVars, ghostVars,
       TypeInv, TypeOK
  <2> QED
    BY <2>1, LabelQuiet DEF SessionPoints, AttachPoints
<1>4. CASE ParseElf
  <2>1. /\ pc' \in {"blk", "exited"} /\ UNCHANGED <<vm, cap_info, values, scan>>
    BY <1>4 DEF ParseElf, ghostVars
  <2> QED
    BY <2>1, LabelQuiet
<1>5. CASE ScanReturns \/ Finish
  <2>1. /\ UNCHANGED <<vm, cap_info, values, scan, silent>>
        /\ pc' = "exited" \/ (pc = "upd" /\ pc' = "done")
    BY <1>5 DEF ScanReturns, Finish, ExitFrom, blockVars, dbVars, ghostVars
  <2> QED
    BY <2>1, LabelQuiet
<1> QED
  BY <1>1, <1>2, <1>3, <1>4, <1>5, LabelLabelBlock, LabelGetCapabilities,
     LabelInsertVm, LabelUpdateVm DEF ScanMem

LEMMA LabelStep ==
    TypeInv /\ ValuesInv /\ VmInv /\ JunkInv /\ OrderInv /\ LabelInv /\ [Next]_vars
    => LabelInv'
<1> SUFFICES ASSUME TypeInv, ValuesInv, VmInv, JunkInv, OrderInv, LabelInv,
                    [Next]_vars
             PROVE  LabelInv'
  OBVIOUS
<1>1. CASE ScanMem
  BY <1>1, LabelScanMem
<1>2. CASE UNCHANGED vars \/ Target \/ Kernel \/ Killed
  <2>1. UNCHANGED <<vm, cap_info, values, scan>>
    BY <1>2 DEF vars, Target, Kernel, Killed, blockVars, dbVars, ghostVars
  <2>2. pc' = "exited" \/ UNCHANGED <<pc, silent>>
    BY <1>2 DEF vars, linkVars, ptraceVars, Target, Kernel, KernelStop, KernelReap,
       Killed, TargetDies, ExitFrom
  <2> QED
    BY <2>1, <2>2, LabelQuiet
<1>3. CASE RunAgain
  <2>1. /\ pc' = "ps" /\ scan' = scan + 1 /\ scan \in Nat
        /\ UNCHANGED <<vm, cap_info>>
    <3>1. scan \in 1..MaxScans
      BY DEF TypeInv, TypeOK, BlockTypes
    <3> QED
      BY <1>3, <3>1, ScanAssumption DEF RunAgain, dbVars
  <2>2. \A r \in cap_info' \cup vm' : r.scan \in Nat /\ r.scan <= scan /\ r.scan # scan'
    BY <2>1 DEF JunkInv, VmInv
  <2>3. Joined'
    BY <2>1 DEF LabelInv, Joined, LabelOf
  <2> QED
    BY <2>1, <2>2, <2>3 DEF LabelInv, Labelled
<1> QED
  BY <1>1, <1>2, <1>3 DEF Next

(* The label in a capability's row is the label of the vm row of the same  *)
(* scan and block, whatever is parsed, loaded, killed or fails between the *)
(* two statements; after a scan without an SQL error the vm row is there   *)
(* (mem_scan.c:186-294, cap_capture.c:150-189).                            *)
THEOREM LabelsAreOne == Spec => []LabelsJoin
<1>1. Init => CapsInv /\ JunkInv /\ ValuesInv /\ VmInv /\ LabelInv
  BY DEF Init, CapsInv, JunkInv, JunkOnlyWhenKilled, ValuesInv, VmInv, VmRowsLast,
     InBlock, LabelInv, Labelled, Joined
<1>2. LabelInv => LabelsJoin
  <2> SUFFICES ASSUME LabelInv, pc = "done", "sql" \notin silent,
                      NEW c \in cap_info, c.scan = scan
               PROVE  \E row \in vm : row.scan = scan /\ row.block = c.block
    BY DEF LabelInv, LabelsJoin, Joined
  <2>1. PICK k \in 1..Len(values) : values[k].block = c.block
    BY DEF LabelInv, Labelled
  <2> QED
    BY <2>1 DEF LabelInv, Stored
<1>3. StopInv => OrderInv
  BY DEF StopInv
<1> QED
  BY <1>1, <1>2, <1>3, StopInit, CapsStep, JunkStep, StopStep, RowsStep, LabelStep,
     TypeInvariant, PTL DEF Spec

-----------------------------------------------------------------------------
(* The order in which one scan stores: this is what Chericat assumes of    *)
(* the statements of a scan (ScanOrderAssumption).                         *)
Kinds == {"Guard", "Stack", "Heap(others)"}

(* A block is labelled with the path of a file that has been parsed, or    *)
(* with what kind of block it is.                                          *)
SourceInv == \A k \in 1..Len(values) : values[k].base \in SeenPaths \cup Kinds

(* No capability is stored behind the row of its block, and no symbol      *)
(* behind a capability that is labelled with the symbol's file.            *)
PartsFirst ==
    [][/\ \A c \in cap_info' \ cap_info, row \in vm :
              ~(row.scan = c.scan /\ row.block = c.block)
       /\ \A s \in elf_sym' \ elf_sym, c \in cap_info :
              s.file \notin Kinds => ~(c.scan = s.scan /\ c.base = s.file)]_vars

LEMMA SourceLabelBlock ==
    TypeInv /\ ValuesInv /\ SourceInv /\ LabelBlock => SourceInv'
<1> SUFFICES ASSUME TypeInv, ValuesInv, SourceInv, LabelBlock PROVE SourceInv'
  OBVIOUS
<1>1. /\ i \in 1..Len(vmmap) /\ vmmap \in Seq(Block) /\ UNCHANGED seen
      /\ Current.path \in SeenPaths \cup {NoPath}
  BY DEF LabelBlock, TypeInv, TypeOK, BlockTypes
<1>2. PICK row : values' = Append(values, row) /\ row.base = MmapPath(vmmap[i])
  BY DEF LabelBlock
<1>3. Region[vmmap[i]].kind \in Kinds
  <2>1. vmmap[i] \in 1..Len(Region)
    BY <1>1, ElementOfSeq DEF Block
  <2> DEFINE R == [path : File \cup {NoPath}, pages : Nat, resv : Nat, hascap : BOOLEAN,
                   kind : Kinds]
  <2>2. Region \in Seq(R)
    BY ScanAssumption DEF Kinds
  <2> HIDE DEF R
  <2>3. Region[vmmap[i]] \in R
    BY <2>1, <2>2, ElementOfSeq
  <2> QED
    BY <2>3 DEF R
<1>4. MmapPath(vmmap[i]) \in SeenPaths \cup Kinds
  <2>1. CASE Region[vmmap[i]].path # NoPath
    BY <1>1, <2>1 DEF MmapPath, Current
  <2>2. CASE Region[vmmap[i]].resv \in ToSet(seen)
    <3>1. seen \in Seq(Block)
      BY DEF TypeInv, TypeOK, BlockTypes
    <3>2. PICK k \in 1..Len(seen) : seen[k] = Region[vmmap[i]].resv
      BY <2>2, <3>1, LenProperties DEF ToSet
    <3>3. Region[Region[vmmap[i]].resv].path \in SeenPaths
      BY <3>2 DEF SeenPaths
    <3> QED
      BY <1>1, <2>2, <3>3 DEF MmapPath, Current
  <2>3. CASE /\ Region[vmmap[i]].path = NoPath
             /\ Region[vmmap[i]].resv \notin ToSet(seen)
    BY <1>3, <2>3 DEF MmapPath
  <2> QED
    BY <2>1, <2>2, <2>3
<1> DEFINE S == ToSet(values) \cup {row}
<1>5. values \in Seq(S) /\ row \in S
  BY DEF ValuesInv
<1> HIDE DEF S
<1>6. /\ Len(values) \in Nat /\ Len(values') = Len(values) + 1
      /\ \A k \in 1..Len(values) + 1 :
            values'[k] = IF k = Len(values) + 1 THEN row ELSE values[k]
  BY <1>2, <1>5, AppendProperties, LenProperties
<1>7. \A k \in 1..Len(values') : \/ values'[k] = row
                                 \/ k \in 1..Len(values) /\ values'[k] = values[k]
  BY <1>6
<1>8. SeenPaths' = SeenPaths
  BY <1>1 DEF SeenPaths
<1> QED
  BY <1>2, <1>4, <1>7, <1>8 DEF SourceInv

LEMMA SourceStep ==
    TypeInv /\ ValuesInv /\ SourceInv /\ [Next]_vars => SourceInv'
<1> SUFFICES ASSUME TypeInv, ValuesInv, SourceInv, [Next]_vars PROVE SourceInv'
  OBVIOUS
<1>1. CASE ParseElf
  <2>1. UNCHANGED values /\ (seen' = seen \/ \E r \in Block : seen' = Append(seen, r))
    BY <1>1 DEF ParseElf, TypeInv, TypeOK, BlockTypes
  <2>2. SeenPaths \subseteq SeenPaths'
    <3>1. SUFFICES ASSUME NEW r \in Block, seen' = Append(seen, r)
                   PROVE  SeenPaths \subseteq SeenPaths'
      BY <2>1 DEF SeenPaths
    <3>2. seen \in Seq(Block)
      BY DEF TypeInv, TypeOK, BlockTypes
    <3>3. /\ Len(seen) \in Nat /\ Len(seen') = Len(seen) + 1
          /\ \A k \in 1..Len(seen) : seen'[k] = seen[k]
      BY <3>1, <3>2, AppendProperties, LenProperties
    <3>4. \A k \in 1..Len(seen) : k \in 1..Len(seen')
      BY <3>3
    <3> QED
      BY <3>3, <3>4 DEF SeenPaths
  <2> QED
    BY <2>1, <2>2 DEF SourceInv
<1>2. CASE LabelBlock
  BY <1>2, SourceLabelBlock
<1>3. CASE RunAgain
  BY <1>3 DEF RunAgain, SourceInv
<1>4. CASE GetVmMap \/ CreateVmCapDb \/ ScanSessions \/ BlockAttach \/ GetTags
           \/ GetCapabilities \/ BlockDetach \/ InsertVm \/ UpdateVm \/ ScanReturns
           \/ Finish \/ Target \/ Kernel \/ Killed \/ UNCHANGED vars
  <2>1. UNCHANGED <<values, seen>>
    BY <1>4 DEF GetVmMap, CreateVmCapDb, ScanSessions, BlockAttach, GetTags,
       GetCapabilities, BlockDetach, InsertVm, UpdateVm, ScanReturns, Finish,
       Target, Kernel, Killed, vars, blockVars
  <2> QED
    BY <2>1 DEF SourceInv, SeenPaths
<1> QED
  BY <1>1, <1>2, <1>3, <1>4 DEF Next, ScanMem

LEMMA PartsFirstStep ==
    ASSUME TypeInv, ValuesInv, VmInv, LabelInv, SourceInv, [Next]_vars
    PROVE  /\ \A c \in cap_info' \ cap_info, row \in vm :
                 ~(row.scan = c.scan /\ row.block = c.block)
           /\ \A s \in elf_sym' \ elf_sym, c \in cap_info :
                 s.file \notin Kinds => ~(c.scan = s.scan /\ c.base = s.file)
<1>1. CASE GetCapabilities
  <2>1. pc = "b_caps" /\ elf_sym' = elf_sym
    BY <1>1 DEF GetCapabilities
  <2>2. \A c \in cap_info' \ cap_info : c.scan = scan
    BY <1>1 DEF GetCapabilities
  <2>3. \A row \in vm : row.scan # scan
    BY <2>1 DEF VmInv, InBlock
  <2> QED
    BY <2>1, <2>2, <2>3
<1>2. CASE ParseElf
  <2>1. Current.path \notin SeenPaths /\ cap_info' = cap_info
    BY <1>2 DEF ParseElf
  <2>2. \A s \in elf_sym' \ elf_sym : s.scan = scan /\ s.file = Current.path
    BY <1>2 DEF ParseElf
  <2>3. \A c \in cap_info : c.scan = scan => c.base \in SeenPaths \cup Kinds
    <3>1. SUFFICES ASSUME NEW c \in cap_info, c.scan = scan
                   PROVE  c.base \in SeenPaths \cup Kinds
      OBVIOUS
    <3>2. PICK k \in 1..Len(values) : LabelOf(values[k]) = LabelOf(c)
      BY <3>1 DEF LabelInv, Labelled
    <3>3. values[k].base = c.base
      BY <3>2 DEF LabelOf
    <3> QED
      BY <3>3 DEF SourceInv
  <2> QED
    BY <2>1, <2>2, <2>3
<1>3. CASE ~(GetCapabilities \/ ParseElf)
  <2>1. UNCHANGED <<cap_info, elf_sym>>
    BY <1>3 DEF Next, ScanMem, GetVmMap, CreateVmCapDb, ScanSessions, LabelBlock,
       BlockAttach, GetTags, BlockDetach, InsertVm, UpdateVm, ScanReturns, Finish,
       Target, Kernel, Killed, RunAgain, vars, dbVars
  <2> QED
    BY <2>1
<1> QED
  BY <1>1, <1>2, <1>3

(* What belongs to a row is stored before the row: the capabilities before *)
(* the block, the symbols of a file before the capabilities labelled with  *)
(* it (mem_scan.c:127-294), whatever fails, for every map and any number   *)
(* of scans; this is why the views may read the tables one after the       *)
(* other.  (No path is one of Kinds: paths begin with a slash.)            *)
THEOREM PartsStoredFirst == Spec => PartsFirst
<1>1. Init => CapsInv /\ JunkInv /\ ValuesInv /\ VmInv /\ LabelInv /\ SourceInv
  BY DEF Init, CapsInv, JunkInv, JunkOnlyWhenKilled, ValuesInv, VmInv, VmRowsLast,
     InBlock, LabelInv, Labelled, Joined, SourceInv
<1>2. StopInv => OrderInv
  BY DEF StopInv
<1>3. TypeInv /\ ValuesInv /\ VmInv /\ LabelInv /\ SourceInv /\ [Next]_vars =>
        [/\ \A c \in cap_info' \ cap_info, row \in vm :
                ~(row.scan = c.scan /\ row.block = c.block)
         /\ \A s \in elf_sym' \ elf_sym, c \in cap_info :
                s.file \notin Kinds => ~(c.scan = s.scan /\ c.base = s.file)]_vars
  BY PartsFirstStep
<1> QED
  BY <1>1, <1>2, <1>3, StopInit, CapsStep, JunkStep, StopStep, RowsStep, LabelStep,
     SourceStep, TypeInvariant, PTL DEF Spec, PartsFirst
==============================================================================
