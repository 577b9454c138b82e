------------------------------ MODULE ScanMem ------------------------------
(***************************************************************************)
(* scan_mem (mem_scan.c): one `chericat -f <db> -p <pid>'.  It reads the   *)
(* target's vm map once, opens the three sessions of LinkMapScan, then     *)
(* takes the blocks of the map one by one: parse the ELF file of a path    *)
(* seen for the first time, label the block, attach, store the block's     *)
(* capabilities page by page, detach.  After the last block the rows of    *)
(* the table vm go in with one statement, and one UPDATE per ELF file adds *)
(* its .plt and .got.  No transaction spans the statements, and the target *)
(* runs whenever chericat is not attached.                                 *)
(*                                                                         *)
(* Addresses are abstract.  Region lists, in address order, every block    *)
(* the target can have mapped; a page is <<region, number>>, a capability  *)
(* is a tagged granule of a page.                                          *)
(***************************************************************************)
EXTENDS LinkMapScan, TagBuffer

CONSTANTS
    Region,       \* the blocks: [path, pages, resv, hascap, kind]
    File,         \* the values of kve_path that name a file
    NoPath,       \* kve_path of a block that maps no file
    Extends,      \* <<p, q>>: path p is a proper prefix of path q
    Elf,          \* file -> [elf, plt, got]: the regions of the sections, or 0
    Slot,         \* the granules of a page that are ever tagged
    InitMapped,   \* the regions mapped when the first scan begins
    InitMem,      \* the tags of each page then
    SymBatch,     \* the INSERTs that store one file's symbols
    ElfMayFail,   \* open() or elf_begin() may fail
    InitialSize,  \* initial_size, the first capacity of seen_kivp
    MaxScans      \* bound on the scans into the same database

Block == 1..Len(Region)
Page == UNION {{<<r, n>> : n \in 1..Region[r].pages} : r \in Block}

ASSUME ScanAssumption ==
    /\ Region \in Seq([path : File \cup {NoPath}, pages : Nat, resv : Nat,
                       hascap : BOOLEAN,
                       kind : {"Guard", "Stack", "Heap(others)"}])
    /\ NoPath \notin File /\ Lib \subseteq File
    /\ Elf \in [File -> [elf : BOOLEAN, plt : 0..Len(Region), got : 0..Len(Region)]]
    /\ Slot \subseteq 0..255
    /\ InitMapped \in SUBSET Block /\ InitMapped # {}
    /\ InitMem \in [Page -> SUBSET Slot]
    /\ ElfMayFail \in BOOLEAN
    /\ InitialSize \in Nat \ {0}
    /\ MaxScans \in Nat \ {0}

VARIABLES
    mapped,   \* target: the regions mapped
    mem,      \* target: the tagged granules of each page
    vmmap,    \* chericat: the regions of kinfo_vmentry array freep, in order
    i,        \* chericat: index of the block loop, from 1
    pg,       \* chericat: the page of the block get_tags is called for
    tags,     \* chericat: the granules read from the tag buffer
    seen,     \* chericat: seen_kivp, the first region of each path
    capacity, \* chericat: seen_kivp_buffer_capacity
    ssect,    \* chericat: the special sections of each parsed file
    values,   \* chericat: insert_vm_query_values, the rows to insert into vm
    upd,      \* chericat: index of the UPDATE loop, from 1
    vm,       \* database: the rows of table vm
    cap_info, \* database: the rows of table cap_info
    elf_sym,  \* database: the rows of table elf_sym, by batch
    scan,     \* ghost: the number of the scan
    stopmem,  \* ghost: each page as it was when its block's stop took effect
    lossy     \* ghost: the blocks of which a failure was ignored

memVars == <<mapped, mem>>
blockVars == <<vmmap, i, pg, tags, seen, capacity, ssect, values, upd>>
dbVars == <<vm, cap_info, elf_sym>>
ghostVars == <<scan, stopmem, lossy>>
vars == <<linkVars, memVars, blockVars, dbVars, ghostVars>>

ScanPoints ==
    SessionPoints \cup {"ps", "mk_vm", "blk", "b_attach", "b_wait", "b_tags",
                       "b_caps", "upd", "done"}

(* No section found; also the zeroes of the calloc'd array. *)
NoSection == [plt |-> 0, got |-> 0]

(* The rows of the vm map, in address order, for the regions R: the one    *)
(* increasing sequence of them.                                            *)
InAddressOrder(R) ==
    {s \in [1..Cardinality(R) -> R] :
        \A j, k \in 1..Cardinality(R) : j < k => s[j] < s[k]}

-----------------------------------------------------------------------------
(* procstat_getprocs and procstat_getvmmap: errx when the process is gone. *)
GetVmMap ==
    /\ pc = "ps"
    /\ \/ /\ tgt = "gone"
          /\ pc' = "exited" /\ UNCHANGED vmmap
       \/ /\ tgt # "gone"
          /\ vmmap' \in InAddressOrder(mapped) /\ pc' = "mk_vm"
    /\ UNCHANGED <<tgt, silent, i, pg, tags, seen, capacity, ssect, values, upd,
                   linkTargetVars, sessionVars, linkDbVars, memVars, dbVars,
                   ghostVars>>

(* create_vm_cap_db: cap_info first; vm only if that succeeded. *)
CreateVmCapDb ==
    /\ pc = "mk_vm"
    /\ \E cap_ok \in CreateOutcomes("cap_info"), vm_ok \in CreateOutcomes("vm") :
          /\ tables' = tables \cup (IF cap_ok THEN {"cap_info"} ELSE {})
                             \cup (IF cap_ok /\ vm_ok THEN {"vm"} ELSE {})
          /\ SqlSilent(cap_ok /\ vm_ok)
    /\ pc' = "mk_comparts"
    /\ UNCHANGED <<tgt, comparts, linkTargetVars, sessionVars, memVars,
                   blockVars, dbVars, ghostVars>>

(* get_r_debug, scan_rtld_linkmap, scan_r_comparts. *)
ScanSessions ==
    Sessions /\ UNCHANGED <<memVars, blockVars, dbVars, ghostVars>>

-----------------------------------------------------------------------------
Current == Region[vmmap[i]]
SeenPaths == {Region[seen[k]].path : k \in 1..Len(seen)}

(* What get_elf_info leaves in ssect[ssect_index].  A file that is not an  *)
(* ELF file leaves the zeroes.  The structure it fills is not initialized, *)
(* so a section the file does not have is wherever the stack says.         *)
SectionOutcomes(f) ==
    IF ~Elf[f].elf
    THEN {[file |-> NoPath, plt |-> 0, got |-> 0]}
    ELSE LET Field(r) == IF r # 0 THEN {r} ELSE 0..Len(Region)
         IN  [file : {f}, plt : Field(Elf[f].plt), got : Field(Elf[f].got)]

(* seen_kivp is doubled when it is full. *)
GrownOneLate == IF Len(seen) > capacity THEN 2 * capacity ELSE capacity
Grown == IF Len(seen) = capacity THEN 2 * capacity ELSE capacity

(* The first block of a path: seen_kivp grows when it is full, the file's  *)
(* sections and symbols are read.  read_elf exits when it cannot.          *)
ParseElf ==
    /\ pc = "blk" /\ i <= Len(vmmap)
    /\ Current.path \notin SeenPaths \cup {NoPath}
    /\ \/ /\ ElfMayFail
          /\ pc' = "exited"
          /\ UNCHANGED <<silent, capacity, seen, ssect, tables, elf_sym>>
       \/ /\ capacity' = Grown
          /\ seen' = Append(seen, vmmap[i])
          /\ \E s \in SectionOutcomes(Current.path) : ssect' = Append(ssect, s)
          /\ \E created \in CreateOutcomes("elf_sym") :
                LET batches == IF Elf[Current.path].elf THEN SymBatch ELSE {}
                IN  /\ tables' = IF created THEN tables \cup {"elf_sym"} ELSE tables
                    /\ \E stored \in IF ~created THEN {{}}
                                     ELSE IF DbMayFail THEN SUBSET batches
                                     ELSE {batches} :
                          /\ elf_sym' = elf_sym \cup
                                {[scan |-> scan, file |-> Current.path, batch |-> n] :
                                    n \in stored}
                          /\ SqlSilent(created /\ stored = batches)
          /\ UNCHANGED pc
    /\ UNCHANGED <<tgt, vmmap, i, pg, tags, values, upd, linkTargetVars,
                   sessionVars, comparts, memVars, vm, cap_info, ghostVars>>

(* mmap_path of a block: its file; for a block without one, the file of    *)
(* the reservation it lies in; else a guess from its type.                 *)
MmapPath(r) ==
    IF Region[r].path # NoPath THEN Region[r].path
    ELSE IF Region[r].resv \in ToSet(seen) THEN Region[Region[r].resv].path
    ELSE Region[r].kind

(* The suffixes (.plt) and (.got), from the sections of the file parsed    *)
(* last; before the first file the code reads in front of the array.       *)
SuffixOutcomes(r) ==
    IF ssect = <<>> THEN SUBSET {"plt", "got"}
    ELSE {{x \in {"plt", "got"} : Last(ssect)[x] = r}}

LastId(base) ==
    LET k == SelectLastInSeq(libs, LAMBDA l : l = base \/ <<l, base>> \in Extends)
    IN  IF k = 0 THEN -1 ELSE DefaultCompart[libs[k]]

(* The id of the first object in the list whose path the label begins with. *)
CompartId(base) ==
    LET k == SelectInSeq(libs, LAMBDA l : l = base \/ <<l, base>> \in Extends)
    IN  IF k = 0 THEN -1 ELSE DefaultCompart[libs[k]]

(* The block's row is put together, to be inserted after the last block.   *)
LabelBlock ==
    /\ pc = "blk" /\ i <= Len(vmmap)
    /\ Current.path \in SeenPaths \cup {NoPath}
    /\ \E suffix \in SuffixOutcomes(vmmap[i]) :
          values' = Append(values,
              [scan |-> scan, block |-> vmmap[i], base |-> MmapPath(vmmap[i]),
               suffix |-> suffix, compart |-> CompartId(MmapPath(vmmap[i])),
               sect |-> NoSection])
    /\ pc' = "b_attach" /\ pg' = 1
    /\ UNCHANGED <<tgt, silent, vmmap, i, tags, seen, capacity, ssect, upd,
                   linkTargetVars, sessionVars, linkDbVars, memVars, dbVars,
                   ghostVars>>

BlockAttach ==
    /\ \/ PtAttach("b_attach", "b_wait", "b_tags")
       \/ Waitpid("b_wait", "b_tags")
    /\ UNCHANGED <<linkTargetVars, sessionVars, linkDbVars, memVars, blockVars,
                   dbVars, ghostVars>>

(* The loop over the pages of the block goes on. *)
PageStays == pg' = pg
PageDone == pg' = pg + 1

(* The path get_tags is given: the label of the block. *)
KvePathPassed == [base |-> Current.path, suffix |-> {}]
LabelPassed == [base |-> Last(values).base, suffix |-> Last(values).suffix]

(* A get_tags that detaches as soon as it has the tags. *)
GetTagsDetached ==
    /\ pc = "b_tags" /\ Current.hascap /\ pg <= Current.pages
    /\ IF tgt = "stopped" /\ vmmap[i] \in mapped
       THEN LET found == FoundTags(mem[<<vmmap[i], pg>>], 0..31)
            IN  /\ IF found = {} THEN PageDone /\ UNCHANGED <<pc, tgt, tags>>
                   ELSE /\ pc' = "b_caps" /\ tags' = found
                        /\ tgt' = "running" /\ UNCHANGED pg
                /\ UNCHANGED <<silent, lossy>>
       ELSE /\ PageDone
            /\ silent' = silent \cup {"io"} /\ lossy' = lossy \cup {vmmap[i]}
            /\ UNCHANGED <<pc, tgt, tags>>
    /\ UNCHANGED <<vmmap, i, seen, capacity, ssect, values, upd, scan, stopmem,
                   linkTargetVars, sessionVars, linkDbVars, memVars, dbVars>>

(* get_tags, up to its loop: read the page's tags, if the block can hold   *)
(* capabilities.  A failure of PT_IO is silent and leaves the page out.    *)
GetTags ==
    /\ pc = "b_tags" /\ Current.hascap /\ pg <= Current.pages
    /\ IF tgt = "stopped" /\ vmmap[i] \in mapped
       THEN LET found == FoundTags(mem[<<vmmap[i], pg>>], 0..31)
            IN  /\ IF found = {} THEN PageDone /\ UNCHANGED <<pc, tags>>
                   ELSE pc' = "b_caps" /\ tags' = found /\ UNCHANGED pg
                /\ UNCHANGED <<silent, lossy>>
       ELSE /\ PageDone
            /\ silent' = silent \cup {"io"} /\ lossy' = lossy \cup {vmmap[i]}
            /\ UNCHANGED <<pc, tags>>
    /\ UNCHANGED <<tgt, vmmap, i, seen, capacity, ssect, values, upd, scan,
                   stopmem, linkTargetVars, sessionVars, linkDbVars, memVars,
                   dbVars>>

(* The loop of get_tags and its INSERT: a row for each tagged granule, all *)
(* of the page's rows in one statement.  get_capability makes a row of     *)
(* whatever its buffer holds when the target has been killed meanwhile.    *)
GetCapabilities ==
    /\ pc = "b_caps"
    /\ \E ok \in SqlOutcomes("cap_info"),
          bad \in IF tgt = "stopped" THEN {{}} ELSE SUBSET tags :
          /\ cap_info' = IF ~ok THEN cap_info ELSE cap_info \cup
                {[scan |-> scan, block |-> vmmap[i], page |-> pg, slot |-> g,
                  base |-> LabelPassed.base, suffix |-> LabelPassed.suffix,
                  junk |-> g \in bad] : g \in tags}
          /\ silent' = silent \cup (IF ok THEN {} ELSE {"sql"})
                               \cup (IF bad = {} THEN {} ELSE {"io"})
          /\ lossy' = IF ok /\ bad = {} THEN lossy ELSE lossy \cup {vmmap[i]}
    /\ pc' = "b_tags" /\ PageDone /\ tags' = {}
    /\ UNCHANGED <<tgt, vmmap, i, seen, capacity, ssect, values, upd, scan,
                   stopmem, linkTargetVars, sessionVars, linkDbVars, memVars,
                   vm, elf_sym>>

DetachBeforeLastPage ==
    /\ PtDetach("b_tags", "blk")
    /\ Current.hascap => pg >= Current.pages
    /\ i' = i + 1
    /\ UNCHANGED <<vmmap, pg, tags, seen, capacity, ssect, values, upd,
                   linkTargetVars, sessionVars, linkDbVars, memVars, dbVars,
                   ghostVars>>

DetachIfRead ==
    /\ pc = "b_tags" /\ (Current.hascap => pg > Current.pages)
    /\ pc' = "blk" /\ i' = i + 1
    /\ tgt' = IF tgt = "stopped" /\ vmmap[i] \notin lossy THEN "running" ELSE tgt
    /\ UNCHANGED <<silent, vmmap, pg, tags, seen, capacity, ssect, values, upd,
                   linkTargetVars, sessionVars, linkDbVars, memVars, dbVars,
                   ghostVars>>

DetachSkipsBlock ==
    /\ PtDetach("b_tags", "blk")
    /\ Current.hascap => pg > Current.pages
    /\ i' = i + 2
    /\ UNCHANGED <<vmmap, pg, tags, seen, capacity, ssect, values, upd,
                   linkTargetVars, sessionVars, linkDbVars, memVars, dbVars,
                   ghostVars>>

(* The detach behind the loop over the pages. *)
BlockDetach ==
    /\ PtDetach("b_tags", "blk")
    /\ Current.hascap => pg > Current.pages
    /\ i' = i + 1
    /\ UNCHANGED <<vmmap, pg, tags, seen, capacity, ssect, values, upd,
                   linkTargetVars, sessionVars, linkDbVars, memVars, dbVars,
                   ghostVars>>

-----------------------------------------------------------------------------
InsertVmEarly ==
    /\ pc = "blk" /\ i >= Len(vmmap)
    /\ \E ok \in SqlOutcomes("vm") :
          /\ vm' = IF ok THEN vm \cup ToSet(values) ELSE vm
          /\ SqlSilent(ok)
    /\ pc' = "upd" /\ upd' = 1
    /\ UNCHANGED <<tgt, vmmap, i, pg, tags, seen, capacity, ssect, values,
                   linkTargetVars, sessionVars, linkDbVars, memVars, cap_info,
                   elf_sym, ghostVars>>

(* After the last block: all rows of the vm map in one INSERT. *)
InsertVm ==
    /\ pc = "blk" /\ i > Len(vmmap)
    /\ \E ok \in SqlOutcomes("vm") :
          /\ vm' = IF ok THEN vm \cup ToSet(values) ELSE vm
          /\ SqlSilent(ok)
    /\ pc' = "upd" /\ upd' = 1
    /\ UNCHANGED <<tgt, vmmap, i, pg, tags, seen, capacity, ssect, values,
                   linkTargetVars, sessionVars, linkDbVars, memVars, cap_info,
                   elf_sym, ghostVars>>

(* UPDATE vm SET plt_addr, ... WHERE mmap_path = the file's path: rows of  *)
(* any scan whose label is the path and nothing more.                      *)
UpdateVm ==
    /\ pc = "upd" /\ upd <= Len(ssect)
    /\ LET s == ssect[upd]
           Updated(row) == IF row.base = s.file /\ row.suffix = {}
                           THEN [row EXCEPT !.sect = [plt |-> s.plt, got |-> s.got]]
                           ELSE row
       IN  \E ok \in SqlOutcomes("vm") :
              /\ vm' = IF ok THEN {Updated(row) : row \in vm} ELSE vm
              /\ SqlSilent(ok)
    /\ upd' = upd + 1
    /\ UNCHANGED <<pc, tgt, vmmap, i, pg, tags, seen, capacity, ssect, values,
                   linkTargetVars, sessionVars, linkDbVars, memVars, cap_info,
                   elf_sym, ghostVars>>

(* scan_mem returns. *)
ScanReturns ==
    /\ pc = "upd" /\ upd > Len(ssect)
    /\ pc' = "done"
    /\ UNCHANGED <<tgt, silent, linkTargetVars, sessionVars, linkDbVars, memVars,
                   blockVars, dbVars, ghostVars>>

(* main ends in terminate_chericat(0). *)
Finish ==
    /\ ExitFrom({"done"})
    /\ UNCHANGED <<linkTargetVars, sessionVars, linkDbVars, memVars, blockVars,
                   dbVars, ghostVars>>

ScanMem ==
    \/ GetVmMap \/ CreateVmCapDb \/ ScanSessions
    \/ ParseElf \/ LabelBlock
    \/ BlockAttach \/ GetTags \/ GetCapabilities \/ BlockDetach
    \/ InsertVm \/ UpdateVm \/ ScanReturns \/ Finish

-----------------------------------------------------------------------------
(* The target's own steps.  A mapping comes and goes as a whole, under its *)
(* reservation; that of an object of the linker with the link map.         *)
Reservation(r) == {q \in Block : Region[q].resv = r}

Empty(m, R) == [p \in Page |-> IF p[1] \in R THEN {} ELSE m[p]]

MapMemory(r) ==
    /\ Region[r].resv = r /\ r \notin mapped
    /\ mapped' = mapped \cup Reservation(r)
    /\ UNCHANGED mem
    /\ IF Region[r].path \in Lib THEN Dlopen(Region[r].path)
       ELSE /\ TargetRuns /\ moves < MaxMoves
            /\ moves' = moves + 1 /\ UNCHANGED <<linkmap, rcomp>>

UnmapMemory(r) ==
    /\ Region[r].resv = r /\ r \in mapped
    /\ mapped' = mapped \ Reservation(r)
    /\ mem' = Empty(mem, Reservation(r))
    /\ IF Region[r].path \in Lib THEN Dlclose(Region[r].path)
       ELSE /\ TargetRuns /\ moves < MaxMoves
            /\ moves' = moves + 1 /\ UNCHANGED <<linkmap, rcomp>>

(* A capability is stored to a granule, or overwritten with data. *)
StoreToMemory(p, g) ==
    /\ TargetRuns /\ moves < MaxMoves
    /\ p[1] \in mapped /\ Region[p[1]].hascap
    /\ mem' = [mem EXCEPT ![p] = IF g \in @ THEN @ \ {g} ELSE @ \cup {g}]
    /\ moves' = moves + 1
    /\ UNCHANGED <<mapped, linkmap, rcomp>>

Target ==
    /\ \/ \E r \in Block : MapMemory(r) \/ UnmapMemory(r)
       \/ \E p \in Page, g \in Slot : StoreToMemory(p, g)
    /\ UNCHANGED <<ptraceVars, sessionVars, linkDbVars, blockVars, dbVars, ghostVars>>

(* The blocks whose capabilities have been stored. *)
Finished == {vmmap[k] : k \in 1..(IF i > Len(vmmap) THEN Len(vmmap) ELSE i - 1)}

Kernel ==
    /\ \/ /\ KernelStop
          /\ stopmem' = [p \in Page |-> IF p[1] \in Finished THEN stopmem[p]
                                        ELSE mem[p]]
       \/ KernelReap /\ UNCHANGED stopmem
    /\ UNCHANGED <<linkTargetVars, sessionVars, linkDbVars, memVars, blockVars,
                   dbVars, scan, lossy>>

(* The target is killed or exits; chericat is sent SIGTERM, SIGINT or      *)
(* SIGQUIT, whose handler closes the database and exits.                   *)
Killed ==
    /\ TargetDies \/ ExitFrom(ScanPoints)
    /\ UNCHANGED <<linkTargetVars, sessionVars, linkDbVars, memVars, blockVars,
                   dbVars, ghostVars>>

(* chericat is run again with the same -f and -p. *)
RunAgain ==
    /\ pc = "exited" /\ tgt = "running" /\ scan < MaxScans
    /\ scan' = scan + 1
    /\ pc' = "ps" /\ silent' = {}
    /\ rdbg' = [size |-> 0, gen |-> 0] /\ node' = 1 /\ sub' = 1 /\ libs' = <<>>
    /\ vmmap' = <<>> /\ i' = 1 /\ pg' = 1 /\ tags' = {} /\ upd' = 1
    /\ seen' = <<>> /\ capacity' = InitialSize /\ ssect' = <<>> /\ values' = <<>>
    /\ stopmem' = [p \in Page |-> {}] /\ lossy' = {}
    /\ UNCHANGED <<tgt, linkTargetVars, linkDbVars, memVars, dbVars>>

Init ==
    /\ pc = "ps" /\ tgt = "running" /\ silent = {}
    /\ linkmap = InitLinkmap /\ moves = 0
    /\ rcomp \in [size : 0..NumComparts, gen : {0}]
    /\ SizeWith(rcomp.size, 0, UNION {CompartsOf(l) : l \in Loaded})
    /\ rdbg = [size |-> 0, gen |-> 0] /\ node = 1 /\ sub = 1 /\ libs = <<>>
    /\ tables = {} /\ comparts = {}
    /\ mapped = InitMapped /\ mem = InitMem
    /\ vmmap = <<>> /\ i = 1 /\ pg = 1 /\ tags = {} /\ upd = 1
    /\ seen = <<>> /\ capacity = InitialSize /\ ssect = <<>> /\ values = <<>>
    /\ vm = {} /\ cap_info = {} /\ elf_sym = {}
    /\ scan = 1 /\ stopmem = [p \in Page |-> {}] /\ lossy = {}

Next == ScanMem \/ Target \/ Kernel \/ Killed \/ RunAgain

Spec == Init /\ [][Next]_vars

(* chericat keeps running and the kernel keeps its promises. *)
FairSpec == Spec /\ WF_vars(ScanMem) /\ WF_vars(Kernel)

-----------------------------------------------------------------------------
LabelOf(row) == [base |-> row.base, suffix |-> row.suffix]

BlockTypes ==
    /\ mapped \subseteq Block /\ mem \in [Page -> SUBSET Slot]
    /\ vmmap \in Seq(Block) /\ seen \in Seq(Block)
    /\ i \in 1..Len(vmmap) + 1 /\ pg \in Nat \ {0} /\ upd \in Nat \ {0}
    /\ tags \subseteq Slot
    /\ capacity \in Nat
    /\ ssect \in Seq([file : File \cup {NoPath}, plt : 0..Len(Region),
                      got : 0..Len(Region)])
    /\ scan \in 1..MaxScans /\ lossy \subseteq Block
    /\ stopmem \in [Page -> SUBSET Slot]

(* The variables keep their types. *)
TypeOK ==
    /\ pc \in ScanPoints \cup {"exited"}
    /\ LinkTypes
    /\ BlockTypes

(* The list of parsed paths never writes behind its buffer, has an entry   *)
(* of special_sections for each of its own, no more of them than the vmcnt *)
(* that were allocated, and no path twice (mem_scan.c:127-179).            *)
SeenInBounds ==
    /\ Len(seen) <= capacity
    /\ Len(ssect) = Len(seen)
    /\ Len(ssect) <= Len(vmmap)
    /\ \A j, k \in 1..Len(seen) :
          Region[seen[j]].path = Region[seen[k]].path => j = k

(* The rows of one block are of one instant: all of them were in memory    *)
(* when the block's stop took effect, and once the block is finished none  *)
(* that get_tags recognizes is missing, unless a failure in this very      *)
(* block was ignored.  The target may have been writing up to the stop.    *)
CapturedAtStop ==
    /\ \A c \in cap_info : c.scan = scan /\ ~c.junk =>
          c.slot \in stopmem[<<c.block, c.page>>]
    /\ \A r \in Finished \ lossy : Region[r].hascap =>
          \A n \in 1..Region[r].pages :
             \A g \in FoundTags(stopmem[<<r, n>>], 0..31) :
                \E c \in cap_info : /\ c.scan = scan /\ c.block = r
                                    /\ c.page = n /\ c.slot = g

(* A row that holds something other than a capability of the target is     *)
(* there only because the target was killed under the stop; the row's      *)
(* block counts as lossy (cap_capture.c:64-99).                            *)
JunkOnlyWhenKilled ==
    \A c \in cap_info : c.junk /\ c.scan = scan =>
        tgt = "gone" /\ c.block \in lossy

(* The rows of vm are a commit mark: as long as a single block is left to  *)
(* scan, the table has no row of this scan, wherever it is interrupted;    *)
(* when it has one, it has one for every block of the map.                 *)
VmRowsLast ==
    \A row \in vm : row.scan = scan =>
        /\ i = Len(vmmap) + 1
        /\ \A k \in 1..Len(vmmap) :
              \E q \in vm : q.scan = scan /\ q.block = vmmap[k]

(* The label in a capability's row is the label of its block's row, so     *)
(* that the views, which join by label, find it; after a scan without an   *)
(* SQL error every capability's block is there.                            *)
LabelsJoin ==
    /\ \A c \in cap_info, row \in vm :
          c.scan = row.scan /\ c.block = row.block => LabelOf(c) = LabelOf(row)
    /\ pc = "done" /\ "sql" \notin silent =>
          \A c \in cap_info : c.scan = scan =>
             \E row \in vm : row.scan = scan /\ row.block = c.block

(* Every compartment id that the rows of vm show (show lib,                *)
(* vm_caps_view.c:195) is that of a compartment that show comp lists: of   *)
(* those of every scan the database has had when no statement can fail,    *)
(* and of this scan's rows as long as none of its statements has.          *)
CompartsListed ==
    \A row \in vm :
        row.compart # -1 /\ (~DbMayFail \/ (row.scan = scan /\ "sql" \notin silent))
        => \E c \in comparts : c.id = row.compart

(* A block of a listed library is never given the program's compartment,   *)
(* even if the program's path begins the library's (/x/prog and            *)
(* /x/prog.so): the list is newest first and the program, first in the     *)
(* target's list, is compared last (mem_scan.c:226-235,                    *)
(* rtld_linkmap_scan.c:262).                                               *)
NotTheProgram ==
    LET Others == ToSet(libs) \ {Main}
    IN  (\A l \in Others : DefaultCompart[l] # DefaultCompart[Main]) =>
            \A k \in 1..Len(values) :
                values[k].base \in Others => values[k].compart # DefaultCompart[Main]

(* Between blocks and when scan_mem returns, chericat holds nothing: the   *)
(* target is left running, or it is gone.  (A failed waitpid makes the     *)
(* detach come too early.)                                                 *)
ReleasedBetweenBlocks ==
    pc \in {"ps", "mk_vm", "blk", "b_attach", "upd", "done"} \cup AttachPoints
        /\ "wait" \notin silent
    => tgt \in {"running", "gone"}

(* Every scan ends: in its return, or in an exit. *)
ScanEnds == []<>(pc = "exited")

(* A target that chericat traces is not held for ever. *)
HeldIsReleased == tgt = "stopped" ~> tgt \in {"running", "gone"}

(* The promise of TracedCapture, that what is recorded was in the memory   *)
(* of a target held at that moment.                                        *)
Capture ==
    INSTANCE TracedCapture
        WITH Place <- Page \X Slot,
             held <- tgt = "stopped",
             alive <- tgt # "gone",
             memory <- {pl \in Page \X Slot : pl[2] \in mem[pl[1]]},
             records <- {[place |-> <<<<c.block, c.page>>, c.slot>>,
                          junk |-> c.junk] : c \in cap_info}

ImplementsCapture == Capture!CaptureSpec
=============================================================================
