---------------------------- MODULE LinkMapScan ----------------------------
(***************************************************************************)
(* The three tracing sessions that scan_mem opens on the run-time linker's *)
(* data before it scans any memory (rtld_linkmap_scan.c): get_r_debug,     *)
(* scan_rtld_linkmap and scan_r_comparts.  Each attaches, reads and        *)
(* detaches on its own, so the target runs between them and may dlopen or  *)
(* dlclose; what the first session captured (the address and the size of   *)
(* the array of compartments) is used by the third.  The rows go to the    *)
(* database table `comparts', whose primary key is the compartment id.     *)
(***************************************************************************)
EXTENDS Ptrace, Integers, SequencesExt

CONSTANTS
    Lib,            \* the objects the linker can load
    Main,           \* the program itself, first in the link map, never closed
    DefaultCompart, \* the default_compart_id of each
    SubComparts,    \* the ids of its sub-compartments, in order
    NumComparts,    \* compartment ids are below this number
    InitLinkmap,    \* the objects loaded when the scan begins
    NoLib,          \* library_path of a sub-compartment's row: NULL
    DbMayFail,      \* a statement may fail (SQLITE_BUSY, SQLITE_FULL, ...)
    MaxMoves        \* bound on the steps the target takes of its own

ASSUME LinkMapAssumption ==
    /\ Main \in Lib /\ NoLib \notin Lib
    /\ NumComparts \in Nat
    /\ DefaultCompart \in [Lib -> 0..NumComparts - 1]
    /\ SubComparts \in [Lib -> Seq(0..NumComparts - 1)]
    /\ InitLinkmap \in Seq(Lib) /\ Len(InitLinkmap) > 0
    /\ \A k \in 1..Len(InitLinkmap) : InitLinkmap[k] = Main <=> k = 1
    /\ DbMayFail \in BOOLEAN
    /\ MaxMoves \in Nat

VARIABLES
    linkmap,  \* target: the linker's list of loaded objects
    rcomp,    \* target: the compartment array: its size, its (re)allocation
    moves,    \* the number of steps the target has taken of its own
    rdbg,     \* chericat: rcomp as get_r_debug found it
    node,     \* chericat: position in the link map, then in the array
    sub,      \* chericat: position among the sub-compartments of a node
    libs,     \* chericat: the compart_data_list, newest object first
    tables,   \* database: the tables that exist
    comparts  \* database: the rows of the table comparts

linkTargetVars == <<linkmap, rcomp, moves>>
sessionVars == <<rdbg, node, sub, libs>>
linkDbVars == <<tables, comparts>>
linkVars == <<ptraceVars, linkTargetVars, sessionVars, linkDbVars>>

(* compart_name of a row: the id of the compartment it names, or one of    *)
(* these.                                                                  *)
NoName == -1
JunkName == -2

AttachPoints == {"rd_attach", "lm_attach", "rc_attach"}
SessionPoints ==
    AttachPoints \cup
    {"mk_comparts", "rd_auxv", "rd_wait", "rd_io", "lm_wait", "lm_io",
     "lm_sub", "lm_detach", "rc_wait", "rc_io", "rc_detach"}

-----------------------------------------------------------------------------
(* sql_query_exec: a statement takes effect or does not, as a whole; the   *)
(* callers here ignore which.  Without its table it fails.                 *)
SqlOutcomes(table) ==
    IF table \notin tables THEN {FALSE}
    ELSE IF DbMayFail THEN BOOLEAN ELSE {TRUE}

SqlSilent(ok) == silent' = IF ok THEN silent ELSE silent \cup {"sql"}

(* CREATE TABLE IF NOT EXISTS. *)
CreateOutcomes(table) ==
    IF table \in tables \/ ~DbMayFail THEN {TRUE} ELSE BOOLEAN

UpdateOnly(rows, row) == {IF c.id = row.id THEN row ELSE c : c \in rows}

(* INSERT OR REPLACE on a table keyed by compart_id. *)
Replace(rows, row) == {c \in rows : c.id # row.id} \cup {row}

DefaultRow(l) ==
    [id |-> DefaultCompart[l], lib |-> l, name |-> NoName, parent |-> NoName]

OwnParent(l, id) == [id |-> id, lib |-> NoLib, name |-> id, parent |-> id]

SubRow(l, id) ==
    [id |-> id, lib |-> NoLib, name |-> id, parent |-> DefaultCompart[l]]

RenameNext(rows, id, name) ==
    {IF c.id = id + 1 THEN [c EXCEPT !.name = name] ELSE c : c \in rows}

(* UPDATE comparts SET compart_name = name WHERE compart_id = id. *)
Rename(rows, id, name) ==
    {IF c.id = id THEN [c EXCEPT !.name = name] ELSE c : c \in rows}

-----------------------------------------------------------------------------
(* As DROP TABLE and CREATE TABLE would do it. *)
CreateCompartsAfresh ==
    /\ pc = "mk_comparts" /\ pc' = "rd_auxv"
    /\ tables' = tables \cup {"comparts"} /\ comparts' = {} /\ SqlSilent(TRUE)
    /\ UNCHANGED <<tgt, linkTargetVars, sessionVars>>

(* create_comparts_table *)
CreateCompartsTable ==
    /\ pc = "mk_comparts"
    /\ \E ok \in CreateOutcomes("comparts") :
          /\ tables' = IF ok THEN tables \cup {"comparts"} ELSE tables
          /\ SqlSilent(ok)
    /\ pc' = "rd_auxv"
    /\ UNCHANGED <<tgt, linkTargetVars, sessionVars, comparts>>

(* procstat_getauxv: err() when the process is gone. *)
GetAuxv ==
    /\ pc = "rd_auxv"
    /\ pc' = IF tgt = "gone" THEN "exited" ELSE "rd_attach"
    /\ UNCHANGED <<tgt, silent, linkTargetVars, sessionVars, linkDbVars>>

(* piod_read: errx() unless the target is stopped under chericat. *)
PiodReadFails ==
    /\ \/ pc = "rd_io"
       \/ pc = "lm_io" /\ node <= Len(linkmap)
       \/ pc = "lm_sub"
       \/ pc = "rc_io" /\ node < rdbg.size
    /\ tgt # "stopped"
    /\ ExitFrom({pc})
    /\ UNCHANGED <<linkTargetVars, sessionVars, linkDbVars>>

ReadsOneMore ==
    /\ tgt = "stopped"
    /\ PtDetach("rd_io", "lm_attach")
    /\ rdbg' = [rcomp EXCEPT !.size = @ + 1]
    /\ UNCHANGED <<node, sub, libs, linkTargetVars, linkDbVars>>

(* get_r_debug: program headers, dynamic table and r_debug, then detach. *)
GetRDebug ==
    /\ tgt = "stopped"
    /\ PtDetach("rd_io", "lm_attach")
    /\ rdbg' = rcomp
    /\ UNCHANGED <<node, sub, libs, linkTargetVars, linkDbVars>>

(* The object goes in front of the compart_data_list. *)
AppendToList(l) == Append(libs, l)
AddToList(l) == <<l>> \o libs

(* One turn of the loop of scan_rtld_linkmap: the object's entry and path  *)
(* are read, the object goes in front of the list, and its row into        *)
(* comparts, replacing the row that has its compartment id.                *)
LinkmapEntry ==
    /\ pc = "lm_io" /\ tgt = "stopped" /\ node <= Len(linkmap)
    /\ libs' = AddToList(linkmap[node])
    /\ \E ok \in SqlOutcomes("comparts") :
          /\ comparts' = IF ok THEN Replace(comparts, DefaultRow(linkmap[node]))
                         ELSE comparts
          /\ SqlSilent(ok)
    /\ IF SubComparts[linkmap[node]] = <<>>
       THEN node' = node + 1 /\ UNCHANGED <<pc, sub>>
       ELSE pc' = "lm_sub" /\ sub' = 1 /\ UNCHANGED node
    /\ UNCHANGED <<tgt, linkTargetVars, rdbg, tables>>

(* One turn of the inner loop, over the object's sub-compartments. *)
SubcompartEntry ==
    /\ pc = "lm_sub" /\ tgt = "stopped"
    /\ LET l == linkmap[node]
           ids == SubComparts[l]
       IN  /\ \E ok \in SqlOutcomes("comparts") :
                 /\ comparts' = IF ok THEN Replace(comparts, SubRow(l, ids[sub]))
                                ELSE comparts
                 /\ SqlSilent(ok)
           /\ IF sub < Len(ids)
              THEN sub' = sub + 1 /\ UNCHANGED <<pc, node>>
              ELSE pc' = "lm_io" /\ node' = node + 1 /\ UNCHANGED sub
    /\ UNCHANGED <<tgt, linkTargetVars, rdbg, libs, tables>>

(* r_map is NULL: the list has been walked; detach. *)
LinkmapEnd ==
    /\ node > Len(linkmap)
    /\ PtDetach("lm_io", "rc_attach")
    /\ node' = 0
    /\ UNCHANGED <<rdbg, sub, libs, linkTargetVars, linkDbVars>>

(* One turn of the loop of scan_r_comparts, at the address get_r_debug     *)
(* found.  If the array has been reallocated since, the memory read is     *)
(* whatever is there now: the old entry, a string that names nothing, no   *)
(* string at all (the NULL that the code tests for), or nothing mapped.    *)
CompartsEntry ==
    /\ pc = "rc_io" /\ tgt = "stopped" /\ node < rdbg.size
    /\ \/ /\ \E name \in IF rdbg.gen = rcomp.gen THEN {node}
                         ELSE {node, JunkName},
                ok \in SqlOutcomes("comparts") :
                /\ comparts' = IF ok THEN Rename(comparts, node, name)
                               ELSE comparts
                /\ SqlSilent(ok)
          /\ node' = node + 1
          /\ UNCHANGED pc
       \/ /\ rdbg.gen # rcomp.gen
          /\ node' = node + 1
          /\ UNCHANGED <<pc, comparts, silent>>
       \/ /\ rdbg.gen # rcomp.gen
          /\ pc' = "exited"
          /\ UNCHANGED <<node, comparts, silent>>
    /\ UNCHANGED <<tgt, linkTargetVars, rdbg, sub, libs, tables>>

(* The target is killed after the entry has been read: get_string returns  *)
(* NULL for the name, the row is left as it is and the loop goes on.       *)
CompartsNameLost ==
    /\ pc = "rc_io" /\ tgt = "stopped" /\ node < rdbg.size
    /\ TargetMayDie /\ tgt' = "gone" /\ node' = node + 1
    /\ UNCHANGED <<pc, silent, linkTargetVars, rdbg, sub, libs, linkDbVars>>

CompartsEnd ==
    /\ node >= rdbg.size
    /\ PtDetach("rc_io", "blk")
    /\ UNCHANGED <<linkTargetVars, sessionVars, linkDbVars>>

(* The attach at the head of each session. *)
SessionAttach ==
    /\ \/ PtAttach("rd_attach", "rd_wait", "rd_io")
       \/ PtAttach("lm_attach", "lm_wait", "lm_io")
       \/ PtAttach("rc_attach", "rc_wait", "rc_io")
       \/ Waitpid("rd_wait", "rd_io")
       \/ Waitpid("lm_wait", "lm_io")
       \/ Waitpid("rc_wait", "rc_io")
    /\ UNCHANGED <<linkTargetVars, sessionVars, linkDbVars>>

Sessions ==
    \/ CreateCompartsTable \/ GetAuxv \/ SessionAttach \/ PiodReadFails
    \/ GetRDebug \/ LinkmapEntry \/ SubcompartEntry \/ LinkmapEnd
    \/ CompartsEntry \/ CompartsNameLost \/ CompartsEnd

-----------------------------------------------------------------------------
(* The target, which runs unless it is stopped or gone. *)
Loaded == ToSet(linkmap)

(* The compartments an object brings. *)
CompartsOf(l) == {DefaultCompart[l]} \cup ToSet(SubComparts[l])

(* n is the array's size once the compartments C are in it. *)
SizeWith(n, size, C) ==
    /\ n >= size /\ \A c \in C : c < n
    /\ n = size \/ n - 1 \in C

(* The linker loads an object; the array is reallocated when it grows. *)
Dlopen(l) ==
    /\ TargetRuns /\ moves < MaxMoves /\ l \notin Loaded
    /\ linkmap' = Append(linkmap, l)
    /\ \E n \in 0..NumComparts :
          /\ SizeWith(n, rcomp.size, CompartsOf(l))
          /\ rcomp' = IF n = rcomp.size THEN rcomp
                      ELSE [size |-> n, gen |-> rcomp.gen + 1]
    /\ moves' = moves + 1

(* The linker gives an object its compartments before it puts the object   *)
(* into the list, and the stop of a session may fall in between.           *)
GrowComparts(l) ==
    /\ TargetRuns /\ moves < MaxMoves /\ l \notin Loaded
    /\ \E n \in rcomp.size + 1..NumComparts :
          /\ SizeWith(n, rcomp.size, CompartsOf(l))
          /\ rcomp' = [size |-> n, gen |-> rcomp.gen + 1]
    /\ moves' = moves + 1
    /\ UNCHANGED linkmap

Dlclose(l) ==
    /\ TargetRuns /\ moves < MaxMoves /\ l # Main
    /\ \E k \in 1..Len(linkmap) :
          linkmap[k] = l /\ linkmap' = RemoveAt(linkmap, k)
    /\ moves' = moves + 1
    /\ UNCHANGED rcomp

-----------------------------------------------------------------------------
(* The sessions on their own. *)
LinkInit ==
    /\ pc = "mk_comparts" /\ tgt = "running" /\ silent = {}
    /\ linkmap = InitLinkmap
    /\ rcomp \in [size : 0..NumComparts, gen : {0}]
    /\ SizeWith(rcomp.size, 0, UNION {CompartsOf(l) : l \in Loaded})
    /\ moves = 0
    /\ rdbg = [size |-> 0, gen |-> 0] /\ node = 1 /\ sub = 1 /\ libs = <<>>
    /\ tables = {} /\ comparts = {}

LinkEnvironment ==
    \/ /\ \E l \in Lib : Dlopen(l) \/ GrowComparts(l) \/ Dlclose(l)
       /\ UNCHANGED <<ptraceVars, sessionVars, linkDbVars>>
    \/ /\ KernelStop \/ KernelReap \/ TargetDies \/ ExitFrom(SessionPoints)
       /\ UNCHANGED <<linkTargetVars, sessionVars, linkDbVars>>

LinkNext == Sessions \/ LinkEnvironment

LinkSpec == LinkInit /\ [][LinkNext]_linkVars

(* chericat keeps running, the kernel delivers the stops it owes. *)
LinkFairSpec ==
    /\ LinkSpec
    /\ WF_linkVars(Sessions)
    /\ WF_linkVars((KernelStop \/ KernelReap)
                   /\ UNCHANGED <<linkTargetVars, sessionVars, linkDbVars>>)

-----------------------------------------------------------------------------
LinkTypes ==
    /\ tgt \in TargetState
    /\ silent \subseteq SilentFailure
    /\ linkmap \in Seq(Lib) /\ libs \in Seq(Lib)
    /\ rcomp \in [size : 0..NumComparts, gen : Nat]
    /\ rdbg \in [size : 0..NumComparts, gen : Nat]
    /\ moves \in 0..MaxMoves
    /\ node \in Nat /\ sub \in Nat
    /\ tables \subseteq {"vm", "cap_info", "elf_sym", "comparts"}

(* The variables keep their types: link map, list and rows hold objects of *)
(* the target, ids are ids.                                                *)
LinkTypeOK ==
    /\ pc \in SessionPoints \cup {"blk", "exited"}
    /\ LinkTypes
    /\ \A c \in comparts : /\ c.id \in Nat
                           /\ c.lib \in Lib \cup {NoLib}
                           /\ c.name \in Nat \cup {NoName, JunkName}
                           /\ c.parent \in Nat \cup {NoName}

(* The walk of scan_rtld_linkmap sees one state of the linker's list: what *)
(* it has collected is the front of the target's present list, newest      *)
(* object first, although the target ran until the session's stop and may  *)
(* be killed under it (rtld_linkmap_scan.c:244-301).                       *)
WalkOfOneStop ==
    /\ pc = "lm_io" /\ tgt = "stopped" =>
          libs = Reverse(SubSeq(linkmap, 1, node - 1))
    /\ pc = "lm_sub" /\ tgt = "stopped" =>
          libs = Reverse(SubSeq(linkmap, 1, node))

(* A sub-compartment's row never enters the table before the row of the    *)
(* library it names as its parent, wherever chericat is interrupted, unless *)
(* the parent's own statement failed.                                      *)
ParentRecorded ==
    "sql" \notin silent =>
        \A c \in comparts : c.parent # NoName =>
            \E d \in comparts : d.id = c.parent /\ d.lib # NoLib

(* A compartment is called by the name of another, or by a string that is  *)
(* none, only when the target has reallocated the array after get_r_debug  *)
(* took its address (rtld_linkmap_scan.c:321).                             *)
NameOfOwnCompart ==
    \A c \in comparts :
        c.name \in {NoName, c.id} \/ rdbg.gen # rcomp.gen

(* Every library that was loaded when its session stopped the target is in *)
(* the table once the sessions have ended without an error: "we can get    *)
(* the list of mapped libraries and their corresponding compart_id"        *)
(* (rtld_linkmap_scan.c:234).  libs is that list.                          *)
NoLibraryLost ==
    pc = "blk" /\ "sql" \notin silent =>
        \A l \in ToSet(libs) :
            \E c \in comparts : c.lib = l /\ c.id = DefaultCompart[l]

(* The sessions end, in the scan of the blocks or in an exit: waitpid does *)
(* not block for ever, and the walks of a list and of an array that the    *)
(* target may change between sessions are finite.                          *)
SessionsEnd == <>(pc \in {"blk", "exited"})
=============================================================================
