----------------------------- MODULE TableRead -----------------------------
(***************************************************************************)
(* A view (chericat -v, -i) reads tables of a database file into arrays    *)
(* (db_process.c: get_all_vm_info and its like) while another chericat -p  *)
(* may be writing to the same file.  A table is read with two statements,  *)
(* one that counts its rows and one that fetches them; each is a           *)
(* transaction of its own.  The writer is scan_mem: the statements that    *)
(* ScanMem makes one after the other, each committed by itself.            *)
(*                                                                         *)
(* SQLite as the code uses it: no busy handler is set, so a statement that *)
(* cannot have its lock fails at once.  A reader holds a SHARED lock for   *)
(* as long as its statement runs, its callbacks included; a writer may     *)
(* prepare beside readers but commits alone.                               *)
(***************************************************************************)
EXTENDS Naturals, Sequences, FiniteSets, SequencesExt

CONSTANTS
    Statements,   \* the writer's statements in order: [op, table, rows]
    Stored,       \* the database file at the beginning: table -> rows
    DbMayFail,    \* a statement of a writer may fail of itself
    Library,      \* the files whose path contains the argument of -i
    MaxCount      \* bound on the count an uninitialized pointer may yield

Table == {"vm", "cap_info", "elf_sym", "comparts"}

(* The statements of a scan.  A row stands for its key, for comparts its   *)
(* compart_id: neither an UPDATE nor an INSERT OR REPLACE of a row that is *)
(* there changes how many there are.                                       *)
IsStatement(s) ==
    /\ s.op \in {"create", "insert", "update"} /\ s.table \in Table
    /\ s.op # "insert" => s.rows = {}
    /\ IsFiniteSet(s.rows)

ASSUME TableReadAssumption ==
    /\ DbMayFail \in BOOLEAN
    /\ Len(Statements) \in Nat
    /\ \A k \in 1..Len(Statements) : IsStatement(Statements[k])
    /\ Stored = [t \in Table |-> Stored[t]]
    /\ \A t \in Table : IsFiniteSet(Stored[t])
    /\ MaxCount \in Nat

VARIABLES
    view,     \* the view under way: the tables it reads, in order, whether
              \* it asserts that its arrays were filled, and whether it is
              \* about one library: [tables, must, lib]
    rpc,      \* the view: "idle", "exists", "count", "select", "rows",
              \* "shown" or "aborted"
    rt,       \* the view: the table it is at, an index into view.tables
    count,    \* the view: what the COUNT gave, the length of the array
    rows,     \* the view: the rows its SELECT has still to deliver
    got,      \* the view: the rows in the array of each table
    shared,   \* the view holds a SHARED lock
    wpos,     \* the writer: the statement it is at
    wlock,    \* the writer: "none", "reserved" or "exclusive"
    tables,   \* the database: the tables that exist
    db,       \* the database: the rows of each table
    undefd,   \* ghost: an uninitialized count was used
    overrun,  \* ghost: a row was written behind the array
    raced     \* ghost: the table grew after the COUNT

readVars == <<view, rpc, rt, count, rows, got, shared>>
writeVars == <<wpos, wlock>>
fileVars == <<tables, db>>
readGhosts == <<undefd, overrun, raced>>
tableVars == <<readVars, writeVars, fileVars, readGhosts>>

Reading == view.tables[rt]

-----------------------------------------------------------------------------
(* assert_db_table_exists: errx when the table is not there or the file is *)
(* locked.                                                                 *)
TableExists ==
    /\ rpc = "exists"
    /\ rpc' = IF Reading \in tables /\ wlock # "exclusive" THEN "count"
              ELSE "aborted"
    /\ UNCHANGED <<view, rt, count, rows, got, shared, writeVars, fileVars, readGhosts>>

(* The rows a statement of the view asks for: of the symbol view's         *)
(* capabilities WHERE cap_loc_path LIKE '%lib%'.                           *)
Selected ==
    {row \in db[Reading] : view.lib /\ Reading = "cap_info" => row.file \in Library}

(* The number of rows that the COUNT of this table gives. *)
CountOfVm == Cardinality(db["vm"])
RowCount == Cardinality(Selected)

(* SELECT COUNT.  The result code is not looked at: when the statement has *)
(* failed, `count' is an uninitialized pointer that is converted and freed *)
(* all the same.                                                           *)
CountRows ==
    /\ rpc = "count"
    /\ \/ /\ wlock # "exclusive"
          /\ count' = RowCount /\ rpc' = "select"
          /\ raced' = FALSE /\ UNCHANGED undefd
       \/ /\ wlock = "exclusive"
          /\ count' \in 0..MaxCount /\ rpc' \in {"select", "aborted"}
          /\ undefd' = TRUE /\ UNCHANGED raced
    /\ UNCHANGED <<view, rt, rows, got, shared, writeVars, fileVars, overrun>>

(* What follows the reading of one table. *)
NextTable ==
    IF rt < Len(view.tables) THEN rpc' = "exists" /\ rt' = rt + 1
    ELSE rpc' = "shown" /\ UNCHANGED rt

SelectWaits ==
    /\ rpc = "select" /\ wlock # "exclusive"
    /\ shared' = TRUE /\ rows' = Selected /\ rpc' = "rows"
    /\ UNCHANGED <<view, rt, count, got, writeVars, fileVars, readGhosts>>

(* SELECT *: begins to read, or fails and leaves the array as it is. *)
SelectRows ==
    /\ rpc = "select"
    /\ \/ /\ wlock # "exclusive"
          /\ shared' = TRUE /\ rows' = Selected /\ rpc' = "rows"
          /\ UNCHANGED rt
       \/ /\ wlock = "exclusive" /\ view.must
          /\ rpc' = "aborted" /\ UNCHANGED <<rt, rows, shared>>
       \/ /\ wlock = "exclusive" /\ ~view.must
          /\ NextTable /\ UNCHANGED <<rows, shared>>
    /\ UNCHANGED <<view, count, got, writeVars, fileVars, readGhosts>>

(* The row in the next element of the array of its table. *)
StoreInPlace(row) == [got EXCEPT ![Reading] = {row}]
StoreRow(row) == [got EXCEPT ![Reading] = @ \cup {row}]

(* The callback of one row: it goes to the next element of the array, of   *)
(* which there are `count'.  Behind the array anything can happen.         *)
RowCallback ==
    /\ rpc = "rows"
    /\ \E row \in rows :
          /\ rows' = rows \ {row}
          /\ got' = StoreRow(row)
    /\ IF Cardinality(got[Reading]) < count
       THEN UNCHANGED <<rpc, shared, overrun>>
       ELSE /\ overrun' = TRUE
            /\ \/ rpc' = "aborted" /\ shared' = FALSE
               \/ UNCHANGED <<rpc, shared>>
    /\ UNCHANGED <<view, rt, count, writeVars, fileVars, undefd, raced>>

RowsEndUnfinalized ==
    /\ rpc = "rows" /\ rows = {}
    /\ UNCHANGED shared /\ NextTable
    /\ UNCHANGED <<view, count, rows, got, writeVars, fileVars, readGhosts>>

(* The last row: the lock is given back, the index of the array reset. *)
RowsEnd ==
    /\ rpc = "rows" /\ rows = {}
    /\ shared' = FALSE /\ NextTable
    /\ UNCHANGED <<view, count, rows, got, writeVars, fileVars, readGhosts>>

Reader == TableExists \/ CountRows \/ SelectRows \/ RowCallback \/ RowsEnd

-----------------------------------------------------------------------------
(* The writer's sqlite3_exec of one statement. *)
Statement == Statements[wpos]

(* It is prepared and executed up to its commit, beside the reader.  Only  *)
(* a table that is missing is created.                                     *)
WriteStatement ==
    /\ wpos <= Len(Statements) /\ wlock = "none"
    /\ (Statement.op = "create") = (Statement.table \notin tables)
    /\ wlock' = "reserved"
    /\ UNCHANGED <<wpos, readVars, fileVars, readGhosts>>

(* The commit takes the file for itself; with a reader at work it cannot   *)
(* and the statement is undone.  The failure is printed and ignored.       *)
WriteCommit ==
    /\ wlock = "reserved"
    /\ IF shared THEN wlock' = "none" /\ wpos' = wpos + 1
       ELSE wlock' = "exclusive" /\ UNCHANGED wpos
    /\ UNCHANGED <<readVars, fileVars, readGhosts>>

WriteEnd ==
    /\ wlock = "exclusive"
    /\ tables' = tables \cup {Statement.table}
    /\ db' = [db EXCEPT ![Statement.table] = @ \cup Statement.rows]
    /\ raced' = (raced \/ (rpc = "select" /\ db'[Reading] # db[Reading]))
    /\ wlock' = "none" /\ wpos' = wpos + 1
    /\ UNCHANGED <<readVars, undefd, overrun>>

(* It has nothing to do, or fails: the table to create is there, the table *)
(* to insert into or to update is not, the disk is full, ...               *)
WriteNothing ==
    /\ wpos <= Len(Statements) /\ wlock = "none"
    /\ DbMayFail \/ (Statement.op = "create") # (Statement.table \notin tables)
    /\ wpos' = wpos + 1
    /\ UNCHANGED <<wlock, readVars, fileVars, readGhosts>>

Writer == WriteStatement \/ WriteCommit \/ WriteEnd \/ WriteNothing

TableReadInit ==
    /\ view = [tables |-> <<>>, must |-> FALSE, lib |-> FALSE]
    /\ rpc = "idle" /\ rt = 1 /\ count = 0 /\ rows = {} /\ shared = FALSE
    /\ got = [t \in Table |-> {}]
    /\ wpos = 1 /\ wlock = "none"
    /\ tables = {t \in Table : Stored[t] # {}} /\ db = Stored
    /\ undefd = FALSE /\ overrun = FALSE /\ raced = FALSE

(* A view begins. *)
BeginView(v) ==
    /\ rpc = "idle"
    /\ view' = v /\ rpc' = "exists"
    /\ UNCHANGED <<rt, count, rows, got, shared, writeVars, fileVars, readGhosts>>

-----------------------------------------------------------------------------
(* "Obtain how many vm items from the database first, we can then use it   *)
(* to determine the size of the struct array for holding all the vm        *)
(* entries" (db_process.c:448): when both statements have succeeded, every *)
(* row that is delivered has its element in the array.                     *)
ArrayHoldsRows == ~undefd => ~overrun

(* The array is too small only when a statement of another process was     *)
(* committed between the COUNT and the SELECT, or the COUNT had failed and *)
(* the length was never set: a commit before or during the SELECT cannot   *)
(* do it, nor can the scan that precedes the view in the same call.        *)
(* (After the first row behind the array anything can happen.)             *)
OverrunOnlyByCommit == [][~overrun /\ overrun' => raced \/ undefd]_tableVars

(* A view reads vm before cap_info, scan_mem stores them the other way     *)
(* round: so a block that is shown is shown with all the capabilities its  *)
(* scan has stored for it, although the two tables are read at different   *)
(* times, and lost statements do not change it.  (A row names the block of *)
(* one scan.)                                                              *)
BlocksShownWhole ==
    rpc = "shown" /\ ToSet(view.tables) = {"vm", "cap_info"} /\ ~overrun /\ ~undefd =>
        \A row \in got["vm"] : \A c \in db["cap_info"] :
            c.block = row.block => c \in got["cap_info"]

(* The symbols of a file are stored before the capabilities found in its   *)
(* blocks, and the symbol view reads cap_info before elf_sym: a capability *)
(* that is shown is shown with every symbol that was stored for its file,  *)
(* unless the table could not be read and the view goes on without.  (A    *)
(* row names the file as one scan parsed it.)                              *)
SymbolsShown ==
    rpc = "shown" /\ ~overrun /\ ~undefd /\ got["elf_sym"] # {} =>
        \A c \in got["cap_info"] : \A s \in db["elf_sym"] :
            c.file = s.file => s \in got["elf_sym"]
=============================================================================
