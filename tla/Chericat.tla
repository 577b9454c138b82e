------------------------------ MODULE Chericat ------------------------------
(***************************************************************************)
(* One call of chericat (chericat.c): main reads its options one by one,   *)
(* then the command, and then does what was selected in a fixed order:     *)
(* -p scans the target into the database, -v shows the blocks or           *)
(* compartments, -i the capabilities of one library.  The database is      *)
(* opened by whatever comes first and is the file that -f names, beside    *)
(* which another call may be scanning (TableRead), or private memory.      *)
(* SIGTERM, SIGINT and SIGQUIT run terminate_chericat wherever they arrive.*)
(*                                                                         *)
(* The scan appears here as its statements; ScanMem has what lies between. *)
(***************************************************************************)
EXTENDS TableRead

CONSTANTS
    Lines,        \* the command lines: [args : Seq(Argument), command : Command]
    OwnScan,      \* the statements of the scan that -p makes
    OpenMayFail,  \* sqlite3_open may fail
    MaxSignals    \* bound on the signals that arrive

(* ok: the option is known and its argument is well formed.                *)
Argument == [opt : {"d", "f", "p", "v", "i"}, ok : BOOLEAN] \cup {[opt |-> "?", ok |-> FALSE]}
Command == {"lib", "comp", "other"}   \* show lib, show comp, anything else

ASSUME ChericatAssumption ==
    /\ \A l \in Lines : l.args \in Seq(Argument) /\ l.command \in Command
    /\ Len(OwnScan) \in Nat
    /\ \A k \in 1..Len(OwnScan) : IsStatement(OwnScan[k])
    /\ OpenMayFail \in BOOLEAN /\ MaxSignals \in Nat

(* A capability belongs to its block, a symbol to a capability of its file. *)
PartTable(t) == IF t = "vm" THEN "cap_info" ELSE "elf_sym"
Belongs(t, part, row) == IF t = "vm" THEN part.block = row.block ELSE part.file = row.file
Apart(t, whole, parts) == \A row \in whole : \A part \in parts : ~Belongs(t, part, row)

(* The rows that a scan stores into a table from its k-th statement on. *)
RowsFrom(scan, t, k) == UNION {scan[j].rows : j \in {m \in k..Len(scan) : scan[m].table = t}}

(* A scan stores what belongs to a row before the row (PartsStoredFirst of *)
(* ScanMemRows_proofs), and what one scan stores does not belong to the    *)
(* rows of another.                                                        *)
ASSUME ScanOrderAssumption ==
    \A t \in {"vm", "cap_info"} :
        /\ \A scan \in {Statements, OwnScan} : \A k \in 1..Len(scan) :
              scan[k].table = t => Apart(t, scan[k].rows, RowsFrom(scan, PartTable(t), k))
        /\ Apart(t, RowsFrom(Statements, t, 1), RowsFrom(OwnScan, PartTable(t), 1))
        /\ Apart(t, RowsFrom(OwnScan, t, 1), RowsFrom(Statements, PartTable(t), 1))
        /\ Apart(t, Stored[t], RowsFrom(Statements, PartTable(t), 1))
        /\ Apart(t, Stored[t], RowsFrom(OwnScan, PartTable(t), 1))

VARIABLES
    pc,       \* where main is: "start", "options", one of Work, "terminate",
              \* "exit", "ended", or "hung"
    line,     \* the options that are still to be read
    command,  \* the command behind them
    opts,     \* chericat_selected_opts
    dbname,   \* "file" or ":memory:"
    handle,   \* the global db: "null", "open" or "closed"
    own,      \* the statement its own scan is at
    signals,  \* the number of signals that have arrived
    asked,    \* ghost: what the whole line asks for
    closedTwice, \* ghost: a handle was closed that was closed
    late      \* ghost: a signal came when the process was already terminating

lineVars == <<line, command, opts, dbname>>
mainVars == <<pc, lineVars, handle, own, signals, asked, closedTwice, late>>
vars == <<mainVars, tableVars>>

Work == {"p", "v", "i"}
After(step) == CASE step = "p" -> "v" [] step = "v" -> "i" [] step = "i" -> "terminate"

(* The usage text, read over the whole line. *)
Options(args) == {args[k].opt : k \in 1..Len(args)}
Valid(l) ==
    /\ Len(l.args) > 0
    /\ \A k \in 1..Len(l.args) : l.args[k].ok
    /\ Options(l.args) \cap {"v", "i"} # {} => l.command \in {"lib", "comp"}
Asked(l) ==
    [valid |-> Valid(l), work |-> Options(l.args) \cap Work,
     dbname |-> IF "f" \in Options(l.args) THEN "file" ELSE ":memory:"]

-----------------------------------------------------------------------------
IndexNotReset ==
    /\ rpc' = "idle" /\ rt' = 1 /\ count' = 0 /\ rows' = {} /\ UNCHANGED got
    /\ view' = [tables |-> <<>>, must |-> FALSE, lib |-> FALSE]
    /\ undefd' = FALSE /\ overrun' = FALSE /\ raced' = FALSE
    /\ UNCHANGED <<writeVars, fileVars>>

(* No view is under way: its arrays are freed, or never returned to. *)
NoView ==
    /\ rpc' = "idle" /\ rt' = 1 /\ count' = 0 /\ rows' = {}
    /\ got' = [t \in Table |-> {}]
    /\ view' = [tables |-> <<>>, must |-> FALSE, lib |-> FALSE]
    /\ undefd' = FALSE /\ overrun' = FALSE /\ raced' = FALSE
    /\ UNCHANGED <<writeVars, fileVars>>

(* exit: the kernel takes back what the process holds. *)
Ends == pc' = "ended" /\ shared' = FALSE /\ NoView

(* The first getopt_long: without an option there is only the usage text.  *)
(* Then the signal handlers are installed.                                 *)
Start ==
    /\ pc = "start"
    /\ pc' = IF line = <<>> THEN "ended" ELSE "options"
    /\ UNCHANGED <<lineVars, handle, own, signals, asked, closedTwice, late, tableVars>>

(* One option.  exit_usage, or errx for a pid that is no number. *)
ParseOption ==
    /\ pc = "options" /\ line # <<>>
    /\ line' = Tail(line)
    /\ LET arg == Head(line)
       IN  IF arg.ok
           THEN /\ opts' = opts \cup ({arg.opt} \cap Work)
                /\ dbname' = IF arg.opt = "f" THEN "file" ELSE dbname
                /\ UNCHANGED pc
           ELSE pc' = "ended" /\ UNCHANGED <<opts, dbname>>
    /\ UNCHANGED <<command, handle, own, signals, asked, closedTwice, late, tableVars>>

CommandForViewOnly ==
    /\ pc = "options" /\ line = <<>>
    /\ pc' = IF "v" \in opts /\ command = "other" THEN "ended" ELSE "p"
    /\ UNCHANGED <<lineVars, handle, own, signals, asked, closedTwice, late, tableVars>>

(* Only -v and -i need a command. *)
CheckCommand ==
    /\ pc = "options" /\ line = <<>>
    /\ pc' = IF opts \cap {"v", "i"} # {} /\ command = "other" THEN "ended" ELSE "p"
    /\ UNCHANGED <<lineVars, handle, own, signals, asked, closedTwice, late, tableVars>>

NotSelected ==
    /\ pc \in Work \ opts
    /\ pc' = After(pc)
    /\ UNCHANGED <<lineVars, handle, own, signals, asked, closedTwice, late, tableVars>>

(* A private database is empty and has no other writer. *)
OpenedDb ==
    IF dbname = "file" THEN UNCHANGED <<writeVars, fileVars>>
    ELSE /\ tables' = {} /\ db' = [t \in Table |-> {}]
         /\ wlock' = "none" /\ wpos' = Len(Statements) + 1

OpenGoesOn ==
    /\ pc \in opts /\ handle = "null"
    /\ \/ handle' = "open" /\ OpenedDb
       \/ OpenMayFail /\ handle' = "closed" /\ UNCHANGED <<writeVars, fileVars>>
    /\ UNCHANGED <<pc, lineVars, own, signals, asked, closedTwice, late, readVars, readGhosts>>

(* `if (db == NULL)' before each piece of work.  When sqlite3_open fails   *)
(* the handle is closed and main returns.                                  *)
OpenDb ==
    /\ pc \in opts /\ handle = "null"
    /\ \/ handle' = "open" /\ UNCHANGED pc /\ OpenedDb
       \/ /\ OpenMayFail
          /\ handle' = "closed" /\ pc' = "exit"
          /\ UNCHANGED <<writeVars, fileVars>>
    /\ UNCHANGED <<lineVars, own, signals, asked, closedTwice, late, readVars, readGhosts>>

-----------------------------------------------------------------------------
(* One statement of its own scan.  It fails when the other scan has the    *)
(* file or when its table is missing; the failure is printed and ignored.  *)
ScanStatement ==
    /\ pc = "p" /\ "p" \in opts /\ handle # "null" /\ own <= Len(OwnScan)
    /\ own' = own + 1
    /\ LET s == OwnScan[own]
           works == wlock = "none" /\ (s.op # "create" => s.table \in tables)
       IN  \/ /\ works
              /\ tables' = tables \cup {s.table}
              /\ db' = [db EXCEPT ![s.table] = @ \cup s.rows]
           \/ (~works \/ DbMayFail) /\ UNCHANGED fileVars
    /\ UNCHANGED <<pc, lineVars, handle, signals, asked, closedTwice, late,
                   readVars, writeVars, readGhosts>>

ScanReturns ==
    /\ pc = "p" /\ "p" \in opts /\ handle # "null" /\ own > Len(OwnScan)
    /\ pc' = "v"
    /\ UNCHANGED <<lineVars, handle, own, signals, asked, closedTwice, late, tableVars>>

(* err or errx in the scan: no such process, a read that fails, ...  The   *)
(* handle is left as it is.                                                *)
ScanExits ==
    /\ pc = "p" /\ "p" \in opts /\ handle # "null"
    /\ Ends
    /\ UNCHANGED <<lineVars, handle, own, signals, asked, closedTwice, late>>

(* vm_caps_view or comp_caps_view, and caps_syms_view: the tables they     *)
(* read, in order.                                                         *)
ViewOf(option, cmd) ==
    CASE option = "i" -> [tables |-> <<"cap_info", "elf_sym">>, must |-> FALSE, lib |-> TRUE]
      [] option = "v" /\ cmd = "lib" ->
            [tables |-> <<"vm", "cap_info">>, must |-> TRUE, lib |-> FALSE]
      [] OTHER -> [tables |-> <<"comparts", "cap_info">>, must |-> TRUE, lib |-> FALSE]

StartView ==
    /\ pc \in opts \cap {"v", "i"} /\ handle # "null"
    /\ ~(pc = "i" /\ command = "comp")
    /\ BeginView(ViewOf(pc, command))
    /\ UNCHANGED mainVars

(* -i show comp is still to be written. *)
NothingToShow ==
    /\ pc = "i" /\ "i" \in opts /\ handle # "null" /\ command = "comp"
    /\ pc' = "terminate"
    /\ UNCHANGED <<lineVars, handle, own, signals, asked, closedTwice, late, tableVars>>

ViewStep == pc \in {"v", "i"} /\ Reader /\ UNCHANGED mainVars

ViewReturns ==
    /\ pc \in {"v", "i"} /\ rpc = "shown"
    /\ pc' = After(pc) /\ NoView
    /\ UNCHANGED <<shared, lineVars, handle, own, signals, asked, closedTwice, late>>

ViewExits ==
    /\ pc \in {"v", "i"} /\ rpc = "aborted"
    /\ Ends
    /\ UNCHANGED <<lineVars, handle, own, signals, asked, closedTwice, late>>

-----------------------------------------------------------------------------
(* terminate_chericat.  SQLite refuses to close a handle with a statement  *)
(* under way; db is never set to NULL, so a second call closes it again,   *)
(* and then anything can happen.                                           *)
Terminate ==
    /\ pc = "terminate"
    /\ \/ handle = "null" /\ pc' = "exit" /\ UNCHANGED <<handle, closedTwice>>
       \/ /\ handle = "open"
          /\ handle' \in IF shared THEN {"open"}
                         ELSE IF signals > 0 THEN {"open", "closed"} ELSE {"closed"}
          /\ pc' = "exit" /\ UNCHANGED closedTwice
       \/ /\ handle = "closed"
          /\ closedTwice' = TRUE /\ pc' \in {"exit", "hung"} /\ UNCHANGED handle
    /\ UNCHANGED <<lineVars, own, signals, asked, late, tableVars>>

Exit ==
    /\ pc = "exit"
    /\ Ends
    /\ UNCHANGED <<lineVars, handle, own, signals, asked, closedTwice, late>>

(* A signal interrupts main, or the handler of another signal.  Inside     *)
(* SQLite or malloc the handler may wait for a lock that it holds itself.  *)
Signal ==
    /\ pc \notin {"start", "ended", "hung"} /\ signals < MaxSignals
    /\ signals' = signals + 1
    /\ pc' \in {"terminate", "hung"}
    /\ late' = (late \/ pc \in {"terminate", "exit"})
    /\ NoView
    /\ UNCHANGED <<lineVars, handle, own, asked, closedTwice, shared>>

-----------------------------------------------------------------------------
Init ==
    /\ TableReadInit
    /\ \E l \in Lines : line = l.args /\ command = l.command /\ asked = Asked(l)
    /\ pc = "start" /\ opts = {} /\ dbname = ":memory:" /\ handle = "null"
    /\ own = 1 /\ signals = 0
    /\ closedTwice = FALSE /\ late = FALSE

Main ==
    \/ Start \/ ParseOption \/ CheckCommand
    \/ NotSelected \/ OpenDb
    \/ ScanStatement \/ ScanReturns \/ ScanExits
    \/ StartView \/ NothingToShow \/ ViewStep \/ ViewReturns \/ ViewExits
    \/ Terminate \/ Exit

OtherScan == Writer /\ UNCHANGED mainVars

Next == Main \/ Signal \/ OtherScan

Spec == Init /\ [][Next]_vars

(* The process keeps running; nothing is asked of signals or the other one. *)
FairSpec == Spec /\ WF_vars(Main)
-----------------------------------------------------------------------------
(* The variables keep their types; a view is under way only where main has *)
(* called it, and holds its lock only while it reads rows.                 *)
ChericatTypeOK ==
    /\ pc \in {"start", "options", "terminate", "exit", "ended", "hung"} \cup Work
    /\ opts \subseteq Work /\ dbname \in {"file", ":memory:"}
    /\ handle \in {"null", "open", "closed"}
    /\ own \in 1..Len(OwnScan) + 1 /\ signals \in 0..MaxSignals
    /\ rpc \in {"idle", "exists", "count", "select", "rows", "shown", "aborted"}
    /\ rpc # "idle" => view.tables \in Seq(Table) /\ rt \in 1..Len(view.tables)
    /\ count \in Nat
    /\ shared => rpc = "rows" \/ (signals > 0 /\ pc # "ended")
    /\ wpos \in 1..Len(Statements) + 1
    /\ wlock \in {"none", "reserved", "exclusive"}
    /\ wlock # "none" => wpos <= Len(Statements)
    /\ tables \subseteq Table

(* Nothing is opened, scanned or shown before the whole command line has   *)
(* been found valid, and what is done then does not depend on the order of *)
(* the options: -f may stand behind -p, an error may be the last word      *)
(* (chericat.c:139-191).                                                   *)
WholeLineDecides ==
    handle # "null" \/ own > 1 \/ rpc # "idle" =>
        asked.valid /\ opts = asked.work /\ dbname = asked.dbname

(* SQLite is given the handle only while it is open, and the handle is     *)
(* closed a second time only when a signal meets a process that is already *)
(* terminating (chericat.c:95-102, 196-199).                               *)
ClosedOnce ==
    /\ (own > 1 \/ rpc # "idle") /\ pc \in Work => handle = "open"
    /\ closedTwice => late

(* Without -f the view shows what this very call has scanned, all of it:   *)
(* the scan comes first, its tables are there, and the arrays hold every   *)
(* row that is asked for.  (tests/cmdline_opts_test.sh: -v without -f or -p is an error.)    *)
PrivateViewIsWhole ==
    dbname = ":memory:" /\ rpc = "shown" =>
        /\ "p" \in opts /\ own > Len(OwnScan) /\ ~overrun
        /\ \A t \in ToSet(view.tables) :
              got[t] = {r \in db[t] : view.lib /\ t = "cap_info" => r.file \in Library}

(* The process comes to an end, whatever the other scan does and however   *)
(* its own statements fail; only a signal can hang it.                     *)
ChericatEnds == <>(pc = "ended" \/ (pc = "hung" /\ signals > 0))
=============================================================================
