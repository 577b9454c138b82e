--------------------------- MODULE Chericat_proofs ---------------------------
(***************************************************************************)
(* What holds of every call of chericat, for all command lines, databases, *)
(* scans and numbers of signals: the types, that the whole line decides,   *)
(* that the handle is closed once, and what the arrays of a view hold.     *)
(***************************************************************************)
EXTENDS Chericat, TLAPS, FiniteSetTheorems

(* Where main is, and what it has opened there. *)
MainInv ==
    /\ pc \in {"start", "options", "terminate", "exit", "ended", "hung"} \cup Work
    /\ opts \subseteq Work /\ dbname \in {"file", ":memory:"} /\ command \in Command
    /\ handle \in {"null", "open", "closed"}
    /\ own \in 1..Len(OwnScan) + 1 /\ signals \in 0..MaxSignals
    /\ rpc # "idle" => /\ pc \in {"v", "i"} \cap opts /\ handle = "open"
                       /\ ~(pc = "i" /\ command = "comp")
    /\ pc \in {"start", "options"} => handle = "null" /\ own = 1 /\ ~shared
    /\ pc \in Work => handle # "closed" /\ (handle = "null" => own = 1)
    /\ pc \in {"v", "i"} /\ "p" \in opts => own = Len(OwnScan) + 1
    /\ pc = "terminate" /\ handle = "closed" => late
    /\ closedTwice => late

(* The line is read option by option: what of it is still to come. *)
ToCome ==
    LET named == opts \cup (Options(line) \cap Work)
    IN  /\ line \in Seq(Argument)
        /\ \/ pc = "start" /\ line = <<>>
           \/ \E k \in 1..Len(line) : ~line[k].ok
           \/ named \cap {"v", "i"} # {} /\ command \notin {"lib", "comp"}
           \/ asked.valid
        /\ asked.work = named
        /\ asked.dbname = IF "f" \in Options(line) THEN "file" ELSE dbname

Settled == asked.valid /\ opts = asked.work /\ dbname = asked.dbname

LineInv ==
    /\ pc \in {"start", "options"} => ToCome
    /\ pc \in Work => Settled
    /\ handle # "null" \/ own > 1 => Settled

-----------------------------------------------------------------------------
(* What a step that only moves main on leaves alone. *)
LEMMA OptionsTail ==
    ASSUME NEW args \in Seq(Argument), args # <<>>
    PROVE  /\ Tail(args) \in Seq(Argument)
           /\ Options(args) = {Head(args).opt} \cup Options(Tail(args))
           /\ (\E k \in 1..Len(args) : ~args[k].ok) =>
                 ~Head(args).ok \/ \E k \in 1..Len(Tail(args)) : ~Tail(args)[k].ok
<1>1. /\ Tail(args) \in Seq(Argument) /\ Len(Tail(args)) = Len(args) - 1
      /\ Len(args) \in Nat /\ Len(args) > 0
      /\ \A k \in 1..Len(args) - 1 : Tail(args)[k] = args[k + 1]
      /\ Head(args) = args[1]
  OBVIOUS
<1>2. \A k \in 1..Len(args) : k = 1 \/ (k - 1 \in 1..Len(args) - 1 /\ args[k] = Tail(args)[k - 1])
  BY <1>1
<1>3. Options(args) \subseteq {Head(args).opt} \cup Options(Tail(args))
  BY <1>1, <1>2 DEF Options
<1>4. {Head(args).opt} \cup Options(Tail(args)) \subseteq Options(args)
  <2>1. \A k \in 1..Len(args) - 1 : k + 1 \in 1..Len(args)
    BY <1>1
  <2>2. 1 \in 1..Len(args)
    BY <1>1
  <2> QED
    BY <1>1, <2>1, <2>2 DEF Options
<1> QED
  BY <1>1, <1>2, <1>3, <1>4

LEMMA MainInit == Init => MainInv /\ LineInv
<1> SUFFICES ASSUME Init PROVE MainInv /\ LineInv
  OBVIOUS
<1> USE ChericatAssumption
<1>1. PICK l \in Lines : line = l.args /\ command = l.command /\ asked = Asked(l)
  BY DEF Init
<1>2. MainInv
  BY <1>1 DEF Init, TableReadInit, MainInv, Work
<1>3. ToCome
  <2>1. line \in Seq(Argument) /\ opts = {} /\ dbname = ":memory:" /\ pc = "start"
    BY <1>1 DEF Init
  <2>2. asked.work = Options(line) \cap Work
    BY <1>1 DEF Asked
  <2>3. asked.dbname = IF "f" \in Options(line) THEN "file" ELSE ":memory:"
    BY <1>1 DEF Asked
  <2>4. asked.valid = Valid(l)
    BY <1>1 DEF Asked
  <2>5. \/ line = <<>>
        \/ \E k \in 1..Len(line) : ~line[k].ok
        \/ Options(line) \cap {"v", "i"} # {} /\ command \notin {"lib", "comp"}
        \/ asked.valid
    <3>1. Len(line) > 0 \/ line = <<>>
      BY <2>1
    <3> QED
      BY <1>1, <2>4, <3>1 DEF Valid
  <2> QED
    BY <2>1, <2>2, <2>3, <2>5 DEF ToCome, Work
<1> QED
  BY <1>2, <1>3 DEF LineInv, Init, Work

-----------------------------------------------------------------------------
(* The options are read: nothing is open yet. *)
LEMMA MainParse ==
    MainInv /\ LineInv /\ ParseOption => MainInv' /\ LineInv'
<1> SUFFICES ASSUME MainInv, LineInv, ParseOption PROVE MainInv' /\ LineInv'
  OBVIOUS
<1> DEFINE arg == Head(line)
<1>1. /\ pc = "options" /\ line # <<>> /\ line' = Tail(line)
      /\ UNCHANGED <<command, handle, own, signals, asked, closedTwice, late, rpc, shared>>
  BY DEF ParseOption, tableVars, readVars
<1>2. line \in Seq(Argument) /\ ToCome /\ handle = "null" /\ own = 1
  BY <1>1 DEF MainInv, LineInv, ToCome
<1>3. /\ Tail(line) \in Seq(Argument)
      /\ Options(line) = {arg.opt} \cup Options(Tail(line))
      /\ (\E k \in 1..Len(line) : ~line[k].ok) =>
            ~arg.ok \/ \E k \in 1..Len(Tail(line)) : ~Tail(line)[k].ok
  BY <1>1, <1>2, OptionsTail
<1>4. CASE ~arg.ok
  <2>1. pc' = "ended" /\ UNCHANGED <<opts, dbname>>
    BY <1>4 DEF ParseOption
  <2> QED
    BY <1>1, <1>2, <2>1 DEF MainInv, LineInv, Work
<1>5. CASE arg.ok
  <2>1. /\ opts' = opts \cup ({arg.opt} \cap Work) /\ pc' = pc
        /\ dbname' = IF arg.opt = "f" THEN "file" ELSE dbname
    BY <1>5 DEF ParseOption
  <2>2. MainInv'
    BY <1>1, <2>1 DEF MainInv, Work
  <2>3. opts' \cup (Options(line') \cap Work) = opts \cup (Options(line) \cap Work)
    BY <1>1, <1>3, <2>1
  <2>4. asked'.dbname = IF "f" \in Options(line') THEN "file" ELSE dbname'
    BY <1>1, <1>2, <1>3, <2>1 DEF ToCome
  <2>5. \/ \E k \in 1..Len(line') : ~line'[k].ok
        \/ (opts' \cup (Options(line') \cap Work)) \cap {"v", "i"} # {}
              /\ command' \notin {"lib", "comp"}
        \/ asked'.valid
    BY <1>1, <1>2, <1>3, <1>5, <2>3 DEF ToCome
  <2>6. ToCome'
    BY <1>1, <1>2, <1>3, <2>3, <2>4, <2>5 DEF ToCome
  <2> QED
    BY <1>1, <1>2, <2>1, <2>2, <2>6 DEF LineInv, Work
<1> QED
  BY <1>4, <1>5

LEMMA MainCheck ==
    MainInv /\ LineInv /\ CheckCommand => MainInv' /\ LineInv'
<1> SUFFICES ASSUME MainInv, LineInv, CheckCommand PROVE MainInv' /\ LineInv'
  OBVIOUS
<1>1. /\ pc = "options" /\ line = <<>>
      /\ pc' = IF opts \cap {"v", "i"} # {} /\ command = "other" THEN "ended" ELSE "p"
      /\ UNCHANGED <<line, command, opts, dbname, handle, own, signals, asked,
                     closedTwice, late, rpc, shared>>
  BY DEF CheckCommand, lineVars, tableVars, readVars
<1>2. ToCome /\ handle = "null" /\ own = 1
  BY <1>1 DEF MainInv, LineInv
<1>3. MainInv'
  BY <1>1 DEF MainInv, Work
<1>4. pc' = "p" => Settled
  <2>1. Options(line) = {} /\ ~\E k \in 1..Len(line) : ~line[k].ok
    BY <1>1 DEF Options
  <2>2. pc' = "p" => ~(opts \cap {"v", "i"} # {} /\ command \notin {"lib", "comp"})
    BY <1>1 DEF MainInv, Command
  <2> QED
    BY <1>1, <1>2, <2>1, <2>2 DEF ToCome, Settled
<1>5. Settled' = Settled
  BY <1>1 DEF Settled
<1> QED
  BY <1>1, <1>2, <1>3, <1>4, <1>5 DEF LineInv, Work

(* The other steps leave the line, and what it asks for, alone. *)
LEMMA SettledKept ==
    UNCHANGED <<opts, dbname, asked>> => Settled' = Settled
BY DEF Settled

LEMMA ReaderReads ==
    Reader => /\ rpc \in {"exists", "count", "select", "rows"}
              /\ rpc' \in {"exists", "count", "select", "rows", "shown", "aborted"}
              /\ UNCHANGED <<writeVars, fileVars, view>>
BY DEF Reader, TableExists, CountRows, SelectRows, RowCallback, RowsEnd, NextTable

LEMMA WriterKeeps ==
    Writer => UNCHANGED <<readVars, undefd, overrun>>
BY DEF Writer, WriteStatement, WriteCommit, WriteEnd, WriteNothing, readGhosts

LEMMA MainSteps ==
    MainInv /\ LineInv /\ [Next]_vars => MainInv' /\ LineInv'
<1> SUFFICES ASSUME MainInv, LineInv, [Next]_vars PROVE MainInv' /\ LineInv'
  OBVIOUS
<1> USE ChericatAssumption
<1>1. CASE Start
  <2>1. /\ pc = "start" /\ pc' = IF line = <<>> THEN "ended" ELSE "options"
        /\ UNCHANGED <<line, command, opts, dbname, handle, own, signals, asked,
                       closedTwice, late, rpc, shared>>
    BY <1>1 DEF Start, lineVars, tableVars, readVars
  <2>2. ToCome /\ handle = "null" /\ own = 1
    BY <2>1 DEF MainInv, LineInv
  <2>3. line # <<>> => ToCome'
    BY <2>1, <2>2 DEF ToCome
  <2> QED
    BY <2>1, <2>2, <2>3 DEF MainInv, LineInv, Work
<1>2. CASE ParseOption
  BY <1>2, MainParse
<1>3. CASE CheckCommand
  BY <1>3, MainCheck
<1>4. ASSUME /\ pc \in Work
             /\ UNCHANGED <<lineVars, asked>>
             /\ MainInv'
             /\ pc' \notin {"start", "options"}
      PROVE  MainInv' /\ LineInv'
  BY <1>4, SettledKept DEF LineInv, lineVars, Work
<1>5. CASE NotSelected
  <2>1. /\ pc \in Work \ opts /\ pc' = After(pc)
        /\ UNCHANGED <<lineVars, opts, command, dbname, handle, own, signals, asked,
                       closedTwice, late, rpc>>
    BY <1>5 DEF NotSelected, lineVars, tableVars, readVars
  <2>2. MainInv'
    BY <2>1 DEF MainInv, Work, After
  <2> QED
    BY <1>4, <2>1, <2>2 DEF Work, After
<1>6. CASE OpenDb
  <2>1. /\ pc \in opts /\ handle = "null"
        /\ \/ handle' = "open" /\ pc' = pc
           \/ handle' = "closed" /\ pc' = "exit"
        /\ UNCHANGED <<lineVars, opts, command, dbname, own, signals, asked,
                       closedTwice, late, rpc, shared>>
    BY <1>6 DEF OpenDb, lineVars, readVars
  <2>2. MainInv' /\ pc \in Work
    BY <2>1 DEF MainInv, Work
  <2> QED
    BY <1>4, <2>1, <2>2 DEF Work
<1>7. CASE ScanStatement
  <2>1. /\ pc = "p" /\ pc' = pc /\ own' = own + 1 /\ own <= Len(OwnScan) /\ handle # "null"
        /\ UNCHANGED <<lineVars, opts, command, dbname, handle, signals, asked,
                       closedTwice, late, rpc, shared>>
    BY <1>7 DEF ScanStatement, lineVars, readVars
  <2>2. MainInv'
    BY <2>1 DEF MainInv, Work
  <2> QED
    BY <1>4, <2>1, <2>2 DEF Work
<1>8. CASE ScanReturns
  <2>1. /\ pc = "p" /\ pc' = "v" /\ own > Len(OwnScan)
        /\ UNCHANGED <<lineVars, opts, command, dbname, handle, own, signals, asked,
                       closedTwice, late, rpc, shared>>
    BY <1>8 DEF ScanReturns, lineVars, tableVars, readVars
  <2>2. MainInv'
    BY <2>1 DEF MainInv, Work
  <2> QED
    BY <1>4, <2>1, <2>2 DEF Work
<1>9. CASE ScanExits \/ ViewExits \/ Exit
  <2>1. /\ pc \in Work \cup {"exit"} /\ pc' = "ended" /\ rpc' = "idle"
        /\ UNCHANGED <<lineVars, opts, command, dbname, handle, own, signals, asked,
                       closedTwice, late>>
    BY <1>9 DEF ScanExits, ViewExits, Exit, Ends, NoView, lineVars, Work
  <2>2. MainInv'
    BY <2>1 DEF MainInv, Work
  <2> QED
    BY <2>1, <2>2, SettledKept DEF LineInv, lineVars, Work
<1>10. CASE StartView
  <2>1. /\ pc \in opts \cap {"v", "i"} /\ handle # "null" /\ UNCHANGED mainVars
        /\ ~(pc = "i" /\ command = "comp") /\ UNCHANGED shared
    BY <1>10 DEF StartView, BeginView
  <2>2. MainInv'
    BY <2>1 DEF MainInv, mainVars, lineVars, Work
  <2> QED
    BY <1>4, <2>1, <2>2 DEF mainVars, Work
<1>11. CASE NothingToShow
  <2>1. /\ pc = "i" /\ command = "comp" /\ pc' = "terminate"
        /\ UNCHANGED <<lineVars, opts, command, dbname, handle, own, signals, asked,
                       closedTwice, late, rpc, shared>>
    BY <1>11 DEF NothingToShow, lineVars, tableVars, readVars
  <2>2. MainInv'
    BY <2>1 DEF MainInv, Work
  <2> QED
    BY <1>4, <2>1, <2>2 DEF Work
<1>12. CASE ViewStep
  <2>1. pc \in {"v", "i"} /\ rpc # "idle" /\ UNCHANGED mainVars
    BY <1>12, ReaderReads DEF ViewStep
  <2>2. MainInv'
    BY <2>1 DEF MainInv, mainVars, lineVars, Work
  <2> QED
    BY <1>4, <2>1, <2>2 DEF mainVars, Work
<1>13. CASE ViewReturns
  <2>1. /\ pc \in {"v", "i"} /\ pc' = After(pc) /\ rpc = "shown" /\ rpc' = "idle"
        /\ UNCHANGED <<lineVars, opts, command, dbname, handle, own, signals, asked,
                       closedTwice, late>>
    BY <1>13 DEF ViewReturns, NoView, lineVars
  <2>2. MainInv'
    BY <2>1 DEF MainInv, Work, After
  <2> QED
    BY <1>4, <2>1, <2>2 DEF Work, After
<1>14. CASE Terminate
  <2>1. /\ pc = "terminate" /\ pc' \in {"exit", "hung"}
        /\ handle' \in {"null", "open", "closed"} /\ (handle' # "null" => handle # "null")
        /\ closedTwice' = closedTwice \/ handle = "closed"
        /\ UNCHANGED <<lineVars, opts, command, dbname, own, signals, asked, late, rpc>>
    BY <1>14 DEF Terminate, lineVars, tableVars, readVars, MainInv
  <2>2. MainInv'
    BY <2>1 DEF MainInv, Work
  <2> QED
    BY <2>1, <2>2, SettledKept DEF LineInv, lineVars, Work
<1>15. CASE Signal
  <2>1. /\ pc \notin {"start", "ended", "hung"} /\ pc' \in {"terminate", "hung"}
        /\ late' = (late \/ pc \in {"terminate", "exit"})
        /\ signals' \in 0..MaxSignals /\ rpc' = "idle"
        /\ UNCHANGED <<lineVars, opts, command, dbname, handle, own, asked, closedTwice>>
    BY <1>15 DEF Signal, NoView, lineVars, MainInv
  <2>2. MainInv'
    BY <2>1 DEF MainInv, Work
  <2> QED
    BY <2>1, <2>2, SettledKept DEF LineInv, lineVars, Work
<1>16. CASE OtherScan \/ UNCHANGED vars
  <2>1. UNCHANGED <<mainVars, rpc, shared>>
    BY <1>16, WriterKeeps DEF OtherScan, vars, tableVars, readVars
  <2>2. MainInv'
    BY <2>1 DEF MainInv, mainVars, lineVars, Work
  <2>3. ToCome' = ToCome
    BY <2>1 DEF ToCome, mainVars, lineVars, Options
  <2> QED
    BY <2>1, <2>2, <2>3, SettledKept DEF LineInv, mainVars, lineVars, Work
<1> QED
  BY <1>1, <1>2, <1>3, <1>5, <1>6, <1>7, <1>8, <1>9, <1>10, <1>11, <1>12, <1>13,
     <1>14, <1>15, <1>16 DEF Next, Main

LEMMA MainHolds == Spec => [](MainInv /\ LineInv)
BY MainInit, MainSteps, PTL DEF Spec

(* Nothing is opened, scanned or shown before the whole command line has   *)
(* been found valid, and then it is what the line asks for, in whatever    *)
(* order its options stand: for every set of command lines.                *)
THEOREM LineDecides == Spec => []WholeLineDecides
<1>1. MainInv /\ LineInv => WholeLineDecides
  BY DEF MainInv, LineInv, WholeLineDecides, Settled
<1> QED
  BY <1>1, MainHolds, PTL

(* SQLite is given the handle only while it is open; the handle is closed  *)
(* twice only when a signal meets a process that is terminating: for any   *)
(* number of signals.                                                      *)
THEOREM HandleClosedOnce == Spec => []ClosedOnce
<1>1. MainInv => ClosedOnce
  BY ChericatAssumption DEF MainInv, ClosedOnce
<1> QED
  BY <1>1, MainHolds, PTL

-----------------------------------------------------------------------------
(* The tables and the reader of them. *)
IsView(v) ==
    /\ v.tables \in Seq(Table)
    /\ \A m, n \in 1..Len(v.tables) : v.tables[m] = v.tables[n] => m = n

TableInv ==
    /\ rpc \in {"idle", "exists", "count", "select", "rows", "shown", "aborted"}
    /\ rpc # "idle" => IsView(view) /\ rt \in 1..Len(view.tables)
    /\ count \in Nat
    /\ shared => rpc = "rows" \/ (signals > 0 /\ pc # "ended")
    /\ wpos \in 1..Len(Statements) + 1
    /\ wlock \in {"none", "reserved", "exclusive"}
    /\ wlock # "none" => wpos <= Len(Statements)
    /\ tables \subseteq Table
    /\ db = [t \in Table |-> db[t]] /\ \A t \in Table : IsFiniteSet(db[t])
    /\ got = [t \in Table |-> got[t]]

LEMMA TableInit == Init => TableInv
<1> SUFFICES ASSUME Init PROVE TableInv
  OBVIOUS
<1>1. db = [t \in Table |-> db[t]] /\ \A t \in Table : IsFiniteSet(db[t])
  BY TableReadAssumption DEF Init, TableReadInit
<1>2. got = [t \in Table |-> got[t]]
  BY DEF Init, TableReadInit
<1>3. wpos \in 1..Len(Statements) + 1
  BY TableReadAssumption DEF Init, TableReadInit
<1> QED
  BY <1>1, <1>2, <1>3 DEF Init, TableReadInit, TableInv

LEMMA TwoTables ==
    ASSUME NEW a \in Table, NEW b \in Table, a # b
    PROVE  /\ <<a, b>> \in Seq(Table) /\ Len(<<a, b>>) = 2
           /\ <<a, b>>[1] # <<a, b>>[2]
OBVIOUS

LEMMA ViewsAreViews ==
    ASSUME NEW option, NEW cmd
    PROVE  IsView(ViewOf(option, cmd)) /\ 1 \in 1..Len(ViewOf(option, cmd).tables)
<1> DEFINE v == ViewOf(option, cmd)
<1>1. v.tables \in {<<"cap_info", "elf_sym">>, <<"vm", "cap_info">>, <<"comparts", "cap_info">>}
  BY DEF ViewOf
<1>2. \E a, b \in Table : a # b /\ v.tables = <<a, b>>
  BY <1>1 DEF Table
<1>3. /\ v.tables \in Seq(Table) /\ Len(v.tables) = 2
      /\ v.tables[1] # v.tables[2]
  BY <1>2, TwoTables
<1> QED
  BY <1>3 DEF IsView

LEMMA SelectedFinite ==
    ASSUME TableInv, rpc # "idle"
    PROVE  /\ Reading \in Table /\ IsFiniteSet(Selected) /\ RowCount \in Nat
<1>1. Reading \in Table
  BY DEF TableInv, IsView, Reading
<1>2. IsFiniteSet(db[Reading])
  BY <1>1 DEF TableInv
<1>3. Selected \subseteq db[Reading]
  BY DEF Selected
<1> QED
  BY <1>1, <1>2, <1>3, FS_Subset, FS_CardinalityType DEF RowCount

(* The array of the table that is read has what the SELECT has delivered,  *)
(* those of the later tables are empty; the rows that are still to come    *)
(* and those in the array are as many as the array has elements.           *)
CountInv ==
    /\ rpc # "idle" => \A k \in 1..Len(view.tables) :
          k > rt \/ (k = rt /\ rpc \in {"exists", "count", "select"}) => got[view.tables[k]] = {}
    /\ rpc = "idle" => /\ rt = 1 /\ \A t \in Table : got[t] = {}
                       /\ ~raced /\ ~undefd /\ ~overrun
    /\ rpc = "select" => raced \/ undefd \/ count = RowCount
    /\ rpc = "rows" =>
          /\ rows \cap got[Reading] = {} /\ IsFiniteSet(rows \cup got[Reading])
          /\ raced \/ undefd \/ Cardinality(rows \cup got[Reading]) = count

LEMMA CountInit == Init => CountInv
BY DEF Init, TableReadInit, CountInv

(* The next table is another one, whose array is empty. *)
LEMMA NextTableKeeps ==
    ASSUME TableInv, CountInv, rpc # "idle", NextTable,
           UNCHANGED <<view, count, got, writeVars, fileVars, readGhosts>>,
           shared' => signals > 0 /\ pc # "ended", UNCHANGED <<pc, signals>>
    PROVE  TableInv' /\ CountInv'
<1>1. /\ IsView(view) /\ rt \in 1..Len(view.tables) /\ Len(view.tables) \in Nat
  BY DEF TableInv, IsView
<1>2. \/ rpc' = "exists" /\ rt' = rt + 1 /\ rt < Len(view.tables)
      \/ rpc' = "shown" /\ rt' = rt
  BY DEF NextTable
<1>3. TableInv'
  BY <1>1, <1>2 DEF TableInv, IsView, writeVars, fileVars
<1>4. CountInv'
  <2>1. \A k \in 1..Len(view.tables) : k > rt => got[view.tables[k]] = {}
    BY DEF CountInv
  <2>2. CASE rpc' = "exists"
    BY <1>1, <1>2, <2>1, <2>2 DEF CountInv
  <2>3. CASE rpc' = "shown"
    BY <1>1, <1>2, <2>1, <2>3 DEF CountInv
  <2> QED
    BY <1>2, <2>2, <2>3
<1> QED
  BY <1>3, <1>4

LEMMA ReaderSteps ==
    ASSUME TableInv, CountInv, Reader, UNCHANGED <<pc, signals>>
    PROVE  /\ TableInv' /\ CountInv'
           /\ ~overrun /\ overrun' => raced \/ undefd
<1> USE TableReadAssumption
<1>0. /\ IsView(view) /\ rt \in 1..Len(view.tables) /\ rpc # "idle"
      /\ Len(view.tables) \in Nat
  BY ReaderReads DEF TableInv, IsView
<1>1. CASE TableExists
  <2>1. /\ rpc = "exists" /\ rpc' \in {"count", "aborted"}
        /\ UNCHANGED <<view, rt, count, rows, got, shared, writeVars, fileVars, readGhosts>>
    BY <1>1 DEF TableExists
  <2> QED
    BY <1>0, <2>1 DEF TableInv, CountInv, writeVars, fileVars, readGhosts
<1>2. CASE CountRows
  <2>1. /\ rpc = "count" /\ rpc' \in {"select", "aborted"}
        /\ count' \in Nat /\ (count' = RowCount \/ undefd')
        /\ UNCHANGED <<view, rt, rows, got, shared, writeVars, fileVars, overrun>>
    BY <1>2, <1>0, SelectedFinite DEF CountRows
  <2>2. RowCount' = RowCount
    BY <2>1 DEF RowCount, Selected, Reading, fileVars
  <2> QED
    BY <1>0, <2>1, <2>2 DEF TableInv, CountInv, writeVars, fileVars
<1>3. CASE SelectRows
  <2>1. CASE shared' = TRUE /\ rows' = Selected /\ rpc' = "rows" /\ UNCHANGED rt
    <3>1. /\ rpc = "select"
          /\ UNCHANGED <<view, count, got, writeVars, fileVars, readGhosts>>
      BY <1>3 DEF SelectRows
    <3>2. got[Reading] = {} /\ Reading' = Reading
      BY <1>0, <2>1, <3>1 DEF CountInv, Reading
    <3>3. IsFiniteSet(Selected) /\ (raced \/ undefd \/ Cardinality(Selected) = count)
      BY <1>0, <3>1, SelectedFinite DEF CountInv, RowCount
    <3>4. rows' \cup got'[Reading'] = Selected /\ rows' \cap got'[Reading'] = {}
      BY <2>1, <3>1, <3>2
    <3>5. CountInv'
      BY <1>0, <2>1, <3>1, <3>3, <3>4 DEF CountInv, readGhosts
    <3> QED
      BY <1>0, <2>1, <3>1, <3>5 DEF TableInv, writeVars, fileVars, readGhosts
  <2>2. CASE rpc' = "aborted" /\ UNCHANGED <<rt, rows, shared>>
    <3>1. /\ rpc = "select"
          /\ UNCHANGED <<view, count, got, writeVars, fileVars, readGhosts>>
      BY <1>3 DEF SelectRows
    <3> QED
      BY <1>0, <2>2, <3>1 DEF TableInv, CountInv, writeVars, fileVars, readGhosts
  <2>3. CASE NextTable /\ UNCHANGED <<rows, shared>>
    <3>1. /\ rpc = "select"
          /\ UNCHANGED <<view, count, got, writeVars, fileVars, readGhosts>>
      BY <1>3 DEF SelectRows
    <3>2. shared' => signals > 0 /\ pc # "ended"
      BY <2>3, <3>1 DEF TableInv
    <3> QED
      BY <1>0, <2>3, <3>1, <3>2, NextTableKeeps DEF readGhosts
  <2> QED
    BY <1>3, <2>1, <2>2, <2>3 DEF SelectRows
<1>4. CASE RowCallback
  <2>1. PICK row \in rows : rows' = rows \ {row} /\ got' = StoreRow(row)
    BY <1>4 DEF RowCallback
  <2>2. /\ rpc = "rows" /\ rpc' \in {"rows", "aborted"}
        /\ rpc' = "aborted" => shared' = FALSE
        /\ rpc' = "rows" => shared' = shared
        /\ UNCHANGED <<view, rt, count, writeVars, fileVars, undefd, raced>>
    BY <1>4 DEF RowCallback
  <2>3. /\ Reading \in Table /\ Reading' = Reading
        /\ got' = [got EXCEPT ![Reading] = @ \cup {row}]
    BY <1>0, <2>1, <2>2, SelectedFinite DEF StoreRow, Reading
  <2>4. got'[Reading] = got[Reading] \cup {row} /\ got' = [t \in Table |-> got'[t]]
    BY <2>3 DEF TableInv
  <2>5. /\ rows' \cup got'[Reading'] = rows \cup got[Reading]
        /\ rows' \cap got'[Reading'] = {}
    BY <2>1, <2>2, <2>3, <2>4 DEF CountInv
  <2>6. \A k \in 1..Len(view.tables) : k > rt => got'[view.tables[k]] = got[view.tables[k]]
    BY <1>0, <2>3 DEF IsView, Reading, TableInv
  <2>7. TableInv'
    BY <1>0, <2>2, <2>4 DEF TableInv, writeVars, fileVars
  <2>8. CountInv'
    BY <1>0, <2>2, <2>5, <2>6 DEF CountInv
  <2>9. Cardinality(got[Reading]) < count \/ raced \/ undefd
    <3>1. IsFiniteSet(rows \cup got[Reading]) /\ row \notin got[Reading]
      BY <2>1, <2>2 DEF CountInv
    <3>2. got[Reading] \subseteq rows \cup got[Reading] /\ got[Reading] # rows \cup got[Reading]
      BY <2>1, <3>1
    <3>3. Cardinality(got[Reading]) < Cardinality(rows \cup got[Reading])
      BY <3>1, <3>2, FS_Subset, FS_CardinalityType
    <3> QED
      BY <2>2, <3>3 DEF CountInv
  <2> QED
    BY <1>4, <2>7, <2>8, <2>9 DEF RowCallback
<1>5. CASE RowsEnd
  <2>1. /\ rpc = "rows" /\ shared' = FALSE /\ NextTable
        /\ UNCHANGED <<view, count, rows, got, writeVars, fileVars, readGhosts>>
    BY <1>5 DEF RowsEnd
  <2> QED
    BY <1>0, <2>1, NextTableKeeps DEF readGhosts
<1> QED
  BY <1>1, <1>2, <1>3, <1>4, <1>5 DEF Reader

LEMMA WriterSteps ==
    ASSUME TableInv, CountInv, Writer, UNCHANGED <<pc, signals>>
    PROVE  TableInv' /\ CountInv'
<1> USE TableReadAssumption
<1>1. UNCHANGED <<view, rpc, rt, count, rows, got, shared, undefd, overrun>>
  BY WriterKeeps DEF readVars
<1>2. CASE WriteEnd
  <2>1. /\ wlock = "exclusive" /\ wlock' = "none" /\ wpos' = wpos + 1
        /\ tables' = tables \cup {Statement.table}
        /\ db' = [db EXCEPT ![Statement.table] = @ \cup Statement.rows]
        /\ raced' = (raced \/ (rpc = "select" /\ db'[Reading] # db[Reading]))
    BY <1>2 DEF WriteEnd
  <2>2. wpos \in 1..Len(Statements)
    BY <2>1 DEF TableInv
  <2>3. Statement.table \in Table /\ IsFiniteSet(Statement.rows)
    BY <2>2 DEF Statement, IsStatement
  <2>4. IsFiniteSet(db[Statement.table] \cup Statement.rows)
    BY <2>3, FS_Union DEF TableInv
  <2>5. db' = [t \in Table |-> db'[t]] /\ \A t \in Table : IsFiniteSet(db'[t])
    BY <2>1, <2>3, <2>4 DEF TableInv
  <2>6. TableInv'
    <3>1. wpos' \in 1..Len(Statements) + 1 /\ tables' \subseteq Table
      BY <2>1, <2>2, <2>3 DEF TableInv
    <3> QED
      BY <1>1, <2>1, <2>5, <3>1 DEF TableInv
  <2>7. rpc = "select" => raced' \/ RowCount' = RowCount
    <3>1. SUFFICES ASSUME rpc = "select", ~raced' PROVE RowCount' = RowCount
      OBVIOUS
    <3>2. Reading' = Reading
      BY <1>1 DEF Reading
    <3>3. db'[Reading'] = db[Reading]
      BY <2>1, <3>1, <3>2
    <3> QED
      BY <1>1, <3>2, <3>3 DEF RowCount, Selected
  <2>8. CountInv'
    BY <1>1, <2>1, <2>7 DEF CountInv, Reading
  <2> QED
    BY <2>6, <2>8
<1>3. CASE WriteStatement \/ WriteCommit \/ WriteNothing
  <2>1. /\ wpos' \in 1..Len(Statements) + 1
        /\ wlock' \in {"none", "reserved", "exclusive"}
        /\ wlock' # "none" => wpos' <= Len(Statements)
        /\ UNCHANGED <<tables, db, raced>>
    BY <1>3 DEF WriteStatement, WriteCommit, WriteNothing, TableInv, fileVars, readGhosts
  <2>2. RowCount' = RowCount
    BY <1>1, <2>1 DEF RowCount, Selected, Reading
  <2>3. TableInv'
    BY <1>1, <2>1 DEF TableInv
  <2>4. CountInv'
    BY <1>1, <2>1, <2>2 DEF CountInv, Reading
  <2> QED
    BY <2>3, <2>4
<1> QED
  BY <1>2, <1>3 DEF Writer

(* Without a view under way: the file may change, the arrays are empty. *)
LEMMA NoViewSteps ==
    ASSUME NoView, TableInv, shared' => signals' > 0 /\ pc' # "ended"
    PROVE  TableInv' /\ CountInv'
BY DEF NoView, TableInv, CountInv, writeVars, fileVars

LEMMA IdleSteps ==
    ASSUME TableInv, CountInv, rpc = "idle",
           UNCHANGED <<view, rpc, rt, count, rows, got, shared, undefd, overrun, raced>>,
           shared => signals' > 0 /\ pc' # "ended",
           wpos' \in 1..Len(Statements) + 1, wlock' \in {"none", wlock},
           wlock' # "none" => wpos' = wpos,
           tables' \subseteq Table,
           db' = [t \in Table |-> db'[t]], \A t \in Table : IsFiniteSet(db'[t])
    PROVE  TableInv' /\ CountInv'
<1>1. TableInv'
  BY TableReadAssumption DEF TableInv
<1>2. CountInv'
  BY DEF CountInv
<1> QED
  BY <1>1, <1>2

LEMMA TableSteps ==
    ASSUME MainInv, TableInv, CountInv, [Next]_vars
    PROVE  /\ TableInv' /\ CountInv'
           /\ ~overrun /\ overrun' => raced \/ undefd
<1> USE TableReadAssumption, ChericatAssumption
<1>1. CASE Start \/ ParseOption \/ CheckCommand \/ NotSelected \/ ScanReturns
           \/ NothingToShow \/ Terminate
  <2>1. /\ UNCHANGED <<signals, tableVars>>
        /\ pc' # "ended" \/ ~shared
        /\ pc # "ended"
    BY <1>1 DEF Start, ParseOption, CheckCommand, NotSelected, ScanReturns,
       NothingToShow, Terminate, MainInv, After, Work
  <2> QED
    BY <2>1 DEF TableInv, CountInv, RowCount, Selected, Reading, tableVars, readVars,
       writeVars, fileVars, readGhosts
<1>2. CASE OpenDb
  <2>1. /\ handle = "null" /\ pc \in opts /\ pc' # "ended"
        /\ UNCHANGED <<signals, readVars, readGhosts>>
        /\ OpenedDb \/ UNCHANGED <<writeVars, fileVars>>
    BY <1>2 DEF OpenDb, MainInv, Work
  <2>2. rpc = "idle" /\ (shared => signals > 0)
    BY <2>1 DEF MainInv, TableInv
  <2>3. /\ tables' \subseteq Table
        /\ wpos' \in 1..Len(Statements) + 1 /\ wlock' \in {"none", wlock}
        /\ wlock' # "none" => wpos' = wpos
    BY <2>1 DEF OpenedDb, TableInv, writeVars, fileVars
  <2>4. db' = [t \in Table |-> db'[t]] /\ \A t \in Table : IsFiniteSet(db'[t])
    BY <2>1, FS_EmptySet DEF OpenedDb, TableInv, fileVars
  <2> QED
    BY <2>1, <2>2, <2>3, <2>4, IdleSteps DEF readVars, readGhosts
<1>3. CASE ScanStatement
  <2> DEFINE s == OwnScan[own]
  <2>1. /\ pc = "p" /\ own \in 1..Len(OwnScan) /\ pc' = pc
        /\ UNCHANGED <<signals, readVars, writeVars, readGhosts>>
        /\ \/ /\ tables' = tables \cup {s.table}
              /\ db' = [db EXCEPT ![s.table] = @ \cup s.rows]
           \/ UNCHANGED fileVars
    BY <1>3 DEF ScanStatement, MainInv
  <2>2. rpc = "idle" /\ (shared => signals > 0)
    BY <2>1 DEF MainInv, TableInv
  <2>3. s.table \in Table /\ IsFiniteSet(s.rows)
    BY <2>1 DEF IsStatement
  <2>4. IsFiniteSet(db[s.table] \cup s.rows)
    BY <2>3, FS_Union DEF TableInv
  <2>5. db' = [t \in Table |-> db'[t]] /\ \A t \in Table : IsFiniteSet(db'[t])
    BY <2>1, <2>3, <2>4 DEF TableInv, fileVars
  <2>6. tables' \subseteq Table
    BY <2>1, <2>3 DEF TableInv, fileVars
  <2> QED
    BY <2>1, <2>2, <2>5, <2>6, IdleSteps DEF readVars, writeVars, readGhosts, TableInv
<1>4. CASE ScanExits \/ ViewExits \/ Exit \/ ViewReturns \/ Signal
  <2>1. NoView
    BY <1>4 DEF ScanExits, ViewExits, Exit, Ends, ViewReturns, Signal
  <2>2. shared' => signals' > 0 /\ pc' # "ended"
    <3>1. CASE ScanExits \/ ViewExits \/ Exit
      BY <3>1 DEF ScanExits, ViewExits, Exit, Ends
    <3>2. CASE ViewReturns
      BY <3>2 DEF ViewReturns, TableInv, After
    <3>3. CASE Signal
      BY <3>3 DEF Signal, MainInv
    <3> QED
      BY <1>4, <3>1, <3>2, <3>3
  <2>3. ~overrun'
    BY <2>1 DEF NoView
  <2> QED
    BY <2>1, <2>2, <2>3, NoViewSteps
<1>5. CASE StartView
  <2> DEFINE v == ViewOf(pc, command)
  <2>1. /\ rpc = "idle" /\ view' = v /\ rpc' = "exists"
        /\ UNCHANGED <<pc, signals, rt, count, rows, got, shared, wpos, wlock, tables, db,
                       undefd, overrun, raced>>
    BY <1>5 DEF StartView, BeginView, mainVars, writeVars, fileVars, readGhosts
  <2>2. IsView(v) /\ 1 \in 1..Len(v.tables) /\ rt = 1
    BY <2>1, ViewsAreViews DEF CountInv
  <2>3. \A k \in 1..Len(v.tables) : v.tables[k] \in Table /\ got[v.tables[k]] = {}
    BY <2>1, <2>2 DEF CountInv, IsView
  <2>4. TableInv'
    BY <2>1, <2>2 DEF TableInv, IsView
  <2>5. CountInv'
    BY <2>1, <2>3 DEF CountInv
  <2> QED
    BY <2>1, <2>4, <2>5
<1>6. CASE ViewStep
  BY <1>6, ReaderSteps DEF ViewStep, mainVars
<1>7. CASE OtherScan
  BY <1>7, WriterSteps, WriterKeeps DEF OtherScan, mainVars
<1>8. CASE UNCHANGED vars
  BY <1>8 DEF TableInv, CountInv, RowCount, Selected, Reading, vars, mainVars, tableVars,
     readVars, writeVars, fileVars, readGhosts
<1> QED
  BY <1>1, <1>2, <1>3, <1>4, <1>5, <1>6, <1>7, <1>8 DEF Next, Main

LEMMA TablesHold == Spec => [](MainInv /\ TableInv /\ CountInv)
<1>1. Init => MainInv /\ TableInv /\ CountInv
  BY MainInit, TableInit, CountInit
<1>2. MainInv /\ TableInv /\ CountInv /\ (MainInv /\ LineInv) /\ [Next]_vars
        => (MainInv /\ TableInv /\ CountInv)'
  BY MainSteps, TableSteps
<1> QED
  BY <1>1, <1>2, MainHolds, PTL DEF Spec

(* Main, the view and the other scan keep their types; a view holds its    *)
(* lock only while it reads rows, or because a signal cut it off.          *)
THEOREM ChericatTypes == Spec => []ChericatTypeOK
<1>1. MainInv /\ TableInv => ChericatTypeOK
  BY DEF MainInv, TableInv, IsView, ChericatTypeOK
<1> QED
  BY <1>1, TablesHold, PTL

(* A row goes behind the array only if a commit fell between the COUNT and *)
(* the SELECT, or the COUNT had failed: for all tables, rows and scans.    *)
THEOREM OverrunNeedsCommit == Spec => OverrunOnlyByCommit
<1>1. MainInv /\ TableInv /\ CountInv /\ [Next]_vars =>
        [~overrun /\ overrun' => raced \/ undefd]_tableVars
  BY TableSteps
<1> QED
  BY <1>1, TablesHold, PTL DEF Spec, OverrunOnlyByCommit

-----------------------------------------------------------------------------
(* Private memory: no other writer, and what has been read is all there is. *)
Wanted(t) == {r \in db[t] : view.lib /\ t = "cap_info" => r.file \in Library}

PrivInv ==
    /\ rpc = "shown" => rt = Len(view.tables)
    /\ dbname = ":memory:" /\ handle = "open" /\ pc \in Work =>
          /\ wlock = "none" /\ wpos = Len(Statements) + 1
          /\ "p" \notin opts => tables = {}
          /\ ~raced /\ ~undefd /\ ~overrun
          /\ rpc \notin {"idle", "exists", "aborted"} => "p" \in opts
          /\ rpc = "rows" => rows \cup got[Reading] = Wanted(Reading)
          /\ rpc # "idle" => \A k \in 1..Len(view.tables) :
                k < rt \/ (k = rt /\ rpc = "shown") =>
                    got[view.tables[k]] = Wanted(view.tables[k])

LEMMA PrivInit == Init => PrivInv
BY DEF Init, TableReadInit, PrivInv

LEMMA PrivReader ==
    ASSUME TableInv, CountInv, PrivInv, Reader, UNCHANGED mainVars
    PROVE  PrivInv'
<1>0. /\ IsView(view) /\ rt \in 1..Len(view.tables) /\ rpc # "idle"
      /\ Len(view.tables) \in Nat /\ view' = view /\ UNCHANGED <<wlock, wpos, tables, db>>
  BY ReaderReads DEF TableInv, IsView, writeVars, fileVars
<1>1. UNCHANGED <<dbname, handle, pc, opts>>
  BY DEF mainVars, lineVars
<1>2. \A t : Wanted(t)' = Wanted(t)
  BY <1>0 DEF Wanted
<1>3. rpc' = "shown" => rt' = Len(view'.tables)
  BY <1>0 DEF Reader, TableExists, CountRows, SelectRows, RowCallback, RowsEnd, NextTable
<1>4. ~overrun /\ overrun' => raced \/ undefd
  BY <1>1, ReaderSteps DEF mainVars
<1> SUFFICES ASSUME dbname = ":memory:", handle = "open", pc \in Work
             PROVE  PrivInv'
  BY <1>1, <1>3 DEF PrivInv
<1>5. /\ wlock = "none" /\ wpos = Len(Statements) + 1
      /\ "p" \notin opts => tables = {}
      /\ ~raced /\ ~undefd /\ ~overrun
      /\ rpc \notin {"idle", "exists", "aborted"} => "p" \in opts
      /\ rpc = "rows" => rows \cup got[Reading] = Wanted(Reading)
      /\ \A k \in 1..Len(view.tables) :
            k < rt \/ (k = rt /\ rpc = "shown") => got[view.tables[k]] = Wanted(view.tables[k])
  BY <1>0 DEF PrivInv
<1>6. CASE TableExists
  <2>1. /\ rpc' \in {"count", "aborted"} /\ (rpc' = "count" => tables # {})
        /\ UNCHANGED <<rt, got, undefd, overrun, raced>>
    BY <1>6 DEF TableExists, readGhosts
  <2> QED
    BY <1>0, <1>1, <1>2, <1>5, <2>1 DEF PrivInv
<1>7. CASE CountRows
  <2>1. /\ rpc = "count" /\ rpc' = "select" /\ raced' = FALSE
        /\ UNCHANGED <<rt, got, undefd, overrun>>
    BY <1>5, <1>7 DEF CountRows
  <2> QED
    BY <1>0, <1>1, <1>2, <1>5, <2>1 DEF PrivInv
<1>8. CASE SelectRows
  <2>1. /\ rpc = "select" /\ rpc' = "rows" /\ rows' = Selected
        /\ UNCHANGED <<rt, got, undefd, overrun, raced>>
    BY <1>5, <1>8 DEF SelectRows, readGhosts
  <2>2. got[Reading] = {} /\ Reading' = Reading
    BY <1>0, <2>1 DEF CountInv, Reading
  <2>3. rows' \cup got'[Reading'] = Wanted(Reading)
    BY <2>1, <2>2 DEF Selected, Wanted
  <2> QED
    BY <1>0, <1>1, <1>2, <1>5, <2>1, <2>2, <2>3 DEF PrivInv
<1>9. CASE RowCallback
  <2>1. PICK row \in rows : rows' = rows \ {row} /\ got' = StoreRow(row)
    BY <1>9 DEF RowCallback
  <2>2. /\ rpc = "rows" /\ rpc' \in {"rows", "aborted"} /\ UNCHANGED <<rt, undefd, raced>>
    BY <1>9 DEF RowCallback
  <2>3. /\ Reading \in Table /\ Reading' = Reading
        /\ got' = [got EXCEPT ![Reading] = @ \cup {row}]
    BY <1>0, <2>1, <2>2, SelectedFinite DEF StoreRow, Reading
  <2>4. got'[Reading] = got[Reading] \cup {row}
    BY <2>3 DEF TableInv
  <2>5. rows' \cup got'[Reading'] = Wanted(Reading)
    BY <1>5, <2>1, <2>2, <2>3, <2>4
  <2>6. \A k \in 1..Len(view.tables) : k < rt => got'[view.tables[k]] = got[view.tables[k]]
    BY <1>0, <2>3 DEF IsView, Reading, TableInv
  <2> QED
    BY <1>0, <1>1, <1>2, <1>4, <1>5, <2>2, <2>3, <2>5, <2>6 DEF PrivInv
<1>10. CASE RowsEnd
  <2>1. /\ rpc = "rows" /\ rows = {} /\ NextTable
        /\ UNCHANGED <<got, undefd, overrun, raced>>
    BY <1>10 DEF RowsEnd, readGhosts
  <2>2. got[view.tables[rt]] = Wanted(view.tables[rt])
    BY <1>5, <2>1 DEF Reading
  <2>3. \/ rpc' = "exists" /\ rt' = rt + 1
        \/ rpc' = "shown" /\ rt' = rt
    BY <2>1 DEF NextTable
  <2>4. \A k \in 1..Len(view.tables) : k < rt \/ k = rt =>
            got[view.tables[k]] = Wanted(view.tables[k])
    BY <1>0, <1>5, <2>2
  <2>5. (\A k \in 1..Len(view.tables) :
            k < rt \/ (k = rt /\ rpc = "shown") => got[view.tables[k]] = Wanted(view.tables[k]))'
    <3>1. \A k \in 1..Len(view.tables) : k < rt' \/ (k = rt' /\ rpc' = "shown") =>
              got[view.tables[k]] = Wanted(view.tables[k])
      BY <1>0, <2>3, <2>4
    <3> QED
      BY <1>0, <1>2, <2>1, <3>1
  <2> QED
    BY <1>0, <1>1, <1>3, <1>5, <2>1, <2>3, <2>5 DEF PrivInv
<1> QED
  BY <1>6, <1>7, <1>8, <1>9, <1>10 DEF Reader

LEMMA PrivSteps ==
    ASSUME MainInv, TableInv, CountInv, PrivInv, [Next]_vars
    PROVE  PrivInv'
<1> USE TableReadAssumption, ChericatAssumption
<1>1. ASSUME pc' \notin Work, rpc' # "shown"
      PROVE  PrivInv'
  BY <1>1 DEF PrivInv
<1>2. CASE ParseOption
  <2>1. pc \in {"start", "options"} /\ handle' = handle /\ UNCHANGED rpc
    BY <1>2 DEF ParseOption, tableVars, readVars
  <2> QED
    BY <2>1 DEF MainInv, PrivInv
<1>3. CASE ScanExits \/ ViewExits \/ Exit \/ Signal
  <2>1. pc' \in {"ended", "terminate", "hung"} /\ rpc' = "idle"
    BY <1>3 DEF ScanExits, ViewExits, Exit, Signal, Ends, NoView
  <2> QED
    BY <1>1, <2>1 DEF Work
<1>4. CASE Start \/ CheckCommand \/ NotSelected \/ ScanReturns \/ NothingToShow
           \/ Terminate
  <2>1. /\ UNCHANGED <<dbname, opts, tableVars>>
        /\ pc' \in Work => (pc \in Work /\ handle' = handle) \/ handle' = "null"
    BY <1>4 DEF Start, CheckCommand, NotSelected, ScanReturns, NothingToShow, Terminate,
       lineVars, MainInv, Work
  <2>2. UNCHANGED <<rpc, rt, rows, got, view, wlock, wpos, tables, db, raced, undefd, overrun>>
    BY <2>1 DEF tableVars, readVars, writeVars, fileVars, readGhosts
  <2>3. /\ \A t : Wanted(t)' = Wanted(t)
        /\ Reading' = Reading
    BY <2>2 DEF Wanted, Reading
  <2> QED
    BY <2>1, <2>2, <2>3 DEF PrivInv
<1>5. CASE OpenDb
  <2>1. /\ handle = "null" /\ UNCHANGED <<dbname, opts, readVars, readGhosts>>
        /\ handle' = "open" => OpenedDb
        /\ handle' = "open" \/ pc' = "exit"
    BY <1>5 DEF OpenDb, lineVars
  <2>2. rpc = "idle" /\ rpc' = rpc /\ ~raced' /\ ~undefd' /\ ~overrun'
    BY <2>1 DEF MainInv, CountInv, readVars, readGhosts
  <2>3. CASE pc' = "exit"
    BY <1>1, <2>2, <2>3 DEF Work
  <2>4. CASE handle' = "open"
    BY <2>1, <2>2, <2>4 DEF OpenedDb, PrivInv
  <2> QED
    BY <2>1, <2>3, <2>4
<1>6. CASE ScanStatement
  <2>1. /\ pc = "p" /\ "p" \in opts
        /\ UNCHANGED <<pc, dbname, opts, handle, rpc, wlock, wpos, raced, undefd, overrun>>
    BY <1>6 DEF ScanStatement, lineVars, readVars, writeVars, readGhosts
  <2>2. rpc = "idle"
    BY <2>1 DEF MainInv
  <2> QED
    BY <2>1, <2>2 DEF PrivInv
<1>7. CASE StartView
  <2>1. /\ rpc = "idle" /\ rpc' = "exists"
        /\ UNCHANGED <<mainVars, rt, wlock, wpos, tables, db, undefd, overrun, raced>>
    BY <1>7 DEF StartView, BeginView, writeVars, fileVars, readGhosts
  <2>2. rt = 1
    BY <2>1 DEF CountInv
  <2> QED
    BY <2>1, <2>2 DEF PrivInv, mainVars, lineVars
<1>8. CASE ViewStep
  BY <1>8, PrivReader DEF ViewStep
<1>9. CASE ViewReturns
  <2>1. /\ pc \in Work /\ rpc' = "idle" /\ ~raced' /\ ~undefd' /\ ~overrun'
        /\ UNCHANGED <<dbname, opts, handle, wlock, wpos, tables>>
    BY <1>9 DEF ViewReturns, NoView, lineVars, writeVars, fileVars, Work
  <2> QED
    BY <2>1 DEF PrivInv
<1>10. CASE OtherScan
  <2>1. UNCHANGED <<dbname, opts, handle, pc, rpc, rt, view>>
    BY <1>10, WriterKeeps DEF OtherScan, mainVars, lineVars, readVars
  <2>2. CASE dbname = ":memory:" /\ handle = "open" /\ pc \in Work
    <3>1. wlock = "none" /\ wpos = Len(Statements) + 1
      BY <2>2 DEF PrivInv
    <3> QED
      BY <1>10, <3>1 DEF OtherScan, Writer, WriteStatement, WriteCommit, WriteEnd, WriteNothing
  <2> QED
    BY <2>1, <2>2 DEF PrivInv
<1>11. CASE UNCHANGED vars
  <2>1. UNCHANGED <<dbname, opts, handle, pc, rpc, rt, rows, got, view, wlock, wpos,
                    tables, db, raced, undefd, overrun>>
    BY <1>11 DEF vars, mainVars, lineVars, tableVars, readVars, writeVars, fileVars, readGhosts
  <2>2. /\ \A t : Wanted(t)' = Wanted(t)
        /\ Reading' = Reading
    BY <2>1 DEF Wanted, Reading
  <2> QED
    BY <2>1, <2>2 DEF PrivInv
<1> QED
  BY <1>2, <1>3, <1>4, <1>5, <1>6, <1>7, <1>8, <1>9, <1>10, <1>11 DEF Next, Main

(* Without -f a view shows all that this very call has scanned, and its    *)
(* arrays are never too small: for all scans, tables and signals.          *)
THEOREM PrivateViewWhole == Spec => []PrivateViewIsWhole
<1>1. Init => PrivInv
  BY PrivInit
<1>2. (MainInv /\ TableInv /\ CountInv) /\ PrivInv /\ [Next]_vars => PrivInv'
  BY PrivSteps
<1>3. MainInv /\ TableInv /\ PrivInv => PrivateViewIsWhole
  <2> SUFFICES ASSUME MainInv, TableInv, PrivInv, dbname = ":memory:", rpc = "shown"
               PROVE  /\ "p" \in opts /\ own > Len(OwnScan) /\ ~overrun
                      /\ \A t \in ToSet(view.tables) : got[t] = Wanted(t)
    BY DEF PrivateViewIsWhole, Wanted
  <2>1. handle = "open" /\ pc \in {"v", "i"} /\ pc \in Work
    BY DEF MainInv, Work
  <2>2. "p" \in opts /\ own > Len(OwnScan) /\ ~overrun
    BY <2>1, ChericatAssumption DEF PrivInv, MainInv
  <2>3. rt = Len(view.tables) /\ Len(view.tables) \in Nat
    BY DEF PrivInv, TableInv, IsView
  <2>4. \A k \in 1..Len(view.tables) : got[view.tables[k]] = Wanted(view.tables[k])
    BY <2>1, <2>3 DEF PrivInv
  <2>5. \A t \in ToSet(view.tables) : \E k \in 1..Len(view.tables) : t = view.tables[k]
    <3>1. view.tables \in Seq(Table)
      BY DEF TableInv, IsView
    <3> QED
      BY <3>1 DEF ToSet
  <2> QED
    BY <2>2, <2>4, <2>5
<1> QED
  BY <1>1, <1>2, <1>3, TablesHold, PTL DEF Spec
-----------------------------------------------------------------------------
(* What is shown is shown whole.  Whole: a row of the first table of a     *)
(* view, with all that belongs to it in the second.                        *)
Wholes == {"vm", "cap_info"}
Pair(t) == <<t, PartTable(t)>>

(* What may still be stored into the table. *)
Coming(t) == RowsFrom(Statements, t, wpos) \cup RowsFrom(OwnScan, t, own)

(* Once a row is stored, or read, nothing that belongs to it is to come.   *)
ComingInv(t) ==
    /\ Apart(t, db[t], Coming(PartTable(t)))
    /\ Apart(t, got[t], Coming(PartTable(t)))
    /\ rpc = "rows" /\ Reading = t => Apart(t, rows, Coming(PartTable(t)))

(* And what belongs to it has been read, or will be by the SELECT. *)
Parts(t) == got[PartTable(t)] \cup (IF rpc = "rows" THEN rows ELSE {})
PartsInv(t) ==
    view.tables = Pair(t) /\ rt = 2 /\ rpc \in {"rows", "shown"}
      /\ (rpc = "shown" => view.must \/ got[PartTable(t)] # {}) =>
        \A row \in got[t] : \A part \in db[PartTable(t)] :
            Belongs(t, part, row) => part \in Parts(t)

(* The views there are. *)
ViewsInv ==
    rpc # "idle" =>
        \/ view.tables = Pair("vm") /\ view.must /\ ~view.lib
        \/ view.tables = Pair("cap_info") /\ ~view.must /\ view.lib
        \/ view.tables = <<"comparts", "cap_info">> /\ view.must /\ ~view.lib

(* Symbols are read by one view only, and after its capabilities. *)
SymbolsInv ==
    got["elf_sym"] # {} => view.tables = Pair("cap_info") /\ rt = 2 /\ rpc # "idle"

WholeInv ==
    /\ ViewsInv /\ SymbolsInv
    /\ \A t \in Wholes : ComingInv(t) /\ PartsInv(t)

LEMMA PrivHolds == Spec => []PrivInv
<1>1. Init => PrivInv
  BY PrivInit
<1>2. (MainInv /\ TableInv /\ CountInv) /\ PrivInv /\ [Next]_vars => PrivInv'
  BY PrivSteps
<1> QED
  BY <1>1, <1>2, TablesHold, PTL DEF Spec

(* A scan goes forward: less and less is to come of it. *)
LEMMA RowsFromShrinks ==
    ASSUME NEW scan, NEW t, Len(scan) \in Nat, NEW k \in Nat, NEW m \in Nat, k <= m
    PROVE  RowsFrom(scan, t, m) \subseteq RowsFrom(scan, t, k)
<1>1. m..Len(scan) \subseteq k..Len(scan)
  OBVIOUS
<1> QED
  BY <1>1 DEF RowsFrom

LEMMA ScansGoForward ==
    ASSUME MainInv, TableInv, [Next]_vars
    PROVE  wpos \in Nat /\ wpos' \in Nat /\ wpos <= wpos'
           /\ own \in Nat /\ own' \in Nat /\ own <= own'
<1> USE TableReadAssumption, ChericatAssumption
<1>0. wpos \in 1..Len(Statements) + 1 /\ own \in 1..Len(OwnScan) + 1
  BY DEF TableInv, MainInv
<1>1. CASE ScanStatement
  BY <1>0, <1>1 DEF ScanStatement, writeVars
<1>2. CASE OpenDb
  BY <1>0, <1>2 DEF OpenDb, OpenedDb, writeVars
<1>3. CASE ScanExits \/ ViewExits \/ Exit \/ ViewReturns \/ Signal
  BY <1>0, <1>3 DEF ScanExits, ViewExits, Exit, ViewReturns, Signal, Ends, NoView, writeVars
<1>4. CASE ViewStep
  BY <1>0, <1>4, ReaderReads DEF ViewStep, mainVars, writeVars
<1>5. CASE OtherScan
  BY <1>0, <1>5 DEF OtherScan, Writer, WriteStatement, WriteCommit, WriteEnd, WriteNothing,
     mainVars
<1>6. CASE \/ Start \/ ParseOption \/ CheckCommand \/ NotSelected \/ ScanReturns
           \/ NothingToShow \/ Terminate \/ StartView \/ UNCHANGED vars
  <2>1. own' = own /\ wpos' = wpos
    BY <1>6 DEF Start, ParseOption, CheckCommand, NotSelected, ScanReturns, NothingToShow,
       Terminate, StartView, BeginView, vars, mainVars, tableVars, writeVars
  <2> QED
    BY <1>0, <2>1
<1> QED
  BY <1>1, <1>2, <1>3, <1>4, <1>5, <1>6 DEF Next, Main

LEMMA ComingShrinks ==
    ASSUME MainInv, TableInv, [Next]_vars, NEW t
    PROVE  Coming(t)' \subseteq Coming(t)
<1>1. /\ wpos \in Nat /\ wpos' \in Nat /\ wpos <= wpos'
      /\ own \in Nat /\ own' \in Nat /\ own <= own'
  BY ScansGoForward
<1>2. RowsFrom(Statements, t, wpos') \subseteq RowsFrom(Statements, t, wpos)
  BY <1>1, RowsFromShrinks, TableReadAssumption
<1>3. RowsFrom(OwnScan, t, own') \subseteq RowsFrom(OwnScan, t, own)
  BY <1>1, RowsFromShrinks, ChericatAssumption
<1> QED
  BY <1>2, <1>3 DEF Coming

LEMMA ApartParts ==
    ASSUME NEW t, NEW whole, NEW parts, Apart(t, whole, parts),
           NEW W \in SUBSET whole, NEW P \in SUBSET parts
    PROVE  Apart(t, W, P)
BY DEF Apart

(* The statement that is made: its rows were to come, and nothing that     *)
(* belongs to them is.                                                     *)
InOrder(s) ==
    /\ s.table \in Table /\ s.rows \subseteq Coming(s.table)
    /\ s.table \in Wholes => Apart(s.table, s.rows, Coming(PartTable(s.table)))

LEMMA FirstRows ==
    ASSUME NEW scan, NEW k \in 1..Len(scan), Len(scan) \in Nat
    PROVE  scan[k].rows \subseteq RowsFrom(scan, scan[k].table, k)
BY DEF RowsFrom

LEMMA StatementsInOrder ==
    ASSUME TableInv, MainInv
    PROVE  /\ wpos <= Len(Statements) => InOrder(Statement)
           /\ own <= Len(OwnScan) => InOrder(OwnScan[own])
<1> USE TableReadAssumption, ChericatAssumption
<1>1. wpos \in 1..Len(Statements) + 1 /\ own \in 1..Len(OwnScan) + 1
  BY DEF TableInv, MainInv
<1>2. \A t : /\ RowsFrom(Statements, t, wpos) \subseteq RowsFrom(Statements, t, 1)
             /\ RowsFrom(OwnScan, t, own) \subseteq RowsFrom(OwnScan, t, 1)
  <2>1. Len(Statements) \in Nat /\ Len(OwnScan) \in Nat
    OBVIOUS
  <2>2. /\ wpos \in Nat /\ 1 <= wpos
        /\ own \in Nat /\ 1 <= own
    BY <1>1, <2>1
  <2> HIDE TableReadAssumption, ChericatAssumption
  <2>3. ASSUME NEW t
        PROVE  RowsFrom(Statements, t, wpos) \subseteq RowsFrom(Statements, t, 1)
    BY <2>1, <2>2, RowsFromShrinks
  <2>4. ASSUME NEW t
        PROVE  RowsFrom(OwnScan, t, own) \subseteq RowsFrom(OwnScan, t, 1)
    BY <2>1, <2>2, RowsFromShrinks
  <2> QED
    BY <2>3, <2>4
<1>3. ASSUME wpos <= Len(Statements) PROVE InOrder(Statement)
  <2> DEFINE t == Statement.table
  <2>1. wpos \in 1..Len(Statements)
    BY <1>1, <1>3
  <2>a. Statement = Statements[wpos] /\ IsStatement(Statements[wpos])
    BY <2>1 DEF Statement
  <2>b. Statements[wpos].rows
           \subseteq RowsFrom(Statements, Statements[wpos].table, wpos)
    BY <2>1, FirstRows
  <2>2. t \in Table /\ Statement.rows \subseteq RowsFrom(Statements, t, wpos)
    BY <2>a, <2>b DEF IsStatement
  <2>3. ASSUME t \in Wholes
        PROVE  Apart(t, Statement.rows, Coming(PartTable(t)))
    <3>1. Apart(t, Statement.rows, RowsFrom(Statements, PartTable(t), wpos))
      BY <2>1, <2>3, ScanOrderAssumption DEF Wholes, Statement
    <3>2. Apart(t, RowsFrom(Statements, t, 1), RowsFrom(OwnScan, PartTable(t), 1))
      BY <2>3, ScanOrderAssumption DEF Wholes
    <3>3. Apart(t, Statement.rows, RowsFrom(OwnScan, PartTable(t), own))
      BY <1>2, <2>2, <3>2, ApartParts
    <3> QED
      BY <3>1, <3>3 DEF Apart, Coming
  <2> QED
    BY <2>2, <2>3 DEF InOrder, Coming
<1>4. ASSUME own <= Len(OwnScan) PROVE InOrder(OwnScan[own])
  <2> DEFINE s == OwnScan[own]
             t == s.table
  <2>1. own \in 1..Len(OwnScan)
    BY <1>1, <1>4
  <2>2. t \in Table /\ s.rows \subseteq RowsFrom(OwnScan, t, own)
    BY <2>1, FirstRows DEF IsStatement
  <2>3. ASSUME t \in Wholes
        PROVE  Apart(t, s.rows, Coming(PartTable(t)))
    <3>1. Apart(t, s.rows, RowsFrom(OwnScan, PartTable(t), own))
      BY <2>1, <2>3, ScanOrderAssumption DEF Wholes
    <3>2. Apart(t, RowsFrom(OwnScan, t, 1), RowsFrom(Statements, PartTable(t), 1))
      BY <2>3, ScanOrderAssumption DEF Wholes
    <3>3. Apart(t, s.rows, RowsFrom(Statements, PartTable(t), wpos))
      BY <1>2, <2>2, <3>2, ApartParts
    <3> QED
      BY <3>1, <3>3 DEF Apart, Coming
  <2> QED
    BY <2>2, <2>3 DEF InOrder, Coming
<1> QED
  BY <1>3, <1>4

(* One statement is carried out beside whatever the view is doing. *)
LEMMA StoreSteps ==
    ASSUME TableInv, WholeInv, NEW s, InOrder(s),
           db' = [db EXCEPT ![s.table] = @ \cup s.rows],
           \A t : Coming(t)' \subseteq Coming(t),
           UNCHANGED <<view, rpc, rt, rows, got>>
    PROVE  WholeInv'
<1>1. ViewsInv' /\ SymbolsInv'
  BY DEF WholeInv, ViewsInv, SymbolsInv
<1>2. ASSUME NEW t \in Wholes PROVE ComingInv(t)' /\ PartsInv(t)'
  <2> DEFINE u == PartTable(t)
  <2>0. ComingInv(t) /\ PartsInv(t) /\ t \in Table /\ u \in Table
    BY <1>2 DEF WholeInv, Wholes, PartTable, Table
  <2>1. Coming(u)' \subseteq Coming(u)
    OBVIOUS
  <2>2. \A x \in Table : db'[x] = IF x = s.table THEN db[x] \cup s.rows ELSE db[x]
    BY DEF TableInv
  <2>3. Apart(t, db'[t], Coming(u))
    BY <1>2, <2>0, <2>2 DEF ComingInv, InOrder, Apart
  <2>4. ComingInv(t)'
    <3>1. Apart(t, db'[t], Coming(u)')
      BY <2>1, <2>3, ApartParts
    <3>2. Apart(t, got[t], Coming(u)')
      BY <2>0, <2>1 DEF ComingInv, Apart
    <3>3. rpc = "rows" /\ Reading = t => Apart(t, rows, Coming(u)')
      BY <2>0, <2>1 DEF ComingInv, Apart
    <3>4. Reading' = Reading
      BY DEF Reading
    <3> QED
      BY <3>1, <3>2, <3>3, <3>4 DEF ComingInv
  <2>5. \A row \in got[t] : \A part \in db'[u] \ db[u] : ~Belongs(t, part, row)
    <3>1. db'[u] \ db[u] \subseteq Coming(u)
      BY <2>0, <2>2 DEF InOrder
    <3> QED
      BY <2>0, <3>1 DEF ComingInv, Apart
  <2>6. PartsInv(t)'
    <3>1. Parts(t)' = Parts(t)
      BY DEF Parts
    <3> QED
      BY <2>0, <2>5, <3>1 DEF PartsInv
  <2> QED
    BY <2>4, <2>6
<1> QED
  BY <1>1, <1>2 DEF WholeInv

(* The first table of a view is another one than the second. *)
LEMMA PairTables ==
    ASSUME NEW t \in Wholes
    PROVE  /\ t \in Table /\ PartTable(t) \in Table /\ PartTable(t) # t
           /\ Pair(t)[1] = t /\ Pair(t)[2] = PartTable(t) /\ Len(Pair(t)) = 2
BY DEF Wholes, PartTable, Table, Pair

LEMMA PairViews ==
    ASSUME ViewsInv, rpc # "idle", NEW t \in Wholes, view.tables = Pair(t)
    PROVE  IF t = "vm" THEN view.must /\ ~view.lib ELSE ~view.must /\ view.lib
<1>1. t \in {"vm", "cap_info"}
  BY DEF Wholes
<1>2. /\ Pair("vm")[1] = "vm" /\ Pair("cap_info")[1] = "cap_info"
      /\ <<"comparts", "cap_info">>[1] = "comparts"
  BY DEF Pair
<1> QED
  BY <1>1, <1>2 DEF ViewsInv

LEMMA WholeReader ==
    ASSUME TableInv, CountInv, PrivInv, WholeInv, Reader,
           \A t : Coming(t)' = Coming(t)
    PROVE  WholeInv'
<1>0. /\ rpc # "idle" /\ rpc' # "idle" /\ view' = view /\ db' = db
      /\ Reading \in Table /\ Len(view.tables) \in Nat /\ rt \in 1..Len(view.tables)
  BY ReaderReads, SelectedFinite DEF TableInv, IsView, fileVars
<1>1. ViewsInv'
  BY <1>0 DEF WholeInv, ViewsInv
<1>2. ASSUME rpc' \notin {"rows", "shown"}, got' = got, rt' \in {rt, rt + 1},
             rt' = rt \/ rt < Len(view.tables)
      PROVE  WholeInv'
  <2>1. SymbolsInv'
    <3>1. SUFFICES ASSUME got["elf_sym"] # {} PROVE rt' = 2 /\ view.tables = Pair("cap_info")
      BY <1>0, <1>2 DEF SymbolsInv
    <3>2. view.tables = Pair("cap_info") /\ rt = 2
      BY <3>1 DEF WholeInv, SymbolsInv
    <3>3. Len(view.tables) = 2
      BY <3>2 DEF Pair
    <3>4. ~(rt < Len(view.tables))
      <4>1. rt = 2
        BY <3>2
      <4> QED
        BY <3>3, <4>1
    <3>5. rt' = rt
      BY <1>2, <3>4
    <3> QED
      BY <3>2, <3>5
  <2>2. ASSUME NEW t \in Wholes PROVE ComingInv(t)' /\ PartsInv(t)'
    <3>1. ComingInv(t)
      BY DEF WholeInv
    <3> QED
      BY <1>0, <1>2, <3>1 DEF ComingInv, PartsInv
  <2> QED
    BY <1>1, <2>1, <2>2 DEF WholeInv
<1>3. CASE TableExists
  BY <1>2, <1>3 DEF TableExists
<1>4. CASE CountRows
  BY <1>2, <1>4 DEF CountRows
<1>5. ASSUME got' = got, rt' = rt, rpc' = "shown",
             (rpc = "select" /\ ~view.must) \/ (rpc = "rows" /\ rows = {})
      PROVE  WholeInv'
  <2>1. SymbolsInv'
    BY <1>0, <1>5 DEF WholeInv, SymbolsInv
  <2>2. ASSUME NEW t \in Wholes PROVE ComingInv(t)'
    <3>1. ComingInv(t)
      BY DEF WholeInv
    <3> QED
      BY <1>0, <1>5, <3>1 DEF ComingInv
  <2>3. ASSUME NEW t \in Wholes PROVE PartsInv(t)'
    <3>1. SUFFICES ASSUME view.tables = Pair(t), rt = 2,
                          view.must \/ got[PartTable(t)] # {}
                   PROVE  \A row \in got[t] : \A part \in db[PartTable(t)] :
                              Belongs(t, part, row) => part \in Parts(t)'
      BY <1>0, <1>5 DEF PartsInv
    <3>2. Reading = PartTable(t)
      BY <3>1, PairTables DEF Reading
    <3>3. rpc = "rows" /\ rows = {}
      <4>1. rpc = "select" => got[PartTable(t)] = {}
        BY <1>0, <3>1, <3>2 DEF CountInv, Reading
      <4> QED
        BY <1>5, <3>1, <4>1
    <3>4. PartsInv(t)
      BY DEF WholeInv
    <3>5. Parts(t)' = got[PartTable(t)] /\ Parts(t) = got[PartTable(t)]
      BY <1>5, <3>3 DEF Parts
    <3> QED
      BY <3>1, <3>3, <3>4, <3>5 DEF PartsInv
  <2> QED
    BY <1>1, <2>1, <2>2, <2>3 DEF WholeInv
<1>6. CASE SelectRows
  <2>1. rpc = "select" /\ got' = got
    BY <1>6 DEF SelectRows
  <2>2. CASE rpc' = "aborted" /\ rt' = rt
    BY <1>2, <2>1, <2>2
  <2>3. CASE ~view.must /\ NextTable
    <3>1. \/ rpc' = "exists" /\ rt' = rt + 1 /\ rt < Len(view.tables)
          \/ rpc' = "shown" /\ rt' = rt
      BY <2>3 DEF NextTable
    <3>2. CASE rpc' = "exists"
      BY <1>2, <2>1, <3>1, <3>2
    <3>3. CASE rpc' = "shown"
      BY <1>5, <2>1, <2>3, <3>1, <3>3
    <3> QED
      BY <3>1, <3>2, <3>3
  <2>4. CASE rows' = Selected /\ rpc' = "rows" /\ rt' = rt
    <3>1. Reading' = Reading
      BY <1>0, <2>4 DEF Reading
    <3>2. SymbolsInv'
      BY <1>0, <2>1, <2>4 DEF WholeInv, SymbolsInv
    <3>3. ASSUME NEW t \in Wholes PROVE ComingInv(t)'
      <4>1. ComingInv(t)
        BY DEF WholeInv
      <4>2. Reading = t => Apart(t, Selected, Coming(PartTable(t)))
        BY <4>1 DEF ComingInv, Selected, Apart
      <4> QED
        BY <1>0, <2>1, <2>4, <3>1, <4>1, <4>2 DEF ComingInv
    <3>4. ASSUME NEW t \in Wholes PROVE PartsInv(t)'
      <4>1. SUFFICES ASSUME view.tables = Pair(t), rt = 2
                     PROVE  db[PartTable(t)] \subseteq Parts(t)'
        BY <1>0, <2>1, <2>4 DEF PartsInv
      <4>2. Reading = PartTable(t)
        BY <4>1, PairTables DEF Reading
      <4>3. Selected = db[PartTable(t)]
        <5>1. IF t = "vm" THEN ~view.lib ELSE PartTable(t) # "cap_info"
          BY <1>0, <4>1, PairViews DEF WholeInv, PartTable
        <5> QED
          BY <4>2, <5>1 DEF Selected
      <4> QED
        BY <2>4, <4>3 DEF Parts
    <3> QED
      BY <1>1, <3>2, <3>3, <3>4 DEF WholeInv
  <2> QED
    BY <1>6, <2>2, <2>3, <2>4 DEF SelectRows
<1>7. CASE RowCallback
  <2>1. PICK row \in rows : rows' = rows \ {row} /\ got' = StoreRow(row)
    BY <1>7 DEF RowCallback
  <2>2. rpc = "rows" /\ rpc' \in {"rows", "aborted"} /\ rt' = rt /\ Reading' = Reading
    BY <1>0, <1>7 DEF RowCallback, Reading
  <2>3. \A x \in Table : got'[x] = IF x = Reading THEN got[x] \cup {row} ELSE got[x]
    BY <1>0, <2>1 DEF StoreRow, TableInv
  <2>4. SymbolsInv'
    <3>1. SUFFICES ASSUME got'["elf_sym"] # {} PROVE view.tables = Pair("cap_info") /\ rt = 2
      BY <1>0, <2>2 DEF SymbolsInv
    <3>2. CASE got["elf_sym"] # {}
      BY <3>2 DEF WholeInv, SymbolsInv
    <3>3. CASE Reading = "elf_sym"
      <4>1. /\ Pair("vm") = <<"vm", "cap_info">> /\ Pair("cap_info") = <<"cap_info", "elf_sym">>
        BY DEF Pair, PartTable
      <4>2. view.tables = Pair("cap_info") /\ Len(view.tables) = 2
        BY <1>0, <3>3, <4>1 DEF WholeInv, ViewsInv, Reading
      <4> QED
        BY <1>0, <3>3, <4>1, <4>2 DEF Reading
    <3> QED
      BY <2>3, <3>1, <3>2, <3>3 DEF Table
  <2>5. ASSUME NEW t \in Wholes PROVE ComingInv(t)'
    <3>1. ComingInv(t) /\ t \in Table
      BY PairTables DEF WholeInv
    <3>2. Apart(t, got'[t], Coming(PartTable(t)))
      BY <2>2, <2>3, <3>1 DEF ComingInv, Apart
    <3>3. Reading = t => Apart(t, rows', Coming(PartTable(t)))
      BY <2>1, <2>2, <3>1 DEF ComingInv, Apart
    <3> QED
      BY <1>0, <2>2, <3>1, <3>2, <3>3 DEF ComingInv
  <2>6. ASSUME NEW t \in Wholes PROVE PartsInv(t)'
    <3>1. SUFFICES ASSUME view.tables = Pair(t), rt = 2, rpc' = "rows"
                   PROVE  \A r \in got'[t] : \A part \in db[PartTable(t)] :
                              Belongs(t, part, r) => part \in Parts(t)'
      BY <1>0, <2>2 DEF PartsInv
    <3>2. /\ t \in Table /\ PartTable(t) \in Table
          /\ Reading = PartTable(t) /\ Reading # t
      BY <3>1, PairTables DEF Reading
    <3>3. got'[t] = got[t] /\ got'[PartTable(t)] = got[PartTable(t)] \cup {row}
      BY <2>3, <3>2
    <3>4. Parts(t) \subseteq Parts(t)'
      BY <2>1, <2>2, <3>1, <3>3 DEF Parts
    <3>5. PartsInv(t)
      BY DEF WholeInv
    <3> QED
      BY <2>2, <3>1, <3>3, <3>4, <3>5 DEF PartsInv
  <2> QED
    BY <1>1, <2>4, <2>5, <2>6 DEF WholeInv
<1>8. CASE RowsEnd
  <2>1. rpc = "rows" /\ rows = {} /\ NextTable /\ got' = got
    BY <1>8 DEF RowsEnd
  <2> QED
    BY <1>2, <1>5, <2>1 DEF NextTable
<1> QED
  BY <1>3, <1>4, <1>6, <1>7, <1>8 DEF Reader

LEMMA WholeInit == Init => WholeInv
<1> SUFFICES ASSUME Init PROVE WholeInv
  OBVIOUS
<1>1. /\ rpc = "idle" /\ db = Stored /\ wpos = 1 /\ own = 1
      /\ \A t \in Table : got[t] = {}
  BY DEF Init, TableReadInit
<1>2. ViewsInv /\ SymbolsInv
  BY <1>1 DEF ViewsInv, SymbolsInv, Table
<1>3. ASSUME NEW t \in Wholes PROVE ComingInv(t) /\ PartsInv(t)
  <2>1. Apart(t, Stored[t], Coming(PartTable(t)))
    <3>1. /\ Apart(t, Stored[t], RowsFrom(Statements, PartTable(t), 1))
          /\ Apart(t, Stored[t], RowsFrom(OwnScan, PartTable(t), 1))
      BY ScanOrderAssumption DEF Wholes
    <3> QED
      BY <1>1, <3>1 DEF Coming, Apart
  <2>2. got[t] = {}
    BY <1>1, PairTables
  <2> QED
    BY <1>1, <2>1, <2>2 DEF ComingInv, PartsInv, Apart
<1> QED
  BY <1>2, <1>3 DEF WholeInv

(* While no view is under way the arrays are empty. *)
LEMMA WholeIdle ==
    ASSUME MainInv, TableInv, WholeInv, [Next]_vars,
           rpc' = "idle", \A t \in Table : got'[t] = {},
           \A t \in Table : db'[t] \in {db[t], {}}
    PROVE  WholeInv'
<1>1. ViewsInv' /\ SymbolsInv'
  BY DEF ViewsInv, SymbolsInv, Table
<1>2. ASSUME NEW t \in Wholes PROVE ComingInv(t)' /\ PartsInv(t)'
  <2>1. Apart(t, db[t], Coming(PartTable(t)))
    BY DEF WholeInv, ComingInv
  <2>2. Coming(PartTable(t))' \subseteq Coming(PartTable(t))
    BY ComingShrinks
  <2>3. got'[t] = {} /\ db'[t] \in {db[t], {}}
    BY PairTables
  <2> QED
    BY <2>1, <2>2, <2>3 DEF ComingInv, PartsInv, Apart
<1> QED
  BY <1>1, <1>2 DEF WholeInv

LEMMA WholeSteps ==
    ASSUME MainInv, TableInv, CountInv, PrivInv, WholeInv, [Next]_vars
    PROVE  WholeInv'
<1> USE TableReadAssumption, ChericatAssumption
<1>0. \A t : Coming(t)' \subseteq Coming(t)
  BY ComingShrinks
<1>1. ASSUME UNCHANGED <<view, rpc, rt, rows, got, db, wpos, own>>
      PROVE  WholeInv'
  <2>1. ViewsInv' /\ SymbolsInv'
    BY <1>1 DEF WholeInv, ViewsInv, SymbolsInv
  <2>2. ASSUME NEW t \in Wholes PROVE ComingInv(t)' /\ PartsInv(t)'
    <3>1. ComingInv(t) /\ PartsInv(t)
      BY DEF WholeInv
    <3> QED
      BY <1>1, <3>1 DEF ComingInv, PartsInv, Parts, Coming, Reading
  <2> QED
    BY <2>1, <2>2 DEF WholeInv
<1>2. CASE \/ Start \/ ParseOption \/ CheckCommand \/ NotSelected \/ ScanReturns
           \/ NothingToShow \/ Terminate \/ UNCHANGED vars
  <2>1. UNCHANGED <<own, tableVars>>
    BY <1>2 DEF Start, ParseOption, CheckCommand, NotSelected, ScanReturns, NothingToShow,
       Terminate, vars, mainVars
  <2> QED
    BY <1>1, <2>1 DEF tableVars, readVars, writeVars, fileVars
<1>3. CASE OpenDb
  <2>1. /\ rpc = "idle" /\ UNCHANGED readVars
        /\ OpenedDb \/ UNCHANGED fileVars
    BY <1>3 DEF OpenDb, MainInv, Work
  <2>2. rpc' = "idle" /\ \A t \in Table : got'[t] = {}
    BY <2>1 DEF CountInv, readVars
  <2>3. \A t \in Table : db'[t] \in {db[t], {}}
    BY <2>1 DEF OpenedDb, fileVars
  <2> QED
    BY <2>2, <2>3, WholeIdle
<1>4. CASE ScanExits \/ ViewExits \/ Exit \/ ViewReturns \/ Signal
  <2>1. NoView
    BY <1>4 DEF ScanExits, ViewExits, Exit, Ends, ViewReturns, Signal
  <2>2. rpc' = "idle" /\ db' = db /\ \A t \in Table : got'[t] = {}
    BY <2>1 DEF NoView, fileVars
  <2> QED
    BY <2>2, WholeIdle
<1>5. ASSUME NEW s, InOrder(s), UNCHANGED <<view, rpc, rt, rows, got>>,
             db' = [db EXCEPT ![s.table] = @ \cup s.rows] \/ db' = db
      PROVE  WholeInv'
  <2>1. CASE db' = [db EXCEPT ![s.table] = @ \cup s.rows]
    BY <1>0, <1>5, <2>1, StoreSteps
  <2>2. CASE db' = db
    <3>1. ViewsInv' /\ SymbolsInv'
      BY <1>5 DEF WholeInv, ViewsInv, SymbolsInv
    <3>2. ASSUME NEW t \in Wholes PROVE ComingInv(t)' /\ PartsInv(t)'
      <4>1. ComingInv(t) /\ PartsInv(t)
        BY DEF WholeInv
      <4>2. Coming(PartTable(t))' \subseteq Coming(PartTable(t))
        BY <1>0
      <4>3. Reading' = Reading /\ Parts(t)' = Parts(t)
        BY <1>5 DEF Reading, Parts
      <4> QED
        BY <1>5, <2>2, <4>1, <4>2, <4>3 DEF ComingInv, PartsInv, Apart
    <3> QED
      BY <3>1, <3>2 DEF WholeInv
  <2> QED
    BY <1>5, <2>1, <2>2
<1>6. CASE ScanStatement
  <2> DEFINE s == OwnScan[own]
  <2>1. /\ own <= Len(OwnScan) /\ UNCHANGED readVars
        /\ db' = [db EXCEPT ![s.table] = @ \cup s.rows] \/ db' = db
    BY <1>6 DEF ScanStatement, fileVars
  <2>2. InOrder(s)
    BY <2>1, StatementsInOrder
  <2> QED
    BY <1>5, <2>1, <2>2 DEF readVars
<1>7. CASE OtherScan
  <2>1. UNCHANGED <<view, rpc, rt, rows, got, own>>
    BY <1>7, WriterKeeps DEF OtherScan, readVars, mainVars
  <2>2. CASE WriteEnd
    <3>1. wpos <= Len(Statements)
      BY <2>2 DEF WriteEnd, TableInv
    <3>2. db' = [db EXCEPT ![Statement.table] = @ \cup Statement.rows]
      BY <2>2 DEF WriteEnd
    <3> QED
      BY <1>5, <2>1, <3>1, <3>2, StatementsInOrder
  <2>3. CASE WriteStatement \/ WriteCommit \/ WriteNothing
    <3>1. wpos <= Len(Statements) /\ db' = db
      BY <2>3 DEF WriteStatement, WriteCommit, WriteNothing, fileVars, TableInv
    <3> QED
      BY <1>5, <2>1, <3>1, StatementsInOrder
  <2> QED
    BY <1>7, <2>2, <2>3 DEF OtherScan, Writer
<1>8. CASE StartView
  <2>1. /\ rpc = "idle" /\ rpc' = "exists" /\ view' = ViewOf(pc, command)
        /\ UNCHANGED <<got, db>> /\ pc \in {"v", "i"}
    BY <1>8 DEF StartView, BeginView, fileVars
  <2>2. \A t \in Table : got[t] = {}
    BY <2>1 DEF CountInv
  <2>3. ViewsInv'
    BY <2>1 DEF ViewsInv, ViewOf, Pair, PartTable
  <2>4. SymbolsInv'
    BY <2>1, <2>2 DEF SymbolsInv, Table
  <2>5. ASSUME NEW t \in Wholes PROVE ComingInv(t)' /\ PartsInv(t)'
    <3>1. ComingInv(t) /\ Coming(PartTable(t))' \subseteq Coming(PartTable(t))
      BY <1>0 DEF WholeInv
    <3> QED
      BY <2>1, <3>1 DEF ComingInv, PartsInv, Apart
  <2> QED
    BY <2>3, <2>4, <2>5 DEF WholeInv
<1>9. CASE ViewStep
  <2>1. Reader /\ UNCHANGED <<wpos, own>>
    BY <1>9, ReaderReads DEF ViewStep, mainVars, writeVars
  <2>2. \A t : Coming(t)' = Coming(t)
    BY <2>1 DEF Coming
  <2> QED
    BY <2>1, <2>2, WholeReader
<1> QED
  BY <1>2, <1>3, <1>4, <1>6, <1>7, <1>8, <1>9 DEF Next, Main

LEMMA WholesHold == Spec => [](TableInv /\ PrivInv /\ WholeInv)
<1>1. Init => WholeInv
  BY WholeInit
<1>2. (MainInv /\ TableInv /\ CountInv) /\ PrivInv /\ WholeInv /\ [Next]_vars => WholeInv'
  BY WholeSteps
<1> QED
  BY <1>1, <1>2, TablesHold, PrivHolds, PTL DEF Spec

LEMMA PairRead ==
    ASSUME TableInv, PrivInv, WholeInv, rpc = "shown",
           NEW t \in Wholes, view.tables = Pair(t), view.must \/ got[PartTable(t)] # {}
    PROVE  \A row \in got[t] : \A part \in db[PartTable(t)] :
               Belongs(t, part, row) => part \in got[PartTable(t)]
<1>1. rt = Len(view.tables)
  BY DEF PrivInv
<1>2. rt = 2
  BY <1>1, PairTables
<1>3. PartsInv(t)
  BY DEF WholeInv
<1> QED
  BY <1>2, <1>3 DEF PartsInv, Parts

(* A block that is shown is shown with all the capabilities its scan has   *)
(* stored for it, whatever statements were lost: for all scans that store  *)
(* a block behind its capabilities, and all databases.                     *)
THEOREM BlocksWhole == Spec => []BlocksShownWhole
<1>1. TableInv /\ PrivInv /\ WholeInv => BlocksShownWhole
  <2> SUFFICES ASSUME TableInv, PrivInv, WholeInv, rpc = "shown",
                      ToSet(view.tables) = {"vm", "cap_info"},
                      NEW row \in got["vm"], NEW c \in db["cap_info"], c.block = row.block
               PROVE  c \in got["cap_info"]
    BY DEF BlocksShownWhole
  <2>1. /\ ToSet(<<"cap_info", "elf_sym">>) # {"vm", "cap_info"}
        /\ ToSet(<<"comparts", "cap_info">>) # {"vm", "cap_info"}
    <3>1. /\ "elf_sym" \in ToSet(<<"cap_info", "elf_sym">>)
          /\ "comparts" \in ToSet(<<"comparts", "cap_info">>)
      BY DEF ToSet
    <3> QED
      BY <3>1
  <2>2. view.tables = Pair("vm") /\ view.must
    BY <2>1 DEF WholeInv, ViewsInv, Pair, PartTable
  <2>3. "vm" \in Wholes /\ PartTable("vm") = "cap_info" /\ Belongs("vm", c, row)
    BY DEF Wholes, PartTable, Belongs
  <2> QED
    BY <2>2, <2>3, PairRead
<1> QED
  BY <1>1, WholesHold, PTL

(* A capability that is shown is shown with every symbol that was stored   *)
(* for its file, if the symbols could be read: for all scans that store    *)
(* symbols before the capabilities of their file, and all databases.       *)
THEOREM SymbolsWhole == Spec => []SymbolsShown
<1>1. TableInv /\ PrivInv /\ WholeInv => SymbolsShown
  <2> SUFFICES ASSUME TableInv, PrivInv, WholeInv, rpc = "shown", got["elf_sym"] # {},
                      NEW c \in got["cap_info"], NEW s \in db["elf_sym"], c.file = s.file
               PROVE  s \in got["elf_sym"]
    BY DEF SymbolsShown
  <2>1. view.tables = Pair("cap_info")
    BY DEF WholeInv, SymbolsInv
  <2>2. /\ "cap_info" \in Wholes /\ PartTable("cap_info") = "elf_sym"
        /\ Belongs("cap_info", s, c)
    BY DEF Wholes, PartTable, Belongs
  <2> QED
    BY <2>1, <2>2, PairRead
<1> QED
  BY <1>1, WholesHold, PTL
==============================================================================
