---------------------------- MODULE MCChericat ----------------------------
(***************************************************************************)
(* Calls of chericat beside a scan of two blocks of one file that another  *)
(* call is making: the statements in the order in which ScanMem makes      *)
(* them.  The database file holds one block of an earlier scan.            *)
(***************************************************************************)
EXTENDS Chericat

MCRow(b, f, n) == [block |-> b, file |-> f, n |-> n]
MCInsert(t, r) == [op |-> "insert", table |-> t, rows |-> r]
MCUpdate(t) == [op |-> "update", table |-> t, rows |-> {}]
MCCreate(t) == [op |-> "create", table |-> t, rows |-> {}]

MCStored ==
    [t \in Table |-> IF t \in {"vm", "cap_info", "comparts"}
                     THEN {MCRow(0, "old", 1)} ELSE {}]

MCStatements ==
    <<MCCreate("cap_info"), MCCreate("vm"), MCCreate("comparts"),
      MCInsert("comparts", {MCRow(0, "old", 1), MCRow(1, "prog", 0)}),
      MCUpdate("comparts"), MCCreate("elf_sym"),
      MCInsert("elf_sym", {MCRow(0, "prog", 1), MCRow(0, "prog", 2)}),
      MCInsert("cap_info", {MCRow(1, "prog", 1), MCRow(1, "prog", 2)}),
      MCInsert("vm", {MCRow(1, "prog", 0), MCRow(2, "prog", 0)})>>

(* The scan of -p: one block of another process. *)
MCOwnScan ==
    <<MCCreate("cap_info"), MCCreate("vm"), MCCreate("comparts"),
      MCInsert("comparts", {MCRow(3, "own", 0)}), MCCreate("elf_sym"),
      MCInsert("elf_sym", {MCRow(0, "own", 1)}),
      MCInsert("cap_info", {MCRow(3, "own", 1), MCRow(3, "own", 2)}),
      MCInsert("vm", {MCRow(3, "own", 0)})>>

MCGood(o) == [opt |-> o, ok |-> TRUE]
MCBad(o) == [opt |-> o, ok |-> FALSE]
MCLine(args, cmd) == [args |-> args, command |-> cmd]

(* Every line of at most two options, good or bad, with and without its    *)
(* command, and longer ones that do all there is to do, in several orders. *)
MCShort == {MCGood(o) : o \in {"f", "p", "v", "i"}} \cup {MCBad(o) : o \in {"f", "p", "?"}}
MCLong ==
    {<<MCGood("p"), MCGood("v"), MCGood("f")>>, <<MCGood("v"), MCGood("p"), MCGood("i")>>,
     <<MCGood("d"), MCGood("i"), MCGood("f")>>, <<MCGood("p"), MCGood("f"), MCBad("i")>>,
     <<MCGood("f"), MCGood("v"), MCGood("i")>>}
MCLines == {MCLine(args, cmd) : args \in SeqOf(MCShort, 2), cmd \in Command}
           \cup {MCLine(args, "lib") : args \in MCLong}

MCViewLines == {MCLine(<<MCGood("f"), MCGood("v")>>, "lib")}
=============================================================================
