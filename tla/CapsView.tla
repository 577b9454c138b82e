------------------------------ MODULE CapsView ------------------------------
(***************************************************************************)
(* The summary views: vm_caps_view (chericat -v show lib), a row for each  *)
(* block of the table vm, and comp_caps_view (-v show comp), a row for     *)
(* each of the table comparts.  A row counts the capabilities that lie in  *)
(* its range, all of them and by their rights to read, write and execute.  *)
(***************************************************************************)
EXTENDS Naturals, FiniteSets, Sequences, SequencesExt

CONSTANTS
    Ranges,     \* the ranges the rows of vm or comparts may have: [start, end]
    Address,    \* the addresses of capabilities, and those they hold
    NumRows, NumCaps   \* bounds on the rows and the capabilities

ASSUME CapsViewAssumption ==
    /\ \A r \in Ranges : r.start \in Nat /\ r.end \in Nat
    /\ Address \subseteq Nat
    /\ NumRows \in Nat /\ NumCaps \in Nat

Perms == SUBSET {"r", "w", "x"}
CapRow == [loc : Address, addr : Address, perms : Perms]

VARIABLES
    command,  \* show "lib" or "comp"
    rows,     \* vm_info_captured or comp_info_captured: the ranges
    caps,     \* cap_info_captured
    shown     \* the counts shown for the rows so far

viewVars == <<command, rows, caps, shown>>

AfterStart(a, range) == a > range.start /\ a <= range.end

(* The range test of the inner loop. *)
Within(a, range) == a >= range.start /\ a <= range.end

(* The capabilities the inner loop counts in a row. *)
CountedIn(range) ==
    {j \in 1..Len(caps) : /\ Within(caps[j].loc, range)
                          /\ command = "comp" => Within(caps[j].addr, range)}

WriteMaybeExec(c) == "r" \in c.perms /\ "w" \in c.perms

(* The strchr tests of each class. *)
ReadOnly(c) == "r" \in c.perms /\ "w" \notin c.perms /\ "x" \notin c.perms
ReadWrite(c) == "r" \in c.perms /\ "w" \in c.perms /\ "x" \notin c.perms
ReadExec(c) == "r" \in c.perms /\ "x" \in c.perms /\ "w" \notin c.perms
ReadWriteExec(c) == "r" \in c.perms /\ "x" \in c.perms /\ "w" \in c.perms

Counts(range) ==
    LET Of(P(_)) == Cardinality({j \in CountedIn(range) : P(caps[j])})
    IN  [total |-> Cardinality(CountedIn(range)), ro |-> Of(ReadOnly),
         rw |-> Of(ReadWrite), rx |-> Of(ReadExec), rwx |-> Of(ReadWriteExec)]

ViewInit ==
    /\ command \in {"lib", "comp"}
    /\ rows \in SeqOf(Ranges, NumRows)
    /\ caps \in SeqOf(CapRow, NumCaps)
    /\ shown = <<>>

(* One turn of the loop over the rows. *)
ShowRow ==
    /\ Len(shown) < Len(rows)
    /\ shown' = Append(shown, Counts(rows[Len(shown) + 1]))
    /\ UNCHANGED <<command, rows, caps>>

ViewSpec == ViewInit /\ [][ShowRow]_viewVars

-----------------------------------------------------------------------------
(* The four classes are disjoint and only the capabilities that cannot be  *)
(* used to read are in none of them: what a row's columns leave of TOTAL   *)
(* is their number.                                                        *)
ClassesAddUp ==
    \A k \in 1..Len(shown) :
        LET s == shown[k]
        IN  s.total - (s.ro + s.rw + s.rx + s.rwx) =
              Cardinality({j \in CountedIn(rows[k]) : "r" \notin caps[j].perms})

(* The rows are those of one scan: disjoint blocks in the order of their   *)
(* addresses; kve_end is the first address behind a block                  *)
(* (mem_scan.c:276).                                                       *)
OneMap ==
    \A j, k \in 1..Len(rows) :
        /\ rows[j].start < rows[j].end
        /\ j < k => rows[j].end <= rows[k].start

(* The TOTALs of one scan add up to the capabilities that lie in its       *)
(* blocks, each once, and those at the first address behind a block once   *)
(* more: a capability where two blocks adjoin is in the TOTALs of both     *)
(* (vm_caps_view.c:112), although TOTAL is the "total number of            *)
(* capabilities found in this vm block" (README.md:23).                    *)
TotalsOfTheMap ==
    command = "lib" /\ OneMap /\ Len(shown) = Len(rows) =>
        LET At(P(_, _)) == {j \in 1..Len(caps) :
                               \E k \in 1..Len(rows) : P(caps[j].loc, rows[k])}
            InBlock(a, row) == a >= row.start /\ a < row.end
            Behind(a, row) == a = row.end
        IN  FoldFunction(+, 0, [k \in 1..Len(rows) |-> shown[k].total])
              = Cardinality(At(InBlock)) + Cardinality(At(Behind))
=============================================================================
