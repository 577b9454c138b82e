----------------------------- MODULE FullGraph -----------------------------
(***************************************************************************)
(* chericat_graphs.py -g (full_graph.py): a graph of the database a scan   *)
(* has left.  Its nodes are the labels of the table vm; an edge from one   *)
(* to another stands for the capabilities that lie under the first, hold   *)
(* an address in a block of the second and have the same rights, and its   *)
(* penwidth, a logarithm, counts them.                                     *)
(*                                                                         *)
(* Addresses are compared as the strings "0x..." that the tables hold.     *)
(***************************************************************************)
EXTENDS CapsView

CONSTANTS
    Label,     \* the labels of vm and cap_info: a path, or a path with a suffix
    Matches,   \* the pairs of a label and one it contains, as LIKE finds it
    Cut,       \* a label without its last six characters
    Special,   \* "unknown", "Stack" and "Guard"
    Perm,      \* the rights a capability may have
    Radix,     \* 16
    NumBlocks, NumPointers   \* bounds on the rows of vm and of cap_info

ASSUME FullGraphAssumption ==
    /\ Matches \subseteq Label \X Label /\ \A l \in Label : <<l, l>> \in Matches
    /\ DOMAIN Cut = Label /\ "none" \notin Label
    /\ Special \subseteq Label
    /\ Radix \in Nat \ {0, 1}
    /\ NumBlocks \in Nat /\ NumPointers \in Nat

VARIABLES
    blocks,    \* the rows of vm: [label, range]
    pointers,  \* the rows of cap_info: [label, addr, perms]
    todo,      \* the labels (SELECT DISTINCT) that are still to be done
    node,      \* the label under way
    p, b,      \* the capability and the block that are next
    penwidth,  \* penwidth_weight, as the number whose logarithm it is
    edges,     \* the edges: <<from, to, rights>> -> penwidth
    drawing    \* "yes", "drawn" or "raised"

graphVars == <<blocks, pointers, todo, node, p, b, penwidth, edges, drawing>>

Thin == 10    \* 10^1, the penwidth of a new edge

(* "0x%lx" without its "0x", and the order of such strings. *)
Digits[n \in Nat] ==
    IF n < Radix THEN <<n>> ELSE Append(Digits[n \div Radix], n % Radix)
AtMost(x, y) ==
    LET u == Digits[x]
        v == Digits[y]
    IN  \/ IsPrefix(u, v)
        \/ \E k \in 1..Len(u) \cap 1..Len(v) :
              u[k] < v[k] /\ SubSeq(u, 1, k - 1) = SubSeq(v, 1, k - 1)

(* WHERE mmap_path LIKE '%pattern%': the label with its suffixes, and any  *)
(* other that contains the pattern, as libz.so.10 does libz.so.1.  A row   *)
(* that it leaves out is passed over like one without the address.         *)
Like(label, pattern) == <<label, pattern>> \in Matches

PointsInto(c, x) == AtMost(x.range.start, c.addr) /\ AtMost(c.addr, x.range.end)

(* The four comparisons of the two paths, cut or not. *)
Apart(l, m) == {l, Cut[l]} \cap {m, Cut[m]} = {}

-----------------------------------------------------------------------------
GraphInit ==
    /\ blocks \in SeqOf([label : Label, range : Ranges], NumBlocks)
    /\ pointers \in SeqOf([label : Label, addr : Address, perms : Perm], NumPointers)
    /\ todo = {blocks[k].label : k \in 1..Len(blocks)}
    /\ node = "none" /\ p = 1 /\ b = 1 /\ penwidth = Thin /\ edges = <<>>
    /\ drawing = "yes"

(* The next label becomes a node; behind the last the graph is drawn.      *)
NextNode ==
    /\ drawing = "yes" /\ (node = "none" \/ p > Len(pointers))
    /\ IF todo = {} THEN drawing' = "drawn" /\ UNCHANGED <<todo, node, p, b, penwidth>>
       ELSE \E l \in todo :
               /\ todo' = todo \ {l} /\ node' = l
               /\ p' = 1 /\ b' = 1 /\ penwidth' = Thin /\ UNCHANGED drawing
    /\ UNCHANGED <<blocks, pointers, edges>>

Drawing == drawing = "yes" /\ node # "none" /\ p <= Len(pointers)
Hit ==
    /\ Like(blocks[b].label, node)
    /\ PointsInto(pointers[p], blocks[b]) /\ Apart(pointers[p].label, node)

(* The penwidth of the next capability. *)
WidthStays == UNCHANGED penwidth
WidthReset == penwidth' = Thin

NextPointer ==
    /\ Drawing /\ b > Len(blocks)
    /\ p' = p + 1 /\ b' = 1 /\ WidthReset
    /\ UNCHANGED <<blocks, pointers, todo, node, edges, drawing>>

BlockMissed ==
    /\ Drawing /\ b <= Len(blocks) /\ ~Hit
    /\ b' = b + 1
    /\ UNCHANGED <<blocks, pointers, todo, node, p, penwidth, edges, drawing>>

(* The edge there is is taken out and put back with one more; a new one    *)
(* has the penwidth of the capability so far.                              *)
BlockHit ==
    /\ Drawing /\ b <= Len(blocks) /\ Hit
    /\ LET c == pointers[p]
           edge == <<c.label, node, c.perms>>
       IN  \/ /\ c.label \notin Special \/ \E k \in 1..Len(blocks) : blocks[k].label = c.label
              /\ penwidth' = IF edge \in DOMAIN edges THEN edges[edge] + 1 ELSE penwidth
              /\ edges' = [e \in DOMAIN edges \cup {edge} |->
                              IF e = edge THEN penwidth' ELSE edges[e]]
              /\ b' = b + 1 /\ UNCHANGED drawing
           \/ /\ c.label \in Special /\ \A k \in 1..Len(blocks) : blocks[k].label # c.label
              /\ drawing' = "raised" /\ UNCHANGED <<b, penwidth, edges>>
    /\ UNCHANGED <<blocks, pointers, todo, node, p>>

GraphStep == (NextNode \/ NextPointer \/ BlockMissed \/ BlockHit) /\ UNCHANGED viewVars

GraphSpec == GraphInit /\ [][GraphStep]_<<viewVars, graphVars>>

-----------------------------------------------------------------------------
(* The strings of two addresses have one length, and so are in the order   *)
(* of the addresses.                                                       *)
Alike(m, n) == Len(Digits[m]) = Len(Digits[n])

(* A capability's address is in a block, or may be taken to be: only the   *)
(* strings of one length tell.                                             *)
SurelyInto(a, range) ==
    /\ Alike(range.start, a) /\ range.start <= a
    /\ Alike(a, range.end) /\ a <= range.end
MaybeInto(a, range) ==
    /\ Alike(range.start, a) => range.start <= a
    /\ Alike(a, range.end) => a <= range.end

(* The capabilities of an edge, with the blocks that LIKE finds for it.    *)
OfPair(l, m, r) ==
    {w \in (1..Len(pointers)) \X (1..Len(blocks)) :
        /\ pointers[w[1]].label = l /\ pointers[w[1]].perms = r
        /\ Like(blocks[w[2]].label, m)}
Sure(l, m, r) ==
    {w \in OfPair(l, m, r) : SurelyInto(pointers[w[1]].addr, blocks[w[2]].range)}
Possible(l, m, r) ==
    {w \in OfPair(l, m, r) : MaybeInto(pointers[w[1]].addr, blocks[w[2]].range)}

(* The width of an edge counts the capabilities it stands for, once for    *)
(* each block they point into, whatever the order of the rows, and there   *)
(* is no other edge.  All that the comparison of strings can do is to add  *)
(* or drop a pair of a capability and a block whose addresses differ in    *)
(* their number of digits (full_graph.py:52-108).                          *)
EdgesCountPointers ==
    drawing = "drawn" =>
        \A l \in Label, m \in {blocks[k].label : k \in 1..Len(blocks)}, r \in Perm :
            LET drawn == <<l, m, r>> \in DOMAIN edges
                n == IF drawn THEN edges[<<l, m, r>>] - Thin + 1 ELSE 0
            IN  /\ drawn => n > 0 /\ Apart(l, m)
                /\ Apart(l, m) => n >= Cardinality(Sure(l, m, r))
                /\ n <= Cardinality(Possible(l, m, r))
=============================================================================
