------------------------- MODULE LinkMapScan_proofs -------------------------
(***************************************************************************)
(* What holds of the three sessions on the linker's data, for all objects, *)
(* compartments and moves of the target: the types, that the walk sees one *)
(* state of the list, whose name a compartment has, and, when no two       *)
(* objects share a compartment, that none is lost and that a parent is     *)
(* recorded before its parts.                                              *)
(***************************************************************************)
EXTENDS LinkMapScan, TLAPS, SequenceTheorems

(* Where the first session is done, and where the second has not begun.    *)
BeforeRDebug == {"mk_comparts", "rd_auxv", "rd_attach", "rd_wait", "rd_io"}
BeforeWalk == BeforeRDebug \cup {"lm_attach", "lm_wait"}

(* The walk does not move while the target runs. *)
WalkInv ==
    /\ pc \in SessionPoints \cup {"blk", "exited"}
    /\ LinkTypes
    /\ pc \in BeforeWalk => node = 1 /\ libs = <<>>
    /\ pc = "lm_io" => node > 0 /\ (TargetRuns => node = 1 /\ libs = <<>>)
    /\ pc = "lm_sub" => /\ ~TargetRuns /\ node \in 1..Len(linkmap)
                        /\ sub \in 1..Len(SubComparts[linkmap[node]])
    /\ WalkOfOneStop

Row == [id : Nat, lib : Lib \cup {NoLib}, name : Nat \cup {NoName, JunkName},
        parent : Nat \cup {NoName}]

(* Nothing has been named before the address of the array is known, and    *)
(* the array never gets an old address again.                              *)
NameInv ==
    /\ comparts \subseteq Row
    /\ pc \in BeforeRDebug => comparts = {}
    /\ rdbg.gen <= rcomp.gen
    /\ NameOfOwnCompart

(* No two objects share a compartment, and none is the part of another. *)
Separate ==
    \A l, m \in Lib : /\ DefaultCompart[l] = DefaultCompart[m] => l = m
                      /\ DefaultCompart[l] \notin ToSet(SubComparts[m])

Recorded(l) == \E c \in comparts : c.lib = l /\ c.id = DefaultCompart[l]

KeptInv ==
    /\ "sql" \notin silent => \A l \in ToSet(libs) : Recorded(l)
    /\ "sql" \notin silent => \A c \in comparts : c.parent # NoName =>
          \E l \in Lib : c.parent = DefaultCompart[l] /\ Recorded(l)

-----------------------------------------------------------------------------
(* The sequences of the walk. *)
LEMMA ReverseNone ==
    ASSUME NEW S, NEW s \in Seq(S)
    PROVE  Reverse(SubSeq(s, 1, 0)) = <<>>
<1>1. SubSeq(s, 1, 0) = <<>>
  OBVIOUS
<1>2. Reverse(<<>>) = <<>>
  BY DEF Reverse
<1> QED
  BY <1>1, <1>2

LEMMA ReverseMore ==
    ASSUME NEW S, NEW s \in Seq(S), NEW n \in 1..Len(s)
    PROVE  <<s[n]>> \o Reverse(SubSeq(s, 1, n - 1)) = Reverse(SubSeq(s, 1, n))
<1> DEFINE a == SubSeq(s, 1, n - 1)
           b == SubSeq(s, 1, n)
<1>0. n \in Nat /\ Len(s) \in Nat /\ n > 0 /\ n <= Len(s)
  OBVIOUS
<1>1. /\ Len(a) = n - 1 /\ \A k \in 1..n - 1 : a[k] = s[k]
      /\ Len(b) = n /\ \A k \in 1..n : b[k] = s[k]
  BY <1>0
<1> HIDE DEF a, b
<1>2. /\ Reverse(a) = [k \in 1..n - 1 |-> s[n - k]]
      /\ Reverse(b) = [k \in 1..n |-> s[n + 1 - k]]
  <2>1. \A k \in 1..n - 1 : Len(a) - k + 1 = n - k /\ n - k \in 1..n - 1
    BY <1>0, <1>1
  <2>2. \A k \in 1..n : Len(b) - k + 1 = n + 1 - k /\ n + 1 - k \in 1..n
    BY <1>0, <1>1
  <2> QED
    BY <1>1, <2>1, <2>2 DEF Reverse
<1>3. \A k \in 1..n - 1 : s[n - k] \in S
  BY <1>0
<1>4. Reverse(a) \in Seq(S) /\ Len(Reverse(a)) = n - 1
  BY <1>0, <1>2, <1>3
<1>5. s[n] \in S
  BY <1>0
<1> DEFINE r == Reverse(a)
<1> HIDE DEF r
<1>6. /\ <<s[n]>> \o r = [k \in 1..1 + Len(r) |-> IF k = 1 THEN s[n] ELSE r[k - 1]]
  BY <1>4, <1>5 DEF r
<1>7. \A k \in 1..n : (IF k = 1 THEN s[n] ELSE r[k - 1]) = s[n + 1 - k]
  BY <1>0, <1>2 DEF r
<1>8. <<s[n]>> \o r = [k \in 1..n |-> s[n + 1 - k]]
  <2>1. 1 + Len(r) = n
    BY <1>0, <1>4 DEF r
  <2> QED
    BY <1>6, <1>7, <2>1
<1> QED
  BY <1>2, <1>8 DEF a, b, r

LEMMA RemoveAtType ==
    ASSUME NEW S, NEW s \in Seq(S), NEW k \in 1..Len(s)
    PROVE  RemoveAt(s, k) \in Seq(S)
<1>1. SubSeq(s, 1, k - 1) \in Seq(S)
  <2>1. \A j \in 1..k - 1 : s[j] \in S
    BY ElementOfSeq
  <2> QED
    BY <2>1, SubSeqProperties
<1>2. SubSeq(s, k + 1, Len(s)) \in Seq(S)
  <2>1. \A j \in k + 1..Len(s) : s[j] \in S
    BY ElementOfSeq
  <2> QED
    BY <2>1, SubSeqProperties
<1> QED
  BY <1>1, <1>2, ConcatProperties DEF RemoveAt

(* The rows after a statement. *)
LEMMA ReplaceRows ==
    ASSUME NEW row, NEW rows
    PROVE  /\ row \in Replace(rows, row)
           /\ \A c \in Replace(rows, row) : c = row \/ c \in rows
           /\ \A c \in rows : c.id # row.id => c \in Replace(rows, row)
BY DEF Replace

LEMMA RenameRows ==
    ASSUME NEW rows \in SUBSET Row, NEW id \in Nat, NEW name \in Nat \cup {JunkName}
    PROVE  /\ Rename(rows, id, name) \subseteq Row
           /\ \A c \in Rename(rows, id, name) : \E d \in rows :
                 /\ c.id = d.id /\ c.lib = d.lib /\ c.parent = d.parent
                 /\ c.name = IF d.id = id THEN name ELSE d.name
           /\ \A d \in rows : \E c \in Rename(rows, id, name) :
                 c.id = d.id /\ c.lib = d.lib
<1> DEFINE New(d) == IF d.id = id THEN [d EXCEPT !.name = name] ELSE d
<1>1. ASSUME NEW d \in rows
      PROVE  /\ New(d) \in Row /\ New(d).id = d.id /\ New(d).lib = d.lib
             /\ New(d).parent = d.parent
             /\ New(d).name = IF d.id = id THEN name ELSE d.name
  BY <1>1 DEF Row
<1>2. Rename(rows, id, name) = {New(d) : d \in rows}
  BY DEF Rename
<1> HIDE DEF New
<1> QED
  BY <1>1, <1>2

LEMMA LinkInit0 == LinkInit => WalkInv /\ NameInv /\ KeptInv
<1> SUFFICES ASSUME LinkInit PROVE WalkInv /\ NameInv /\ KeptInv
  OBVIOUS
<1> USE LinkMapAssumption
<1>1. LinkTypes
  BY DEF LinkInit, LinkTypes, TargetState
<1>2. WalkInv
  BY <1>1 DEF LinkInit, WalkInv, SessionPoints, AttachPoints, WalkOfOneStop
<1>3. NameInv
  BY DEF LinkInit, NameInv, NameOfOwnCompart
<1>4. KeptInv
  BY DEF LinkInit, KeptInv, ToSet
<1> QED
  BY <1>2, <1>3, <1>4

-----------------------------------------------------------------------------
(* A step that only moves chericat on, or changes the state of the target. *)
LEMMA Moved ==
    ASSUME WalkInv, NameInv,
           UNCHANGED <<linkTargetVars, sessionVars, comparts>>, tables' \subseteq tables \cup {"comparts"},
           pc' \in SessionPoints \cup {"blk", "exited"},
           tgt' \in TargetState, silent' \subseteq SilentFailure,
           pc' \in BeforeWalk => pc \in BeforeWalk,
           pc' \in BeforeRDebug => pc \in BeforeRDebug,
           pc' = "lm_io" => pc \in BeforeWalk \cup {"lm_io"},
           pc' = "lm_sub" => pc = "lm_sub",
           tgt' = tgt \/ TargetRuns \/ tgt' = "gone" \/ pc' \notin {"lm_io", "lm_sub"}
    PROVE  WalkInv' /\ NameInv'
<1>1. UNCHANGED <<linkmap, rcomp, moves, rdbg, node, sub, libs, comparts>>
  BY DEF linkTargetVars, sessionVars
<1>2. NameInv'
  BY <1>1 DEF NameInv, NameOfOwnCompart
<1>3. LinkTypes'
  BY <1>1 DEF WalkInv, LinkTypes
<1>4. linkmap \in Seq(Lib) /\ Reverse(SubSeq(linkmap, 1, 0)) = <<>>
  BY ReverseNone DEF WalkInv, LinkTypes
<1>5. pc' = "lm_io" => /\ node > 0 /\ (TargetRuns' => node = 1 /\ libs = <<>>)
                       /\ tgt' = "stopped" => libs = Reverse(SubSeq(linkmap, 1, node - 1))
  <2>1. SUFFICES ASSUME pc' = "lm_io"
                 PROVE  /\ node > 0 /\ (TargetRuns' => node = 1 /\ libs = <<>>)
                        /\ tgt' = "stopped" => libs = Reverse(SubSeq(linkmap, 1, node - 1))
    OBVIOUS
  <2>2. CASE pc \in BeforeWalk
    BY <1>4, <2>2 DEF WalkInv
  <2>3. CASE pc = "lm_io" /\ TargetRuns
    BY <1>4, <2>3 DEF WalkInv
  <2>4. CASE pc = "lm_io" /\ ~TargetRuns
    BY <1>4, <2>1, <2>4 DEF WalkInv, TargetRuns, WalkOfOneStop
  <2> QED
    BY <2>1, <2>2, <2>3, <2>4
<1>6. pc' = "lm_sub" =>
        /\ ~TargetRuns' /\ node \in 1..Len(linkmap)
        /\ sub \in 1..Len(SubComparts[linkmap[node]])
        /\ tgt' = "stopped" => libs = Reverse(SubSeq(linkmap, 1, node))
  BY DEF WalkInv, TargetRuns, WalkOfOneStop
<1>7. pc' \in BeforeWalk => node = 1 /\ libs = <<>>
  BY DEF WalkInv
<1>8. WalkOfOneStop'
  BY <1>1, <1>5, <1>6 DEF WalkOfOneStop
<1>9. WalkInv'
  BY <1>1, <1>3, <1>5, <1>6, <1>7, <1>8 DEF WalkInv
<1> QED
  BY <1>2, <1>9

LEMMA SqlSilentType ==
    ASSUME silent \subseteq SilentFailure, NEW ok, SqlSilent(ok)
    PROVE  silent' \subseteq SilentFailure /\ silent \subseteq silent'
           /\ (ok = FALSE => "sql" \in silent')
BY DEF SqlSilent, SilentFailure

LEMMA QuietSteps ==
    ASSUME WalkInv, NameInv,
           \/ GetAuxv \/ SessionAttach \/ PiodReadFails \/ CompartsEnd \/ CreateCompartsTable
           \/ /\ KernelStop \/ KernelReap \/ TargetDies \/ ExitFrom(SessionPoints)
              /\ UNCHANGED <<linkTargetVars, sessionVars, linkDbVars>>
           \/ UNCHANGED linkVars
    PROVE  /\ WalkInv' /\ NameInv'
           /\ UNCHANGED <<libs, comparts>> /\ silent \subseteq silent'
<1>0. /\ tgt \in TargetState /\ silent \subseteq SilentFailure
      /\ pc \in SessionPoints \cup {"blk", "exited"}
  BY DEF WalkInv, LinkTypes
<1> USE DEF SessionPoints, AttachPoints, BeforeWalk, BeforeRDebug
<1> DEFINE Only(from, to) == pc = from /\ pc' = to
<1>a. ASSUME UNCHANGED <<linkTargetVars, sessionVars, linkDbVars>>
      PROVE  /\ UNCHANGED <<linkTargetVars, sessionVars, comparts, libs>>
             /\ tables' \subseteq tables \cup {"comparts"}
  BY <1>a DEF linkDbVars, sessionVars
<1>1. CASE GetAuxv
  <2>1. pc = "rd_auxv" /\ pc' \in {"exited", "rd_attach"} /\ UNCHANGED <<tgt, silent>>
        /\ UNCHANGED <<linkTargetVars, sessionVars, linkDbVars>>
    BY <1>1 DEF GetAuxv
  <2> QED
    BY <1>0, <1>a, <2>1, Moved
<1>2. CASE SessionAttach
  <2>1. /\ \/ pc \in {"rd_attach", "rd_wait"} /\ pc' \in {"rd_wait", "rd_io"}
           \/ pc \in {"lm_attach", "lm_wait"} /\ pc' \in {"lm_wait", "lm_io"}
           \/ pc \in {"rc_attach", "rc_wait"} /\ pc' \in {"rc_wait", "rc_io"}
        /\ UNCHANGED <<linkTargetVars, sessionVars, linkDbVars>>
        /\ tgt' = tgt \/ (tgt = "running" /\ tgt' = "traced")
        /\ silent' \in {silent, silent \cup {"attach"}, silent \cup {"wait"}}
    BY <1>2 DEF SessionAttach, PtAttach, Waitpid
  <2>2. tgt' \in TargetState /\ silent' \subseteq SilentFailure /\ silent \subseteq silent'
        /\ (tgt' = tgt \/ TargetRuns)
    BY <1>0, <2>1 DEF TargetState, SilentFailure, TargetRuns
  <2> QED
    BY <1>a, <2>1, <2>2, Moved
<1>3. CASE PiodReadFails
  <2>1. pc \in {"rd_io", "lm_io", "lm_sub", "rc_io"} /\ pc' = "exited" /\ UNCHANGED <<tgt, silent>>
        /\ UNCHANGED <<linkTargetVars, sessionVars, linkDbVars>>
    BY <1>3 DEF PiodReadFails, ExitFrom
  <2> QED
    BY <1>0, <1>a, <2>1, Moved
<1>4. CASE CompartsEnd
  <2>1. pc = "rc_io" /\ pc' = "blk" /\ tgt' \in {tgt, "running"} /\ UNCHANGED silent
        /\ UNCHANGED <<linkTargetVars, sessionVars, linkDbVars>>
    BY <1>4 DEF CompartsEnd, PtDetach
  <2> QED
    BY <1>0, <1>a, <2>1, Moved DEF TargetState
<1>5. CASE CreateCompartsTable
  <2>1. PICK ok \in CreateOutcomes("comparts") :
            /\ tables' = IF ok THEN tables \cup {"comparts"} ELSE tables
            /\ SqlSilent(ok)
    BY <1>5 DEF CreateCompartsTable
  <2>2. /\ pc = "mk_comparts" /\ pc' = "rd_auxv" /\ UNCHANGED tgt
        /\ UNCHANGED <<linkTargetVars, sessionVars, comparts, libs>>
    BY <1>5 DEF CreateCompartsTable, sessionVars
  <2> QED
    BY <1>0, <2>1, <2>2, SqlSilentType, Moved
<1>6. CASE /\ KernelStop \/ KernelReap \/ TargetDies \/ ExitFrom(SessionPoints)
           /\ UNCHANGED <<linkTargetVars, sessionVars, linkDbVars>>
  <2>1. UNCHANGED silent /\ tgt' \in TargetState /\ (pc' = pc \/ pc' = "exited")
        /\ (tgt' = tgt \/ TargetRuns \/ tgt' = "gone" \/ pc' = "exited")
    BY <1>0, <1>6 DEF KernelStop, KernelReap, TargetDies, ExitFrom, TargetState, TargetRuns
  <2> QED
    BY <1>0, <1>6, <1>a, <2>1, Moved
<1>7. CASE UNCHANGED linkVars
  <2>1. UNCHANGED <<pc, tgt, silent>> /\ UNCHANGED <<linkTargetVars, sessionVars, linkDbVars>>
    BY <1>7 DEF linkVars, ptraceVars
  <2> QED
    BY <1>0, <1>a, <2>1, Moved
<1> QED
  BY <1>1, <1>2, <1>3, <1>4, <1>5, <1>6, <1>7

(* The target's own steps: it runs, so that the walk has not begun. *)
LEMMA LinkerSteps ==
    ASSUME WalkInv, NameInv, NEW l \in Lib, Dlopen(l) \/ GrowComparts(l) \/ Dlclose(l),
           UNCHANGED <<ptraceVars, sessionVars, linkDbVars>>
    PROVE  WalkInv' /\ NameInv'
<1>1. /\ TargetRuns /\ moves < MaxMoves /\ moves' = moves + 1
      /\ UNCHANGED <<pc, tgt, silent, rdbg, node, sub, libs, tables, comparts>>
  BY DEF Dlopen, GrowComparts, Dlclose, ptraceVars, sessionVars, linkDbVars
<1>2. linkmap' \in Seq(Lib)
  <2>1. linkmap \in Seq(Lib)
    BY DEF WalkInv, LinkTypes
  <2>2. CASE Dlclose(l)
    <3>1. PICK k \in 1..Len(linkmap) : linkmap' = RemoveAt(linkmap, k)
      BY <2>2 DEF Dlclose
    <3> QED
      BY <2>1, <3>1, RemoveAtType
  <2> QED
    BY <2>1, <2>2 DEF Dlopen, GrowComparts
<1>3. /\ rcomp' \in [size : 0..NumComparts, gen : Nat]
      /\ rcomp' = rcomp \/ rcomp'.gen = rcomp.gen + 1
  <2>1. rcomp \in [size : 0..NumComparts, gen : Nat]
    BY DEF WalkInv, LinkTypes
  <2>2. \/ rcomp' = rcomp
        \/ \E n \in 0..NumComparts : rcomp' = [size |-> n, gen |-> rcomp.gen + 1]
    <3>1. \A n \in rcomp.size + 1..NumComparts : n \in 0..NumComparts
      BY <2>1, LinkMapAssumption
    <3> QED
      BY <3>1 DEF Dlopen, GrowComparts, Dlclose
  <2> QED
    BY <2>1, <2>2
<1>4. LinkTypes'
  <2>1. moves' \in 0..MaxMoves
    BY <1>1, LinkMapAssumption DEF WalkInv, LinkTypes
  <2>2. rdbg' \in [size : 0..NumComparts, gen : Nat] /\ rdbg' = rdbg
    BY <1>1 DEF WalkInv, LinkTypes
  <2> QED
    BY <1>1, <1>2, <1>3, <2>1, <2>2 DEF WalkInv, LinkTypes
<1>5. pc # "lm_sub" /\ tgt # "stopped"
  BY <1>1 DEF WalkInv, TargetRuns
<1>6. WalkInv'
  BY <1>1, <1>4, <1>5 DEF WalkInv, WalkOfOneStop, TargetRuns
<1>7. /\ rdbg.gen \in Nat /\ rcomp.gen \in Nat
  BY DEF WalkInv, LinkTypes
<1>8. NameInv'
  BY <1>1, <1>3, <1>7 DEF NameInv, NameOfOwnCompart
<1> QED
  BY <1>6, <1>8

LEMMA RDebugSteps ==
    ASSUME WalkInv, NameInv, GetRDebug
    PROVE  WalkInv' /\ NameInv'
<1>1. /\ pc = "rd_io" /\ pc' = "lm_attach" /\ tgt' \in {tgt, "running"} /\ rdbg' = rcomp
      /\ UNCHANGED <<silent, node, sub, libs, linkmap, rcomp, moves, tables, comparts>>
  BY DEF GetRDebug, PtDetach, linkTargetVars, linkDbVars
<1>2. LinkTypes'
  BY <1>1 DEF WalkInv, LinkTypes, TargetState
<1>3. node = 1 /\ libs = <<>> /\ comparts = {}
  BY <1>1 DEF WalkInv, NameInv, BeforeWalk, BeforeRDebug
<1>4. WalkInv'
  BY <1>1, <1>2, <1>3 DEF WalkInv, WalkOfOneStop, SessionPoints, AttachPoints
<1>5. NameInv'
  BY <1>1, <1>2, <1>3 DEF NameInv, NameOfOwnCompart, LinkTypes
<1> QED
  BY <1>4, <1>5

LEMMA LinkmapEndSteps ==
    ASSUME WalkInv, NameInv, LinkmapEnd
    PROVE  WalkInv' /\ NameInv'
<1>1. /\ pc = "lm_io" /\ pc' = "rc_attach" /\ tgt' \in {tgt, "running"} /\ node' = 0
      /\ UNCHANGED <<silent, rdbg, sub, libs, linkmap, rcomp, moves, tables, comparts>>
  BY DEF LinkmapEnd, PtDetach, linkTargetVars, linkDbVars
<1>2. LinkTypes'
  BY <1>1 DEF WalkInv, LinkTypes, TargetState
<1>3. WalkInv'
  BY <1>1, <1>2 DEF WalkInv, WalkOfOneStop, SessionPoints, AttachPoints, BeforeWalk, BeforeRDebug
<1>4. NameInv'
  BY <1>1 DEF NameInv, NameOfOwnCompart, BeforeRDebug
<1> QED
  BY <1>3, <1>4

-----------------------------------------------------------------------------
(* One object of the list: it goes in front of what has been collected. *)
LEMMA EntryOfWalk ==
    ASSUME WalkInv, pc = "lm_io", tgt = "stopped", node <= Len(linkmap)
    PROVE  /\ node \in 1..Len(linkmap) /\ linkmap[node] \in Lib
           /\ AddToList(linkmap[node]) \in Seq(Lib)
           /\ AddToList(linkmap[node]) = Reverse(SubSeq(linkmap, 1, node))
           /\ ToSet(AddToList(linkmap[node])) \subseteq {linkmap[node]} \cup ToSet(libs)
<1>1. linkmap \in Seq(Lib) /\ libs \in Seq(Lib) /\ node \in Nat /\ node > 0
  BY DEF WalkInv, LinkTypes
<1>2. node \in 1..Len(linkmap) /\ linkmap[node] \in Lib
  BY <1>1
<1>3. libs = Reverse(SubSeq(linkmap, 1, node - 1))
  BY DEF WalkInv, WalkOfOneStop
<1>4. AddToList(linkmap[node]) = Reverse(SubSeq(linkmap, 1, node))
  BY <1>1, <1>2, <1>3, ReverseMore DEF AddToList
<1> DEFINE l == linkmap[node]
           new == <<l>> \o libs
<1> HIDE DEF l
<1>5. l \in Lib
  BY <1>2 DEF l
<1>6. /\ new \in Seq(Lib) /\ Len(new) = 1 + Len(libs)
      /\ \A k \in 1..1 + Len(libs) : new[k] = IF k = 1 THEN l ELSE libs[k - 1]
  BY <1>1, <1>5
<1>7. \A k \in 1..Len(new) : new[k] = l \/ \E j \in 1..Len(libs) : new[k] = libs[j]
  <2>1. Len(libs) \in Nat
    BY <1>1
  <2>2. \A k \in 1..1 + Len(libs) : k = 1 \/ k - 1 \in 1..Len(libs)
    BY <2>1
  <2> QED
    BY <1>6, <2>2
<1>8. ToSet(new) \subseteq {l} \cup ToSet(libs)
  BY <1>7 DEF ToSet
<1> QED
  BY <1>2, <1>4, <1>6, <1>8 DEF AddToList, l

LEMMA EntrySteps ==
    ASSUME WalkInv, NameInv, LinkmapEntry
    PROVE  WalkInv' /\ NameInv'
<1> DEFINE l == linkmap[node]
<1>1. /\ pc = "lm_io" /\ tgt = "stopped" /\ node <= Len(linkmap)
      /\ libs' = AddToList(linkmap[node])
      /\ UNCHANGED <<tgt, linkmap, rcomp, moves, rdbg, tables>>
  BY DEF LinkmapEntry, linkTargetVars
<1>2. PICK ok \in SqlOutcomes("comparts") :
          /\ comparts' = IF ok THEN Replace(comparts, DefaultRow(l)) ELSE comparts
          /\ SqlSilent(ok)
  BY DEF LinkmapEntry
<1>3. \/ SubComparts[l] = <<>> /\ node' = node + 1 /\ pc' = pc /\ sub' = sub
      \/ SubComparts[l] # <<>> /\ pc' = "lm_sub" /\ sub' = 1 /\ node' = node
  BY DEF LinkmapEntry
<1>4. /\ node \in 1..Len(linkmap) /\ l \in Lib /\ libs' \in Seq(Lib)
      /\ libs' = Reverse(SubSeq(linkmap, 1, node))
  BY <1>1, EntryOfWalk
<1> HIDE DEF l
<1>5. node' \in Nat /\ node' > 0 /\ sub' \in Nat /\ (node + 1) - 1 = node
  <2>1. node \in Nat /\ sub \in Nat /\ node > 0
    BY <1>1 DEF WalkInv, LinkTypes
  <2> QED
    BY <1>3, <2>1
<1>6. silent' \subseteq SilentFailure
  BY <1>2, SqlSilentType DEF WalkInv, LinkTypes
<1>7. LinkTypes'
  BY <1>1, <1>4, <1>5, <1>6 DEF WalkInv, LinkTypes
<1>8. WalkOfOneStop'
  BY <1>1, <1>3, <1>4, <1>5 DEF WalkOfOneStop
<1>9. pc' = "lm_sub" => 1 \in 1..Len(SubComparts[l])
  <2>1. SubComparts[l] \in Seq(0..NumComparts - 1)
    BY <1>4, LinkMapAssumption
  <2> QED
    BY <1>1, <1>3, <2>1
<1>10. WalkInv'
  BY <1>1, <1>3, <1>4, <1>5, <1>7, <1>8, <1>9 DEF WalkInv, SessionPoints, AttachPoints,
     BeforeWalk, BeforeRDebug, TargetRuns, l
<1>11. DefaultRow(l) \in Row /\ DefaultRow(l).name = NoName
  BY <1>4, LinkMapAssumption DEF DefaultRow, Row
<1>12. comparts' \subseteq Row /\ \A c \in comparts' : c \in comparts \/ c.name = NoName
  BY <1>2, <1>11, ReplaceRows DEF NameInv
<1>13. pc' \notin BeforeRDebug
  BY <1>1, <1>3 DEF BeforeRDebug
<1>14. NameInv'
  BY <1>1, <1>12, <1>13 DEF NameInv, NameOfOwnCompart
<1> QED
  BY <1>10, <1>14

LEMMA SubSteps ==
    ASSUME WalkInv, NameInv, SubcompartEntry
    PROVE  WalkInv' /\ NameInv'
<1> DEFINE l == linkmap[node]
           id == SubComparts[l][sub]
<1>1. /\ pc = "lm_sub" /\ tgt = "stopped"
      /\ UNCHANGED <<tgt, linkmap, rcomp, moves, rdbg, libs, tables>>
  BY DEF SubcompartEntry, linkTargetVars
<1>2. PICK ok \in SqlOutcomes("comparts") :
          /\ comparts' = IF ok THEN Replace(comparts, SubRow(l, id)) ELSE comparts
          /\ SqlSilent(ok)
  BY Zenon DEF SubcompartEntry
<1>3. \/ sub < Len(SubComparts[l]) /\ sub' = sub + 1 /\ pc' = pc /\ node' = node
      \/ pc' = "lm_io" /\ node' = node + 1 /\ sub' = sub
  BY DEF SubcompartEntry
<1>4. /\ node \in 1..Len(linkmap) /\ sub \in 1..Len(SubComparts[l])
      /\ linkmap \in Seq(Lib)
      /\ libs = Reverse(SubSeq(linkmap, 1, node))
  BY <1>1 DEF WalkInv, LinkTypes, WalkOfOneStop
<1>5. l \in Lib /\ SubComparts[l] \in Seq(0..NumComparts - 1)
  <2>1. l \in Lib
    BY <1>4
  <2> HIDE DEF l
  <2>2. SubComparts[l] \in Seq(0..NumComparts - 1)
    BY <2>1, LinkMapAssumption
  <2> QED
    BY <2>1, <2>2
<1> HIDE DEF l
<1>6. id \in 0..NumComparts - 1 /\ DefaultCompart[l] \in 0..NumComparts - 1
  <2>1. DefaultCompart[l] \in 0..NumComparts - 1
    BY <1>5, LinkMapAssumption
  <2>2. id \in 0..NumComparts - 1
    BY <1>4, <1>5, ElementOfSeq
  <2> QED
    BY <2>1, <2>2
<1> HIDE DEF id
<1>7. /\ node' \in Nat /\ node' > 0 /\ sub' \in Nat /\ (node + 1) - 1 = node
      /\ pc' = "lm_sub" => sub' \in 1..Len(SubComparts[l])
  <2>1. node \in Nat /\ sub \in Nat /\ node > 0 /\ sub > 0
    BY <1>1, <1>4 DEF WalkInv, LinkTypes
  <2>2. Len(SubComparts[l]) \in Nat /\ sub <= Len(SubComparts[l])
    BY <1>4, <1>5
  <2> QED
    BY <1>1, <1>3, <2>1, <2>2
<1>8. silent' \subseteq SilentFailure
  BY <1>2, SqlSilentType DEF WalkInv, LinkTypes
<1>9. LinkTypes'
  BY <1>1, <1>7, <1>8 DEF WalkInv, LinkTypes
<1>10. WalkOfOneStop'
  BY <1>1, <1>3, <1>4, <1>7 DEF WalkOfOneStop
<1>11. WalkInv'
  BY <1>1, <1>3, <1>4, <1>7, <1>9, <1>10 DEF WalkInv, SessionPoints, AttachPoints,
     BeforeWalk, BeforeRDebug, TargetRuns, l
<1>12. SubRow(l, id) \in Row /\ SubRow(l, id).name = SubRow(l, id).id
  BY <1>6 DEF SubRow, Row
<1>13. comparts' \subseteq Row /\ \A c \in comparts' : c \in comparts \/ c.name = c.id
  BY <1>2, <1>12, ReplaceRows DEF NameInv
<1>14. pc' \notin BeforeRDebug
  BY <1>1, <1>3 DEF BeforeRDebug
<1>15. NameInv'
  BY <1>1, <1>13, <1>14 DEF NameInv, NameOfOwnCompart
<1> QED
  BY <1>11, <1>15

(* One entry of the array: of its present allocation it is the right name. *)
LEMMA ArraySteps ==
    ASSUME WalkInv, NameInv, CompartsEntry
    PROVE  /\ WalkInv' /\ NameInv' /\ UNCHANGED libs
           /\ \/ UNCHANGED comparts /\ silent' = silent
              \/ \E name \in Nat \cup {JunkName}, ok \in BOOLEAN :
                    comparts' = (IF ok THEN Rename(comparts, node, name) ELSE comparts)
                    /\ SqlSilent(ok)
<1> DEFINE Renamed == \E name \in Nat \cup {JunkName}, ok \in BOOLEAN :
              /\ rdbg.gen = rcomp.gen => name = node
              /\ comparts' = (IF ok THEN Rename(comparts, node, name) ELSE comparts)
              /\ SqlSilent(ok)
<1>1. /\ pc = "rc_io" /\ pc' \in {"rc_io", "exited"}
      /\ UNCHANGED <<tgt, linkmap, rcomp, moves, rdbg, sub, libs, tables>>
      /\ node' \in {node, node + 1}
  BY DEF CompartsEntry, linkTargetVars
<1>2. node \in Nat
  BY DEF WalkInv, LinkTypes
<1>3. Renamed \/ (UNCHANGED comparts /\ silent' = silent)
  <2>1. CASE \E name \in IF rdbg.gen = rcomp.gen THEN {node} ELSE {node, JunkName},
                ok \in SqlOutcomes("comparts") :
                /\ comparts' = IF ok THEN Rename(comparts, node, name)
                               ELSE comparts
                /\ SqlSilent(ok)
    <3>1. SqlOutcomes("comparts") \subseteq BOOLEAN
      BY LinkMapAssumption DEF SqlOutcomes
    <3> QED
      BY <1>2, <2>1, <3>1
  <2> QED
    BY <2>1 DEF CompartsEntry
<1>4. silent' \subseteq SilentFailure
  BY <1>3, SqlSilentType DEF WalkInv, LinkTypes
<1>5. LinkTypes'
  BY <1>1, <1>2, <1>4 DEF WalkInv, LinkTypes
<1>6. WalkInv'
  BY <1>1, <1>5 DEF WalkInv, WalkOfOneStop, SessionPoints, AttachPoints, BeforeWalk, BeforeRDebug
<1>7. NameInv'
  <2>1. CASE UNCHANGED comparts
    BY <1>1, <2>1 DEF NameInv, NameOfOwnCompart, BeforeRDebug
  <2>2. ASSUME NEW name \in Nat \cup {JunkName}, rdbg.gen = rcomp.gen => name = node,
               comparts' = Rename(comparts, node, name)
        PROVE  NameInv'
    <3>1. /\ comparts' \subseteq Row
          /\ \A c \in comparts' : \E d \in comparts :
                c.id = d.id /\ c.name = IF d.id = node THEN name ELSE d.name
      BY <1>2, <2>2, RenameRows DEF NameInv
    <3>2. rdbg.gen = rcomp.gen => \A c \in comparts' : c.name \in {NoName, c.id}
      BY <2>2, <3>1 DEF NameInv, NameOfOwnCompart
    <3> QED
      BY <1>1, <3>1, <3>2 DEF NameInv, NameOfOwnCompart, BeforeRDebug
  <2> QED
    BY <1>3, <2>1, <2>2
<1> QED
  BY <1>1, <1>3, <1>6, <1>7

LEMMA NameLostStep ==
    ASSUME WalkInv, NameInv, CompartsNameLost
    PROVE  /\ WalkInv' /\ NameInv'
           /\ UNCHANGED <<libs, comparts>> /\ silent' = silent
<1>1. /\ pc = "rc_io" /\ pc' = "rc_io" /\ tgt' = "gone" /\ node' = node + 1
      /\ UNCHANGED <<silent, linkmap, rcomp, moves, rdbg, sub, libs, tables, comparts>>
  BY DEF CompartsNameLost, linkTargetVars, linkDbVars
<1>2. LinkTypes'
  BY <1>1 DEF WalkInv, LinkTypes, TargetState
<1>3. WalkInv'
  BY <1>1, <1>2 DEF WalkInv, WalkOfOneStop, SessionPoints, AttachPoints, BeforeWalk, BeforeRDebug
<1>4. NameInv'
  BY <1>1 DEF NameInv, NameOfOwnCompart, BeforeRDebug
<1> QED
  BY <1>1, <1>3, <1>4

LEMMA LinkSteps ==
    ASSUME WalkInv, NameInv, [LinkNext]_linkVars
    PROVE  WalkInv' /\ NameInv'
BY QuietSteps, LinkerSteps, RDebugSteps, EntrySteps, SubSteps, LinkmapEndSteps, ArraySteps,
   NameLostStep
   DEF LinkNext, LinkEnvironment, Sessions

-----------------------------------------------------------------------------
(* With a compartment for each object no row of one is ever replaced by    *)
(* that of another: DefaultCompart is a key.                               *)
LEMMA KeptByReplace ==
    ASSUME Separate, NEW row, NEW k \in Lib,
           \/ row.lib = k /\ row.id = DefaultCompart[k]
           \/ \A l \in Lib : row.id # DefaultCompart[l],
           comparts' = Replace(comparts, row)
    PROVE  \A l \in Lib : Recorded(l) => Recorded(l)'
<1> SUFFICES ASSUME NEW l \in Lib, Recorded(l)
             PROVE  \E c \in comparts' : c.lib = l /\ c.id = DefaultCompart[l]
  BY DEF Recorded
<1>1. PICK c \in comparts : c.lib = l /\ c.id = DefaultCompart[l]
  BY DEF Recorded
<1>2. CASE c.id # row.id
  BY <1>1, <1>2, ReplaceRows
<1>3. CASE c.id = row.id
  <2>1. row.lib = k /\ DefaultCompart[k] = DefaultCompart[l]
    BY <1>1, <1>3
  <2>2. row.lib = l /\ row.id = DefaultCompart[l]
    BY <2>1, <1>1, <1>3 DEF Separate
  <2> QED
    BY <2>2, ReplaceRows
<1> QED
  BY <1>2, <1>3

LEMMA KeptSteps ==
    ASSUME Separate, WalkInv, NameInv, KeptInv, [LinkNext]_linkVars
    PROVE  KeptInv'
<1>1. ASSUME UNCHANGED <<libs, comparts>>, silent \subseteq silent'
      PROVE  KeptInv'
  <2>1. \A l : Recorded(l)' = Recorded(l)
    BY <1>1 DEF Recorded
  <2> QED
    BY <1>1, <2>1 DEF KeptInv
<1>2. CASE LinkmapEntry
  <2>1. pc = "lm_io" /\ tgt = "stopped" /\ node <= Len(linkmap)
    BY <1>2 DEF LinkmapEntry
  <2>2. PICK l \in Lib : l = linkmap[node]
    BY <2>1, EntryOfWalk
  <2>3. /\ libs' = AddToList(l)
        /\ ToSet(libs') \subseteq {l} \cup ToSet(libs)
        /\ \E ok \in SqlOutcomes("comparts") :
              /\ comparts' = IF ok THEN Replace(comparts, DefaultRow(l)) ELSE comparts
              /\ SqlSilent(ok)
    BY <1>2, <2>1, <2>2, EntryOfWalk DEF LinkmapEntry
  <2>4. ToSet(libs) \subseteq Lib
    BY DEF WalkInv, LinkTypes, ToSet
  <2> SUFFICES ASSUME "sql" \notin silent' PROVE KeptInv'
    BY DEF KeptInv
  <2>5. comparts' = Replace(comparts, DefaultRow(l)) /\ "sql" \notin silent
    BY <2>3 DEF SqlSilent
  <2>6. \A m \in Lib : Recorded(m) => Recorded(m)'
    BY <2>3, <2>5, KeptByReplace DEF DefaultRow
  <2>7. Recorded(l)'
    BY <2>5, ReplaceRows DEF Recorded, DefaultRow
  <2>8. \A m \in ToSet(libs') : Recorded(m)'
    BY <2>3, <2>4, <2>5, <2>6, <2>7 DEF KeptInv
  <2>9. \A c \in comparts' : c.parent # NoName =>
            \E m \in Lib : c.parent = DefaultCompart[m] /\ Recorded(m)'
    <3>1. \A c \in comparts' : c = DefaultRow(l) \/ c \in comparts
      BY <2>5, ReplaceRows
    <3>2. DefaultRow(l).parent = NoName
      BY DEF DefaultRow
    <3> QED
      BY <2>5, <2>6, <3>1, <3>2 DEF KeptInv
  <2> QED
    BY <2>8, <2>9 DEF KeptInv
<1>3. CASE SubcompartEntry
  <2> DEFINE l == linkmap[node]
             id == SubComparts[l][sub]
  <2>1. UNCHANGED libs /\ pc = "lm_sub" /\ tgt = "stopped"
    BY <1>3 DEF SubcompartEntry
  <2>2. PICK ok \in SqlOutcomes("comparts") :
            /\ comparts' = IF ok THEN Replace(comparts, SubRow(l, id)) ELSE comparts
            /\ SqlSilent(ok)
    BY <1>3 DEF SubcompartEntry
  <2>3. /\ linkmap \in Seq(Lib) /\ libs \in Seq(Lib)
        /\ node \in 1..Len(linkmap) /\ sub \in 1..Len(SubComparts[l])
        /\ libs = Reverse(SubSeq(linkmap, 1, node))
    BY <2>1 DEF WalkInv, LinkTypes, WalkOfOneStop
  <2>4. l \in Lib /\ ToSet(libs) \subseteq Lib
    BY <2>3 DEF ToSet
  <2>5. l \in ToSet(libs)
    <3>1. Len(SubSeq(linkmap, 1, node)) = node /\ SubSeq(linkmap, 1, node)[node] = l
      BY <2>3
    <3>2. Len(libs) = node /\ libs[1] = l
      BY <2>3, <3>1 DEF Reverse
    <3> QED
      BY <2>3, <3>2 DEF ToSet
  <2>6. id \in ToSet(SubComparts[l])
    BY <2>3, <2>4 DEF ToSet
  <2> HIDE DEF l
  <2>7. \A m \in Lib : id # DefaultCompart[m]
    BY <2>4, <2>6 DEF Separate
  <2> HIDE DEF id
  <2> SUFFICES ASSUME "sql" \notin silent' PROVE KeptInv'
    BY DEF KeptInv
  <2>8. comparts' = Replace(comparts, SubRow(l, id)) /\ "sql" \notin silent
    BY <2>2 DEF SqlSilent
  <2>9. \A m \in Lib : Recorded(m) => Recorded(m)'
    BY <2>4, <2>7, <2>8, KeptByReplace DEF SubRow
  <2>10. \A c \in comparts' : c.parent # NoName =>
            \E m \in Lib : c.parent = DefaultCompart[m] /\ Recorded(m)'
    <3>1. \A c \in comparts' : c = SubRow(l, id) \/ c \in comparts
      BY <2>8, ReplaceRows
    <3>2. SubRow(l, id).parent = DefaultCompart[l] /\ Recorded(l)
      BY <2>5, <2>8 DEF SubRow, KeptInv
    <3> QED
      BY <2>4, <2>8, <2>9, <3>1, <3>2 DEF KeptInv
  <2> QED
    BY <2>1, <2>4, <2>8, <2>9, <2>10 DEF KeptInv
<1>4. CASE CompartsEntry
  <2>1. CASE UNCHANGED comparts /\ silent' = silent
    BY <1>1, <1>4, <2>1, ArraySteps
  <2>2. ASSUME NEW name \in Nat \cup {JunkName}, NEW ok \in BOOLEAN,
               comparts' = IF ok THEN Rename(comparts, node, name) ELSE comparts,
               SqlSilent(ok)
        PROVE  KeptInv'
    <3>1. CASE ~ok
      BY <1>1, <1>4, <2>2, <3>1, ArraySteps DEF SqlSilent
    <3>2. CASE ok
      <4>1. comparts' = Rename(comparts, node, name) /\ silent' = silent /\ libs' = libs
        BY <1>4, <2>2, <3>2, ArraySteps DEF SqlSilent
      <4>2. node \in Nat /\ comparts \subseteq Row
        BY DEF WalkInv, NameInv, LinkTypes
      <4>3. /\ \A c \in comparts' : \E d \in comparts : c.parent = d.parent
            /\ \A d \in comparts : \E c \in comparts' : c.id = d.id /\ c.lib = d.lib
        BY <2>2, <4>1, <4>2, RenameRows
      <4>4. \A m : Recorded(m) => Recorded(m)'
        BY <4>3 DEF Recorded
      <4> QED
        BY <4>1, <4>3, <4>4 DEF KeptInv
    <3> QED
      BY <3>1, <3>2
  <2> QED
    BY <1>4, <2>1, <2>2, ArraySteps
<1>5. CASE GetRDebug \/ LinkmapEnd
  BY <1>1, <1>5 DEF GetRDebug, LinkmapEnd, PtDetach, linkDbVars
<1>7. CASE CompartsNameLost
  BY <1>1, <1>7, NameLostStep
<1>6. ASSUME NEW l \in Lib, Dlopen(l) \/ GrowComparts(l) \/ Dlclose(l),
             UNCHANGED <<ptraceVars, sessionVars, linkDbVars>>
      PROVE  KeptInv'
  BY <1>1, <1>6 DEF ptraceVars, sessionVars, linkDbVars
<1> QED
  BY <1>1, <1>2, <1>3, <1>4, <1>5, <1>6, <1>7, QuietSteps
     DEF LinkNext, LinkEnvironment, Sessions

-----------------------------------------------------------------------------
LEMMA LinkHolds == LinkSpec => [](WalkInv /\ NameInv)
<1>1. WalkInv /\ NameInv /\ [LinkNext]_linkVars => (WalkInv /\ NameInv)'
  BY LinkSteps
<1> QED
  BY LinkInit0, <1>1, PTL DEF LinkSpec

LEMMA KeptHolds == Separate /\ LinkSpec => []KeptInv
<1> SUFFICES ASSUME Separate PROVE LinkSpec => []KeptInv
  OBVIOUS
<1>1. (WalkInv /\ NameInv) /\ KeptInv /\ [LinkNext]_linkVars => KeptInv'
  BY KeptSteps
<1> QED
  BY LinkInit0, <1>1, LinkHolds, PTL DEF LinkSpec

(* The places, counters, lists and rows of the sessions keep their types,  *)
(* whatever the target loads and closes between them.                      *)
THEOREM LinkTypesHold == LinkSpec => []LinkTypeOK
<1>1. WalkInv /\ NameInv => LinkTypeOK
  BY DEF WalkInv, NameInv, LinkTypeOK, Row
<1> QED
  BY <1>1, LinkHolds, PTL

(* The walk of the list sees the one state at which its session stopped    *)
(* the target: for any list, and any moves of the target before the stop.  *)
THEOREM WalkSeesOneStop == LinkSpec => []WalkOfOneStop
<1>1. WalkInv /\ NameInv => WalkOfOneStop
  BY DEF WalkInv
<1> QED
  BY <1>1, LinkHolds, PTL

(* A compartment gets a name that is not its own only when the array was   *)
(* reallocated after its address was taken: for arrays of every size.      *)
THEOREM NamesAreOwn == LinkSpec => []NameOfOwnCompart
<1>1. WalkInv /\ NameInv => NameOfOwnCompart
  BY DEF NameInv
<1> QED
  BY <1>1, LinkHolds, PTL

(* When no two objects share a compartment, every library of the list has  *)
(* its row at the end, unless a statement failed.  (The run shared_compart *)
(* shows what is lost when two do.)                                        *)
THEOREM EveryLibraryKept == Separate /\ LinkSpec => []NoLibraryLost
<1>1. KeptInv => NoLibraryLost
  BY DEF KeptInv, NoLibraryLost, Recorded
<1> QED
  BY <1>1, KeptHolds, PTL

(* When no two objects share a compartment, the row of a part never stands *)
(* in the table without that of its parent, unless a statement failed.     *)
THEOREM ParentBeforePart == Separate /\ LinkSpec => []ParentRecorded
<1>1. KeptInv => ParentRecorded
  <2>1. NoLib \notin Lib
    BY LinkMapAssumption
  <2>2. ASSUME NEW l \in Lib, Recorded(l)
        PROVE  \E d \in comparts : d.id = DefaultCompart[l] /\ d.lib # NoLib
    BY <2>1, <2>2 DEF Recorded
  <2> QED
    BY <2>2 DEF KeptInv, ParentRecorded
<1> QED
  BY <1>1, KeptHolds, PTL
==============================================================================
