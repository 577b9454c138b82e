# A formal model of chericat

chericat looks into a running CheriBSD process.  `chericat -f <db> -p <pid>`
traces the process with ptrace, finds the capabilities in its memory and writes
them, with the vm map, the ELF symbols and the compartments of the run-time
linker, to an SQLite database; `-v show lib`, `-v show comp` and `-i` read the
database and print tables.  The modules of this directory model that program:
the scan with the target that runs beside it, the kernel between them, the
database it leaves behind, and the views, which may read that database while it
is being written.  Paths below are relative to `src/src/` of the repository
unless they begin with a directory.

- `tlc -config X.cfg M` runs the checks listed under *Runs*,
- `tlapm M_proofs.tla` the proofs listed under *Proofs*.

`PROJECT.json` has, for each definition that models code, the lines it models
(`map`), the changes of the code that each property would notice (`mutants`),
and the hazards the properties are aimed at.

## 1. Inventory

| component | state | operations | interacts with |
|---|---|---|---|
| `ptrace_utils.c` | none of its own; the kernel keeps the tracing state of the target | `ptrace_attach`, `ptrace_detach`, `piod_read`, `get_string` | called by `mem_scan`, `rtld_linkmap_scan`; system calls on the target |
| `rtld_linkmap_scan.c` | the captured `r_debug`, the list `compart_data_list` | `get_r_debug`, `scan_rtld_linkmap`, `scan_r_comparts` | reads the linker's data in the target; writes the table `comparts` |
| `mem_scan.c` | the vm map, `seen_kivp`, `ssect`, the rows for `vm` | `scan_mem` | calls everything above and below, block by block; writes `vm` |
| `cap_capture.c` | the tag buffer of a page, the rows for `cap_info` | `get_tags`, `get_capability` | PT_IO on the target; writes `cap_info` |
| `elf_utils.c` | the walk over sections and symbols, a batch of rows | `read_elf`, `get_elf_info` | reads files; writes `elf_sym` |
| `db_process.c` | the database; the arrays of the views | `create_*`, `sql_query_exec`; `get_all_*_info` with its COUNT, SELECT and callbacks | called by the scan and by the views; other processes on the same file |
| `vm_caps_view.c`, `comp_caps_view.c` | the counts of a row | the view commands | read two tables each |
| `caps_syms_view.c` | the index of its search | the symbol view: two searches for each capability | reads `cap_info` and `elf_sym` |
| `chericat.c` | the open database, the options | `main`, the signal handler `terminate_chericat` | calls `scan_mem` and then the views, on one handle |
| `common.c` | the debug level | printing, the last component of a path | none |
| `python/full_graph.py` | the nodes and edges, the width under way | `gen_full_graph` | reads `vm` and `cap_info` |
| the rest of `python/`, `jupyter_notebook/` | | other graphs, interactive examples | read the database |

What is hard in this program:

- **The target runs.**  chericat attaches and detaches once for each of three
  reads of the linker's data, and once for each block of the vm map.  In
  between the target maps, unmaps, loads libraries and stores capabilities.
  What was read earlier (the vm map, the address of the linker's array of
  compartments) may be stale when it is used.
- **Failures are printed and ignored.**  `ptrace_attach`, `ptrace_detach`,
  `get_tags`, `get_capability` and `sql_query_exec` report to stderr and their
  callers go on; others (`piod_read`, `read_elf`, procstat) exit while the
  target may be attached.
- **No transaction spans the scan.**  Every statement commits by itself, the
  rows of `vm` come last, a scan can be interrupted by a signal, and a second
  scan goes into the same tables.
- **The views read in two steps.**  COUNT, then SELECT into an array of that
  size, table after table, without a transaction or a busy handler.
- **Boundaries.**  Tag bits to addresses, the growth of `get_string`'s buffer
  and of `seen_kivp`, the batches of symbols, the range tests of the views, the
  graph's comparison of addresses as strings.
- **One call does several things.**  The options come in any order and are read
  one by one; `-p`, `-v` and `-i` then run in a fixed order on one handle, which
  the first of them opens, with globals that outlive each of them.  A signal
  runs a handler that closes the handle wherever it arrives.

What makes the components right, in the terms of the properties below: a scan
records what was in memory when its block's stop took effect (`CapturedAtStop`,
`ImplementsCapture`), it never leaves the target stopped (`HeldIsReleased`,
`ReleasedBetweenBlocks`), what one table names is in the other (`LabelsJoin`,
`CompartsListed`, `ParentRecorded`), an interrupted scan is recognizable (`VmRowsLast`), the walks
see one state of what they walk (`WalkOfOneStop`), a view that races a scan
shows whole blocks (`BlocksShownWhole`), a call does what its whole line says or
nothing (`WholeLineDecides`) and shows what it has scanned (`PrivateViewIsWhole`),
and the pure parts compute what they say (`CollectedIsFound`, `ReturnsString`,
`SymbolsStoredOnce`, `ClassesAddUp`, `TotalsOfTheMap`, `NamesOfAddresses`,
`EdgesCountPointers`).

## 2. Modules

```
            TracedCapture  (abstract)
                 ^  implemented by
Ptrace <- LinkMapScan <- ScanMem -> TagBuffer <- TagScan     get_tags, char by char
                            :
                            :  get_elf_info as one step  ... ElfSyms     symbol by symbol
                            :  reads of a string         ... GetString   read by read
                            :  its statements in order   ... TableRead <- Chericat
                                                             a view       a whole call

        CapsSymsView -> CapsView <- FullGraph         readers of a finished database
```

An arrow is EXTENDS; the dotted lines join a step that `ScanMem` takes at once
with the module in which that step is taken apart.

**Ptrace** (`ptrace_utils.c` 62-96, `chericat.c` 95-102).  `tgt` is the target as
ptrace sees it: running, traced (PT_ATTACH accepted, the stop not yet there),
stopped, gone.  `pc` is where chericat is.  `PtAttach`, `Waitpid`, `PtDetach`
take the places they lead from and to, so every caller uses the same actions;
each has the failures of the code, which end up in the ghost variable `silent`
because the callers cannot see them.  `KernelStop`, `KernelReap` and `TargetDies`
are the kernel.

**LinkMapScan** (`rtld_linkmap_scan.c`).  The three sessions: `GetRDebug`;
`LinkmapEntry` and `SubcompartEntry`, one for each turn of the two loops of
`scan_rtld_linkmap`; `CompartsEntry`, one for each turn of `scan_r_comparts`, and
`CompartsNameLost`, a turn in which the target is killed behind `piod_read`, so that
`get_string` has no name for the entry and the loop goes on.
The linker's list is `linkmap`, its array `rcomp` (a size and a generation, which
changes when the array is reallocated).  `Replace` is INSERT OR REPLACE on the
primary key, `Rename` is the UPDATE.  The target's `Dlopen` and `Dlclose` run
whenever the target does, and `GrowComparts` is the first half of a `dlopen`: the
stop of a session may come when the array has grown for an object that is not yet
in the list, which `r_state` of `r_debug`, not looked at, would tell.  It has a specification of its own (`LinkSpec`), and
`ScanMem` continues it at `pc = "blk"`.

**TagBuffer** has the arithmetic of `get_tags`: `TagChar`, `Examined` (the test
against `'0'`), `TagAddress`, and `FoundTags`, what the two loops come to.
**TagScan** is the loop itself, one action per char.  `CollectedIsFound` joins
them, so that `ScanMem` may use `FoundTags` as one step.

**ScanMem** (`mem_scan.c`, with `cap_capture.c` and the calls of `elf_utils.c`) is
the core.  The vm map is read once (`GetVmMap`) into `vmmap`; `i` is the index of
the block loop, `pg` of the page loop, `seen`, `ssect` and `values` are the
code's arrays.  Each block is `ParseElf` (if its path is new), `LabelBlock`,
`BlockAttach`, then `GetTags` and `GetCapabilities` for each page, `BlockDetach`;
after the last block `InsertVm` and one `UpdateVm` for each file.  `Target` is the
target's memory: mappings come and go with their reservation, capabilities are
stored and overwritten.  `Killed` is the end of the target or a signal to
chericat at any point, `RunAgain` a later scan into the same database.
`stopmem`, a ghost, is a page as it was when its block's stop took effect.

Addresses are abstract.  A block is an index into `Region`, in address order; a
page is a block and a number; a capability is a granule of a page.  The mapping
of a library is one action with the change of the linker's list.

**TracedCapture** is the promise without the mechanism: records are only added,
only while the process is held or gone, and are of what is in its memory, or are
junk once it is gone.  `ImplementsCapture` maps ScanMem to it.

**ElfSyms** (`elf_utils.c` 148-298): sections, symbols, batches, the INSERT behind
the loop with its pointer that may never have been set.

**GetString** (`ptrace_utils.c` 198-262): the reads up to the end of the page, the
growth to the limit, the cut.

**TableRead** (`db_process.c`, the readers): a view's `TableExists`, `CountRows`,
`SelectRows`, `RowCallback`, `RowsEnd` for one table after the other, beside a
writer whose statements are those of `ScanMem` in their order.  `Selected` is the
WHERE of the statement: everything, or, for the capabilities of `-i`, the rows of
the files in `Library` (`LIKE '%lib%'`).  A row stands for its key: an UPDATE is a
statement that takes its locks and adds no row, and so is INSERT OR REPLACE for a
row that is there.  SQLite is external: a reader holds
SHARED while its statement runs, a commit needs the file for itself, and nobody
waits because no busy handler is set.

**Chericat** (`chericat.c`) is one call, and extends TableRead by `main`:
`ParseOption` for each turn of the `getopt_long` loop with its exits,
`CheckCommand` behind it, then `-p`, `-v` and `-i` in this order (`NotSelected`
when the option was not given).  `OpenDb` is the `if (db == NULL)` in front of
each; the database is the file of `-f`, which another scan may be writing, or
private memory.  The scan appears as its statements (`ScanStatement`), each of
which may fail, and may end in an `err` at any point (`ScanExits`); the views are
`StartView`, the reader of TableRead, `ViewReturns` and `ViewExits`.  `Signal` is
`terminate_chericat` from anywhere behind the installation of the handlers, also
from inside itself: it closes the handle if SQLite lets it, and may hang on a lock
that the interrupted code holds.  `asked` is a ghost, the line as its user means
it.

**CapsView** (`vm_caps_view.c`, `comp_caps_view.c`): the range tests and the
classes of permissions.

**CapsSymsView** (`caps_syms_view.c`): the two inner loops over the symbols, turn
by turn with their shared index, for each capability; `SymAddr` is the address
that `elf_utils.c` stores for a symbol, `symCount` may be -1.

**FullGraph** (`python/full_graph.py`): the loops over labels, capabilities and
blocks, the widths of the edges carried through them, and the comparison of
addresses as strings of digits (`AtMost`, in a small radix).  Which rows of `vm` the
LIKE of a label selects is a constant, `Matches`: any relation that has a label
match itself, so that a path may be contained in another one.  A block that is not
selected is passed over.

Mutants are operators that stand beside the definition they change and are used
by nothing else; each is what a plausible slip in that place of the code would
be.

## 3. Runs

| run | module, configuration | distinct states |
|---|---|---|
| `scan_interleaving` | MCScanMem, MCScanMem.cfg | 434,332 |
| `scan_faults` | MCScanMem, MCScanFaults.cfg | 429,250 |
| `linkmap_sessions` | MCLinkMapScan, MCLinkMapScan.cfg | 54,584 |
| `tags` | MCTagScan, MCTagScan.cfg | 458,748 |
| `one_call` | MCChericat, MCChericat.cfg | 1,124,050 |
| `database_readers` | MCCapsView, MCCapsView.cfg | 5,522,324 |
| `get_string` | MCGetString, MCGetString.cfg | 11,606 |
| `elf_syms` | MCElfSyms, MCElfSyms.cfg | 106,742 |

**scan_interleaving.**  Two scans of a program with a text block, two pages of data
without a path, a library that can come and go, and a guard; two steps of the
target at any time it runs; death of the target and signals to chericat at any
point.  It shows that a row is of the memory at its block's stop
(`CapturedAtStop`) although the target may write up to the stop, that a block
unmapped since the map was read loses rows only as a recorded failure, that junk
rows need a killed target, that `seen_kivp` and `ssect` stay in bounds
(`SeenInBounds`; the capacity begins at 1 so that it must grow), that every
compartment id in `vm` is one that `show comp` lists, those in the rows of the first
scan still after the second (`CompartsListed`), that a library's block never gets
the program's compartment, even if the program's path begins the library's
(`NotTheProgram`), that scans end, and that the scan implements `TracedCapture`.
Two moves are enough for each hazard listed: one to invalidate
what was read and one that races the next stop; two blocks with capabilities
and two pages are the least in which one block's stop is another's running
time.  Two granules that share a char make the page whose char is 0x30 one of
the states.

**scan_faults.**  One scan, one move, every attach, waitpid, statement and file may
fail, and so may the target.  With all of them the labels still join, the rows of
`vm` still come last and all at once, the only way to leave the target stopped
between blocks is a failed waitpid (`ReleasedBetweenBlocks`), and then too the
target is let go some time (`HeldIsReleased`): by the detach of a later block, or by
the kernel when chericat ends.  In this bound the first block has a file; the case
of a first block without one, for which `ssect[-1]` is read, is in `LabelsAreOne`,
the theorem, for every map.

**linkmap_sessions.**  Three moves (dlopen, the first half of one, dlclose) around
three sessions, and every failure but that of waitpid: with it `SessionsEnd` would
rest on a call that must fail some time, which nothing promises (`scan_faults` has
failed waits in the sessions too).  A program, a library with a sub-compartment, a
library that may be loaded and closed, each in a compartment of its own.

**tags, get_string.**  Exhaustive over all pages of two tag chars (65,536), and over
every position of a string in a page of 4 bytes, every length, every end of the
mapping with a limit (6) that is no multiple of the page.

**one_call.**  Every line of at most two options, good or bad, with every command, and
five longer ones; up to two signals, so that one meets the handler of the other;
the call's own scan of eight statements; a scan of nine statements, an UPDATE and a
row that is replaced among them, that another call makes into the same file, which
holds a block of an earlier one.  Every
statement and `sqlite3_open` may fail.  It shows that nothing is done before the
whole line has been read and then what the line asks for, whatever its order
(`WholeLineDecides`); that SQLite never gets a handle that is not open, and is
asked to close one twice only when a signal meets a call that is terminating
(`ClosedOnce`); that a view of private memory has all rows of the scan before it
(`PrivateViewIsWhole`); that a view beside the other scan shows a block with all its
capabilities and a capability with all its symbols (`BlocksShownWhole`,
`SymbolsShown`: the order in which a view reads its tables is the reverse of that in
which a scan stores them); that an array is too short only if a commit fell
between its COUNT and its SELECT (`OverrunOnlyByCommit`), never because of what
another view of the same call has left; and that the call ends (`ChericatEnds`).

**database_readers.**  The readers of a finished database over all databases with up to
two blocks and two capabilities, at addresses inside, between and at the ends of
the ranges.  `TotalsOfTheMap` relates the lines of one view: over the blocks of one
scan the TOTALs add up to the capabilities in them and, once more, those at the
first address behind a block, so that the DENSITYs can exceed 100 %.  For the symbol
view, up to three symbols of two files, two of which may lie at one address, one a
function with its lowest bit set, and the case that they could not be read.  For
the graph, a radix of 3, so that addresses of one and of two digits occur, and the
labels `libz.so.1`, its `.plt`, `libz.so.10`, which contains the first, `libm.so.5`,
which differs from the first only in what is cut off, and `Stack`.
`EdgesCountPointers` bounds the width of an edge from both sides: by the pairs of a
capability and a selected block that are as long in digits and inside, and by those
that are not as long and outside; where all addresses have one length the two
bounds are the same number.

**elf_syms.**  Files with both tables in either order, one or none, up to four
symbols each with or without a name, a batch of 3 so that a table ends in the
middle of a batch, at its end, and just behind.

Four runs are expected to fail, each a disagreement of the code with what the
repository says:

| run | what the code does |
|---|---|
| `scan_snapshot` | "the capabilities created at that snapshot" (README.md:8): the rows of a scan in which nothing failed need not be of one instant, since the target runs between blocks: a store to a block already scanned and a later one to the next block, before its stop, and only the second is recorded. |
| `linkmap_shared` | "the list of mapped libraries and their corresponding compart_id": two libraries in one compartment share a primary key, and the first loses its row. |
| `all_tags` | "find all the marked tags": a char of the tag buffer equal to `'0'` (0x30: granules 4 and 5 of eight) is skipped. |
| `array_holds` | the count is "the size of the struct array for holding all the vm entries": a statement that a scan commits between COUNT and SELECT makes the SELECT deliver rows behind the array. |

More disagreements are visible in the modules and have no run of their own.

- `vm_caps_view` counts a capability at the first address behind a block as the
  block's (`Within`), where README.md:23 says "Total number of capabilities found in
  this vm block".  `TotalsOfTheMap` says what that adds to the totals of a scan.
- `full_graph.py` asks for the blocks of a label with `LIKE '%label%'` (line 52), so a
  node is also given the capabilities that point into the blocks of any path that
  contains its own, as `libz.so.10` does `libz.so.1`.
- `CompartId` compares as many characters as the object's path has, so
  `libz.so.10` can be given the compartment of `libz.so.1`, where
  rtld_linkmap_scan.c:259 speaks of the full path.
- `Cut`: python/full_graph.py:85 says "Also remove the appended (.bss/got/plt) and
  compare"; the last six characters are removed from every path, with a suffix or
  without, so `libc.so.7` and `libm.so.5` of one directory count as the same and no
  edge is drawn between them.
- Two addresses with different numbers of digits are compared as strings
  (`AtMost`); `EdgesCountPointers` says that nothing else than these can be counted
  wrongly.

### Bounds

`MaxMoves` bounds the target's own steps, `MaxScans` the scans, `MaxSignals` the
signals of a call, `MaxCount` the count an unset pointer may yield, `MaxLimit` the
argument of `get_string`, `NumRows` and `NumCaps` the databases of `CapsView`,
`NumSyms` those of `CapsSymsView`, `NumBlocks` and `NumPointers` those of
`FullGraph`.  Everything else is finite by the constants: the blocks, the
libraries, the statements, the lines.  Deadlock is not checked: all the programs
end.

### Fairness

`ScanMem` and `Sessions` are weakly fair: chericat is a process that keeps being
scheduled, and each of its steps is a call that returns, except `waitpid`, which
is enabled only by the stop or the end of the target.  The kernel is weakly fair:
a stop that was requested is delivered, and what a tracer leaves behind is
released or killed.  Nothing is assumed of the target, of signals, of a second
scan, nor of the writer in `TableRead`: a view ends even if the writer stands
still in the middle of its commit, because a locked file is an error and not a
wait (`ChericatEnds`).  `Main` of `Chericat` and `GetString` are weakly fair for the
same reason as the scan; signals are not, and a signal handler that waits for a
lock of the code it interrupted (`hung`) is given up by `ChericatEnds`.

## 4. Proofs

TLAPS checks these for every value of the constants that the named assumptions
allow (`PtraceAssumption`, `LinkMapAssumption`, `ScanAssumption`,
`TagScanAssumption`, `GetStringAssumption`, `TableReadAssumption`,
`ChericatAssumption`, `ElfSymsAssumption`, `CapsViewAssumption`,
`CapsSymsViewAssumption`, `FullGraphAssumption`; they say what kind of value a
constant is and that the initial list has the program first and nowhere else;
that the statements are finitely many, as is what each of them and the database at
the beginning hold; that a label matches itself, and that `"none"`, which marks a
node without a label, is no label).  `ScanOrderAssumption` says more: the statements of a scan come in an order
in which what belongs to a row precedes it, and no row of one scan belongs to a
row of another (a row stands for the block, or the file, as one scan saw it).
`PartsStoredFirst` proves the first half of `ScanMem`; TLC evaluates all of them on
every run.

- **ScanMem_proofs**, `TypeCorrect`: `Spec => []TypeOK`.  TypeOK is not inductive:
  that `i` stays within the map needs that the places inside the loop are only
  reached with `i <= Len(vmmap)`, and that the list of objects has an entry for
  `node` needs where the walk of the link map can be.  The invariant is `TypeInv`,
  that is `TypeOK /\ ControlInv`.  One lemma per action; steps that leave a part
  alone cite a lemma saying that the part depends on nothing else.
  `Released`: `Spec => []ReleasedBetweenBlocks`, from
  `HeldInv`, which says for each place of the program in which states the target
  can be unless a waitpid has failed.  `CaptureRefined`: `Spec =>
  Capture!CaptureSpec`.  Every action of ScanMem is a step of TracedCapture or a
  stutter; the one that records, `GetCapabilities`, needs that the tags it holds
  are of the page as it is now (`tags \subseteq mem[...]` while the target is
  stopped), which is why reading the tags and reading the capabilities must not
  be separated by a detach.
- **ScanMemRows_proofs**, the invariants of what the scan puts together.
  `RowsAreMark`: `Spec => []VmRowsLast`, from `ValuesInv` (the k-th row of
  `values` is of the k-th block, and at each place there are as many as blocks
  passed) and `VmInv` (before `InsertVm` the table has rows of earlier scans
  only).  `JunkMeansKilled`: `Spec => []JunkOnlyWhenKilled`, from `CapsInv`
  (capabilities are read from a stopped target or one that is gone) and
  `GoneForGood`.  `SeenFits`: `Spec => []SeenInBounds`; that special sections
  never outnumber blocks follows from `SeenInv`, by which a block is parsed for
  at most once before the index moves on.
  `CompartsAreKnown`: `Spec => []CompartsListed`: the rows of every scan when no
  statement can fail, and whatever fails those of this scan as long as none of its
  statements has (`silent` speaks of the present scan, and a statement that failed in
  an earlier one left its vm rows without their compartment).  It comes from
  `KnownInv`: statements replace and rename the rows of
  comparts but never lose an id, an object enters the list together with its row,
  and a block's compartment is that of an object of the list; `TablesInv` says that
  the tables are there before their rows.  `OwnCompartment`: `Spec =>
  []NotTheProgram`, from `ListInv`, by which the program is the first of the
  linker's list and of no other place, whatever is loaded and closed, so that it is
  the last of chericat's, and `OwnInv`, by which the comparison of a listed path
  stops at the path's own entry or before it.
  `CaptureAtStop`: `Spec => []CapturedAtStop`.  `StopInv`
  adds: the map has no block twice, so that the current block is none of those
  finished (`OrderInv`); while the target is stopped, the memory of the blocks
  not finished is what it was at the stop (`FrozenInv`); the rows of this scan
  are of finished blocks or of the current one (`RowsInv`); and of the current
  block the pages before `pg` are complete unless it is lossy, while before the
  stop it has no rows at all (`PageInv`).  The last part is what makes a stop that
  arrives late, after a failed `waitpid`, harmless to the property: the pages
  tried before it have already made the block lossy.
  `LabelsAreOne`: `Spec => []LabelsJoin`, from `LabelInv` (what the rows of this scan
  in cap_info and vm are labelled is what `values` says of their block, through
  every UPDATE) and `OrderInv`, without which two entries of `values` could be of
  one block.
  `PartsStoredFirst`: `Spec => PartsFirst`, an action property: no capability is
  stored behind the row of its block (`VmInv`), and no symbol behind a capability
  labelled with the symbol's file.  The second needs `LabelInv` and `SourceInv`, by
  which a label is a path that has been parsed or a kind of block, so that a file
  that is parsed now has no capabilities yet.  This is what `Chericat` assumes of a
  scan.
- **TagScan_proofs**: `TagScanCollects`, `TagScanSound`, `TagScanMisses`, for every
  length of the buffer: by the invariant that after `k` chars the addresses are
  those of `FoundTags` over the first `k`.
- **GetString_proofs**: `ReadsStayInBuffer`, `AlwaysString`, `NullMeansUnmapped`, for
  every page size and limit.  `BufferInv` relates offset, size and total size at
  each place, `PageInv` says that a read without `max` ends no later than the end
  of a page.

- **LinkMapScan_proofs**, of `LinkSpec`.  `LinkTypesHold` and `WalkSeesOneStop` come
  from `WalkInv`: while the target runs, the walk has not begun (`node = 1`, `libs`
  empty), also when a failed `waitpid` has let chericat into the loop early; so the
  list changes only under a walk of nothing, and each turn adds one object to the
  reverse of the part walked (`ReverseMore`).  `NamesAreOwn` comes from `NameInv`:
  there are no rows before the address of the array is taken, and its generation
  only grows, so that once it is stale it stays stale.  `EveryLibraryKept` and
  `ParentBeforePart` have the hypothesis `Separate`, that no object has the
  compartment of another object nor of its parts: then DefaultCompart is a key and
  INSERT OR REPLACE takes away no row but the one it puts back (`KeptInv`).  The
  run `linkmap_shared` shows that the hypothesis is needed.
- **Chericat_proofs**, of the whole call beside the other scan.  `LineDecides`: while
  options are read, `ToCome` relates what has been selected and what is still to
  be read with what the line asks for; behind `CheckCommand` it has become
  `Settled`, which nothing changes.  `HandleClosedOnce` and part of
  `ChericatTypes`: `MainInv`, which says for each place what has been opened.
  `OverrunNeedsCommit`: `CountInv` says that the rows a SELECT has still to deliver
  and those in its array are together as many as the COUNT gave, unless a commit
  came between or the COUNT had failed, and that the arrays of the tables still to
  be read are empty.  `PrivateViewWhole`: `PrivInv`, that private memory has no
  other writer, that without `-p` it has no tables and a view ends at once, and
  that every table behind the present one has been read to its end.
  `BlocksWhole` and `SymbolsWhole`, `Spec => []BlocksShownWhole` and `Spec =>
  []SymbolsShown`, are one argument for two pairs of tables, a block with its
  capabilities and a capability with the symbols of its file.  `ComingInv`: once a
  row is stored, or read, no statement is to come, of either scan, that stores
  something which belongs to it.  `PartsInv`: so what belongs to a row in the array
  has been read or is among the rows that the SELECT on the second table has still
  to deliver.  Lost statements only make both sets smaller.  `ViewsInv` says which
  views there are, and that of the two only the symbol view goes on when a SELECT
  fails, which is why `SymbolsShown` excludes it.
- **ElfSyms_proofs**, of `SymSpec`.  `StoredOnce` and `CrashNeedsNoSymbols` come from
  `SymInv`: the sections behind the present one are untouched (`UntouchedInv`), and
  the symbols pending, those of each INSERT and those lost are disjoint and together
  all that the walk has passed (`OnceInv`).  `InsertBound` comes from `BoundInv`: where
  the symbols at multiples of the batch have names, at most `Batch - 1` symbols are
  pending, and inside a table at most as many as its last index is modulo the batch
  (what .dynsym has left is inserted with the first symbol of .symtab); that the
  remainder goes up by one or to zero is `NextRemainder`.
- **Views_proofs**, of the readers of a finished database, one specification each
  (`ViewSpec`, `SymsSpec`, `GraphSpec`).  `CountsAddUp` comes from
  `ViewInv`, that each line is the counts of its own row, and the cardinalities of
  disjoint sets (`CardOfDisjoint`).  `NamesAreRight` comes from `NamesInv`: none of the
  symbols in front of the shared index is at the address that is looked for, in
  either search.  `EdgesAreCounts` comes from `GraphInv`: a capability whose width is no
  longer the first one has its edge (`WidthInv`), and the width of every edge counts
  the pairs of a capability and a block that have been passed (`EdgesInv`).  There the
  addresses are compared as strings; `StringsInOrder` shows that strings of the same
  length are ordered as the numbers they stand for, so that the pairs counted lie
  between the sure and the possible ones (`CountedIsBetween`).  `Digits` is a recursive function over the addresses: that it is
  defined, and what its last digit and its length are (`DigitsOf`, `DigitsInOrder`), is
  proved by a least counterexample among the numbers, since the induction theorems
  of the library cannot be instantiated.

With these, every safety invariant, action property and refinement that a run
checks is a theorem, but for one.  Only model-checked are `TotalsOfTheMap`, whose sum
over the rows would need induction, and the liveness properties `ScanEnds`,
`HeldIsReleased`, `SessionsEnd`, `StringEnds` and `ChericatEnds`: WF and ENABLED are
out of reach of the prover.  The four runs that find a violation need no proof.

## 5. What is abstracted, and what is left out

- Reads within one stop are one step where nothing but the target could come in
  between and the target is stopped: program headers, dynamic table and
  `r_debug` in `GetRDebug`; an object's entry and its path in `LinkmapEntry`.
  `PiodReadFails` is the exit when the target was killed, at any of them.
- `ParseElf` stores a file's symbols in one step, as any part of `SymBatch` when
  statements may fail.  A signal in the middle of it leaves a part too; ElfSyms
  has that case.
- `ssect_captured` is a variable of the loop's body that is never initialized.
  The model takes it that the fields a section fills are still there for the
  later sections (the same stack slot), and that those no section fills have
  any value.
- A section lies in one block or in none of those that are mapped.
- The vm map is not empty; a process has at least the program's own block.
- `malloc` failures other than those of `get_string`, debug output and layout
  are left out; of the functions nobody calls (`read_data`, `get_lwps_list`,
  `read_lwpinfo`, `begin_transaction`, `commit_transaction`) there is no model.
- A stop in the middle of a change of the linker's list itself (half a node) is
  not modelled; that the array has grown and the list has not is (`GrowComparts`).
- SQLite, the kernel and the linker are modelled from how the code uses them.
- Not modelled: the other graphs and the notebooks.  `comparts_graph.py` has the
  loops of `full_graph.py` on another table, and
  `cap_graph.show_caps_between_two_libs` calls `gen_node` with three of its four
  arguments, so that it raises for every database; drawing, layout and the
  command line of `chericat_graphs.py` keep no state.  A label that is drawn
  specially and has no row in `vm` makes `full_graph.py` raise; `FullGraph` ends
  there (`raised`).  `common.c` prints.  The tests are read for what they say of
  the code.

## 6. Plan

In the order of importance; all seven are done.

1. Ptrace, LinkMapScan, ScanMem, TracedCapture: the scan and its target.
2. TagBuffer, TagScan, GetString: the pure parts, with their proofs.
3. TableRead, ElfSyms: the database beside a scan, and the symbols.
4. Proofs about ScanMem: types, release, refinement, rows, junk, bounds of the
   list of paths, compartments, labels, capture at the stop.
5. Chericat: `main`, its options and signals, a scan and views in one call;
   CapsView, CapsSymsView, FullGraph: the readers of a finished database.
6. Proofs about LinkMapScan and about Chericat.
7. Proofs about ElfSyms and about the readers: the views, the symbol view and the
   graph; `BlocksShownWhole` and `SymbolsShown`, with the order of a scan's statements
   proved of ScanMem.

Left: the liveness properties stay with TLC.  What could still be proved is that
TagBuffer's arithmetic agrees with the bits of the buffer for every width, and that
the statements of `ScanMem` refine those of a writer in TableRead.
