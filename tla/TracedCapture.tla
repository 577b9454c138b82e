--------------------------- MODULE TracedCapture ---------------------------
(***************************************************************************)
(* What capturing the memory of a live process promises, whatever the      *)
(* order of the blocks and the way the rows are stored: a record is made   *)
(* only of what is in the memory of the process, while the process is held *)
(* and cannot change it.  A process may die at any time, held or not; only *)
(* from then on may a record be junk.                                      *)
(***************************************************************************)
CONSTANT Place   \* the places of memory that may hold a capability

VARIABLES
    alive,   \* the process exists
    held,    \* the process is stopped under the capturing tool
    memory,  \* the places that hold a capability
    records  \* what has been recorded: [place, junk]

captureVars == <<alive, held, memory, records>>

CaptureInit ==
    /\ alive = TRUE /\ held = FALSE
    /\ memory \in SUBSET Place
    /\ records = {}

(* The process changes its memory. *)
Execute ==
    /\ alive /\ ~held
    /\ memory' \in SUBSET Place
    /\ UNCHANGED <<alive, held, records>>

Hold ==
    /\ alive /\ ~held /\ held' = TRUE
    /\ UNCHANGED <<alive, memory, records>>

Release ==
    /\ held /\ held' = FALSE
    /\ UNCHANGED <<alive, memory, records>>

Die ==
    /\ alive /\ alive' = FALSE /\ held' = FALSE
    /\ UNCHANGED <<memory, records>>

(* Records are added, never taken away. *)
Record ==
    /\ held \/ ~alive
    /\ records \subseteq records'
    /\ \A r \in records' \ records :
          IF r.junk THEN ~alive ELSE r.place \in memory
    /\ UNCHANGED <<alive, held, memory>>

CaptureNext == Execute \/ Hold \/ Release \/ Die \/ Record

CaptureSpec == CaptureInit /\ [][CaptureNext]_captureVars
=============================================================================
