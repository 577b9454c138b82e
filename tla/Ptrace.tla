------------------------------- MODULE Ptrace -------------------------------
(***************************************************************************)
(* The tracing layer of chericat (ptrace_utils.c) and the kernel behind    *)
(* it.  `tgt' is the target process, `pc' the place chericat has reached.  *)
(* The actions take the places they lead from and to, so that every caller *)
(* of ptrace_attach and ptrace_detach uses the same ones.                  *)
(*                                                                         *)
(*   running   untraced, executing                                         *)
(*   traced    PT_ATTACH accepted, still executing until the stop arrives  *)
(*   stopped   stopped under chericat: PT_IO works                         *)
(*   gone      exited or killed; a stopped process can still be killed     *)
(***************************************************************************)
EXTENDS Naturals

CONSTANTS
    AttachMayFail,   \* PT_ATTACH may fail on a live target (privileges, EBUSY)
    WaitMayFail,     \* waitpid may return -1
    TargetMayDie     \* the target may exit or be killed at any time

ASSUME PtraceAssumption ==
    /\ AttachMayFail \in BOOLEAN
    /\ WaitMayFail \in BOOLEAN
    /\ TargetMayDie \in BOOLEAN

VARIABLES
    pc,       \* where chericat is
    tgt,      \* the state of the target process
    silent    \* ghost: the kinds of failure this scan has printed and ignored

ptraceVars == <<pc, tgt, silent>>

TargetState == {"running", "traced", "stopped", "gone"}
SilentFailure == {"attach", "wait", "sql", "io"}

(* The target executes its own instructions. *)
TargetRuns == tgt \in {"running", "traced"}

-----------------------------------------------------------------------------
(* ptrace(PT_ATTACH): refused when the target is gone or already traced.   *)
(* On failure ptrace_attach prints a message and returns to a caller that  *)
(* cannot tell: it goes on as if attached.                                 *)
PtAttach(from, wait, return) ==
    /\ pc = from
    /\ \/ /\ tgt = "running"
          /\ tgt' = "traced" /\ pc' = wait /\ UNCHANGED silent
       \/ /\ tgt # "running" \/ AttachMayFail
          /\ pc' = return /\ silent' = silent \cup {"attach"} /\ UNCHANGED tgt

WaitForStopOnly(wait, return) ==
    /\ pc = wait
    /\ \/ tgt = "stopped" /\ UNCHANGED silent
       \/ WaitMayFail /\ silent' = silent \cup {"wait"}
    /\ pc' = return
    /\ UNCHANGED tgt

(* waitpid blocks until the tracee stops or is gone; the status it returns *)
(* is not looked at.  When it fails, ptrace_attach returns with the target *)
(* traced but perhaps not yet stopped.                                     *)
Waitpid(wait, return) ==
    /\ pc = wait
    /\ \/ tgt \in {"stopped", "gone"} /\ UNCHANGED silent
       \/ WaitMayFail /\ silent' = silent \cup {"wait"}
    /\ pc' = return
    /\ UNCHANGED tgt

(* ptrace_detach: PT_DETACH needs a stopped tracee; a failure is printed   *)
(* and ignored.                                                            *)
PtDetach(from, return) ==
    /\ pc = from
    /\ pc' = return
    /\ tgt' = IF tgt = "stopped" THEN "running" ELSE tgt
    /\ UNCHANGED silent

(* errx, exit(1), a crash or terminate_chericat on SIGTERM, SIGINT or      *)
(* SIGQUIT: chericat ends where it is, without a ptrace_detach.            *)
ExitFrom(places) ==
    /\ pc \in places
    /\ pc' = "exited"
    /\ UNCHANGED <<tgt, silent>>

-----------------------------------------------------------------------------
(* The kernel delivers the stop that PT_ATTACH requested. *)
KernelStop ==
    /\ tgt = "traced" /\ pc # "exited"
    /\ tgt' = "stopped"
    /\ UNCHANGED <<pc, silent>>

(* When a tracer exits, the kernel kills or releases what it still traced. *)
KernelReap ==
    /\ pc = "exited" /\ tgt \in {"traced", "stopped"}
    /\ tgt' \in {"gone", "running"}
    /\ UNCHANGED <<pc, silent>>

(* The target exits or is killed, which a stop does not prevent. *)
TargetDies ==
    /\ TargetMayDie /\ tgt # "gone"
    /\ tgt' = "gone"
    /\ UNCHANGED <<pc, silent>>
=============================================================================
