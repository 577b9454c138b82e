----------------------------- MODULE GetString -----------------------------
(***************************************************************************)
(* get_string (ptrace_utils.c): copies a C string of unknown length from   *)
(* the stopped target, without reading from a page the string does not     *)
(* reach, into a buffer that grows up to PTRACE_READ_STRING_MAXSIZE.  The  *)
(* paths of the link map and the names of compartments are read with it.   *)
(* Positions count from the string's address; only where in its page the   *)
(* address lies matters.                                                   *)
(***************************************************************************)
EXTENDS Integers

CONSTANTS
    PageSize,   \* PAGE_SIZE
    MaxSize,    \* PTRACE_READ_STRING_MAXSIZE
    MaxLimit    \* bound on the argument max (the code only passes 0)

ASSUME GetStringAssumption ==
    /\ PageSize \in Nat \ {0} /\ MaxSize \in Nat \ {0}
    /\ MaxLimit \in Nat

VARIABLES
    lead,       \* the bytes from the string's address to the end of its page
    mapped,     \* target: the bytes mapped from the address on
    nul,        \* target: the position of the first NUL byte
    max,        \* the argument: if not 0, the length to read at most
    spc,        \* "start", "read", "grow", "ok", "cut" or "null"
    offset,     \* the position the next read begins at
    size,       \* its length
    totalsize,  \* the length of buf
    ended       \* the position of the NUL known to be in buf, or -1

targetString == <<lead, mapped, nul, max>>
stringVars == <<targetString, spc, offset, size, totalsize, ended>>

Least(a, b) == IF a < b THEN a ELSE b

(* The length of the first read: up to the end of the page. *)
WholePage == IF max # 0 THEN max + 1 ELSE Least(PageSize, MaxSize)
FirstSize == IF max # 0 THEN max + 1 ELSE Least(lead, MaxSize)

StartOneShort ==
    /\ spc = "start"
    /\ size' = FirstSize
    /\ \/ totalsize' = size' - 1 /\ spc' = "read"
       \/ UNCHANGED totalsize /\ spc' = "null"
    /\ UNCHANGED <<targetString, offset, ended>>

(* The buffer for the first read.  malloc may fail. *)
StartString ==
    /\ spc = "start"
    /\ size' = FirstSize
    /\ \/ totalsize' = size' /\ spc' = "read"
       \/ UNCHANGED totalsize /\ spc' = "null"
    /\ UNCHANGED <<targetString, offset, ended>>

(* memchr finds the NUL in the buffer. *)
NulFound == nul < offset + size

(* PT_IO: fails unless all of it is mapped; if there is no NUL in what was *)
(* read, more is needed.                                                   *)
ReadChunk ==
    /\ spc = "read"
    /\ \/ /\ offset + size > mapped
          /\ spc' = "null" /\ UNCHANGED <<offset, ended>>
       \/ /\ offset + size <= mapped /\ NulFound
          /\ spc' = "ok" /\ ended' = nul /\ UNCHANGED offset
       \/ /\ offset + size <= mapped /\ ~NulFound
          /\ spc' = "grow" /\ offset' = offset + size /\ UNCHANGED ended
    /\ UNCHANGED <<targetString, size, totalsize>>

(* There may be another read, and its length. *)
RoomAtLimit == totalsize <= MaxSize /\ max = 0
Room == totalsize < MaxSize /\ max = 0

NextSize == Least(MaxSize - totalsize, PageSize)

(* Where the NUL goes that cuts the string off. *)
BehindBuffer == totalsize
LastByte == totalsize - 1

(* The next page, or what is left to the limit; when there is no more, or  *)
(* no memory, the string is cut off at the last byte of the buffer.        *)
GrowBuffer ==
    /\ spc = "grow"
    /\ \/ /\ Room
          /\ size' = NextSize
          /\ totalsize' = totalsize + size' /\ spc' = "read"
          /\ UNCHANGED ended
       \/ spc' = "cut" /\ ended' = LastByte /\ UNCHANGED <<size, totalsize>>
    /\ UNCHANGED <<targetString, offset>>

(* A page is mapped as a whole, so `mapped' ends where a page ends. *)
StringInit ==
    /\ lead \in 1..PageSize
    /\ mapped \in {0} \cup {lead + k * PageSize : k \in 0..MaxSize + 1}
    /\ nul \in 0..MaxSize + PageSize
    /\ max \in 0..MaxLimit
    /\ spc = "start" /\ offset = 0 /\ size = 0 /\ totalsize = 0 /\ ended = -1

StringNext == StartString \/ ReadChunk \/ GrowBuffer

StringSpec == StringInit /\ [][StringNext]_stringVars

StringFair == StringSpec /\ WF_stringVars(StringNext)

-----------------------------------------------------------------------------
(* The variables keep their types. *)
StringTypeOK ==
    /\ lead \in 1..PageSize /\ mapped \in Nat /\ nul \in Nat /\ max \in Nat
    /\ spc \in {"start", "read", "grow", "ok", "cut", "null"}
    /\ offset \in Nat /\ size \in Nat /\ totalsize \in Nat
    /\ ended \in Int

(* No read goes behind the buffer, and the buffer never gets longer than   *)
(* the limit, unless the caller asked for more (ptrace_utils.c:216-246).   *)
ReadInBuffer ==
    /\ spc = "read" => offset + size <= totalsize
    /\ max = 0 => totalsize <= MaxSize

(* What is returned is a string: there is a NUL within the buffer, that of *)
(* the target or one written over the last byte.                           *)
ReturnsString ==
    spc \in {"ok", "cut"} => ended \in 0..totalsize - 1

(* Without max, no read crosses the end of a page: so a string that lies   *)
(* in mapped pages up to its NUL is read even if the next page is not      *)
(* there, and NULL means the string itself is not all there, or no memory. *)
NullOnlyIfUnmapped ==
    spc = "read" /\ max = 0 /\ offset + size > mapped => nul >= mapped

(* It ends. *)
StringEnds == <>(spc \in {"ok", "cut", "null"})
=============================================================================
