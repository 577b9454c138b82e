----------------------------- MODULE TagBuffer -----------------------------
(***************************************************************************)
(* The tag buffer that ptrace(PT_IO, PIOD_READ_CHERI_TAGS) fills for one   *)
(* page, as get_tags (cap_capture.c) reads it: one bit per 16-byte granule *)
(* of the page, eight to a char.  A page's tags are the set of the numbers *)
(* of its tagged granules; a char of the buffer is the set of its set      *)
(* bits.                                                                   *)
(***************************************************************************)
EXTENDS Naturals

(* The bits of one char. *)
Bit == 0..7

(* The bytes of memory one tag bit, and one tag char, stand for. *)
GranuleSize == 16
CharSpan == 8 * GranuleSize

(* The character constant '0' of the comparison in get_tags is the char    *)
(* 0x30: bits 4 and 5 set, the others clear.                               *)
CharZero == {4, 5}

(* tagsbuf[i], for a page whose tagged granules are the set tags. *)
TagChar(tags, i) == {j \in Bit : 8 * i + j \in tags}

ExaminedNotOne(tags, i) == TagChar(tags, i) # {0, 4, 5}

(* The test `'0' != tags` in front of the inner loop: the char is examined *)
(* bit by bit unless it is equal to '0'.                                   *)
Examined(tags, i) == TagChar(tags, i) # CharZero

EightByteGranules(start, i, j) == start + i * CharSpan + j * 8

(* `start + i*8*16 + j*16`, the address of bit j of char i. *)
TagAddress(start, i, j) == start + i * CharSpan + j * GranuleSize

(* The granules of a page, chars of the buffer numbered by I, that get_tags *)
(* turns into capability rows.                                             *)
FoundTags(tags, I) ==
    {g \in tags : \E i \in I : \E j \in TagChar(tags, i) :
                      Examined(tags, i) /\ g = 8 * i + j}
=============================================================================
