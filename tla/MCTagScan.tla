----------------------------- MODULE MCTagScan -----------------------------
(* TagScan with a tag buffer of two chars: every one of the 65536 pages.   *)
EXTENDS TagScan
=============================================================================
