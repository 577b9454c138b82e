---------------------------- MODULE MCGetString ----------------------------
(***************************************************************************)
(* GetString for pages of four bytes and a limit that is not a multiple of *)
(* them, so that the last read is shorter than a page.                     *)
(***************************************************************************)
EXTENDS GetString
=============================================================================
