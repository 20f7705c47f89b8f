------------------------------- MODULE MCArena -------------------------------
(***************************************************************************)
(* The arena with blocks of five bytes behind a header of three, and a     *)
(* child allocator with three places, eight apart: an ordinary block fills *)
(* one and a larger one lies across the next.  The requests are for less   *)
(* than a block and for more than one, and the header ends where the       *)
(* stricter alignment needs padding, so that there are requests that fit   *)
(* in a block but for the padding.                                         *)
(***************************************************************************)
EXTENDS Arena
=============================================================================
