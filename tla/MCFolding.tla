----------------------------- MODULE MCFolding -----------------------------
(***************************************************************************)
(* Folding with an int64_t of three bits, types narrower than that, and    *)
(* one that is wider.                                                      *)
(***************************************************************************)
EXTENDS Folding

MCModulus == [t \in {"int", "uint1", "uint4"} |->
                CASE t = "int" -> 4 [] t = "uint1" -> 2 [] OTHER -> 16]
=============================================================================
