----------------------------- MODULE MCInterner -----------------------------
(***************************************************************************)
(* The interner on five strings and a table of two entries, which is       *)
(* doubled at one, two and five used ones.  The hashes are four ways to    *)
(* crowd: all on one slot that is the last one whenever the table is       *)
(* doubled; two chains that grow into each other; apart in the new table   *)
(* where they met in the old one; the last slot and the one before.        *)
(***************************************************************************)
EXTENDS Interner

Crowds == {<<15, 15, 15, 15, 15>>, <<0, 1, 0, 1, 0>>, <<3, 7, 11, 15, 3>>, <<7, 14, 6, 15, 7>>}
=============================================================================
