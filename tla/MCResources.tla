----------------------------- MODULE MCResources -----------------------------
(***************************************************************************)
(* Ranges for TLC: two to a page, one page each, one across two pages.     *)
(***************************************************************************)
EXTENDS ResourceProperties

Blocks(a, b) == [first |-> a, last |-> b]

MCRanges == {Blocks(0, 1), Blocks(1, 2), Blocks(2, 3), Blocks(3, 3)}
=============================================================================
