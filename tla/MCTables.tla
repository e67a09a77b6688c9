------------------------------ MODULE MCTables ------------------------------
(* Instances of Tables for TLC: every list of up to three of three names of *)
(* different lengths, repeated names included, and headers on both sides of *)
(* the least column width.                                                  *)
EXTENDS Tables

MCNames == 1..3

MCWidth == <<2, 0, 4>>

MCLists == UNION {[1..n -> MCNames] : n \in 0..3}
=============================================================================
