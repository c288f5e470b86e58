---------------------------- MODULE MCEvictionLoop ----------------------------
(***************************************************************************)
(* An instance of EvictionLoop for TLC: every volume of up to three        *)
(* directories of two sizes, expired or not, accessed in any order.        *)
(***************************************************************************)
EXTENDS EvictionLoop, TLC

DirectorySymmetry == Permutations(Directories)
=============================================================================
