------------------------------ MODULE ByteCount ------------------------------
(***************************************************************************)
(* Sums of byte counts.  The worker adds up file sizes in several places   *)
(* (directory_bytes, the staged bytes in reserve, the pinned bytes in      *)
(* has_capacity).  ByteSum(f, S) is the sum of f[x] over the finite set S, *)
(* defined as the number of cells of a bar chart with one bar of height    *)
(* f[x] per x, so that the theorems on finite cardinalities apply to it.   *)
(***************************************************************************)
EXTENDS Integers, FiniteSets

\* The bar of height f[x] over every x of S: one cell per byte.
Cells(f, S) == UNION {{x} \X (1 .. f[x]) : x \in S}

\* The sum of f[x] for x in S.
ByteSum(f, S) == Cardinality(Cells(f, S))
=============================================================================
