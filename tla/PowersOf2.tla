------------------------------ MODULE PowersOf2 ------------------------------
(***************************************************************************)
(* The powers of two that Go's shift, 1 << n, makes before it is cut to    *)
(* the width of an integer.                                                *)
(***************************************************************************)
EXTENDS Integers

\* 1 << n.
PowerOf2[n \in Nat] == IF n = 0 THEN 1 ELSE 2 * PowerOf2[n - 1]
==============================================================================
