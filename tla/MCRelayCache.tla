----------------------------- MODULE MCRelayCache -----------------------------
(* Two goroutines write two relays. *)
EXTENDS RelayCache, TLC

Symmetry == Permutations(Writers) \cup Permutations(IndexKeys)
===============================================================================
