----------------------------- MODULE MCRelayQuery -----------------------------
(* Two relays, one of them under ws://, two index sets and queries of them. *)
EXTENDS RelayQuery, TLC

One(k) == [any |-> FALSE, keys |-> {k}]
AnyOf(keys) == [any |-> TRUE, keys |-> keys]

MCQueries ==
  {<<>>, <<AnyOf(IndexKeys)>>}
    \cup {<<One(kk[1]), One(kk[2])>> : kk \in {p \in IndexKeys \X IndexKeys : p[1] # p[2]}}
    \cup {<<One(k), AnyOf(IndexKeys)>> : k \in IndexKeys}

Symmetry == Permutations(IndexKeys)
===============================================================================
