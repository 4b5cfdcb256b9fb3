---------------------------- MODULE MCSessionPool ----------------------------
(* Instances of SessionPool for TLC. *)
EXTENDS SessionPool, TLC

\* Connections and addresses are interchangeable.
Symmetry == Permutations(Conns) \cup Permutations(Addrs)
=============================================================================
