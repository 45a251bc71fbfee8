---------------------------- MODULE MCClientPool ----------------------------
(* Instances of ClientPool for TLC.                                        *)
EXTENDS ClientPool, TLC

(* Connections and client objects are interchangeable.                     *)
Symmetry == Permutations(Conns) \cup Permutations(Objs)
=============================================================================
