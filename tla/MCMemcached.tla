---------------------------- MODULE MCMemcached ------------------------------
(* Memcached for TLC: two keys share a slot, a third has its own.           *)
EXTENDS Memcached, TLC

CONSTANTS s1, s2, k1, k2, k3

MCSessions == {s1, s2}
MCKeys     == {k1, k2, k3}
MCHash     == (k1 :> 1) @@ (k2 :> 1) @@ (k3 :> 2)
MCLengths  == {-4, -3, 0, 2}
Symmetric  == Permutations(MCSessions) \cup Permutations({k1, k2})

=============================================================================
