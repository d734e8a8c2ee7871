------------------------------ MODULE MCLocalFs ------------------------------
(* Instances of LocalFs for TLC: one file, "v0", at path "a".              *)
EXTENDS LocalFs, TLC

MCFiles == [p \in {"a"} |-> "v0"]

(* Each path is a mount of its own.                                        *)
OwnDevice(p) == p

(* Moves that form no cycle.                                               *)
Upwards == {<<"a", "b">>, <<"b", "c">>}

Symmetry == Permutations(Ops)
=============================================================================
