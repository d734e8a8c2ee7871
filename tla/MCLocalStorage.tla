--------------------------- MODULE MCLocalStorage ---------------------------
(* Instances of LocalStorage for TLC: one file, "v0", at path "a".         *)
EXTENDS LocalStorage

MCFiles == [p \in {"a"} |-> "v0"]

OneDevice(p) == "disk"

(* Each path is a mount of its own.                                        *)
OwnDevice(p) == p

(* Moves out of "a", where no call puts a file.                            *)
Outwards == {<<"a", "a">>, <<"a", "b">>, <<"a", "c">>}
Promotions == {<<"a", "b">>, <<"a", "c">>}
=============================================================================
