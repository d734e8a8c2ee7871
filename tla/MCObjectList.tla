---------------------------- MODULE MCObjectList ----------------------------
(* Instances of ObjectList for TLC: one object, "v0", at path "a"; path    *)
(* "c" is in a folder of its own.                                          *)
EXTENDS ObjectList

MCObjects == [p \in {"a"} |-> "v0"]

(* Moves that form no cycle.                                               *)
Upwards == {<<"a", "b">>, <<"a", "c">>, <<"b", "c">>}

MCFolder(p) == IF p = "c" THEN "dir" ELSE "here"

Place(x) ==
    CASE x = "here" -> 1 [] x = "a" -> 2 [] x = "b" -> 3 [] x = "dir" -> 4 [] x = "c" -> 5

MCRank(k) ==
    4 * Place(k[1]) +
       (IF Len(k) = 1 THEN 0 ELSE CASE k[2] = "/" -> 0 [] k[2] = "o1" -> 1 [] OTHER -> 2)
=============================================================================
