----------------------------- MODULE MCTaskQueue -----------------------------
(* Instances of TaskQueue for TLC.                                         *)
EXTENDS TaskQueue, TLC

(* The parent "/a/"; the names "b" and "".                                 *)
MCParentPaths == {<<"/", "a", "/">>}
MCFolderNames == {<<"b">>, << >>}
MCOneName     == {<<"b">>}

MCObjects == {<<"/", "x">>}

MoveTask ==
    [id |-> <<"posted", 1>>, type |-> "move_file",
     params |-> [src |-> <<"/", "x">>, dst |-> <<"/", "y">>]]

MCPosted == {MoveTask, Garbage}

Symmetry == Permutations(Workers) \cup Permutations(Requests)
=============================================================================
