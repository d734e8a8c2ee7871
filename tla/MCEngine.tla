------------------------------ MODULE MCEngine ------------------------------
(* An instance of LegacyWorker for TLC.  The file at "a" is moved to a     *)
(* path on another device, and that is asked for twice; there are a folder *)
(* to create and an element that is rejected or cannot be decoded.         *)
EXTENDS LegacyWorker

A == <<"a">>
B == <<"b", "/", "f">>

MCPaths == {A, B}
MCFiles == [p \in {A} |-> "v0"]
MCPairs == {<<A, B>>}
MCOps == {Op(n) : n \in 1 .. 4}
OwnDevice(p) == p

MoveTask(id) ==
    [id |-> <<id>>, type |-> "move_file", params |-> [src |-> A, dst |-> B]]
UploadTask(id) ==
    [id |-> <<id>>, type |-> "complete_upload",
     params |-> [upload_tmp |-> A, target_path |-> <<"b">>, filename |-> <<"f">>]]

Current ==
    {MoveTask("m1"), MoveTask("m2"),
     [id |-> <<"c1">>, type |-> "create_folder",
      params |-> [parent |-> <<"b", "/">>, name |-> <<"d">>]],
     [id |-> <<"x1">>, type |-> "move_file", params |-> [src |-> A]]}
Legacy ==
    {UploadTask("u1"), UploadTask("u2"), Garbage,
     [id |-> <<"c2">>, type |-> "create_folder",
      params |-> [path |-> <<"b">>, folder |-> <<"d">>]]}

MCPosted == Current \cup Legacy
MCSent(p) == IF p = "current" THEN Current ELSE Legacy
Twice(p) == {MoveTask("m1"), MoveTask("m2")}
=============================================================================
