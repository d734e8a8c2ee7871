--------------------------- MODULE MCAccessControl ---------------------------
(* An instance of AccessControl for TLC.                                   *)
EXTENDS AccessControl

Token(alg, sub, roles) ==
    [alg |-> alg, valid |-> TRUE, iss |-> "issuer", aud |-> {"files"}, sub |-> sub,
     roles |-> roles]

Ann == Token("HMAC", "ann", {"staff"})
Bob == Token("RSA", "bob", {"viewer", "staff"})

(* With no key, one kind or both, with and without the optional checks.    *)
MCVerifiers ==
    {[secret |-> None, pubKey |-> None, issuer |-> None, audience |-> None],
     [secret |-> "s", pubKey |-> None, issuer |-> None, audience |-> None],
     [secret |-> "s", pubKey |-> "k", issuer |-> "issuer", audience |-> "files"]}

(* Tokens that fail one check each.                                        *)
Unaccepted ==
    {[Ann EXCEPT !.alg = "none"], [Ann EXCEPT !.valid = FALSE],
     [Ann EXCEPT !.iss = None], [Ann EXCEPT !.aud = {"mail"}],
     [Ann EXCEPT !.sub = None], None}

Request(method, token, p) ==
    [method |-> method, token |-> token, path |-> p, name |-> <<"b", " ">>]

(* Relative and absolute paths, empty ones, with blanks, with repeated and *)
(* trailing slashes, with "." and ".."; callers with a known role, with an *)
(* unknown one and without a token that verifies.                          *)
MCRequests ==
    {Request("CreateFolder", Ann, <<"a", "/">>),
     Request("UploadObject", Ann, <<" ", "a", "/", "/", "b", "/">>),
     Request("ListObjects", Bob, <<>>),
     Request("DownloadObject", Ann, <<"/", "a", "/", "b">>),
     Request("GetTaskStatus", Bob, <<>>),
     Request("CompleteUpload", Bob, <<>>),
     Request("Unmapped", Ann, <<>>),
     Request("objects:download", Ann, <<"/", "a", "/", "b">>),
     Request("objects:download", Bob, <<>>),
     Request("objects:download", Ann, <<"/", "a", "/", "/", "b">>),
     Request("objects:download", Ann, <<"/", "a", "/", ".", "/", "b", "/">>),
     Request("objects:download", Bob, <<"..", "/", "a", "/", "b">>),
     Request("ListObjects", Ann, <<"a", "/", "..", "/", "b", "/", "c">>)}
      \cup {Request("UploadObject", t, <<"a">>) : t \in Unaccepted}

Entry(p, kind, id, perms) ==
    [path |-> p, principal |-> <<kind, id>>, perms |-> perms]

MCEntries ==
    {Entry(<<"/">>, "role", "staff", {"read"}),
     Entry(<<"/", "a">>, "user", "ann", {"read", "write"}),
     Entry(<<"/", "a", "/", "b">>, "role", "staff", {"write"}),
     Entry(<<"/", "a", "/", "b", "/", "c">>, "user", "ann", {"read", "write"})}
=============================================================================
