---------------------------- MODULE AccessControl ----------------------------
(***************************************************************************)
(* How the API decides whether to serve a call: the token, the permission  *)
(* of the method, the path in the request, and the entries for that path   *)
(* and its parents, read by queries that can fail and between which other  *)
(* programs add entries.  A path is a sequence of slashes, names ("." and  *)
(* ".." among them) and, where they are trimmed, blanks.                   *)
(***************************************************************************)
EXTENDS Naturals, Sequences, FiniteSets, Functions

CONSTANTS
    Calls,      \* calls in progress
    Requests,   \* what is called: [method, token, path, name]
    Entries,    \* the entries that are added: [path, principal, perms]
    Backends,   \* among "postgres" and "memory"
    Verifiers,  \* the configurations of the verifier of tokens
    Faults,     \* whether "query" errors happen
    None        \* no token, no claim, no such configuration; no request

ASSUME FaultAssumption == Faults \subseteq {"query"}

VARIABLES
    backend,  \* the kind of store, chosen at start-up
    verifier, \* the keys, the issuer and the audience, set at start-up
    table,    \* the entries in the store
    req,      \* the request of each call
    pc,       \* where each call is, or its answer
    path,     \* the path that is checked
    todo,     \* the paths that are still to be looked up
    left,     \* the checks that the handler of the call has still to make
    before,   \* history: the entries that were there when this check began
    failed    \* history: whether a query of this check failed

setup == <<backend, verifier>>
vars == <<setup, table, req, pc, path, todo, left, before, failed>>

-----------------------------------------------------------------------------
(* Paths.                                                                  *)

TrimSpace(p) ==
    LET solid == {i \in 1 .. Len(p) : p[i] # " "} IN
    IF solid = {} THEN <<>>
    ELSE SubSeq(p, CHOOSE i \in solid : \A j \in solid : i <= j,
                   CHOOSE i \in solid : \A j \in solid : i >= j)

(* The k-th of a set of positions, and what is at them, in order.          *)
Nth(S, k) == CHOOSE i \in S : Cardinality({j \in S : j <= i}) = k

At(p, S) == [k \in 1 .. Cardinality(S) |-> p[Nth(S, k)]]

OneSlash(p) == At(p, {i \in 1 .. Len(p) : ~(i > 1 /\ p[i] = "/" /\ p[i - 1] = "/")})

TrimSuffix(p) ==
    IF p # <<>> /\ p[Len(p)] = "/" THEN SubSeq(p, 1, Len(p) - 1) ELSE p

normalize(p) ==
    LET t == TrimSpace(p) IN
    IF t = <<>> THEN <<"/">>
    ELSE OneSlash(IF Head(t) = "/" THEN t ELSE <<"/">> \o t)

IsPrefix(s, t) == Len(s) <= Len(t) /\ s = SubSeq(t, 1, Len(s))

Absolute(p) == IsPrefix(<<"/">>, p)

Segments(p) == At(p, {i \in 1 .. Len(p) : p[i] # "/"})

Join(s) == [k \in 1 .. 2 * Len(s) |-> IF k % 2 = 1 THEN "/" ELSE s[k \div 2]]

Ups(s, i, j) == Cardinality({k \in i .. j : s[k] = ".."})

Names(s, i, j) == Cardinality({k \in i .. j : s[k] \notin {".", ".."}})

(* filepath.Clean.  A name stays unless a ".." after it undoes it, and a   *)
(* ".." that has no name to undo stays at the front of a relative path.    *)
Stay(s) ==
    {i \in 1 .. Len(s) :
        /\ s[i] \notin {".", ".."}
        /\ \A j \in i + 1 .. Len(s) : Ups(s, i + 1, j) <= Names(s, i + 1, j)}

Lead(s) ==
    {j \in 1 .. Len(s) : s[j] = ".." /\ \A i \in 1 .. j : Ups(s, i, j) > Names(s, i, j)}

Clean(p) ==
    LET s == Segments(p) IN
    IF Absolute(p)
    THEN IF Stay(s) = {} THEN <<"/">> ELSE Join(At(s, Stay(s)))
    ELSE IF Stay(s) \cup Lead(s) = {} THEN <<".">>
         ELSE Tail(Join(At(s, Stay(s) \cup Lead(s))))

(* filepath.Dir: what is before the last slash, clean.                     *)
LastSlash(p) ==
    CHOOSE i \in 0 .. Len(p) :
       (i = 0 \/ p[i] = "/") /\ \A j \in i + 1 .. Len(p) : p[j] # "/"

Dir(p) == Clean(SubSeq(p, 1, LastSlash(p)))

(* What a request for a path or a prefix asks for, as it spells it.        *)
Asked(r) ==
    IF r.method = "CreateFolder" THEN TrimSuffix(r.path) \o <<"/">> \o r.name ELSE r.path

ExtractPath(r) ==
    CASE r.method \in {"ListObjects", "UploadObject", "DownloadObject", "InitiateUpload",
                       "CreateFolder"} -> normalize(Asked(r))
      [] r.method \in {"CompleteUpload", "GetTaskStatus", "GetTask"} -> <<"/">>

-----------------------------------------------------------------------------
(* Permissions.                                                            *)

Write == {"CreateFolder", "UploadObject", "InitiateUpload", "CompleteUpload"}
Read == {"DownloadObject", "GetTaskStatus", "GetTask"}
Mapped == Write \cup Read \cup {"ListObjects"}

(* The raw HTTP download, which is not an RPC, asks for read permission.   *)
Download == "objects:download"

(* Between two slashes is one name.                                        *)
NamesApart(p) == \A i \in 1 .. Len(p) - 1 : p[i] = "/" \/ p[i + 1] = "/"

ASSUME PathAssumption ==
    /\ \A r \in Requests :
          /\ r.path \in Seq(Range(r.path)) /\ r.name \in Seq(Range(r.name))
          /\ NamesApart(IF r.method = Download THEN r.path ELSE TrimSpace(Asked(r)))
    /\ \A e \in Entries : e.path \in Seq(Range(e.path))

(* The RPC that is a stream.                                               *)
Streamed == "DownloadObject"

Permission(method) ==
    CASE method \in Write -> "write"
      [] method \in Read \cup {Download} -> "read"
      [] method = "ListObjects" -> "list"

Roles ==
    [admin  |-> {"read", "write", "delete", "list"},
     editor |-> {"read", "write", "list"},
     viewer |-> {"read", "list"}]

ByRole(a, perm) == \E r \in a.roles \cap DOMAIN Roles : perm \in Roles[r]

AnyPermission(a, perm, e) ==  \* mutant: the permission is not looked at
    e.principal \in {<<"user", a.sub>>} \cup {<<"role", r>> : r \in a.roles}

Grants(a, perm, e) ==
    /\ e.principal \in {<<"user", a.sub>>} \cup {<<"role", r>> : r \in a.roles}
    /\ perm \in e.perms

-----------------------------------------------------------------------------
(* The server does not start with a verifier that has no key.              *)
NewJWTVerifier(v) == v.secret # None \/ v.pubKey # None

Init ==
    /\ backend \in Backends
    /\ verifier \in {v \in Verifiers : NewJWTVerifier(v)}
    /\ table = {}
    /\ req = [c \in Calls |-> None]
    /\ pc = [c \in Calls |-> "idle"]
    /\ path = [c \in Calls |-> <<"/">>]
    /\ todo = [c \in Calls |-> <<>>]
    /\ left = [c \in Calls |-> 0]
    /\ before = [c \in Calls |-> {}]
    /\ failed = [c \in Calls |-> FALSE]

Goto(c, label) == pc' = [pc EXCEPT ![c] = label]

(* Another program inserts an entry.  Nothing sets entries of the store in *)
(* memory.                                                                 *)
SetACL(e) ==
    /\ backend = "postgres"
    /\ table' = table \cup {e}
    /\ UNCHANGED <<setup, req, pc, path, todo, left, before, failed>>

(* A call comes to the gRPC server directly or through the HTTP gateway;   *)
(* the raw download has its own HTTP handler.                              *)
Arrive(c) ==
    /\ pc[c] = "idle"
    /\ \E r \in Requests, door \in {"authenticate", "gateway"} :
          /\ door = "gateway" => r.method \notin {Streamed, Download}
          /\ req' = [req EXCEPT ![c] = r]
          /\ Goto(c, door)
    /\ UNCHANGED <<setup, table, path, todo, left, before, failed>>

(* The key for the method a token is signed with.                          *)
HasKey(alg) ==
    \/ alg = "HMAC" /\ verifier.secret # None
    \/ alg = "RSA" /\ verifier.pubKey # None

AnyAudience(t) ==  \* mutant: the audience is not compared
    /\ t # None
    /\ HasKey(t.alg) /\ t.valid
    /\ verifier.issuer # None => t.iss = verifier.issuer
    /\ t.sub # None

(* ParseAuthContext: a token is accepted if it verifies with the key for   *)
(* its method and has not expired, if it is from the issuer and for the    *)
(* audience that are configured, and if it names a subject.                *)
ParseAuthContext(t) ==
    /\ t # None
    /\ HasKey(t.alg) /\ t.valid
    /\ verifier.issuer # None => t.iss = verifier.issuer
    /\ verifier.audience # None => verifier.audience \in t.aud
    /\ t.sub # None

Authenticate(c, next) ==
    /\ Goto(c, IF ParseAuthContext(req[c].token) THEN next ELSE "unauthenticated")
    /\ UNCHANGED <<setup, table, req, path, todo, left, before, failed>>

(* The gateway looks at the token and passes the call, with it, on.        *)
HTTPAuthMiddleware(c) == pc[c] = "gateway" /\ Authenticate(c, "authenticate")

GRPCAuthInterceptor(c) ==
    /\ pc[c] = "authenticate"
    /\ req[c].method \notin {Streamed, Download}
    /\ Authenticate(c, "authorize")

GRPCStreamAuthInterceptor(c) ==
    /\ pc[c] = "authenticate"
    /\ req[c].method = Streamed
    /\ Authenticate(c, "receive")

AuthenticateDownload(c) ==
    /\ pc[c] = "authenticate"
    /\ req[c].method = Download
    /\ Authenticate(c, "authorize")

(* CanAccess is called, and parentPaths has the path itself.               *)
CheckPath(c, p) ==
    /\ path' = [path EXCEPT ![c] = p]
    /\ todo' = [todo EXCEPT ![c] = <<p>>]
    /\ before' = [before EXCEPT ![c] = table]
    /\ failed' = [failed EXCEPT ![c] = FALSE]
    /\ Goto(c, "walk")
    /\ UNCHANGED <<setup, table, req>>

GRPCAuthZInterceptor(c) ==
    /\ pc[c] = "authorize"
    /\ req[c].method \in Mapped
    /\ CheckPath(c, ExtractPath(req[c]))
    /\ UNCHANGED left

(* The stream is checked at its first message; its handler checks again.   *)
RecvMsg(c) ==
    /\ pc[c] = "receive"
    /\ CheckPath(c, ExtractPath(req[c]))
    /\ left' = [left EXCEPT ![c] = 1]

DownloadObject(c) ==
    /\ pc[c] = "handle"
    /\ left[c] = 1
    /\ CheckPath(c, ExtractPath(req[c]))
    /\ left' = [left EXCEPT ![c] = 0]

(* A method that is not in the map is served to any authenticated caller.  *)
AuthorizeUnmapped(c) ==
    /\ pc[c] = "authorize"
    /\ req[c].method \notin Mapped \cup {Download}
    /\ Goto(c, "handle")
    /\ UNCHANGED <<setup, table, req, path, todo, left, before, failed>>

AuthorizeDownload(c) ==
    /\ pc[c] = "authorize"
    /\ req[c].method = Download
    /\ req[c].path # <<>>
    /\ CheckPath(c, req[c].path)
    /\ UNCHANGED left

MissingPath(c) ==
    /\ pc[c] = "authorize"
    /\ req[c].method = Download
    /\ req[c].path = <<>>
    /\ Goto(c, "invalid")
    /\ UNCHANGED <<setup, table, req, path, todo, left, before, failed>>

-----------------------------------------------------------------------------
(* CanAccess.                                                              *)

LookUp(c) == Goto(c, IF backend = "postgres" THEN "batch" ELSE "query")

OwnPath(c) ==  \* mutant: no inheritance
    /\ pc[c] = "walk"
    /\ LookUp(c)
    /\ UNCHANGED <<setup, table, req, path, todo, left, before, failed>>

(* One round of the loop, which only the root ends.  From a relative path  *)
(* it comes to "." and appends that for ever: here, once.                  *)
parentPaths(c) ==
    LET last == todo[c][Len(todo[c])] IN
    /\ pc[c] = "walk"
    /\ IF last = <<"/">>
       THEN LookUp(c) /\ UNCHANGED todo
       ELSE /\ todo' = [todo EXCEPT ![c] =
                           IF Dir(last) \in Range(@) THEN @ ELSE Append(@, Dir(last))]
            /\ UNCHANGED pc
    /\ UNCHANGED <<setup, table, req, path, left, before, failed>>

Rows(paths) == {e \in table : e.path \in paths}

(* Rows that cannot be scanned are skipped, and rows.Err is not looked at. *)
Replies(paths) == IF "query" \in Faults THEN SUBSET Rows(paths) ELSE {Rows(paths)}

AnyGrants(c, rows) ==
    \E e \in rows : Grants(req[c].token, Permission(req[c].method), e)

RoleGrants(c) == ByRole(req[c].token, Permission(req[c].method))

Decide(c, allowed) == Goto(c, IF allowed THEN "handle" ELSE "denied")

GetACLsForPaths(c) ==
    /\ pc[c] = "batch"
    /\ \E rows \in Replies(Range(todo[c])) :
          /\ Decide(c, AnyGrants(c, rows) \/ RoleGrants(c))
          /\ failed' = [failed EXCEPT ![c] = rows # Rows(Range(todo[c]))]
    /\ UNCHANGED <<setup, table, req, path, todo, left, before>>

(* The batch query errs, and the paths are looked up one by one.           *)
BatchFails(c) ==
    /\ "query" \in Faults
    /\ pc[c] = "batch"
    /\ Goto(c, "query")
    /\ UNCHANGED <<setup, table, req, path, todo, left, before, failed>>

AskAgain(c) ==  \* mutant: a query without rows is repeated
    LET own == {Head(todo[c])} IN
    /\ pc[c] = "query"
    /\ todo[c] # <<>>
    /\ \E rows \in Replies(own) :
          /\ failed' = [failed EXCEPT ![c] = @ \/ rows # Rows(own)]
          /\ IF AnyGrants(c, rows)
             THEN Decide(c, TRUE) /\ UNCHANGED todo
             ELSE /\ todo' = [todo EXCEPT ![c] = IF rows = {} THEN @ ELSE Tail(@)]
                  /\ UNCHANGED pc
    /\ UNCHANGED <<setup, table, req, path, left, before>>

StopAtEmpty(c) ==  \* mutant: the first path without rows ends the search
    LET own == {Head(todo[c])} IN
    /\ pc[c] = "query"
    /\ todo[c] # <<>>
    /\ \E rows \in Replies(own) :
          /\ failed' = [failed EXCEPT ![c] = @ \/ rows # Rows(own)]
          /\ IF AnyGrants(c, rows)
             THEN Decide(c, TRUE) /\ UNCHANGED todo
             ELSE /\ todo' = [todo EXCEPT ![c] = IF rows = {} THEN <<>> ELSE Tail(@)]
                  /\ UNCHANGED pc
    /\ UNCHANGED <<setup, table, req, path, left, before>>

(* A query that errs returns no entries.                                   *)
GetACLs(c) ==
    LET own == {Head(todo[c])} IN
    /\ pc[c] = "query"
    /\ todo[c] # <<>>
    /\ \E rows \in Replies(own) :
          /\ failed' = [failed EXCEPT ![c] = @ \/ rows # Rows(own)]
          /\ IF AnyGrants(c, rows)
             THEN Decide(c, TRUE) /\ UNCHANGED todo
             ELSE /\ todo' = [todo EXCEPT ![c] = Tail(@)]
                  /\ UNCHANGED pc
    /\ UNCHANGED <<setup, table, req, path, left, before>>

CheckRoles(c) ==
    /\ pc[c] = "query"
    /\ todo[c] = <<>>
    /\ Decide(c, RoleGrants(c))
    /\ UNCHANGED <<setup, table, req, path, todo, left, before, failed>>

CanAccess(c) ==
    parentPaths(c) \/ GetACLsForPaths(c) \/ BatchFails(c) \/ GetACLs(c) \/ CheckRoles(c)

Handle(c) ==
    /\ pc[c] = "handle"
    /\ left[c] = 0
    /\ Goto(c, "served")
    /\ UNCHANGED <<setup, table, req, path, todo, left, before, failed>>

Serve(c) ==
    \/ HTTPAuthMiddleware(c) \/ GRPCAuthInterceptor(c) \/ GRPCStreamAuthInterceptor(c)
    \/ GRPCAuthZInterceptor(c) \/ AuthorizeUnmapped(c) \/ RecvMsg(c)
    \/ AuthenticateDownload(c) \/ AuthorizeDownload(c) \/ MissingPath(c)
    \/ CanAccess(c)
    \/ DownloadObject(c) \/ Handle(c)

Next ==
    \/ \E e \in Entries : SetACL(e)
    \/ \E c \in Calls : Arrive(c) \/ Serve(c)

(* The runtime runs every goroutine that can go on.                        *)
Spec == Init /\ [][Next]_vars /\ \A c \in Calls : WF_vars(Serve(c))

-----------------------------------------------------------------------------
Answers == {"served", "denied", "invalid", "unauthenticated"}

(* Types.  The path under a check is absolute, on which parentPaths relies *)
(* to reach the root, except in the raw download.                          *)
TypeOK ==
    /\ backend \in Backends
    /\ verifier \in Verifiers
    /\ table \subseteq Entries
    /\ req \in [Calls -> Requests \cup {None}]
    /\ pc \in [Calls -> Answers \cup {"idle", "gateway", "authenticate", "authorize",
                                      "receive", "walk", "batch", "query", "handle"}]
    /\ \A c \in Calls : Absolute(path[c]) \/ req[c].method = Download
    /\ left \in [Calls -> 0 .. 1]
    /\ before \in [Calls -> SUBSET Entries]
    /\ failed \in [Calls -> BOOLEAN]

(* A clean path q is d, or a folder above it.                              *)
Above(q, d) ==
    \/ q = <<"/">>
    \/ q # <<>> /\ IsPrefix(q, d) /\ (Len(q) = Len(d) \/ d[Len(q) + 1] = "/")

(* What a path inherits from: itself, as it is spelled, its directory and  *)
(* the folders above that.                                                 *)
Inherits(q, p) == q = p \/ Above(q, Dir(p))

(* The names of a path are those of a place in the tree: none is "." or    *)
(* "..", and if nothing normalizes the path, no slash is repeated.         *)
Plain(c) ==
    /\ \A i \in 1 .. Len(path[c]) : path[c][i] \notin {".", ".."}
    /\ req[c].method = Download =>
          \A i \in 1 .. Len(path[c]) - 1 : ~(path[c][i] = "/" /\ path[c][i + 1] = "/")

(* parentPaths gives of the paths that entries have exactly those that the *)
(* checked path inherits from.  For a plain path and an entry with a clean *)
(* absolute one that is: the names of the entry's path are the first names *)
(* of the checked one, wherever the request had blanks, missing, repeated  *)
(* or trailing slashes.                                                    *)
PathsCover ==
    \A c \in Calls, e \in Entries :
       pc[c] = "batch" =>
          /\ e.path \in Range(todo[c]) <=> Inherits(e.path, path[c])
          /\ Plain(c) /\ Absolute(e.path) /\ Clean(e.path) = e.path =>
                (e.path \in Range(todo[c]) <=> IsPrefix(Segments(e.path), Segments(path[c])))

Mine(c, e) ==
    \/ e.principal = <<"user", req[c].token.sub>>
    \/ \E r \in req[c].token.roles : e.principal = <<"role", r>>

(* What the decision should be for some entries: a role has the permission, *)
(* or an entry that the path inherits from grants it.                      *)
Granted(c, entries) ==
    \/ RoleGrants(c)
    \/ \E e \in entries :
          /\ Inherits(e.path, path[c])
          /\ Mine(c, e)
          /\ Permission(req[c].method) \in e.perms

(* What a token must be for its caller to be known.                        *)
Trusted(t) ==
    /\ t # None /\ t.valid /\ t.sub # None
    /\ t.alg \in (IF verifier.secret # None THEN {"HMAC"} ELSE {})
                  \cup (IF verifier.pubKey # None THEN {"RSA"} ELSE {})
    /\ verifier.issuer \in {None, t.iss}
    /\ verifier.audience \in {None} \cup t.aud

(* A call is served only to a caller with a token that can be trusted, and *)
(* if its method needs a permission, only if the caller has it by a role   *)
(* or by an entry that the path inherits from, be it the closest or not,   *)
(* whichever of the two ways of reading entries was taken, whatever        *)
(* queries failed and whatever was added in between.                       *)
AllowedIsGranted ==
    \A c \in Calls :
       pc[c] \in {"handle", "served"} =>
          /\ Trusted(req[c].token)
          /\ req[c].method \in Mapped \cup {Download} => Granted(c, table)

(* A call is denied only if nothing granted it access when its check began *)
(* or a query of the check failed: entries that are added during the check *)
(* may be missed, entries from before it may not, although the batch and   *)
(* the lookups one by one read the table at different times.               *)
DeniedIsDue ==
    \A c \in Calls : pc[c] = "denied" => failed[c] \/ ~Granted(c, before[c])

(* What the documents say of inheritance: the closest entry decides.  Here *)
(* of the entries for a caller that the path inherits from, the closest of *)
(* those for the user or the closest of those for its roles grants what is *)
(* served, whichever of the two comes first.                               *)
ClosestWins ==
    \A c \in Calls :
       LET mine == {e \in table : Inherits(e.path, path[c]) /\ Mine(c, e)} IN
       /\ pc[c] = "served" /\ req[c].method \in Mapped \cup {Download}
       /\ table = before[c] /\ ~failed[c]
       /\ ~RoleGrants(c)
       => \E e \in mine :
             /\ Permission(req[c].method) \in e.perms
             /\ \A f \in mine :
                   f.principal[1] = e.principal[1] => Len(f.path) <= Len(e.path)

(* The calls whose walk does not end.                                      *)
Endless(r) == r.method = Download /\ r.path # <<>> /\ ~Absolute(r.path)

(* Every call is answered, also when queries fail, except a raw download   *)
(* of a relative path: the walk to the root ends for every other path,     *)
(* with "." and ".." in it or not.                                         *)
Answered ==
    \A c \in Calls : (pc[c] # "idle" /\ ~Endless(req[c])) ~> pc[c] \in Answers
=============================================================================
