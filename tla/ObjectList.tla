------------------------------ MODULE ObjectList ------------------------------
(***************************************************************************)
(* Folders and listings of the object stores, while the calls of           *)
(* ObjectStore go on: a folder is a placeholder object whose key ends in a *)
(* slash, and List reads the keys in order, a page at a time.  One folder, *)
(* Here, is listed.                                                        *)
(***************************************************************************)
EXTENDS ObjectStore, Sequences

CONSTANTS
    Scans,      \* the calls of List
    Folders,    \* the folders that CreateFolder is called with
    Here,       \* the folder that is listed
    Folder(_),  \* the folder below Here that a path is in, or Here
    Rank(_)     \* the place of a key, or of a folder, in the order of keys

VARIABLES
    folders,  \* the folders that have a placeholder
    scan      \* each listing

listVars == <<vars, folders, scan>>

Placeholder(f) == <<f, "/">>

IsPlaceholder(k) == Len(k) = 2 /\ k[2] = "/"

FolderOf(k) == IF IsPlaceholder(k) THEN k[1] ELSE Folder(k[1])

(* Everything that can be listed: keys of paths, temporary names, folders. *)
Entries ==
    {Final(p) : p \in Paths} \cup (Paths \X Ops)
      \cup {Placeholder(f) : f \in Folders \cup {Folder(p) : p \in Paths}}

(* The random end of a temporary name is never a slash.                    *)
ASSUME SuffixAssumption == "/" \notin Ops

ASSUME RankAssumption == \A i \in Entries : Rank(i) \in Nat \ {0}

Keys == DOMAIN bucket \cup {Placeholder(f) : f \in folders}

(* S3 is asked to roll up what is below another folder to one entry, GCS   *)
(* is not.                                                                 *)
Item(k) ==
    IF backend = "s3" /\ FolderOf(k) # Here THEN Placeholder(FolderOf(k)) ELSE k

(* Where a path appears when what is below other folders is rolled up: a   *)
(* folder's entry is the common beginning of its keys, so that rolling up  *)
(* does not reverse the order.                                             *)
RolledUp(p) == IF Folder(p) # Here THEN Placeholder(Folder(p)) ELSE Final(p)

ASSUME OrderAssumption ==
    \A p, q \in Paths :
       Rank(Final(p)) <= Rank(Final(q)) => Rank(RolledUp(p)) <= Rank(RolledUp(q))

(* What List keeps of a page: not the placeholders, by which S3 does not   *)
(* mean the entries of folders.                                            *)
Kept(i) == ~IsPlaceholder(i) \/ (backend = "s3" /\ i[1] # Here)

Items == {i \in {Item(k) : k \in Keys} : Kept(i)}

Contents(i) == {bucket[k] : k \in {n \in DOMAIN bucket : Item(n) = i}}

NewScan ==
    [state |-> "idle", last |-> 0, out |-> {}, always |-> {}, ever |-> {}]

ListInit ==
    /\ Init
    /\ folders = {}
    /\ scan = [s \in Scans |-> NewScan]

(* History: the entries that were there all the time, and at some time.    *)
Watched(sc) ==
    [s \in Scans |->
        IF sc[s].state # "listing" THEN sc[s]
        ELSE [sc[s] EXCEPT !.always = @ \cap Items', !.ever = @ \cup Items']]

(* Its only request fails without effect, which changes nothing, or not.   *)
CreateFolder(f) ==
    /\ f \notin folders
    /\ folders' = folders \cup {f}
    /\ UNCHANGED vars
    /\ scan' = Watched(scan)

StartList(s) ==
    /\ scan[s].state = "idle"
    /\ scan' = [scan EXCEPT ![s] = [@ EXCEPT !.state = "listing",
                                             !.always = Items, !.ever = Items]]
    /\ UNCHANGED <<vars, folders>>

FromLast(s) ==  \* mutant: the entry at the token again
    {i \in {Item(k) : k \in Keys} : Rank(i) >= scan[s].last}

(* The entries after the continuation token.                               *)
Ahead(s) == {i \in {Item(k) : k \in Keys} : Rank(i) > scan[s].last}

(* A page is what comes next in the order of keys, up to where the service *)
(* chooses to cut; without a cut the listing ends.                         *)
NextPage(s) ==
    /\ scan[s].state = "listing"
    /\ \E cut \in {Rank(i) : i \in Ahead(s)} \cup {scan[s].last} :
          LET page == {i \in Ahead(s) : Rank(i) <= cut}
              seen == {[item |-> i, holds |-> Contents(i), upTo |-> cut] :
                          i \in {j \in page : Kept(j)}}
          IN  /\ page = {} => Ahead(s) = {}
              /\ scan' = [scan EXCEPT
                            ![s].out = @ \cup seen,
                            ![s].last = cut,
                            ![s].state = IF page = Ahead(s) THEN "done" ELSE @]
    /\ UNCHANGED <<vars, folders>>

(* A page that cannot be had is the error of the whole call.               *)
ListFails(s) ==
    /\ "request" \in Faults
    /\ scan[s].state = "listing"
    /\ scan' = [scan EXCEPT ![s] = [NewScan EXCEPT !.state = "error"]]
    /\ UNCHANGED <<vars, folders>>

List(s) == StartList(s) \/ NextPage(s) \/ ListFails(s)

Calling == Next /\ UNCHANGED folders /\ scan' = Watched(scan)

ListNext ==
    \/ Calling
    \/ \E f \in Folders : CreateFolder(f)
    \/ \E s \in Scans : List(s)

ListSpec == ListInit /\ [][ListNext]_listVars

-----------------------------------------------------------------------------
Listed(s) == {e.item : e \in scan[s].out}

(* A listing shows every entry that was there from its beginning to its    *)
(* end, shows nothing that was not there at some time in between, and      *)
(* shows nothing twice, although its pages are read at different times.    *)
ListIsTrue ==
    \A s \in Scans :
       scan[s].state = "done" =>
          /\ scan[s].always \subseteq Listed(s)
          /\ Listed(s) \subseteq scan[s].ever
          /\ \A e, f \in scan[s].out : e.item = f.item => e = f

(* An object that is only moved, and only to later places in the order of  *)
(* keys, is in every listing, at its old place or at its new one: Move     *)
(* makes the copy before it removes the source.                            *)
MovedIsListed ==
    OnlyMoves =>
       \A s \in Scans, v \in Originals :
          scan[s].state = "done" =>
             \E e \in scan[s].out : v \in e.holds
=============================================================================
