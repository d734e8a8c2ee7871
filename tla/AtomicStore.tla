----------------------------- MODULE AtomicStore -----------------------------
(***************************************************************************)
(* What the interface storage.Storage promises its callers, whatever the   *)
(* backend: an object is there whole or not at all, a write replaces it in *)
(* one step, and a call that returns without error has had its effect.  A  *)
(* call that fails may have had it or not.  A move is one step when        *)
(* AtomicMove, and otherwise a copy followed by the removal of the source. *)
(***************************************************************************)
CONSTANTS Ops, Calls, InitialStore, AtomicMove, None

VARIABLES
    store,  \* the objects: a function from paths to values
    req,    \* the call each operation serves
    phase   \* its progress

vars == <<store, req, phase>>

With(f, k, v) == [x \in DOMAIN f \cup {k} |-> IF x = k THEN v ELSE f[x]]

Without(f, k) == [x \in DOMAIN f \ {k} |-> f[x]]

Init ==
    /\ store = InitialStore
    /\ req = [o \in Ops |-> None]
    /\ phase = [o \in Ops |-> "idle"]

Begin(o) ==
    /\ phase[o] = "idle"
    /\ \E c \in Calls : req' = [req EXCEPT ![o] = c]
    /\ phase' = [phase EXCEPT ![o] = "begun"]
    /\ UNCHANGED store

Write(o) ==
    /\ phase[o] = "begun"
    /\ req[o].op = "write"
    /\ store' = With(store, req[o].path, req[o].value)

Delete(o) ==
    /\ phase[o] = "begun"
    /\ req[o].op = "delete"
    /\ store' = Without(store, req[o].path)

Move(o) ==
    /\ AtomicMove
    /\ phase[o] = "begun"
    /\ req[o].op = "move"
    /\ req[o].src \in DOMAIN store
    /\ store' = IF req[o].src = req[o].dst
                THEN store
                ELSE Without(With(store, req[o].dst, store[req[o].src]), req[o].src)

CopyPart(o) ==
    /\ ~AtomicMove
    /\ phase[o] = "begun"
    /\ req[o].op = "move"
    /\ req[o].src \in DOMAIN store
    /\ store' = With(store, req[o].dst, store[req[o].src])

RemovePart(o) ==
    /\ phase[o] = "copied"
    /\ store' = Without(store, req[o].src)

Effect(o) == Write(o) \/ Delete(o) \/ Move(o) \/ RemovePart(o)

Copy(o) ==
    /\ CopyPart(o)
    /\ phase' = [phase EXCEPT ![o] = "copied"]
    /\ UNCHANGED req

(* The effect, with or after which the call returns.                       *)
Commit(o) ==
    /\ Effect(o)
    /\ \E p \in {"committed", "ok"} : phase' = [phase EXCEPT ![o] = p]
    /\ UNCHANGED req

Return(o) ==
    /\ phase[o] = "committed"
    /\ phase' = [phase EXCEPT ![o] = "ok"]
    /\ UNCHANGED <<store, req>>

Fail(o) ==
    /\ phase[o] \in {"begun", "copied", "committed"}
    /\ UNCHANGED store \/ CopyPart(o) \/ Effect(o)
    /\ phase' = [phase EXCEPT ![o] = "error"]
    /\ UNCHANGED req

Next == \E o \in Ops : Begin(o) \/ Copy(o) \/ Commit(o) \/ Return(o) \/ Fail(o)

Spec == Init /\ [][Next]_vars
=============================================================================
