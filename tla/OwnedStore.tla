----------------------------- MODULE OwnedStore -----------------------------
(***************************************************************************)
(* What Sawchain promises to goroutines that own their resources and wait  *)
(* for their writes (docs/parallel-tests.md): each works as if on a store  *)
(* without caches and versions.  A call changes the store only at its own  *)
(* resources and as its verb says, returns without error only when all of  *)
(* it is done, fills objects with what is stored then, and says not found  *)
(* or exists only when that is so.  It may give up at any time.            *)
(***************************************************************************)
CONSTANTS Callers, Keys, Absent

(* A call: its verb, its resources, the value it writes, and whether it    *)
(* fills objects.                                                          *)
CONSTANT Calls      \* the calls of each caller

VARIABLES
    store,      \* what is stored, Absent or a value
    call,       \* the call a caller makes, or made last
    busy,       \* it is running
    left,       \* resources it has yet to write
    outcome,    \* how it ended
    objects     \* what it filled the objects with

storeVars == <<store, call, busy, left, outcome, objects>>

Reads == {"get", "fetch"}
NoObjects == [k \in {} |-> Absent]

Init ==
    /\ DOMAIN store = Keys
    /\ DOMAIN call = Callers /\ \A c \in Callers : call[c] \in Calls[c]
    /\ busy = [c \in Callers |-> FALSE]
    /\ left = [c \in Callers |-> call[c].keys]
    /\ outcome = [c \in Callers |-> "none"]
    /\ objects = [c \in Callers |-> NoObjects]

Start(c) ==
    /\ ~busy[c]
    /\ busy' = [busy EXCEPT ![c] = TRUE]
    /\ \E r \in Calls[c] :
          /\ call' = [call EXCEPT ![c] = r]
          /\ left' = [left EXCEPT ![c] = r.keys]
    /\ outcome' = [outcome EXCEPT ![c] = "none"]
    /\ objects' = [objects EXCEPT ![c] = NoObjects]
    /\ UNCHANGED store

Change(c) ==
    /\ busy[c] /\ call[c].verb \notin Reads
    /\ \E k \in left[c] :
          /\ left' = [left EXCEPT ![c] = @ \ {k}]
          /\ (store[k] = Absent) <=> (call[c].verb = "create")
          /\ store' = [store EXCEPT ![k] =
                          IF call[c].verb = "delete" THEN Absent ELSE call[c].val]
    /\ UNCHANGED <<call, busy, outcome, objects>>

Return(c, how, filled) ==
    /\ busy[c]
    /\ busy' = [busy EXCEPT ![c] = FALSE]
    /\ outcome' = [outcome EXCEPT ![c] = how]
    /\ objects' = [objects EXCEPT ![c] = filled]
    /\ UNCHANGED <<store, call, left>>

Done(r, rest) ==
    IF r.verb \in Reads THEN \A k \in r.keys : store[k] # Absent ELSE rest = {}

Filling(r) == IF r.fills THEN [k \in r.keys |-> store[k]] ELSE NoObjects

Succeed(c) == Done(call[c], left[c]) /\ Return(c, "ok", Filling(call[c]))

NotFound(c) ==
    /\ call[c].verb # "create"
    /\ \E k \in left[c] : store[k] = Absent
    /\ Return(c, "notfound", NoObjects)

Exists(c) ==
    /\ call[c].verb = "create"
    /\ \E k \in left[c] : store[k] # Absent
    /\ Return(c, "exists", NoObjects)

GiveUp(c) == Return(c, "gaveup", NoObjects)

Next == \E c \in Callers :
    Start(c) \/ Change(c) \/ Succeed(c) \/ NotFound(c) \/ Exists(c) \/ GiveUp(c)

Spec == Init /\ [][Next]_storeVars
=============================================================================
