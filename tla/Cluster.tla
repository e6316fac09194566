------------------------------ MODULE Cluster -------------------------------
(***************************************************************************)
(* What Sawchain's client talks to: an API server that orders every write  *)
(* by one revision counter, and the cache behind a cached client, which    *)
(* follows the server at its own pace.  Neither is code of the repository; *)
(* both are modelled from what Sawchain calls (client.Get, Create, Update  *)
(* and Delete) and from what its documentation says of them.  The module   *)
(* has no next-state relation of its own: Sawchain takes its steps through *)
(* the operators below, and Environment is everybody else.                 *)
(***************************************************************************)
EXTENDS Naturals

CONSTANTS
    Keys,           \* the resources (kind, namespace and name)
    Vals,           \* values of the field the tests write
    NoVal,          \* that field when it is absent
    FirstRevision,  \* the server's revision when the tests start
    Cached,         \* TRUE when client.Get reads a cache
    Finalized,      \* resources that carry a finalizer
    EnvOps,         \* what other writers do: see Environment
    MaxEnv          \* bound on the number of their writes

ASSUME ClusterAssumption ==
    /\ NoVal \notin Vals
    /\ FirstRevision \in Nat \ {0}
    /\ Cached \in BOOLEAN
    /\ Finalized \subseteq Keys
    /\ EnvOps \subseteq {"create", "update", "delete", "finalize"}
    /\ MaxEnv \in Nat

VARIABLES
    server,     \* what the API server stores for each key
    view,       \* what client.Get answers for each key
    pending,    \* committed states the cache may still move to
    revision,   \* the server's revision counter
    envs        \* writes made by others

clusterVars == <<server, view, pending, revision, envs>>

(* A stored state.  A deleted resource keeps the revision of its deletion: *)
(* rv is the revision of the last write, since the one at which the        *)
(* resource last appeared or disappeared, other counts the writes other    *)
(* parties made to fields the tests do not own.                            *)
State == [present : BOOLEAN, rv : Nat, since : Nat,
          val : Vals \cup {NoVal}, other : Nat, deleting : BOOLEAN]

Never == [present |-> FALSE, rv |-> 0, since |-> 0,
          val |-> NoVal, other |-> 0, deleting |-> FALSE]

Fresh(r, v) == [present |-> TRUE, rv |-> r, since |-> r,
                val |-> v, other |-> 0, deleting |-> FALSE]

Gone(r) == [Never EXCEPT !.rv = r, !.since = r]

ClusterInit ==
    /\ server \in [Keys -> {Never} \cup {Fresh(FirstRevision, v) : v \in Vals}]
    /\ view = server
    /\ pending = [k \in Keys |-> {}]
    /\ revision = FirstRevision
    /\ envs = 0

(* Every write takes the next revision.  An uncached client reads it at    *)
(* once; a cache learns of it later.                                       *)
Commit(k, s) ==
    /\ revision' = s.rv
    /\ server' = [server EXCEPT ![k] = s]
    /\ IF Cached
       THEN /\ pending' = [pending EXCEPT ![k] = @ \cup {s}]
            /\ UNCHANGED view
       ELSE /\ view' = [view EXCEPT ![k] = s]
            /\ UNCHANGED pending

NextRevision == revision + 1

(* The state a successful create, update or delete leaves.  An update that *)
(* changes nothing and a delete of a resource already being deleted leave  *)
(* the state as it is; with a finalizer a delete only marks the resource.  *)
Created(k, v) == Fresh(NextRevision, v)

Updated(k, v, o) ==
    IF server[k].val = v /\ server[k].other = o
    THEN server[k]
    ELSE [server[k] EXCEPT !.val = v, !.other = o, !.rv = NextRevision]

Deleted(k) ==
    IF server[k].deleting THEN server[k]
    ELSE IF k \in Finalized
         THEN [server[k] EXCEPT !.deleting = TRUE, !.rv = NextRevision]
         ELSE Gone(NextRevision)

(* Store s under k, which is a write only if it changes something. *)
Store(k, s) ==
    IF s = server[k]
    THEN UNCHANGED <<server, view, pending, revision>>
    ELSE Commit(k, s)

(* The cache moves to a later state of one resource.  Events of a resource *)
(* arrive in order; a relist may skip some.                                *)
Sync(k) ==
    /\ \E s \in pending[k] :
          /\ view' = [view EXCEPT ![k] = s]
          /\ pending' = [pending EXCEPT ![k] = {e \in @ : e.rv > s.rv}]
    /\ UNCHANGED <<server, revision, envs>>

(* Controllers and other tests: they write fields of their own, delete and *)
(* create resources, and remove finalizers.                                *)
OtherCreate(k) ==
    /\ "create" \in EnvOps /\ ~server[k].present
    /\ \E v \in Vals : Commit(k, Created(k, v))

OtherUpdate(k) ==
    /\ "update" \in EnvOps /\ server[k].present
    /\ Commit(k, Updated(k, server[k].val, server[k].other + 1))

OtherDelete(k) ==
    /\ "delete" \in EnvOps /\ server[k].present /\ ~server[k].deleting
    /\ Commit(k, Deleted(k))

FinalizerDone(k) ==
    /\ "finalize" \in EnvOps /\ server[k].deleting
    /\ Commit(k, Gone(NextRevision))

Environment(k) ==
    /\ envs < MaxEnv
    /\ envs' = envs + 1
    /\ OtherCreate(k) \/ OtherUpdate(k) \/ OtherDelete(k) \/ FinalizerDone(k)

ClusterTypeOK ==
    /\ server \in [Keys -> State]
    /\ view \in [Keys -> State]
    /\ pending \in [Keys -> SUBSET State]
    /\ revision \in Nat
    /\ envs \in Nat
=============================================================================
