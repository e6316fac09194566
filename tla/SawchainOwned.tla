--------------------------- MODULE SawchainOwned ----------------------------
(***************************************************************************)
(* Sawchain under exclusive use implements OwnedStore: the refinement      *)
(* mapping.                                                                *)
(***************************************************************************)
EXTENDS Sawchain

CONSTANT Absent     \* no resource of that name

ASSUME AbsentAssumption == Absent \notin Vals \cup {NoVal}

(* A request, without what only the code knows of it.  The objects of a    *)
(* call without a template are always filled, except by a delete.          *)
Fills(r) == r.verb # "delete" /\ (r.template => r.save)
Promised(r) == [verb |-> r.verb, keys |-> DocKeys(r), val |-> r.val, fills |-> Fills(r)]

StoredValues == [k \in Keys |-> IF server[k].present THEN server[k].val ELSE Absent]

(* Documents not written yet.  A read writes none. *)
Left(c) == {k \in DocKeys(call[c]) : written[c][k] = 0}

(* Only an answer of the server about a document that is left says that it *)
(* is there or not; the polls give up.  A conflict is not promised at all. *)
OutcomeOf(c) ==
    IF result[c] \in {"none", "ok"} THEN result[c]
    ELSE IF cause[c] = "conflict" THEN "conflict"
    ELSE IF cause[c] \in {"notfound", "exists"} /\ Left(c) # {} THEN cause[c]
    ELSE "gaveup"

Filled(c) ==
    IF result[c] = "ok" /\ Fills(call[c])
    THEN [k \in DocKeys(call[c]) |-> held[c]["caller"][k].val]
    ELSE [k \in {} |-> Absent]

Owned == INSTANCE OwnedStore WITH
    Calls <- [c \in Callers |-> {Promised(r) : r \in Requests[c]}],
    store <- StoredValues,
    call <- [c \in Callers |-> Promised(call[c])],
    busy <- [c \in Callers |-> pc[c] # "idle"],
    left <- [c \in Callers |-> Left(c)],
    outcome <- [c \in Callers |-> OutcomeOf(c)],
    objects <- [c \in Callers |-> Filled(c)]

(* Under exclusive use every step of a caller is a step of OwnedStore or   *)
(* changes nothing there: no cache, version or poll shows through ("The    *)
(* solution is exclusive ownership", docs/parallel-tests.md:39).           *)
ImplementsOwnedStore == Owned!Spec
=============================================================================
