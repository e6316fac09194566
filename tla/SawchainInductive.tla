------------------------- MODULE SawchainInductive --------------------------
(***************************************************************************)
(* The inductive invariant behind the promises of the AndWait functions.   *)
(* TLC checks it on the instances of MCSawchain, SawchainProofs proves it. *)
(***************************************************************************)
EXTENDS Sawchain

WriteVerbs == {"create", "update", "delete"}

(* Every state of k a reader of the client may still see, or the server's. *)
History(k) == pending[k] \cup {view[k], server[k]}

(* Versions and (dis)appearances advance together along a resource's       *)
(* history, the cache is never ahead of the server, and pending holds only *)
(* what is news to the cache.                                              *)
Ordered(k) ==
    /\ server[k].rv <= revision
    /\ \A s \in History(k) :
          /\ s.since <= s.rv /\ s.rv <= server[k].rv
          /\ s.present => FirstRevision <= s.rv
    /\ \A s \in pending[k] : view[k].rv < s.rv
    /\ \A s, t \in History(k) :
          /\ s.rv <= t.rv => s.since <= t.since
          /\ s.since = t.since => s.present = t.present
    /\ ~Cached => pending[k] = {}

HistoryOrdered ==
    /\ FirstRevision <= revision
    /\ \A k \in Keys : Ordered(k)

(* Where a call is determines which kind of call it is. *)
ControlOK(c) ==
    /\ pc[c] # "idle" => result[c] = "none"
    /\ pc[c] = "read" => call[c].verb = "update" /\ call[c].template
    /\ pc[c] = "write" => call[c].verb \in WriteVerbs
    /\ pc[c] \in {"await", "poll", "retry"} =>
          call[c].wait /\ call[c].verb \in WriteVerbs
    /\ pc[c] = "get" => call[c].verb \notin WriteVerbs

(* The j-th document of the call has been written. *)
IsWritten(c, j) ==
    \/ pc[c] \in {"read", "write"} /\ j < idx[c]
    \/ pc[c] \in {"await", "poll", "retry", "save"}
    \/ result[c] = "ok"

(* A written document has a version the server gave out, and until the     *)
(* polls start the object in hand carries it.                              *)
WritesRecorded(c) ==
    /\ \A k \in Keys : written[c][k] <= revision
    /\ call[c].verb \in WriteVerbs =>
          \A j \in 1..Len(call[c].docs) : IsWritten(c, j) =>
              LET k == call[c].docs[j]
              IN  /\ FirstRevision <= written[c][k]
                  /\ call[c].verb = "update" /\ pc[c] \in {"read", "write", "await"}
                        => held[c][Owner(c)][k].rv = written[c][k]

(* The polls of an update compare with the versions it wrote. *)
FloorIsWritten(c) ==
    pc[c] \in {"poll", "retry"} /\ call[c].verb = "update" =>
        \A k \in DocKeys(call[c]) : floor[c][k] = written[c][k]

(* Whatever the cache may still show from before a creation it was ready   *)
(* for is an absence, and from before a deletion a presence.               *)
SyncedBefore(c) ==
    \A k \in Keys : synced[c][k] /\ call[c].verb \in {"create", "delete"} =>
        \A s \in pending[k] \cup {view[k]} :
            s.rv < written[c][k] => s.present = (call[c].verb = "delete")

(* The documents the running poll has passed, all of them once it ended. *)
Passed(c, j) ==
    \/ pc[c] = "poll" /\ j < idx[c]
    \/ pc[c] = "save" \/ result[c] = "ok"

PassedReflected(c) ==
    call[c].wait /\ call[c].verb \in WriteVerbs =>
        \A j \in 1..Len(call[c].docs) : Passed(c, j) =>
            LET k == call[c].docs[j]
            IN  call[c].verb = "update" \/ synced[c][k] => Reflected(c, k)

(* Only an update compares versions, and that means something only while   *)
(* the order of their texts is theirs.                                     *)
Comparable(c) ==
    call[c].verb = "update" => OrderAgrees(FirstRevision, revision)

CallerInv(c) ==
    /\ ControlOK(c)
    /\ WritesRecorded(c)
    /\ FloorIsWritten(c)
    /\ SyncedBefore(c)

IInv ==
    /\ TypeOK
    /\ HistoryOrdered
    /\ \A c \in Callers : CallerInv(c)
    /\ \A c \in Callers : Comparable(c) => PassedReflected(c)
=============================================================================
