---------------------------- MODULE ClusterProofs ---------------------------
(***************************************************************************)
(* Facts about the API server and the cache that the proofs about Sawchain *)
(* and about Polling share.                                                *)
(***************************************************************************)
EXTENDS Cluster, TLAPS

-----------------------------------------------------------------------------
(* The states the server can be asked to store are states. *)
LEMMA StoredStates ==
    ASSUME ClusterTypeOK, NEW k \in Keys,
           NEW v \in Vals \cup {NoVal}, NEW o \in Nat
    PROVE  /\ NextRevision \in Nat
           /\ Created(k, v) \in State
           /\ Updated(k, v, o) \in State
           /\ Deleted(k) \in State
           /\ Gone(NextRevision) \in State
<1>1. server[k] \in State /\ NextRevision \in Nat
  BY DEF ClusterTypeOK, NextRevision
<1> QED
  BY <1>1 DEF State, Created, Fresh, Updated, Deleted, Gone, Never

(* Storing a state keeps the cluster's types. *)
LEMMA StoreType ==
    ASSUME ClusterTypeOK, NEW k \in Keys, NEW s \in State,
           Commit(k, s) \/ Store(k, s), envs' \in Nat
    PROVE  ClusterTypeOK'
<1>1. s.rv \in Nat
  BY DEF State
<1> QED
  BY <1>1 DEF ClusterTypeOK, Store, Commit

(* What the cluster does on its own keeps its types. *)
LEMMA WorldType ==
    ASSUME ClusterTypeOK, NEW k \in Keys, Sync(k) \/ Environment(k)
    PROVE  ClusterTypeOK'
<1>1. CASE Sync(k)
  BY <1>1 DEF ClusterTypeOK, Sync
<1>2. CASE Environment(k)
  <2>1. envs' \in Nat
    BY <1>2 DEF Environment, ClusterTypeOK
  <2>2. CASE OtherCreate(k)
    BY <2>1, <2>2, StoredStates, StoreType, 0 \in Nat DEF OtherCreate
  <2>3. CASE OtherUpdate(k)
    <3>1. server[k].val \in Vals \cup {NoVal} /\ server[k].other + 1 \in Nat
      BY DEF ClusterTypeOK, State
    <3> QED
      BY <2>1, <2>3, <3>1, StoredStates, StoreType DEF OtherUpdate
  <2>4. CASE OtherDelete(k)
    BY <2>1, <2>4, StoredStates, StoreType, 0 \in Nat DEF OtherDelete
  <2>5. CASE FinalizerDone(k)
    BY <2>1, <2>5, StoredStates, StoreType, 0 \in Nat DEF FinalizerDone
  <2> QED
    BY <1>2, <2>2, <2>3, <2>4, <2>5 DEF Environment
<1> QED
  BY <1>1, <1>2
-----------------------------------------------------------------------------
(* A state that may follow the server's state of k: it takes the next      *)
(* revision, and either keeps the resource's presence or starts anew.      *)
Successor(k, s) ==
    /\ s \in State
    /\ s.rv = NextRevision
    /\ \/ s.since = server[k].since /\ s.present = server[k].present
       \/ s.since = NextRevision

LEMMA SuccessorStates ==
    ASSUME ClusterTypeOK, NEW k \in Keys,
           NEW v \in Vals \cup {NoVal}, NEW o \in Nat
    PROVE  /\ Successor(k, Created(k, v))
           /\ \/ Updated(k, v, o) = server[k] /\ server[k].other = o
              \/ Successor(k, Updated(k, v, o))
           /\ \/ Deleted(k) = server[k] /\ server[k].deleting
              \/ Successor(k, Deleted(k))
           /\ Successor(k, Gone(NextRevision))
<1>1. server[k] \in State
  BY DEF ClusterTypeOK
<1>2. /\ Created(k, v) \in State /\ Updated(k, v, o) \in State
      /\ Deleted(k) \in State /\ Gone(NextRevision) \in State
  BY StoredStates
<1>3. Successor(k, Created(k, v)) /\ Successor(k, Gone(NextRevision))
  BY <1>2 DEF Successor, Created, Fresh, Gone, Never
<1>4. \/ Updated(k, v, o) = server[k] /\ server[k].other = o
      \/ Successor(k, Updated(k, v, o))
  BY <1>1, <1>2 DEF Successor, Updated, State
<1>5. (Deleted(k) = server[k] /\ server[k].deleting) \/ Successor(k, Deleted(k))
  BY <1>1, <1>2 DEF Successor, Deleted, Gone, Never, State
<1> QED
  BY <1>3, <1>4, <1>5

-----------------------------------------------------------------------------
(* The cache is never ahead of the server, and what it may still move to   *)
(* is news; a resource that is there has a version.                        *)
Behind(k) ==
    /\ view[k].rv <= revision
    /\ view[k].present => FirstRevision <= view[k].rv
    /\ server[k].present => FirstRevision <= server[k].rv
    /\ \A s \in pending[k] : /\ view[k].rv < s.rv /\ s.rv <= revision
                            /\ FirstRevision <= s.rv
    /\ ~Cached => pending[k] = {}

CacheBehind == FirstRevision <= revision /\ \A k \in Keys : Behind(k)

LEMMA ClusterStarts == ClusterInit => ClusterTypeOK /\ CacheBehind
<1> SUFFICES ASSUME ClusterInit PROVE ClusterTypeOK /\ CacheBehind
  OBVIOUS
<1>1. FirstRevision \in Nat /\ revision = FirstRevision
  BY ClusterAssumption DEF ClusterInit
<1>2. \A k \in Keys : /\ server[k] = Never \/ \E v \in Vals : server[k] = Fresh(FirstRevision, v)
                      /\ view[k] = server[k] /\ pending[k] = {}
  BY DEF ClusterInit
<1>3. Never \in State /\ \A v \in Vals : Fresh(FirstRevision, v) \in State
  BY <1>1 DEF Never, Fresh, State
<1>4. ClusterTypeOK
  BY <1>1, <1>2, <1>3 DEF ClusterInit, ClusterTypeOK
<1>5. \A k \in Keys : server[k].rv \in {0, FirstRevision}
                      /\ (server[k].present => server[k].rv = FirstRevision)
  <2>1. Never.rv = 0 /\ ~Never.present
    BY DEF Never
  <2>2. \A v \in Vals : Fresh(FirstRevision, v).rv = FirstRevision
    BY DEF Fresh
  <2> QED
    BY <1>2, <2>1, <2>2
<1> QED
  BY <1>1, <1>2, <1>4, <1>5 DEF CacheBehind, Behind

LEMMA CommitBehind ==
    ASSUME ClusterTypeOK, CacheBehind, NEW q \in Keys, NEW s, Successor(q, s), Commit(q, s)
    PROVE  CacheBehind' /\ \A k \in Keys : view[k].rv <= view'[k].rv
<1>1. s \in State /\ s.rv = revision + 1 /\ revision \in Nat /\ revision' = s.rv
      /\ FirstRevision \in Nat /\ FirstRevision <= s.rv
  BY ClusterAssumption DEF Successor, NextRevision, ClusterTypeOK, Commit, CacheBehind
<1>2. server' = [server EXCEPT ![q] = s]
  BY DEF Commit
<1>3. ASSUME NEW k \in Keys
      PROVE  Behind(k)' /\ view[k].rv <= view'[k].rv
  <2>1. view[k] \in State /\ server[k] \in State /\ pending[k] \in SUBSET State /\ Behind(k)
    BY DEF ClusterTypeOK, CacheBehind
  <2>2. /\ view[k].rv \in Nat /\ server[k].rv \in Nat /\ s.rv \in Nat
        /\ \A e \in pending[k] : e.rv \in Nat
    BY <1>1, <2>1 DEF State
  <2>3. server'[k].present => FirstRevision <= server'[k].rv
    BY <1>1, <1>2, <2>1 DEF Behind, ClusterTypeOK
  <2>4. CASE Cached
    <3>1. view' = view /\ pending'[k] \subseteq pending[k] \cup {s}
      BY <2>4 DEF Commit, ClusterTypeOK
    <3>2. view[k].rv <= revision /\ view[k].rv < s.rv
      BY <1>1, <2>1, <2>2 DEF Behind
    <3>3. \A e \in pending'[k] : /\ view[k].rv < e.rv /\ e.rv <= s.rv
                                 /\ FirstRevision <= e.rv
      BY <1>1, <2>1, <2>2, <3>1, <3>2 DEF Behind
    <3> QED
      BY <1>1, <2>1, <2>2, <2>3, <2>4, <3>1, <3>2, <3>3 DEF Behind
  <2>5. CASE ~Cached
    <3>1. view'[k] \in {view[k], s} /\ pending' = pending /\ pending[k] = {}
      BY <2>1, <2>5 DEF Commit, ClusterTypeOK, Behind
    <3>2. CASE view'[k] = view[k]
      BY <1>1, <2>1, <2>2, <2>3, <3>1, <3>2 DEF Behind
    <3>3. CASE view'[k] = s
      BY <1>1, <2>1, <2>2, <2>3, <3>1, <3>3 DEF Behind
    <3> QED
      BY <3>1, <3>2, <3>3
  <2> QED
    BY <2>4, <2>5
<1> QED
  BY <1>1, <1>3 DEF CacheBehind

(* The cluster moves on its own, and no reader sees an older state.        *)
LEMMA WorldBehind ==
    ASSUME ClusterTypeOK, CacheBehind, NEW q \in Keys, Sync(q) \/ Environment(q)
    PROVE  CacheBehind' /\ \A k \in Keys : view[k].rv <= view'[k].rv
<1>1. CASE Sync(q)
  <2>1. PICK s \in pending[q] : /\ view' = [view EXCEPT ![q] = s]
                                /\ pending' = [pending EXCEPT ![q] = {e \in @ : e.rv > s.rv}]
    BY <1>1 DEF Sync
  <2>2. server' = server /\ revision' = revision
    BY <1>1 DEF Sync
  <2>3. ASSUME NEW k \in Keys
        PROVE  Behind(k)' /\ view[k].rv <= view'[k].rv
    <3>1. view[k] \in State /\ pending[k] \in SUBSET State /\ Behind(k)
      BY DEF ClusterTypeOK, CacheBehind
    <3>2. view[k].rv \in Nat /\ \A e \in pending[k] : e.rv \in Nat
      BY <3>1 DEF State
    <3>3. CASE k = q
      <4>1. view'[k] = s /\ pending'[k] = {e \in pending[k] : e.rv > s.rv} /\ s \in pending[k]
        BY <2>1, <3>3 DEF ClusterTypeOK
      <4>2. \A e \in pending'[k] : e \in pending[k] /\ s.rv < e.rv
        BY <3>2, <4>1
      <4>3. Cached
        BY <3>1, <4>1 DEF Behind
      <4>4. /\ view[k].rv < s.rv /\ s.rv <= revision
            /\ FirstRevision <= s.rv
        BY <3>1, <4>1 DEF Behind
      <4>5. \A e \in pending'[k] : e.rv <= revision
                                  /\ FirstRevision <= e.rv
        BY <3>1, <4>2 DEF Behind
      <4> QED
        BY <2>2, <3>1, <3>2, <4>1, <4>2, <4>3, <4>4, <4>5 DEF Behind
    <3>4. CASE k # q
      <4>1. view'[k] = view[k] /\ pending'[k] = pending[k]
        BY <2>1, <3>4 DEF ClusterTypeOK
      <4> QED
        BY <2>2, <3>1, <3>2, <4>1 DEF Behind
    <3> QED
      BY <3>3, <3>4
  <2> QED
    BY <2>2, <2>3 DEF CacheBehind
<1>2. CASE Environment(q)
  <2>0. /\ server[q].val \in Vals \cup {NoVal} /\ server[q].other \in Nat
        /\ server[q].other + 1 \in Nat /\ server[q].other # server[q].other + 1
    BY DEF ClusterTypeOK, State
  <2>1. CASE OtherCreate(q)
    BY <2>0, <2>1, SuccessorStates, CommitBehind DEF OtherCreate
  <2>2. CASE OtherUpdate(q)
    BY <2>0, <2>2, SuccessorStates, CommitBehind DEF OtherUpdate
  <2>3. CASE OtherDelete(q)
    BY <2>0, <2>3, SuccessorStates, CommitBehind DEF OtherDelete
  <2>4. CASE FinalizerDone(q)
    BY <2>0, <2>4, SuccessorStates, CommitBehind DEF FinalizerDone
  <2> QED
    BY <1>2, <2>1, <2>2, <2>3, <2>4 DEF Environment
<1> QED
  BY <1>1, <1>2
=============================================================================
