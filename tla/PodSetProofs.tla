---------------------------- MODULE PodSetProofs ----------------------------
(***************************************************************************)
(* Proofs about PodSet: types, that the loop over the replicas stops, that *)
(* no reconcile meets a PodSet without a usable number of replicas, that   *)
(* the Ready condition is true, and that nothing is left to do when the    *)
(* queue is empty, for any number of replicas, submissions, failures and   *)
(* restarts.                                                               *)
(***************************************************************************)
EXTENDS PodSet, TLAPS

(* What the webhooks let through. *)
Usable == {s \in SetState : s.spec.replicas \in Nat}

(* Neither webhook looks at the cache or at the reconciler, so             *)
(* SpecsAreUsable needs every place where a PodSet is kept on the way from *)
(* the one to the other.                                                   *)
ServerOK ==
    /\ podSet \in Usable /\ setFeed \in Seq(Usable)
    /\ pods \in [PodNames -> PodState] /\ podFeed \in [PodNames -> Seq(PodState)]

CacheOK == cachedSet \in Usable /\ cachedPods \in [PodNames -> PodState]

WorkerOK ==
    /\ pc \in {"idle", "list", "apply"}
    /\ held \in Usable
    /\ existing \in SUBSET PodNames
    /\ next \in 0..MaxReplicas

HistoryOK == lost \in SUBSET PodNames /\ unnoticed \subseteq lost

PInv == ServerOK /\ CacheOK /\ WorkerOK /\ queued \in BOOLEAN /\ HistoryOK

-----------------------------------------------------------------------------
LEMMA NoSetUsable == NoSet \in Usable
  BY PodSetAssumption DEF NoSet, Usable, SetState, Specs, AnyImage

LEMMA NoPodIsPod == NoPod \in PodState
  BY PodSetAssumption DEF NoPod, PodState, AnyImage

LEMMA CountersGrow ==
  ASSUME NEW s \in Usable
  PROVE  s.rv + 1 \in Nat /\ s.generation + 1 \in Nat
  BY DEF Usable, SetState

(* A new spec or a new status leaves a PodSet usable. *)
LEMMA NewSpecUsable ==
  ASSUME NEW s \in Usable, NEW d \in Specs, d.replicas \in Nat,
         NEW r \in Nat, NEW g \in Nat
  PROVE  [s EXCEPT !.present = TRUE, !.rv = r, !.spec = d, !.generation = g,
                   !.defaulted = TRUE] \in Usable
  BY DEF Usable, SetState

LEMMA NewStatusUsable ==
  ASSUME NEW s \in Usable, NEW names \in SUBSET PodNames, NEW r \in Nat, NEW o \in Nat
  PROVE  [s EXCEPT !.rv = r, !.pods = names, !.observed = o] \in Usable
  BY DEF Usable, SetState

(* A submitted spec the two webhooks let through has replicas to count to. *)
LEMMA AdmittedSpec ==
  ASSUME NEW s \in Submissions, Valid(Defaulted(s))
  PROVE  Defaulted(s) \in Specs /\ Defaulted(s).replicas \in Nat
<1>1. s = [replicas |-> s.replicas, name |-> s.name, image |-> s.image]
  BY PodSetAssumption
<1>2. Defaulted(s) = [replicas |-> IF s.replicas = Unset THEN 1 ELSE s.replicas,
                      name |-> s.name, image |-> s.image]
  BY <1>1 DEF Defaulted
<1>3. Defaulted(s).replicas \in 0..MaxReplicas
  BY <1>2, PodSetAssumption DEF Valid
<1> QED
  BY <1>2, <1>3 DEF Valid, Specs

LEMMA DesiredArePods ==
  ASSUME NEW s \in Usable
  PROVE  Desired(s.spec) \in SUBSET PodNames
  BY PodSetAssumption DEF Usable, SetState, Specs, Desired, PodNames

(* The loop stays inside the replicas of a usable PodSet. *)
LEMMA LoopInside ==
  ASSUME WorkerOK, MoreReplicas
  PROVE  next + 1 \in 0..MaxReplicas /\ PodName \in PodNames
<1>1. held.spec \in Specs /\ held.spec.replicas \in Nat
  BY DEF WorkerOK, Usable, SetState
<1>2. held.spec.replicas \in 0..MaxReplicas
  BY <1>1, PodSetAssumption DEF Specs
<1> QED
  BY <1>1, <1>2, PodSetAssumption DEF WorkerOK, MoreReplicas, PodName, PodNames, Specs

(* The two writes keep what is stored and announced as it should be. *)
LEMMA WriteSetOK ==
  ASSUME ServerOK, NEW s \in Usable, WriteSet(s)
  PROVE  ServerOK'
  BY DEF ServerOK, WriteSet

LEMMA WritePodOK ==
  ASSUME ServerOK, NEW p \in PodNames, NEW s \in PodState, WritePod(p, s)
  PROVE  ServerOK'
<1>1. Append(podFeed[p], s) \in Seq(PodState)
  BY DEF ServerOK
<1> QED
  BY <1>1 DEF ServerOK, WritePod

LEMMA DeletedIsPod ==
  ASSUME ServerOK, NEW p \in PodNames
  PROVE  DeletedPod(p) \in PodState
  BY NoPodIsPod DEF ServerOK, DeletedPod, PodState

(* However a request ends, the worker is where it can be. *)
LEMMA LeaveOK ==
  ASSUME Leave
  PROVE  WorkerOK'
  BY NoSetUsable, PodSetAssumption DEF Leave, WorkerOK

LEMMA FailOK ==
  ASSUME Fail
  PROVE  WorkerOK' /\ queued' \in BOOLEAN
  BY LeaveOK DEF Fail

LEMMA GotoOK ==
  ASSUME WorkerOK, queued \in BOOLEAN, NEW left \in SUBSET PodNames,
         NEW i \in 0..MaxReplicas, Goto("apply", left, i)
  PROVE  WorkerOK' /\ queued' \in BOOLEAN
  BY DEF WorkerOK, Goto

-----------------------------------------------------------------------------
LEMMA InitHolds == Init => PInv
<1> SUFFICES ASSUME Init PROVE PInv
  OBVIOUS
<1>1. pods \in [PodNames -> PodState] /\ cachedPods \in [PodNames -> PodState]
  BY NoPodIsPod DEF Init
<1>2. setFeed \in Seq(Usable) /\ podFeed \in [PodNames -> Seq(PodState)]
  BY DEF Init
<1>3. WorkerOK
  BY NoSetUsable, PodSetAssumption DEF Init, WorkerOK
<1> QED
  BY <1>1, <1>2, <1>3, NoSetUsable DEF Init, PInv, ServerOK, CacheOK, HistoryOK, history

LEMMA SubmitHolds == PInv /\ Submit => PInv'
<1> SUFFICES ASSUME PInv, Submit PROVE PInv'
  OBVIOUS
<1> USE DEF PInv
<1>1. PICK s \in Submissions :
        LET d == Defaulted(s)
            new == [podSet EXCEPT !.present = TRUE, !.rv = @ + 1, !.spec = d,
                                  !.generation = @ + 1, !.defaulted = TRUE]
        IN  /\ Valid(d)
            /\ WriteSet(IF podSet.present /\ podSet.spec = d THEN podSet ELSE new)
  BY DEF Submit
<1> DEFINE d == Defaulted(s)
           new == [podSet EXCEPT !.present = TRUE, !.rv = @ + 1, !.spec = d,
                                 !.generation = @ + 1, !.defaulted = TRUE]
<1>2. d \in Specs /\ d.replicas \in Nat
  BY <1>1, AdmittedSpec
<1> HIDE DEF d
<1>3. new \in Usable
  BY <1>2, NewSpecUsable, CountersGrow DEF ServerOK
<1>4. podSet \in Usable
  BY DEF ServerOK
<1>5. WriteSet(IF podSet.present /\ podSet.spec = d THEN podSet ELSE new)
  BY <1>1 DEF d
<1>6. ServerOK'
  BY <1>3, <1>4, <1>5, WriteSetOK
<1> QED
  BY <1>6 DEF Submit, cache, worker, CacheOK, HistoryOK, history, WorkerOK

LEMMA RemoveSetHolds == PInv /\ RemoveSet => PInv'
<1> SUFFICES ASSUME PInv, RemoveSet PROVE PInv'
  OBVIOUS
<1> USE DEF PInv
<1>1. [NoSet EXCEPT !.rv = podSet.rv + 1] \in Usable
  <2>1. podSet.rv + 1 \in Nat
    BY CountersGrow DEF ServerOK
  <2>2. NoSet \in SetState /\ NoSet.spec.replicas \in Nat
    BY NoSetUsable DEF Usable
  <2> DEFINE gone == [NoSet EXCEPT !.rv = podSet.rv + 1]
  <2>3. gone \in SetState /\ gone.spec = NoSet.spec
    BY <2>1, <2>2 DEF NoSet, SetState
  <2> QED
    BY <2>2, <2>3 DEF Usable
<1>2. ServerOK'
  BY <1>1, WriteSetOK DEF RemoveSet
<1> QED
  BY <1>2 DEF RemoveSet, cache, worker, CacheOK, HistoryOK, history, WorkerOK

LEMMA PodGoneHolds ==
  ASSUME PInv, NEW p \in PodNames, PodGone(p)
  PROVE  PInv'
<1>1. ServerOK'
  BY NoPodIsPod, WritePodOK DEF PInv, PodGone
<1> QED
  BY <1>1 DEF PInv, PodGone, cache, worker, CacheOK, HistoryOK, history, WorkerOK

LEMMA RemovePodHolds ==
  ASSUME PInv, NEW p \in PodNames, RemovePod(p)
  PROVE  PInv'
<1>1. ServerOK'
  BY DeletedIsPod, WritePodOK DEF PInv, RemovePod
<1> QED
  BY <1>1 DEF PInv, RemovePod, cache, worker, CacheOK, HistoryOK, history, WorkerOK

(* What arrives in the cache was announced. *)
LEMMA SetEventHolds == PInv /\ SetEvent => PInv'
<1> SUFFICES ASSUME PInv, SetEvent PROVE PInv'
  OBVIOUS
<1>1. Head(setFeed) \in Usable /\ Tail(setFeed) \in Seq(Usable)
  BY DEF PInv, ServerOK, SetEvent
<1> QED
  BY <1>1 DEF PInv, SetEvent, ServerOK, CacheOK, HistoryOK, history, WorkerOK, worker

LEMMA PodEventHolds ==
  ASSUME PInv, NEW p \in PodNames, PodEvent(p)
  PROVE  PInv'
<1>1. Head(podFeed[p]) \in PodState /\ Tail(podFeed[p]) \in Seq(PodState)
  BY DEF PInv, ServerOK, PodEvent
<1>2. cachedPods' \in [PodNames -> PodState] /\ podFeed' \in [PodNames -> Seq(PodState)]
  BY <1>1 DEF PInv, PodEvent, ServerOK, CacheOK, HistoryOK, history
<1>3. queued' \in BOOLEAN
  BY DEF PInv, PodEvent
<1> QED
  BY <1>2, <1>3 DEF PInv, PodEvent, ServerOK, CacheOK, HistoryOK, history, WorkerOK, worker

LEMMA RestartHolds == PInv /\ Restart => PInv'
<1> SUFFICES ASSUME PInv, Restart PROVE PInv'
  OBVIOUS
<1>1. WorkerOK'
  BY LeaveOK DEF Restart, Leave
<1>2. queued' \in BOOLEAN
  BY DEF Restart
<1>3. ServerOK' /\ CacheOK'
  BY DEF PInv, ServerOK, CacheOK, HistoryOK, history, Restart
<1> QED
  BY <1>1, <1>2, <1>3 DEF PInv, Restart, HistoryOK, history

-----------------------------------------------------------------------------
LEMMA ReconcileHolds == PInv /\ Reconcile => PInv'
<1> SUFFICES ASSUME PInv, Reconcile PROVE PInv'
  OBVIOUS
<1>1. WorkerOK' /\ queued' \in BOOLEAN
  BY DEF PInv, Reconcile, WorkerOK, CacheOK, HistoryOK, history, worker
<1> QED
  BY <1>1 DEF PInv, Reconcile, server, cache, ServerOK, CacheOK, HistoryOK, history

LEMMA ListPodsHolds == PInv /\ ListPods => PInv'
<1> SUFFICES ASSUME PInv, ListPods PROVE PInv'
  OBVIOUS
<1>1. WorkerOK' /\ queued' \in BOOLEAN
  BY GotoOK, PodSetAssumption DEF PInv, ListPods
<1> QED
  BY <1>1 DEF PInv, ListPods, server, cache, ServerOK, CacheOK, HistoryOK, history

LEMMA UpdatePodHolds == PInv /\ UpdatePod => PInv'
<1> SUFFICES ASSUME PInv, UpdatePod PROVE PInv'
  OBVIOUS
<1> USE DEF PInv
<1>1. next + 1 \in 0..MaxReplicas /\ PodName \in PodNames
  BY LoopInside DEF UpdatePod
<1>2. CASE pods[PodName].present
  <2> DEFINE new == [pods[PodName] EXCEPT !.image = held.spec.image, !.owned = FALSE]
  <2>1. new \in PodState
    BY <1>1 DEF ServerOK, WorkerOK, PodState, Usable, SetState, Specs
  <2>2. WritePod(PodName, new)
    BY <1>2 DEF UpdatePod
  <2> HIDE DEF new
  <2>3. ServerOK'
    BY <1>1, <2>1, <2>2, WritePodOK
  <2>4. existing \ {PodName} \in SUBSET PodNames
    BY DEF WorkerOK
  <2>5. Stored(Goto("apply", existing \ {PodName}, next + 1))
    BY <1>2 DEF UpdatePod
  <2>6. WorkerOK' /\ queued' \in BOOLEAN
    BY <1>1, <2>4, <2>5, GotoOK, FailOK DEF Stored
  <2>7. HistoryOK'
    BY <1>1, <1>2 DEF UpdatePod, HistoryOK
  <2> QED
    BY <2>3, <2>6, <2>7 DEF UpdatePod, cache, CacheOK, HistoryOK, history
<1>3. CASE ~pods[PodName].present
  BY <1>3, FailOK DEF UpdatePod, server, cache, ServerOK, CacheOK, HistoryOK, history
<1> QED
  BY <1>2, <1>3

LEMMA CreatePodHolds == PInv /\ CreatePod => PInv'
<1> SUFFICES ASSUME PInv, CreatePod PROVE PInv'
  OBVIOUS
<1> USE DEF PInv
<1>1. next + 1 \in 0..MaxReplicas /\ PodName \in PodNames
  BY LoopInside DEF CreatePod
<1>2. CASE ~pods[PodName].present /\ held.spec.name # NoName
  <2> DEFINE new == [present |-> TRUE, image |-> held.spec.image,
                     owned |-> TRUE, deleting |-> FALSE]
  <2>1. new \in PodState
    BY DEF WorkerOK, PodState, Usable, SetState, Specs
  <2>2. WritePod(PodName, new)
    BY <1>2 DEF CreatePod
  <2> HIDE DEF new
  <2>3. ServerOK'
    BY <1>1, <2>1, <2>2, WritePodOK
  <2>4. existing \in SUBSET PodNames
    BY DEF WorkerOK
  <2>5. Stored(Goto("apply", existing, next + 1))
    BY <1>2 DEF CreatePod
  <2>6. WorkerOK' /\ queued' \in BOOLEAN
    BY <1>1, <2>4, <2>5, GotoOK, FailOK DEF Stored
  <2>7. HistoryOK'
    BY <1>1, <1>2 DEF CreatePod, HistoryOK
  <2> QED
    BY <2>3, <2>6, <2>7 DEF CreatePod, cache, CacheOK
<1>3. CASE ~(~pods[PodName].present /\ held.spec.name # NoName)
  BY <1>3, FailOK DEF CreatePod, server, cache, ServerOK, CacheOK, HistoryOK, history
<1> QED
  BY <1>2, <1>3

LEMMA DeletePodHolds ==
  ASSUME PInv, NEW p \in PodNames, DeletePod(p)
  PROVE  PInv'
<1> USE DEF PInv
<1>1. CASE pods[p].present
  <2>1. ServerOK'
    BY <1>1, DeletedIsPod, WritePodOK DEF DeletePod
  <2>2. existing \ {p} \in SUBSET PodNames /\ next \in 0..MaxReplicas
    BY DEF WorkerOK
  <2>3. Stored(Goto("apply", existing \ {p}, next))
    BY <1>1 DEF DeletePod
  <2>4. WorkerOK' /\ queued' \in BOOLEAN
    BY <2>2, <2>3, GotoOK, FailOK DEF Stored
  <2> QED
    BY <2>1, <2>4 DEF DeletePod, cache, CacheOK, HistoryOK, history
<1>2. CASE ~pods[p].present
  BY <1>2, FailOK DEF DeletePod, server, cache, ServerOK, CacheOK, HistoryOK, history
<1> QED
  BY <1>1, <1>2

LEMMA WriteStatusHolds == PInv /\ WriteStatus => PInv'
<1> SUFFICES ASSUME PInv, WriteStatus PROVE PInv'
  OBVIOUS
<1> USE DEF PInv
<1>1. CASE podSet.present /\ podSet.rv = held.rv
  <2> DEFINE names == Desired(held.spec)
             new == [podSet EXCEPT !.rv = @ + 1, !.pods = names,
                                   !.observed = held.generation]
  <2>1. names \in SUBSET PodNames
    BY DesiredArePods DEF WorkerOK
  <2> HIDE DEF names
  <2>2. new \in Usable
    <3>1. held.generation \in Nat
      BY DEF WorkerOK, Usable, SetState
    <3> QED
      BY <2>1, <3>1, NewStatusUsable, CountersGrow DEF ServerOK
  <2>3. WriteSet(podSet) \/ WriteSet(new)
    BY <1>1 DEF WriteStatus, names
  <2> HIDE DEF new
  <2>4. ServerOK'
    BY <2>2, <2>3, WriteSetOK DEF ServerOK
  <2>5. Stored(Leave /\ UNCHANGED queued)
    BY <1>1 DEF WriteStatus
  <2>6. WorkerOK' /\ queued' \in BOOLEAN
    BY <2>5, LeaveOK, FailOK DEF Stored
  <2> QED
    BY <2>4, <2>6 DEF WriteStatus, cache, CacheOK, HistoryOK, history
<1>2. CASE ~(podSet.present /\ podSet.rv = held.rv)
  BY <1>2, FailOK DEF WriteStatus, server, cache, ServerOK, CacheOK, HistoryOK, history
<1> QED
  BY <1>1, <1>2

LEMMA RequestFailsHolds == PInv /\ RequestFails => PInv'
  BY FailOK DEF PInv, RequestFails, server, cache, ServerOK, CacheOK, HistoryOK, history

-----------------------------------------------------------------------------
LEMMA StepHolds == PInv /\ [Next]_vars => PInv'
<1> SUFFICES ASSUME PInv, [Next]_vars PROVE PInv'
  OBVIOUS
<1>1. CASE Submit
  BY <1>1, SubmitHolds
<1>2. CASE RemoveSet
  BY <1>2, RemoveSetHolds
<1>3. CASE Restart
  BY <1>3, RestartHolds
<1>4. CASE Work
  BY <1>4, ReconcileHolds, ListPodsHolds, UpdatePodHolds, CreatePodHolds,
     DeletePodHolds, WriteStatusHolds DEF Work
<1>5. CASE RequestFails
  BY <1>5, RequestFailsHolds
<1>6. CASE SetEvent
  BY <1>6, SetEventHolds
<1>7. CASE \E p \in PodNames : PodEvent(p) \/ PodGone(p) \/ RemovePod(p)
  BY <1>7, PodEventHolds, PodGoneHolds, RemovePodHolds
<1>8. CASE UNCHANGED vars
  BY <1>8 DEF vars, server, cache, worker, PInv, ServerOK, CacheOK, HistoryOK, history, WorkerOK
<1> QED
  BY <1>1, <1>2, <1>3, <1>4, <1>5, <1>6, <1>7, <1>8 DEF Next

LEMMA Invariance == Spec => []PInv
  BY InitHolds, StepHolds, PTL DEF Spec

(* Types, and that the loop over the replicas stays inside them            *)
(* (podset_controller.go, lines 77 to 101).                                *)
THEOREM PodSetTypeCorrect == Spec => []PodSetTypeOK
<1>1. PInv => PodSetTypeOK
  BY DEF PInv, ServerOK, CacheOK, HistoryOK, history, WorkerOK, Usable, PodSetTypeOK
<1> QED
  BY <1>1, Invariance, PTL

(* Spec.Replicas is never nil or negative where the reconciler             *)
(* dereferences it (podset_controller.go:75), whatever users submit, and   *)
(* however old the PodSet in the cache is.                                 *)
THEOREM SpecsUsable == Spec => []SpecsAreUsable
<1>1. PInv => SpecsAreUsable
  BY DEF PInv, WorkerOK, Usable, SpecsAreUsable
<1> QED
  BY <1>1, Invariance, PTL

-----------------------------------------------------------------------------
(* The PodSets on their way to the reconciler come in the order they were  *)
(* stored, and the last of them is the stored one.                         *)
OrderInv ==
    /\ cachedSet.rv <= podSet.rv
    /\ \A i \in 1..Len(setFeed) : cachedSet.rv < setFeed[i].rv /\ setFeed[i].rv <= podSet.rv
    /\ \A i, j \in 1..Len(setFeed) : i < j => setFeed[i].rv < setFeed[j].rv
    /\ setFeed = <<>> => cachedSet = podSet
    /\ setFeed # <<>> => setFeed[Len(setFeed)] = podSet

(* A reconcile works from what the cache shows or has shown. *)
HeldInv ==
    pc # "idle" =>
        /\ held.rv <= cachedSet.rv
        /\ held.rv = cachedSet.rv => held = cachedSet

(* When the Ready condition is about the current generation, no older spec *)
(* is on its way to a reconcile any more.                                  *)
ReadyNow == podSet.present /\ podSet.observed = podSet.generation

StatusInv ==
    /\ podSet.observed <= podSet.generation
    /\ ReadyNow =>
          /\ podSet.pods = Desired(podSet.spec)
          /\ cachedSet.spec = podSet.spec
          /\ \A i \in 1..Len(setFeed) : setFeed[i].spec = podSet.spec
          /\ pc # "idle" => held.spec = podSet.spec

(* The pods the running reconcile has passed are as its spec says, or lost, *)
(* and it will not delete them.                                            *)
Passed == {<<held.spec.name, i>> : i \in 0..(next - 1)}

PassedInv ==
    pc = "apply" =>
        /\ Passed \cap existing = {}
        /\ \A p \in Passed : Runs(p, held.spec.image, lost)

RInv ==
    /\ PInv
    /\ OrderInv
    /\ HeldInv
    /\ StatusInv
    /\ PassedInv
    /\ ReadyMeansReconciled

-----------------------------------------------------------------------------
(* What ReadyMeansReconciled says of the pods. *)
PodsRun == ReadyNow => \A p \in Desired(podSet.spec) : Runs(p, podSet.spec.image, lost)

LEMMA ReadySplit == StatusInv => (ReadyMeansReconciled <=> PodsRun)
  BY DEF StatusInv, ReadyMeansReconciled, PodsRun, ReadyNow

LEMMA SetTypes ==
  ASSUME PInv
  PROVE  /\ podSet.rv \in Nat /\ podSet.generation \in Nat /\ podSet.observed \in Nat
         /\ cachedSet.rv \in Nat /\ held.rv \in Nat /\ held.generation \in Nat
         /\ Len(setFeed) \in Nat
         /\ \A i \in 1..Len(setFeed) : setFeed[i] \in Usable /\ setFeed[i].rv \in Nat
<1>1. \A s \in Usable : s.rv \in Nat /\ s.generation \in Nat /\ s.observed \in Nat
  BY DEF Usable, SetState
<1>2. podSet \in Usable /\ cachedSet \in Usable /\ held \in Usable /\ setFeed \in Seq(Usable)
  BY DEF PInv, ServerOK, CacheOK, WorkerOK
<1> QED
  BY <1>1, <1>2

(* A new state of the PodSet takes its place at the end of the feed.       *)
LEMMA AnnouncedInOrder ==
  ASSUME PInv, OrderInv, NEW s, WriteSet(s), s = podSet \/ s.rv = podSet.rv + 1,
         cachedSet' = cachedSet
  PROVE  /\ OrderInv'
         /\ podSet' = s
         /\ s = podSet => setFeed' = setFeed
         /\ \A i \in 1..Len(setFeed') :
               setFeed'[i] = s \/ (i \in 1..Len(setFeed) /\ setFeed'[i] = setFeed[i])
<1>1. /\ podSet.rv \in Nat /\ cachedSet.rv \in Nat /\ Len(setFeed) \in Nat
      /\ \A i \in 1..Len(setFeed) : setFeed[i].rv \in Nat
      /\ setFeed \in Seq(Usable)
  BY SetTypes DEF PInv, ServerOK
<1>2. CASE s = podSet
  BY <1>2 DEF WriteSet, OrderInv
<1>3. CASE s # podSet
  <2>1. s.rv = podSet.rv + 1 /\ podSet' = s /\ setFeed' = Append(setFeed, s)
    BY <1>3 DEF WriteSet
  <2>2. /\ Len(setFeed') = Len(setFeed) + 1
        /\ \A i \in 1..Len(setFeed) : setFeed'[i] = setFeed[i]
        /\ setFeed'[Len(setFeed) + 1] = s
    BY <1>1, <2>1
  <2>3. \A i \in 1..Len(setFeed') : i \in 1..Len(setFeed) \/ i = Len(setFeed) + 1
    BY <1>1, <2>2
  <2>4. \A i \in 1..Len(setFeed') : cachedSet.rv < setFeed'[i].rv /\ setFeed'[i].rv <= s.rv
    BY <1>1, <2>1, <2>2, <2>3 DEF OrderInv
  <2>5. \A i, j \in 1..Len(setFeed') : i < j => setFeed'[i].rv < setFeed'[j].rv
    <3> SUFFICES ASSUME NEW i \in 1..Len(setFeed'), NEW j \in 1..Len(setFeed'), i < j
                 PROVE  setFeed'[i].rv < setFeed'[j].rv
      OBVIOUS
    <3>1. i \in 1..Len(setFeed)
      BY <1>1, <2>2, <2>3
    <3>2. CASE j \in 1..Len(setFeed)
      BY <2>2, <3>1, <3>2 DEF OrderInv
    <3>3. CASE j = Len(setFeed) + 1
      BY <1>1, <2>1, <2>2, <3>1, <3>3 DEF OrderInv
    <3> QED
      BY <2>3, <3>2, <3>3
  <2>6. setFeed' # <<>> /\ setFeed'[Len(setFeed')] = s
    BY <1>1, <2>1, <2>2
  <2> QED
    BY <1>1, <1>3, <2>1, <2>2, <2>3, <2>4, <2>5, <2>6 DEF OrderInv
<1> QED
  BY <1>2, <1>3

(* The cache moves along the feed. *)
LEMMA EventInOrder ==
  ASSUME PInv, OrderInv, SetEvent
  PROVE  /\ OrderInv'
         /\ podSet' = podSet
         /\ cachedSet.rv < cachedSet'.rv
         /\ 1 \in 1..Len(setFeed) /\ cachedSet' = setFeed[1]
         /\ \A i \in 1..Len(setFeed') :
               i + 1 \in 1..Len(setFeed) /\ setFeed'[i] = setFeed[i + 1]
<1>1. /\ podSet.rv \in Nat /\ cachedSet.rv \in Nat /\ Len(setFeed) \in Nat
      /\ \A i \in 1..Len(setFeed) : setFeed[i].rv \in Nat
      /\ setFeed \in Seq(Usable)
  BY SetTypes DEF PInv, ServerOK
<1>2. /\ setFeed # <<>> /\ cachedSet' = Head(setFeed) /\ setFeed' = Tail(setFeed)
      /\ podSet' = podSet
  BY DEF SetEvent
<1>3. /\ 1 \in 1..Len(setFeed) /\ cachedSet' = setFeed[1]
      /\ Len(setFeed') = Len(setFeed) - 1
      /\ \A i \in 1..Len(setFeed') :
            i + 1 \in 1..Len(setFeed) /\ setFeed'[i] = setFeed[i + 1]
  BY <1>1, <1>2
<1>4. cachedSet.rv < cachedSet'.rv /\ cachedSet'.rv <= podSet.rv
  BY <1>3 DEF OrderInv
<1>5. \A i \in 1..Len(setFeed') : cachedSet'.rv < setFeed'[i].rv /\ setFeed'[i].rv <= podSet.rv
  <2> SUFFICES ASSUME NEW i \in 1..Len(setFeed')
               PROVE  cachedSet'.rv < setFeed'[i].rv /\ setFeed'[i].rv <= podSet.rv
    OBVIOUS
  <2>1. i + 1 \in 1..Len(setFeed) /\ setFeed'[i] = setFeed[i + 1] /\ 1 < i + 1
    BY <1>3
  <2> QED
    BY <1>3, <2>1 DEF OrderInv
<1>6. \A i, j \in 1..Len(setFeed') : i < j => setFeed'[i].rv < setFeed'[j].rv
  <2> SUFFICES ASSUME NEW i \in 1..Len(setFeed'), NEW j \in 1..Len(setFeed'), i < j
               PROVE  setFeed'[i].rv < setFeed'[j].rv
    OBVIOUS
  <2>1. i + 1 < j + 1
    OBVIOUS
  <2> QED
    BY <1>3, <2>1 DEF OrderInv
<1>7. /\ setFeed' = <<>> => cachedSet' = podSet
      /\ setFeed' # <<>> => setFeed'[Len(setFeed')] = podSet
  <2>1. setFeed[Len(setFeed)] = podSet
    BY <1>2 DEF OrderInv
  <2>2. CASE Len(setFeed) = 1
    <3>1. Len(setFeed') = 0 /\ setFeed' \in Seq(Usable)
      BY <1>1, <1>2, <1>3, <2>2
    <3> QED
      BY <1>3, <2>1, <2>2, <3>1
  <2>3. CASE Len(setFeed) # 1
    <3>1. Len(setFeed') # 0 /\ Len(setFeed') \in 1..Len(setFeed')
      BY <1>1, <1>3, <2>3
    <3>2. setFeed'[Len(setFeed')] = setFeed[Len(setFeed)]
      BY <1>1, <1>3, <3>1
    <3> QED
      BY <2>1, <3>1, <3>2
  <2> QED
    BY <2>2, <2>3
<1> QED
  BY <1>2, <1>3, <1>4, <1>5, <1>6, <1>7 DEF OrderInv

-----------------------------------------------------------------------------
(* Where the PodSets stay as they are, and a reconcile goes on or ends.    *)
LEMMA SetsStill ==
  ASSUME RInv, UNCHANGED <<podSet, setFeed, cachedSet>>,
         pc' # "idle" => pc # "idle" /\ held' = held
  PROVE  OrderInv' /\ HeldInv' /\ StatusInv' /\ (ReadyNow' <=> ReadyNow)
<1>1. OrderInv'
  BY DEF RInv, OrderInv
<1>2. HeldInv'
  BY DEF RInv, HeldInv
<1>3. StatusInv' /\ (ReadyNow' <=> ReadyNow)
  BY DEF RInv, StatusInv, ReadyNow, Desired
<1> QED
  BY <1>1, <1>2, <1>3

LEMMA PassedArePods ==
  ASSUME PInv
  PROVE  Passed \subseteq PodNames /\ next \in Nat
<1>1. held.spec.name \in Names \cup {NoName} /\ next \in 0..MaxReplicas
  BY DEF PInv, WorkerOK, Usable, SetState, Specs
<1> QED
  BY <1>1, PodSetAssumption DEF Passed, PodNames

LEMMA DesiredKnown ==
  ASSUME PInv
  PROVE  Desired(podSet.spec) \subseteq PodNames /\ held.spec.replicas \in Nat
  BY DesiredArePods DEF PInv, ServerOK, WorkerOK, Usable

(* The loop goes one replica further. *)
LEMMA PassedGrows ==
  ASSUME PInv, held' = held, next' = next + 1
  PROVE  Passed' = Passed \cup {PodName}
<1>1. next \in Nat
  BY PassedArePods
<1>2. 0..(next' - 1) = 0..(next - 1) \cup {next}
  BY <1>1
<1> QED
  BY <1>2 DEF Passed, PodName

(* When the loop is over, every desired pod has been passed. *)
LEMMA AllPassed ==
  ASSUME PInv, ~MoreReplicas
  PROVE  Desired(held.spec) \subseteq Passed
<1>1. next \in Nat /\ held.spec.replicas \in Nat /\ held.spec.replicas <= next
  BY PassedArePods, DesiredKnown DEF MoreReplicas
<1>2. 0..(held.spec.replicas - 1) \subseteq 0..(next - 1)
  BY <1>1
<1> QED
  BY <1>2 DEF Desired, Passed

RunsNext(p, image) ==
    IF Alive(pods'[p]) THEN pods'[p].image = image ELSE p \in lost'

(* One pod is written, and at most that one is lost or found. *)
LEMMA OnePod ==
  ASSUME PInv, NEW q \in PodNames, NEW s, WritePod(q, s),
         \A p \in PodNames : p # q /\ p \in lost => p \in lost'
  PROVE  /\ podSet' = podSet /\ setFeed' = setFeed
         /\ \A p \in PodNames : \A im : p # q /\ Runs(p, im, lost) => RunsNext(p, im)
         /\ pods'[q] = s
<1>1. pods' = [pods EXCEPT ![q] = s] /\ podSet' = podSet /\ setFeed' = setFeed
  BY DEF WritePod
<1>2. /\ pods'[q] = s
      /\ \A p \in PodNames : p # q => pods'[p] = pods[p]
  BY <1>1 DEF PInv, ServerOK
<1> QED
  BY <1>1, <1>2 DEF Runs, RunsNext

(* The invariant from its parts, for a step that ends the reconcile. *)
LEMMA EndsReconcile ==
  ASSUME RInv, PInv', Leave, UNCHANGED <<podSet, setFeed, cachedSet>>,
         PodsRun'
  PROVE  RInv'
<1>1. pc' = "idle"
  BY DEF Leave
<1>2. OrderInv' /\ HeldInv' /\ StatusInv'
  BY <1>1, SetsStill
<1>3. ReadyMeansReconciled'
  BY <1>2 DEF StatusInv, ReadyMeansReconciled, PodsRun, ReadyNow
<1> QED
  BY <1>1, <1>2, <1>3 DEF RInv, PassedInv

-----------------------------------------------------------------------------
(* A PodSet that users change is not ready before the next reconcile.      *)
LEMMA NewSpecReady ==
  ASSUME RInv, PInv', NEW s, WriteSet(s),
         s = podSet \/ (s.rv = podSet.rv + 1 /\ s.observed <= s.generation
                        /\ ~(s.present /\ s.observed = s.generation)),
         UNCHANGED <<cachedSet, worker, lost>>
  PROVE  RInv'
<1>1. OrderInv' /\ podSet' = s /\ pods' = pods /\ (s = podSet => setFeed' = setFeed)
  BY AnnouncedInOrder DEF RInv, WriteSet
<1>2. HeldInv' /\ PassedInv'
  BY <1>1 DEF RInv, HeldInv, PassedInv, Passed, Runs, worker
<1>3. CASE s = podSet
  <2>1. StatusInv' /\ ReadyMeansReconciled'
    BY <1>1, <1>3 DEF RInv, StatusInv, ReadyNow, Desired, ReadyMeansReconciled, Runs, worker
  <2> QED
    BY <1>1, <1>2, <2>1 DEF RInv
<1>4. CASE s # podSet
  <2>1. ~ReadyNow' /\ podSet'.observed <= podSet'.generation
    BY <1>1, <1>4 DEF ReadyNow
  <2>2. StatusInv' /\ ReadyMeansReconciled'
    BY <2>1 DEF StatusInv, ReadyMeansReconciled, ReadyNow
  <2> QED
    BY <1>1, <1>2, <2>2 DEF RInv
<1> QED
  BY <1>3, <1>4

LEMMA SubmitReady == RInv /\ PInv' /\ Submit => RInv'
<1> SUFFICES ASSUME RInv, PInv', Submit PROVE RInv'
  OBVIOUS
<1>1. PICK d :
        WriteSet(IF podSet.present /\ podSet.spec = d THEN podSet
                 ELSE [podSet EXCEPT !.present = TRUE, !.rv = @ + 1, !.spec = d,
                                     !.generation = @ + 1, !.defaulted = TRUE])
  BY DEF Submit
<1> DEFINE new == [podSet EXCEPT !.present = TRUE, !.rv = @ + 1, !.spec = d,
                                 !.generation = @ + 1, !.defaulted = TRUE]
<1>2. podSet \in SetState
  BY DEF RInv, PInv, ServerOK, Usable
<1>3. /\ new.rv = podSet.rv + 1 /\ new.observed = podSet.observed
      /\ new.generation = podSet.generation + 1
  BY <1>2 DEF SetState
<1>4. new.observed <= new.generation /\ new.observed # new.generation
  BY <1>3, SetTypes DEF RInv, StatusInv
<1>5. WriteSet(podSet) \/ WriteSet(new)
  BY <1>1
<1> HIDE DEF new
<1>6. UNCHANGED <<cachedSet, worker, lost>>
  BY DEF Submit, cache, history
<1> QED
  BY <1>3, <1>4, <1>5, <1>6, NewSpecReady

LEMMA RemoveSetReady == RInv /\ PInv' /\ RemoveSet => RInv'
<1> SUFFICES ASSUME RInv, PInv', RemoveSet PROVE RInv'
  OBVIOUS
<1> DEFINE gone == [NoSet EXCEPT !.rv = podSet.rv + 1]
<1>1. gone.rv = podSet.rv + 1 /\ gone.observed <= gone.generation /\ ~gone.present
  BY DEF NoSet
<1>2. WriteSet(gone) /\ UNCHANGED <<cachedSet, worker, lost>>
  BY DEF RemoveSet, cache, history
<1> HIDE DEF gone
<1> QED
  BY <1>1, <1>2, NewSpecReady

(* Where a pod goes away that did not run, or is lost from now on. *)
LEMMA GoneReady ==
  ASSUME RInv, PInv', NEW q \in PodNames, NEW s, WritePod(q, s), ~Alive(s),
         \/ ~Alive(pods[q]) /\ lost' = lost
         \/ lost' = lost \cup {q},
         UNCHANGED <<cachedSet, worker>>
  PROVE  RInv'
<1>1. /\ podSet' = podSet /\ setFeed' = setFeed /\ pods'[q] = s
      /\ \A p \in PodNames : \A im : p # q /\ Runs(p, im, lost) => RunsNext(p, im)
  BY OnePod DEF RInv
<1>2. \A im : Runs(q, im, lost) => RunsNext(q, im)
  BY <1>1 DEF Runs, RunsNext
<1>3. \A p \in PodNames : \A im : Runs(p, im, lost) => RunsNext(p, im)
  BY <1>1, <1>2
<1>4. OrderInv' /\ HeldInv' /\ StatusInv'
  BY <1>1, SetsStill DEF worker
<1>5. PassedInv'
  BY <1>3, PassedArePods DEF RInv, PassedInv, Passed, worker, Runs, RunsNext
<1>6. ReadyMeansReconciled'
  <2>1. ReadyNow' => \A p \in Desired(podSet.spec) : RunsNext(p, podSet.spec.image)
    BY <1>1, <1>3, DesiredKnown, ReadySplit DEF RInv, PodsRun, ReadyNow
  <2> QED
    BY <1>1, <1>4, <2>1 DEF StatusInv, ReadyNow, ReadyMeansReconciled, Runs, RunsNext, Desired
<1> QED
  BY <1>4, <1>5, <1>6 DEF RInv

(* A pod somebody deletes is lost. *)
LEMMA RemovePodReady ==
  ASSUME RInv, PInv', NEW q \in PodNames, RemovePod(q)
  PROVE  RInv'
<1>1. ~Alive(DeletedPod(q))
  BY DEF RemovePod, DeletedPod, Alive, NoPod, RInv, PInv, ServerOK, PodState
<1> QED
  BY <1>1, GoneReady DEF RemovePod, cache

(* A pod that disappears was not running. *)
LEMMA PodGoneReady ==
  ASSUME RInv, PInv', NEW q \in PodNames, PodGone(q)
  PROVE  RInv'
<1>1. ~Alive(pods[q]) /\ ~Alive(NoPod)
  BY DEF PodGone, Alive, NoPod
<1> QED
  BY <1>1, GoneReady DEF PodGone, cache, history

(* What only the cache and the queue notice. *)
LEMMA PodEventReady ==
  ASSUME RInv, PInv', NEW q \in PodNames, PodEvent(q)
  PROVE  RInv'
<1>1. UNCHANGED <<podSet, pods, setFeed, cachedSet, worker, lost>>
  BY DEF PodEvent, history
<1>2. OrderInv' /\ HeldInv' /\ StatusInv'
  BY <1>1, SetsStill DEF worker
<1>3. PassedInv' /\ ReadyMeansReconciled'
  BY <1>1 DEF RInv, PassedInv, Passed, worker, Runs, ReadyMeansReconciled, Desired
<1> QED
  BY <1>1, <1>2, <1>3 DEF RInv

LEMMA SetEventReady == RInv /\ PInv' /\ SetEvent => RInv'
<1> SUFFICES ASSUME RInv, PInv', SetEvent PROVE RInv'
  OBVIOUS
<1>1. UNCHANGED <<podSet, pods, worker, lost>>
  BY DEF SetEvent, history
<1>2. /\ OrderInv' /\ podSet' = podSet
      /\ cachedSet.rv < cachedSet'.rv
      /\ 1 \in 1..Len(setFeed) /\ cachedSet' = setFeed[1]
      /\ \A i \in 1..Len(setFeed') :
            i + 1 \in 1..Len(setFeed) /\ setFeed'[i] = setFeed[i + 1]
  BY EventInOrder DEF RInv
<1>3. HeldInv'
  <2>1. held.rv \in Nat /\ cachedSet.rv \in Nat /\ cachedSet'.rv \in Nat
    BY <1>2, SetTypes DEF RInv
  <2> QED
    BY <1>1, <1>2, <2>1 DEF RInv, HeldInv, worker
<1>4. StatusInv'
  BY <1>1, <1>2 DEF RInv, StatusInv, ReadyNow, Desired, worker
<1>5. PassedInv' /\ ReadyMeansReconciled'
  BY <1>1 DEF RInv, PassedInv, Passed, worker, Runs, ReadyMeansReconciled, Desired
<1> QED
  BY <1>1, <1>2, <1>3, <1>4, <1>5 DEF RInv

LEMMA RestartReady == RInv /\ PInv' /\ Restart => RInv'
<1> SUFFICES ASSUME RInv, PInv', Restart PROVE RInv'
  OBVIOUS
<1>1. /\ UNCHANGED <<podSet, pods, lost>>
      /\ cachedSet' = podSet /\ setFeed' = <<>> /\ pc' = "idle"
  BY DEF Restart, history
<1>2. podSet.rv \in Nat
  BY SetTypes DEF RInv
<1>3. OrderInv' /\ HeldInv' /\ PassedInv'
  BY <1>1, <1>2 DEF OrderInv, HeldInv, PassedInv
<1>4. StatusInv' /\ ReadyMeansReconciled'
  BY <1>1 DEF RInv, StatusInv, ReadyNow, Desired, ReadyMeansReconciled, Runs
<1> QED
  BY <1>1, <1>3, <1>4 DEF RInv

-----------------------------------------------------------------------------
LEMMA ReconcileReady == RInv /\ PInv' /\ Reconcile => RInv'
<1> SUFFICES ASSUME RInv, PInv', Reconcile PROVE RInv'
  OBVIOUS
<1>1. UNCHANGED <<podSet, pods, setFeed, cachedSet, lost>>
  BY DEF Reconcile, server, cache, history
<1>2. \/ pc' = "list" /\ held' = cachedSet
      \/ pc = "idle" /\ UNCHANGED worker
  BY DEF Reconcile
<1>3. cachedSet.rv \in Nat
  BY SetTypes DEF RInv
<1>4. OrderInv' /\ HeldInv' /\ PassedInv'
  BY <1>1, <1>2, <1>3 DEF RInv, OrderInv, HeldInv, PassedInv, worker
<1>5. StatusInv'
  BY <1>1, <1>2 DEF RInv, StatusInv, ReadyNow, Desired, worker
<1>6. ReadyMeansReconciled'
  BY <1>1 DEF RInv, ReadyMeansReconciled, Desired, Runs
<1> QED
  BY <1>1, <1>4, <1>5, <1>6 DEF RInv

LEMMA ListPodsReady == RInv /\ PInv' /\ ListPods => RInv'
<1> SUFFICES ASSUME RInv, PInv', ListPods PROVE RInv'
  OBVIOUS
<1>1. /\ UNCHANGED <<podSet, pods, setFeed, cachedSet, lost, held>>
      /\ pc = "list" /\ next' = 0
  BY DEF ListPods, Goto, server, cache, history
<1>2. OrderInv' /\ HeldInv' /\ StatusInv'
  BY <1>1, SetsStill
<1>3. Passed' = {}
  BY <1>1 DEF Passed
<1>4. PassedInv' /\ ReadyMeansReconciled'
  BY <1>1, <1>3 DEF RInv, PassedInv, ReadyMeansReconciled, Desired, Runs
<1> QED
  BY <1>1, <1>2, <1>4 DEF RInv

(* A desired pod is written, by an update or a create: it is as the spec   *)
(* the reconcile works from says, or lost, and if that spec is not the     *)
(* stored one, the PodSet is not ready.                                    *)
LEMMA PassReady ==
  ASSUME RInv, PInv', pc = "apply", NEW q \in PodNames, q = PodName,
         NEW s, WritePod(q, s),
         RunsNext(q, held.spec.image),
         \A p \in PodNames : p # q /\ p \in lost => p \in lost',
         NEW left, q \notin left, left \subseteq existing,
         Stored(Goto("apply", left, next + 1)), cachedSet' = cachedSet
  PROVE  RInv'
<1>1. /\ podSet' = podSet /\ setFeed' = setFeed
      /\ \A p \in PodNames : \A im : p # q /\ Runs(p, im, lost) => RunsNext(p, im)
  BY OnePod DEF RInv
<1>2. PodsRun'
  <2> SUFFICES ASSUME ReadyNow', NEW p \in Desired(podSet'.spec)
               PROVE  RunsNext(p, podSet.spec.image)
    BY <1>1 DEF PodsRun, Desired, Runs, RunsNext
  <2>1. ReadyNow /\ held.spec = podSet.spec /\ p \in Desired(podSet.spec)
    BY <1>1 DEF RInv, StatusInv, ReadyNow, Desired
  <2>2. p \in PodNames /\ Runs(p, podSet.spec.image, lost)
    BY <2>1, DesiredKnown, ReadySplit DEF RInv, PodsRun
  <2>3. CASE p = q
    BY <2>1, <2>3
  <2>4. CASE p # q
    BY <1>1, <2>2, <2>4
  <2> QED
    BY <2>3, <2>4
<1>3. CASE Fail
  BY <1>1, <1>2, <1>3, EndsReconcile DEF Fail
<1>4. CASE Goto("apply", left, next + 1)
  <2>1. pc' = "apply" /\ held' = held /\ existing' = left /\ next' = next + 1
    BY <1>4 DEF Goto
  <2>2. OrderInv' /\ HeldInv' /\ StatusInv'
    BY <1>1, <2>1, SetsStill
  <2>3. Passed' = Passed \cup {q} /\ Passed \subseteq PodNames
    BY <2>1, PassedGrows, PassedArePods DEF RInv
  <2>4. Passed' \cap existing' = {}
    BY <2>1, <2>3 DEF RInv, PassedInv
  <2>5. ASSUME NEW p \in Passed'
        PROVE  RunsNext(p, held.spec.image)
    <3>1. CASE p = q
      BY <2>5, <3>1
    <3>2. CASE p # q
      BY <1>1, <2>3, <2>5, <3>2 DEF RInv, PassedInv
    <3> QED
      BY <3>1, <3>2
  <2>6. PassedInv'
    BY <2>1, <2>4, <2>5 DEF PassedInv, Runs, RunsNext
  <2>7. ReadyMeansReconciled'
    BY <1>2, <2>2 DEF StatusInv, ReadyMeansReconciled, PodsRun, ReadyNow
  <2> QED
    BY <2>2, <2>6, <2>7 DEF RInv
<1> QED
  BY <1>3, <1>4 DEF Stored

(* A request that is refused, or fails, changes nothing. *)
LEMMA RefusedReady ==
  ASSUME RInv, PInv', Fail, UNCHANGED <<server, cachedSet, lost>>
  PROVE  RInv'
<1>1. UNCHANGED <<podSet, pods, setFeed>>
  BY DEF server
<1>2. PodsRun'
  BY <1>1, ReadySplit DEF RInv, PodsRun, ReadyNow, Desired, Runs
<1> QED
  BY <1>1, <1>2, EndsReconcile DEF Fail, RInv

LEMMA UpdatePodReady == RInv /\ PInv' /\ UpdatePod => RInv'
<1> SUFFICES ASSUME RInv, PInv', UpdatePod PROVE RInv'
  OBVIOUS
<1>1. /\ pc = "apply" /\ PodName \in existing /\ PodName \in PodNames
      /\ cachedSet' = cachedSet
  BY DEF UpdatePod, RInv, PInv, WorkerOK, cache
<1>2. PICK q \in PodNames : q = PodName
  BY <1>1
<1>3. CASE pods[q].present
  <2> DEFINE new == [pods[q] EXCEPT !.image = held.spec.image, !.owned = FALSE]
  <2>1. /\ WritePod(q, new)
        /\ lost' = IF pods[q].deleting THEN lost \cup {q} ELSE lost
        /\ Stored(Goto("apply", existing \ {q}, next + 1))
    BY <1>2, <1>3 DEF UpdatePod
  <2>2. pods[q] \in PodState
    BY DEF RInv, PInv, ServerOK
  <2>3. new.present /\ new.image = held.spec.image /\ new.deleting = pods[q].deleting
    BY <1>3, <2>2 DEF PodState
  <2> HIDE DEF new
  <2>4. pods'[q] = new
    BY <2>1, OnePod DEF RInv
  <2>5. RunsNext(q, held.spec.image)
    BY <2>1, <2>3, <2>4 DEF RunsNext, Alive
  <2>6. /\ \A p \in PodNames : p # q /\ p \in lost => p \in lost'
        /\ q \notin existing \ {q} /\ existing \ {q} \subseteq existing
    BY <2>1
  <2> QED
    BY <1>1, <1>2, <2>1, <2>5, <2>6, PassReady
<1>4. CASE ~pods[q].present
  BY <1>1, <1>2, <1>4, RefusedReady DEF UpdatePod, history
<1> QED
  BY <1>3, <1>4

LEMMA CreatePodReady == RInv /\ PInv' /\ CreatePod => RInv'
<1> SUFFICES ASSUME RInv, PInv', CreatePod PROVE RInv'
  OBVIOUS
<1>1. /\ pc = "apply" /\ PodName \notin existing /\ PodName \in PodNames
      /\ cachedSet' = cachedSet
  BY LoopInside DEF CreatePod, RInv, PInv, cache
<1>2. PICK q \in PodNames : q = PodName
  BY <1>1
<1>3. CASE ~pods[q].present /\ held.spec.name # NoName
  <2> DEFINE new == [present |-> TRUE, image |-> held.spec.image,
                     owned |-> TRUE, deleting |-> FALSE]
  <2>1. /\ WritePod(q, new) /\ Stored(Goto("apply", existing, next + 1))
        /\ lost' = lost \ {q}
    BY <1>2, <1>3 DEF CreatePod
  <2>2. new.present /\ new.image = held.spec.image /\ ~new.deleting
    OBVIOUS
  <2> HIDE DEF new
  <2>3. pods'[q] = new
    BY <2>1, OnePod DEF RInv
  <2>4. RunsNext(q, held.spec.image)
    BY <2>2, <2>3 DEF RunsNext, Alive
  <2>5. \A p \in PodNames : p # q /\ p \in lost => p \in lost'
    BY <2>1
  <2> QED
    BY <1>1, <1>2, <2>1, <2>4, <2>5, PassReady
<1>4. CASE ~(~pods[q].present /\ held.spec.name # NoName)
  BY <1>1, <1>2, <1>4, RefusedReady DEF CreatePod, history
<1> QED
  BY <1>3, <1>4

(* What is deleted has not been passed, and is not desired.                *)
LEMMA DeletePodReady ==
  ASSUME RInv, PInv', NEW q \in PodNames, DeletePod(q)
  PROVE  RInv'
<1>1. /\ pc = "apply" /\ q \in existing /\ ~MoreReplicas
      /\ cachedSet' = cachedSet
      /\ lost' = lost
  BY DEF DeletePod, cache, history
<1>2. CASE pods[q].present
  <2>1. /\ podSet' = podSet /\ setFeed' = setFeed
        /\ \A p \in PodNames : \A im : p # q /\ Runs(p, im, lost) => RunsNext(p, im)
    BY <1>1, <1>2, OnePod DEF DeletePod, RInv
  <2>2. Stored(Goto("apply", existing \ {q}, next))
    BY <1>2 DEF DeletePod
  <2>3. q \notin Passed /\ Passed \subseteq PodNames
    BY <1>1, PassedArePods DEF RInv, PassedInv
  <2>4. PodsRun'
    <3> SUFFICES ASSUME ReadyNow', NEW p \in Desired(podSet'.spec)
                 PROVE  RunsNext(p, podSet.spec.image)
      BY <2>1 DEF PodsRun, Desired, Runs, RunsNext
    <3>1. ReadyNow /\ held.spec = podSet.spec /\ p \in Desired(podSet.spec)
      BY <1>1, <2>1 DEF RInv, StatusInv, ReadyNow, Desired
    <3>2. p \in Passed
      BY <1>1, <3>1, AllPassed DEF RInv
    <3>3. Runs(p, podSet.spec.image, lost)
      BY <3>1, ReadySplit DEF RInv, PodsRun
    <3> QED
      BY <2>1, <2>3, <3>2, <3>3
  <2>5. CASE Fail
    BY <1>1, <2>1, <2>4, <2>5, EndsReconcile DEF Fail
  <2>6. CASE Goto("apply", existing \ {q}, next)
    <3>1. pc' = "apply" /\ held' = held /\ existing' = existing \ {q} /\ next' = next
      BY <2>6 DEF Goto
    <3>2. OrderInv' /\ HeldInv' /\ StatusInv'
      BY <1>1, <2>1, <3>1, SetsStill
    <3>3. Passed' = Passed
      BY <3>1 DEF Passed
    <3>4. \A p \in Passed : RunsNext(p, held.spec.image)
      BY <1>1, <2>1, <2>3 DEF RInv, PassedInv
    <3>5. PassedInv'
      BY <1>1, <3>1, <3>3, <3>4 DEF RInv, PassedInv, Runs, RunsNext
    <3>6. ReadyMeansReconciled'
      BY <2>4, <3>2 DEF StatusInv, ReadyMeansReconciled, PodsRun, ReadyNow
    <3> QED
      BY <1>1, <3>2, <3>5, <3>6 DEF RInv
  <2> QED
    BY <2>2, <2>5, <2>6 DEF Stored
<1>3. CASE ~pods[q].present
  BY <1>1, <1>3, RefusedReady DEF DeletePod, history
<1> QED
  BY <1>2, <1>3

LEMMA RequestFailsReady == RInv /\ PInv' /\ RequestFails => RInv'
  BY RefusedReady DEF RequestFails, cache, history

(* A status is stored only if the PodSet the reconcile worked from is the  *)
(* stored one.                                                             *)
LEMMA HeldIsCurrent ==
  ASSUME RInv, pc # "idle", podSet.rv = held.rv
  PROVE  held = podSet /\ cachedSet = podSet /\ setFeed = <<>>
<1>1. /\ podSet.rv \in Nat /\ cachedSet.rv \in Nat /\ held.rv \in Nat
      /\ Len(setFeed) \in Nat /\ setFeed \in Seq(Usable)
      /\ \A i \in 1..Len(setFeed) : setFeed[i].rv \in Nat
  BY SetTypes DEF RInv, PInv, ServerOK
<1>2. held.rv = cachedSet.rv
  BY <1>1 DEF RInv, OrderInv, HeldInv
<1>3. setFeed = <<>>
  <2> SUFFICES ASSUME setFeed # <<>> PROVE FALSE
    OBVIOUS
  <2>1. 1 \in 1..Len(setFeed)
    BY <1>1
  <2> QED
    BY <1>1, <1>2, <2>1 DEF RInv, OrderInv
<1> QED
  BY <1>2, <1>3 DEF RInv, OrderInv, HeldInv

LEMMA WriteStatusReady == RInv /\ PInv' /\ WriteStatus => RInv'
<1> SUFFICES ASSUME RInv, PInv', WriteStatus PROVE RInv'
  OBVIOUS
<1>1. /\ pc = "apply" /\ ~MoreReplicas
      /\ UNCHANGED <<cachedSet, lost>>
  BY DEF WriteStatus, cache, history
<1>2. CASE podSet.present /\ podSet.rv = held.rv
  <2> DEFINE names == Desired(held.spec)
             new == [podSet EXCEPT !.rv = @ + 1, !.pods = names,
                                   !.observed = held.generation]
  <2>1. held = podSet /\ cachedSet = podSet /\ setFeed = <<>>
    BY <1>1, <1>2, HeldIsCurrent
  <2>2. podSet \in SetState
    BY DEF RInv, PInv, ServerOK, Usable
  <2>3. /\ new.rv = podSet.rv + 1 /\ new.spec = podSet.spec /\ new.pods = names
        /\ new.present /\ new.generation = podSet.generation
        /\ new.observed = podSet.generation
    BY <1>2, <2>1, <2>2 DEF SetState
  <2>4. PICK s : /\ WriteSet(s)
                 /\ \/ s = podSet /\ podSet.observed = held.generation /\ podSet.pods = names
                    \/ s = new
    <3>1. CASE podSet.observed = held.generation /\ podSet.pods = names
      BY <1>2, <3>1 DEF WriteStatus
    <3>2. CASE ~(podSet.observed = held.generation /\ podSet.pods = names)
      BY <1>2, <3>2 DEF WriteStatus
    <3> QED
      BY <3>1, <3>2
  <2> HIDE DEF new
  <2>5. /\ s = podSet \/ s.rv = podSet.rv + 1
        /\ s.spec = podSet.spec /\ s.pods = Desired(podSet.spec)
        /\ s.present /\ s.observed = s.generation /\ s.generation = podSet.generation
    BY <1>2, <2>1, <2>3, <2>4
  <2>6. /\ OrderInv' /\ podSet' = s /\ pods' = pods
        /\ \A i \in 1..Len(setFeed') :
              setFeed'[i] = s \/ (i \in 1..Len(setFeed) /\ setFeed'[i] = setFeed[i])
    BY <1>1, <2>4, <2>5, AnnouncedInOrder DEF RInv, WriteSet
  <2>7. pc' = "idle"
    BY <1>2 DEF WriteStatus, Stored, Leave, Fail
  <2>8. StatusInv'
    <3>1. podSet.generation \in Nat
      BY SetTypes DEF RInv
    <3>2. \A i \in 1..Len(setFeed') : setFeed'[i] = s
      BY <2>1, <2>6
    <3> QED
      BY <1>1, <2>1, <2>5, <2>6, <2>7, <3>1, <3>2 DEF StatusInv, ReadyNow, Desired
  <2>9. ReadyMeansReconciled'
    <3>1. \A p \in Desired(podSet.spec) : Runs(p, podSet.spec.image, lost)
      BY <1>1, <2>1, AllPassed DEF RInv, PassedInv
    <3> QED
      BY <1>1, <2>5, <2>6, <3>1 DEF ReadyMeansReconciled, Runs, Desired
  <2> QED
    BY <1>1, <2>6, <2>7, <2>8, <2>9 DEF RInv, HeldInv, PassedInv
<1>3. CASE ~(podSet.present /\ podSet.rv = held.rv)
  BY <1>1, <1>3, RefusedReady DEF WriteStatus
<1> QED
  BY <1>2, <1>3

-----------------------------------------------------------------------------
LEMMA InitReady == Init => RInv
<1> SUFFICES ASSUME Init PROVE RInv
  OBVIOUS
<1>1. PInv
  BY InitHolds
<1>2. OrderInv /\ HeldInv /\ PassedInv
  BY DEF Init, OrderInv, HeldInv, PassedInv, NoSet
<1>3. StatusInv /\ ReadyMeansReconciled
  BY DEF Init, StatusInv, ReadyMeansReconciled, ReadyNow, NoSet
<1> QED
  BY <1>1, <1>2, <1>3 DEF RInv, Init

LEMMA StepReady == RInv /\ [Next]_vars => RInv'
<1> SUFFICES ASSUME RInv, [Next]_vars PROVE RInv'
  OBVIOUS
<1>1. PInv'
  BY StepHolds DEF RInv
<1>2. CASE Submit \/ RemoveSet \/ Restart \/ RequestFails \/ SetEvent
  BY <1>1, <1>2, SubmitReady, RemoveSetReady, RestartReady, RequestFailsReady, SetEventReady
<1>3. CASE Work
  BY <1>1, <1>3, ReconcileReady, ListPodsReady, UpdatePodReady, CreatePodReady,
     DeletePodReady, WriteStatusReady DEF Work
<1>4. CASE \E p \in PodNames : PodEvent(p) \/ PodGone(p) \/ RemovePod(p)
  BY <1>1, <1>4, PodEventReady, PodGoneReady, RemovePodReady
<1>5. CASE UNCHANGED vars
  <2>1. UNCHANGED <<podSet, pods, setFeed, cachedSet, pc, held, existing, next,
                    lost>>
    BY <1>5 DEF vars, server, cache, worker, history
  <2>2. OrderInv' /\ HeldInv' /\ StatusInv'
    BY <2>1, SetsStill
  <2>3. PassedInv' /\ ReadyMeansReconciled'
    BY <2>1 DEF RInv, PassedInv, Passed, Runs, ReadyMeansReconciled, Desired
  <2> QED
    BY <1>1, <2>1, <2>2, <2>3 DEF RInv
<1> QED
  BY <1>2, <1>3, <1>4, <1>5 DEF Next

(* When the Ready condition is about the current generation, the status    *)
(* names the pods of the current spec, and those that run have its image,  *)
(* however old the cache a reconcile worked from and wherever it was       *)
(* interrupted (podset_controller.go:107).  One that does not run was      *)
(* deleted by somebody else, or updated on its way out by a reconcile      *)
(* whose cache still showed it alive (line 85), and not made since.        *)
THEOREM ReadyIsTrue == Spec => []ReadyMeansReconciled
<1>1. RInv => ReadyMeansReconciled
  BY DEF RInv
<1> QED
  BY <1>1, InitReady, StepReady, PTL DEF Spec

-----------------------------------------------------------------------------
(* What the cache shows of one pod, and after it the states on their way:  *)
(* c is the cached state, f the feed.                                      *)
Shown(c, f, i) == IF i = 0 THEN c ELSE f[i]

(* The last state shown is the stored one, s.  A pod that comes alive is   *)
(* announced with an owner: only the reconciler makes pods.                *)
FeedOK(c, f, s) ==
    /\ Shown(c, f, Len(f)) = s
    /\ \A i \in 0..Len(f) : Alive(s) /\ ~Alive(Shown(c, f, i)) =>
          \E k \in (i + 1)..Len(f) : Shown(c, f, k).owned

FeedInv == \A p \in PodNames : FeedOK(cachedPods[p], podFeed[p], pods[p])

(* Of the events on their way, one concerns the PodSet. *)
Concerning(c, f) == f # <<>> /\ \E k \in 0..Len(f) : Shown(c, f, k).owned

(* A reconcile is still to come. *)
Coming ==
    \/ queued \/ setFeed # <<>>
    \/ \E p \in PodNames : Concerning(cachedPods[p], podFeed[p])

(* While none is, the running one works from the stored PodSet: what it    *)
(* has passed runs, unless its end went unnoticed, what it has not listed  *)
(* is gone; and without a running one there is nothing left to do.         *)
AllListed == \A p \in PodNames \ (Desired(held.spec) \cup existing) : ~Alive(pods[p])

ProgressInv ==
    podSet.present /\ ~Coming =>
        /\ pc = "idle" => Settled
        /\ pc # "idle" => held = podSet
        /\ pc = "apply" => (\A p \in Passed : Runs(p, held.spec.image, unnoticed)) /\ AllListed

QInv == RInv /\ FeedInv /\ ProgressInv

-----------------------------------------------------------------------------
LEMMA FeedAppend ==
  ASSUME NEW c, NEW f \in Seq(PodState), NEW s, FeedOK(c, f, s), NEW t \in PodState,
         Alive(t) /\ ~Alive(s) => t.owned
  PROVE  /\ FeedOK(c, Append(f, t), t)
         /\ Concerning(c, f) \/ s.owned \/ t.owned => Concerning(c, Append(f, t))
<1> DEFINE n == Len(f)
           g == Append(f, t)
<1>1. /\ n \in Nat /\ Len(g) = n + 1 /\ g[n + 1] = t /\ g # <<>>
      /\ \A i \in 1..n : g[i] = f[i]
  OBVIOUS
<1> HIDE DEF g, n
<1>2. /\ \A i \in 0..n : Shown(c, g, i) = Shown(c, f, i)
      /\ Shown(c, g, n + 1) = t
      /\ Shown(c, f, n) = s
  BY <1>1 DEF Shown, FeedOK, n
<1>3. ASSUME NEW i \in 0..(n + 1), Alive(t), ~Alive(Shown(c, g, i))
      PROVE  \E k \in (i + 1)..(n + 1) : Shown(c, g, k).owned
  <2>1. i \in 0..n
    BY <1>1, <1>2, <1>3
  <2>2. CASE Alive(s)
    <3>1. PICK k \in (i + 1)..n : Shown(c, f, k).owned
      BY <1>2, <1>3, <2>1, <2>2 DEF FeedOK, n
    <3> QED
      BY <1>1, <1>2, <2>1, <3>1
  <2>3. CASE ~Alive(s)
    BY <1>1, <1>2, <1>3, <2>1, <2>3
  <2> QED
    BY <2>2, <2>3
<1>4. FeedOK(c, g, t)
  BY <1>1, <1>2, <1>3 DEF FeedOK
<1>5. Concerning(c, f) \/ s.owned \/ t.owned => Concerning(c, g)
  <2>1. n \in 0..(n + 1) /\ n + 1 \in 0..(n + 1) /\ 0..n \subseteq 0..(n + 1) /\ n \in 0..n
    BY <1>1
  <2> QED
    BY <1>1, <1>2, <2>1 DEF Concerning, n
<1> QED
  BY <1>4, <1>5 DEF g

LEMMA FeedMoves ==
  ASSUME NEW c, NEW f \in Seq(PodState), NEW s, FeedOK(c, f, s), f # <<>>
  PROVE  /\ FeedOK(Head(f), Tail(f), s)
         /\ Concerning(c, f) => Concerns(c, Head(f)) \/ Concerning(Head(f), Tail(f))
<1> DEFINE n == Len(f) - 1
           d == Head(f)
           g == Tail(f)
<1>1. /\ n \in Nat /\ Len(f) = n + 1 /\ Len(g) = n /\ d = f[1] /\ g \in Seq(PodState)
      /\ \A i \in 1..n : g[i] = f[i + 1]
  OBVIOUS
<1> HIDE DEF g, d, n
<1>2. \A i \in 0..n : Shown(d, g, i) = Shown(c, f, i + 1)
  BY <1>1 DEF Shown
<1>3. Shown(d, g, n) = s
  BY <1>1, <1>2 DEF FeedOK
<1>4. ASSUME NEW i \in 0..n, Alive(s), ~Alive(Shown(d, g, i))
      PROVE  \E k \in (i + 1)..n : Shown(d, g, k).owned
  <2>1. i + 1 \in 0..Len(f) /\ ~Alive(Shown(c, f, i + 1))
    BY <1>1, <1>2, <1>4
  <2>2. PICK k \in (i + 2)..Len(f) : Shown(c, f, k).owned
    BY <1>4, <2>1 DEF FeedOK
  <2>3. k - 1 \in (i + 1)..n /\ k - 1 \in 0..n /\ (k - 1) + 1 = k
    BY <1>1, <2>2
  <2>4. Shown(d, g, k - 1).owned
    BY <1>2, <2>2, <2>3
  <2> QED
    BY <2>3, <2>4
<1>5. FeedOK(d, g, s)
  BY <1>1, <1>3, <1>4 DEF FeedOK
<1>6. ASSUME Concerning(c, f), ~Concerns(c, d)
      PROVE  Concerning(d, g)
  <2>1. PICK k \in 0..Len(f) : Shown(c, f, k).owned
    BY <1>6 DEF Concerning
  <2>2. k # 0 /\ k # 1
    BY <1>1, <1>6, <2>1 DEF Concerns, Shown
  <2>3. k - 1 \in 0..n /\ (k - 1) + 1 = k /\ n # 0
    BY <1>1, <2>1, <2>2
  <2>4. Shown(d, g, k - 1).owned
    BY <1>2, <2>1, <2>3
  <2> QED
    BY <1>1, <2>3, <2>4 DEF Concerning
<1> QED
  BY <1>5, <1>6 DEF d, g

(* A pod is written: the event that tells of an owned pod is on its way.   *)
LEMMA FeedWritten ==
  ASSUME PInv, FeedInv, NEW q \in PodNames, NEW s \in PodState, WritePod(q, s),
         cachedPods' = cachedPods, Alive(s) /\ ~Alive(pods[q]) => s.owned
  PROVE  /\ FeedInv'
         /\ setFeed' = setFeed /\ podSet' = podSet
         /\ pods' = [pods EXCEPT ![q] = s]
         /\ Coming /\ (queued => queued') => Coming'
         /\ s # pods[q] /\ (pods[q].owned \/ s.owned) => Coming'
<1>1. /\ setFeed' = setFeed /\ podSet' = podSet
      /\ pods' = [pods EXCEPT ![q] = s]
      /\ podFeed' = IF s = pods[q] THEN podFeed
                    ELSE [podFeed EXCEPT ![q] = Append(@, s)]
  BY DEF WritePod
<1>2. pods \in [PodNames -> PodState] /\ podFeed \in [PodNames -> Seq(PodState)]
  BY DEF PInv, ServerOK
<1>3. CASE s = pods[q]
  <2>1. UNCHANGED <<pods, podFeed, cachedPods>>
    BY <1>1, <1>2, <1>3
  <2> QED
    BY <1>1, <1>3, <2>1 DEF FeedInv, Coming
<1>4. CASE s # pods[q]
  <2>1. /\ podFeed'[q] = Append(podFeed[q], s) /\ pods'[q] = s
        /\ \A p \in PodNames : p # q => podFeed'[p] = podFeed[p] /\ pods'[p] = pods[p]
    BY <1>1, <1>2, <1>4
  <2>2. podFeed[q] \in Seq(PodState) /\ FeedOK(cachedPods[q], podFeed[q], pods[q])
    BY <1>2 DEF FeedInv
  <2>3. /\ FeedOK(cachedPods[q], podFeed'[q], s)
        /\ Concerning(cachedPods[q], podFeed[q]) \/ pods[q].owned \/ s.owned =>
              Concerning(cachedPods[q], podFeed'[q])
    BY <2>1, <2>2, FeedAppend
  <2>4. \A p \in PodNames : FeedOK(cachedPods[p], podFeed'[p], pods'[p])
    BY <2>1, <2>3 DEF FeedInv
  <2>5. \A p \in PodNames : Concerning(cachedPods[p], podFeed[p]) =>
                            Concerning(cachedPods[p], podFeed'[p])
    BY <2>1, <2>3
  <2> QED
    BY <1>1, <2>3, <2>4, <2>5 DEF FeedInv, Coming
<1> QED
  BY <1>1, <1>3, <1>4

-----------------------------------------------------------------------------
(* Where a reconcile is still to come, nothing is claimed. *)
LEMMA ComingSuffices ==
  ASSUME Coming' \/ ~podSet'.present
  PROVE  ProgressInv'
  BY DEF ProgressInv

LEMMA FailProgress ==
  ASSUME Fail
  PROVE  ProgressInv'
  BY DEF Fail, ProgressInv, Coming

LEMMA NothingNew ==
  ASSUME ProgressInv, UNCHANGED <<podSet, pods, worker, unnoticed>>, Coming => Coming'
  PROVE  ProgressInv'
<1>1. UNCHANGED <<pc, held, existing, next>>
  BY DEF worker
<1>2. Settled => Settled'
  BY DEF Settled, PodsAsDesired, Desired, Runs
<1>3. AllListed => AllListed'
  BY <1>1 DEF AllListed, Desired
<1>4. (\A p \in Passed : Runs(p, held.spec.image, unnoticed)) =>
         (\A p \in Passed : Runs(p, held.spec.image, unnoticed))'
  BY <1>1 DEF Passed, Runs
<1> QED
  BY <1>1, <1>2, <1>3, <1>4 DEF ProgressInv

(* A user's write changes nothing, or the reconciler is to hear of it. *)
LEMMA SetWritten ==
  ASSUME PInv, FeedInv, ProgressInv, NEW s, WriteSet(s),
         UNCHANGED <<cachedPods, worker, queued, unnoticed>>
  PROVE  FeedInv' /\ ProgressInv'
<1>1. UNCHANGED <<pods, podFeed>> /\ podSet' = s
      /\ setFeed' = IF s = podSet THEN setFeed ELSE Append(setFeed, s)
  BY DEF WriteSet
<1>2. FeedInv'
  BY <1>1 DEF FeedInv
<1>3. CASE s = podSet
  <2>1. UNCHANGED <<podSet, pods, worker, unnoticed>> /\ (Coming => Coming')
    BY <1>1, <1>3 DEF Coming
  <2> QED
    BY <1>2, <2>1, NothingNew
<1>4. CASE s # podSet
  <2>1. setFeed' # <<>>
    BY <1>1, <1>4 DEF PInv, ServerOK
  <2> QED
    BY <1>2, <2>1, ComingSuffices DEF Coming
<1> QED
  BY <1>2, <1>3, <1>4

LEMMA SubmitProgress == QInv /\ Submit => FeedInv' /\ ProgressInv'
<1> SUFFICES ASSUME QInv, Submit PROVE FeedInv' /\ ProgressInv'
  OBVIOUS
<1>1. PICK s : WriteSet(s)
  BY DEF Submit
<1> QED
  BY <1>1, SetWritten DEF QInv, RInv, Submit, cache, history

LEMMA RemoveSetProgress == QInv /\ RemoveSet => FeedInv' /\ ProgressInv'
  BY SetWritten DEF QInv, RInv, RemoveSet, cache, history

RunsThen(p, image) ==
    IF Alive(pods'[p]) THEN pods'[p].image = image ELSE p \in unnoticed'

(* A pod goes away: it did not run, an event tells of it, or it is one     *)
(* that nobody notices.                                                    *)
LEMMA DeadPodProgress ==
  ASSUME QInv, NEW q \in PodNames, NEW s \in PodState, WritePod(q, s),
         UNCHANGED <<cachedPods, worker, queued>>, unnoticed \subseteq unnoticed',
         ~Alive(s), Alive(pods[q]) => pods[q].owned \/ q \in unnoticed'
  PROVE  FeedInv' /\ ProgressInv'
<1>1. /\ FeedInv' /\ setFeed' = setFeed /\ podSet' = podSet
      /\ pods' = [pods EXCEPT ![q] = s]
      /\ Coming => Coming'
      /\ s # pods[q] /\ pods[q].owned => Coming'
  BY FeedWritten DEF QInv, RInv
<1>2. CASE Coming' \/ ~podSet'.present
  BY <1>1, <1>2, ComingSuffices
<1>3. CASE ~(Coming' \/ ~podSet'.present)
  <2>1. ~Coming /\ podSet.present /\ (~Alive(pods[q]) \/ q \in unnoticed')
    BY <1>1, <1>3
  <2>2. pods \in [PodNames -> PodState] /\ Passed \subseteq PodNames
        /\ Desired(podSet.spec) \subseteq PodNames
    BY PassedArePods, DesiredKnown DEF QInv, RInv, PInv, ServerOK
  <2>3. /\ \A p \in PodNames : p # q => pods'[p] = pods[p]
        /\ ~Alive(pods'[q])
    BY <1>1, <2>2
  <2>4. \A p \in PodNames, im \in Images :
           /\ Runs(p, im, unnoticed) => RunsThen(p, im)
           /\ ~Alive(pods[p]) => ~Alive(pods'[p])
    BY <2>1, <2>3 DEF Runs, RunsThen
  <2>5. podSet.spec.image \in Images /\ held.spec.image \in Images
    BY DEF QInv, RInv, PInv, ServerOK, WorkerOK, Usable, SetState, Specs
  <2>6. pc = "idle" => Settled'
    <3> SUFFICES ASSUME pc = "idle" PROVE Settled'
      OBVIOUS
    <3>1. Settled
      BY <2>1 DEF QInv, ProgressInv
    <3>2. \A p \in PodNames \ Desired(podSet.spec) : ~Alive(pods'[p])
      BY <2>4, <2>5, <3>1 DEF Settled, PodsAsDesired
    <3>3. \A p \in Desired(podSet.spec) : RunsThen(p, podSet.spec.image)
      <4> TAKE p \in Desired(podSet.spec)
      <4>1. p \in PodNames /\ Runs(p, podSet.spec.image, unnoticed)
        BY <2>2, <3>1 DEF Settled, PodsAsDesired
      <4> QED
        BY <2>4, <2>5, <4>1
    <3> QED
      BY <1>1, <3>1, <3>2, <3>3 DEF Settled, PodsAsDesired, Desired, Runs, RunsThen
  <2>7. pc # "idle" => held = podSet
    BY <2>1 DEF QInv, ProgressInv
  <2>8. pc = "apply" => (\A p \in Passed : RunsThen(p, held.spec.image)) /\ AllListed'
    <3> SUFFICES ASSUME pc = "apply"
                 PROVE  (\A p \in Passed : RunsThen(p, held.spec.image)) /\ AllListed'
      OBVIOUS
    <3>1. (\A p \in Passed : Runs(p, held.spec.image, unnoticed)) /\ AllListed
      BY <2>1 DEF QInv, ProgressInv
    <3>2. \A p \in Passed : RunsThen(p, held.spec.image)
      BY <2>2, <2>4, <2>5, <3>1
    <3>3. AllListed'
      BY <2>4, <2>5, <3>1 DEF AllListed, Desired, worker
    <3> QED
      BY <3>2, <3>3
  <2> QED
    BY <1>1, <2>6, <2>7, <2>8 DEF ProgressInv, worker, Passed, Runs, RunsThen
<1> QED
  BY <1>2, <1>3

LEMMA PodGoneProgress ==
  ASSUME QInv, NEW q \in PodNames, PodGone(q)
  PROVE  FeedInv' /\ ProgressInv'
<1>1. ~Alive(NoPod) /\ ~Alive(pods[q]) /\ NoPod \in PodState
  BY NoPodIsPod DEF PodGone, Alive, NoPod
<1> QED
  BY <1>1, DeadPodProgress DEF PodGone, cache, history

(* Somebody else's deletion of a pod without an owner is not noticed. *)
LEMMA DeletedIsDead ==
  ASSUME PInv, NEW q \in PodNames
  PROVE  DeletedPod(q) \in PodState /\ ~Alive(DeletedPod(q))
<1>1. pods[q] \in PodState
  BY DEF PInv, ServerOK
<1> QED
  BY <1>1, DeletedIsPod DEF PInv, DeletedPod, NoPod, Alive, PodState

LEMMA RemovePodProgress ==
  ASSUME QInv, NEW q \in PodNames, RemovePod(q)
  PROVE  FeedInv' /\ ProgressInv'
<1>1. ~Alive(DeletedPod(q)) /\ DeletedPod(q) \in PodState
  BY DeletedIsDead DEF QInv, RInv
<1>2. /\ unnoticed' = IF pods[q].owned THEN unnoticed ELSE unnoticed \cup {q}
      /\ WritePod(q, DeletedPod(q))
  BY DEF RemovePod
<1>4. unnoticed \subseteq unnoticed' /\ (pods[q].owned \/ q \in unnoticed')
  BY <1>2
<1>5. UNCHANGED <<cachedPods, worker, queued>>
  BY DEF RemovePod, cache
<1> QED
  BY <1>1, <1>2, <1>4, <1>5, DeadPodProgress

LEMMA SetEventProgress == QInv /\ SetEvent => FeedInv' /\ ProgressInv'
<1> SUFFICES ASSUME QInv, SetEvent PROVE FeedInv' /\ ProgressInv'
  OBVIOUS
<1>1. UNCHANGED <<pods, podFeed, cachedPods>> /\ queued'
  BY DEF SetEvent
<1> QED
  BY <1>1, ComingSuffices DEF QInv, FeedInv, Coming

LEMMA PodEventProgress ==
  ASSUME QInv, NEW q \in PodNames, PodEvent(q)
  PROVE  FeedInv' /\ ProgressInv'
<1>1. /\ podFeed[q] # <<>>
      /\ cachedPods' = [cachedPods EXCEPT ![q] = Head(podFeed[q])]
      /\ podFeed' = [podFeed EXCEPT ![q] = Tail(podFeed[q])]
      /\ queued' = (queued \/ Concerns(cachedPods[q], Head(podFeed[q])))
      /\ UNCHANGED <<podSet, pods, setFeed, worker, unnoticed>>
  BY DEF PodEvent, history
<1>2. podFeed \in [PodNames -> Seq(PodState)] /\ cachedPods \in [PodNames -> PodState]
  BY DEF QInv, RInv, PInv, ServerOK, CacheOK
<1>3. /\ cachedPods'[q] = Head(podFeed[q]) /\ podFeed'[q] = Tail(podFeed[q])
      /\ \A p \in PodNames : p # q => podFeed'[p] = podFeed[p] /\ cachedPods'[p] = cachedPods[p]
  BY <1>1, <1>2
<1>4. podFeed[q] \in Seq(PodState) /\ FeedOK(cachedPods[q], podFeed[q], pods[q])
  BY <1>2 DEF QInv, FeedInv
<1>5. /\ FeedOK(cachedPods'[q], podFeed'[q], pods[q])
      /\ Concerning(cachedPods[q], podFeed[q]) =>
            Concerns(cachedPods[q], Head(podFeed[q])) \/ Concerning(cachedPods'[q], podFeed'[q])
  BY <1>1, <1>3, <1>4, FeedMoves
<1>6. FeedInv'
  BY <1>1, <1>3, <1>5 DEF QInv, FeedInv
<1>7. Coming => Coming'
  <2>1. CASE queued \/ setFeed # <<>>
    BY <1>1, <2>1 DEF Coming
  <2>2. ASSUME NEW p \in PodNames, Concerning(cachedPods[p], podFeed[p])
        PROVE  Coming'
    <3>1. CASE p = q
      BY <1>1, <1>5, <2>2, <3>1 DEF Coming
    <3>2. CASE p # q
      BY <1>3, <2>2, <3>2 DEF Coming
    <3> QED
      BY <3>1, <3>2
  <2> QED
    BY <2>1, <2>2 DEF Coming
<1>8. ProgressInv'
  BY <1>1, <1>7, NothingNew DEF QInv
<1> QED
  BY <1>6, <1>8

LEMMA RestartProgress == QInv /\ Restart => FeedInv' /\ ProgressInv'
<1> SUFFICES ASSUME QInv, Restart PROVE FeedInv' /\ ProgressInv'
  OBVIOUS
<1>1. /\ UNCHANGED <<podSet, pods>> /\ cachedPods' = pods
      /\ podFeed' = [p \in PodNames |-> <<>>]
      /\ podSet.present => queued'
  BY DEF Restart
<1>2. \A p \in PodNames : FeedOK(pods[p], <<>>, pods[p])
  BY DEF FeedOK, Shown
<1>3. FeedInv'
  BY <1>1, <1>2 DEF FeedInv
<1> QED
  BY <1>1, <1>3, ComingSuffices DEF Coming

-----------------------------------------------------------------------------
(* A reconcile that starts while nothing else is to come has the stored    *)
(* PodSet.                                                                 *)
LEMMA ReconcileProgress == QInv /\ Reconcile => FeedInv' /\ ProgressInv'
<1> SUFFICES ASSUME QInv, Reconcile PROVE FeedInv' /\ ProgressInv'
  OBVIOUS
<1>1. UNCHANGED <<podSet, pods, setFeed, podFeed, cachedPods, cachedSet, unnoticed>>
  BY DEF Reconcile, server, cache, history
<1>2. FeedInv'
  BY <1>1 DEF QInv, FeedInv
<1>3. ASSUME podSet'.present, ~Coming'
      PROVE  pc' = "list" /\ held' = podSet
  <2>1. setFeed = <<>>
    BY <1>1, <1>3 DEF Coming
  <2>2. cachedSet = podSet
    BY <2>1 DEF QInv, RInv, OrderInv
  <2> QED
    BY <1>1, <1>3, <2>2 DEF Reconcile
<1> QED
  BY <1>1, <1>2, <1>3 DEF ProgressInv

(* What is not listed is gone, unless an event about it is to come.        *)
LEMMA ListPodsProgress == QInv /\ ListPods => FeedInv' /\ ProgressInv'
<1> SUFFICES ASSUME QInv, ListPods PROVE FeedInv' /\ ProgressInv'
  OBVIOUS
<1>1. /\ UNCHANGED <<podSet, pods, setFeed, podFeed, cachedPods, unnoticed, held, queued>>
      /\ pc = "list" /\ pc' = "apply" /\ next' = 0
      /\ existing' = {p \in PodNames : cachedPods[p].present /\ ~cachedPods[p].deleting}
  BY DEF ListPods, Goto, server, cache, history
<1>2. FeedInv'
  BY <1>1 DEF QInv, FeedInv
<1>3. ASSUME podSet.present, ~Coming
      PROVE  held = podSet /\ AllListed'
  <2>1. held = podSet
    BY <1>1, <1>3 DEF QInv, ProgressInv
  <2>2. ASSUME NEW p \in PodNames, ~Alive(cachedPods[p]), Alive(pods[p])
        PROVE  FALSE
    <3>1. FeedOK(cachedPods[p], podFeed[p], pods[p]) /\ Len(podFeed[p]) \in Nat
          /\ podFeed[p] \in Seq(PodState)
      BY DEF QInv, FeedInv, RInv, PInv, ServerOK
    <3>2. PICK k \in 1..Len(podFeed[p]) : Shown(cachedPods[p], podFeed[p], k).owned
      BY <2>2, <3>1 DEF FeedOK, Shown
    <3>3. k \in 0..Len(podFeed[p]) /\ podFeed[p] # <<>>
      BY <3>1, <3>2
    <3> QED
      BY <1>3, <3>2, <3>3 DEF Coming, Concerning
  <2>3. \A p \in PodNames \ existing' : ~Alive(pods[p])
    BY <1>1, <2>2 DEF Alive
  <2> QED
    BY <1>1, <2>1, <2>3 DEF AllListed
<1>4. Passed' = {}
  BY <1>1 DEF Passed
<1>5. Coming => Coming'
  BY <1>1 DEF Coming
<1> QED
  BY <1>1, <1>2, <1>3, <1>4, <1>5 DEF ProgressInv

(* A write is stored and the reconcile goes on.  If the pod was nobody's,  *)
(* no event will tell of it: what was true of the others stays so.         *)
LEMMA OnProgress ==
  ASSUME QInv, pc = "apply", NEW q \in PodNames, NEW s \in PodState, WritePod(q, s),
         cachedPods' = cachedPods,
         \A p \in PodNames : p # q /\ p \in unnoticed => p \in unnoticed',
         Alive(s) /\ ~Alive(pods[q]) => s.owned,
         NEW left, NEW i, Stored(Goto("apply", left, i)),
         existing \subseteq left \cup {q},
         \/ /\ q = PodName /\ i = next + 1 /\ q \in Desired(held.spec)
            /\ \/ IF Alive(s) THEN s.image = held.spec.image ELSE q \in unnoticed'
               \/ s # pods[q] /\ pods[q].owned
         \/ q \notin Passed /\ i = next /\ ~Alive(s)
  PROVE  FeedInv' /\ ProgressInv'
<1>1. /\ FeedInv' /\ setFeed' = setFeed /\ podSet' = podSet
      /\ pods' = [pods EXCEPT ![q] = s]
      /\ Coming /\ (queued => queued') => Coming'
      /\ s # pods[q] /\ (pods[q].owned \/ s.owned) => Coming'
  BY FeedWritten DEF QInv, RInv
<1>2. CASE Coming' \/ ~podSet'.present
  BY <1>1, <1>2, ComingSuffices
<1>3. CASE ~(Coming' \/ ~podSet'.present)
  <2>1. Goto("apply", left, i)
    BY <1>3 DEF Stored, Fail, Coming
  <2>2. /\ pc' = "apply" /\ existing' = left /\ next' = i
        /\ held' = held /\ queued' = queued
    BY <2>1 DEF Goto
  <2>3. podSet.present /\ ~Coming
    BY <1>1, <1>3, <2>2
  <2>4. held = podSet /\ (\A p \in Passed : Runs(p, held.spec.image, unnoticed)) /\ AllListed
    BY <2>3 DEF QInv, ProgressInv
  <2>5. pods \in [PodNames -> PodState] /\ Passed \subseteq PodNames
    BY PassedArePods DEF QInv, RInv, PInv, ServerOK
  <2>6. pods'[q] = s /\ \A p \in PodNames : p # q => pods'[p] = pods[p]
    BY <1>1, <2>5
  <2>7. \/ /\ Passed' = Passed \cup {q}
           /\ IF Alive(s) THEN s.image = held.spec.image ELSE q \in unnoticed'
           /\ q \in Desired(held.spec)
        \/ Passed' = Passed /\ q \notin Passed /\ ~Alive(s)
    <3>1. next' = next + 1 => Passed' = Passed \cup {PodName}
      BY <2>2, PassedGrows DEF QInv, RInv
    <3>2. next' = next => Passed' = Passed
      BY <2>2 DEF Passed
    <3> QED
      BY <1>1, <1>3, <2>2, <3>1, <3>2
  <2>8. ASSUME NEW p \in Passed'
        PROVE  RunsThen(p, held.spec.image)
    <3>1. CASE p = q
      BY <2>5, <2>6, <2>7, <2>8, <3>1 DEF RunsThen
    <3>2. CASE p # q
      BY <2>4, <2>5, <2>6, <2>7, <2>8, <3>2 DEF Runs, RunsThen
    <3> QED
      BY <3>1, <3>2
  <2>9. ASSUME NEW p \in PodNames, p \notin Desired(held.spec), p \notin left
        PROVE  ~Alive(pods'[p])
    <3>1. CASE p = q
      BY <2>6, <2>7, <2>9, <3>1
    <3>2. CASE p # q
      BY <2>4, <2>6, <2>7, <2>9, <3>2 DEF AllListed
    <3> QED
      BY <3>1, <3>2
  <2>10. AllListed'
    BY <2>2, <2>9 DEF AllListed, Desired
  <2> QED
    BY <1>1, <2>2, <2>4, <2>8, <2>10 DEF ProgressInv, Runs, RunsThen
<1> QED
  BY <1>2, <1>3

LEMMA RefusedProgress ==
  ASSUME QInv, Fail, UNCHANGED <<server, cachedPods>>
  PROVE  FeedInv' /\ ProgressInv'
<1>1. UNCHANGED <<pods, podFeed, cachedPods>>
  BY DEF server
<1> QED
  BY <1>1, FailProgress DEF QInv, FeedInv

LEMMA PodNameDesired ==
  ASSUME PInv, MoreReplicas
  PROVE  PodName \in PodNames /\ PodName \in Desired(held.spec)
<1>1. next \in Nat /\ held.spec.replicas \in Nat /\ next < held.spec.replicas
  BY PassedArePods, DesiredKnown DEF MoreReplicas
<1>2. next \in 0..(held.spec.replicas - 1)
  BY <1>1
<1> QED
  BY <1>2, LoopInside DEF PInv, Desired, PodName

LEMMA UpdatePodProgress == QInv /\ UpdatePod => FeedInv' /\ ProgressInv'
<1> SUFFICES ASSUME QInv, UpdatePod PROVE FeedInv' /\ ProgressInv'
  OBVIOUS
<1>1. pc = "apply" /\ PodName \in existing /\ cachedPods' = cachedPods /\ PInv
  BY DEF UpdatePod, cache, QInv, RInv
<1>2. PICK q \in PodNames : q = PodName
  BY PodNameDesired DEF UpdatePod, QInv, RInv
<1>3. q \in Desired(held.spec)
  BY <1>2, PodNameDesired DEF UpdatePod, QInv, RInv
<1>4. CASE pods[q].present
  <2> DEFINE new == [pods[q] EXCEPT !.image = held.spec.image, !.owned = FALSE]
  <2>1. /\ WritePod(q, new)
        /\ unnoticed' = IF pods[q].deleting /\ ~pods[q].owned
                        THEN unnoticed \cup {q} ELSE unnoticed
        /\ Stored(Goto("apply", existing \ {q}, next + 1))
    BY <1>2, <1>4 DEF UpdatePod
  <2>2. pods[q] \in PodState /\ held.spec.image \in Images
    BY <1>1 DEF PInv, ServerOK, WorkerOK, Usable, SetState, Specs
  <2>3. /\ new \in PodState
        /\ new.present /\ new.image = held.spec.image /\ new.deleting = pods[q].deleting
        /\ ~new.owned
    BY <1>4, <2>2 DEF PodState
  <2> HIDE DEF new
  <2>4. /\ \A p \in PodNames : p # q /\ p \in unnoticed => p \in unnoticed'
        /\ Alive(new) => Alive(pods[q])
    BY <1>4, <2>1, <2>3 DEF Alive
  <2>5. \/ IF Alive(new) THEN new.image = held.spec.image ELSE q \in unnoticed'
        \/ new # pods[q] /\ pods[q].owned
    BY <1>4, <2>1, <2>3 DEF Alive
  <2>6. existing \subseteq (existing \ {q}) \cup {q}
    OBVIOUS
  <2> QED
    BY <1>1, <1>2, <1>3, <2>1, <2>3, <2>4, <2>5, <2>6, OnProgress
<1>5. CASE ~pods[q].present
  BY <1>1, <1>2, <1>5, RefusedProgress DEF UpdatePod
<1> QED
  BY <1>4, <1>5

LEMMA CreatePodProgress == QInv /\ CreatePod => FeedInv' /\ ProgressInv'
<1> SUFFICES ASSUME QInv, CreatePod PROVE FeedInv' /\ ProgressInv'
  OBVIOUS
<1>1. cachedPods' = cachedPods /\ PInv
  BY DEF CreatePod, cache, QInv, RInv
<1>2. PICK q \in PodNames : q = PodName
  BY PodNameDesired DEF CreatePod, QInv, RInv
<1>3. CASE ~pods[q].present /\ held.spec.name # NoName
  <2> DEFINE new == [present |-> TRUE, image |-> held.spec.image,
                     owned |-> TRUE, deleting |-> FALSE]
  <2>1. WritePod(q, new)
    BY <1>2, <1>3 DEF CreatePod
  <2>2. new \in PodState /\ new.owned /\ new # pods[q]
    BY <1>1, <1>3 DEF PInv, ServerOK, WorkerOK, Usable, SetState, Specs, PodState
  <2> HIDE DEF new
  <2>3. FeedInv' /\ Coming'
    BY <1>1, <2>1, <2>2, FeedWritten DEF QInv
  <2> QED
    BY <2>3, ComingSuffices
<1>4. CASE ~(~pods[q].present /\ held.spec.name # NoName)
  BY <1>1, <1>2, <1>4, RefusedProgress DEF CreatePod
<1> QED
  BY <1>3, <1>4

LEMMA DeletePodProgress ==
  ASSUME QInv, NEW q \in PodNames, DeletePod(q)
  PROVE  FeedInv' /\ ProgressInv'
<1>1. /\ pc = "apply" /\ q \in existing
      /\ cachedPods' = cachedPods /\ unnoticed' = unnoticed /\ PInv
  BY DEF DeletePod, cache, history, QInv, RInv
<1>2. CASE pods[q].present
  <2>1. WritePod(q, DeletedPod(q)) /\ Stored(Goto("apply", existing \ {q}, next))
    BY <1>2 DEF DeletePod
  <2>2. ~Alive(DeletedPod(q)) /\ DeletedPod(q) \in PodState
    BY <1>1, DeletedIsDead
  <2>3. q \notin Passed
    BY <1>1 DEF QInv, RInv, PassedInv
  <2>4. existing \subseteq (existing \ {q}) \cup {q}
    OBVIOUS
  <2> QED
    BY <1>1, <2>1, <2>2, <2>3, <2>4, OnProgress
<1>3. CASE ~pods[q].present
  BY <1>1, <1>3, RefusedProgress DEF DeletePod
<1> QED
  BY <1>2, <1>3

(* The last step: every desired pod was passed, every other is gone, and   *)
(* the status is the one to be stored.                                     *)
LEMMA WriteStatusProgress == QInv /\ WriteStatus => FeedInv' /\ ProgressInv'
<1> SUFFICES ASSUME QInv, WriteStatus PROVE FeedInv' /\ ProgressInv'
  OBVIOUS
<1>1. /\ pc = "apply" /\ ~MoreReplicas /\ existing = {}
      /\ cachedPods' = cachedPods /\ unnoticed' = unnoticed
  BY DEF WriteStatus, cache, history
<1>2. CASE podSet.present /\ podSet.rv = held.rv
  <2> DEFINE same == podSet.observed = held.generation /\ podSet.pods = Desired(held.spec)
  <2>1. PICK s : WriteSet(s) /\ ((s = podSet /\ same) \/ s.rv = podSet.rv + 1)
    <3>1. podSet.rv \in Nat /\ podSet \in SetState
      BY SetTypes DEF QInv, RInv, PInv, ServerOK, Usable
    <3>2. [podSet EXCEPT !.rv = @ + 1, !.pods = Desired(held.spec),
                         !.observed = held.generation].rv = podSet.rv + 1
      BY <3>1 DEF SetState
    <3> QED
      BY <1>2, <3>2 DEF WriteStatus
  <2> HIDE DEF same
  <2>2. UNCHANGED <<pods, podFeed>> /\ podSet' = s
        /\ setFeed' = IF s = podSet THEN setFeed ELSE Append(setFeed, s)
    BY <2>1 DEF WriteSet
  <2>3. FeedInv'
    BY <1>1, <2>2 DEF QInv, FeedInv
  <2>4. CASE s # podSet
    <3>1. setFeed' # <<>>
      BY <2>2, <2>4 DEF QInv, RInv, PInv, ServerOK
    <3> QED
      BY <2>3, <3>1, ComingSuffices DEF Coming
  <2>5. CASE s = podSet
    <3>1. podSet.rv \in Nat
      BY SetTypes DEF QInv, RInv
    <3>2. same /\ UNCHANGED <<podSet, pods, setFeed, podFeed>>
      BY <2>1, <2>2, <2>5, <3>1
    <3>3. Stored(Leave /\ UNCHANGED queued)
      BY <1>2 DEF WriteStatus
    <3>4. CASE Fail
      BY <2>3, <3>4, FailProgress
    <3>5. CASE Leave /\ UNCHANGED queued
      <4>1. Coming => Coming'
        BY <1>1, <3>2, <3>5 DEF Coming
      <4>2. ASSUME podSet.present, ~Coming
            PROVE  Settled
        <5>1. held = podSet /\ (\A p \in Passed : Runs(p, held.spec.image, unnoticed)) /\ AllListed
          BY <1>1, <4>2 DEF QInv, ProgressInv
        <5>2. Desired(held.spec) \subseteq Passed
          BY <1>1, AllPassed DEF QInv, RInv
        <5>3. \A p \in PodNames \ Desired(podSet.spec) : ~Alive(pods[p])
          BY <1>1, <5>1 DEF AllListed
        <5>4. \A p \in Desired(podSet.spec) : Runs(p, podSet.spec.image, unnoticed)
          BY <5>1, <5>2
        <5>5. podSet.observed = podSet.generation /\ podSet.pods = Desired(podSet.spec)
          BY <3>2, <5>1 DEF same
        <5> QED
          BY <5>3, <5>4, <5>5 DEF Settled, PodsAsDesired
      <4>3. Settled => Settled'
        BY <1>1, <3>2 DEF Settled, PodsAsDesired, Desired, Runs
      <4>4. pc' = "idle"
        BY <3>5 DEF Leave
      <4> QED
        BY <1>1, <2>3, <3>2, <4>1, <4>2, <4>3, <4>4 DEF ProgressInv
    <3> QED
      BY <3>3, <3>4, <3>5 DEF Stored
  <2> QED
    BY <2>4, <2>5
<1>3. CASE ~(podSet.present /\ podSet.rv = held.rv)
  BY <1>1, <1>3, RefusedProgress DEF WriteStatus
<1> QED
  BY <1>2, <1>3

LEMMA RequestFailsProgress == QInv /\ RequestFails => FeedInv' /\ ProgressInv'
  BY RefusedProgress DEF RequestFails, cache

-----------------------------------------------------------------------------
LEMMA InitProgress == Init => QInv
<1> SUFFICES ASSUME Init PROVE QInv
  OBVIOUS
<1>1. RInv
  BY InitReady
<1>2. \A p \in PodNames : FeedOK(cachedPods[p], podFeed[p], pods[p])
  BY DEF Init, FeedOK, Shown
<1>3. ProgressInv
  BY DEF Init, ProgressInv, NoSet
<1> QED
  BY <1>1, <1>2, <1>3 DEF QInv, FeedInv

LEMMA StepProgress == QInv /\ [Next]_vars => QInv'
<1> SUFFICES ASSUME QInv, [Next]_vars PROVE FeedInv' /\ ProgressInv'
  BY StepReady DEF QInv
<1>1. CASE Submit \/ RemoveSet \/ Restart \/ RequestFails \/ SetEvent
  BY <1>1, SubmitProgress, RemoveSetProgress, RestartProgress, RequestFailsProgress,
     SetEventProgress
<1>2. CASE Work
  BY <1>2, ReconcileProgress, ListPodsProgress, UpdatePodProgress, CreatePodProgress,
     DeletePodProgress, WriteStatusProgress DEF Work
<1>3. CASE \E p \in PodNames : PodEvent(p) \/ PodGone(p) \/ RemovePod(p)
  BY <1>3, PodEventProgress, PodGoneProgress, RemovePodProgress
<1>4. CASE UNCHANGED vars
  <2>1. UNCHANGED <<podSet, pods, setFeed, podFeed, cachedPods, queued, worker, unnoticed>>
    BY <1>4 DEF vars, server, cache, history
  <2>2. FeedInv' /\ (Coming => Coming')
    BY <2>1 DEF QInv, FeedInv, Coming
  <2> QED
    BY <2>1, <2>2, NothingNew DEF QInv
<1> QED
  BY <1>1, <1>2, <1>3, <1>4 DEF Next

(* With an empty queue and a cache that is up to date, the pods are those  *)
(* of the spec and the status says so: no change of the PodSet, of an      *)
(* owned pod, no failed request and no restart is forgotten                *)
(* (podset_controller.go:47 to 130), whatever was on its way when a        *)
(* reconcile read the cache.  A pod without an owner can be missing: one   *)
(* that somebody else deleted, or that was updated on its way out.         *)
THEOREM QuiescentSettled == Spec => []QuiescentMeansSettled
<1>1. QInv => QuiescentMeansSettled
  BY DEF QInv, ProgressInv, Coming, Concerning, QuiescentMeansSettled
<1> QED
  BY <1>1, InitProgress, StepProgress, PTL DEF Spec
=============================================================================
