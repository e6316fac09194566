------------------------- MODULE ExclusiveUseProofs -------------------------
(***************************************************************************)
(* Goroutines that own their resources and wait for their writes           *)
(* (docs/parallel-tests.md): between two calls the client shows what the   *)
(* server stores of every resource a goroutine owns, unless its test has   *)
(* failed.  The proofs stand on IInv.                                      *)
(***************************************************************************)
EXTENDS SawchainProofs, SawchainOwned

OwnKeys(c) == UNION {DocKeys(r) : r \in Requests[c]}

(* The cache has caught up with k. *)
InStep(k) == view[k].rv = server[k].rv

(* The running call wrote the last state of k, and will wait for it. *)
Awaited(c, k) ==
    /\ call[c].verb \in WriteVerbs
    /\ written[c][k] = server[k].rv
    /\ call[c].verb = "update" \/ synced[c][k]
    /\ \E j \in 1..Len(call[c].docs) : call[c].docs[j] = k /\ IsWritten(c, j)

Failed(c) == pc[c] = "idle" /\ result[c] = "fail"

OwnInStep(c) == ~Failed(c) => \A k \in OwnKeys(c) : InStep(k) \/ Awaited(c, k)

(* An update sends the version the server has. *)
SendsCurrent(c) ==
    pc[c] = "write" /\ call[c].verb = "update" => InHand(c).rv = server[Key(c)].rv

OwnInv(c) == OwnInStep(c) /\ SendsCurrent(c) /\ cause[c] # "conflict"

(* Versions of one width, as ever: a wait for an update is only as good as *)
(* the comparison of their texts.                                          *)
Premises == ExclusiveUse /\ OrderAgrees(FirstRevision, revision)

ExclusiveInv == IInv /\ (Premises => \A c \in Callers : OwnInv(c))

-----------------------------------------------------------------------------
(* What the discipline says of the running calls. *)
LEMMA Disciplined ==
    ASSUME TypeOK, ExclusiveUse, NEW c \in Callers
    PROVE  /\ call[c].verb \in WriteVerbs => call[c].wait
           /\ call[c].verb = "update" => call[c].template
           /\ DocKeys(call[c]) \subseteq OwnKeys(c)
           /\ Key(c) \in OwnKeys(c)
           /\ OwnKeys(c) \subseteq Keys
<1>1. call[c] \in Requests[c] /\ Key(c) \in DocKeys(call[c])
  BY CallFacts
<1>2. DocKeys(call[c]) \subseteq OwnKeys(c)
  BY <1>1 DEF OwnKeys
<1>3. OwnKeys(c) \subseteq Keys
  BY RequestsAreRequests DEF OwnKeys
<1> QED
  BY <1>1, <1>2, <1>3 DEF ExclusiveUse, WriteVerbs

LEMMA OwnKeysDisjoint ==
    ASSUME ExclusiveUse, NEW c \in Callers, NEW d \in Callers, c # d
    PROVE  OwnKeys(c) \cap OwnKeys(d) = {}
BY DEF ExclusiveUse, OwnKeys

(* A cache that has caught up shows the state the server has, as far as    *)
(* appearances go, and has nothing more to learn.                          *)
LEMMA InStepFacts ==
    ASSUME TypeOK, HistoryOrdered, NEW k \in Keys, InStep(k)
    PROVE  /\ view[k].since = server[k].since
           /\ view[k].present = server[k].present
           /\ pending[k] = {}
<1>1. view[k] \in History(k) /\ server[k] \in History(k) /\ pending[k] \subseteq History(k)
  BY DEF History
<1>2. view[k] \in State /\ server[k] \in State /\ \A s \in pending[k] : s \in State
  BY DEF TypeOK, ClusterTypeOK
<1>3. /\ view[k].rv \in Nat /\ server[k].rv \in Nat
      /\ view[k].since \in Nat /\ server[k].since \in Nat
      /\ \A s \in pending[k] : s.rv \in Nat
  BY <1>2 DEF State
<1>4. Ordered(k)
  BY DEF HistoryOrdered
<1>5. view[k].since <= server[k].since /\ server[k].since <= view[k].since
  BY <1>1, <1>3, <1>4 DEF Ordered, InStep
<1>6. view[k].since = server[k].since
  BY <1>3, <1>5
<1>7. view[k].present = server[k].present
  BY <1>1, <1>4, <1>6 DEF Ordered
<1>8. \A s \in pending[k] : view[k].rv < s.rv /\ s.rv <= server[k].rv
  BY <1>1, <1>4 DEF Ordered
<1>9. pending[k] = {}
  BY <1>3, <1>8 DEF InStep
<1> QED
  BY <1>6, <1>7, <1>9

(* Nothing of a call is awaited before it writes, or after it has passed   *)
(* all its polls.                                                          *)
LEMMA NothingAwaited ==
    ASSUME IInv, Premises, NEW c \in Callers, OwnInStep(c), ~Failed(c),
           NEW k \in OwnKeys(c),
           \/ pc[c] = "idle"
           \/ call[c].verb \notin WriteVerbs
           \/ pc[c] \in {"read", "write"} /\ k = Key(c)
    PROVE  InStep(k)
<1> SUFFICES ASSUME Awaited(c, k) PROVE InStep(k)
  BY DEF OwnInStep
<1>0. TypeOK /\ CallerInv(c) /\ Comparable(c) /\ PassedReflected(c) /\ HistoryOrdered
  BY DEF IInv, Comparable, Premises
<1>1. PICK j \in 1..Len(call[c].docs) : call[c].docs[j] = k /\ IsWritten(c, j)
  BY DEF Awaited
<1>2. k \in Keys /\ call[c].verb \in WriteVerbs /\ call[c].wait
  BY <1>0, Disciplined DEF Awaited, Premises
<1>3. ~(pc[c] \in {"read", "write"} /\ k = Key(c))
  <2> SUFFICES ASSUME pc[c] \in {"read", "write"}, k = Key(c) PROVE FALSE
    OBVIOUS
  <2>1. j = idx[c]
    BY <1>0, <1>1, DistinctDocs
  <2>2. idx[c] \in Nat /\ result[c] = "none"
    BY <1>0 DEF TypeOK, CallerInv, ControlOK
  <2> QED
    BY <1>1, <2>1, <2>2 DEF IsWritten
<1>4. result[c] = "ok"
  BY <1>1, <1>2, <1>3 DEF IsWritten
<1>5. Reflected(c, k)
  BY <1>0, <1>1, <1>2, <1>4 DEF PassedReflected, Passed, Awaited
<1>6. view[k].rv <= server[k].rv /\ view[k].rv \in Nat /\ server[k].rv \in Nat
  <2>1. view[k] \in State /\ server[k] \in State /\ view[k] \in History(k)
    BY <1>0, <1>2 DEF TypeOK, ClusterTypeOK, History
  <2> QED
    BY <1>0, <1>2, <2>1 DEF State, HistoryOrdered, Ordered
<1> QED
  BY <1>5, <1>6 DEF Reflected, Awaited, InStep

-----------------------------------------------------------------------------
(* A caller whose resources nobody writes keeps what it has. *)
LEMMA OwnKept ==
    ASSUME TypeOK, Premises, NEW d \in Callers, OwnInv(d), UnmovedCaller(d),
           cause'[d] = cause[d],
           \A k \in OwnKeys(d) : server'[k] = server[k],
           \A k \in OwnKeys(d) : InStep(k) => view'[k] = view[k]
    PROVE  OwnInv(d)'
<1> USE DEF UnmovedCaller
<1>1. ASSUME NEW k \in OwnKeys(d), InStep(k) \/ Awaited(d, k)
      PROVE  (InStep(k) \/ Awaited(d, k))'
  <2>1. CASE InStep(k)
    BY <2>1 DEF InStep
  <2>2. CASE Awaited(d, k)
    BY <2>2 DEF Awaited, IsWritten
  <2> QED
    BY <1>1, <2>1, <2>2
<1>2. OwnInStep(d)'
  BY <1>1 DEF OwnInv, OwnInStep, Failed
<1>3. Key(d) \in OwnKeys(d)
  BY Disciplined DEF Premises
<1>4. SendsCurrent(d)'
  BY <1>3 DEF OwnInv, SendsCurrent, InHand, Owner, Key
<1> QED
  BY <1>2, <1>4 DEF OwnInv

(* The steps of a call that write nothing.  Where they lead a call that    *)
(* wrote, what is written stays written, or the test has failed.           *)
LEMMA QuietGoesOn ==
    ASSUME TypeOK, ExclusiveUse, NEW c \in Callers, CallerInv(c), Step(c), ~Write(c), ~Lose(c),
           call[c].verb \in WriteVerbs
    PROVE  \/ Failed(c)'
           \/ pc'[c] \in {"await", "poll", "retry", "save"} \/ result'[c] = "ok"
           \/ pc'[c] = "write" /\ pc[c] = "read" /\ idx'[c] = idx[c] /\ ReadOriginal(c)
<1>1. call[c].wait
  BY Disciplined
<1>2. ASSUME NEW w, Fail(c, w) PROVE Failed(c)'
  BY <1>1, <1>2 DEF Fail, Return, Failed, TypeOK
<1>3. CASE ReadOriginal(c)
  BY <1>2, <1>3 DEF ReadOriginal, Move, TypeOK
<1>4. CASE Refuse(c)
  BY <1>2, <1>4 DEF Refuse
<1>5. CASE StartWait(c) \/ Retry(c)
  BY <1>5 DEF StartWait, Retry, Move, TypeOK
<1>6. CASE PollPass(c)
  BY <1>6 DEF PollPass, Finish, Move, Return, TypeOK
<1>7. CASE PollMiss(c)
  BY <1>7 DEF PollMiss, TypeOK
<1>8. CASE TimeOut(c)
  BY <1>8 DEF TimeOut, Return, Failed, TypeOK
<1>9. CASE GetOne(c)
  BY <1>9 DEF GetOne, CallerInv, ControlOK
<1>10. CASE Unavailable(c)
  BY <1>2, <1>10 DEF Unavailable, TypeOK
<1>11. CASE Save(c)
  BY <1>11 DEF Save, Return, Failed, TypeOK
<1> QED
  BY <1>3, <1>4, <1>5, <1>6, <1>7, <1>8, <1>9, <1>10, <1>11 DEF Step

(* A read gives an update the version the server has. *)
LEMMA ReadSendsCurrent ==
    ASSUME IInv, Premises, NEW c \in Callers, OwnInv(c), ReadOriginal(c)
    PROVE  SendsCurrent(c)'
<1> SUFFICES ASSUME pc'[c] = "write" PROVE InHand(c)'.rv = server'[Key(c)'].rv
  BY DEF SendsCurrent
<1>0. TypeOK /\ pc[c] = "read"
  BY DEF IInv, ReadOriginal
<1>1. ~Fail(c, "notfound")
  BY <1>0 DEF Fail, Return, TypeOK
<1>2. Put(c, [Seen(view[Key(c)]) EXCEPT !.val = call[c].val]) /\ Move(c, "write", idx[c])
  BY <1>1 DEF ReadOriginal
<1>3. /\ call' = call /\ server' = server /\ idx'[c] = idx[c]
      /\ Key(c) \in Keys /\ Owner(c) \in {"template", "caller"} /\ Key(c) \in OwnKeys(c)
  BY <1>0, <1>2, CallFacts, Disciplined DEF ReadOriginal, Move, clusterVars, TypeOK, Premises
<1>4. InHand(c)' = [Seen(view[Key(c)]) EXCEPT !.val = call[c].val]
  BY <1>0, <1>2, <1>3 DEF InHand, Put, Key, Owner, TypeOK
<1>5. InHand(c)'.rv = view[Key(c)].rv
  BY <1>4 DEF Seen
<1>6. InStep(Key(c))
  BY <1>0, <1>3, NothingAwaited DEF OwnInv, Failed
<1> QED
  BY <1>3, <1>5, <1>6 DEF InStep, Key

LEMMA QuietOwn ==
    ASSUME IInv, IInv', Premises, NEW c \in Callers, OwnInv(c), Step(c), ~Write(c), ~Lose(c)
    PROVE  OwnInv(c)'
<1>0. TypeOK /\ CallerInv(c) /\ ExclusiveUse
  BY DEF IInv, Premises
<1>1. /\ call' = call /\ written' = written /\ synced' = synced
      /\ server' = server /\ view' = view
      /\ pc[c] # "idle" /\ ~Failed(c)
  BY DEF Step, clusterVars, ReadOriginal, Refuse, StartWait, PollPass, PollMiss, Retry,
         TimeOut, GetOne, Unavailable, Save, Failed
<1>2. OwnInStep(c)'
  <2> SUFFICES ASSUME ~Failed(c)', NEW k \in OwnKeys(c)
               PROVE  (InStep(k) \/ Awaited(c, k))'
    BY DEF OwnInStep
  <2>1. CASE InStep(k)
    BY <1>1, <2>1 DEF InStep
  <2>2. CASE Awaited(c, k)
    <3>1. PICK j \in 1..Len(call[c].docs) : call[c].docs[j] = k /\ IsWritten(c, j)
      BY <2>2 DEF Awaited
    <3>2. IsWritten(c, j)'
      <4>1. call[c].verb \in WriteVerbs /\ (pc[c] # "idle" => result[c] = "none")
        BY <1>0, <2>2 DEF Awaited, CallerInv, ControlOK
      <4> QED
        BY <1>0, <1>1, <3>1, <4>1, QuietGoesOn DEF IsWritten
    <3> QED
      BY <1>1, <2>2, <3>1, <3>2 DEF Awaited
  <2> QED
    BY <1>1, <2>1, <2>2 DEF OwnInv, OwnInStep
<1>3. SendsCurrent(c)'
  <2>1. CASE ReadOriginal(c)
    BY <2>1, ReadSendsCurrent
  <2>2. CASE ~ReadOriginal(c)
    <3> SUFFICES ASSUME pc'[c] = "write", call[c].verb = "update" PROVE FALSE
      BY <1>1 DEF SendsCurrent
    <3>1. result'[c] = "ok"
      BY <1>0, <2>2, QuietGoesOn DEF WriteVerbs, Failed
    <3>2. CallerInv(c)'
      BY DEF IInv
    <3> QED
      BY <3>1, <3>2 DEF CallerInv, ControlOK
  <2> QED
    BY <2>1, <2>2
<1>4. cause'[c] # "conflict"
  <2>0. cause[c] # "conflict" /\ c \in DOMAIN cause
    BY <1>0 DEF OwnInv, TypeOK
  <2>1. ASSUME NEW w, w # "conflict", Fail(c, w) PROVE cause'[c] # "conflict"
    BY <2>0, <2>1 DEF Fail, Return
  <2>2. CASE Refuse(c)
    <3>1. Refusal(c) # "conflict"
      BY <2>2 DEF Refuse, Refusal, OwnInv, SendsCurrent
    <3> QED
      BY <2>1, <2>2, <3>1 DEF Refuse
  <2>3. CASE PollMiss(c)
    <3>1. Mismatch(c) # "conflict"
      BY DEF Mismatch
    <3> QED
      BY <2>0, <2>3, <3>1 DEF PollMiss
  <2>4. CASE ReadOriginal(c) \/ GetOne(c) \/ Unavailable(c)
    BY <2>0, <2>1, <2>4 DEF ReadOriginal, GetOne, Unavailable, Finish, Move, Return
  <2>5. CASE StartWait(c) \/ Retry(c) \/ PollPass(c) \/ TimeOut(c) \/ Save(c)
    BY <2>0, <2>5 DEF StartWait, Retry, PollPass, TimeOut, Save, Finish, Move, Return
  <2> QED
    BY <2>2, <2>3, <2>4, <2>5 DEF Step
<1> QED
  BY <1>2, <1>3, <1>4 DEF OwnInv

(* A write changes its document alone, and awaits it. *)
LEMMA WriteOwn ==
    ASSUME IInv, IInv', Premises, NEW c \in Callers, OwnInv(c), Write(c)
    PROVE  OwnInv(c)'
<1> PICK k : k = Key(c)
  OBVIOUS
<1>0. TypeOK /\ CallerInv(c) /\ ExclusiveUse /\ HistoryOrdered
  BY DEF IInv, Premises
<1>1. /\ pc[c] = "write" /\ call' = call /\ result[c] = "none" /\ ~Failed(c)
      /\ call[c].verb \in WriteVerbs /\ call[c].wait
      /\ k \in Keys /\ k \in OwnKeys(c) /\ idx[c] \in 1..Len(call[c].docs)
      /\ Len(call[c].docs) \in Nat /\ call[c].docs[idx[c]] = k
  BY <1>0, CallFacts, Disciplined DEF Write, CallerInv, ControlOK, Failed, Key
<1>2. \/ /\ pc'[c] \in {"read", "write"} /\ idx'[c] = idx[c] + 1 /\ cause'[c] = cause[c]
         /\ pc'[c] = FirstStep(call[c])
      \/ pc'[c] = "await" /\ cause'[c] = cause[c]
  <2>1. FirstStep(call[c]) \in {"read", "write"}
    BY <1>1 DEF FirstStep, WriteVerbs
  <2> QED
    BY <1>0, <1>1, <2>1 DEF Write, Move, TypeOK
<1>3. ASSUME NEW j \in 1..Len(call[c].docs), IsWritten(c, j) \/ j = idx[c]
      PROVE  IsWritten(c, j)'
  <2>1. j \in Nat /\ idx[c] \in Nat
    BY <1>1
  <2>2. IsWritten(c, j) => j < idx[c]
    BY <1>1 DEF IsWritten
  <2> QED
    BY <1>2, <1>3, <2>1, <2>2 DEF IsWritten
<1>4. /\ server'[k] = Desired(c)
      /\ \A q \in Keys : q # k => server'[q] = server[q] /\ view'[q] = view[q]
  BY <1>0, <1>1 DEF Write, Store, Commit, TypeOK, ClusterTypeOK
<1>5. /\ written'[c][k] = Desired(c).rv
      /\ synced'[c][k] = (view[k].since = server[k].since)
      /\ \A q \in Keys : q # k => written'[c][q] = written[c][q] /\ synced'[c][q] = synced[c][q]
  BY <1>0, <1>1 DEF Write, TypeOK
<1>6. Awaited(c, k)'
  <2>1. InStep(k)
    BY <1>1, NothingAwaited DEF OwnInv
  <2>2. view[k].since = server[k].since
    BY <1>0, <1>1, <2>1, InStepFacts
  <2> QED
    BY <1>1, <1>3, <1>4, <1>5, <2>2 DEF Awaited
<1>7. OwnInStep(c)'
  <2> SUFFICES ASSUME NEW q \in OwnKeys(c), q # k PROVE (InStep(q) \/ Awaited(c, q))'
    BY <1>6 DEF OwnInStep
  <2>1. q \in Keys
    BY <1>0, Disciplined
  <2>2. CASE InStep(q)
    BY <1>4, <2>1, <2>2 DEF InStep
  <2>3. CASE Awaited(c, q)
    <3>1. PICK j \in 1..Len(call[c].docs) : call[c].docs[j] = q /\ IsWritten(c, j)
      BY <2>3 DEF Awaited
    <3> QED
      BY <1>1, <1>3, <1>4, <1>5, <2>1, <2>3, <3>1 DEF Awaited
  <2> QED
    BY <1>1, <2>2, <2>3 DEF OwnInv, OwnInStep
<1>8. SendsCurrent(c)'
  <2> SUFFICES ASSUME pc'[c] = "write", call[c].verb = "update" PROVE FALSE
    BY <1>1 DEF SendsCurrent
  <2>1. call[c].template
    BY <1>0, Disciplined
  <2> QED
    BY <1>2, <2>1 DEF FirstStep
<1> QED
  BY <1>2, <1>7, <1>8 DEF OwnInv

(* A new call finds everything in step. *)
LEMMA CallOwn ==
    ASSUME IInv, Premises, NEW c \in Callers, OwnInv(c), Call(c)
    PROVE  OwnInv(c)'
<1>0. TypeOK /\ ExclusiveUse
  BY DEF IInv, Premises
<1>1. PICK r \in Requests[c] : call' = [call EXCEPT ![c] = r]
                               /\ pc' = [pc EXCEPT ![c] = FirstStep(r)]
  BY DEF Call
<1>2. /\ call'[c] = r /\ pc'[c] = FirstStep(r) /\ cause'[c] = "none"
      /\ pc[c] = "idle" /\ ~Failed(c) /\ server' = server /\ view' = view
  BY <1>0, <1>1 DEF Call, clusterVars, Failed, TypeOK
<1>3. \A k \in OwnKeys(c) : InStep(k)'
  <2>1. \A k \in OwnKeys(c) : InStep(k)
    BY <1>2, NothingAwaited DEF OwnInv
  <2> QED
    BY <1>2, <2>1 DEF InStep
<1>4. SendsCurrent(c)'
  <2>1. r.verb = "update" => r.template
    BY <1>0 DEF ExclusiveUse
  <2>2. r.verb = "update" => FirstStep(r) = "read"
    BY <2>1 DEF FirstStep
  <2> QED
    BY <1>2, <2>2 DEF SendsCurrent
<1> QED
  BY <1>2, <1>3, <1>4 DEF OwnInv, OwnInStep

-----------------------------------------------------------------------------
(* A step of a caller leaves the outcomes of the others and what it does   *)
(* not own.                                                                *)
LEMMA OthersCause ==
    ASSUME TypeOK, NEW c \in Callers, NEW d \in Callers, c # d, Call(c) \/ Step(c)
    PROVE  cause'[d] = cause[d]
<1> USE DEF TypeOK
<1>1. CASE Call(c)
  BY <1>1 DEF Call
<1>2. CASE ReadOriginal(c) \/ Refuse(c) \/ Lose(c) \/ TimeOut(c) \/ Unavailable(c)
  BY <1>2 DEF ReadOriginal, Refuse, Lose, TimeOut, Unavailable, Move, Fail, Return
<1>3. CASE Write(c) \/ StartWait(c) \/ PollPass(c) \/ Retry(c)
  BY <1>3 DEF Write, StartWait, PollPass, Retry, Move, Finish, Return
<1>4. CASE PollMiss(c) \/ GetOne(c) \/ Save(c)
  BY <1>4 DEF PollMiss, GetOne, Save, Move, Fail, Finish, Return
<1> QED
  BY <1>1, <1>2, <1>3, <1>4 DEF Step

LEMMA OthersStore ==
    ASSUME TypeOK, ExclusiveUse, NEW c \in Callers, NEW d \in Callers, c # d,
           Call(c) \/ Step(c), NEW k \in OwnKeys(d)
    PROVE  server'[k] = server[k] /\ view'[k] = view[k]
<1>1. CASE Write(c) \/ Lose(c)
  <2>1. Key(c) # k /\ k \in Keys /\ Key(c) \in Keys
    BY Disciplined, OwnKeysDisjoint, CallFacts
  <2> QED
    BY <1>1, <2>1 DEF Write, Lose, Store, Commit, TypeOK, ClusterTypeOK
<1>2. CASE ~Write(c) /\ ~Lose(c)
  BY <1>2 DEF Step, clusterVars, Call, ReadOriginal, Refuse, StartWait, PollPass,
              PollMiss, Retry, TimeOut, GetOne, Unavailable, Save
<1> QED
  BY <1>1, <1>2

(* The cache moves only where it is behind, and nobody else writes. *)
LEMMA WorldStore ==
    ASSUME TypeOK, HistoryOrdered, ExclusiveUse, NEW q \in Keys, World(q), NEW k \in Keys
    PROVE  server'[k] = server[k] /\ (InStep(k) => view'[k] = view[k])
<1>1. Sync(q)
  <2>1. envs \in Nat /\ MaxEnv = 0
    BY DEF TypeOK, ClusterTypeOK, ExclusiveUse
  <2> QED
    BY <2>1 DEF World, Environment
<1>2. InStep(k) => pending[k] = {}
  BY InStepFacts
<1> QED
  BY <1>1, <1>2 DEF Sync, TypeOK, ClusterTypeOK

LEMMA ExclusiveInit == Init => ExclusiveInv
<1> SUFFICES ASSUME Init, NEW c \in Callers PROVE OwnInv(c)
  BY InvInit DEF ExclusiveInv
<1>1. view = server /\ pc[c] = "idle" /\ cause[c] = "none"
  BY DEF Init, ClusterInit
<1> QED
  BY <1>1 DEF OwnInv, OwnInStep, SendsCurrent, InStep

LEMMA ExclusiveStep == ExclusiveInv /\ [Next]_vars => ExclusiveInv'
<1> SUFFICES ASSUME ExclusiveInv, [Next]_vars PROVE ExclusiveInv'
  OBVIOUS
<1>1. IInv /\ IInv' /\ TypeOK /\ TypeOK' /\ HistoryOrdered
  BY InvStep DEF ExclusiveInv, IInv
<1> SUFFICES ASSUME Premises', NEW d \in Callers PROVE OwnInv(d)'
  BY <1>1 DEF ExclusiveInv
<1>2. Premises
  <2>1. revision \in Nat /\ revision' \in Nat /\ revision <= revision'
    BY <1>1, NextMoves DEF ClusterMoves, TypeOK, ClusterTypeOK
  <2> QED
    BY <2>1, OrderAgreedBefore DEF Premises, ExclusiveUse
<1>3. OwnInv(d)
  BY <1>2 DEF ExclusiveInv
<1>4. CASE Call(d) \/ Step(d)
  <2>1. ~Lose(d)
    BY <1>2 DEF Lose, Premises, ExclusiveUse
  <2> QED
    BY <1>1, <1>2, <1>3, <1>4, <2>1, CallOwn, WriteOwn, QuietOwn
<1>5. ASSUME NEW c \in Callers, c # d, Call(c) \/ Step(c) PROVE OwnInv(d)'
  BY <1>1, <1>2, <1>3, <1>5, OthersUnmoved, OthersCause, OthersStore, OwnKept DEF Premises
<1>6. ASSUME NEW q \in Keys, World(q) PROVE OwnInv(d)'
  <2>1. UnmovedCaller(d) /\ cause'[d] = cause[d]
    BY <1>6 DEF World, SawchainVars, UnmovedCaller
  <2>2. OwnKeys(d) \subseteq Keys
    BY <1>1, <1>2, Disciplined DEF Premises
  <2> QED
    BY <1>1, <1>2, <1>3, <1>6, <2>1, <2>2, WorldStore, OwnKept DEF Premises
<1>7. CASE UNCHANGED vars
  BY <1>1, <1>2, <1>3, <1>7, OwnKept DEF vars, UnmovedCaller
<1> QED
  BY <1>4, <1>5, <1>6, <1>7 DEF Next

LEMMA ExclusiveInvariance == Spec => []ExclusiveInv
BY ExclusiveInit, ExclusiveStep, PTL DEF Spec

(* Tests that own their resources and wait for their writes never conflict *)
(* with themselves, and read what the server stores (docs/parallel-tests.  *)
(* md), until the versions grow by a digit.                                *)
THEOREM NeverSelfConflicting ==
    Spec => [](Width(FirstRevision) = Width(revision) => NoSelfConflict)
<1>1. ExclusiveInv => (Width(FirstRevision) = Width(revision) => NoSelfConflict)
  <2> SUFFICES ASSUME ExclusiveInv, Width(FirstRevision) = Width(revision), ExclusiveUse,
                      NEW c \in Callers
               PROVE  /\ cause[c] # "conflict"
                      /\ pc[c] = "idle" /\ result[c] = "ok" =>
                            \A k \in DocKeys(call[c]) : view[k].rv = server[k].rv
    BY DEF NoSelfConflict
  <2>1. FirstRevision \in Nat /\ revision \in Nat /\ TypeOK /\ IInv
    BY ClusterAssumption DEF ExclusiveInv, IInv, TypeOK, ClusterTypeOK
  <2>2. Premises
    BY <2>1, SameWidthAgrees DEF Premises
  <2>3. OwnInv(c)
    BY <2>2 DEF ExclusiveInv
  <2>4. DocKeys(call[c]) \subseteq OwnKeys(c)
    BY <2>1, Disciplined
  <2> QED
    BY <2>1, <2>2, <2>3, <2>4, NothingAwaited DEF OwnInv, Failed, InStep
<1> QED
  BY <1>1, ExclusiveInvariance, PTL

-----------------------------------------------------------------------------
(* The refinement.  What the objects hold: a write the value of its call,  *)
(* and once a read has passed a document, the value the server stores.     *)
Sending(c) ==
    /\ pc[c] = "write" /\ call[c].verb = "create" =>
          \A j \in 1..Len(call[c].docs) :
              idx[c] <= j => held[c][Owner(c)][call[c].docs[j]].val = call[c].val
    /\ pc[c] = "write" /\ call[c].verb = "update" => InHand(c).val = call[c].val

Gotten(c, j) == (pc[c] \in {"poll", "get"} /\ j < idx[c]) \/ pc[c] = "save"

Shown(c) ==
    call[c].verb # "delete" =>
        \A j \in 1..Len(call[c].docs) : Gotten(c, j) =>
            LET k == call[c].docs[j]
            IN  server[k].present /\ held[c][Owner(c)][k].val = server[k].val

SavesAsAsked(c) == pc[c] = "save" => call[c].template /\ call[c].save /\ call[c].verb # "delete"

ObjectsInv(c) == Sending(c) /\ Shown(c) /\ SavesAsAsked(c)

(* A version stands for one state, and nothing waits for a finalizer. *)
Exact(k) ==
    /\ ~server[k].deleting
    /\ \A s \in History(k) : s.rv = server[k].rv => s = server[k]

OwnedPremises == Premises /\ Finalized = {}

OwnedInv ==
    /\ ExclusiveInv /\ PrefixInv
    /\ OwnedPremises => /\ \A k \in Keys : Exact(k)
                        /\ \A c \in Callers : ObjectsInv(c)

-----------------------------------------------------------------------------
(* Writes of callers are the only writes. *)
LEMMA ServerSteps ==
    ASSUME TypeOK, HistoryOrdered, ExclusiveUse, [Next]_vars, NEW k \in Keys
    PROVE  \/ server'[k] = server[k]
           \/ \E c \in Callers : Write(c) /\ Key(c) = k /\ server'[k] = Desired(c)
<1>1. ASSUME NEW q \in Keys, World(q) PROVE server'[k] = server[k]
  BY <1>1, WorldStore
<1>2. ASSUME NEW c \in Callers, Write(c)
      PROVE  \/ server'[k] = server[k]
             \/ Key(c) = k /\ server'[k] = Desired(c)
  BY <1>2, CallFacts DEF Write, Store, Commit, TypeOK, ClusterTypeOK
<1>3. ASSUME NEW c \in Callers, Call(c) \/ Step(c), ~Write(c) PROVE server'[k] = server[k]
  <2>1. ~Lose(c)
    BY DEF Lose, ExclusiveUse
  <2> QED
    BY <1>3, <2>1 DEF Step, clusterVars, Call, ReadOriginal, Refuse, StartWait, PollPass,
                      PollMiss, Retry, TimeOut, GetOne, Unavailable, Save
<1>4. UNCHANGED vars => server'[k] = server[k]
  BY DEF vars
<1> QED
  BY <1>1, <1>2, <1>3, <1>4 DEF Next

LEMMA ExactKept ==
    ASSUME TypeOK, TypeOK', HistoryOrdered, ExclusiveUse, Finalized = {}, [Next]_vars,
           NEW k \in Keys, Exact(k)
    PROVE  Exact(k)'
<1>1. ~server'[k].deleting
  <2>1. ASSUME NEW c \in Callers, Key(c) = k PROVE ~Desired(c).deleting
    <3>1. server[k] \in State
      BY DEF TypeOK, ClusterTypeOK
    <3>2. ~Created(k, InHand(c).val).deleting
      BY DEF Created, Fresh
    <3>3. ~Updated(k, InHand(c).val, InHand(c).other).deleting
      BY <3>1 DEF Updated, State, Exact
    <3>4. ~Deleted(k).deleting
      BY DEF Deleted, Gone, Never, Exact
    <3> QED
      BY <2>1, <3>2, <3>3, <3>4 DEF Desired
  <2> QED
    BY <2>1, ServerSteps DEF Exact
<1>2. ASSUME NEW s \in History(k)', s.rv = server'[k].rv
      PROVE  s = server'[k]
  <2>1. Grows(k)
    BY NextGrows
  <2>2. server[k].rv <= revision /\ \A t \in History(k) : t.rv <= server[k].rv
    BY DEF HistoryOrdered, Ordered
  <2>3. server[k] \in State /\ server'[k] \in State /\ \A t \in History(k) : t \in State
    BY DEF TypeOK, ClusterTypeOK, History
  <2>4. /\ server[k].rv \in Nat /\ server'[k].rv \in Nat /\ revision \in Nat
        /\ \A t \in History(k) : t.rv \in Nat
    BY <2>3 DEF State, TypeOK, ClusterTypeOK
  <2>5. CASE s \in History(k)
    BY <1>2, <2>1, <2>2, <2>4, <2>5 DEF Grows, Exact
  <2>6. CASE s = server'[k]
    BY <2>6
  <2> QED
    BY <2>1, <2>5, <2>6 DEF Grows
<1> QED
  BY <1>1, <1>2 DEF Exact

(* What a read shows is what the server stores. *)
LEMMA InStepIsExact ==
    ASSUME NEW k, Exact(k), InStep(k)
    PROVE  view[k] = server[k]
BY DEF Exact, InStep, History

LEMMA ReadsAreExact ==
    ASSUME IInv, Premises, NEW c \in Callers, OwnInv(c), Exact(Key(c)),
           \/ pc[c] \in {"read", "write", "get"}
           \/ pc[c] = "poll" /\ Mismatch(c) = "none"
    PROVE  view[Key(c)] = server[Key(c)]
<1>0. TypeOK /\ HistoryOrdered /\ CallerInv(c) /\ Comparable(c) /\ ExclusiveUse
  BY DEF IInv, Comparable, Premises
<1>1. Key(c) \in OwnKeys(c) /\ Key(c) \in Keys /\ ~Failed(c)
  BY <1>0, Disciplined, CallFacts DEF Failed
<1>2. CASE pc[c] \in {"read", "write", "get"}
  <2>1. pc[c] = "get" => call[c].verb \notin WriteVerbs
    BY <1>0 DEF CallerInv, ControlOK
  <2>2. InStep(Key(c))
    BY <1>1, <1>2, <2>1, NothingAwaited DEF OwnInv
  <2> QED
    BY <2>2, InStepIsExact
<1>3. CASE pc[c] = "poll" /\ Mismatch(c) = "none"
  <2>1. CASE InStep(Key(c))
    BY <2>1, InStepIsExact
  <2>2. CASE Awaited(c, Key(c))
    <3>1. Reflected(c, Key(c))
      BY <1>0, <1>3, <2>2, MatchIsReflected DEF Awaited
    <3>2. /\ view[Key(c)].rv <= server[Key(c)].rv
          /\ view[Key(c)].rv \in Nat /\ server[Key(c)].rv \in Nat
      <4>1. view[Key(c)] \in State /\ server[Key(c)] \in State /\ view[Key(c)] \in History(Key(c))
        BY <1>0, CallFacts DEF History
      <4> QED
        BY <1>0, <1>1, <4>1 DEF State, HistoryOrdered, Ordered
    <3> QED
      BY <2>2, <3>1, <3>2, InStepIsExact DEF Reflected, Awaited, InStep
  <2> QED
    BY <1>1, <2>1, <2>2 DEF OwnInv, OwnInStep
<1> QED
  BY <1>2, <1>3

-----------------------------------------------------------------------------
(* Each step of a call keeps its objects right. *)
LEMMA NothingSent ==
    ASSUME NEW c \in Callers, pc'[c] \notin {"write", "save"},
           pc'[c] \in {"poll", "get"} => idx'[c] = 1
    PROVE  ObjectsInv(c)'
<1>1. \A j \in 1..Len(call'[c].docs) : ~(j < 1)
  OBVIOUS
<1> QED
  BY <1>1 DEF ObjectsInv, Sending, Shown, SavesAsAsked, Gotten

LEMMA ObjectsKept ==
    ASSUME TypeOK, ExclusiveUse, NEW c \in Callers, UnmovedCaller(c), ObjectsInv(c),
           \A k \in OwnKeys(c) : server'[k] = server[k]
    PROVE  ObjectsInv(c)'
<1>1. \A j \in 1..Len(call[c].docs) : server'[call[c].docs[j]] = server[call[c].docs[j]]
  BY Disciplined DEF DocKeys
<1>2. /\ call'[c] = call[c] /\ pc'[c] = pc[c] /\ idx'[c] = idx[c] /\ held'[c] = held[c]
      /\ Owner(c)' = Owner(c) /\ InHand(c)' = InHand(c)
  BY DEF UnmovedCaller, Owner, InHand, Key
<1>3. Sending(c)'
  BY <1>2 DEF ObjectsInv, Sending
<1>4. SavesAsAsked(c)'
  BY <1>2 DEF ObjectsInv, SavesAsAsked
<1>5. Shown(c)'
  <2> SUFFICES ASSUME call[c].verb # "delete", NEW j \in 1..Len(call[c].docs), Gotten(c, j)
               PROVE  /\ server'[call[c].docs[j]].present
                      /\ held[c][Owner(c)][call[c].docs[j]].val = server'[call[c].docs[j]].val
    BY <1>2 DEF Shown, Gotten
  <2>1. /\ server[call[c].docs[j]].present
        /\ held[c][Owner(c)][call[c].docs[j]].val = server[call[c].docs[j]].val
    BY DEF ObjectsInv, Shown
  <2> QED
    BY <1>1, <2>1
<1> QED
  BY <1>3, <1>4, <1>5 DEF ObjectsInv

LEMMA ObjectsCall ==
    ASSUME TypeOK, ExclusiveUse, NEW c \in Callers, Call(c)
    PROVE  ObjectsInv(c)'
<1>1. PICK r \in Requests[c] : /\ call' = [call EXCEPT ![c] = r]
                               /\ pc' = [pc EXCEPT ![c] = FirstStep(r)]
                               /\ held' = [held EXCEPT ![c] = Prepared(c, r)]
  BY DEF Call
<1>2. /\ call'[c] = r /\ pc'[c] = FirstStep(r) /\ idx'[c] = 1 /\ held'[c] = Prepared(c, r)
  BY <1>1 DEF Call, TypeOK
<1>3. r.verb = "update" => r.template
  BY DEF ExclusiveUse
<1>4. ASSUME r.verb = "create", NEW j \in 1..Len(r.docs)
      PROVE  held'[c][Owner(c)'][r.docs[j]].val = r.val
  <2>1. r.docs[j] \in Keys /\ r.docs[j] \in DocKeys(r)
    BY RequestsAreRequests DEF DocKeys
  <2>2. held'[c][Owner(c)'][r.docs[j]] = Blank(r.val)
    BY <1>2, <1>4, <2>1 DEF Prepared, GivenObject, Owner
  <2> QED
    BY <2>2 DEF Blank
<1>5. Sending(c)'
  BY <1>2, <1>3, <1>4 DEF Sending, FirstStep
<1>6. \A j \in 1..Len(r.docs) : ~(j < 1)
  OBVIOUS
<1> QED
  BY <1>2, <1>5, <1>6 DEF ObjectsInv, Shown, SavesAsAsked, Gotten, FirstStep

LEMMA ObjectsRead ==
    ASSUME TypeOK, NEW c \in Callers, CallerInv(c), ReadOriginal(c)
    PROVE  ObjectsInv(c)'
<1>0. pc[c] = "read" /\ call' = call /\ call[c].verb = "update"
  BY DEF ReadOriginal, CallerInv, ControlOK
<1>1. CASE Fail(c, "notfound")
  <2>1. pc'[c] = "idle"
    BY <1>1, FailStops
  <2> QED
    BY <2>1, NothingSent
<1>2. CASE /\ Put(c, [Seen(view[Key(c)]) EXCEPT !.val = call[c].val])
           /\ Move(c, "write", idx[c])
  <2>1. /\ pc'[c] = "write" /\ idx'[c] = idx[c] /\ Key(c) \in Keys
        /\ Owner(c) \in {"template", "caller"}
    BY <1>2, CallFacts DEF Move, TypeOK
  <2>2. InHand(c)' = [Seen(view[Key(c)]) EXCEPT !.val = call[c].val]
    BY <1>0, <1>2, <2>1 DEF InHand, Put, Key, Owner, TypeOK
  <2>3. InHand(c)'.val = call[c].val
    BY <2>2 DEF Seen
  <2> QED
    BY <1>0, <2>1, <2>3 DEF ObjectsInv, Sending, Shown, SavesAsAsked, Gotten
<1> QED
  BY <1>1, <1>2 DEF ReadOriginal

LEMMA ObjectsWrite ==
    ASSUME TypeOK, ExclusiveUse, NEW c \in Callers, CallerInv(c), ObjectsInv(c), Write(c)
    PROVE  ObjectsInv(c)'
<1>1. /\ pc[c] = "write" /\ call' = call /\ call[c].wait
      /\ call[c].verb \in WriteVerbs /\ idx[c] \in 1..Len(call[c].docs)
      /\ call[c].verb = "update" => call[c].template
  BY CallFacts, Disciplined DEF Write, CallerInv, ControlOK
<1>2. \/ ~AtLast(c) /\ pc'[c] = FirstStep(call[c]) /\ idx'[c] = idx[c] + 1
      \/ pc'[c] = "await"
  BY <1>1 DEF Write, Move, TypeOK
<1>3. CASE pc'[c] # "write"
  <2>1. pc'[c] \in {"read", "await"}
    BY <1>1, <1>2, <1>3 DEF FirstStep, WriteVerbs
  <2> QED
    BY <2>1, NothingSent
<1>4. CASE pc'[c] = "write"
  <2>1. call[c].verb # "update" /\ idx'[c] = idx[c] + 1
    BY <1>1, <1>2, <1>4 DEF FirstStep
  <2>2. ASSUME call[c].verb = "create", NEW j \in 1..Len(call[c].docs), idx[c] + 1 <= j
        PROVE  held'[c][Owner(c)][call[c].docs[j]].val = call[c].val
    <3>1. j # idx[c] /\ idx[c] <= j
      BY <1>1, <2>2
    <3>2. held'[c][Owner(c)][call[c].docs[j]] = held[c][Owner(c)][call[c].docs[j]]
      <4>1. CASE UNCHANGED held
        BY <4>1
      <4>2. CASE Put(c, Seen(Desired(c)))
        BY <3>1, <4>2, PutElsewhere
      <4> QED
        BY <4>1, <4>2 DEF Write, Respond
    <3> QED
      BY <1>1, <2>2, <3>1, <3>2 DEF ObjectsInv, Sending
  <2>3. Sending(c)'
    BY <1>1, <2>1, <2>2 DEF Sending, Owner
  <2> QED
    BY <1>4, <2>3 DEF ObjectsInv, Shown, SavesAsAsked, Gotten
<1> QED
  BY <1>3, <1>4

(* A poll or a get goes on to the next document, to the save, or returns. *)
LEMMA ObjectsGet ==
    ASSUME IInv, Premises, NEW c \in Callers, OwnInv(c), Exact(Key(c)), ObjectsInv(c),
           PollPass(c) \/ GetOne(c)
    PROVE  ObjectsInv(c)'
<1>0. TypeOK
  BY DEF IInv
<1>1. /\ pc[c] \in {"poll", "get"} /\ call' = call /\ server' = server /\ Observe(c)
      /\ idx[c] \in 1..Len(call[c].docs) /\ Len(call[c].docs) \in Nat
  BY <1>0, CallFacts DEF PollPass, GetOne, clusterVars
<1>2. \/ pc'[c] \in {"poll", "get"} /\ idx'[c] = idx[c] + 1 /\ view[Key(c)].present = (call[c].verb # "delete")
      \/ /\ pc'[c] = "save" /\ AtLast(c) /\ view[Key(c)].present
         /\ call[c].template /\ call[c].save /\ call[c].verb # "delete"
      \/ pc'[c] = "idle"
  <2>0. view[Key(c)].present \in BOOLEAN
    BY <1>0, CallFacts DEF State
  <2>1. CASE PollPass(c)
    <3>1. view[Key(c)].present = (call[c].verb # "delete")
      BY <2>0, <2>1 DEF PollPass, Mismatch
    <3>2. CASE AtLast(c)
      <4>1. Finish(c)
        BY <2>1, <3>2 DEF PollPass
      <4> QED
        BY <1>0, <3>1, <3>2, <4>1 DEF Finish, Move, Return, TypeOK
    <3>3. CASE ~AtLast(c)
      <4>1. Move(c, "poll", idx[c] + 1)
        BY <2>1, <3>3 DEF PollPass
      <4> QED
        BY <1>0, <3>1, <4>1 DEF Move, TypeOK
    <3> QED
      BY <3>2, <3>3
  <2>2. CASE GetOne(c)
    <3>0. call[c].verb \notin WriteVerbs
      BY <2>2 DEF GetOne, IInv, CallerInv, ControlOK
    <3>1. CASE ~view[Key(c)].present
      <4>1. Fail(c, "notfound")
        BY <2>2, <3>1 DEF GetOne
      <4> QED
        BY <1>0, <4>1, FailStops
    <3>2. CASE view[Key(c)].present /\ AtLast(c)
      <4>1. Finish(c)
        BY <2>2, <3>2 DEF GetOne
      <4> QED
        BY <1>0, <3>2, <4>1 DEF Finish, Move, Return, TypeOK
    <3>3. CASE view[Key(c)].present /\ ~AtLast(c)
      <4>1. Move(c, "get", idx[c] + 1)
        BY <2>2, <3>3 DEF GetOne
      <4> QED
        BY <1>0, <2>0, <3>0, <3>3, <4>1 DEF Move, TypeOK, WriteVerbs
    <3> QED
      BY <3>1, <3>2, <3>3
  <2> QED
    BY <2>1, <2>2
<1>3. CASE pc'[c] = "idle"
  BY <1>3, NothingSent
<1>4. CASE pc'[c] # "idle"
  <2> SUFFICES ASSUME call[c].verb # "delete", NEW j \in 1..Len(call[c].docs), Gotten(c, j)'
               PROVE  /\ server[call[c].docs[j]].present
                      /\ held'[c][Owner(c)][call[c].docs[j]].val = server[call[c].docs[j]].val
    BY <1>1, <1>2, <1>4 DEF ObjectsInv, Sending, Shown, SavesAsAsked, Owner
  <2>1. view[Key(c)].present /\ Put(c, Seen(view[Key(c)]))
    BY <1>1, <1>2, <1>4 DEF Observe
  <2>2. CASE j = idx[c]
    <3>1. view[Key(c)] = server[Key(c)]
      BY <1>1, ReadsAreExact DEF PollPass, GetOne
    <3>2. held'[c][Owner(c)][Key(c)] = Seen(view[Key(c)])
      <4>1. Key(c) \in Keys /\ Owner(c) \in {"template", "caller"}
        BY <1>0, CallFacts
      <4> QED
        BY <1>0, <2>1, <4>1 DEF Put, TypeOK
    <3>3. Key(c) = call[c].docs[j]
      BY <2>2 DEF Key
    <3>4. Seen(view[Key(c)]).val = view[Key(c)].val
      BY DEF Seen
    <3> QED
      BY <2>1, <3>1, <3>2, <3>3, <3>4
  <2>3. CASE j # idx[c]
    <3>1. j < idx[c]
      BY <1>1, <1>2, <1>4, <2>3 DEF Gotten, AtLast
    <3>2. held'[c][Owner(c)][call[c].docs[j]] = held[c][Owner(c)][call[c].docs[j]]
      BY <1>0, <2>1, <2>3, PutElsewhere
    <3> QED
      BY <1>1, <3>1, <3>2 DEF ObjectsInv, Shown, Gotten
  <2> QED
    BY <2>2, <2>3
<1> QED
  BY <1>3, <1>4

LEMMA ObjectsRest ==
    ASSUME TypeOK, NEW c \in Callers, Step(c), ~ReadOriginal(c), ~Write(c), ~PollPass(c), ~GetOne(c)
    PROVE  ObjectsInv(c)'
<1>1. pc'[c] \notin {"write", "save"} /\ (pc'[c] \in {"poll", "get"} => idx'[c] = 1)
  <2>1. CASE Refuse(c) \/ Lose(c) \/ TimeOut(c) \/ Save(c)
    BY <2>1 DEF Refuse, Lose, TimeOut, Save, Fail, Return, TypeOK
  <2>2. CASE StartWait(c) \/ PollMiss(c) \/ Retry(c) \/ Unavailable(c)
    BY <2>2 DEF StartWait, PollMiss, Retry, Unavailable, Move, Fail, Return, TypeOK
  <2> QED
    BY <2>1, <2>2 DEF Step
<1> QED
  BY <1>1, NothingSent

LEMMA OwnedInit == Init => OwnedInv
<1> SUFFICES ASSUME Init PROVE OwnedInv
  OBVIOUS
<1>1. ExclusiveInv /\ IInv
  BY ExclusiveInit, InvInit
<1>2. \A c \in Callers : pc[c] = "idle" /\ result[c] = "none"
  BY DEF Init
<1>3. PrefixInv
  BY <1>1, <1>2 DEF PrefixInv, PrefixWritten
<1>4. \A c \in Callers : ObjectsInv(c)
  BY <1>2 DEF ObjectsInv, Sending, Shown, SavesAsAsked, Gotten
<1>5. ASSUME NEW k \in Keys PROVE Exact(k)
  <2>1. server[k] = Never \/ \E v \in Vals : server[k] = Fresh(FirstRevision, v)
    BY DEF Init, ClusterInit
  <2>2. ~Never.deleting /\ \A v \in Vals : ~Fresh(FirstRevision, v).deleting
    BY DEF Never, Fresh
  <2>3. ~server[k].deleting
    BY <2>1, <2>2
  <2> QED
    BY <2>3 DEF Exact, History, Init, ClusterInit
<1> QED
  BY <1>1, <1>3, <1>4, <1>5 DEF OwnedInv

LEMMA OwnedStep == OwnedInv /\ [Next]_vars => OwnedInv'
<1> SUFFICES ASSUME OwnedInv, [Next]_vars PROVE OwnedInv'
  OBVIOUS
<1>1. ExclusiveInv' /\ PrefixInv'
  BY ExclusiveStep, PrefixStep DEF OwnedInv
<1>2. IInv /\ TypeOK /\ TypeOK' /\ HistoryOrdered /\ \A c \in Callers : CallerInv(c)
  BY <1>1 DEF OwnedInv, ExclusiveInv, IInv
<1> SUFFICES ASSUME OwnedPremises'
             PROVE  /\ \A k \in Keys : Exact(k)'
                    /\ \A c \in Callers : ObjectsInv(c)'
  BY <1>1 DEF OwnedInv
<1>3. Premises /\ ExclusiveUse /\ Finalized = {}
  <2>1. revision \in Nat /\ revision' \in Nat /\ revision <= revision'
    BY <1>2, NextMoves DEF ClusterMoves, TypeOK, ClusterTypeOK
  <2> QED
    BY <2>1, OrderAgreedBefore DEF OwnedPremises, Premises, ExclusiveUse
<1>4. (\A k \in Keys : Exact(k)) /\ \A c \in Callers : ObjectsInv(c) /\ OwnInv(c)
  BY <1>3 DEF OwnedInv, OwnedPremises, ExclusiveInv
<1>5. \A k \in Keys : Exact(k)'
  BY <1>2, <1>3, <1>4, ExactKept
<1>6. ASSUME NEW c \in Callers, Call(c) \/ Step(c) PROVE ObjectsInv(c)'
  <2>1. Exact(Key(c)) /\ ObjectsInv(c) /\ OwnInv(c) /\ CallerInv(c)
    BY <1>2, <1>4, CallFacts
  <2> QED
    BY <1>2, <1>3, <1>6, <2>1, ObjectsCall, ObjectsRead, ObjectsWrite, ObjectsGet, ObjectsRest
<1>7. ASSUME NEW d \in Callers PROVE ObjectsInv(d)'
  <2>0. OwnKeys(d) \subseteq Keys
    BY <1>2, <1>3, Disciplined
  <2>1. CASE Call(d) \/ Step(d)
    BY <1>6, <2>1
  <2>2. ASSUME NEW c \in Callers, c # d, Call(c) \/ Step(c) PROVE ObjectsInv(d)'
    BY <1>2, <1>3, <1>4, <2>2, OthersUnmoved, OthersStore, ObjectsKept
  <2>3. ASSUME NEW q \in Keys, World(q) PROVE ObjectsInv(d)'
    <3>1. UnmovedCaller(d)
      BY <2>3 DEF World, SawchainVars, UnmovedCaller
    <3> QED
      BY <1>2, <1>3, <1>4, <2>0, <2>3, <3>1, WorldStore, ObjectsKept
  <2>4. CASE UNCHANGED vars
    BY <1>2, <1>3, <1>4, <2>4, ObjectsKept DEF vars, UnmovedCaller
  <2> QED
    BY <2>1, <2>2, <2>3, <2>4 DEF Next
<1> QED
  BY <1>5, <1>7

-----------------------------------------------------------------------------
(* The steps as OwnedStore sees them.  A caller that does not move changes *)
(* nothing there.                                                          *)
SameAbstract(d) ==
    /\ Promised(call'[d]) = Promised(call[d]) /\ (pc'[d] # "idle") = (pc[d] # "idle")
    /\ Left(d)' = Left(d) /\ OutcomeOf(d)' = OutcomeOf(d) /\ Filled(d)' = Filled(d)

LEMMA UnmovedAbstract ==
    ASSUME NEW d \in Callers, UnmovedCaller(d), cause'[d] = cause[d]
    PROVE  SameAbstract(d)
BY DEF UnmovedCaller, SameAbstract, Left, OutcomeOf, Filled

LEMMA OnlyOneMoves ==
    ASSUME TypeOK, NEW c \in Callers, Call(c) \/ Step(c)
    PROVE  \A d \in Callers : d # c => SameAbstract(d)
BY OthersUnmoved, OthersCause, UnmovedAbstract

LEMMA AbstractUpdates ==
    ASSUME NEW c \in Callers, \A d \in Callers : d # c => SameAbstract(d)
    PROVE  /\ [x \in Callers |-> Promised(call'[x])]
                 = [[x \in Callers |-> Promised(call[x])] EXCEPT ![c] = Promised(call'[c])]
           /\ [x \in Callers |-> pc'[x] # "idle"]
                 = [[x \in Callers |-> pc[x] # "idle"] EXCEPT ![c] = (pc'[c] # "idle")]
           /\ [x \in Callers |-> Left(x)']
                 = [[x \in Callers |-> Left(x)] EXCEPT ![c] = Left(c)']
           /\ [x \in Callers |-> OutcomeOf(x)']
                 = [[x \in Callers |-> OutcomeOf(x)] EXCEPT ![c] = OutcomeOf(c)']
           /\ [x \in Callers |-> Filled(x)']
                 = [[x \in Callers |-> Filled(x)] EXCEPT ![c] = Filled(c)']
BY DEF SameAbstract

LEMMA AbstractStutter ==
    ASSUME StoredValues' = StoredValues, \A d \in Callers : SameAbstract(d)
    PROVE  UNCHANGED Owned!storeVars
<1>1. /\ [x \in Callers |-> Promised(call'[x])] = [x \in Callers |-> Promised(call[x])]
      /\ [x \in Callers |-> pc'[x] # "idle"] = [x \in Callers |-> pc[x] # "idle"]
      /\ [x \in Callers |-> Left(x)'] = [x \in Callers |-> Left(x)]
      /\ [x \in Callers |-> OutcomeOf(x)'] = [x \in Callers |-> OutcomeOf(x)]
      /\ [x \in Callers |-> Filled(x)'] = [x \in Callers |-> Filled(x)]
  BY DEF SameAbstract
<1> QED
  BY <1>1 DEF Owned!storeVars

LEMMA AbstractReturn ==
    ASSUME NEW c \in Callers, \A d \in Callers : d # c => SameAbstract(d),
           pc[c] # "idle", pc'[c] = "idle", StoredValues' = StoredValues,
           call'[c] = call[c], Left(c)' = Left(c),
           NEW how, NEW filled, OutcomeOf(c)' = how, Filled(c)' = filled
    PROVE  Owned!Return(c, how, filled)
<1>1. /\ [x \in Callers |-> Promised(call'[x])] = [x \in Callers |-> Promised(call[x])]
      /\ [x \in Callers |-> Left(x)'] = [x \in Callers |-> Left(x)]
  BY DEF SameAbstract
<1>2. [x \in Callers |-> pc'[x] # "idle"]
        = [[x \in Callers |-> pc[x] # "idle"] EXCEPT ![c] = FALSE]
  BY AbstractUpdates
<1>3. /\ [x \in Callers |-> OutcomeOf(x)']
            = [[x \in Callers |-> OutcomeOf(x)] EXCEPT ![c] = how]
      /\ [x \in Callers |-> Filled(x)']
            = [[x \in Callers |-> Filled(x)] EXCEPT ![c] = filled]
  BY AbstractUpdates
<1> QED
  BY <1>1, <1>2, <1>3 DEF Owned!Return

ReadsWriteNothing(c) ==
    call[c].verb \notin WriteVerbs => \A k \in Keys : written[c][k] = 0

(* What the proofs about single steps start from. *)
ReadsInv == \A c \in Callers : ReadsWriteNothing(c)

Owning ==
    /\ IInv /\ PrefixInv /\ OwnedPremises /\ ReadsInv
    /\ \A k \in Keys : Exact(k)
    /\ \A c \in Callers : OwnInv(c) /\ ObjectsInv(c)

LEMMA OwningFacts ==
    ASSUME Owning, NEW c \in Callers
    PROVE  /\ TypeOK /\ HistoryOrdered /\ Premises /\ ExclusiveUse /\ Finalized = {}
           /\ CallerInv(c) /\ PrefixWritten(c) /\ OwnInv(c) /\ ObjectsInv(c)
           /\ Key(c) \in Keys /\ Exact(Key(c)) /\ Key(c) \in DocKeys(call[c])
           /\ DocKeys(call[c]) \subseteq Keys
           /\ idx[c] \in 1..Len(call[c].docs) /\ Key(c) = call[c].docs[idx[c]]
<1>1. TypeOK
  BY DEF Owning, IInv
<1> QED
  BY <1>1, CallFacts DEF Owning, IInv, PrefixInv, OwnedPremises, Premises, Key

(* What is left: the document at hand until it is written, nothing once    *)
(* all are, everything in a call that only reads.                          *)
LEMMA HandIsLeft ==
    ASSUME Owning, NEW c \in Callers, pc[c] \in {"read", "write"}
    PROVE  Key(c) \in Left(c)
<1>1. call[c].verb \in WriteVerbs
  BY OwningFacts DEF CallerInv, ControlOK, WriteVerbs
<1>2. Changed(c) = 1..(idx[c] - 1)
  BY <1>1, OwningFacts DEF PrefixWritten
<1>3. idx[c] \in 1..Len(call[c].docs) /\ idx[c] \notin Changed(c)
  BY <1>2, OwningFacts
<1> QED
  BY <1>3, OwningFacts DEF Changed, Left

LEMMA NothingLeft ==
    ASSUME Owning, NEW c \in Callers, pc[c] \in {"await", "poll", "retry", "save"},
           call[c].verb \in WriteVerbs
    PROVE  Left(c) = {}
<1> SUFFICES ASSUME NEW k \in DocKeys(call[c]) PROVE written[c][k] # 0
  BY DEF Left
<1>1. PICK j \in 1..Len(call[c].docs) : k = call[c].docs[j]
  BY DEF DocKeys
<1>2. FirstRevision <= written[c][k] /\ FirstRevision \in Nat \ {0}
  BY <1>1, OwningFacts, ClusterAssumption DEF CallerInv, WritesRecorded, IsWritten
<1> QED
  BY <1>2

(* A resource is absent in the store exactly if the server has none. *)
LEMMA AbsentInStore ==
    ASSUME TypeOK, NEW k \in Keys
    PROVE  /\ StoredValues[k] = Absent <=> ~server[k].present
           /\ server[k].present => StoredValues[k] = server[k].val
<1>1. server[k].val \in Vals \cup {NoVal}
  <2>1. server[k] \in State
    BY DEF TypeOK, ClusterTypeOK
  <2> QED
    BY <2>1 DEF State
<1> QED
  BY <1>1, AbsentAssumption DEF StoredValues

LEMMA SameServerSameStore ==
    ASSUME server' = server
    PROVE  StoredValues' = StoredValues
BY DEF StoredValues

(* A call that fails says what the store has, or gives up. *)
LEMMA FailureMaps ==
    ASSUME Owning, NEW c \in Callers, Step(c), pc[c] # "idle", pc'[c] = "idle",
           result'[c] \in {"err", "fail"}, cause'[c] # "conflict",
           server' = server, call' = call, written' = written,
           cause'[c] = "notfound" /\ Left(c) # {} =>
              Key(c) \in Left(c) /\ call[c].verb # "create" /\ ~server[Key(c)].present,
           cause'[c] = "exists" /\ Left(c) # {} =>
              Key(c) \in Left(c) /\ call[c].verb = "create" /\ server[Key(c)].present
    PROVE  Owned!Next
<1>1. Left(c)' = Left(c) /\ StoredValues' = StoredValues
  BY SameServerSameStore DEF Left
<1> PICK how, filled : how = OutcomeOf(c)' /\ filled = Filled(c)'
  OBVIOUS
<1>2. Owned!Return(c, how, filled)
  BY <1>1, OwningFacts, OnlyOneMoves, AbstractReturn
<1>3. filled = Owned!NoObjects
  BY DEF Filled, Owned!NoObjects
<1>4. how = IF cause'[c] \in {"notfound", "exists"} /\ Left(c) # {}
                      THEN cause'[c] ELSE "gaveup"
  BY <1>1 DEF OutcomeOf
<1>5. [x \in Callers |-> Promised(call[x])][c].verb = call[c].verb
  BY DEF Promised
<1>6. [x \in Callers |-> Left(x)][c] = Left(c)
  OBVIOUS
<1>7. (StoredValues[Key(c)] = Absent) <=> ~server[Key(c)].present
  BY OwningFacts, AbsentInStore
<1>8. CASE cause'[c] = "notfound" /\ Left(c) # {}
  <2>1. Owned!NotFound(c)
    BY <1>2, <1>3, <1>4, <1>5, <1>6, <1>7, <1>8 DEF Owned!NotFound
  <2> QED
    BY <2>1 DEF Owned!Next
<1>9. CASE cause'[c] = "exists" /\ Left(c) # {}
  <2>1. Owned!Exists(c)
    BY <1>2, <1>3, <1>4, <1>5, <1>6, <1>7, <1>9 DEF Owned!Exists
  <2> QED
    BY <2>1 DEF Owned!Next
<1>10. CASE ~(cause'[c] \in {"notfound", "exists"} /\ Left(c) # {})
  <2>1. Owned!GiveUp(c)
    BY <1>2, <1>3, <1>4, <1>10 DEF Owned!GiveUp
  <2> QED
    BY <2>1 DEF Owned!Next
<1> QED
  BY <1>8, <1>9, <1>10

(* A call that succeeds has done all, and filled the objects with what is  *)
(* stored.                                                                 *)
LEMMA SuccessMaps ==
    ASSUME Owning, NEW c \in Callers, Step(c), pc[c] # "idle", pc'[c] = "idle",
           result'[c] = "ok", server' = server, call' = call, written' = written,
           call[c].verb \in WriteVerbs => Left(c) = {},
           call[c].verb # "delete" =>
              \A k \in DocKeys(call[c]) :
                 /\ server[k].present
                 /\ Fills(call[c]) => held'[c]["caller"][k].val = server[k].val
    PROVE  Owned!Next
<1>1. Left(c)' = Left(c) /\ StoredValues' = StoredValues
  BY SameServerSameStore DEF Left
<1> PICK how, filled : how = OutcomeOf(c)' /\ filled = Filled(c)'
  OBVIOUS
<1>2. Owned!Return(c, how, filled)
  BY <1>1, OwningFacts, OnlyOneMoves, AbstractReturn
<1>3. how = "ok"
  BY DEF OutcomeOf
<1>4. \A k \in DocKeys(call[c]) : call[c].verb # "delete" =>
          /\ StoredValues[k] # Absent
          /\ Fills(call[c]) => held'[c]["caller"][k].val = StoredValues[k]
  BY OwningFacts, AbsentInStore
<1>5. filled = IF Fills(call[c]) THEN [k \in DocKeys(call[c]) |-> StoredValues[k]]
                   ELSE Owned!NoObjects
  BY <1>4 DEF Filled, Fills, Owned!NoObjects
<1>6. /\ Promised(call[c]).verb = call[c].verb /\ Promised(call[c]).keys = DocKeys(call[c])
      /\ Promised(call[c]).fills = Fills(call[c])
  BY DEF Promised
<1>7. call[c].verb \in {"get", "fetch"} \/ call[c].verb \in WriteVerbs
  <2>1. call[c].verb \in Verbs
    BY OwningFacts DEF TypeOK, Request
  <2> QED
    BY <2>1 DEF Verbs, WriteVerbs
<1>8. [x \in Callers |-> Promised(call[x])][c] = Promised(call[c])
  OBVIOUS
<1>9. [x \in Callers |-> Left(x)][c] = Left(c)
  OBVIOUS
<1>10. Owned!Done(Promised(call[c]), Left(c))
  BY <1>4, <1>6, <1>7 DEF Owned!Done, Owned!Reads
<1>11. filled = Owned!Filling(Promised(call[c]))
  BY <1>5, <1>6 DEF Owned!Filling
<1>12. Owned!Succeed(c)
  <2>1. Owned!Done([x \in Callers |-> Promised(call[x])][c], [x \in Callers |-> Left(x)][c])
    BY <1>8, <1>9, <1>10
  <2>2. Owned!Filling([x \in Callers |-> Promised(call[x])][c]) = filled
    BY <1>8, <1>11
  <2>3. Owned!Return(c, "ok", filled)
    BY <1>2, <1>3
  <2> QED
    BY <2>1, <2>2, <2>3 DEF Owned!Succeed, Owned!Return
<1> QED
  BY <1>12 DEF Owned!Next

LEMMA ReadsInit == Init => ReadsInv
BY DEF Init, ReadsInv, ReadsWriteNothing

LEMMA ReadsStep == IInv /\ ReadsInv /\ [Next]_vars => ReadsInv'
<1> SUFFICES ASSUME IInv, ReadsInv, [Next]_vars, NEW d \in Callers
             PROVE  ReadsWriteNothing(d)'
  BY DEF ReadsInv
<1>1. TypeOK /\ CallerInv(d) /\ ReadsWriteNothing(d)
  BY DEF IInv, ReadsInv
<1>2. ASSUME UnmovedCaller(d) PROVE ReadsWriteNothing(d)'
  BY <1>1, <1>2 DEF UnmovedCaller, ReadsWriteNothing
<1>3. CASE Call(d)
  BY <1>1, <1>3 DEF Call, TypeOK, ReadsWriteNothing
<1>4. CASE Write(d) \/ Lose(d)
  BY <1>1, <1>4 DEF Write, Lose, CallerInv, ControlOK, ReadsWriteNothing
<1>5. CASE Step(d) /\ ~Write(d) /\ ~Lose(d)
  <2>1. call' = call /\ written' = written
    BY <1>5 DEF Step, ReadOriginal, Refuse, StartWait, PollPass, PollMiss, Retry,
                TimeOut, GetOne, Unavailable, Save
  <2> QED
    BY <1>1, <2>1 DEF ReadsWriteNothing
<1>6. ASSUME NEW c \in Callers, c # d, Call(c) \/ Step(c) PROVE ReadsWriteNothing(d)'
  BY <1>1, <1>2, <1>6, OthersUnmoved
<1>7. ASSUME NEW q \in Keys, World(q) PROVE ReadsWriteNothing(d)'
  BY <1>2, <1>7 DEF World, SawchainVars, UnmovedCaller
<1>8. CASE UNCHANGED vars
  BY <1>2, <1>8 DEF vars, UnmovedCaller
<1> QED
  BY <1>3, <1>4, <1>5, <1>6, <1>7, <1>8 DEF Next

(* A call that goes on and writes nothing shows nothing. *)
LEMMA StepFrame ==
    ASSUME TypeOK, ExclusiveUse, NEW c \in Callers, Step(c), ~Write(c)
    PROVE  /\ server' = server /\ call' = call /\ written' = written /\ pc[c] # "idle"
           /\ pc'[c] # "idle" => result' = result
<1>1. ~Lose(c)
  BY DEF Lose, ExclusiveUse
<1>2. CASE ReadOriginal(c) \/ Refuse(c) \/ StartWait(c) \/ Retry(c) \/ TimeOut(c) \/ Save(c)
  BY <1>2 DEF ReadOriginal, Refuse, StartWait, Retry, TimeOut, Save, clusterVars, Move, Fail,
              Return, TypeOK
<1>3. CASE PollPass(c) \/ GetOne(c)
  BY <1>3 DEF PollPass, GetOne, clusterVars, Finish, Move, Fail, Return, TypeOK
<1>4. CASE PollMiss(c) \/ Unavailable(c)
  BY <1>4 DEF PollMiss, Unavailable, clusterVars, Fail, Return, TypeOK
<1> QED
  BY <1>1, <1>2, <1>3, <1>4 DEF Step

LEMMA RunningStays ==
    ASSUME NEW c \in Callers, result[c] = "none", result'[c] = "none"
    PROVE  OutcomeOf(c)' = OutcomeOf(c) /\ Filled(c)' = Filled(c)
BY DEF OutcomeOf, Filled

LEMMA RunningMaps ==
    ASSUME Owning, NEW c \in Callers, Step(c), ~Write(c), pc'[c] # "idle"
    PROVE  UNCHANGED Owned!storeVars
<1>1. TypeOK /\ CallerInv(c) /\ ExclusiveUse
  BY OwningFacts
<1>2. /\ server' = server /\ call' = call /\ written' = written /\ pc[c] # "idle"
      /\ result' = result
  BY <1>1, StepFrame
<1>3. result[c] = "none"
  BY <1>1, <1>2 DEF CallerInv, ControlOK
<1>4. SameAbstract(c)
  BY <1>2, <1>3, RunningStays DEF SameAbstract, Left
<1> QED
  BY <1>1, <1>2, <1>4, OnlyOneMoves, SameServerSameStore, AbstractStutter

LEMMA FailsMap ==
    ASSUME Owning, NEW c \in Callers, pc'[c] = "idle",
           ReadOriginal(c) \/ Refuse(c) \/ TimeOut(c) \/ Unavailable(c)
    PROVE  Owned!Next
<1>1. /\ TypeOK /\ CallerInv(c) /\ ExclusiveUse /\ IInv /\ Premises /\ OwnInv(c)
      /\ Exact(Key(c))
  BY OwningFacts DEF Owning
<1>2. Step(c) /\ ~Write(c)
  <2>1. ReadOriginal(c) \/ TimeOut(c) \/ Unavailable(c) => pc[c] # "write"
    BY DEF ReadOriginal, TimeOut, Unavailable
  <2>2. Refuse(c) /\ Write(c) => pc'[c] # "idle"
    <3> SUFFICES ASSUME Write(c) PROVE pc'[c] # "idle"
      OBVIOUS
    <3>1. call[c].wait
      BY <1>1, Disciplined DEF Write, CallerInv, ControlOK
    <3> QED
      BY <1>1, <3>1 DEF Write, Move, FirstStep, TypeOK
  <2> QED
    BY <2>1, <2>2 DEF Step, Write
<1>3. server' = server /\ call' = call /\ written' = written /\ pc[c] # "idle"
  BY <1>1, <1>2, StepFrame
<1>4. CASE ReadOriginal(c)
  <2>1. pc[c] = "read" /\ ~view[Key(c)].present /\ Fail(c, "notfound")
    BY <1>1, <1>4 DEF ReadOriginal, Move, TypeOK
  <2>2. result'[c] \in {"err", "fail"} /\ cause'[c] = "notfound"
    BY <1>1, <2>1 DEF Fail, Return, TypeOK
  <2>3. Key(c) \in Left(c) /\ call[c].verb = "update"
    BY <1>1, <2>1, HandIsLeft DEF CallerInv, ControlOK
  <2>4. ~server[Key(c)].present
    BY <1>1, <2>1, ReadsAreExact
  <2> QED
    BY <1>2, <1>3, <2>2, <2>3, <2>4, FailureMaps
<1>5. CASE Refuse(c)
  <2>1. pc[c] = "write" /\ Key(c) \in Left(c) /\ call[c].verb \in WriteVerbs
    BY <1>1, <1>5, HandIsLeft DEF Refuse, CallerInv, ControlOK
  <2>2. Refusal(c) # "conflict"
    BY <1>1, <2>1 DEF Refusal, OwnInv, SendsCurrent
  <2>3. /\ result'[c] \in {"err", "fail"}
        /\ cause'[c] = "fault" \/ cause'[c] = Refusal(c)
    BY <1>1, <1>5 DEF Refuse, Fail, Return, TypeOK
  <2>4. /\ Refusal(c) = "notfound" => call[c].verb # "create" /\ ~server[Key(c)].present
        /\ Refusal(c) = "exists" => call[c].verb = "create" /\ server[Key(c)].present
    BY <2>1 DEF Refusal, WriteVerbs
  <2> QED
    BY <1>2, <1>3, <2>1, <2>2, <2>3, <2>4, FailureMaps
<1>6. CASE TimeOut(c)
  <2>1. pc[c] = "retry" /\ result'[c] = "fail" /\ cause'[c] = cause[c]
    BY <1>1, <1>6 DEF TimeOut, Return, TypeOK
  <2>2. Left(c) = {}
    BY <1>1, <2>1, NothingLeft DEF CallerInv, ControlOK
  <2> QED
    BY <1>1, <1>2, <1>3, <2>1, <2>2, FailureMaps DEF OwnInv
<1>7. CASE Unavailable(c)
  <2>1. result'[c] \in {"err", "fail"} /\ cause'[c] = "fault"
    BY <1>1, <1>7 DEF Unavailable, Fail, Return, TypeOK
  <2> QED
    BY <1>2, <1>3, <2>1, FailureMaps
<1> QED
  BY <1>4, <1>5, <1>6, <1>7

(* The last document passes: all of them are as the server has them. *)
LEMMA LastMaps ==
    ASSUME Owning, NEW c \in Callers, PollPass(c) \/ GetOne(c),
           AtLast(c), Finish(c), pc'[c] = "idle",
           call[c].verb # "delete" => view[Key(c)].present
    PROVE  Owned!Next
<1>1. /\ TypeOK /\ CallerInv(c) /\ ExclusiveUse /\ IInv /\ Premises /\ OwnInv(c)
      /\ ObjectsInv(c) /\ Exact(Key(c)) /\ idx[c] \in 1..Len(call[c].docs)
      /\ Len(call[c].docs) \in Nat
  BY OwningFacts, CallFacts DEF Owning
<1>2. Step(c) /\ ~Write(c) /\ pc[c] \in {"poll", "get"} /\ Observe(c)
  BY DEF Step, PollPass, GetOne, Write
<1>3. server' = server /\ call' = call /\ written' = written
  BY <1>1, <1>2, StepFrame
<1>4. /\ result'[c] = "ok"
      /\ ~(call[c].template /\ call[c].save /\ call[c].verb # "delete")
  BY <1>1 DEF Finish, Move, Return, TypeOK
<1>5. call[c].verb \in WriteVerbs => Left(c) = {}
  BY <1>1, <1>2, NothingLeft DEF CallerInv, ControlOK
<1>6. view[Key(c)] = server[Key(c)]
  BY <1>1, ReadsAreExact DEF PollPass, GetOne
<1>7. ASSUME call[c].verb # "delete", NEW k \in DocKeys(call[c])
      PROVE  /\ server[k].present
             /\ Fills(call[c]) => held'[c]["caller"][k].val = server[k].val
  <2>1. PICK j \in 1..Len(call[c].docs) : k = call[c].docs[j]
    BY DEF DocKeys
  <2>2. Put(c, Seen(view[Key(c)])) /\ server[Key(c)].present
    BY <1>2, <1>6, <1>7 DEF Observe
  <2>3. Fills(call[c]) => Owner(c) = "caller"
    BY <1>4, <1>7 DEF Fills, Owner
  <2>4. CASE j = idx[c]
    <3>1. held'[c][Owner(c)][Key(c)] = Seen(view[Key(c)])
      <4>1. Key(c) \in Keys /\ Owner(c) \in {"template", "caller"}
        BY <1>1, CallFacts
      <4> QED
        BY <1>1, <2>2, <4>1 DEF Put, TypeOK
    <3>2. k = Key(c)
      BY <2>1, <2>4 DEF Key
    <3> QED
      BY <1>6, <2>2, <2>3, <3>1, <3>2 DEF Seen
  <2>5. CASE j # idx[c]
    <3>1. Gotten(c, j)
      BY <1>1, <1>2, <2>1, <2>5 DEF Gotten, AtLast
    <3>2. server[k].present /\ held[c][Owner(c)][k].val = server[k].val
      BY <1>1, <1>7, <2>1, <3>1 DEF ObjectsInv, Shown
    <3>3. held'[c][Owner(c)][k] = held[c][Owner(c)][k]
      BY <1>1, <2>1, <2>2, <2>5, PutElsewhere
    <3> QED
      BY <2>3, <3>2, <3>3
  <2> QED
    BY <2>4, <2>5
<1> QED
  BY <1>2, <1>3, <1>4, <1>5, <1>7, SuccessMaps

LEMMA GetsMap ==
    ASSUME Owning, NEW c \in Callers, PollPass(c) \/ GetOne(c), pc'[c] = "idle"
    PROVE  Owned!Next
<1>1. /\ TypeOK /\ CallerInv(c) /\ ExclusiveUse /\ IInv /\ Premises /\ OwnInv(c)
      /\ Exact(Key(c)) /\ view[Key(c)].present \in BOOLEAN
  BY OwningFacts, CallFacts DEF Owning, State
<1>2. CASE PollPass(c)
  <2>1. call[c].verb # "delete" => view[Key(c)].present
    BY <1>1, <1>2 DEF PollPass, Mismatch
  <2>2. AtLast(c) /\ Finish(c)
    BY <1>1, <1>2 DEF PollPass, Move, TypeOK
  <2> QED
    BY <1>2, <2>1, <2>2, LastMaps
<1>3. CASE GetOne(c) /\ view[Key(c)].present
  <2>1. AtLast(c) /\ Finish(c)
    BY <1>1, <1>3 DEF GetOne, Move, TypeOK
  <2> QED
    BY <1>3, <2>1, LastMaps
<1>4. CASE GetOne(c) /\ ~view[Key(c)].present
  <2>1. pc[c] = "get" /\ Fail(c, "notfound") /\ Step(c) /\ ~Write(c)
    BY <1>4 DEF GetOne, Step, Write
  <2>2. result'[c] \in {"err", "fail"} /\ cause'[c] = "notfound"
    BY <1>1, <2>1 DEF Fail, Return, TypeOK
  <2>3. call[c].verb \notin WriteVerbs
    BY <1>1, <2>1 DEF CallerInv, ControlOK
  <2>4. Key(c) \in Left(c)
    BY <2>3, OwningFacts DEF Owning, ReadsInv, ReadsWriteNothing, Left
  <2>5. ~server[Key(c)].present
    BY <1>1, <1>4, <2>1, ReadsAreExact
  <2>6. server' = server /\ call' = call /\ written' = written
    BY <1>1, <2>1, StepFrame
  <2> QED
    BY <2>1, <2>2, <2>3, <2>4, <2>5, <2>6, FailureMaps DEF WriteVerbs
<1> QED
  BY <1>2, <1>3, <1>4

LEMMA SaveMaps ==
    ASSUME Owning, NEW c \in Callers, Save(c)
    PROVE  Owned!Next
<1>1. TypeOK /\ CallerInv(c) /\ ExclusiveUse /\ ObjectsInv(c)
  BY OwningFacts
<1>2. Step(c) /\ ~Write(c) /\ pc[c] = "save" /\ pc'[c] = "idle"
  BY <1>1 DEF Step, Save, Write, Return, TypeOK
<1>3. server' = server /\ call' = call /\ written' = written
  BY <1>1, <1>2, StepFrame
<1>4. call[c].template /\ call[c].verb # "delete"
  BY <1>1, <1>2 DEF ObjectsInv, SavesAsAsked
<1>5. CASE call[c].badSlot = 0
  <2>1. result'[c] = "ok"
    BY <1>1, <1>5 DEF Save, Return, TypeOK
  <2>2. call[c].verb \in WriteVerbs => Left(c) = {}
    BY <1>2, NothingLeft
  <2>3. ASSUME NEW k \in DocKeys(call[c])
        PROVE  server[k].present /\ held'[c]["caller"][k].val = server[k].val
    <3>1. PICK j \in 1..Len(call[c].docs) : k = call[c].docs[j]
      BY DEF DocKeys
    <3>2. server[k].present /\ held[c]["template"][k].val = server[k].val
      BY <1>1, <1>2, <1>4, <3>1 DEF ObjectsInv, Shown, Gotten, Owner
    <3>3. k \in Keys
      BY OwningFacts
    <3>4. held'[c]["caller"][k] = held[c]["template"][k]
      BY <1>1, <1>5, <3>1, <3>3 DEF Save, TypeOK
    <3> QED
      BY <3>2, <3>4
  <2> QED
    BY <1>2, <1>3, <2>1, <2>2, <2>3, SuccessMaps
<1>6. CASE call[c].badSlot # 0
  <2>1. result'[c] = "fail" /\ cause'[c] = "save"
    BY <1>1, <1>6 DEF Save, Return, TypeOK
  <2> QED
    BY <1>2, <1>3, <2>1, FailureMaps
<1> QED
  BY <1>5, <1>6

(* A write stores what its verb says. *)
LEMMA WriteStores ==
    ASSUME Owning, NEW c \in Callers, Write(c)
    PROVE  /\ (StoredValues[Key(c)] = Absent) <=> (call[c].verb = "create")
           /\ StoredValues' = [StoredValues EXCEPT ![Key(c)] =
                  IF call[c].verb = "delete" THEN Absent ELSE call[c].val]
<1>1. /\ TypeOK /\ CallerInv(c) /\ Finalized = {} /\ ObjectsInv(c) /\ Exact(Key(c))
      /\ Key(c) \in Keys /\ idx[c] \in 1..Len(call[c].docs)
      /\ Key(c) = call[c].docs[idx[c]]
  BY OwningFacts
<1>2. pc[c] = "write" /\ Refusal(c) = "none" /\ Store(Key(c), Desired(c))
  BY DEF Write
<1>3. call[c].verb \in WriteVerbs
  BY <1>1, <1>2 DEF CallerInv, ControlOK
<1>4. server[Key(c)].present <=> call[c].verb # "create"
  BY <1>2 DEF Refusal
<1>5. (StoredValues[Key(c)] = Absent) <=> (call[c].verb = "create")
  BY <1>1, <1>4, AbsentInStore
<1>6. server' = [server EXCEPT ![Key(c)] = Desired(c)]
  BY <1>1, <1>2 DEF Store, Commit, TypeOK, ClusterTypeOK
<1>7. /\ Desired(c).present <=> call[c].verb # "delete"
      /\ call[c].verb # "delete" => Desired(c).val = call[c].val
  <2>1. CASE call[c].verb = "create"
    <3>1. InHand(c).val = call[c].val
      BY <1>1, <1>2, <2>1 DEF ObjectsInv, Sending, InHand
    <3> QED
      BY <2>1, <3>1 DEF Desired, Created, Fresh
  <2>2. CASE call[c].verb = "update"
    <3>1. InHand(c).val = call[c].val
      BY <1>1, <1>2, <2>2 DEF ObjectsInv, Sending
    <3>2. server[Key(c)] \in State
      BY <1>1 DEF TypeOK, ClusterTypeOK
    <3>3. Desired(c) = Updated(Key(c), InHand(c).val, InHand(c).other)
      BY <2>2 DEF Desired
    <3>4. Desired(c).present /\ Desired(c).val = InHand(c).val
      BY <1>4, <2>2, <3>2, <3>3 DEF Updated, State
    <3> QED
      BY <2>2, <3>1, <3>4
  <2>3. CASE call[c].verb = "delete"
    <3>1. Desired(c) = Gone(NextRevision)
      BY <1>1, <2>3 DEF Desired, Deleted, Exact
    <3> QED
      BY <2>3, <3>1 DEF Gone, Never
  <2> QED
    BY <1>3, <2>1, <2>2, <2>3 DEF WriteVerbs
<1>8. server \in [Keys -> State]
  BY <1>1 DEF TypeOK, ClusterTypeOK
<1>9. \A k \in Keys : StoredValues'[k] =
         IF k = Key(c) THEN IF call[c].verb = "delete" THEN Absent ELSE call[c].val
         ELSE StoredValues[k]
  BY <1>1, <1>6, <1>7, <1>8 DEF StoredValues
<1> QED
  BY <1>5, <1>9 DEF StoredValues

LEMMA WriteMaps ==
    ASSUME Owning, NEW c \in Callers, Write(c)
    PROVE  Owned!Next
<1>1. /\ TypeOK /\ HistoryOrdered /\ CallerInv(c) /\ ExclusiveUse
      /\ Key(c) \in Keys /\ Key(c) \in DocKeys(call[c]) /\ DocKeys(call[c]) \subseteq Keys
  BY OwningFacts
<1>2. /\ pc[c] = "write" /\ call' = call /\ call[c].wait /\ result[c] = "none"
      /\ call[c].verb \in WriteVerbs
  BY <1>1, Disciplined DEF Write, CallerInv, ControlOK
<1>3. pc'[c] # "idle" /\ result' = result
  BY <1>1, <1>2 DEF Write, Move, FirstStep, TypeOK
<1>4. OutcomeOf(c)' = OutcomeOf(c) /\ Filled(c)' = Filled(c)
  BY <1>2, <1>3, RunningStays
<1>5. \A d \in Callers : d # c => SameAbstract(d)
  BY <1>1, OnlyOneMoves DEF Step
<1> PICK k : k = Key(c)
  OBVIOUS
<1>6. Left(c)' = Left(c) \ {k}
  <2>1. FirstRevision <= Desired(c).rv /\ FirstRevision \in Nat \ {0}
    BY <1>1, DesiredNotOld, ClusterAssumption
  <2>2. Desired(c).rv # 0
    BY <2>1
  <2>3. written' = [written EXCEPT ![c][k] = Desired(c).rv]
    BY DEF Write
  <2>4. \A q \in DocKeys(call[c]) :
           written'[c][q] = 0 <=> q # k /\ written[c][q] = 0
    BY <1>1, <2>2, <2>3 DEF TypeOK
  <2> QED
    BY <1>2, <2>4 DEF Left
<1>7. k \in Left(c)
  BY <1>2, HandIsLeft
<1>8. /\ [x \in Callers |-> Promised(call'[x])] = [x \in Callers |-> Promised(call[x])]
      /\ [x \in Callers |-> pc'[x] # "idle"] = [x \in Callers |-> pc[x] # "idle"]
      /\ [x \in Callers |-> OutcomeOf(x)'] = [x \in Callers |-> OutcomeOf(x)]
      /\ [x \in Callers |-> Filled(x)'] = [x \in Callers |-> Filled(x)]
  BY <1>2, <1>3, <1>4, <1>5 DEF SameAbstract
<1>9. [x \in Callers |-> Left(x)']
         = [[x \in Callers |-> Left(x)] EXCEPT ![c] = @ \ {k}]
  BY <1>5, <1>6 DEF SameAbstract
<1>10. /\ (StoredValues[k] = Absent) <=> (call[c].verb = "create")
       /\ StoredValues' = [StoredValues EXCEPT ![k] =
              IF call[c].verb = "delete" THEN Absent ELSE call[c].val]
  BY WriteStores
<1>11. /\ [x \in Callers |-> Promised(call[x])][c].verb = call[c].verb
       /\ [x \in Callers |-> Promised(call[x])][c].val = call[c].val
  BY DEF Promised
<1>12. [x \in Callers |-> Left(x)][c] = Left(c)
  OBVIOUS
<1>13. [x \in Callers |-> pc[x] # "idle"][c]
  BY <1>2
<1>14. call[c].verb \notin {"get", "fetch"}
  BY <1>2 DEF WriteVerbs
<1>15. Owned!Change(c)
  BY <1>7, <1>8, <1>9, <1>10, <1>11, <1>12, <1>13, <1>14 DEF Owned!Change, Owned!Reads
<1> QED
  BY <1>15 DEF Owned!Next

LEMMA CallMaps ==
    ASSUME Owning, NEW c \in Callers, Call(c)
    PROVE  Owned!Next
<1>1. TypeOK
  BY OwningFacts
<1>2. PICK r \in Requests[c] : call' = [call EXCEPT ![c] = r] /\ pc' = [pc EXCEPT ![c] = FirstStep(r)]
  BY DEF Call
<1>3. call'[c] = r /\ DocKeys(r) \subseteq Keys
  BY <1>1, <1>2, RequestsAreRequests DEF TypeOK
<1>4. pc[c] = "idle" /\ pc'[c] # "idle"
  BY <1>1, <1>2 DEF Call, FirstStep, TypeOK
<1>5. StoredValues' = StoredValues
  BY SameServerSameStore DEF Call, clusterVars
<1>6. Left(c)' = DocKeys(r)
  BY <1>1, <1>3 DEF Call, Left, TypeOK
<1>7. result'[c] = "none"
  BY <1>1 DEF Call, TypeOK
<1>8. OutcomeOf(c)' = "none"
  BY <1>7 DEF OutcomeOf
<1>9. Filled(c)' = Owned!NoObjects
  BY <1>7 DEF Filled, Owned!NoObjects
<1>10. \A d \in Callers : d # c => SameAbstract(d)
  BY <1>1, OnlyOneMoves
<1>11. /\ [x \in Callers |-> Promised(call'[x])]
             = [[x \in Callers |-> Promised(call[x])] EXCEPT ![c] = Promised(r)]
       /\ [x \in Callers |-> pc'[x] # "idle"]
             = [[x \in Callers |-> pc[x] # "idle"] EXCEPT ![c] = TRUE]
       /\ [x \in Callers |-> Left(x)']
             = [[x \in Callers |-> Left(x)] EXCEPT ![c] = DocKeys(r)]
       /\ [x \in Callers |-> OutcomeOf(x)']
             = [[x \in Callers |-> OutcomeOf(x)] EXCEPT ![c] = "none"]
       /\ [x \in Callers |-> Filled(x)']
             = [[x \in Callers |-> Filled(x)] EXCEPT ![c] = Owned!NoObjects]
  BY <1>3, <1>4, <1>6, <1>8, <1>9, <1>10, AbstractUpdates
<1>12. Promised(r).keys = DocKeys(r)
  BY DEF Promised
<1>13. Promised(r) \in [x \in Callers |-> {Promised(q) : q \in Requests[x]}][c]
  OBVIOUS
<1>14. ~[x \in Callers |-> pc[x] # "idle"][c]
  BY <1>4
<1>15. Owned!Start(c)
  BY <1>5, <1>11, <1>12, <1>13, <1>14 DEF Owned!Start
<1> QED
  BY <1>15 DEF Owned!Next

LEMMA StepsMap == Owning /\ [Next]_vars => [Owned!Next]_(Owned!storeVars)
<1> SUFFICES ASSUME Owning, [Next]_vars PROVE [Owned!Next]_(Owned!storeVars)
  OBVIOUS
<1>0. TypeOK /\ HistoryOrdered /\ ExclusiveUse
  BY DEF Owning, IInv, OwnedPremises, Premises
<1>1. ASSUME NEW c \in Callers, Call(c) PROVE Owned!Next
  BY <1>1, CallMaps
<1>2. ASSUME NEW c \in Callers, Step(c)
      PROVE  Owned!Next \/ UNCHANGED Owned!storeVars
  <2>1. CASE Write(c)
    BY <2>1, WriteMaps
  <2>2. CASE ~Write(c) /\ pc'[c] # "idle"
    BY <1>2, <2>2, RunningMaps
  <2>3. CASE ~Write(c) /\ pc'[c] = "idle"
    <3>1. ~StartWait(c) /\ ~PollMiss(c) /\ ~Retry(c) /\ ~Lose(c)
      BY <1>0, <2>3 DEF StartWait, PollMiss, Retry, Move, Lose, ExclusiveUse, TypeOK
    <3>2. \/ ReadOriginal(c) \/ Refuse(c) \/ TimeOut(c) \/ Unavailable(c)
          \/ PollPass(c) \/ GetOne(c) \/ Save(c)
      BY <1>2, <2>3, <3>1 DEF Step
    <3> QED
      BY <2>3, <3>2, FailsMap, GetsMap, SaveMaps
  <2> QED
    BY <2>1, <2>2, <2>3
<1>3. ASSUME UNCHANGED SawchainVars, \A k \in Keys : server'[k] = server[k]
      PROVE  UNCHANGED Owned!storeVars
  <2>1. StoredValues' = StoredValues
    BY <1>3 DEF StoredValues
  <2>2. \A d \in Callers : SameAbstract(d)
    BY <1>3, UnmovedAbstract DEF SawchainVars, UnmovedCaller
  <2> QED
    BY <2>1, <2>2, AbstractStutter
<1>4. ASSUME NEW k \in Keys, World(k) PROVE UNCHANGED Owned!storeVars
  BY <1>0, <1>3, <1>4, WorldStore DEF World
<1>5. CASE UNCHANGED vars
  BY <1>3, <1>5 DEF vars, SawchainVars
<1> QED
  BY <1>1, <1>2, <1>4, <1>5 DEF Next

LEMMA InitMaps == Init => Owned!Init
<1> SUFFICES ASSUME Init PROVE Owned!Init
  OBVIOUS
<1>1. TypeOK
  BY InvInit DEF IInv
<1>2. \A c \in Callers : /\ call[c] \in Requests[c] /\ DocKeys(call[c]) \subseteq Keys
                         /\ pc[c] = "idle" /\ result[c] = "none" /\ written[c] = [k \in Keys |-> 0]
  BY <1>1, CallFacts DEF Init
<1>3. \A c \in Callers : Left(c) = DocKeys(call[c]) /\ OutcomeOf(c) = "none"
  BY <1>2 DEF Left, OutcomeOf
<1>4. \A c \in Callers : Filled(c) = Owned!NoObjects
  BY <1>2 DEF Filled, Owned!NoObjects
<1>5. \A c \in Callers : /\ Promised(call[c]) \in {Promised(r) : r \in Requests[c]}
                         /\ Promised(call[c]).keys = DocKeys(call[c])
  BY <1>2 DEF Promised
<1>6. DOMAIN StoredValues = Keys
  BY DEF StoredValues
<1> QED
  BY <1>2, <1>3, <1>4, <1>5, <1>6 DEF Owned!Init

(* Goroutines that own their resources and wait for their writes, where    *)
(* nothing waits for a finalizer, cannot tell the API server and its cache *)
(* from a store without caches and versions (docs/parallel-tests.md), as   *)
(* long as the versions keep their number of digits.                       *)
THEOREM OwnersSeeAStore ==
    ASSUME ExclusiveUse, Finalized = {}
    PROVE  Spec /\ [](Width(FirstRevision) = Width(revision)) => ImplementsOwnedStore
<1>1. OwnedInv /\ ReadsInv /\ Width(FirstRevision) = Width(revision) => Owning
  <2> SUFFICES ASSUME OwnedInv, ReadsInv, Width(FirstRevision) = Width(revision)
               PROVE  Owning
    OBVIOUS
  <2>1. IInv /\ FirstRevision \in Nat /\ revision \in Nat
    BY ClusterAssumption DEF OwnedInv, ExclusiveInv, IInv, TypeOK, ClusterTypeOK
  <2>2. OwnedPremises
    BY <2>1, SameWidthAgrees DEF OwnedPremises, Premises
  <2> QED
    BY <2>1, <2>2 DEF Owning, OwnedInv, ExclusiveInv, OwnedPremises
<1>2. OwnedInv => IInv
  BY DEF OwnedInv, ExclusiveInv
<1> QED
  BY <1>1, <1>2, InitMaps, StepsMap, OwnedInit, OwnedStep, ReadsInit, ReadsStep, PTL
     DEF Spec, ImplementsOwnedStore, Owned!Spec
=============================================================================
