--------------------------- MODULE PollingProofs ----------------------------
(***************************************************************************)
(* Proofs about Polling, for every set of closures, any number of          *)
(* documents and of polls, and a cache or none.                            *)
(***************************************************************************)
EXTENDS Polling, ClusterProofs

(* What the running poll reads into. *)
Got == IF closure.template THEN matches ELSE objects

(* What the poll read for document i: a state the client showed during the *)
(* poll, which says whether the document was met then.                     *)
GoodRead(got, i) ==
    LET d == closure.docs[i]
    IN  /\ got[i].key \in d.scope
        /\ began[got[i].key] <= got[i].rv /\ 0 < got[i].rv
        /\ closure.kind # "fetch" \/ steady => got[i].val \in d.wants
        /\ got[i].val \in d.wants => i \in seen

(* The history variables know of what the client shows. *)
Watching ==
    /\ steady => Meets(closure, view)
    /\ \A i \in Docs : MayMeet(closure, i, view) => i \in seen
    /\ \A k \in Keys : began[k] <= view[k].rv

ReadInv == pc = "read" => \A i \in Docs : i < idx => GoodRead(Got, i)

SaveInv ==
    pc = "save" =>
        /\ closure.template /\ closure.save /\ closure.kind # "list"
        /\ \A i \in Docs : GoodRead(matches, i)

OkInv ==
    outcome = "ok" =>
        IF closure.kind = "list" THEN seen = Docs /\ ~closure.save
        ELSE /\ \A i \in Docs : /\ GoodRead(Got, i)
                                /\ Got[i].val \in closure.docs[i].wants
             /\ closure.template /\ closure.save => objects = matches

(* Bindings that cannot be normalized end the first poll as it begins. *)
BindingInv == closure.badBinding => pc \in {"rest", "done"} /\ polls = 0

PollInv ==
    /\ PollingTypeOK
    /\ CacheBehind
    /\ pc # "done" => outcome = "none"
    /\ pc \in {"read", "save"} => Watching
    /\ ReadInv
    /\ SaveInv
    /\ OkInv
    /\ BindingInv
    /\ AbortHasCause

-----------------------------------------------------------------------------
(* What the assumptions say of the closure that is polled. *)
LEMMA ClosureFacts ==
    ASSUME PollingTypeOK
    PROVE  /\ closure \in Closure
           /\ Len(closure.docs) \in Nat /\ Docs \subseteq Nat
           /\ idx \in Nat /\ 1 <= idx /\ idx <= Len(closure.docs)
           /\ closure.kind = "list" => Docs = {idx} /\ ~closure.save
           /\ closure.kind \in {"check", "list"} => closure.template
           /\ ~closure.template => closure.save
           /\ \A i \in Docs :
                 /\ closure.docs[i] \in Expectation
                 /\ closure.kind = "fetch" => \E k \in Keys : closure.docs[i].scope = {k}
                 /\ closure.kind = "get" => closure.docs[i].wants = Vals \cup {NoVal}
<1>1. closure \in Closures /\ closure \in Closure
  BY PollingAssumption DEF PollingTypeOK
<1>2. closure.docs \in Seq(Expectation)
  BY <1>1 DEF Closure
<1>3. Len(closure.docs) \in Nat /\ \A i \in Docs : closure.docs[i] \in Expectation
  BY <1>2 DEF Docs
<1>4. idx \in Docs
  BY DEF PollingTypeOK
<1>5. Docs \subseteq Nat /\ idx \in Nat /\ 1 <= idx /\ idx <= Len(closure.docs)
  BY <1>3, <1>4 DEF Docs
<1>6. closure.kind = "list" => Docs = {idx} /\ ~closure.save
  <2>1. ASSUME closure.kind = "list"
        PROVE  Len(closure.docs) = 1 /\ ~closure.save
    BY <1>1, <2>1, PollingAssumption
  <2>2. ASSUME closure.kind = "list"
        PROVE  idx = 1 /\ Docs = {1}
    <3>0. Len(closure.docs) = 1
      BY <2>1, <2>2
    <3>1. Docs = 1..1 /\ idx = 1
      BY <3>0, <1>5 DEF Docs
    <3>2. 1..1 = {1}
      OBVIOUS
    <3> QED
      BY <3>1, <3>2
  <2> QED
    BY <2>1, <2>2
<1>7. /\ closure.kind \in {"check", "list"} => closure.template
      /\ ~closure.template => closure.save
  BY <1>1, PollingAssumption
<1>8. ASSUME NEW i \in Docs
      PROVE  /\ closure.kind = "fetch" => \E k \in Keys : closure.docs[i].scope = {k}
             /\ closure.kind = "get" => closure.docs[i].wants = Vals \cup {NoVal}
  BY <1>1, <1>8, PollingAssumption DEF Docs
<1> QED
  BY <1>1, <1>3, <1>5, <1>6, <1>7, <1>8

(* What may be read of a resource. *)
LEMMA TakeType ==
    ASSUME PollingTypeOK, NEW k \in Keys
    PROVE  Take(k) \in Taken
<1>1. view[k] \in State
  BY DEF PollingTypeOK, ClusterTypeOK
<1> QED
  BY <1>1 DEF Take, Taken, State

LEMMA EmptyType == Empty \in Taken
<1>1. (CHOOSE k \in Keys : TRUE) \in Keys
  BY PollingAssumption
<1> QED
  BY <1>1 DEF Empty, Taken

(* A candidate of document i, one the client shows. *)
LEMMA CandidateFacts ==
    ASSUME PollInv, NEW i \in Docs, NEW k \in Candidates(closure.docs[i])
    PROVE  /\ k \in Keys /\ k \in closure.docs[i].scope
           /\ view[k].present /\ 0 < view[k].rv
<1>1. closure.docs[i] \in Expectation
  BY ClosureFacts DEF PollInv
<1>2. k \in closure.docs[i].scope /\ view[k].present
  BY DEF Candidates, CandidatesIn
<1>3. k \in Keys
  BY <1>1, <1>2 DEF Expectation
<1>4. view[k] \in State /\ Behind(k)
  BY <1>3 DEF PollInv, PollingTypeOK, ClusterTypeOK, CacheBehind
<1>5. view[k].rv \in Nat
  BY <1>4 DEF State
<1>6. FirstRevision \in Nat \ {0}
  BY ClusterAssumption
<1>7. FirstRevision <= view[k].rv
  BY <1>2, <1>4 DEF Behind
<1> QED
  BY <1>2, <1>3, <1>5, <1>6, <1>7

-----------------------------------------------------------------------------
(* One document read: what is kept of it is a good read.                   *)
LEMMA TakeGood ==
    ASSUME PollInv, pc = "read", closure.kind # "list", NEW got \in [Docs -> Taken],
           NEW k \in Candidates(Doc),
           closure.kind # "fetch" => view[k].val \in Doc.wants
    PROVE  GoodRead([got EXCEPT ![idx] = Take(k)], idx)
<1> DEFINE g == [got EXCEPT ![idx] = Take(k)]
<1>1. idx \in Docs /\ Doc = closure.docs[idx]
  BY DEF PollInv, PollingTypeOK, Doc
<1>2. k \in Keys /\ k \in Doc.scope /\ view[k].present /\ 0 < view[k].rv
  BY <1>1, CandidateFacts
<1>3. g[idx].key = k /\ g[idx].rv = view[k].rv /\ g[idx].val = view[k].val
  BY <1>1 DEF Take
<1>4. began[k] <= view[k].rv
  BY <1>2 DEF PollInv, Watching
<1>5. ASSUME view[k].val \in Doc.wants
      PROVE  idx \in seen
  <2>1. k \in Matched(closure.docs[idx], view)
    BY <1>1, <1>5 DEF Matched, Candidates
  <2>2. MayMeet(closure, idx, view)
    BY <2>1 DEF MayMeet
  <2> QED
    BY <1>1, <2>2 DEF PollInv, Watching
<1>6. ASSUME closure.kind = "fetch", steady
      PROVE  view[k].val \in Doc.wants
  <2>1. MeetsDoc(closure, idx, view)
    BY <1>1, <1>6 DEF PollInv, Watching, Meets, Docs
  <2>2. PICK m \in Matched(closure.docs[idx], view) : TRUE
    BY <1>6, <2>1 DEF MeetsDoc
  <2>3. m \in Doc.scope /\ view[m].val \in Doc.wants
    BY <1>1, <2>2 DEF Matched, CandidatesIn
  <2>4. m = k
    BY <1>1, <1>2, <1>6, <2>3, ClosureFacts DEF PollInv
  <2> QED
    BY <2>3, <2>4
<1> QED
  BY <1>1, <1>2, <1>3, <1>4, <1>5, <1>6 DEF GoodRead

(* The other documents' reads stay as they are. *)
LEMMA OthersGood ==
    ASSUME PollInv, NEW got \in [Docs -> Taken], NEW t, NEW i \in Docs,
           i < idx, GoodRead(got, i)
    PROVE  GoodRead([got EXCEPT ![idx] = t], i)
<1>1. idx \in Nat /\ i \in Nat
  BY ClosureFacts DEF PollInv
<1>2. [got EXCEPT ![idx] = t][i] = got[i]
  BY <1>1
<1> QED
  BY <1>2 DEF GoodRead

(* The verdict over good reads of every document: a fetch is missed only   *)
(* where some document was not met all along.                              *)
LEMMA VerdictHolds ==
    ASSUME PollInv, closure.kind # "list", NEW got,
           \A i \in Docs : GoodRead(got, i), Verdict(got)
    PROVE  /\ idx' = idx
           /\ cause' \in {"none", "mismatch"}
           /\ \/ pc' = "retry" /\ outcome' = outcome /\ ~steady
              \/ /\ pc' = "done" /\ outcome' = "ok"
                 /\ \A i \in Docs : got[i].val \in closure.docs[i].wants
<1>1. CASE closure.kind = "fetch" /\ \E i \in Docs : got[i].val \notin closure.docs[i].wants
  <2>1. ~steady
    BY <1>1 DEF GoodRead
  <2> QED
    BY <1>1, <2>1 DEF Verdict, Miss
<1>2. CASE ~(closure.kind = "fetch" /\ \E i \in Docs : got[i].val \notin closure.docs[i].wants)
  <2>1. \A i \in Docs : got[i].val \in closure.docs[i].wants
    BY <1>2 DEF GoodRead
  <2> QED
    BY <1>2, <2>1 DEF Verdict, Finish
<1> QED
  BY <1>1, <1>2

-----------------------------------------------------------------------------
(* A document is read: the poll goes on, saves, or ends in a verdict.      *)
LEMMA AdvanceHolds ==
    ASSUME PollInv, pc = "read", closure.kind # "list", NEW got,
           \A i \in Docs : i <= idx => GoodRead(got, i), Advance(got)
    PROVE  /\ idx' \in Docs
           /\ \/ pc' = "read" /\ idx' = idx + 1 /\ outcome' = outcome /\ cause' = cause
              \/ /\ pc' = "save" /\ idx' = idx /\ outcome' = outcome /\ cause' = cause
                 /\ closure.template /\ closure.save
                 /\ \A i \in Docs : GoodRead(got, i)
              \/ /\ pc' = "retry" /\ idx' = idx /\ outcome' = outcome /\ ~steady
                 /\ cause' \in {"none", "mismatch"}
              \/ /\ pc' = "done" /\ idx' = idx /\ outcome' = "ok"
                 /\ cause' \in {"none", "mismatch"}
                 /\ ~(closure.template /\ closure.save)
                 /\ \A i \in Docs : /\ GoodRead(got, i)
                                    /\ got[i].val \in closure.docs[i].wants
<1>1. /\ idx \in Docs /\ idx \in Nat /\ 1 <= idx /\ idx <= Len(closure.docs)
      /\ Len(closure.docs) \in Nat
  BY ClosureFacts DEF PollInv, PollingTypeOK
<1>2. CASE idx < Len(closure.docs)
  <2>1. pc' = "read" /\ idx' = idx + 1 /\ outcome' = outcome /\ cause' = cause
    BY <1>2 DEF Advance
  <2> QED
    BY <1>1, <1>2, <2>1 DEF Docs
<1>3. CASE ~(idx < Len(closure.docs))
  <2>1. \A i \in Docs : GoodRead(got, i)
    BY <1>1, <1>3 DEF Docs
  <2>2. CASE closure.template /\ closure.save
    BY <1>1, <1>3, <2>1, <2>2 DEF Advance
  <2>3. CASE ~(closure.template /\ closure.save)
    <3>1. Verdict(got)
      BY <1>3, <2>3 DEF Advance
    <3> QED
      BY <1>1, <2>1, <2>3, <3>1, VerdictHolds
  <2> QED
    BY <2>2, <2>3
<1> QED
  BY <1>2, <1>3

(* The invariant after a step of a poll that moves neither the cluster nor *)
(* what the history variables remember.                                    *)
LEMMA SameMoment ==
    ASSUME PollInv, UNCHANGED <<clusterVars, closure, history>>
    PROVE  /\ ClusterTypeOK' /\ CacheBehind'
           /\ closure' = closure /\ Docs' = Docs
           /\ Watching => Watching'
<1>1. ClusterTypeOK' /\ CacheBehind'
  BY DEF PollInv, PollingTypeOK, ClusterTypeOK, CacheBehind, Behind, clusterVars
<1>2. closure' = closure /\ Docs' = Docs
  BY DEF Docs
<1>3. Watching => Watching'
  BY <1>2 DEF Watching, clusterVars, history, Meets, MayMeet, MeetsDoc, Broken,
              Matched, CandidatesIn
<1> QED
  BY <1>1, <1>2, <1>3

-----------------------------------------------------------------------------
(* A document that is read and kept. *)
LEMMA KeepHolds ==
    ASSUME PollInv, pc = "read", closure.kind # "list",
           NEW k \in Candidates(Doc),
           closure.kind # "fetch" => view[k].val \in Doc.wants,
           Keep(k), UNCHANGED <<clusterVars, closure, polls, history>>
    PROVE  PollInv' /\ (pc' = "retry" => ~steady')
<1>1. /\ idx \in Docs /\ Docs \subseteq Nat /\ Doc = closure.docs[idx]
      /\ matches \in [Docs -> Taken] /\ objects \in [Docs -> Taken]
  BY ClosureFacts DEF PollInv, PollingTypeOK, Doc
<1>2. Take(k) \in Taken
  BY <1>1, CandidateFacts, TakeType DEF PollInv
<1>3. /\ Got' = [Got EXCEPT ![idx] = Take(k)]
      /\ Got \in [Docs -> Taken]
      /\ matches' \in [Docs -> Taken] /\ objects' \in [Docs -> Taken]
      /\ closure.template => Got' = matches'
      /\ Advance(Got')
  BY <1>1, <1>2 DEF Keep, Got
<1>4. \A i \in Docs : i <= idx => GoodRead(Got', i)
  <2>1. GoodRead(Got', idx)
    BY <1>3, TakeGood
  <2>2. ASSUME NEW i \in Docs, i < idx
        PROVE  GoodRead(Got', i)
    <3>1. GoodRead(Got, i)
      BY <2>2 DEF PollInv, ReadInv
    <3> QED
      BY <1>3, <2>2, <3>1, OthersGood
  <2> QED
    BY <1>1, <2>1, <2>2
<1>5. /\ ClusterTypeOK' /\ CacheBehind' /\ closure' = closure /\ Docs' = Docs
      /\ Watching'
  BY SameMoment DEF PollInv
<1>6. outcome = "none" /\ steady' = steady /\ polls' = polls /\ seen' = seen /\ began' = began
  BY DEF PollInv, history
<1>7. /\ idx' \in Docs
      /\ \/ pc' = "read" /\ idx' = idx + 1 /\ outcome' = outcome /\ cause' = cause
         \/ /\ pc' = "save" /\ idx' = idx /\ outcome' = outcome /\ cause' = cause
            /\ closure.template /\ closure.save
            /\ \A i \in Docs : GoodRead(Got', i)
         \/ /\ pc' = "retry" /\ idx' = idx /\ outcome' = outcome /\ ~steady
            /\ cause' \in {"none", "mismatch"}
         \/ /\ pc' = "done" /\ idx' = idx /\ outcome' = "ok"
            /\ cause' \in {"none", "mismatch"}
            /\ ~(closure.template /\ closure.save)
            /\ \A i \in Docs : /\ GoodRead(Got', i)
                               /\ Got'[i].val \in closure.docs[i].wants
  BY <1>3, <1>4, AdvanceHolds
<1>8. PollingTypeOK'
  <2>1. outcome' \in {"none", "ok"} /\ pc' \in {"read", "save", "retry", "done"}
    BY <1>6, <1>7
  <2>2. cause' \in {"none", "bindings", "notfound", "mismatch", "broken", "fault", "save"}
    BY <1>7 DEF PollInv, PollingTypeOK
  <2> QED
    BY <1>3, <1>5, <1>6, <1>7, <2>1, <2>2 DEF PollInv, PollingTypeOK
<1>9. ReadInv'
  <2> SUFFICES ASSUME pc' = "read", NEW i \in Docs, i < idx' PROVE GoodRead(Got, i)'
    BY <1>5 DEF ReadInv
  <2>1. i <= idx
    BY <1>1, <1>7
  <2> QED
    BY <1>4, <1>5, <1>6, <2>1 DEF GoodRead
<1>10. SaveInv'
  <2> SUFFICES ASSUME pc' = "save"
               PROVE  /\ closure'.template /\ closure'.save /\ closure'.kind # "list"
                      /\ \A i \in Docs : GoodRead(matches, i)'
    BY <1>5 DEF SaveInv
  <2> QED
    BY <1>3, <1>5, <1>6, <1>7 DEF GoodRead
<1>11. OkInv'
  <2> SUFFICES ASSUME outcome' = "ok"
               PROVE  /\ closure'.kind # "list" /\ ~(closure'.template /\ closure'.save)
                      /\ \A i \in Docs : /\ GoodRead(Got, i)'
                                         /\ Got'[i].val \in closure'.docs[i].wants
    BY <1>5 DEF OkInv
  <2> QED
    BY <1>5, <1>6, <1>7 DEF GoodRead
<1>12. AbortHasCause' /\ (pc' # "done" => outcome' = "none")
  BY <1>6, <1>7 DEF AbortHasCause
<1>13. BindingInv'
  BY <1>5 DEF PollInv, BindingInv
<1> QED
  BY <1>5, <1>6, <1>7, <1>8, <1>9, <1>10, <1>11, <1>12, <1>13 DEF PollInv

(* A poll that ends, in a miss or for good, having kept nothing. *)
LEMMA EndHolds ==
    ASSUME PollInv, pc \in {"read", "retry"},
           UNCHANGED <<clusterVars, closure, matches, objects, polls, seen, began, idx>>,
           steady' \in BOOLEAN, pc' \in {"retry", "done"},
           outcome' \in {"none", "ok", "failed", "timeout"},
           cause' \in {"none", "bindings", "notfound", "mismatch", "broken", "fault", "save"},
           pc' = "retry" => outcome' = "none",
           outcome' = "ok" => closure.kind = "list" /\ seen = Docs,
           AbortHasCause'
    PROVE  PollInv'
<1>1. /\ ClusterTypeOK' /\ CacheBehind'
  BY DEF PollInv, PollingTypeOK, ClusterTypeOK, CacheBehind, Behind, clusterVars
<1>2. closure' = closure /\ Docs' = Docs /\ (closure.kind = "list" => ~closure.save)
  BY ClosureFacts DEF Docs, PollInv
<1>3. PollingTypeOK'
  BY <1>1, <1>2 DEF PollInv, PollingTypeOK
<1>4. OkInv'
  BY <1>2 DEF OkInv
<1>5. BindingInv'
  BY <1>2 DEF PollInv, BindingInv
<1> QED
  BY <1>1, <1>3, <1>4, <1>5 DEF PollInv, ReadInv, SaveInv

-----------------------------------------------------------------------------
(* Each step keeps the invariant, and a poll it makes a miss had a reason. *)
Missed == pc' = "retry" /\ pc # "retry" => ~steady'

(* A document the view does not meet: the view does not meet the closure. *)
LEMMA UnmetNow ==
    ASSUME PollInv, pc = "read", ~MeetsDoc(closure, idx, view)
    PROVE  ~steady
<1>1. idx \in Docs /\ (steady => Meets(closure, view))
  BY DEF PollInv, PollingTypeOK, Watching
<1> QED
  BY <1>1 DEF Meets, Docs

LEMMA ReadOneHolds == PollInv /\ ReadOne => PollInv' /\ Missed
<1> SUFFICES ASSUME PollInv, ReadOne PROVE PollInv' /\ Missed
  OBVIOUS
<1>1. /\ pc = "read" /\ closure.kind \in {"get", "check"}
      /\ UNCHANGED <<clusterVars, closure, polls, history>>
      /\ Doc = closure.docs[idx] /\ idx \in Docs /\ outcome = "none"
      /\ steady \in BOOLEAN
  BY DEF ReadOne, PollInv, PollingTypeOK, Doc
<1>2. ASSUME NEW k \in Decisive(Doc), view[k].val \in Doc.wants, Keep(k)
      PROVE  PollInv' /\ Missed
  <2>1. k \in Candidates(Doc)
    BY <1>2 DEF Decisive, Matched, Broken, Candidates
  <2> QED
    BY <1>1, <1>2, <2>1, KeepHolds DEF Missed
<1>3. ASSUME NEW why \in {"broken", "notfound", "mismatch"},
             Miss(why), UNCHANGED <<matches, objects>>,
             ~MeetsDoc(closure, idx, view)
      PROVE  PollInv' /\ Missed
  <2>1. ~steady
    BY <1>1, <1>3, UnmetNow
  <2>2. pc' = "retry" /\ outcome' = "none" /\ cause' = why /\ idx' = idx
    BY <1>1, <1>3 DEF Miss
  <2>3. AbortHasCause'
    BY <2>2 DEF AbortHasCause
  <2>4. PollInv'
    BY <1>1, <1>3, <2>2, <2>3, EndHolds DEF history
  <2> QED
    BY <1>1, <2>1, <2>4 DEF Missed, history
<1>4. ASSUME NEW k \in Decisive(Doc), view[k].val \notin Doc.wants
      PROVE  ~MeetsDoc(closure, idx, view)
  <2>1. k \in Broken(closure.docs[idx], view)
    BY <1>1, <1>4 DEF Decisive, Matched
  <2> QED
    BY <2>1 DEF MeetsDoc
<1>5. ASSUME Decisive(Doc) = {}
      PROVE  ~MeetsDoc(closure, idx, view)
  BY <1>1, <1>5 DEF Decisive, MeetsDoc
<1>6. \/ \E k \in Decisive(Doc) :
            IF view[k].val \in Doc.wants THEN Keep(k)
            ELSE Miss("broken") /\ UNCHANGED <<matches, objects>>
      \/ /\ Decisive(Doc) = {}
         /\ Miss(IF Candidates(Doc) = {} THEN "notfound" ELSE "mismatch")
         /\ UNCHANGED <<matches, objects>>
  BY DEF ReadOne
<1>7. CASE \E k \in Decisive(Doc) :
            IF view[k].val \in Doc.wants THEN Keep(k)
            ELSE Miss("broken") /\ UNCHANGED <<matches, objects>>
  BY <1>2, <1>3, <1>4, <1>7
<1>8. CASE /\ Decisive(Doc) = {}
           /\ Miss(IF Candidates(Doc) = {} THEN "notfound" ELSE "mismatch")
           /\ UNCHANGED <<matches, objects>>
  BY <1>3, <1>5, <1>8
<1> QED
  BY <1>6, <1>7, <1>8

LEMMA FetchOneHolds == PollInv /\ FetchOne => PollInv' /\ Missed
<1> SUFFICES ASSUME PollInv, FetchOne PROVE PollInv' /\ Missed
  OBVIOUS
<1>1. /\ pc = "read" /\ closure.kind = "fetch"
      /\ UNCHANGED <<clusterVars, closure, polls, history>>
      /\ steady \in BOOLEAN
  BY DEF FetchOne, PollInv, PollingTypeOK
<1>2. CASE \E k \in Candidates(Doc) : Keep(k)
  BY <1>1, <1>2, KeepHolds DEF Missed
<1>3. CASE /\ Candidates(Doc) = {}
           /\ Abort("notfound") /\ UNCHANGED <<matches, objects>>
  <2>1. pc' = "done" /\ outcome' = "failed" /\ cause' = "notfound" /\ idx' = idx
    BY <1>3 DEF Abort, Finish
  <2>2. ~MeetsDoc(closure, idx, view)
    BY <1>1, <1>3 DEF MeetsDoc, Matched, Candidates, Doc
  <2>3. ~steady
    BY <1>1, <2>2, UnmetNow
  <2>4. AbortHasCause'
    BY <1>1, <2>1, <2>3 DEF AbortHasCause, history
  <2>5. PollInv'
    BY <1>1, <1>3, <2>1, <2>4, EndHolds DEF history
  <2> QED
    BY <2>1, <2>5 DEF Missed
<1> QED
  BY <1>2, <1>3 DEF FetchOne

LEMMA ListAllHolds == PollInv /\ ListAll => PollInv' /\ Missed
<1> SUFFICES ASSUME PollInv, ListAll PROVE PollInv' /\ Missed
  OBVIOUS
<1>1. /\ pc = "read" /\ closure.kind = "list"
      /\ UNCHANGED <<clusterVars, closure, matches, objects, polls, history>>
      /\ Doc = closure.docs[idx] /\ Docs = {idx} /\ outcome = "none"
      /\ steady \in BOOLEAN /\ seen \subseteq Docs
  BY ClosureFacts DEF ListAll, PollInv, PollingTypeOK, Doc
<1>2. /\ idx' = idx
      /\ \/ /\ pc' = "done" /\ outcome' = "failed" /\ cause' = "broken"
            /\ ~MeetsDoc(closure, idx, view)
         \/ /\ pc' = "done" /\ outcome' = "ok" /\ cause' = "none"
            /\ MeetsDoc(closure, idx, view)
         \/ /\ pc' = "retry" /\ outcome' = "none" /\ cause' = "mismatch"
            /\ ~MeetsDoc(closure, idx, view)
  BY <1>1 DEF ListAll, Abort, Finish, Miss, MeetsDoc
<1>3. MeetsDoc(closure, idx, view) => seen = Docs
  BY <1>1 DEF PollInv, Watching, MayMeet
<1>4. pc' = "retry" \/ outcome' = "failed" => ~steady
  BY <1>1, <1>2, UnmetNow
<1>5. AbortHasCause'
  BY <1>1, <1>2, <1>4 DEF AbortHasCause, history
<1>6. PollInv'
  BY <1>1, <1>2, <1>3, <1>5, EndHolds DEF history
<1> QED
  BY <1>1, <1>4, <1>6 DEF Missed, history

LEMMA UnavailableHolds == PollInv /\ Unavailable => PollInv' /\ Missed
<1> SUFFICES ASSUME PollInv, Unavailable PROVE PollInv' /\ Missed
  OBVIOUS
<1>1. /\ pc = "read" /\ steady' = FALSE
      /\ UNCHANGED <<clusterVars, closure, matches, objects, polls, seen, began>>
      /\ outcome = "none" /\ closure.kind \in {"get", "fetch", "check", "list"}
  BY ClosureFacts DEF Unavailable, PollInv, Closure
<1>2. /\ idx' = idx /\ cause' = "fault"
      /\ \/ pc' = "retry" /\ outcome' = "none"
         \/ pc' = "done" /\ outcome' = "failed" /\ closure.kind \in {"fetch", "list"}
  BY <1>1 DEF Unavailable, Abort, Finish, Miss
<1>3. AbortHasCause'
  BY <1>1, <1>2 DEF AbortHasCause
<1>4. PollInv'
  BY <1>1, <1>2, <1>3, EndHolds
<1> QED
  BY <1>1, <1>4 DEF Missed

(* Saving starts only after every document was read, and with no object of *)
(* the wrong type the caller's objects become the matches.                 *)
LEMMA SaveHolds == PollInv /\ Save => PollInv' /\ Missed
<1> SUFFICES ASSUME PollInv, Save PROVE PollInv' /\ Missed
  OBVIOUS
<1>1. /\ pc = "save" /\ closure.template /\ closure.save /\ closure.kind # "list"
      /\ UNCHANGED <<clusterVars, closure, matches, polls, history>>
      /\ \A i \in Docs : GoodRead(matches, i)
      /\ outcome = "none"
      /\ matches \in [Docs -> Taken] /\ objects \in [Docs -> Taken]
  BY DEF Save, PollInv, PollingTypeOK, SaveInv
<1>2. /\ ClusterTypeOK' /\ CacheBehind' /\ closure' = closure /\ Docs' = Docs
  BY <1>1, SameMoment
<1>3. steady' = steady /\ seen' = seen /\ began' = began /\ matches' = matches
  BY <1>1 DEF history
<1>4. objects' \in [Docs -> Taken]
  BY <1>1 DEF Save
<1>5. /\ idx' = idx /\ pc' \in {"retry", "done"}
      /\ cause' \in {"none", "mismatch", "save"}
      /\ outcome' \in {"none", "ok", "failed"}
      /\ pc' = "retry" => outcome' = "none" /\ ~steady
      /\ outcome' = "failed" => cause' = "save" /\ closure.badSlot # 0
      /\ outcome' = "ok" => /\ closure.badSlot = 0
                           /\ \A i \in Docs : matches[i].val \in closure.docs[i].wants
  <2>1. CASE closure.badSlot = 0
    <3>1. Verdict(matches)
      BY <2>1 DEF Save
    <3> QED
      BY <1>1, <2>1, <3>1, VerdictHolds
  <2>2. CASE closure.badSlot # 0
    BY <1>1, <2>2 DEF Save, Abort, Finish
  <2> QED
    BY <2>1, <2>2
<1>6. closure.badSlot = 0 => objects' = matches
  BY <1>1 DEF Save
<1>7. PollingTypeOK'
  BY <1>1, <1>2, <1>3, <1>4, <1>5 DEF PollInv, PollingTypeOK
<1>8. OkInv'
  <2> SUFFICES ASSUME outcome' = "ok"
               PROVE  /\ closure'.kind # "list" /\ closure'.template
                      /\ objects' = matches'
                      /\ \A i \in Docs : /\ GoodRead(matches, i)'
                                         /\ matches'[i].val \in closure'.docs[i].wants
    BY <1>2 DEF OkInv, Got, GoodRead
  <2> QED
    BY <1>1, <1>2, <1>3, <1>5, <1>6 DEF GoodRead
<1>9. AbortHasCause'
  <2>1. \A i \in Docs : matches[i].rv > 0 /\ matches[i].rv >= began[matches[i].key]
    <3> SUFFICES ASSUME NEW i \in Docs
                 PROVE  matches[i].rv > 0 /\ matches[i].rv >= began[matches[i].key]
      OBVIOUS
    <3>1. matches[i].rv \in Nat /\ began[matches[i].key] \in Nat
      BY <1>1 DEF PollInv, PollingTypeOK, Taken
    <3> QED
      BY <1>1, <3>1 DEF GoodRead
  <2> QED
    BY <1>2, <1>3, <1>5, <2>1 DEF AbortHasCause
<1>10. BindingInv'
  BY <1>1 DEF PollInv, BindingInv
<1> QED
  BY <1>2, <1>3, <1>5, <1>7, <1>8, <1>9, <1>10 DEF PollInv, ReadInv, SaveInv, Missed

LEMMA StartPollHolds == PollInv /\ StartPoll => PollInv' /\ Missed
<1> SUFFICES ASSUME PollInv, StartPoll PROVE PollInv' /\ Missed
  OBVIOUS
<1>1. /\ pc = "rest" /\ outcome = "none"
      /\ UNCHANGED <<clusterVars, closure, objects, polls>>
      /\ steady' = Meets(closure, view)
      /\ seen' = {i \in Docs : MayMeet(closure, i, view)}
      /\ began' = [k \in Keys |-> view[k].rv]
  BY DEF StartPoll, PollInv
<1>2. \/ /\ closure.badBinding /\ matches' = matches /\ idx' = idx
         /\ pc' = "done" /\ outcome' = "failed" /\ cause' = "bindings"
      \/ /\ ~closure.badBinding /\ matches' \in [Docs -> Taken] /\ idx' = 1
         /\ pc' = "read" /\ outcome' = "none" /\ cause' = cause
  BY <1>1, EmptyType DEF StartPoll, Abort, Finish, PollInv, PollingTypeOK
<1>3. /\ ClusterTypeOK' /\ CacheBehind' /\ closure' = closure /\ view' = view /\ Docs' = Docs
  BY <1>1 DEF PollInv, PollingTypeOK, ClusterTypeOK, CacheBehind, Behind, clusterVars, Docs
<1>4. \A k \in Keys : view[k].rv \in Nat
  BY DEF PollInv, PollingTypeOK, ClusterTypeOK, State
<1>5. 1 \in Docs /\ Docs \subseteq Nat /\ \A i \in Docs : ~(i < 1)
  BY ClosureFacts DEF PollInv, Docs
<1>6. steady' \in BOOLEAN
  BY <1>1 DEF Meets
<1>7. PollingTypeOK'
  <2>1. matches' \in [Docs -> Taken] /\ idx' \in Docs
    BY <1>2, <1>5 DEF PollInv, PollingTypeOK
  <2> QED
    BY <1>1, <1>2, <1>3, <1>4, <1>6, <2>1 DEF PollInv, PollingTypeOK
<1>8. Watching'
  <2>1. steady' => Meets(closure', view')
    BY <1>1, <1>3
  <2>2. \A i \in Docs : MayMeet(closure', i, view') => i \in seen'
    BY <1>1, <1>3
  <2>3. \A k \in Keys : began'[k] <= view'[k].rv
    BY <1>1, <1>3, <1>4
  <2> QED
    BY <1>3, <2>1, <2>2, <2>3 DEF Watching
<1>9. ReadInv' /\ SaveInv' /\ OkInv'
  BY <1>2, <1>3, <1>5 DEF ReadInv, SaveInv, OkInv
<1>10. BindingInv' /\ AbortHasCause'
  BY <1>1, <1>2, <1>3 DEF PollInv, BindingInv, AbortHasCause
<1> QED
  BY <1>2, <1>3, <1>7, <1>8, <1>9, <1>10 DEF PollInv, Missed

LEMMA RetryHolds == PollInv /\ Retry => PollInv' /\ Missed
<1> SUFFICES ASSUME PollInv, Retry PROVE PollInv' /\ Missed
  OBVIOUS
<1>1. /\ pc = "retry" /\ pc' = "rest" /\ polls < MaxPolls /\ polls' = polls + 1
      /\ UNCHANGED <<clusterVars, closure, idx, matches, objects, outcome, cause, history>>
      /\ outcome = "none" /\ polls \in 0..MaxPolls /\ MaxPolls \in Nat
  BY PollingAssumption DEF Retry, PollInv, PollingTypeOK
<1>2. /\ ClusterTypeOK' /\ CacheBehind' /\ closure' = closure /\ Docs' = Docs
  BY <1>1, SameMoment
<1>3. polls' \in 0..MaxPolls
  BY <1>1
<1>4. PollingTypeOK'
  BY <1>1, <1>2, <1>3 DEF PollInv, PollingTypeOK, history
<1>5. BindingInv'
  BY <1>1, <1>2 DEF PollInv, BindingInv
<1> QED
  BY <1>1, <1>2, <1>4, <1>5 DEF PollInv, ReadInv, SaveInv, OkInv, AbortHasCause, Missed

LEMMA TimeOutHolds == PollInv /\ TimeOut => PollInv' /\ Missed
<1> SUFFICES ASSUME PollInv, TimeOut PROVE PollInv' /\ Missed
  OBVIOUS
<1>1. /\ pc = "retry" /\ pc' = "done" /\ outcome' = "timeout" /\ cause' = cause /\ idx' = idx
      /\ UNCHANGED <<clusterVars, closure, matches, objects, polls, history>>
  BY DEF TimeOut, Finish
<1>2. PollInv'
  BY <1>1, EndHolds DEF PollInv, PollingTypeOK, AbortHasCause, history
<1> QED
  BY <1>1, <1>2 DEF Missed

(* The cluster moves during a poll. *)
LEMMA WorldHolds == PollInv /\ World => PollInv' /\ Missed
<1> SUFFICES ASSUME PollInv, World PROVE PollInv' /\ Missed
  OBVIOUS
<1>1. /\ pc # "done" /\ outcome = "none" /\ UNCHANGED <<pollVars, began>>
      /\ steady' = (steady /\ Meets(closure, view'))
      /\ seen' = seen \cup {i \in Docs : MayMeet(closure, i, view')}
  BY DEF World, PollInv
<1>2. PICK q \in Keys : Sync(q) \/ Environment(q)
  BY DEF World
<1>3. ClusterTypeOK' /\ CacheBehind' /\ \A k \in Keys : view[k].rv <= view'[k].rv
  BY <1>2, WorldType, WorldBehind DEF PollInv, PollingTypeOK
<1>4. /\ closure' = closure /\ Docs' = Docs /\ pc' = pc /\ idx' = idx /\ matches' = matches
      /\ objects' = objects /\ polls' = polls /\ outcome' = outcome /\ cause' = cause
      /\ began' = began
  BY <1>1 DEF pollVars, Docs
<1>5. PollingTypeOK'
  BY <1>1, <1>3, <1>4 DEF PollInv, PollingTypeOK
<1>6. Watching => Watching'
  <2> SUFFICES ASSUME Watching PROVE Watching'
    OBVIOUS
  <2>1. \A k \in Keys : view[k].rv \in Nat /\ view'[k].rv \in Nat /\ began[k] \in Nat
    BY <1>3 DEF PollInv, PollingTypeOK, ClusterTypeOK, State
  <2>2. \A k \in Keys : began'[k] <= view'[k].rv
    BY <1>3, <1>4, <2>1 DEF Watching
  <2>3. steady' => Meets(closure', view')
    BY <1>1, <1>4
  <2>4. \A i \in Docs : MayMeet(closure', i, view') => i \in seen'
    BY <1>1, <1>4
  <2> QED
    BY <1>4, <2>2, <2>3, <2>4 DEF Watching
<1>7. ReadInv' /\ SaveInv'
  BY <1>1, <1>4 DEF PollInv, ReadInv, SaveInv, GoodRead, Got
<1>8. OkInv' /\ BindingInv' /\ AbortHasCause'
  BY <1>1, <1>4 DEF PollInv, OkInv, BindingInv, AbortHasCause
<1> QED
  BY <1>1, <1>3, <1>4, <1>5, <1>6, <1>7, <1>8 DEF PollInv, Missed

-----------------------------------------------------------------------------
LEMMA PollInit == Init => PollInv
<1> SUFFICES ASSUME Init PROVE PollInv
  OBVIOUS
<1>1. /\ closure \in Closures /\ pc = "rest" /\ idx = 1 /\ polls = 0
      /\ matches = [i \in Docs |-> Empty] /\ objects = matches
      /\ outcome = "none" /\ cause = "none"
      /\ steady = FALSE /\ seen = {} /\ began = [k \in Keys |-> 0]
  BY DEF Init
<1>2. ClusterTypeOK /\ CacheBehind
  BY ClusterStarts DEF Init
<1>3. idx \in Docs
  <2>1. closure.docs \in Seq(Expectation) /\ closure.docs # <<>>
    BY <1>1, PollingAssumption DEF Closure
  <2>2. Len(closure.docs) \in Nat /\ Len(closure.docs) # 0
    BY <2>1
  <2> QED
    BY <1>1, <2>2 DEF Docs
<1>4. matches \in [Docs -> Taken] /\ objects \in [Docs -> Taken]
  BY <1>1, EmptyType
<1>5. polls \in 0..MaxPolls
  BY <1>1, PollingAssumption
<1>6. PollingTypeOK
  BY <1>1, <1>2, <1>3, <1>4, <1>5 DEF PollingTypeOK
<1> QED
  BY <1>1, <1>2, <1>6 DEF PollInv, ReadInv, SaveInv, OkInv, BindingInv, AbortHasCause

LEMMA PollStep == PollInv /\ [Next]_vars => PollInv' /\ Missed
<1> SUFFICES ASSUME PollInv, [Next]_vars PROVE PollInv' /\ Missed
  OBVIOUS
<1>1. CASE UNCHANGED vars
  <2>1. /\ UNCHANGED <<clusterVars, closure, history>>
        /\ UNCHANGED <<pollVars, steady, seen, began>>
    BY <1>1 DEF vars, pollVars, history
  <2>2. /\ ClusterTypeOK' /\ CacheBehind' /\ closure' = closure /\ Docs' = Docs
        /\ Watching => Watching'
    BY <2>1, SameMoment
  <2>3. PollingTypeOK'
    BY <2>1, <2>2 DEF PollInv, PollingTypeOK, pollVars
  <2>4. ReadInv' /\ SaveInv'
    BY <2>1, <2>2 DEF PollInv, ReadInv, SaveInv, GoodRead, Got, pollVars
  <2>5. OkInv' /\ BindingInv' /\ AbortHasCause'
    BY <2>1, <2>2 DEF PollInv, OkInv, BindingInv, AbortHasCause, GoodRead, Got, pollVars
  <2>6. PollInv'
    BY <2>1, <2>2, <2>3, <2>4, <2>5 DEF PollInv, pollVars
  <2> QED
    BY <2>1, <2>6 DEF Missed, pollVars
<1>2. CASE StartPoll
  BY <1>2, StartPollHolds
<1>3. CASE ReadOne
  BY <1>3, ReadOneHolds
<1>4. CASE FetchOne
  BY <1>4, FetchOneHolds
<1>5. CASE ListAll
  BY <1>5, ListAllHolds
<1>6. CASE Unavailable
  BY <1>6, UnavailableHolds
<1>7. CASE Save
  BY <1>7, SaveHolds
<1>8. CASE Retry
  BY <1>8, RetryHolds
<1>9. CASE TimeOut
  BY <1>9, TimeOutHolds
<1>10. CASE World
  BY <1>10, WorldHolds
<1> QED
  BY <1>1, <1>2, <1>3, <1>4, <1>5, <1>6, <1>7, <1>8, <1>9, <1>10 DEF Next, Step

(* The inductive invariant of the polls: what has been read so far, what   *)
(* the client has shown meanwhile, and what the outcome rests on.          *)
THEOREM PollInvariance == Spec => []PollInv
<1>1. PollInv /\ [Next]_vars => PollInv'
  BY PollStep
<1> QED
  BY PollInit, <1>1, PTL DEF Spec

(* Types; a poll stays inside its documents. *)
THEOREM PollingTypeCorrect == Spec => []PollingTypeOK
<1>1. PollInv => PollingTypeOK
  BY DEF PollInv
<1> QED
  BY PollInvariance, <1>1, PTL

(* A test goes on only if the client showed every document met at some     *)
(* moment of the last poll (checkSingle, checkMultiple, List and the       *)
(* matcher on what Fetch returned).                                        *)
THEOREM GoesOnSeen == Spec => []OkMeansSeen
<1>1. PollInv => OkMeansSeen
  <2> SUFFICES ASSUME PollInv, outcome = "ok" PROVE seen = Docs
    BY DEF OkMeansSeen
  <2>1. seen \subseteq Docs
    BY DEF PollInv, PollingTypeOK
  <2>2. CASE closure.kind = "list"
    BY <2>2 DEF PollInv, OkInv
  <2>3. CASE closure.kind # "list"
    <3>1. \A i \in Docs : i \in seen
      BY <2>3 DEF PollInv, OkInv, GoodRead
    <3> QED
      BY <2>1, <3>1
  <2> QED
    BY <2>2, <2>3
<1> QED
  BY PollInvariance, <1>1, PTL

(* The objects a test goes on with hold states of the last poll, each      *)
(* matching its document: nothing of earlier polls is left in them.        *)
THEOREM SavedCurrent == Spec => []SavedWithinPoll
<1>1. PollInv => SavedWithinPoll
  <2> SUFFICES ASSUME PollInv, outcome = "ok", closure.save, NEW i \in Docs
               PROVE  /\ objects[i].key \in closure.docs[i].scope
                      /\ objects[i].val \in closure.docs[i].wants
                      /\ objects[i].rv >= began[objects[i].key]
    BY DEF SavedWithinPoll
  <2>1. Got = objects /\ GoodRead(Got, i) /\ Got[i].val \in closure.docs[i].wants
    BY DEF PollInv, OkInv, Got
  <2> QED
    BY <2>1 DEF GoodRead
<1> QED
  BY PollInvariance, <1>1, PTL

(* A poll ends the test at once only for the assertions inside the polled  *)
(* functions: bindings of a check, before its first request, an object of  *)
(* the wrong type once all documents were read in that poll, and for fetch *)
(* and list a failed request, a resource that is not there or a candidate  *)
(* that cannot be evaluated, never where the closure was met throughout.   *)
THEOREM AbortsJustified == Spec => []AbortHasCause
<1>1. PollInv => AbortHasCause
  BY DEF PollInv
<1> QED
  BY PollInvariance, <1>1, PTL

(* A poll is missed only if at some moment of it the closure was not met   *)
(* or a request failed: no order of the candidates hides a match.          *)
THEOREM MissesJustified == Spec => MissMeansSeen
<1>1. PollInv /\ [Next]_vars => [pc' = "retry" /\ pc # "retry" => ~steady']_vars
  BY PollStep DEF Missed
<1> QED
  BY PollInvariance, <1>1, PTL DEF Spec, MissMeansSeen

(* A closure made from a template writes the caller's objects only when    *)
(* every document was read in the same poll, and matched if it is a check. *)
THEOREM SavedTogether == Spec => SavedOnlyIfAllMatched
<1> DEFINE Together ==
      objects' # objects /\ closure.template =>
          /\ \A i \in Docs : matches[i].rv >= began[matches[i].key] /\ matches[i].rv > 0
          /\ closure.kind = "check" => \A i \in Docs :
                matches[i].val \in closure.docs[i].wants
<1>1. ASSUME PollInv, Save PROVE Together
  <2>1. \A i \in Docs : GoodRead(matches, i)
    BY <1>1 DEF PollInv, SaveInv, Save
  <2>2. \A i \in Docs : began[matches[i].key] <= matches[i].rv /\ 0 < matches[i].rv
    BY <2>1 DEF GoodRead
  <2>3. \A i \in Docs : /\ matches[i].rv \in Nat /\ began[matches[i].key] \in Nat
    BY <1>1 DEF PollInv, PollingTypeOK, Taken
  <2>4. closure.kind = "check" => \A i \in Docs : matches[i].val \in closure.docs[i].wants
    BY <2>1 DEF GoodRead
  <2> QED
    BY <2>2, <2>3, <2>4
<1>2. ASSUME [Next]_vars, ~Save PROVE closure.template => objects' = objects
  <2>1. CASE UNCHANGED vars
    BY <2>1 DEF vars, pollVars
  <2>2. CASE ReadOne
    BY <2>2 DEF ReadOne, Keep
  <2>3. CASE FetchOne
    BY <2>3 DEF FetchOne, Keep
  <2>4. CASE StartPoll \/ ListAll \/ Unavailable \/ Retry \/ TimeOut \/ World
    BY <2>4 DEF StartPoll, ListAll, Unavailable, Retry, TimeOut, World, pollVars
  <2> QED
    BY <1>2, <2>1, <2>2, <2>3, <2>4 DEF Next, Step
<1>3. PollInv /\ [Next]_vars => [Together]_vars
  BY <1>1, <1>2
<1> QED
  BY PollInvariance, <1>3, PTL DEF Spec, SavedOnlyIfAllMatched
=============================================================================
