------------------------------ MODULE Sawchain ------------------------------
(***************************************************************************)
(* Sawchain's resource operations: Create, Update, Delete, Get, the Fetch  *)
(* functions and the AndWait variants (create.go, update.go, delete.go,    *)
(* get.go, fetch.go, with the helpers of sawchain.go).  Each caller is one *)
(* goroutine of a test that makes one call at a time; each request to the  *)
(* API server and each client.Get is a step of its own, because the        *)
(* server, the cache and the other callers move between two of them.       *)
(*                                                                         *)
(* A failed assertion ends the call: the fail handler is taken to stop the *)
(* goroutine, as testing.T and Ginkgo do.                                  *)
(***************************************************************************)
EXTENDS Cluster, ResourceVersions, Sequences

CONSTANTS
    Callers,        \* goroutines that share the Sawchain
    Requests,       \* the calls each of them may make
    MaxCalls,       \* bound on the calls of one caller
    MaxPolls,       \* polls of Eventually that fit in the timeout, less one
    DecodeInPlace,  \* client.Create fills the map of the object it is given
    Faults          \* failures of the client: see Refuse, Lose and Unavailable

Verbs == {"create", "update", "delete", "get", "fetch"}

(* The parsed arguments of one call.  docs are the resources in order, as  *)
(* the template renders them or the objects are given; save says that      *)
(* objects accompany a template; badSlot is the position of an object      *)
(* whose type does not fit its document, 0 if there is none.               *)
Request == [verb : Verbs, wait : BOOLEAN, template : BOOLEAN,
            save : BOOLEAN, docs : Seq(Keys), val : Vals \cup {NoVal},
            badSlot : Nat]

ASSUME SawchainAssumption ==
    /\ Requests \in [Callers -> (SUBSET Request) \ {{}}]
    /\ \A c \in Callers : \A r \in Requests[c] :
          /\ r.docs # <<>>
          /\ \A i, j \in 1..Len(r.docs) : r.docs[i] = r.docs[j] => i = j
          /\ r.wait => r.verb \in {"create", "update", "delete"}
          /\ r.badSlot \in 0..Len(r.docs)
    /\ MaxCalls \in Nat
    /\ MaxPolls \in Nat
    /\ DecodeInPlace \in BOOLEAN
    /\ Faults \subseteq {"refused", "lost", "unavailable"}

VARIABLES
    pc,         \* where each caller is
    call,       \* the call it makes, or made last
    idx,        \* the document it is at
    held,       \* the Go objects: the caller's own, and the template's
    floor,      \* updatedResourceVersions
    polls,      \* retries of the running Eventually
    calls,      \* calls made
    result,     \* what the last call returned
    cause,      \* why it failed, or why the last poll did
    written,    \* history: revision each write of the call left
    synced      \* history: the cache knew the resource's last (dis)appearance

vars == <<server, view, pending, revision, envs, pc, call, idx, held, floor,
          polls, calls, result, cause, written, synced>>

(* The part of a Go object the model keeps.  rv = 0: no resourceVersion. *)
Object == [rv : Nat, val : Vals \cup {NoVal}, other : Nat]
Blank(v) == [rv |-> 0, val |-> v, other |-> 0]
Seen(s) == [rv |-> s.rv, val |-> s.val, other |-> s.other]

(* The object a step works on: an element of unstructuredObjs when the     *)
(* call has a template, one of the caller's own objects otherwise.         *)
Key(c) == call[c].docs[idx[c]]
Owner(c) == IF call[c].template THEN "template" ELSE "caller"
InHand(c) == held[c][Owner(c)][Key(c)]
Put(c, x) == held' = [held EXCEPT ![c][Owner(c)][Key(c)] = x]

(* Mutant: the poll reads into the loop's copy. *)
Observe_Copy(c) == UNCHANGED held

(* client.Get decodes into the object it is given, unless it fails. *)
Observe(c) ==
    IF view[Key(c)].present THEN Put(c, Seen(view[Key(c)])) ELSE UNCHANGED held

DocKeys(r) == {r.docs[i] : i \in 1..Len(r.docs)}

(* Mutant: the loops run one document too far. *)
AtLast_OffByOne(c) == idx[c] > Len(call[c].docs)

AtLast(c) == idx[c] = Len(call[c].docs)

FirstStep(r) ==
    IF r.verb \in {"get", "fetch"} THEN "get"
    ELSE IF r.verb = "update" /\ r.template THEN "read" ELSE "write"

Move(c, step, i) ==
    /\ pc' = [pc EXCEPT ![c] = step]
    /\ idx' = [idx EXCEPT ![c] = i]
    /\ UNCHANGED <<result, cause>>

Return(c, r, why) ==
    /\ pc' = [pc EXCEPT ![c] = "idle"]
    /\ result' = [result EXCEPT ![c] = r]
    /\ cause' = [cause EXCEPT ![c] = why]
    /\ UNCHANGED idx

(* An error of the client is returned by Create, Update, Delete and Get,   *)
(* and fails the test in the AndWait and Fetch functions.                  *)
Fail(c, why) ==
    Return(c, IF call[c].wait \/ call[c].verb = "fetch" THEN "fail" ELSE "err", why)

(* After the last document: save the states to the objects, or return. *)
Finish(c) ==
    IF call[c].template /\ call[c].save /\ call[c].verb # "delete"
    THEN Move(c, "save", idx[c])
    ELSE Return(c, "ok", "none")

-----------------------------------------------------------------------------
(* A test makes a call.  A template renders to documents without a         *)
(* version; objects are the caller's, a new one for a create, for an       *)
(* update the one it last got with the field set.  A goroutine whose test  *)
(* failed makes no further call.                                           *)
GivenObject(c, r, k) ==
    IF r.template \/ k \notin DocKeys(r) \/ r.verb \notin {"create", "update"}
    THEN held[c]["caller"][k]
    ELSE IF r.verb = "create" THEN Blank(r.val)
    ELSE [held[c]["caller"][k] EXCEPT !.val = r.val]

Prepared(c, r) ==
    [o \in {"template", "caller"} |-> [k \in Keys |->
        IF o = "template" THEN Blank(r.val) ELSE GivenObject(c, r, k)]]

Call(c) ==
    /\ pc[c] = "idle" /\ result[c] # "fail"
    /\ calls[c] < MaxCalls
    /\ calls' = [calls EXCEPT ![c] = @ + 1]
    /\ \E r \in Requests[c] :
          /\ call' = [call EXCEPT ![c] = r]
          /\ pc' = [pc EXCEPT ![c] = FirstStep(r)]
          /\ held' = [held EXCEPT ![c] = Prepared(c, r)]
    /\ idx' = [idx EXCEPT ![c] = 1]
    /\ floor' = [floor EXCEPT ![c] = [k \in Keys |-> 0]]
    /\ polls' = [polls EXCEPT ![c] = 0]
    /\ result' = [result EXCEPT ![c] = "none"]
    /\ cause' = [cause EXCEPT ![c] = "none"]
    /\ written' = [written EXCEPT ![c] = [k \in Keys |-> 0]]
    /\ synced' = [synced EXCEPT ![c] = [k \in Keys |-> FALSE]]
    /\ UNCHANGED clusterVars

(* Mutant: the patch is sent instead of the merged object. *)
ReadOriginal_Unmerged(c) ==
    /\ pc[c] = "read"
    /\ IF view[Key(c)].present
       THEN Move(c, "write", idx[c])
       ELSE Fail(c, "notfound")
    /\ UNCHANGED <<clusterVars, call, held, floor, polls, calls, written, synced>>

(* Update with a template: get the original and merge the patch into it.  *)
(* The merged object keeps the original's version and other fields.        *)
ReadOriginal(c) ==
    /\ pc[c] = "read"
    /\ IF view[Key(c)].present
       THEN /\ Put(c, [Seen(view[Key(c)]) EXCEPT !.val = call[c].val])
            /\ Move(c, "write", idx[c])
       ELSE /\ Fail(c, "notfound")
            /\ UNCHANGED held
    /\ UNCHANGED <<clusterVars, call, floor, polls, calls, written, synced>>

(* The state the server would store for the object in hand, and its reason *)
(* for refusing it.                                                        *)
Desired(c) ==
    CASE call[c].verb = "create" -> Created(Key(c), InHand(c).val)
      [] call[c].verb = "update" -> Updated(Key(c), InHand(c).val, InHand(c).other)
      [] OTHER -> Deleted(Key(c))

Refusal(c) ==
    LET s == server[Key(c)]
    IN  IF call[c].verb = "create" THEN IF s.present THEN "exists" ELSE "none"
        ELSE IF ~s.present THEN "notfound"
        ELSE IF call[c].verb = "update" /\ InHand(c).rv \notin {0, s.rv} THEN "conflict"
        ELSE "none"

(* Mutant: Update with a template sends the loop's copy too. *)
Respond_LoopCopy(c, s) ==
    IF call[c].verb = "delete" \/ call[c].template
    THEN UNCHANGED held
    ELSE Put(c, Seen(s))

(* The response is decoded into the object that was sent.  Create with a   *)
(* template sends the loop's copy: the element of unstructuredObjs sees    *)
(* the response only if the client fills the map both share.               *)
Respond(c, s) ==
    IF \/ call[c].verb = "delete"
       \/ call[c].verb = "create" /\ call[c].template /\ ~DecodeInPlace
    THEN UNCHANGED held
    ELSE Put(c, Seen(s))

(* Mutant: objects are saved before the wait, not after it. *)
Write_SaveFirst(c) ==
    /\ pc[c] = "write"
    /\ Refusal(c) = "none"
    /\ Store(Key(c), Desired(c))
    /\ Respond(c, Desired(c))
    /\ written' = [written EXCEPT ![c][Key(c)] = Desired(c).rv]
    /\ synced' = [synced EXCEPT ![c][Key(c)] =
                     view[Key(c)].since = server[Key(c)].since]
    /\ IF ~AtLast(c) THEN Move(c, FirstStep(call[c]), idx[c] + 1)
       ELSE IF call[c].wait /\ ~call[c].save THEN Move(c, "await", idx[c])
       ELSE Finish(c)
    /\ UNCHANGED <<envs, call, floor, polls, calls>>

(* One document is created, updated or deleted. *)
Write(c) ==
    /\ pc[c] = "write"
    /\ Refusal(c) = "none"
    /\ Store(Key(c), Desired(c))
    /\ Respond(c, Desired(c))
    /\ written' = [written EXCEPT ![c][Key(c)] = Desired(c).rv]
    /\ synced' = [synced EXCEPT ![c][Key(c)] =
                     view[Key(c)].since = server[Key(c)].since]
    /\ IF ~AtLast(c) THEN Move(c, FirstStep(call[c]), idx[c] + 1)
       ELSE IF call[c].wait THEN Move(c, "await", idx[c])
       ELSE Finish(c)
    /\ UNCHANGED <<envs, call, floor, polls, calls>>

(* Mutant: the loop goes on after an error and reports it at the end. *)
Refuse_Continue(c) ==
    /\ pc[c] = "write"
    /\ Refusal(c) # "none"
    /\ IF AtLast(c) THEN Fail(c, Refusal(c))
       ELSE Move(c, FirstStep(call[c]), idx[c] + 1)
    /\ UNCHANGED <<clusterVars, call, held, floor, polls, calls, written, synced>>

(* The server refuses, by its own rules or because it is unavailable. *)
Refuse(c) ==
    /\ pc[c] = "write"
    /\ \/ Refusal(c) # "none" /\ Fail(c, Refusal(c))
       \/ "refused" \in Faults /\ Fail(c, "fault")
    /\ UNCHANGED <<clusterVars, call, held, floor, polls, calls, written, synced>>

(* The write is stored and its answer lost: the client reports an error. *)
Lose(c) ==
    /\ pc[c] = "write"
    /\ "lost" \in Faults
    /\ Refusal(c) = "none"
    /\ Store(Key(c), Desired(c))
    /\ written' = [written EXCEPT ![c][Key(c)] = Desired(c).rv]
    /\ synced' = [synced EXCEPT ![c][Key(c)] =
                     view[Key(c)].since = server[Key(c)].since]
    /\ Fail(c, "fault")
    /\ UNCHANGED <<envs, call, held, floor, polls, calls>>

(* All documents are written: capture their versions and start Eventually. *)
StartWait(c) ==
    /\ pc[c] = "await"
    /\ floor' = [floor EXCEPT ![c] =
          [k \in Keys |-> IF call[c].verb = "update"
                          THEN held[c][Owner(c)][k].rv ELSE 0]]
    /\ Move(c, "poll", 1)
    /\ UNCHANGED <<clusterVars, call, held, polls, calls, written, synced>>

(* Mutants: an update waits as a create does, for presence alone; not      *)
(* found passes for found; the version must be exceeded.                   *)
Mismatch_NoVersion(c) ==
    LET s == view[Key(c)]
    IN  IF call[c].verb = "delete" THEN IF s.present THEN "present" ELSE "none"
        ELSE IF s.present THEN "none" ELSE "notfound"

Mismatch_IgnoresNotFound(c) ==
    LET s == view[Key(c)]
    IN  IF call[c].verb = "delete" /\ s.present THEN "present" ELSE "none"

Mismatch_Exceeds(c) ==
    LET s == view[Key(c)]
    IN  IF call[c].verb = "delete" THEN IF s.present THEN "present" ELSE "none"
        ELSE IF ~s.present THEN "notfound"
        ELSE IF call[c].verb = "update" /\ ~RvLess(floor[c][Key(c)], s.rv)
        THEN "insufficient" ELSE "none"

(* What one poll finds wrong with the current document: get, for an update *)
(* checkResourceVersion, for a delete checkNotFound.                       *)
Mismatch(c) ==
    LET s == view[Key(c)]
    IN  IF call[c].verb = "delete" THEN IF s.present THEN "present" ELSE "none"
        ELSE IF ~s.present THEN "notfound"
        ELSE IF call[c].verb = "update" /\ RvLess(s.rv, floor[c][Key(c)])
        THEN "insufficient" ELSE "none"

(* Mutant: the poll returns at the first document that passes. *)
PollPass_First(c) ==
    /\ pc[c] = "poll"
    /\ Mismatch(c) = "none"
    /\ Observe(c)
    /\ Finish(c)
    /\ UNCHANGED <<clusterVars, call, floor, polls, calls, written, synced>>

(* The current document passes; the poll goes on to the next one, and      *)
(* Eventually succeeds with the last.                                      *)
PollPass(c) ==
    /\ pc[c] = "poll"
    /\ Mismatch(c) = "none"
    /\ Observe(c)
    /\ IF AtLast(c) THEN Finish(c) ELSE Move(c, "poll", idx[c] + 1)
    /\ UNCHANGED <<clusterVars, call, floor, polls, calls, written, synced>>

(* The current document fails the poll.  The object in hand is overwritten *)
(* all the same.                                                           *)
PollMiss(c) ==
    /\ pc[c] = "poll"
    /\ Mismatch(c) # "none"
    /\ Observe(c)
    /\ pc' = [pc EXCEPT ![c] = "retry"]
    /\ cause' = [cause EXCEPT ![c] = Mismatch(c)]
    /\ UNCHANGED <<clusterVars, call, idx, floor, polls, calls, result, written, synced>>

(* Mutant: the timeout never passes. *)
Retry_Forever(c) ==
    /\ pc[c] = "retry"
    /\ Move(c, "poll", 1)
    /\ UNCHANGED <<clusterVars, call, held, floor, polls, calls, written, synced>>

(* Eventually polls again from the first document, or gives up. *)
Retry(c) ==
    /\ pc[c] = "retry"
    /\ polls[c] < MaxPolls
    /\ polls' = [polls EXCEPT ![c] = @ + 1]
    /\ Move(c, "poll", 1)
    /\ UNCHANGED <<clusterVars, call, held, floor, calls, written, synced>>

TimeOut(c) ==
    /\ pc[c] = "retry"
    /\ Return(c, "fail", cause[c])
    /\ UNCHANGED <<clusterVars, call, held, floor, polls, calls, written, synced>>

(* Get and Fetch: one client.Get per document. *)
GetOne(c) ==
    /\ pc[c] = "get"
    /\ Observe(c)
    /\ IF ~view[Key(c)].present THEN Fail(c, "notfound")
       ELSE IF AtLast(c) THEN Finish(c) ELSE Move(c, "get", idx[c] + 1)
    /\ UNCHANGED <<clusterVars, call, floor, polls, calls, written, synced>>

(* client.Get fails for a reason of its own.  A poll takes any error for a *)
(* reason to go on; every other reader gives up.                           *)
Unavailable(c) ==
    /\ "unavailable" \in Faults
    /\ \/ pc[c] \in {"read", "get"} /\ Fail(c, "fault")
       \/ /\ pc[c] = "poll"
          /\ pc' = [pc EXCEPT ![c] = "retry"]
          /\ cause' = [cause EXCEPT ![c] = "fault"]
          /\ UNCHANGED <<idx, result>>
    /\ UNCHANGED <<clusterVars, call, held, floor, polls, calls, written, synced>>

(* CopyUnstructuredToObject, document by document, up to the first object  *)
(* of the wrong type.                                                      *)
Save(c) ==
    /\ pc[c] = "save"
    /\ LET r == call[c]
           fits == {r.docs[i] : i \in {j \in 1..Len(r.docs) :
                                          r.badSlot = 0 \/ j < r.badSlot}}
       IN  /\ held' = [held EXCEPT ![c]["caller"] =
                 [k \in Keys |-> IF k \in fits THEN held[c]["template"][k] ELSE @[k]]]
           /\ IF r.badSlot = 0 THEN Return(c, "ok", "none") ELSE Return(c, "fail", "save")
    /\ UNCHANGED <<clusterVars, call, floor, polls, calls, written, synced>>

-----------------------------------------------------------------------------
Init ==
    /\ ClusterInit
    /\ pc = [c \in Callers |-> "idle"]
    /\ call = [c \in Callers |-> CHOOSE r \in Requests[c] : TRUE]
    /\ idx = [c \in Callers |-> 1]
    /\ held = [c \in Callers |-> [o \in {"template", "caller"} |->
                 [k \in Keys |-> Blank(NoVal)]]]
    /\ floor = [c \in Callers |-> [k \in Keys |-> 0]]
    /\ polls = [c \in Callers |-> 0]
    /\ calls = [c \in Callers |-> 0]
    /\ result = [c \in Callers |-> "none"]
    /\ cause = [c \in Callers |-> "none"]
    /\ written = [c \in Callers |-> [k \in Keys |-> 0]]
    /\ synced = [c \in Callers |-> [k \in Keys |-> FALSE]]

(* The step a running call takes next. *)
Step(c) ==
    \/ ReadOriginal(c) \/ Write(c) \/ Refuse(c) \/ Lose(c)
    \/ StartWait(c) \/ PollPass(c) \/ PollMiss(c) \/ Retry(c) \/ TimeOut(c)
    \/ GetOne(c) \/ Unavailable(c) \/ Save(c)

SawchainVars == <<pc, call, idx, held, floor, polls, calls, result, cause, written, synced>>

World(k) == (Sync(k) \/ Environment(k)) /\ UNCHANGED SawchainVars

Next ==
    \/ \E c \in Callers : Call(c) \/ Step(c)
    \/ \E k \in Keys : World(k)

(* A goroutine inside a call keeps running, and a client's cache keeps up; *)
(* nobody has to make another call or write anything.                      *)
Spec == Init /\ [][Next]_vars
FairSpec == Spec /\ \A c \in Callers : WF_vars(Step(c))
-----------------------------------------------------------------------------
Steps == {"idle", "read", "write", "await", "poll", "retry", "get", "save"}
Causes == {"none", "notfound", "exists", "conflict", "fault", "present",
           "insufficient", "save"}

(* Type correctness: among the rest, that a call stays inside its          *)
(* documents (the loops over unstructuredObjs and opts.Objects).           *)
TypeOK ==
    /\ ClusterTypeOK
    /\ pc \in [Callers -> Steps]
    /\ call \in [Callers -> Request]
    /\ idx \in [Callers -> Nat]
    /\ held \in [Callers -> [{"template", "caller"} -> [Keys -> Object]]]
    /\ floor \in [Callers -> [Keys -> Nat]]
    /\ polls \in [Callers -> Nat]
    /\ calls \in [Callers -> Nat]
    /\ result \in [Callers -> {"none", "ok", "err", "fail"}]
    /\ cause \in [Callers -> Causes]
    /\ written \in [Callers -> [Keys -> Nat]]
    /\ synced \in [Callers -> [Keys -> BOOLEAN]]
    /\ \A c \in Callers : call[c] \in Requests[c] /\ idx[c] \in 1..Len(call[c].docs)

(* What a reader of the client sees of the write call c made to k. *)
Reflected(c, k) == view[k].rv >= written[c][k]

(* The AndWait call of this verb that c made last has returned. *)
Waited(c, verb) ==
    result[c] = "ok" /\ call[c].wait /\ call[c].verb = verb

(* UpdateAndWait returns only when the client's Get reflects the update of *)
(* every resource (update.go, doc of UpdateAndWait).                       *)
UpdateReflected ==
    \A c \in Callers : Waited(c, "update") =>
        \A k \in DocKeys(call[c]) : Reflected(c, k)

(* CreateAndWait and DeleteAndWait return only when the client's Get       *)
(* reflects the creation (or deletion) of every resource whose last        *)
(* disappearance (or appearance) the cache knew at the time of the write.  *)
(* The two loops look at presence alone (create.go:367, delete.go:241), so *)
(* of the others they may find an earlier resource, or an earlier absence. *)
CreateReflectedIfSynced ==
    \A c \in Callers : Waited(c, "create") =>
        \A k \in DocKeys(call[c]) : synced[c][k] => Reflected(c, k)

DeleteReflectedIfSynced ==
    \A c \in Callers : Waited(c, "delete") =>
        \A k \in DocKeys(call[c]) : synced[c][k] => Reflected(c, k)

(* When a create or an update returns, the caller's objects hold a state   *)
(* at least as new as what the call wrote, however often the polls         *)
(* overwrote them ("they are populated to save resulting resource state",  *)
(* docs/usage-notes.md).                                                   *)
SavedIsFresh ==
    \A c \in Callers :
        /\ result[c] = "ok"
        /\ call[c].verb \in {"create", "update"}
        /\ call[c].template => call[c].save
        => \A k \in DocKeys(call[c]) :
              call[c].verb = "update" \/ synced[c][k]
              => held[c]["caller"][k].rv >= written[c][k]

(* How a call ended tells which resources it changed.  A loop that met an  *)
(* error changed those before the failing document and none after it (it   *)
(* returns at the first error and undoes nothing), and the failing one     *)
(* only where the client failed, when its answer may have been lost.  A    *)
(* call that failed later, in its wait or while saving, and one that       *)
(* returned without an error, changed all of them.                         *)
Changed(c) == {j \in 1..Len(call[c].docs) : written[c][call[c].docs[j]] # 0}

WrittenIsPrefix ==
    \A c \in Callers : call[c].verb \in {"create", "update", "delete"} =>
        LET all == 1..Len(call[c].docs)
        IN  /\ result[c] \in {"err", "fail"} =>
                  \/ Changed(c) = 1..(idx[c] - 1)
                  \/ Changed(c) = 1..idx[c] /\ cause[c] = "fault"
                  \/ Changed(c) = all /\ result[c] = "fail"
            /\ result[c] = "ok" \/ pc[c] \in {"await", "poll", "retry", "save"} =>
                  Changed(c) = all

(* A poll calls the version insufficient only while the cache is behind    *)
(* the update (the error of checkResourceVersion says so).                 *)
InsufficientMeansStale ==
    [][\A c \in Callers :
          pc[c] = "poll" /\ pc'[c] = "retry" /\ cause'[c] = "insufficient"
          => ~Reflected(c, Key(c))]_vars

(* No write of a caller undoes what others wrote to fields it does not own *)
(* (the merge in Update keeps them, and the version it carries makes the   *)
(* server refuse a stale one), unless it sends an object of its own that   *)
(* never had a version.                                                    *)
NoLostUpdate ==
    [][\A k \in Keys :
          /\ envs' = envs /\ server'[k].present
          /\ server'[k].since = server[k].since
          /\ server'[k].other # server[k].other
          => \E c \in Callers : /\ pc[c] = "write" /\ Key(c) = k
                                /\ ~call[c].template /\ InHand(c).rv = 0]_vars

(* A call with a template touches the caller's objects only after every    *)
(* document is written, and for an update visible to the client.           *)
SaveIsLast ==
    [][\A c \in Callers :
          /\ pc[c] # "idle" /\ call[c].template
          /\ call[c].verb \in {"create", "update"}
          /\ held'[c]["caller"] # held[c]["caller"]
          => \A k \in DocKeys(call[c]) :
                /\ written[c][k] # 0
                /\ call[c].verb = "update" /\ call[c].wait => Reflected(c, k)]_vars

(* Every caller owns its resources, nobody else writes them, every write   *)
(* is waited for and updates go through templates: the discipline          *)
(* docs/parallel-tests.md asks for.                                        *)
ExclusiveUse ==
    /\ MaxEnv = 0 /\ "lost" \notin Faults
    /\ \A c \in Callers : \A r \in Requests[c] :
          /\ r.verb \in {"create", "update", "delete"} => r.wait
          /\ r.verb = "update" => r.template
    /\ \A c, d \in Callers : \A r \in Requests[c], q \in Requests[d] :
          c # d => DocKeys(r) \cap DocKeys(q) = {}

(* Under exclusive use a test never works from a stale read: its updates   *)
(* are not refused as conflicts with its own earlier writes, and what it   *)
(* reads between two calls is what the server stores.                      *)
NoSelfConflict ==
    ExclusiveUse => \A c \in Callers :
        /\ cause[c] # "conflict"
        /\ pc[c] = "idle" /\ result[c] = "ok" =>
              \A k \in DocKeys(call[c]) : view[k].rv = server[k].rv

(* Every call returns: no poll outlives its Eventually. *)
CallReturns == \A c \in Callers : pc[c] # "idle" ~> pc[c] = "idle"
=============================================================================
