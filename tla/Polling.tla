------------------------------- MODULE Polling ------------------------------
(***************************************************************************)
(* The functions a test polls itself: GetFunc, FetchSingleFunc and         *)
(* FetchMultipleFunc, CheckFunc and ListFunc (get.go, fetch.go, check.go,  *)
(* list.go and internal/chainsaw/chainsaw.go) under the test's Eventually. *)
(* Check and List are the same with one poll.  Each document is one        *)
(* request to the client, and the cluster of module Cluster moves between  *)
(* two requests and between two polls.                                     *)
(*                                                                         *)
(* A failed assertion inside a poll ends the test, as in Sawchain.         *)
(***************************************************************************)
EXTENDS Cluster, Sequences, FiniteSets

CONSTANTS
    Closures,   \* what the test may poll
    MaxPolls,   \* polls that fit in the timeout, less one
    Flaky       \* TRUE when the client's requests may fail

(* What a document, with the test's matcher for a fetched object, asks     *)
(* for.  scope is the one resource it names, or those its namespace and    *)
(* labels select, none for a document that cannot be rendered: a check     *)
(* renders in the poll and returns that error like the others; wants are   *)
(* the field values it matches, breaks those on which its expressions      *)
(* cannot be evaluated.                                                    *)
Expectation == [named : BOOLEAN, scope : SUBSET Keys,
                wants : SUBSET (Vals \cup {NoVal}), breaks : SUBSET Vals]

(* save: objects are given; badSlot: the first of the wrong type, 0 for    *)
(* none; count: the length the test expects of a list; badBinding: a       *)
(* binding cannot be normalized, which only a check finds out in the poll. *)
Closure == [kind : {"get", "fetch", "check", "list"}, docs : Seq(Expectation),
            template : BOOLEAN, save : BOOLEAN, badSlot : Nat, count : Nat,
            badBinding : BOOLEAN]

ASSUME PollingAssumption ==
    /\ Keys # {}
    /\ Closures \subseteq Closure
    /\ MaxPolls \in Nat /\ Flaky \in BOOLEAN
    /\ \A f \in Closures :
          /\ f.docs # <<>> /\ f.badSlot \in 0..Len(f.docs)
          /\ f.kind = "list" => Len(f.docs) = 1 /\ ~f.save
          /\ f.kind \in {"check", "list"} => f.template
          /\ f.badBinding => f.kind = "check"
          /\ ~f.template => f.save /\ f.badSlot = 0
          /\ \A i \in 1..Len(f.docs) :
                LET d == f.docs[i]
                IN  /\ d.named => \E k \in Keys : d.scope = {k}
                    /\ f.kind \in {"get", "fetch"} => d.named /\ d.breaks = {}
                    /\ f.kind = "get" => d.wants = Vals \cup {NoVal}
                    /\ d.wants \cap d.breaks = {}

VARIABLES
    closure,    \* what is polled
    pc, idx,    \* where it is: the document of the running poll
    matches,    \* matches, or the unstructuredObjs the closure captured
    objects,    \* the caller's objects
    polls,      \* polls begun after the first
    outcome,    \* how the test's Eventually ended
    cause,      \* why it failed, or why the last poll missed
    steady,     \* history: the view met the closure all through the poll
    seen,       \* history: documents the view has met during the poll
    began       \* history: the versions in the view when the poll began

pollVars == <<closure, pc, idx, matches, objects, polls, outcome, cause>>
history == <<steady, seen, began>>
vars == <<clusterVars, pollVars, history>>

Taken == [key : Keys, rv : Nat, val : Vals \cup {NoVal}]
Empty == [key |-> CHOOSE k \in Keys : TRUE, rv |-> 0, val |-> NoVal]
Take(k) == [key |-> k, rv |-> view[k].rv, val |-> view[k].val]

Docs == 1..Len(closure.docs)
Doc == closure.docs[idx]

-----------------------------------------------------------------------------
(* ListCandidates: one Get or one List, whatever the field holds. *)
CandidatesIn(d, v) == {k \in d.scope : v[k].present}
Candidates(d) == CandidatesIn(d, view)

(* What a view meets: a document, without one it cannot evaluate, and the  *)
(* closure with the test's matcher.                                        *)
Matched(d, v) == {k \in CandidatesIn(d, v) : v[k].val \in d.wants}
Broken(d, v) == {k \in CandidatesIn(d, v) : v[k].val \in d.breaks}
MeetsDoc(f, i, v) ==
    /\ Broken(f.docs[i], v) = {}
    /\ IF f.kind = "list" THEN Cardinality(Matched(f.docs[i], v)) = f.count
       ELSE Matched(f.docs[i], v) # {}
Meets(f, v) == \A i \in 1..Len(f.docs) : MeetsDoc(f, i, v)

(* A document on its own: in another candidate order it may be met although *)
(* one of its candidates cannot be evaluated.                              *)
MayMeet(f, i, v) ==
    IF f.kind = "list" THEN MeetsDoc(f, i, v) ELSE Matched(f.docs[i], v) # {}

-----------------------------------------------------------------------------
Miss(why) ==
    /\ pc' = "retry" /\ cause' = why
    /\ UNCHANGED <<idx, outcome>>

Finish(how, why) ==
    /\ pc' = "done" /\ outcome' = how /\ cause' = why
    /\ UNCHANGED idx

(* An assertion inside the closure. *)
Abort(why) == Finish("failed", why)

(* The test's matcher looks at what the closure returned: nil, or the      *)
(* objects fetched.                                                        *)
Verdict(got) ==
    IF closure.kind = "fetch" /\ \E i \in Docs : got[i].val \notin closure.docs[i].wants
    THEN Miss("mismatch")
    ELSE Finish("ok", "none")

(* Mutant: the loop goes one document too far. *)
Advance_Past(got) ==
    IF idx <= Len(closure.docs)
    THEN pc' = "read" /\ idx' = idx + 1 /\ UNCHANGED <<outcome, cause>>
    ELSE Verdict(got)

(* After the document at idx: the next one, the objects, or the verdict. *)
Advance(got) ==
    IF idx < Len(closure.docs)
    THEN pc' = "read" /\ idx' = idx + 1 /\ UNCHANGED <<outcome, cause>>
    ELSE IF closure.template /\ closure.save
    THEN pc' = "save" /\ UNCHANGED <<idx, outcome, cause>>
    ELSE Verdict(got)

(* What was read of resource k goes to the caller's object if the closure  *)
(* was made from objects, else to the closure's own.                       *)
Keep(k) ==
    IF closure.template
    THEN /\ matches' = [matches EXCEPT ![idx] = Take(k)]
         /\ UNCHANGED objects
         /\ Advance(matches')
    ELSE /\ objects' = [objects EXCEPT ![idx] = Take(k)]
         /\ UNCHANGED matches
         /\ Advance(objects')

(* Mutant: a check goes on where the last poll ended. *)
StartPoll_Resume ==
    /\ pc = "rest"
    /\ pc' = "read"
    /\ steady' = Meets(closure, view)
    /\ seen' = {i \in Docs : MayMeet(closure, i, view)}
    /\ began' = [k \in Keys |-> view[k].rv]
    /\ UNCHANGED <<clusterVars, closure, idx, matches, objects, polls, outcome, cause>>

(* A poll begins.  A check asserts that its bindings can be normalized and *)
(* makes a new slice of matches, get and fetch go on with the objects they *)
(* captured.                                                               *)
StartPoll ==
    /\ pc = "rest"
    /\ IF closure.badBinding
       THEN Abort("bindings") /\ UNCHANGED matches
       ELSE /\ pc' = "read" /\ idx' = 1
            /\ matches' = IF closure.kind = "check" THEN [i \in Docs |-> Empty] ELSE matches
            /\ UNCHANGED <<outcome, cause>>
    /\ steady' = Meets(closure, view)
    /\ seen' = {i \in Docs : MayMeet(closure, i, view)}
    /\ began' = [k \in Keys |-> view[k].rv]
    /\ UNCHANGED <<clusterVars, closure, objects, polls>>

(* Match goes through the candidates in the order of the response and ends *)
(* at the first that matches or cannot be evaluated: any of those may come *)
(* first.                                                                  *)
Decisive(d) == Matched(d, view) \cup Broken(d, view)

(* Mutants: only one candidate is looked at; ... *)
ReadOne_FirstOnly ==
    /\ pc = "read" /\ closure.kind \in {"get", "check"}
    /\ \/ \E k \in Candidates(Doc) :
             IF view[k].val \in Doc.wants THEN Keep(k)
             ELSE Miss("mismatch") /\ UNCHANGED <<matches, objects>>
       \/ /\ Candidates(Doc) = {}
          /\ Miss("notfound") /\ UNCHANGED <<matches, objects>>
    /\ UNCHANGED <<clusterVars, closure, polls, history>>

(* ... where there are no candidates nothing is missed; ... *)
ReadOne_NoCandidates ==
    /\ pc = "read" /\ closure.kind \in {"get", "check"}
    /\ \/ \E k \in Decisive(Doc) :
             IF view[k].val \in Doc.wants THEN Keep(k)
             ELSE Miss("broken") /\ UNCHANGED <<matches, objects>>
       \/ /\ Decisive(Doc) = {} /\ Candidates(Doc) # {}
          /\ Miss("mismatch") /\ UNCHANGED <<matches, objects>>
       \/ /\ Candidates(Doc) = {}
          /\ Advance(matches) /\ UNCHANGED <<matches, objects>>
    /\ UNCHANGED <<clusterVars, closure, polls, history>>

(* ... each match is saved at once. *)
ReadOne_SaveEach ==
    /\ pc = "read" /\ closure.kind \in {"get", "check"}
    /\ \/ \E k \in Decisive(Doc) :
             IF view[k].val \in Doc.wants
             THEN /\ matches' = [matches EXCEPT ![idx] = Take(k)]
                  /\ objects' = [objects EXCEPT ![idx] = Take(k)]
                  /\ Advance(matches')
             ELSE Miss("broken") /\ UNCHANGED <<matches, objects>>
       \/ /\ Decisive(Doc) = {}
          /\ Miss("mismatch") /\ UNCHANGED <<matches, objects>>
    /\ UNCHANGED <<clusterVars, closure, polls, history>>

(* Get and Check, one document: an error ends the poll.  The response is a *)
(* resource that matches, one that cannot be evaluated, or none of either. *)
ReadOne ==
    /\ pc = "read" /\ closure.kind \in {"get", "check"}
    /\ \/ \E k \in Decisive(Doc) :
             IF view[k].val \in Doc.wants THEN Keep(k)
             ELSE Miss("broken") /\ UNCHANGED <<matches, objects>>
       \/ /\ Decisive(Doc) = {}
          /\ Miss(IF Candidates(Doc) = {} THEN "notfound" ELSE "mismatch")
          /\ UNCHANGED <<matches, objects>>
    /\ UNCHANGED <<clusterVars, closure, polls, history>>

(* Fetch, one document: not found is a failed assertion. *)
FetchOne ==
    /\ pc = "read" /\ closure.kind = "fetch"
    /\ \/ \E k \in Candidates(Doc) : Keep(k)
       \/ /\ Candidates(Doc) = {}
          /\ Abort("notfound") /\ UNCHANGED <<matches, objects>>
    /\ UNCHANGED <<clusterVars, closure, polls, history>>

(* Mutant: not found is an error like the others. *)
ListAll_NotFound ==
    /\ pc = "read" /\ closure.kind = "list"
    /\ IF Doc.named /\ Candidates(Doc) = {} THEN Abort("notfound")
       ELSE IF Broken(Doc, view) # {} THEN Abort("broken")
       ELSE IF Cardinality(Matched(Doc, view)) = closure.count THEN Finish("ok", "none")
       ELSE Miss("mismatch")
    /\ UNCHANGED <<clusterVars, closure, matches, objects, polls, history>>

(* List: nothing there is an empty list, a candidate that cannot be        *)
(* evaluated a failed assertion; every other candidate that matches is     *)
(* returned and the test looks at their number.                            *)
ListAll ==
    /\ pc = "read" /\ closure.kind = "list"
    /\ IF Broken(Doc, view) # {} THEN Abort("broken")
       ELSE IF Cardinality(Matched(Doc, view)) = closure.count THEN Finish("ok", "none")
       ELSE Miss("mismatch")
    /\ UNCHANGED <<clusterVars, closure, matches, objects, polls, history>>

(* The client fails for a reason of its own: get and check return it, and  *)
(* are polled again; fetch and list assert.                                *)
Unavailable ==
    /\ Flaky /\ pc = "read"
    /\ IF closure.kind \in {"get", "check"} THEN Miss("fault") ELSE Abort("fault")
    /\ steady' = FALSE
    /\ UNCHANGED <<clusterVars, closure, matches, objects, polls, seen, began>>

(* All documents matched: copy them to the objects, up to one of the wrong *)
(* type.                                                                   *)
Save ==
    /\ pc = "save"
    /\ objects' = [i \in Docs |-> IF closure.badSlot = 0 \/ i < closure.badSlot
                                  THEN matches[i] ELSE objects[i]]
    /\ IF closure.badSlot = 0 THEN Verdict(matches) ELSE Abort("save")
    /\ UNCHANGED <<clusterVars, closure, matches, polls, history>>

(* The test's Eventually polls again, or its time is up. *)
Retry ==
    /\ pc = "retry" /\ polls < MaxPolls
    /\ polls' = polls + 1
    /\ pc' = "rest"
    /\ UNCHANGED <<clusterVars, closure, idx, matches, objects, outcome, cause, history>>

TimeOut ==
    /\ pc = "retry"
    /\ Finish("timeout", cause)
    /\ UNCHANGED <<clusterVars, closure, matches, objects, polls, history>>

(* The cluster moves. *)
World ==
    /\ pc # "done"
    /\ \E k \in Keys : Sync(k) \/ Environment(k)
    /\ steady' = (steady /\ Meets(closure, view'))
    /\ seen' = seen \cup {i \in Docs : MayMeet(closure, i, view')}
    /\ UNCHANGED <<pollVars, began>>

-----------------------------------------------------------------------------
Init ==
    /\ ClusterInit
    /\ closure \in Closures
    /\ pc = "rest" /\ idx = 1
    /\ matches = [i \in Docs |-> Empty] /\ objects = matches
    /\ polls = 0
    /\ outcome = "none" /\ cause = "none"
    /\ steady = FALSE /\ seen = {} /\ began = [k \in Keys |-> 0]

Step ==
    \/ StartPoll \/ ReadOne \/ FetchOne \/ ListAll \/ Unavailable \/ Save
    \/ Retry \/ TimeOut

Next == Step \/ World

Spec == Init /\ [][Next]_vars
-----------------------------------------------------------------------------
(* Types; a poll stays inside its documents. *)
PollingTypeOK ==
    /\ ClusterTypeOK
    /\ closure \in Closures
    /\ pc \in {"rest", "read", "save", "retry", "done"}
    /\ idx \in Docs
    /\ matches \in [Docs -> Taken] /\ objects \in [Docs -> Taken]
    /\ polls \in 0..MaxPolls
    /\ outcome \in {"none", "ok", "failed", "timeout"}
    /\ cause \in {"none", "bindings", "notfound", "mismatch", "broken", "fault", "save"}
    /\ steady \in BOOLEAN /\ seen \subseteq Docs /\ began \in [Keys -> Nat]

(* When the test goes on, every object it gave holds a state the client    *)
(* showed during the last poll and that matches its document: nothing is   *)
(* left of earlier polls (matches and unstructuredObjs, which outlive a    *)
(* poll in the get and fetch closures).                                    *)
SavedWithinPoll ==
    outcome = "ok" /\ closure.save => \A i \in Docs :
        /\ objects[i].key \in closure.docs[i].scope
        /\ objects[i].val \in closure.docs[i].wants
        /\ objects[i].rv >= began[objects[i].key]

(* A closure made from a template touches the caller's objects only in a   *)
(* poll in which it has read every document.                               *)
SavedOnlyIfAllMatched ==
    [][objects' # objects /\ closure.template =>
          /\ \A i \in Docs : matches[i].rv >= began[matches[i].key] /\ matches[i].rv > 0
          /\ closure.kind = "check" => \A i \in Docs :
                matches[i].val \in closure.docs[i].wants]_vars

(* A poll is missed for a reason: at some moment of it what the client     *)
(* showed did not meet the closure, or a request failed.  In particular no *)
(* order of the candidates hides a match (Match, MatchAll).                *)
MissMeansSeen ==
    [][pc' = "retry" /\ pc # "retry" => ~steady']_vars

(* A test goes on only if every document was met at some moment of the     *)
(* last poll, though perhaps each at another.                              *)
OkMeansSeen == outcome = "ok" => seen = Docs

(* A poll ends the test at once only where retrying is not meant.  A check *)
(* does for bindings that cannot be normalized, before its first request   *)
(* (check.go:205), and all functions for an object of the wrong type, once *)
(* every document was read in that poll.  Besides these only a fetch or a  *)
(* list does, for a failed request, a resource that is not there (fetch)   *)
(* or a candidate that cannot be evaluated (list), and never where the     *)
(* view met the closure all through the poll: a test that waits for an     *)
(* empty list is not ended by there being nothing (list.go:151).           *)
AbortHasCause ==
    outcome = "failed" =>
        \/ cause = "bindings" /\ closure.badBinding /\ polls = 0
        \/ /\ cause = "save" /\ closure.badSlot # 0
           /\ \A i \in Docs : matches[i].rv > 0 /\ matches[i].rv >= began[matches[i].key]
        \/ closure.kind = "fetch" /\ cause \in {"notfound", "fault"} /\ ~steady
        \/ closure.kind = "list" /\ cause \in {"broken", "fault"} /\ ~steady
=============================================================================
