------------------------------- MODULE PodSet -------------------------------
(***************************************************************************)
(* The example controller (examples/controller-integration-test): users    *)
(* submit a PodSet, two webhooks default and validate it, and a reconciler *)
(* keeps one pod per replica.  The reconciler reads from the manager's     *)
(* cache, writes to the API server one request at a time and returns at    *)
(* the first error, to be called again.  Users, other clients, the cache   *)
(* and restarts of the manager come in between any two of its requests.    *)
(*                                                                         *)
(* External: the API server, the watch streams and the work queue, which   *)
(* holds the one PodSet at most once and calls one worker at a time.       *)
(***************************************************************************)
EXTENDS Naturals, Integers, Sequences

CONSTANTS
    Names,          \* template names the validating webhook accepts
    NoName,         \* a template without a name
    Images,         \* container images it accepts
    Unset,          \* a spec without replicas
    MaxReplicas,    \* bound on the replicas that are accepted
    Submissions,    \* the specs users submit
    Graceful,       \* TRUE when a deleted pod takes time to disappear
    MaxEvents       \* bound on submissions and deletions of the PodSet, failing
                    \* requests, pods deleted by others and restarts of the
                    \* manager, together

ASSUME PodSetAssumption ==
    /\ NoName \notin Names /\ Images # {}
    /\ MaxReplicas \in Nat \ {0} /\ Unset \notin Int
    /\ \A s \in Submissions :
          /\ s = [replicas |-> s.replicas, name |-> s.name, image |-> s.image]
          /\ s.replicas # Unset => s.replicas \in Int /\ s.replicas <= MaxReplicas
    /\ Graceful \in BOOLEAN
    /\ MaxEvents \in Nat

VARIABLES
    podSet,     \* the PodSet the API server stores
    pods,       \* the pods it stores, all with the PodSet's label
    cachedSet, cachedPods,  \* what the manager's cache shows
    setFeed, podFeed,       \* states on their way to the cache, in order
    queued,     \* the PodSet is in the work queue
    pc,         \* where the worker is
    held,       \* podSet: the PodSet this reconcile works from
    existing,   \* existingPods
    next,       \* i: the replica the loop is at
    events,     \* how many of the events that MaxEvents bounds there were
    lost,       \* history: pods deleted by others, or updated while they were
                \* being deleted, and not made again since
    unnoticed   \* history: those of them whose end no event tells of

server == <<podSet, pods, setFeed, podFeed>>
cache == <<cachedSet, cachedPods>>
worker == <<pc, held, existing, next>>
history == <<lost, unnoticed>>
vars == <<server, cache, worker, events, queued, history>>

Specs == [replicas : 0..MaxReplicas \cup {Unset}, name : Names \cup {NoName}, image : Images]
PodNames == (Names \cup {NoName}) \X (0..MaxReplicas)

(* Status.Pods and the Ready condition's ObservedGeneration, 0 without one. *)
SetState == [present : BOOLEAN, rv : Nat, generation : Nat,
             spec : Specs, defaulted : BOOLEAN,
             observed : Nat, pods : SUBSET PodNames]
PodState == [present : BOOLEAN, image : Images, owned : BOOLEAN, deleting : BOOLEAN]

AnyImage == CHOOSE i \in Images : TRUE
NoSet == [present |-> FALSE, rv |-> 0, generation |-> 0,
          spec |-> [replicas |-> 0, name |-> NoName, image |-> AnyImage],
          defaulted |-> FALSE, observed |-> 0, pods |-> {}]
NoPod == [present |-> FALSE, image |-> AnyImage, owned |-> FALSE, deleting |-> FALSE]

(* One more of them. *)
Event == events < MaxEvents /\ events' = events + 1

-----------------------------------------------------------------------------
(* Every write is announced on the object's stream. *)
WriteSet(s) ==
    /\ podSet' = s
    /\ setFeed' = IF s = podSet THEN setFeed ELSE Append(setFeed, s)
    /\ UNCHANGED <<pods, podFeed>>

WritePod(p, s) ==
    /\ pods' = [pods EXCEPT ![p] = s]
    /\ podFeed' = IF s = pods[p] THEN podFeed
                  ELSE [podFeed EXCEPT ![p] = Append(@, s)]
    /\ UNCHANGED <<podSet, setFeed>>

(* Mutant: the mutating webhook leaves replicas alone. *)
Defaulted_Never(s) == s

(* The mutating webhook. *)
Defaulted(s) == IF s.replicas = Unset THEN [s EXCEPT !.replicas = 1] ELSE s

(* The validating webhook, after it.  A template without a name passes. *)
Valid(s) ==
    /\ s.replicas # Unset => s.replicas >= 0
    /\ s.name \in Names \cup {NoName}
    /\ s.image \in Images

(* A user creates the PodSet or updates its spec; a new spec is a new      *)
(* generation.                                                             *)
Submit ==
    /\ Event
    /\ \E s \in Submissions :
          LET d == Defaulted(s)
              new == [podSet EXCEPT !.present = TRUE, !.rv = @ + 1, !.spec = d,
                                    !.generation = @ + 1, !.defaulted = TRUE]
          IN  /\ Valid(d)
              /\ WriteSet(IF podSet.present /\ podSet.spec = d THEN podSet ELSE new)
    /\ UNCHANGED <<cache, worker, queued, history>>

RemoveSet ==
    /\ podSet.present
    /\ Event
    /\ WriteSet([NoSet EXCEPT !.rv = podSet.rv + 1])
    /\ UNCHANGED <<cache, worker, queued, history>>

(* A deleted pod disappears at once, or is marked and disappears later. *)
DeletedPod(p) ==
    IF Graceful THEN [pods[p] EXCEPT !.deleting = TRUE] ELSE NoPod

PodGone(p) ==
    /\ pods[p].deleting
    /\ WritePod(p, NoPod)
    /\ UNCHANGED <<cache, worker, events, queued, history>>

(* Somebody else deletes a pod.  The reconciler hears of it only if the    *)
(* pod has an owner.                                                       *)
RemovePod(p) ==
    /\ Event
    /\ pods[p].present /\ ~pods[p].deleting
    /\ WritePod(p, DeletedPod(p))
    /\ lost' = lost \cup {p}
    /\ unnoticed' = IF pods[p].owned THEN unnoticed ELSE unnoticed \cup {p}
    /\ UNCHANGED <<cache, worker, queued>>

-----------------------------------------------------------------------------
(* Mutant: pods are not watched. *)
Concerns_SetOnly(old, new) == FALSE

(* Owns(&Pod{}): an event of a pod concerns the owner before and after it. *)
Concerns(old, new) == old.owned \/ new.owned

SetEvent ==
    /\ setFeed # <<>>
    /\ cachedSet' = Head(setFeed)
    /\ setFeed' = Tail(setFeed)
    /\ queued' = TRUE
    /\ UNCHANGED <<podSet, pods, podFeed, cachedPods, worker, events, history>>

PodEvent(p) ==
    /\ podFeed[p] # <<>>
    /\ cachedPods' = [cachedPods EXCEPT ![p] = Head(podFeed[p])]
    /\ podFeed' = [podFeed EXCEPT ![p] = Tail(@)]
    /\ queued' = (queued \/ Concerns(cachedPods[p], Head(podFeed[p])))
    /\ UNCHANGED <<podSet, pods, setFeed, cachedSet, worker, events, history>>

(* The manager restarts: a new cache lists everything, and every object    *)
(* listed is an event.                                                     *)
Restart ==
    /\ Event
    /\ cachedSet' = podSet /\ cachedPods' = pods
    /\ setFeed' = <<>> /\ podFeed' = [p \in PodNames |-> <<>>]
    /\ pc' = "idle" /\ held' = NoSet /\ existing' = {} /\ next' = 0
    /\ queued' = (podSet.present \/ \E p \in PodNames : Concerns(NoPod, pods[p]))
    /\ UNCHANGED <<podSet, pods, history>>

-----------------------------------------------------------------------------
Leave == pc' = "idle" /\ held' = NoSet /\ existing' = {} /\ next' = 0

(* Mutant: errors are logged and not returned. *)
Fail_Swallowed == Leave /\ UNCHANGED queued

(* An error is returned: the queue takes the PodSet back. *)
Fail == Leave /\ queued' = TRUE

Goto(step, pods_left, i) ==
    /\ pc' = step /\ existing' = pods_left /\ next' = i
    /\ UNCHANGED <<held, queued>>

(* A write was stored: the reconciler goes on, or its answer is lost. *)
Stored(continue) ==
    \/ continue /\ UNCHANGED events
    \/ Event /\ Fail

(* Reconcile: get the PodSet; one that is not found needs nothing. *)
Reconcile ==
    /\ pc = "idle" /\ queued
    /\ queued' = FALSE
    /\ IF cachedSet.present
       THEN pc' = "list" /\ held' = cachedSet /\ UNCHANGED <<existing, next>>
       ELSE UNCHANGED worker
    /\ UNCHANGED <<server, cache, events, history>>

(* List the pods with the PodSet's label that are not being deleted. *)
ListPods ==
    /\ pc = "list"
    /\ Goto("apply", {p \in PodNames : cachedPods[p].present /\ ~cachedPods[p].deleting}, 0)
    /\ UNCHANGED <<server, cache, events, history>>

(* Mutant: the loop makes one pod too many. *)
MoreReplicas_OffByOne == next <= held.spec.replicas

MoreReplicas == next < held.spec.replicas
PodName == <<held.spec.name, next>>

(* A desired pod that was listed is replaced by the one                    *)
(* constructPodForPodSet builds, which has no owner and no version; one on *)
(* its way out stays so, and the reconciler takes it for one that runs.    *)
UpdatePod ==
    /\ pc = "apply" /\ MoreReplicas /\ PodName \in existing
    /\ IF pods[PodName].present
       THEN /\ WritePod(PodName, [pods[PodName] EXCEPT !.image = held.spec.image,
                                                       !.owned = FALSE])
            /\ lost' = IF pods[PodName].deleting THEN lost \cup {PodName} ELSE lost
            /\ unnoticed' = IF pods[PodName].deleting /\ ~pods[PodName].owned
                            THEN unnoticed \cup {PodName} ELSE unnoticed
            /\ Stored(Goto("apply", existing \ {PodName}, next + 1))
       ELSE Fail /\ UNCHANGED <<server, events, history>>
    /\ UNCHANGED cache

(* A desired pod that was not listed is created, with the PodSet as owner. *)
(* The API server refuses a name it has, and a pod without a name.         *)
CreatePod ==
    /\ pc = "apply" /\ MoreReplicas /\ PodName \notin existing
    /\ IF ~pods[PodName].present /\ held.spec.name # NoName
       THEN /\ WritePod(PodName, [present |-> TRUE, image |-> held.spec.image,
                                  owned |-> TRUE, deleting |-> FALSE])
            /\ lost' = lost \ {PodName} /\ unnoticed' = unnoticed \ {PodName}
            /\ Stored(Goto("apply", existing, next + 1))
       ELSE Fail /\ UNCHANGED <<server, events, history>>
    /\ UNCHANGED cache

(* The remaining pods are deleted, in any order: existingPods is a map. *)
DeletePod(p) ==
    /\ pc = "apply" /\ ~MoreReplicas /\ p \in existing
    /\ IF pods[p].present
       THEN /\ WritePod(p, DeletedPod(p))
            /\ Stored(Goto("apply", existing \ {p}, next))
       ELSE Fail /\ UNCHANGED <<server, events>>
    /\ UNCHANGED <<cache, history>>

Desired(spec) == {<<spec.name, i>> : i \in 0..(spec.replicas - 1)}

(* Mutant: the status goes to the PodSet as it is now. *)
WriteStatus_Unchecked ==
    /\ pc = "apply" /\ ~MoreReplicas /\ existing = {}
    /\ IF podSet.present
       THEN /\ WriteSet([podSet EXCEPT !.rv = @ + 1, !.pods = Desired(held.spec),
                                       !.observed = podSet.generation])
            /\ Stored(Leave /\ UNCHANGED queued)
       ELSE Fail /\ UNCHANGED <<server, events>>
    /\ UNCHANGED <<cache, history>>

(* Status().Update, refused when the PodSet has changed since it was read. *)
(* Writing the status it has already changes nothing.                      *)
WriteStatus ==
    /\ pc = "apply" /\ ~MoreReplicas /\ existing = {}
    /\ IF podSet.present /\ podSet.rv = held.rv
       THEN LET names == Desired(held.spec)
            IN  /\ IF podSet.observed = held.generation /\ podSet.pods = names
                   THEN WriteSet(podSet)
                   ELSE WriteSet([podSet EXCEPT !.rv = @ + 1, !.pods = names,
                                                !.observed = held.generation])
                /\ Stored(Leave /\ UNCHANGED queued)
       ELSE Fail /\ UNCHANGED <<server, events>>
    /\ UNCHANGED <<cache, history>>

(* A request fails and nothing is stored. *)
RequestFails ==
    /\ pc # "idle"
    /\ Event
    /\ Fail
    /\ UNCHANGED <<server, cache, history>>

-----------------------------------------------------------------------------
Init ==
    /\ podSet = NoSet /\ cachedSet = NoSet
    /\ pods = [p \in PodNames |-> NoPod] /\ cachedPods = pods
    /\ setFeed = <<>> /\ podFeed = [p \in PodNames |-> <<>>]
    /\ queued = FALSE
    /\ pc = "idle" /\ held = NoSet /\ existing = {} /\ next = 0
    /\ events = 0
    /\ lost = {} /\ unnoticed = {}

Work ==
    \/ Reconcile \/ ListPods \/ UpdatePod \/ CreatePod
    \/ \E p \in PodNames : DeletePod(p)
    \/ WriteStatus

Next ==
    \/ Submit \/ RemoveSet \/ Restart
    \/ Work \/ RequestFails
    \/ SetEvent
    \/ \E p \in PodNames : PodEvent(p) \/ PodGone(p) \/ RemovePod(p)

Spec == Init /\ [][Next]_vars

(* The worker keeps running, events arrive, deleted pods go; nobody has to *)
(* submit, delete, fail or restart anything.                               *)
FairSpec ==
    /\ Spec
    /\ WF_vars(Work)
    /\ WF_vars(SetEvent)
    /\ \A p \in PodNames : WF_vars(PodEvent(p)) /\ WF_vars(PodGone(p))
-----------------------------------------------------------------------------
(* Types, and that the loop over the replicas stops (podset_controller.go, *)
(* lines 79 to 105).                                                       *)
PodSetTypeOK ==
    /\ podSet \in SetState /\ cachedSet \in SetState
    /\ pods \in [PodNames -> PodState] /\ cachedPods \in [PodNames -> PodState]
    /\ setFeed \in Seq(SetState) /\ podFeed \in [PodNames -> Seq(PodState)]
    /\ queued \in BOOLEAN
    /\ lost \subseteq PodNames /\ unnoticed \subseteq lost
    /\ pc \in {"idle", "list", "apply"}
    /\ held \in SetState
    /\ existing \subseteq PodNames
    /\ next \in 0..MaxReplicas

(* The reconciler dereferences Spec.Replicas and counts to it: every       *)
(* PodSet it works from has replicas, and not a negative number of them,   *)
(* although users may submit neither (both webhooks).                      *)
SpecsAreUsable ==
    pc # "idle" => held.spec.replicas \in Nat

Alive(s) == s.present /\ ~s.deleting

(* A pod runs with the image, or it does not run and is one of those that  *)
(* are excused.                                                            *)
Runs(p, image, excused) ==
    IF Alive(pods[p]) THEN pods[p].image = image ELSE p \in excused

(* What a reconcile is for: the pods of the spec and no other, and a       *)
(* status that says so.                                                    *)
PodsAsDesired ==
    /\ \A p \in Desired(podSet.spec) : Runs(p, podSet.spec.image, unnoticed)
    /\ \A p \in PodNames \ Desired(podSet.spec) : ~Alive(pods[p])
Settled ==
    /\ PodsAsDesired
    /\ podSet.observed = podSet.generation
    /\ podSet.pods = Desired(podSet.spec)

(* When the Ready condition observed the current generation (comment at    *)
(* podset_controller.go:107), Status.Pods names the pods of the current    *)
(* spec, and those of them that run have its image, however old the cache  *)
(* the reconcile worked from.  One that does not run was deleted by        *)
(* somebody else, or an old cache showed it to a reconcile that updated it *)
(* on its way out and took it for one that runs; it was not made since.    *)
ReadyMeansReconciled ==
    podSet.present /\ podSet.observed = podSet.generation =>
        /\ podSet.pods = Desired(podSet.spec)
        /\ \A p \in podSet.pods : Runs(p, podSet.spec.image, lost)

(* When the queue is empty and the cache is up to date, nothing is left to *)
(* do: every failed reconcile and every change of an owned pod was         *)
(* followed by another reconcile.  What remains undone is a pod without an *)
(* owner that went away: somebody else deleted it, or a reconcile updated  *)
(* it when it was already on its way out.                                  *)
QuiescentMeansSettled ==
    /\ pc = "idle" /\ ~queued
    /\ setFeed = <<>> /\ \A p \in PodNames : podFeed[p] = <<>>
    /\ podSet.present
    => Settled

(* Once users and failures stop, the pods become those of the spec and     *)
(* stay so, except for pods without an owner that went away, and unless    *)
(* the template has no name: then every reconcile fails.                   *)
Converges ==
    <>[](podSet.present /\ podSet.spec.name # NoName => Settled)

(* The pods the reconciler made are owned by the PodSet ("List pods owned  *)
(* by this PodSet resource", podset_controller.go:57, which lists them by  *)
(* label).                                                                 *)
PodsStayOwned == \A p \in PodNames : pods[p].present => pods[p].owned
=============================================================================
