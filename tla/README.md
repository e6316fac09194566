# Verification of Sawchain

Sawchain is a Go library for tests that drive a Kubernetes cluster with YAML. A
test calls `Create`, `Update`, `Delete`, `Get`, `Fetch...`, `Check`, `List` or a
matcher; Sawchain renders a template to a list of documents, talks to the API
server through a controller-runtime client, which may read from a cache, and for
the `AndWait` functions polls the client until the change is visible.

This directory holds TLA+ models of that code, TLC configurations that check
them, and TLAPS proofs. `PROJECT.json` lists, for every modelled definition, the
source lines it stands for, and for every checked property a mutant of the code
that breaks it.

## The system

| component | state | operations | interacts with | hard about it |
| - | - | - | - | - |
| resource operations (`create.go`, `update.go`, `delete.go`, `get.go`, `fetch.go`, `sawchain.go`) | per call: the unstructured objects, the caller's objects, captured resource versions, the running `Eventually` | `Create`, `Update`, `Delete` and `...AndWait`, `Get`, `FetchSingle`, `FetchMultiple` | API server, client cache, other writers | a call is many requests; cache lag; failures half way; timeouts; objects overwritten by polls |
| resource versions (`sawchain.go`) | none | `checkResourceVersion`, `checkNotFound` | the polls | decimal texts compared as strings |
| API server and cache (external) | stored objects, revision counter; the cache's older picture | create, update, delete, get; watch events | everybody | the cache moves whenever it likes |
| polled functions (`GetFunc`, `FetchSingleFunc`, `FetchMultipleFunc`, `CheckFunc`, `ListFunc`), check and list (`check.go`, `list.go`, `internal/chainsaw`) | captured objects and documents, reused by every poll | list candidates, first match, all matches, save | the test's own `Eventually`, the cluster | state kept between polls; documents read at different moments; which failure is retried |
| matchers (`matchers.go`, `internal/matchers`, `internal/chainsaw/errors.go`) | attempts of the last mismatch | `Match`, `FailureMessage`, `NegatedFailureMessage` | Gomega | reuse and polling; order of documents |
| options (`internal/options`) | none | parse, defaults, required options | every call | zero values as "not given"; checks before defaults |
| rendering and bindings (`render.go`, `internal/chainsaw`) | the caller's objects | sanitize, render, save, print | Chainsaw | everything before the first object; evaluation is Chainsaw's |
| utilities (`internal/util`) | none | conversions, merge patch, YAML | every call | aliasing, number widths, block indentation |
| example controller (`examples/controller-integration-test`) | PodSet and pods in the cluster, the manager's cache and queue | reconcile, two webhooks | API server, users, the tests | a reconcile interrupted at any request, working from a cache |
| test utilities, other examples | none | builders, charts | - | not part of the system's logic |

What makes each correct, in one line: a waiting call returns only when readers
of the client see its writes; every call returns; the way a call ended tells what it
changed; an update loses nobody's change; saved objects are as new as what was
written; a test that owns its resources never works from a stale read; a
matcher's verdict and details belong to the object it was last given; a polled
function goes on only when every document was met, and saves nothing else;
indentation does not change a template; a PodSet's Ready condition is true, and a
controller that is left alone gets there.

## Modules

| module | models |
| - | - |
| `ResourceVersions` | The comparison in `checkResourceVersion`. A version is the number its text spells; `RvLess` is Go's `<` on the texts, `Digits` and `TextLess` are those texts and that order digit by digit. |
| `VersionOrder` | The two versions `checkResourceVersion` has in hand, and that `RvLess` compares their texts. |
| `Cluster` | The API server and the client's cache (external), and `Environment`: controllers and other tests. Variables and operators only. |
| `Sawchain` | Extends both: the calls of one or more goroutines, request by request. The properties are stated here. |
| `SawchainInductive` | The inductive invariant `IInv`. |
| `OwnedStore` | Abstract: what Sawchain promises to tests that own their resources. A store without caches, versions or polls. |
| `SawchainOwned` | The refinement mapping from `Sawchain` to `OwnedStore`. |
| `Polling` | Extends `Cluster`: the functions a test polls, and `Check` and `List`, under its `Eventually`. |
| `Matcher` | The Gomega matcher over polls and assertions, with Gomega's side of the protocol. |
| `Options` | What arguments `New` and every operation accept, and the options they make of them. |
| `Templates` | From the text of a template to objects or text. |
| `MergePatch` | How an update merges its template into the resource. |
| `PodSet` | The example controller, its webhooks, and the manager, users and other clients around it. |
| `MCSawchain`, `MCPolling`, `MCOptions`, `MCTemplates`, `MCFunctions`, `MCPodSet` | Instances for TLC. `Matcher` needs none. `MCFunctions` puts the two modules of pure functions into one run. |
| `ClusterProofs` | What the proofs about `Sawchain` and `Polling` share: the server's writes and the cache behind it. |
| `SawchainProofs`, `ExclusiveUseProofs`, `PollingProofs`, `MatcherProofs`, `PodSetProofs`, `OptionsProofs`, `TemplatesProofs` | The theorems and their proofs. |

### State and actions of `Sawchain`

`server[k]` is what the API server stores for resource `k`, `view[k]` what
`client.Get` answers, `pending[k]` the committed states the cache has yet to pass
through; an uncached client has `view = server`. A state carries the revision of
its last write (`rv`), the revision at which the resource last appeared or
disappeared (`since`), the field tests write (`val`) and a count of the writes
others made to the rest (`other`). Absent resources keep the revision of their
deletion, so that "the view is at least as new as my write" (`Reflected`) can be
said of creations, updates and deletions alike.

Each goroutine has a `pc` and the locals of its call: `held[c]["template"]` is
`unstructuredObjs`, `held[c]["caller"]` the caller's Go objects, `floor` is
`updatedResourceVersions`, `idx` the loop variable. `written` and `synced` are
history variables that only properties read.

| action | code |
| - | - |
| `Call` | options, rendering and validation, which touch nothing shared |
| `ReadOriginal` | `Update` with a template: get the original, merge the patch |
| `Write`, `Refuse`, `Lose` | one `client.Create/Update/Delete`: stored, refused, or stored with the answer lost |
| `StartWait` | capture of the versions after the last write |
| `PollPass`, `PollMiss` | one `get`, `checkResourceVersion` or `checkNotFound` inside the polled function |
| `Retry`, `TimeOut` | Gomega's `Eventually` |
| `GetOne` | one `client.Get` of `Get` and the `Fetch` functions |
| `Unavailable` | a `client.Get` that fails for a reason of its own |
| `Save` | the loop over `CopyUnstructuredToObject` |
| `Sync`, `OtherCreate`, `OtherUpdate`, `OtherDelete`, `FinalizerDone` | the cache and everybody else |

Premises, all of them the code's own or its documentation's: the fail handler
stops the goroutine (`testing.T`, Ginkgo), so a failed `Expect` ends the call and
a goroutine that failed makes no further one; the documents of one call are
distinct resources; the reads of a client go through one cache; events of one
resource reach the cache in order, and a relist may skip some.

### `Matcher`

`matchErr` is the attempt list the Go matcher keeps; an attempt remembers which
actual it is about. `Match` is the whole handler: error returns before the reset
leave `matchErr` alone, the reset, the loop over documents that ends at the first
match or evaluation error, and the attempts otherwise. `Assert`, `CallMatch`,
`PollAgain`, `Pass` and `Report` are Gomega: `Expect`, `Eventually` and
`Consistently`, with `To` and `NotTo`, one matcher serving several assertions.
How many field errors a comparison finds is chosen freely.

### `Options`

An argument is its Go type and what the parser looks at in it; `Take` is one round
of the loop in `parse`, `Parse` the loop, `OptionsFor` adds the defaults and the
`Require` functions. `Include` and `Require` are the tables of flags and
requirements, one row for the operations that share them. `Operate` is a call:
its options are new, the Sawchain's (`global`) stay, and a rejected argument ends
the test.

### `OwnedStore` and `SawchainOwned`

The store maps a resource to a value or `Absent`. A call changes its resources one
by one and as its verb says, may give up at any time, answers *not found* or
*exists* only when that is so, returns without error only when all is written, and
then fills the objects with what is stored at that moment. The mapping forgets
versions, the cache, polls and kinds of failure: `left` is the documents without a
recorded write, a call is `busy` until it is back at `idle`, and errors of polls and
requests are "gave up". A conflict has no counterpart. The property
`ImplementsOwnedStore` of run `exclusive` thus says that a test that follows
`docs/parallel-tests.md` and waits for its writes sees a plain store: its reads
return what is stored, although they go through a cache.

### `Polling`

`closure` is what the function captured: its documents, whether it was made from
a template or from objects, and the objects it saves to. A document asks for one
resource by name or for those a namespace and labels select (`scope`), for field
values that match (`wants`), and for values its expressions cannot be evaluated on
(`breaks`). A check renders its documents in the poll and returns the error of one
that cannot be rendered, as it does when there is no candidate: such a document has
an empty `scope`.

| action | code |
| - | - |
| `StartPoll` | the closure is called: a check asserts that its bindings can be normalized (`badBinding`) and makes new `matches`, get and fetch go on with the objects they captured |
| `ReadOne` | one document of `GetFunc` or `CheckFunc`: `ListCandidates` and `Match`, in any order of the candidates |
| `FetchOne`, `ListAll` | one Get of the fetch closures, the List and `MatchAll` of `ListFunc`, with their assertions |
| `Unavailable` | a request that fails: returned by get and check, asserted by fetch and list |
| `Save` | the copies to the caller's objects after the last document |
| `Retry`, `TimeOut`, `Verdict` | the test's `Eventually` and its matcher |
| `World` | the cache and other writers, between any two requests |

`steady`, `seen` and `began` are history: what the client showed during the poll.

### `Templates` and `MergePatch`

A line is its leading white space and one of five texts: nothing, a comment, `---`,
a field, or a field that refers to a binding. What YAML makes of lines is external:
separators stand at the beginning of a line, siblings line up, tabs cannot indent,
`---` elsewhere is a value. `ProcessTemplate` is the sanitizing, `Render` everything
between it and the first object, `Save` and `RenderToString` what follows.

`DeindentYAML` drops blank lines also inside block scalars, which the model leaves
out, although `docs/usage-notes.md` (line 150) speaks only of leading white space
and empty documents.

`MergePatch` works on trees of integers, null and maps: `Json[d]` are those with at
most `d` maps inside one another, over the field names `Names` and the integers
`Numbers`, and `Values` those of depth `Depth`. `Exact` stands for 2^53; rounding is
described up to twice that. `Merges` is the library's merge, `Unmarshals` the reading
of its result, both by the depth of the values, so that they can be proved about.
The documentation (update.go:53) says that fields the template does not mention are
preserved; `MergesByPath` follows the template, the resource and the result along a
path and shows that they are, but for the last digits of integers above `Exact`.

### `PodSet`

`podSet` and `pods` are what the API server stores, `setFeed` and `podFeed` the
events on their way to `cachedSet` and `cachedPods`, `queued` the work queue. `pc`,
`held`, `existing` and `next` are the reconciler's control, its `podSet`,
`existingPods` and loop variable.

| action | code |
| - | - |
| `Submit` | a user's create or update through `Defaulted` and `Valid`, the two webhooks |
| `Reconcile`, `ListPods` | the Get and the List, both from the cache |
| `UpdatePod`, `CreatePod` | one round of the loop over the replicas |
| `DeletePod` | one round of the loop over what is left, in any order |
| `WriteStatus` | the status with the Ready condition, refused when the PodSet has changed |
| `Fail`, `RequestFails`, `Stored` | the first error is returned and the queue takes the PodSet back; a failing request may have been stored |
| `SetEvent`, `PodEvent`, `Restart` | the manager: events of the PodSet and of pods it owns (`Concerns`), a new cache after a restart |
| `RemoveSet`, `RemovePod`, `PodGone` | users, other clients, the end of a graceful deletion |

Two histories, of single pods, say what the properties excuse. A pod is `lost` from
the moment somebody else deletes it, or a reconcile with an old cache updates it when
it is already on its way out and takes it for one that runs, until a reconcile creates
it again. It is `unnoticed` if no event tells the controller of its end: it had no owner
when it was deleted by somebody else or updated on its way out (see `orphaned_pods`).

So the Ready condition does not mean that every pod runs. A PodSet scaled from one
replica to none and back is a case that needs nobody else: the first reconcile deletes
the pod, the second has a cache that still shows it, updates it while it disappears and
reports Ready, and if the reconciler had updated the pod before no event follows that
would make it anew. `ReadyMeansReconciled` claims that the status names the pods of the
current spec and that those of them that run have its image; a pod that does not run
is in `lost`. `QuiescentMeansSettled` and `Converges` excuse only pods in
`unnoticed`: without that excuse TLC finds the orphan and the scaling above as
counterexamples. All other pods of the same PodSet are still held to the spec.

The API server of the model accepts every update of a pod that exists, as long as
nothing schedules or defaults pods, which is how the example's tests run it.

## Runs

| run | expects | shows |
| - | - | - |
| `waits` | pass | `UpdateReflected`, `CreateReflectedIfSynced`, `DeleteReflectedIfSynced`: what the `AndWait` functions promise. `SavedIsFresh`, `SaveIsLast`: the caller's objects. `NoLostUpdate`, `InsufficientMeansStale`. `IInv`: the invariant the proofs use. |
| `calls` | pass | `WrittenIsPrefix`: which documents a call has changed, by the way it ended, an error that is a lost answer included. `CallReturns`: termination. `TypeOK`. |
| `exclusive` | pass | `NoSelfConflict`, `ImplementsOwnedStore`: the discipline of `docs/parallel-tests.md` is enough, and what it buys. |
| `functions` | pass | `ComparesTexts`: `RvLess` agrees with a comparison digit by digit. `MergesByPath`: what a merge patch does at each path. `MergesOnce`: making the same update again asks for nothing new. |
| `render` | pass | `IndentIrrelevant`, `FieldsKept`: sanitizing. `ObjectsComeWhole`: nothing is touched before everything renders. `OutputReadsBack`: rendered text is a manifest of the same documents. |
| `polling` | pass | `SavedWithinPoll`, `SavedOnlyIfAllMatched`: what the objects hold. `MissMeansSeen`, `OkMeansSeen`: a verdict was true of some moment of the poll. `AbortHasCause`: which failures end the test at once. |
| `podset` | pass | `ReadyMeansReconciled`: what the status says of the current spec; lost pods are excepted, those that an old cache made the reconciler take for running among them. `QuiescentMeansSettled`, `Converges`: no failed reconcile and no change of an owned pod is forgotten; pods without an owner that went away are excepted, and for `Converges` templates without a name. `SpecsAreUsable`: what the webhooks are for. |
| `matcher` | pass | `MatchesAnyDocument`, `DetailsAreCurrent`, `BestIsClosest`. |
| `options` | pass | `AcceptedAsDocumented`: which calls are accepted. `OrderIrrelevant`: arguments come in any order. `BindingsAreOwn`: which bindings a call gets. |
| `stale_update` | violation | the string comparison of versions |
| `create_unsaved` | violation | `Create` sends a copy of the object it saves |
| `orphaned_pods` | violation | the reconciler's update drops the owner of a pod |

The three violations are disagreements between the code and its documentation or
intent; `PROJECT.json` quotes both sides.

* `stale_update` needs a cluster whose revision counter gains a digit during a
  test; there `InsufficientMeansStale` fails as well, for versions newer than the
  update that have one digit more.
* `create_unsaved` depends on the client. With `DecodeInPlace = TRUE`, a client that
  fills the map of the object it is given, which the copy shares, as a fake client
  that only sets metadata may, the saved object is complete. With `FALSE`, a client
  that decodes the response into a new map, it has no version.
* `orphaned_pods` follows one PodSet through two reconciles.

Other disagreements met on the way, which the passing runs state around:

* `CreateAndWait` and `DeleteAndWait` look at presence alone. With a cache that still
  shows an earlier resource of that name, or has not seen it yet, they return too
  early; the documentation (create.go:198, delete.go:131) says they sync the cache.
  `CreateReflectedIfSynced` and `DeleteReflectedIfSynced` state what the two loops do
  guarantee: with `synced[c][k]` the cache knew, at the time of the write, the last
  disappearance (or appearance) of the resource.
* A nil slice of objects leaves no trace in the options: an object after it is
  accepted, before it refused (internal/options/options.go:157), although arguments
  come in any order. `OrderIrrelevant` and `AcceptedAsDocumented` except lists with
  such a slice, and only those (`Proper`).
* A failed `NotTo` never has match details: `Match` clears them when it succeeds, so
  that the branch internal/matchers/matchers.go:113 calls unexpected is the only one
  taken.

### Bounds

* `waits`: one caller, two resources, two calls, two polls per call, two writes
  by others. Two documents are what the multi-document loops need (a first and a
  last); two calls let a call find the cache still behind an earlier one; two
  writes by others are a deletion and a recreation under the poll. A finalizer
  on one of the two. Versions start at 10, so that all have two digits and the
  comparison is the numeric one; `stale_update` starts at 9. One update has an
  object of the wrong type, so that a save fails after the wait.
* `calls`: two callers, one call each, all three faults, one creation or deletion by
  others, an uncached client, and a finalizer that nobody removes on one of the two
  resources. Create, delete and get with a template, fetch with objects, update with
  either; a create and a get whose save fails at the second object; waiting
  updates and deletions beside them.
* `exclusive`: two callers with one resource each and two calls each, a cached
  client, transient read errors; creations and deletions that do not save, updates and
  reads that do.
* `functions`: versions 0..25, 88..112 and 985..1012 in all pairs, those around the
  first three changes of width; patches with up to two fields, two deep, onto such
  maps, with null at either depth and integers on both sides of `Exact = 8`. Two
  levels have a map inside a map that is kept, merged, replaced and made.
* `render`: every template of up to three lines with no, one space or one tab of
  white space, and longer ones with two and three documents, each indented with
  nothing, spaces and a tab, in nine calls. Three lines are a separator between two
  fields, or a comment in front of them.
* `polling`: twelve closures of every kind, among them a test that waits for an empty
  list, a document that cannot be rendered and bindings that cannot be normalized, over two resources, three creations or
  deletions by others, three polls, requests that fail. Two documents are a first
  and a last one; two resources are candidates that differ; three changes let a
  resource come, go and come back, or let two documents be met at different moments.
* `podset`: up to two replicas, graceful deletion, and three events: submissions of
  one of six specs, deletions of the PodSet, failing requests or lost answers, pods
  deleted by others and restarts, in any mixture (`MaxEvents`). Three are a creation
  and two changes, such as scaling down and up again, or a creation, a change and a
  failure. `orphaned_pods` needs two.
* `matcher`: three documents, up to two field errors each, three calls of
  `Match`; three documents are needed for a best match that is neither the first
  nor the last, three calls for a mismatch, a match and another assertion.

* `options`: thirteen arguments, of every type one that is accepted and those the
  parser has a check for, a nil slice among them, in all sequences of up to four over
  `New` and the operations after it. Four are needed for a third duration beside a
  template.

The counters `calls`, `polls`, `envs`, `matches` and `events` are bounded by their guards.
A run may stop at these bounds, so deadlock is not checked where they apply.

### Fairness

`CallReturns` assumes `WF_vars(Step(c))`: a goroutine inside a call keeps running
and each of its requests is answered, possibly with an error. It assumes nothing
of the cache, of other writers or of further calls. `Retry` is bounded by
`MaxPolls` because `Eventually` polls at a fixed interval until a timeout, both of
which every waiting call requires (`RequireDurations`); `TimeOut` may come at any
missed poll.

`Converges` assumes of `PodSet` that the worker keeps running (`WF_vars(Work)`: the
queue hands the PodSet to a worker as long as it holds it), that events arrive and
that deleted pods disappear. Failures need no fairness, they are bounded.

## Proofs

`SawchainProofs` begins with the comparison of versions:

* `VersionsCompareAsTexts`: `RvLess` is the order of the decimal texts, for all
  versions of up to ten digits (`Measured`). The induction (`RvLessIsTextLess`) takes
  off a last digit at a time, from both versions while they are equally long and
  from the longer one otherwise.
* `SameWidthAgrees`, `OnlySameWidthAgrees`: between two versions the string
  comparison is the numeric one if they have the same number of digits and, unless
  the first is the empty text, only then. The condition of the promises about
  updates below, that texts order the versions in use, thus says that the counter
  has not gained a digit.

It goes on to prove, for any number of callers, resources, documents, calls, polls,
writes by others and faults:

* `TypeCorrect`: `Spec => []TypeOK`;
* `Invariance`: `Spec => []IInv`;
* `UpdatesReflectedInOrder`, `UpdatesReflected`: `UpdateReflected` holds as long as
  the versions in use are ordered by their texts, in particular while the
  revision counter has the width it had when the tests started;
* `CreatesReflected`, `DeletesReflected`: the two conditional promises always hold.

From the same invariant it proves

* `WritesArePrefix`: `Spec => []WrittenIsPrefix`. An error in the loop means that the
  documents before the failing one are changed and none after it, and the failing one
  only where the client failed, since its answer may be lost (`Lose` records what was
  stored); a call that got through the loop changed all. `PrefixInv` says of every
  point of a call which documents it has changed.
* `InsufficientIsStale`, `SavesComeLast`: `InsufficientMeansStale` and `SaveIsLast`
  while the revision counter keeps its width.
* `SavedObjectsFresh`: `SavedIsFresh` while the width is kept and the client decodes
  in place; without the second premise it is false (`create_unsaved`). `FreshInv`
  follows the unstructured objects through the polls that overwrite them.

* `UpdatesLoseNothing`: `Spec => NoLostUpdate`, a step property, with no premise on
  widths or on the client. Its invariant `CopyInv` says that an object in hand that
  carries a version, and every state the cache may show, agrees with what the server
  stores if the version is the same: so an update the server accepts was merged into
  what is stored.

`ExclusiveUseProofs` is about goroutines that own their resources and wait for their
writes, with nobody else writing and no answer of the server lost (`ExclusiveUse`),
while the revision counter keeps its width:

* `NeverSelfConflicting`: `NoSelfConflict` holds. Its invariant `OwnInv` says that
  every resource a caller owns is in step, the cache showing the server's version, or
  awaited by the call that runs (`Awaited`), unless the test has failed; that an
  update sends the version the server has; and that no call ended in a conflict. The
  passed polls of `IInv` turn "awaited" into "in step" before the call returns.
* `OwnersSeeAStore`: `Spec` implements `OwnedStore` (`ImplementsOwnedStore`), where
  nothing waits for a finalizer either. With one, a deletion is stored before the
  resource is gone, and `OwnedStore` has no such state. `OwnedInv` adds that a version
  stands for one state (`Exact`), so that an answer of the cache is what is stored, and
  what the objects hold at each step (`ObjectsInv`). The initial states map to initial
  states (`InitMaps`) and every step to a step or a stutter (`StepsMap`): `Call` to
  `Start`, `Write` to `Change`, the returns to `Succeed`, `NotFound`, `Exists` or
  `GiveUp`; reads, waits, polls and the cache change nothing.

`MatcherProofs` proves for any number of documents, assertions and polls:
`MatcherTypeCorrect`, `VerdictsCorrect`, `DetailsCurrent` and `BestClosest`, the last
with the least-element principle of the natural numbers. The invariant `MInv` ties
the list of attempts to the actual of the last `Match` that reached the comparison.

`PollingProofs` proves the six properties of run `polling`, for any closures, any
number of documents and polls, a cache or none, and any requests that fail:
`PollingTypeCorrect`, `GoesOnSeen`, `SavedCurrent`, `AbortsJustified`,
`MissesJustified` and `SavedTogether`. `AbortsJustified` names every assertion a poll
makes, bindings before the first request included, and shows that besides bindings and
saving a test ends at once only where the closure was not met all through the poll.
None is inductive: the outcome is decided
at the last document, about all of them. `PollInv` carries what makes the reads
behind it good (`GoodRead`: of this poll, in scope, met when it was read) and what
the history knows of the client's view (`Watching`), and rests on `CacheBehind`: the
client never shows an older state than it has shown.

`PodSetProofs` proves, for any number of replicas, submissions, failures and
restarts:

* `PodSetTypeCorrect`: `Spec => []PodSetTypeOK`, among the rest that the loop stays
  inside the replicas;
* `SpecsUsable`: `Spec => []SpecsAreUsable`. The invariant `PInv` says that every
  PodSet the server stores, announces, the cache shows or the reconciler holds is
  one the webhooks let through: the property speaks of the last of these, the
  webhooks act on the first, and the events between are the reason that neither is
  enough. It uses `PodSetAssumption`.
* `ReadyIsTrue`: `Spec => []ReadyMeansReconciled`. `RInv` adds four facts. Specs reach
  the reconciler in the order they were stored, and the last is the stored one
  (`OrderInv`, `HeldInv`), so a status that is not refused is about the stored spec.
  When it is stored, no older spec is on its way any more (`StatusInv`), so no later
  reconcile undoes the pods. And the pods a reconcile has passed are as its spec says,
  or `lost`, and not among those it will delete (`PassedInv`).
* `QuiescentSettled`: `Spec => []QuiescentMeansSettled`. The property looks at a moment
  at which nothing is under way, the invariant `QInv` at all before it. `ProgressInv`
  says of every state that either a reconcile is still to come (`Coming`: the PodSet is
  queued, or an event of it or of a pod that it owns is under way), or the running one
  works from the stored PodSet, what it has passed runs and what it has not listed is
  gone, or none runs and nothing is left to do. `FeedInv` is what makes "still to come"
  stable: what the cache shows of a pod and the events under way end in what is
  stored, and a pod that comes alive is announced with its owner. A pod that goes
  without such a trace is one of those marked `unnoticed`, and only that pod is
  excused.

`OptionsProofs` proves the four properties of run `options` for any arguments, any
number of them and any number of calls: `OptionsTypeCorrect`, `AcceptsAsDocumented`,
`BindingsOwn` and `OrderDoesNotMatter`. The state invariant, `OInv`, says only that
options come from their arguments and that the Sawchain's stay as `New` left them; the
work is about the loop of `parse`, a recursive function of the number of arguments
read. After each round `Tells` relates the options to the arguments behind them, and
parsing goes on exactly as long as these fit the documentation (`Fits`, `TakeFits`,
`ParseFits`); `Collected` says which of them decided each binding. For two neighbours
that change places the options after both rounds are the same (`TakesCommute`), and all
rounds after them agree (`ParseSwapped`). A list with a nil slice is excepted
(`Proper`), since there the statement is false.

`TemplatesProofs` proves the five properties of run `render` for any templates, white
space before them and calls: `TemplatesTypeCorrect`, `IndentationDoesNotMatter`,
`NoFieldIsLost`, `AllObjectsOrNone` and `OutputIsReadBack`. `TInv` says that the
template is what sanitizing made of the text, and objects and output what rendering
made of the template; the rest is about the functions on texts. Each is described by
its value on the empty sequence and on a sequence with one more element, and
`InductionOnSequences` takes it from there.

* A text counts only by its `Contents`, the lines with content of each document.
  `ContentsAppend` gives the effect of one more line, so that blank lines and comments
  leave no trace (`BlanksLeaveNoTrace`), no field is lost (`FieldsOfContents`), and a
  text without separators goes on with the last document (`ContentsGoOn`).
* If all lines begin with `w`, and one that is not blank with nothing else, `w` is what
  `DeindentYAML` finds in common and removes (`LongestIs`, `Deindented`).
* A rendered object is printed with its depths for white space. Depths nest as the
  levels they come from (`AboveNested`, `SameAbove`), so that every line is under the
  same lines as in the source (`PrintedUnder`), a well-formed document stays one
  (`PrintedWellFormed`), and reading it gives the object back (`PrintedTree`). Since a
  value is deeper than its field, no line of it is a separator (`PrintedNoBar`); this
  is where the premise that a document is an object is needed. `OutputReads` then
  follows the output object by object.

`TemplatesProofs` also proves what an update makes of a template, for any depth,
field names and integers: `UpdateMergesByPath`, `UpdateAgainChangesNothing` and
`SmallIntegersPreserved`, which says that below 2^53 the result is exactly the merge
of RFC 7386. `MergePatch` recurs over the depth, so a fact about all values is an
induction over 0..`Depth` (`UpTo`), with one level of each function as a lemma:
`FieldMerged` for the merge, `FieldRead` for the reading.

* Along a path, as long as the template mentions the next field, the result holds the
  merge of what the two hold (`MergedWhereMentioned`). From the first field it does
  not mention on, the template has nothing (`NothingAfter`), and the result holds what
  the resource does, or nothing if the template put something other than a map there
  (`KeptAfter`). `MergedByPath` puts the cases together.
* A value is read alike at every level that is deep enough (`ReadLevels`, `ReadIn`),
  so reading goes along a path with it (`AlongRead`).
* Merging again changes nothing (`MergedTwice`), nor does reading again (`ReadTwice`),
  and reading and merging change places (`ReadMerged`), each field by field
  (`SameMaps`). With these an update to what a resource already has changes nothing.

These rest on `MergeAssumption`: integers are at most twice `Exact`, where rounding is
described, and what one of them is read as is one of them too. All integers up to
2^54 satisfy it.

The promises of `Sawchain` are not inductive: that a returned call is reflected says nothing
of the polls before. `IInv` adds, in this order of dependence,

1. `HistoryOrdered`: along the states the cache may still show of a resource,
   versions and (dis)appearances advance together, and none is newer than the
   server's. This is what makes "a newer version was seen" stable.
2. `ControlOK`: where a call is tells what kind of call it is.
3. `WritesRecorded`: a written document has a version at least the first
   revision, and until the polls start the object in hand carries that version.
   This is where the code must update the outer slice and not its copy.
4. `FloorIsWritten`: the captured versions are those of the writes, however often
   the polls overwrite the objects.
5. `SyncedBefore`: if the cache knew the last disappearance before a creation,
   everything it can still show from before that creation is an absence; dually
   for a deletion. So a poll that finds the resource present has seen the new one.
6. `PassedReflected`: every document the running poll has passed is reflected.
   For an update this needs the versions to be comparable (`Comparable`).

`InvStep` goes through the actions one by one (`WriteHolds`, `PollPassHolds`, ...),
with `CallerKept` for everything that moves the cluster under a caller. The
proofs use the assumptions `ClusterAssumption` and `SawchainAssumption`, which TLC
evaluates in every run of these modules.

Model-checked only: `CallReturns` and `Converges`, which are liveness properties and
need `ENABLED`. The three disagreements are runs that expect a violation.

The library's induction theorems take an operator and cannot be instantiated here.
Where a proof goes over data, the statement is a set instead: the numbers, or the
sequences, it holds for (`UpTo`, `InductionOnSequences`), from the least number for
which it does not, which `WFMin` provides. This needs functions that recur over
numbers, as `Parse`, `Documents`, `Only` and `Merges` do.

## Not modelled

Evaluation of expressions (Chainsaw's own), the text of messages, the generated
template of `HaveStatusCondition`, file input and output, conversions between typed
and unstructured objects beyond success and failure, test utilities, and the
examples without a controller. Block scalars, lists and anchors in YAML; lists in a
merge patch, which it replaces whole. In `PodSet`, recorded events, the containers
of a pod beyond one image, and pods with the label that the controller did not make.
A shared `gomega.Gomega` or `testing.TB` is not safe for concurrent use
(`docs/parallel-tests.md`); callers in the model have their own.

## Plan

Done: all modules above, and proofs of all safety properties of `Sawchain`, under
arbitrary and under exclusive use, of `Polling`, `Matcher`, `PodSet`, `Options` and
`Templates`, of the comparison of versions and of `MergePatch`.
