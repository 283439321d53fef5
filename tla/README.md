# Formal model of k8s-namespace-sync

k8s-namespace-sync is a Kubernetes controller. A `NamespaceSync` names Secrets
and ConfigMaps in a source namespace; the controller keeps copies of them in
the target namespaces, removes a copy when its source goes, and removes all of
them, guarded by a finalizer, when the `NamespaceSync` is deleted. Several
`NamespaceSync`s may reach the same object, and people may have put an object
of their own there; a set of ownership rules decides who gives way.

The code is short and sequential. What is hard about it lies between its lines:
every read but one comes from an informer cache that lags behind the API
server, every write may be refused, succeed without an answer or arrive late,
and between any two calls people edit, namespaces vanish and the process dies
or hands over to another leader. This
directory models the controller at the grain of its API calls, checks the model
with TLC and proves the central safety properties with TLAPS.

## Inventory

| Component | Source | State | Operations | What makes it correct |
|---|---|---|---|---|
| Reconcile loop | `namespacesync_controller.go`, `sync.go`, `resources.go` | the request being worked on; peers and targets listed at its start | validate, add finalizer, list, create/update/delete per object, write status, requeue | copies converge to their sources; nothing hand-made is overwritten outside explicit targets; it stops writing |
| Deletion and cleanup | `resources.go` | finalizer | uncached Get, Delete with preconditions, remove finalizer | only own copies are deleted; no copy outlives the last sync responsible for it; deletion finishes |
| Conflict rules | `conflicts.go` | none | `listPeers`, `sourceOwner`, `copyOwner`, `copyConflictGuard`, `unclaimed` | obeyed on the live state, not only on the cached one; no two syncs fight |
| Targeting, filters, validation | `filters.go`, `utils.go`, `namespacesync_types.go` | none | `targetsNamespace`, `shouldSyncResource`, `validateNamespaceSync` | invalid specs are reported and not synced |
| Watches and queue | `events.go`, `SetupWithManager` | work queue, retry and periodic timers | predicate, three map functions | no change that matters is missed |
| Status | `utils.go` | status subresource | `updateStatus`, `updateInvalidSpecStatus` | tells the truth about the generation it names |
| API server, informers, namespace controller | outside the repository | stored objects, caches, undelivered events | accept or refuse a write, deliver, collect | external, modelled from how the controller uses them |
| `last-sync` stamp | `resources.go` | an annotation on each copy | `keepLastSync` and the comparison before an update | tells when the data was last written; does not keep the controller writing |
| Manager | `cmd/main.go` | `RECONCILE_INTERVAL`, the lease | start, restart, hand-over | the last writes of the old leader do no harm; an interval of zero leaves the watches to do everything |
| Metrics, event recorder | `metrics.go` | counters | increment | output only, not modelled |
| Generated code, manifests, Helm chart | `api/v1/zz_generated.deepcopy.go`, `config/`, `helm/` | | | not modelled |

The components meet in four places: the reconcile loop reads what the watches
put into the caches; the watches enqueue what the map functions find in the
cache at that moment; the conflict rules judge cached peers and cached objects;
and the API server has the last word through resource versions, UIDs and
preconditions. `PROJECT.json` lists the hazards at the lines where they bite.

## Modules

- **Targeting** - the spec record and the pure decisions made from it. Lists are
  sets; `path.Match` is a relation handed in as a constant, with the patterns it
  cannot parse.
- **Conflicts** - the shape of an object and the ownership rules, over the
  specs of the peers. Peers are a set: the code returns the first match of a
  loop, but uses only whether there is one and whether it lists the namespace.
- **WatchedStore** - one key of the API server as its informer sees it: a cached
  version and the newer ones not delivered yet. A client that read the cache
  holds the live resource version exactly when nothing is undelivered.
- **Reconciler** - the controller in its cluster, composed of the three above.
- **Custody** - the abstract specification: what people are promised about their
  Secrets and ConfigMaps, with one store and no caches, queues, versions or
  retries. Agents take up a declared spec, take note of the other ones and
  write; every write is right for the store at the moment it takes effect.
- **ReconcilerProperties** - what is promised, over the live state, and the
  mapping under which Reconciler implements Custody.
- **LastSync** - the stamp of a single copy under a mutating admission, built on
  WatchedStore, with its own properties.
- **MCReconciler**, **MCLastSync** and the `.cfg` files - the instances for TLC.
- **WatchedStoreProofs**, **ConflictsProofs**, **LastSyncProofs**, **ReconcilerProofs**,
  and, on top of the last, **CustodyProofs**, **OwnershipProofs**, **OrphanProofs** - the
  TLAPS proofs.

### State of `Reconciler` and the code

| Variable | In the system |
|---|---|
| `namespaces`, `objects`, `syncs` | per key, the cached and the undelivered versions of Namespaces, Secrets and ConfigMaps, NamespaceSyncs |
| `queue` | requests in the work queue, in rate-limited retry, or waiting for `RequeueAfter` |
| `worker` | local variables of the `Reconcile` call in progress: `self` (the cached NamespaceSync), `peers`, `targets`, the items left, failed and conflicted namespaces |
| `late` | a create, update or delete of an object that the worker gave up on, or left behind when its process ended, and that has not reached the API server; with the reconcile that sent it |
| `budget` | how often each outside event may still happen |

### Actions and the code

| Action | Code |
|---|---|
| `Start` | `Reconcile` up to the finalizer check (`entryPoint`: deleting, invalid, without finalizer) |
| `AddFinalizer` | the `RetryOnConflict` block |
| `List` | namespace list and `listPeers`; `itemsOf` is what the loops will visit |
| `RemoveStaleCopy`, `KeepPeerSource` | `removeStaleCopy` after a NotFound of the source |
| `SkipConflict` | `sourceConflict` or `copyConflictGuard` refuses |
| `CreateCopy`, `UpdateCopy`, `KeepCopy` | `createOrUpdateResource` |
| `CleanupItem` | `cleanupSyncedResources` / `cleanupResource`, up to the Get |
| `DeleteCopy` | the Delete of `deleteManagedCopy` |
| `UpdateStatus`, `UpdateInvalidSpecStatus` | the status writers, and the return that follows |
| `RemoveFinalizer` | the rest of `handleDeletionAndStatus` |
| `DeliverSync`, `DeliverNamespace`, `DeliverObject` | a watch event reaches the cache, then predicate and map function |
| `LateWrite` | a delayed request reaches the API server, which tests existence or version at that moment |
| `Restart` | the process dies or loses the lease (`LeaderElectionReleaseOnCancel`) and another starts; caches are listed anew, `late` stays under way |
| `UserPut`, `UserDelete`, `CreateSync`, `EditSync`, `DeleteSync`, `AnnotateSync`, `CreateNamespace`, `DeleteNamespace` | people |
| `CollectObject`, `CollectNamespace` | the namespace controller |

Every write of the worker takes an outcome: `answered` (the API server decides),
`refused` (never carried out), `lost` (carried out, answer lost) or, for objects,
`late` (times out at the worker, carried out or refused some time after).

### State of `LastSync` and the code

`source` and `copy` are watched keys, `policy` is what the admission does to
labels, `wrote` is a history variable: when the controller last wrote the copy's
data. `CreateCopy` and `UpdateCopy` are `createOrUpdateResource`, `keepLastSync`
and the comparison after it; the API server runs the admission and stores
nothing if the outcome is what it has. Time is relative: a stamp is missing, of
the current second (RFC 3339 has whole seconds) or older, and `Tick` makes the
current ones older. Earlier seconds need not be told apart, as the code compares
a stored stamp only with itself and with a new one. The sync lists the target
explicitly, so the conflict rules, which `Reconciler` has, do not come in.

### Abstractions

- *A cached read and the write it leads to are one step.* Deliveries for
  different keys commute; one for the key itself between read and write can be
  moved before the read or after the write, and a write based on an outdated
  version is refused in either order. Only the read before a delete bypasses
  the cache, and there Get and Delete are two steps: `held` says whether the
  version read is still live, which is what the preconditions test.
- *Queue and timers are one set.* A request that waits for a backoff or for
  `RequeueAfter` may be handed out at any time. With fairness only on it being
  handed out eventually, no property can depend on how long it waits.
- *RetryOnConflict is its last attempt.* The earlier attempts changed nothing.
- *Loops visit items in any order* within a namespace and kind; a namespace is
  finished before the next begins and Secrets come before ConfigMaps, as in the
  code, because an error ends the namespace there.
- *Status messages, time stamps, events, metrics and logs are left out of
  `Reconciler`*, the `last-sync` annotation too: `keepLastSync` keeps a new stamp
  from being a reason to write, which is what `LastSync` checks.
- *At most one request is late at a time*, and only requests that write objects
  are. A finalizer or status write that arrives late is refused unless nothing
  happened to the NamespaceSync since, and then it is like a `lost` one.
- *The data of an object is one value*; labels and annotations are a set of keys.

## Properties

Safety, over the live state whatever was cached. A write is judged by the
reconcile that sent it, its `Author`, also when it arrives late:

- `TypeOK`.
- `HandMadeKept` - an object without the controller's annotations is changed only
  in a namespace that the author lists.
- `DeletesOnlyOwnCopies` - every delete hits a copy from the author's source, in a
  namespace the author targets.
- `OwnershipRespected` - overwrites and cleanups obey the conflict rules as judged
  by the live object and the live peers. It holds while NamespaceSyncs are not
  created or edited: a peer the cache has not seen cannot be respected.
- `NoOrphans` - every copy has a NamespaceSync with the finalizer that will clean
  it up. It holds while specs are not narrowed, namespaces are not recreated and
  no create is late (see the findings). Nor does it hold when a sync is deleted
  whose copies another one reads as its source: `unclaimed` leaves those alone,
  and the repository's README says so.
- `CustodyKept` - the refinement. The store is what the API server holds, `declared`
  the specs in the cache or on their way to it, `agents` the reconcile in
  progress from its start to its last object and the one that sent the late
  write, `people` the edits left. It says in one formula what each step may do
  to which object, and that nothing else changes objects: creates only where
  nothing is and in an active namespace, overwrites only what the rules let the
  agent have given the peers it listed, deletes only own copies, and in a
  cleanup only unclaimed ones; never keys that stay with the source.
- `StampIsLastDataWrite` (LastSync) - the stamp on a copy is the time of the
  controller's last write of its data. One exception is built into `ControllerWrites`:
  a copy that lost its stamp gets a new one although its data stays, and that
  write counts. The repository's README speaks of data writes only; the unit test of
  `keepLastSync` ("no stored stamp") wants the new stamp.

Liveness, once people and faults leave the cluster alone:

- `Converges`, `StatusConverges`, `Quiesces`, `InvalidReported`.
- `DeletionCompletes` - in the end no NamespaceSync is left in deletion.
- `CopyRests`, `CopySettles` (LastSync) - the copy ends up as the source or the
  admission wants it, and reconciles that go on for ever stop writing it.

**Fairness.** `WF(WorkerStep)`: a reconcile in progress goes on. `SF(Start(s))`: the
work queue is first in, first out, so a request is not overtaken for ever by
others that come back; strong, because the worker is busy in between.
`WF(DeliverSync(s))`, and `WF` on the deliveries of Namespaces and of objects as a
whole: each watch is reliable, nothing is assumed of the order in which
different keys arrive. `WF(LateWrite)`: a request does not stay in the network for
ever. `WF(Collect)`: the namespace controller works. Nothing is assumed of people,
faults, delays and restarts; the budget bounds them, which is what "once they
leave the cluster alone" means. In LastSync `WF` on the controller's write stands
for the periodic reconcile and the watches that bring it back; time need not
pass.

## Runs

| Run | Instance | Result |
|---|---|---|
| `Lifecycle` | one sync, source and target; create, delete, two puts, fault, restart | safety and liveness hold |
| `Changing` | four clusters with a system namespace: `Editing` (valid and invalid spec, two edits, deletion, fault), `ComingAndGoing` (a namespace is deleted and one created, deletion), `TwoKinds` (a Secret and a ConfigMap, a hand-made one in the way, a put, a delete, a fault), `Delayed` (a put, a delete, a late write, a hand-over) | safety, refinement of Custody, convergence |
| `Watches` | `ReconcileInterval` 0; two Secrets, a ConfigMap, a filter, labels; one put, or two deletes, or a namespace that goes and comes back, or a delete while the filter is edited or the NamespaceSync created; a NamespaceSync with only invalid specs, one from before the CRD rules, with two edits, an annotation, a deletion, a restart | watch events alone bring everything up to date, also when one is mapped with a spec that is about to change or with no NamespaceSync at all; invalid specs are reported; deletions finish |
| `Peers` | two syncs: default or explicit against each other or both from one source in one target, one deleted, in some clusters after the other began to be, or a restart; a chain, a ring and two defaults facing each other, a source deleted, in the ring with a late write | ownership holds, no orphan, they converge and stop |
| `LastSync` | two payloads, three labels of which one stays with the source, admissions that add, remove, do both or nothing; two edits of source, copy, stamp or admission | the stamp is true, the copy settles and rests |
| `StatusLost`, `StaleGeneration`, `Narrowed`, `UnfinalizedPeer`, `RecreatedNamespace`, `LateCreate`, `TypeChanged` | see below | violated |

A run of `Reconciler` starts in any of the clusters its configuration names
(`Clusters`), each with its own objects, NamespaceSyncs and budget.

Each property of each passing run has a mutant in `PROJECT.json`: a plausible bug
in the definition it names, under which TLC finds the property violated.

**Bounds.** One or two syncs, because every rule relates a sync to one peer; two
or three namespaces, the sources and one target; two payloads, enough to tell
stale from fresh. Watch queues are not bounded except through the budgets and
the controller coming to rest; the number of undelivered versions of a key is
whatever the run produces. Budgets are one or two of each event: each event may
fall between any two steps, and the hazards listed need at most two. Budgets of
one cluster are chosen so that the events meet which concern each other; the
proofs, where there are any, hold for all of them together. Delays are left out
of the clusters in which `NoOrphans` is checked while a sync is deleted, because
of the finding `LateCreate`.

Deadlock is checked in `LastSync`, where time always passes. The clusters of the
other runs include some that stop for good: their syncs are deleted, their specs
invalid, or the periodic reconcile is off.

### Where documentation and code disagree

- `TypeChanged`: the README says changes in source resources are detected and
  synced. A source Secret that is deleted and created again with another type,
  before a reconcile removed the copy, makes every update of the copy invalid,
  as a Secret's type is immutable; the copy keeps its old type and data.
- `StaleGeneration`: the API type says `ObservedGeneration` is the generation the
  condition was set based upon. `updateStatus` takes the generation of the
  NamespaceSync it reads back after syncing, which may be newer.
- `StatusLost`: the README says an invalid glob sets Ready to False. If the spec
  becomes invalid while a reconcile of the valid one runs, that reconcile stores
  `SyncComplete`; the reconcile of the invalid spec then finds a cache that lags
  behind this write, its status write conflicts, and the `TerminalError` ends
  the matter until the next edit, event or restart.
- `Narrowed`: the README says deletion cleans up all synced resources. Copies in a
  namespace that was dropped from the spec stay.
- `UnfinalizedPeer`: a peer that never was valid counts as owner during cleanup but
  has no finalizer; when it goes, nobody deletes the copies.
- `RecreatedNamespace`: a delete is said never to trust a stale cache miss, but the
  list of namespaces cleanup walks is a cached one.
- `LateCreate`: the README says the finalizer ensures proper cleanup before the
  NamespaceSync goes. A create that timed out at the controller, or was the last
  request of a former leader, may land after the cleanup found nothing and the
  finalizer was removed.

`RECONCILE_INTERVAL=0s` is accepted and turns the periodic reconcile off. `Watches`
shows that watch events then suffice, as long as no call fails: a failed
namespace has no other retry, since `Reconcile` returns no error for it.

## Proofs

All theorems hold for all sets of namespaces, names, syncs and specs, all
clusters to start in and all budgets, from the assumptions named in the modules
(the "missing" values are distinct from real ones, constants have their types).
Where a theorem has a further hypothesis, it is stated below.

| Theorem | Statement |
|---|---|
| `TypeCorrect` | `Spec => []TypeOK` |
| `HandMadeObjectsAreKept` | `Spec => HandMadeKept` |
| `DeletesAreOfOwnCopies` | `Spec => DeletesOnlyOwnCopies` |
| `ImplementsCustody` | `Spec => CustodyKept` |
| `OwnershipIsRespected` | `Spec /\ NobodyDeclares => OwnershipRespected` |
| `CopiesAreTakenByRank` | `Spec /\ NobodyDeclares => TakenByRank` |
| `NoCopyIsOrphaned` | `Spec /\ OrderlyStart => []NoOrphans` |
| `MorePeersForbidMore`, `OnlyListedOutranks`, `NoFight` | about the rules of `conflicts.go`, for any peers and objects |
| `StampIsTrue` | `LastSyncSpec => []StampIsLastDataWrite` |

**Who may write what (ReconcilerProofs).** The notion all else rests on is
`Entitled(a, k, o, v)`: a reconcile `a`, with its spec and the peers it listed, may
have the object `o` under `k` replaced by `v`. `TypeOK` alone is not inductive, since
the worker's steps use `self` as a NamespaceSync: `Busy` says it is one whenever the
worker is not idle, and that what is being synced passed validation. `ItemsDue`
carries the decisions of `List` to the items left: each is targeted and, in a
cleanup, unclaimed by the peers listed. `HeldCopy` says that at the Delete, as long
as the version read is live, it is a copy from the worker's own source; the
worker cannot hold it past anybody else's write, which is what the preconditions
buy. `LateSound` does for a late write what these do for the worker: it is
outdated, or a create whose author is entitled to a free key, or an update or
delete whose author is entitled to replace the live object; every new version
outdates it. Together they are `IInv`, proved in `Invariance`, one lemma per group
of actions. `WorkerEntitled` and `AuthorEntitled` then show that whoever changes an
object was entitled to, and the two action properties follow.

**The refinement (CustodyProofs).** The initial states map to initial states
(`InitCustody`), and each action to a step of Custody or a stutter, one lemma per
group of actions. `Start` is the appearance of an agent with a declared spec, `List`
is that agent taking note of declared peers, a write that takes effect is
the agent's write on the live store, judged by `Entitled` (`EntitledWrites`), and a
return or a restart is an agent going. A write that turns late leaves its
author behind as an agent of its own, so that `LateWrite` is again an agent's
write. Deliveries change nothing Custody knows of, except that a version of a
NamespaceSync that leaves the cache is no longer declared.

**Ownership (OwnershipProofs).** `IInv` speaks of the peers the author listed;
`OwnershipRespected` of the live ones. The hypothesis `NobodyDeclares` is that no
NamespaceSync is created or edited from the start on: a peer the cache has not
seen cannot be respected. They may still be annotated, deleted, given finalizers
and statuses. `SpecsSettled` says that all versions of a living NamespaceSync have
its spec, so `List` finds every live peer, `PeersKnown` and `LatePeersKnown` that the
author's list still contains them all when the write takes effect. The list may
also contain peers that are gone by then, and `MorePeersForbidMore` says that those
can only make the rules stricter. `TakenByRank` follows: a copy is taken from a
living NamespaceSync only by one that lists the namespace, when its owner
reaches it by default. It is the reason two syncs do not fight over a copy, of
which `Quiesces` is the consequence that TLC checks.

**The rules alone (ConflictsProofs).** `copyOwner` prefers an explicit owner, which
makes the guard hard to reason about as written; `OwnedCopyConflictMeans` says
what it comes to without the choice, and the three theorems follow from it.

**Orphans (OrphanProofs).** The hypothesis `OrderlyStart` excludes what the code does
not handle, and each part of it is needed:

- each NamespaceSync has one spec, `SpecOf`, whenever it exists (finding `Narrowed`).
  It may be deleted and created again any number of times;
- one that claims copies another would clean up always has the finalizer
  (finding `UnfinalizedPeer`);
- no namespace is created (finding `RecreatedNamespace`); they may be deleted;
- no write is late (finding `LateCreate`);
- none reads as its source what another writes, as those copies are kept (see
  `NoOrphans` above; there is no finding, the code does what its README says);
- people do not make objects with the controller's annotations, and at the start
  objects are in existing namespaces and no copy is an orphan.

Everything else stays: stale caches, refused calls, lost answers, restarts,
edits and deletions of objects, overlapping NamespaceSyncs deleted in any order.
Beyond `IInv`, the inductive invariant `OrphanInv` says in `FinalizerStays` that neither
a version on its way to the cache nor a cached one not in deletion has the
finalizer unless the live one has; in `FinalizerFirst` that no item is visited
before the finalizer is stored; in `NamespacesOnlyGo` that a namespace missing from
the cache is really gone; and in `CleanupCovers`, the heart of it, that a cleanup
whose `self` is still the live version has every copy of its own still to visit,
or failed in that namespace, or left it to a living NamespaceSync that has the
finalizer. So when it takes the finalizer off, with nothing left and nothing
failed, each remaining copy has somebody. A cleanup whose `self` is outdated may
have missed copies, but the removal of the finalizer is then refused. Two
NamespaceSyncs in deletion cannot leave a copy to each other, because only peers
not in deletion are listed, and a cached one that is not in deletion
has the finalizer only if it is there still. `OrphanInv` was checked with TLC on
clusters with two overlapping NamespaceSyncs, deleted, created again and
restarted over, before it was proved.

**The stamp (LastSyncProofs).** The property is inductive together with the types. The
controller's writes are the interesting step: an accepted update was made from
the live version, so the stamp that `keepLastSync` kept or renewed by looking at
the cached object is the one the live object's history calls for
(`ControllerKeepsStamp`). Admission changes no stamp, and an update it undoes
completely stores nothing, which keeps the stamp too (`StoresFacts`).

**The store (WatchedStoreProofs).** A write becomes the live version and joins the
undelivered ones, a delivery changes neither the live version nor brings a
version nobody has written, a restart leaves only the live one.

Model-checked only: all liveness (`Converges`, `StatusConverges`, `Quiesces`,
`InvalidReported`, `DeletionCompletes`, `CopyRests`, `CopySettles`), which rests on
fairness and is outside what the proof system handles. Every safety property a
passing run checks is proved.

## Not modelled

- *Metrics and the event recorder*: output only. Nothing in the program reads
  them back, so no other property can depend on them. A gauge is set per
  reconcile and never reset when a NamespaceSync goes.
- *Generated deep copies, scheme registration, manifests, the Helm chart*: no
  behaviour of their own. The CRD's validation rules are in `admitted`.
- *Flags, TLS, probes and certificate watchers* of `cmd/main.go`: set up once.
- *Two leaders reconciling at once*, which the lease rules out; what remains of
  the old one, its last request, is `late`.
- *Foreign finalizers and Secrets marked immutable*, about which the code does
  nothing; *deletion of the namespace a NamespaceSync lives in*, which to the
  controller is a deletion of the NamespaceSync.
- *Watch events compressed into one*, as after an interrupted watch. For the map
  functions this changes nothing: the queue is a set, and they see the old and
  the new object of a compressed update. For the predicate, a compressed edit or
  deletion still shows another generation. Not covered is a NamespaceSync
  without finalizer that is deleted and created again while its watch is
  interrupted: old and new then may have the same generation. So what the
  properties say of the predicate is that it drops no event it should let pass,
  not that no event is lost before it.
- *Errors of cached reads*, which an informer does not return once it is synced.

## Plan

1. Done: Targeting, Conflicts, WatchedStore, Reconciler, LastSync, the abstract
   specification Custody, and their runs.
2. Done: the theorems above, for every safety property of the passing runs.
3. Open: safety lemmas that explain liveness, such as that a queued or busy
   NamespaceSync exists whenever a copy differs from its source and everything
   is delivered; truth of the status with respect to the spec it was written
   for, outside the cases the findings name.
