----------------------------- MODULE Reconciler -----------------------------
(***************************************************************************)
(* The NamespaceSync controller at work in a cluster.                      *)
(*                                                                         *)
(* One worker (MaxConcurrentReconciles is left at its default, 1) takes    *)
(* NamespaceSyncs off the work queue and reconciles them, one API call per *)
(* step.  Reads go to informer caches that lag behind the API server,      *)
(* except the read before a delete; writes go to the API server.  Between  *)
(* any two steps the watches deliver, timers fire, people edit objects,    *)
(* namespaces and NamespaceSyncs, the namespace controller empties         *)
(* terminating namespaces, API calls fail or take effect late, and the     *)
(* process restarts.                                                       *)
(*                                                                         *)
(* A cached read and the write it leads to are one step: deliveries for    *)
(* different keys are independent, so a delivery between the two can be    *)
(* moved before the read or after the write, and a write from a read that  *)
(* is no longer current is refused either way.                             *)
(***************************************************************************)
EXTENDS Conflicts, WatchedStore, Integers

CONSTANTS
    Sync,            \* names of NamespaceSyncs
    NoSync,          \* no NamespaceSync is stored under the name
    SpecsOf,         \* the specs people may give each NamespaceSync
    PresetFinalizer, \* whether manifests may carry the finalizer (the samples do)
    UserKeys,        \* the Secrets and ConfigMaps people touch
    UserObjects,     \* what they write there
    Clusters,        \* the clusters the controller may be started in
    ReconcileInterval, \* of the periodic reconcile, as configured
    NoWrite          \* no call of the controller is under way in the network

VARIABLES
    namespaces,  \* [Namespace -> Entry(NamespacePhase)]
    objects,     \* [Key -> Entry(Stored)]
    syncs,       \* [Sync -> Entry(CR or NoSync)]
    queue,       \* NamespaceSyncs to reconcile, now or when a timer runs out
    worker,      \* the reconcile in progress
    late,        \* a write the worker gave up on and that may still arrive
    budget       \* how often each thing outside the controller may still happen

vars == <<namespaces, objects, syncs, queue, worker, late, budget>>

-----------------------------------------------------------------------------
NamespacePhase == {"absent", "active", "terminating"}

Reason == {"none", "SyncComplete", "SyncConflict", "PartialSync", "SyncFailed",
           "InvalidSpec"}

NamespaceSyncStatus ==
    [reason : Reason, observedGeneration : Nat,
     syncedNamespaces : SUBSET Namespace, failedNamespaces : SUBSET Namespace]

NoStatus == [reason |-> "none", observedGeneration |-> 0,
             syncedNamespaces |-> {}, failedNamespaces |-> {}]

\* `mark' stands for the annotations, which people change to force a resync.
CR == [spec : NamespaceSyncSpec, generation : Nat, deleting : BOOLEAN,
       finalizer : BOOLEAN, mark : BOOLEAN, status : NamespaceSyncStatus]

StoredSync == CR \cup {NoSync}

NewSync(spec, finalizer) ==
    [spec |-> spec, generation |-> 1, deleting |-> FALSE,
     finalizer |-> finalizer, mark |-> FALSE, status |-> NoStatus]

\* Things that happen a bounded number of times.
Event == {"put", "delete", "createNamespace", "deleteNamespace", "createSync",
          "editSync", "deleteSync", "annotateSync", "fault", "delay", "restart"}

\* A cluster to start in, and how often each event may happen there.
Cluster == [namespaces : [Namespace -> NamespacePhase], objects : [Key -> Stored],
            syncs : [Sync -> StoredSync], budget : [Event -> Nat]]

\* How an API call of the worker ends: answered by the API server, never
\* carried out, or carried out with its answer lost.  A write of an object may
\* also time out at the worker and reach the API server late.
Outcome == {"answered", "refused", "lost"}
WriteOutcome == Outcome \cup {"late"}

-----------------------------------------------------------------------------
(* The worker.  `self' is the NamespaceSync as the cache returned it when    *)
(* the reconcile began, and `fresh' says that version is still the live one. *)
(* Whether self is being deleted decides between syncing and cleaning up.    *)
(* `todo' holds the objects still to visit and `item' the last one visited;  *)
(* at "delete", `held' says that the version the worker read of it is still  *)
(* the live one, which is what the delete's UID and resourceVersion          *)
(* preconditions test.                                                       *)

PC == {"idle", "finalizer", "invalid", "list", "work", "delete"}

NoItem == <<NoNamespace>>

WorkerState ==
    [pc : PC, sync : Sync \cup {NoSync}, self : StoredSync, fresh : BOOLEAN,
     peers : SUBSET NamespaceSyncSpec, targets : SUBSET Namespace,
     todo : SUBSET Key, item : Key \cup {NoItem}, held : BOOLEAN,
     failed : SUBSET Namespace, skipped : SUBSET Namespace]

Idle ==
    [pc |-> "idle", sync |-> NoSync, self |-> NoSync, fresh |-> FALSE,
     peers |-> {}, targets |-> {}, todo |-> {}, item |-> NoItem,
     held |-> FALSE, failed |-> {}, skipped |-> {}]

\* On whose behalf, and on which grounds, an object is written.
Agent == [sync : Sync, spec : NamespaceSyncSpec,
          peers : SUBSET NamespaceSyncSpec, cleaning : BOOLEAN]

\* A write on its way.  A create needs the key to be free when it arrives; any
\* other write carries a version, and `current' says that it is the live one.
Write == [key : Key, value : Stored, creates : BOOLEAN, current : BOOLEAN,
          agent : Agent]

Init ==
    \E c \in Clusters :
        /\ namespaces = [n \in Namespace |-> Synced(c.namespaces[n])]
        /\ objects = [k \in Key |-> Synced(c.objects[k])]
        /\ syncs = [s \in Sync |-> Synced(c.syncs[s])]
        /\ queue = {s \in Sync : c.syncs[s] # NoSync}
        /\ worker = Idle
        /\ late = NoWrite
        /\ budget = c.budget

ASSUME ReconcilerAssumption ==
    /\ NoSync \notin CR
    /\ NoWrite \notin Write
    /\ SpecsOf \in [Sync -> SUBSET NamespaceSyncSpec]
    /\ PresetFinalizer \subseteq BOOLEAN
    /\ UserKeys \subseteq Key
    /\ UserObjects \subseteq Object
    /\ Clusters \subseteq Cluster
    /\ ReconcileInterval \in Int

-----------------------------------------------------------------------------
(* What the actions are built from.                                          *)

Spend(event) ==
    /\ budget[event] > 0
    /\ budget' = [budget EXCEPT ![event] = @ - 1]

\* An API call of the worker goes wrong only while the budget lasts.
Ends(outcome) ==
    CASE outcome = "answered" -> UNCHANGED budget
      [] outcome = "late"     -> Spend("delay")
      [] OTHER                -> Spend("fault")

\* The API server accepts a new version of an object or of a NamespaceSync.  A
\* write that is late and carries the version before it is then outdated.
PutObject(k, v) ==
    /\ objects' = [objects EXCEPT ![k] = Put(@, v)]
    /\ late' = IF late = NoWrite THEN NoWrite
               ELSE [late EXCEPT !.current = @ /\ late.key # k]
PutSync(s, v) == syncs' = [syncs EXCEPT ![s] = Put(@, v)]

\* Somebody else's write makes the versions the worker holds outdated.
OutdateObject(k) == worker' = [worker EXCEPT !.held = @ /\ worker.item # k]
OutdateSync(s) == worker' = [worker EXCEPT !.fresh = @ /\ worker.sync # s]

\* Mutants of Requeue: an error is not retried; the request is queued after the
\* worker was reset.
requeueForgotten == worker' = Idle /\ UNCHANGED queue
requeueAfterReset == worker' = Idle /\ queue' = queue \cup {worker'.sync}

\* Reconcile returns: with nothing to do later, or with an error, so that the
\* work queue hands the NamespaceSync out again once a timer has run out.
Return == worker' = Idle /\ UNCHANGED queue
Requeue == worker' = Idle /\ queue' = queue \cup {worker.sync}

\* Mutant of RequeueAfter: the periodic reconcile is off.
requeueAfterNothing == Return

\* The periodic reconcile; an interval of zero or less turns it off.
RequeueAfter == IF ReconcileInterval > 0 THEN Requeue ELSE Return

\* syncResourceList and cleanupResource go on after an item that is done and
\* after a conflict.  Any other error ends the namespace when syncing, and is
\* only collected when cleaning up.
ItemDone(k) ==
    worker' = [worker EXCEPT !.pc = "work", !.item = k, !.held = FALSE,
                             !.todo = @ \ {k}]
ItemSkipped(k) ==
    worker' = [worker EXCEPT !.item = k, !.todo = @ \ {k},
                             !.skipped = @ \cup {k[1]}]
ItemFailed(k) ==
    worker' = [worker EXCEPT !.pc = "work", !.item = k, !.held = FALSE,
                             !.failed = @ \cup {k[1]},
                             !.todo = {t \in @ : IF worker.self.deleting
                                                 THEN t # k
                                                 ELSE t[1] # k[1]}]

\* The item is done if the API server answered the call, and failed if not.
ItemEnds(k, outcome) ==
    IF outcome = "answered" THEN ItemDone(k) ELSE ItemFailed(k)

\* A namespace is finished before the next one begins, Secrets first.
InTurn(k) ==
    /\ k \in worker.todo
    /\ (\E t \in worker.todo : t[1] = worker.item[1]) => k[1] = worker.item[1]
    /\ (\E t \in worker.todo : t[1] = k[1] /\ t[2][1] = "secret")
          => k[2][1] = "secret"

-----------------------------------------------------------------------------
(* Reconcile: begin, finalizer, lists.                                       *)

\* Mutant of entryPoint: the spec is not validated.
entryPointUnvalidated(cr) ==
    IF cr.deleting THEN IF cr.finalizer THEN "list" ELSE "idle"
    ELSE IF cr.finalizer THEN "list" ELSE "finalizer"

\* Where Reconcile goes with the cached NamespaceSync.
entryPoint(cr) ==
    IF cr.deleting THEN IF cr.finalizer THEN "list" ELSE "idle"
    ELSE IF ~ validateNamespaceSync(cr.spec) THEN "invalid"
    ELSE IF cr.finalizer THEN "list" ELSE "finalizer"

Start(s) ==
    /\ worker.pc = "idle"
    /\ s \in queue
    /\ queue' = queue \ {s}
    /\ LET cr == syncs[s].cache
       IN  worker' = IF cr = NoSync \/ entryPoint(cr) = "idle"
                     THEN Idle
                     ELSE [Idle EXCEPT !.pc = entryPoint(cr), !.sync = s,
                                       !.self = cr,
                                       !.fresh = IsCurrent(syncs[s])]
    /\ UNCHANGED <<namespaces, objects, syncs, late, budget>>

\* RetryOnConflict around a cached Get and an Update.  While the cache lags
\* every attempt conflicts; the step stands for the last attempt made.
AddFinalizer(outcome) ==
    /\ worker.pc = "finalizer"
    /\ Ends(outcome)
    /\ LET s == worker.sync
           latest == syncs[s].cache
           found == latest # NoSync /\ latest.finalizer
           added == latest # NoSync /\ ~ latest.finalizer /\ IsCurrent(syncs[s])
       IN  /\ added \/ outcome = "answered"
           /\ IF added /\ outcome # "refused"
              THEN PutSync(s, [latest EXCEPT !.finalizer = TRUE])
              ELSE UNCHANGED syncs
           /\ IF found \/ (added /\ outcome = "answered")
              THEN worker' = [worker EXCEPT !.pc = "list", !.fresh = FALSE]
                   /\ UNCHANGED queue
              ELSE Requeue
    /\ UNCHANGED <<namespaces, objects, late>>

\* Mutants of listPeers: those being deleted count too; everything in the
\* NamespaceSync's own namespace is taken for itself.
listPeersDeletingToo(self) ==
    {syncs[p].cache.spec : p \in {p \in Sync \ {self} : syncs[p].cache # NoSync}}
listPeersElsewhere(self) == {}

\* The specs of the other NamespaceSyncs that are not being deleted.
listPeers(self) ==
    {syncs[p].cache.spec : p \in {p \in Sync \ {self} :
        syncs[p].cache # NoSync /\ ~ syncs[p].cache.deleting}}

\* The items of one reconcile.  Cleanup ignores the filters.
itemsOf(cr, targets, peers) ==
    {k \in targets \X Resource :
        IF cr.deleting
        THEN /\ listsName(cr.spec, k[2])
             /\ unclaimed(peers, cr.spec.sourceNamespace, k[1], k[2])
        ELSE syncsName(cr.spec, k[2])}

List ==
    /\ worker.pc = "list"
    /\ LET peers == listPeers(worker.sync)
           targets == {n \in Namespace :
                          /\ namespaces[n].cache # "absent"
                          /\ targetsNamespace(n, worker.self.spec)}
       IN  worker' = [worker EXCEPT !.pc = "work", !.peers = peers,
                         !.targets = targets,
                         !.todo = itemsOf(worker.self, targets, peers)]
    /\ UNCHANGED <<namespaces, objects, syncs, queue, late, budget>>

-----------------------------------------------------------------------------
(* syncSecret and syncConfigMap for one object, then updateStatus.           *)

OwnSpec == worker.self.spec

Explicit(k) == explicitTarget(k[1], OwnSpec)

SourceOf(k) == objects[<<OwnSpec.sourceNamespace, k[2]>>].cache

\* The next object to sync.
Syncing(k) == worker.pc = "work" /\ ~ worker.self.deleting /\ InTurn(k)

\* Mutant of uncachedReader: the cached client.
cachedReader(k) == objects[k].cache

\* A Get through the APIReader, past the cache.
uncachedReader(k) == Live(objects[k])

\* The Get of deleteManagedCopy.  An object that is not a copy synced from this
\* source is left alone.
GetManagedCopy(k, outcome) ==
    LET found == uncachedReader(k)
        managed == /\ found # NoObject
                   /\ isManagedCopy(found, OwnSpec.sourceNamespace, k[2])
    IN  /\ outcome # "lost"
        /\ Ends(outcome)
        /\ IF outcome = "refused" THEN ItemFailed(k)
           ELSE IF ~ managed THEN ItemDone(k)
           ELSE worker' = [worker EXCEPT !.pc = "delete", !.item = k, !.held = TRUE]
        /\ UNCHANGED <<namespaces, objects, syncs, queue, late>>

\* A source object that is gone takes its copies with it, except that outside
\* an explicit target a peer's source stays.
RemoveStaleCopy(k, outcome) ==
    /\ Syncing(k)
    /\ SourceOf(k) = NoObject
    /\ Explicit(k) \/ ~ sourceConflict(worker.peers, k[1], k[2])
    /\ GetManagedCopy(k, outcome)

KeepPeerSource(k) ==
    /\ Syncing(k)
    /\ SourceOf(k) = NoObject
    /\ ~ Explicit(k) /\ sourceConflict(worker.peers, k[1], k[2])
    /\ ItemDone(k)
    /\ UNCHANGED <<namespaces, objects, syncs, queue, late, budget>>

\* Mutant of Conflicting: a peer's source is off limits in explicit targets too.
conflictingEvenIfListed(k) ==
    \/ sourceConflict(worker.peers, k[1], k[2])
    \/ /\ objects[k].cache # NoObject
       /\ copyConflictGuard(worker.peers, k[1], k[2], OwnSpec.sourceNamespace,
                            Explicit(k), objects[k].cache)

\* A sync conflict: the object belongs to a peer or to whoever made it by hand.
Conflicting(k) ==
    LET existing == objects[k].cache
    IN  \/ ~ Explicit(k) /\ sourceConflict(worker.peers, k[1], k[2])
        \/ /\ existing # NoObject
           /\ copyConflictGuard(worker.peers, k[1], k[2], OwnSpec.sourceNamespace,
                                Explicit(k), existing)

SkipConflict(k) ==
    /\ Syncing(k)
    /\ SourceOf(k) # NoObject
    /\ Conflicting(k)
    /\ ItemSkipped(k)
    /\ UNCHANGED <<namespaces, objects, syncs, queue, late, budget>>

\* An object the worker may write, and what it wants there.
Writing(k) == Syncing(k) /\ SourceOf(k) # NoObject /\ ~ Conflicting(k)

Desired(k) == desiredCopy(SourceOf(k), OwnSpec.sourceNamespace, k[2])

\* Mutant of inSync: a new last-sync stamp makes every copy differ.
inSyncNever(k) == FALSE

\* The cached copy is what the worker wants; nothing is written then.
inSync(k) == objects[k].cache = Desired(k)

\* The type of a Secret never changes.
typeKept(k, o) == k[2][1] = "secret" => o.type = Live(objects[k]).type

\* The API server refuses to create what exists, and anything in a namespace
\* that is gone or terminating.
mayCreate(k) ==
    Live(objects[k]) = NoObject /\ Live(namespaces[k[1]]) = "active"

\* Mutant of mayUpdate: a conflict is answered by an update of whatever is live.
mayUpdateAnyVersion(k) == Live(objects[k]) \notin {NoObject, Desired(k)}

\* The API server refuses an update of a version that is not the live one, and
\* one that would change the type of a Secret.
mayUpdate(k) == IsCurrent(objects[k]) /\ typeKept(k, Desired(k))

\* The reconcile in progress as an author of writes.
Acting == [sync |-> worker.sync, spec |-> OwnSpec, peers |-> worker.peers,
           cleaning |-> worker.self.deleting]

\* The worker asks for v to be stored under k; the API server would accept it
\* if `accepted' holds.
Call(k, v, accepted, creates, current, outcome) ==
    /\ accepted \/ outcome \in {"answered", "late"}
    /\ Ends(outcome)
    /\ IF outcome = "late"
       THEN /\ late = NoWrite
            /\ late' = [key |-> k, value |-> v, creates |-> creates,
                        current |-> current, agent |-> Acting]
            /\ UNCHANGED objects
       ELSE IF accepted /\ outcome # "refused" THEN PutObject(k, v)
                                               ELSE UNCHANGED <<objects, late>>
    /\ UNCHANGED <<namespaces, syncs, queue>>

CreateCopy(k, outcome) ==
    /\ Writing(k)
    /\ objects[k].cache = NoObject
    /\ Call(k, Desired(k), mayCreate(k), TRUE, FALSE, outcome)
    /\ IF mayCreate(k) THEN ItemEnds(k, outcome) ELSE ItemFailed(k)

UpdateCopy(k, outcome) ==
    /\ Writing(k)
    /\ objects[k].cache # NoObject /\ ~ inSync(k)
    /\ Call(k, Desired(k), mayUpdate(k), FALSE, mayUpdate(k), outcome)
    /\ IF mayUpdate(k) THEN ItemEnds(k, outcome) ELSE ItemFailed(k)

KeepCopy(k) ==
    /\ Writing(k)
    /\ objects[k].cache # NoObject /\ inSync(k)
    /\ ItemDone(k)
    /\ UNCHANGED <<namespaces, objects, syncs, queue, late, budget>>

\* Mutants of mayDelete: no preconditions; preconditions taken before the Get.
mayDeleteAnyVersion == TRUE
mayDeleteNothing == FALSE

\* The delete carries preconditions: it fails on a version other than the one
\* read, and finding nothing counts as done.
mayDelete == worker.held

DeleteCopy(outcome) ==
    LET k == worker.item
        gone == Live(objects[k]) = NoObject
        accepted == ~ gone /\ mayDelete
    IN  /\ worker.pc = "delete"
        /\ Call(k, NoObject, accepted, FALSE, accepted, outcome)
        /\ IF gone \/ accepted THEN ItemEnds(k, outcome) ELSE ItemFailed(k)

\* Mutant of arrivesInTime: the API server tests no version.
arrivesAnyway == TRUE

\* A create that is late is accepted if the key is free by then, any other
\* write if the object is still the one it was meant for.
arrivesInTime == IF late.creates THEN mayCreate(late.key) ELSE late.current

\* A write the worker gave up on, or left behind when its process lost the
\* lease or died, reaches the API server.
LateWrite ==
    /\ late # NoWrite
    /\ late' = NoWrite
    /\ IF arrivesInTime
       THEN /\ objects' = [objects EXCEPT ![late.key] = Put(@, late.value)]
            /\ OutdateObject(late.key)
       ELSE UNCHANGED <<objects, worker>>
    /\ UNCHANGED <<namespaces, syncs, queue, budget>>

\* The Ready condition's reason.
readyReason(synced, failed, conflicted) ==
    IF failed = {} THEN "SyncComplete"
    ELSE IF conflicted = failed THEN "SyncConflict"
    ELSE IF synced # {} THEN "PartialSync" ELSE "SyncFailed"

\* Mutant of syncStatus: conflicts are not reported.
syncStatusWithoutConflicts(latest) ==
    LET synced == worker.targets \ worker.failed
    IN  [reason |-> readyReason(synced, worker.failed, {}),
         observedGeneration |-> latest.generation,
         syncedNamespaces |-> synced, failedNamespaces |-> worker.failed]

\* The result of the reconcile, recorded against the generation of the
\* NamespaceSync found in the cache by now.
syncStatus(latest) ==
    LET failed == worker.failed \cup worker.skipped
        synced == worker.targets \ failed
    IN  [reason |-> readyReason(synced, failed, worker.skipped \ worker.failed),
         observedGeneration |-> latest.generation,
         syncedNamespaces |-> synced, failedNamespaces |-> failed]

\* Every status carries a new LastSyncTime, so it is always a new version.
UpdateStatus(outcome) ==
    /\ worker.pc = "work" /\ ~ worker.self.deleting /\ worker.todo = {}
    /\ Ends(outcome)
    /\ LET s == worker.sync
           latest == syncs[s].cache
           accepted == latest # NoSync /\ IsCurrent(syncs[s])
       IN  /\ accepted \/ outcome = "answered"
           /\ IF accepted /\ outcome # "refused"
              THEN PutSync(s, [latest EXCEPT !.status = syncStatus(latest)])
              ELSE UNCHANGED syncs
           /\ IF accepted /\ outcome = "answered" THEN RequeueAfter ELSE Requeue
    /\ UNCHANGED <<namespaces, objects, late>>

\* The status of a spec that failed validation.  The reconcile ends in a
\* TerminalError, which is never retried, whether or not the status is stored.
invalidStatus ==
    [reason |-> "InvalidSpec", observedGeneration |-> worker.self.generation,
     syncedNamespaces |-> {}, failedNamespaces |-> {}]

UpdateInvalidSpecStatus(outcome) ==
    /\ worker.pc = "invalid"
    /\ Ends(outcome)
    /\ LET s == worker.sync
           latest == syncs[s].cache
           accepted == /\ latest # NoSync /\ IsCurrent(syncs[s])
                       /\ latest.status # invalidStatus
       IN  /\ accepted \/ outcome = "answered"
           /\ IF accepted /\ outcome # "refused"
              THEN PutSync(s, [latest EXCEPT !.status = invalidStatus])
              ELSE UNCHANGED syncs
    /\ Return
    /\ UNCHANGED <<namespaces, objects, late>>

-----------------------------------------------------------------------------
(* handleDeletionAndStatus: cleanup, then the finalizer.                     *)

CleanupItem(k, outcome) ==
    /\ worker.pc = "work" /\ worker.self.deleting /\ InTurn(k)
    /\ GetManagedCopy(k, outcome)

\* The finalizer is the only one, so the NamespaceSync goes with it.  The
\* update carries the resourceVersion read at the start.
RemoveFinalizer(outcome) ==
    /\ worker.pc = "work" /\ worker.self.deleting /\ worker.todo = {}
    /\ Ends(outcome)
    /\ LET gone == Live(syncs[worker.sync]) = NoSync
           accepted == worker.failed = {} /\ ~ gone /\ worker.fresh
       IN  /\ accepted \/ outcome = "answered"
           /\ IF accepted /\ outcome # "refused" THEN PutSync(worker.sync, NoSync)
                                                 ELSE UNCHANGED syncs
           /\ IF outcome = "answered" /\ (accepted \/ (worker.failed = {} /\ gone))
              THEN Return ELSE Requeue
    /\ UNCHANGED <<namespaces, objects, late>>

-----------------------------------------------------------------------------
(* Watches.  Each event is mapped to the NamespaceSyncs it may concern, as   *)
(* the cache knows them when it arrives.                                     *)

cachedSyncs == {s \in Sync : syncs[s].cache # NoSync}

\* Mutant of namespaceSyncPredicate: only annotations count.
annotationChangedPredicate(old, new) ==
    old = NoSync \/ new = NoSync \/ old.mark # new.mark

\* Updates that change neither generation nor annotations are dropped.
namespaceSyncPredicate(old, new) ==
    \/ old = NoSync
    \/ new = NoSync
    \/ old.generation # new.generation
    \/ old.mark # new.mark

DeliverSync(s) ==
    /\ ~ IsCurrent(syncs[s])
    /\ syncs' = [syncs EXCEPT ![s] = Observe(@)]
    /\ queue' = IF namespaceSyncPredicate(syncs[s].cache, syncs'[s].cache)
                THEN queue \cup {s} ELSE queue
    /\ UNCHANGED <<namespaces, objects, worker, late, budget>>

\* Mutants of findNamespaceSyncs and findNamespaceSyncsForResource: only what
\* happens in the source namespace counts.
findNamespaceSyncsBySource(n) ==
    {s \in cachedSyncs : syncs[s].cache.spec.sourceNamespace = n}
findNamespaceSyncsForSource(k) ==
    {s \in findNamespaceSyncsBySource(k[1]) : listsName(syncs[s].cache.spec, k[2])}

findNamespaceSyncs(n) ==
    {s \in cachedSyncs : \/ syncs[s].cache.spec.sourceNamespace = n
                         \/ targetsNamespace(n, syncs[s].cache.spec)}

DeliverNamespace(n) ==
    /\ ~ IsCurrent(namespaces[n])
    /\ namespaces' = [namespaces EXCEPT ![n] = Observe(@)]
    /\ queue' = queue \cup findNamespaceSyncs(n)
    /\ UNCHANGED <<objects, syncs, worker, late, budget>>

findNamespaceSyncsForResource(k) ==
    {s \in findNamespaceSyncs(k[1]) : listsName(syncs[s].cache.spec, k[2])}

DeliverObject(k) ==
    /\ ~ IsCurrent(objects[k])
    /\ objects' = [objects EXCEPT ![k] = Observe(@)]
    /\ queue' = queue \cup findNamespaceSyncsForResource(k)
    /\ UNCHANGED <<namespaces, syncs, worker, late, budget>>

\* The process dies and starts again: its caches are listed anew, and every
\* NamespaceSync found arrives as a create event.
Relisted(e) == Synced(Live(e))

Restart ==
    /\ Spend("restart")
    /\ namespaces' = [n \in Namespace |-> Relisted(namespaces[n])]
    /\ objects' = [k \in Key |-> Relisted(objects[k])]
    /\ syncs' = [s \in Sync |-> Relisted(syncs[s])]
    /\ queue' = {s \in Sync : Live(syncs[s]) # NoSync}
    /\ worker' = Idle
    /\ UNCHANGED late

-----------------------------------------------------------------------------
(* People and the cluster.  A manifest may set any field the API server      *)
(* allows; sourceNamespace is immutable.                                     *)

\* What people store under k: an object made by hand, or the one that is there
\* with other data.
Manifests(k) ==
    LET live == Live(objects[k])
    IN  UserObjects \cup
        (IF live = NoObject THEN {} ELSE {[live EXCEPT !.data = d] : d \in Data})

\* Creating an object takes an active namespace.
UserPut(k, o) ==
    LET live == Live(objects[k])
    IN  /\ Spend("put")
        /\ o # live
        /\ IF live = NoObject THEN Live(namespaces[k[1]]) = "active"
                              ELSE typeKept(k, o)
        /\ PutObject(k, o)
        /\ OutdateObject(k)
        /\ UNCHANGED <<namespaces, syncs, queue>>

UserDelete(k) ==
    /\ Spend("delete")
    /\ Live(objects[k]) # NoObject
    /\ PutObject(k, NoObject)
    /\ OutdateObject(k)
    /\ UNCHANGED <<namespaces, syncs, queue>>

ChangeNamespace(n, from, to) ==
    /\ Live(namespaces[n]) = from
    /\ namespaces' = [namespaces EXCEPT ![n] = Put(@, to)]
    /\ UNCHANGED <<objects, syncs, queue, worker, late>>

CreateNamespace(n) ==
    Spend("createNamespace") /\ ChangeNamespace(n, "absent", "active")

DeleteNamespace(n) ==
    Spend("deleteNamespace") /\ ChangeNamespace(n, "active", "terminating")

\* The namespace controller empties a terminating namespace, then removes it.
CollectObject(k) ==
    /\ Live(namespaces[k[1]]) = "terminating"
    /\ Live(objects[k]) # NoObject
    /\ PutObject(k, NoObject)
    /\ OutdateObject(k)
    /\ UNCHANGED <<namespaces, syncs, queue, budget>>

CollectNamespace(n) ==
    /\ \A r \in Resource : Live(objects[<<n, r>>]) = NoObject
    /\ ChangeNamespace(n, "terminating", "absent")
    /\ UNCHANGED budget

CreateSync(s, spec, finalizer) ==
    /\ Spend("createSync")
    /\ Live(syncs[s]) = NoSync
    /\ admitted(spec)
    /\ PutSync(s, NewSync(spec, finalizer))
    /\ OutdateSync(s)
    /\ UNCHANGED <<namespaces, objects, queue, late>>

EditSync(s, spec) ==
    LET cr == Live(syncs[s])
    IN  /\ Spend("editSync")
        /\ cr # NoSync
        /\ admitted(spec)
        /\ spec # cr.spec /\ spec.sourceNamespace = cr.spec.sourceNamespace
        /\ PutSync(s, [cr EXCEPT !.spec = spec, !.generation = @ + 1])
        /\ OutdateSync(s)
        /\ UNCHANGED <<namespaces, objects, queue, late>>

\* With the finalizer on it a NamespaceSync is only marked for deletion.
DeleteSync(s) ==
    LET cr == Live(syncs[s])
    IN  /\ Spend("deleteSync")
        /\ cr # NoSync /\ ~ cr.deleting
        /\ PutSync(s, IF cr.finalizer
                      THEN [cr EXCEPT !.deleting = TRUE, !.generation = @ + 1]
                      ELSE NoSync)
        /\ OutdateSync(s)
        /\ UNCHANGED <<namespaces, objects, queue, late>>

AnnotateSync(s) ==
    LET cr == Live(syncs[s])
    IN  /\ Spend("annotateSync")
        /\ cr # NoSync
        /\ PutSync(s, [cr EXCEPT !.mark = ~ @])
        /\ OutdateSync(s)
        /\ UNCHANGED <<namespaces, objects, queue, late>>

-----------------------------------------------------------------------------
ItemStep(k) ==
    \/ KeepPeerSource(k) \/ SkipConflict(k) \/ KeepCopy(k)
    \/ \E f \in Outcome : RemoveStaleCopy(k, f) \/ CleanupItem(k, f)
    \/ \E f \in WriteOutcome : CreateCopy(k, f) \/ UpdateCopy(k, f)

\* The reconcile in progress takes its next step.
WorkerStep ==
    \/ List
    \/ \E k \in Key : ItemStep(k)
    \/ \E f \in WriteOutcome : DeleteCopy(f)
    \/ \E f \in Outcome : \/ AddFinalizer(f) \/ UpdateStatus(f)
                          \/ UpdateInvalidSpecStatus(f) \/ RemoveFinalizer(f)

Delivery ==
    \/ \E s \in Sync : DeliverSync(s)
    \/ \E n \in Namespace : DeliverNamespace(n)
    \/ \E k \in Key : DeliverObject(k)

UserStep ==
    \/ \E k \in UserKeys : \/ \E o \in Manifests(k) : UserPut(k, o)
                           \/ UserDelete(k)
    \/ \E n \in Namespace : CreateNamespace(n) \/ DeleteNamespace(n)
    \/ \E s \in Sync : \/ DeleteSync(s) \/ AnnotateSync(s)
                       \/ \E spec \in SpecsOf[s] :
                             \/ EditSync(s, spec)
                             \/ \E b \in PresetFinalizer : CreateSync(s, spec, b)

Collect ==
    \/ \E k \in Key : CollectObject(k)
    \/ \E n \in Namespace : CollectNamespace(n)

Next ==
    \/ \E s \in Sync : Start(s)
    \/ WorkerStep
    \/ LateWrite
    \/ Delivery
    \/ Restart
    \/ UserStep
    \/ Collect

Spec == Init /\ [][Next]_vars

(* The worker never stops in the middle of a reconcile, timers run out and   *)
(* the work queue is first in first out, so a queued NamespaceSync gets its  *)
(* turn however often others come back; watches deliver, calls arrive and    *)
(* the namespace controller does its work.  Nothing is assumed of people and *)
(* faults.                                                                   *)
Fairness ==
    /\ WF_vars(WorkerStep)
    /\ WF_vars(LateWrite)
    /\ \A s \in Sync : /\ SF_vars(Start(s))
                       /\ WF_vars(DeliverSync(s))
    /\ WF_vars(\E n \in Namespace : DeliverNamespace(n))
    /\ WF_vars(\E k \in Key : DeliverObject(k))
    /\ WF_vars(Collect)

FairSpec == Spec /\ Fairness

=============================================================================
