----------------------------- MODULE OrphanProofs -----------------------------
(***************************************************************************)
(* Proof that no copy is ever left without a NamespaceSync that will clean *)
(* it up, for clusters of any size and any number of NamespaceSyncs that   *)
(* are created, deleted and created again with one spec each, while        *)
(* objects and namespaces are edited and deleted, calls fail and the       *)
(* process restarts.  The hypotheses, in OrderlyStart, exclude what the    *)
(* code does not handle.                                                   *)
(***************************************************************************)
EXTENDS ReconcilerProofs

CONSTANT SpecOf   \* the one spec each NamespaceSync has whenever it exists

Finalized(v) == v # NoSync /\ v.finalizer

\* p syncs copies from the source of s to where s would clean them up.
ClaimsFrom(p, s) ==
    /\ p # s
    /\ SpecOf[p].sourceNamespace = SpecOf[s].sourceNamespace
    /\ \E k \in Key : /\ targetsNamespace(k[1], SpecOf[s])
                      /\ listsName(SpecOf[s], k[2])
                      /\ targetsNamespace(k[1], SpecOf[p])
                      /\ syncsName(SpecOf[p], k[2])

Claims(p) == \E s \in Sync : ClaimsFrom(p, s)

\* p reads as its source what s writes, or would clean up.
ChainedTo(p, s) ==
    /\ p # s
    /\ targetsNamespace(SpecOf[p].sourceNamespace, SpecOf[s])
    /\ \E r \in Resource : listsName(SpecOf[s], r) /\ syncsName(SpecOf[p], r)

\* What the theorem is about: specs are not narrowed or moved; no NamespaceSync
\* without a finalizer claims what another would clean up; none reads another's
\* copies; namespaces are not created, and no write is late; people do not make
\* copies by hand; and there are no orphans to begin with.
OrderlyStart ==
    /\ \A s \in Sync : /\ SpecsOf[s] \subseteq {SpecOf[s]}
                       /\ LiveSync(s) # NoSync => LiveSync(s).spec = SpecOf[s]
    /\ \A s, p \in Sync :
          /\ ~ ChainedTo(p, s)
          /\ ClaimsFrom(p, s) => /\ FALSE \notin PresetFinalizer
                                 /\ LiveSync(p) # NoSync => LiveSync(p).finalizer
    /\ budget["createNamespace"] = 0
    /\ budget["delay"] = 0
    /\ \A o \in UserObjects : ~ IsCopy(o)
    /\ \A k \in Key : LiveObject(k) # NoObject => Live(namespaces[k[1]]) # "absent"
    /\ \A k \in Key : IsCopy(LiveObject(k)) => LiveObject(k).fromName = k[2][2]
    /\ NoOrphans

-----------------------------------------------------------------------------
(* The inductive invariant.                                                  *)

\* What stays as it was at the start.
Orderly ==
    /\ \A s \in Sync : SpecsOf[s] \subseteq {SpecOf[s]}
    /\ \A s, p \in Sync : /\ ~ ChainedTo(p, s)
                          /\ ClaimsFrom(p, s) => FALSE \notin PresetFinalizer
    /\ budget["createNamespace"] = 0
    /\ budget["delay"] = 0
    /\ \A o \in UserObjects : ~ IsCopy(o)

\* Every version of a NamespaceSync has its spec, and the finalizer if it is
\* one that claims what others would clean up.
OneSpec ==
    \A p \in Sync : \A v \in Versions(syncs[p]) \ {NoSync} :
        /\ v.spec = SpecOf[p]
        /\ Claims(p) => v.finalizer

\* The finalizer goes only when the cache holds the version being deleted, so
\* a version on its way to the cache, or a cached one that is not being
\* deleted, has the finalizer only if the live one has.
FinalizerStays ==
    \A s \in Sync :
        LET e == syncs[s]
        IN  /\ \A v \in Undelivered(e) : Finalized(v) => Finalized(Live(e))
            /\ Finalized(e.cache) /\ ~ e.cache.deleting => Finalized(Live(e))

\* What the worker knows of the NamespaceSync it reconciles.
SelfKnown ==
    worker.pc # "idle" =>
        /\ worker.self.spec = SpecOf[worker.sync]
        /\ worker.fresh => syncs[worker.sync] = Synced(worker.self)

\* The finalizer is on a NamespaceSync before any item is visited.
FinalizerFirst ==
    /\ worker.pc \in {"finalizer", "invalid"} => ~ worker.self.deleting
    /\ worker.pc = "finalizer" /\ Finalized(syncs[worker.sync].cache)
          => Finalized(LiveSync(worker.sync))
    /\ worker.pc \in {"list", "work", "delete"}
          => IF worker.self.deleting THEN worker.self.finalizer
                                     ELSE Finalized(LiveSync(worker.sync))

\* The copy under k is one that cleaning up after spec is about.
CopyUnder(spec, k) ==
    /\ IsCopy(LiveObject(k)) /\ LiveObject(k).from = spec.sourceNamespace
    /\ listsName(spec, k[2]) /\ targetsNamespace(k[1], spec)

\* A cleanup that may end by taking the finalizer off has visited every copy,
\* will visit it, has failed, or leaves it to another NamespaceSync.
CleanupCovers ==
    worker.pc \in {"work", "delete"} /\ worker.self.deleting /\ worker.fresh =>
        \A k \in Key : CopyUnder(OwnSpec, k) =>
            \/ k \in worker.todo
            \/ k[1] \in worker.failed
            \/ \E p \in Sync \ {worker.sync} : WillCleanUp(p, k)

\* A namespace that exists has always existed, as far as the cache will ever
\* know.
NamespacesOnlyGo ==
    \A n \in Namespace : Live(namespaces[n]) # "absent"
                            => "absent" \notin Versions(namespaces[n])

\* Objects are in namespaces that exist, and copies have their source's name.
Placed ==
    \A k \in Key :
        /\ LiveObject(k) # NoObject => Live(namespaces[k[1]]) # "absent"
        /\ IsCopy(LiveObject(k)) => LiveObject(k).fromName = k[2][2]

OrphanInv ==
    /\ IInv /\ Orderly /\ late = NoWrite
    /\ OneSpec /\ FinalizerStays /\ SelfKnown /\ FinalizerFirst
    /\ NamespacesOnlyGo /\ Placed /\ CleanupCovers /\ NoOrphans

-----------------------------------------------------------------------------
(* How the stored NamespaceSyncs evolve.                                     *)

\* The worker takes the finalizer off s, the last step of a cleanup in which
\* nothing failed.
TakesOff(s) ==
    /\ worker.pc = "work" /\ s = worker.sync /\ worker.self.deleting /\ worker.fresh
    /\ worker.todo = {} /\ worker.failed = {}
    /\ worker' = Idle

\* A version that may follow the live one in any other step.
Proper(s, v) ==
    /\ v # NoSync => v.spec = SpecOf[s] /\ (Claims(s) => v.finalizer)
    /\ Finalized(LiveSync(s)) => Finalized(v)

\* A new version makes the one the worker knows outdated.
Evolves(s) ==
    \/ syncs'[s] = syncs[s]
    \/ /\ ~ IsCurrent(syncs[s]) /\ syncs'[s] = Observe(syncs[s])
       /\ UNCHANGED worker
    \/ syncs'[s] = Synced(Live(syncs[s])) /\ worker' = Idle
    \/ /\ \E v \in StoredSync : syncs'[s] = Put(syncs[s], v) /\ Proper(s, v)
       /\ worker'.fresh => worker.sync # s
    \/ syncs'[s] = Put(syncs[s], NoSync) /\ TakesOff(s)

\* The live version is one that OneSpec speaks of.
LEMMA LiveSpec ==
    ASSUME TypeOK, OneSpec, NEW s \in Sync, LiveSync(s) # NoSync
    PROVE  /\ LiveSync(s) \in CR /\ LiveSync(s).spec = SpecOf[s]
           /\ Claims(s) => LiveSync(s).finalizer
<1>1. LiveSync(s) \in StoredSync /\ LiveSync(s) \in Versions(syncs[s])
  BY LiveType, VersionsFacts DEF TypeOK, LiveSync
<1> QED
  BY <1>1 DEF OneSpec, StoredSync

\* So is the cached one.
LEMMA CachedSpec ==
    ASSUME TypeOK, OneSpec, NEW s \in Sync, NEW cr, cr = syncs[s].cache, cr # NoSync
    PROVE  /\ cr \in CR /\ cr.spec = SpecOf[s]
           /\ Claims(s) => cr.finalizer
<1>1. cr \in StoredSync /\ cr \in Versions(syncs[s])
  BY VersionsFacts DEF TypeOK, Entry
<1> QED
  BY <1>1 DEF OneSpec, StoredSync

\* One NamespaceSync is stored, and the others stay as they are.
LEMMA PutEvolves ==
    ASSUME TypeOK, NEW p \in Sync, NEW v \in StoredSync, PutSync(p, v), Proper(p, v),
           worker'.fresh => worker.sync # p
    PROVE  \A s \in Sync : Evolves(s)
<1>1. \A s \in Sync : syncs'[s] = IF s = p THEN Put(syncs[p], v) ELSE syncs[s]
  BY DEF PutSync, TypeOK
<1> QED
  BY <1>1 DEF Evolves

\* What people do to NamespaceSyncs keeps the spec, and the finalizer as long as
\* there is a NamespaceSync to carry it.
LEMMA UserEvolves ==
    ASSUME TypeOK, OneSpec, Orderly, UserStep
    PROVE  \A s \in Sync : Evolves(s)
<1>1. ASSUME NEW p \in Sync, OutdateSync(p)
      PROVE  worker'.fresh => worker.sync # p
  BY <1>1 DEF OutdateSync, TypeOK, WorkerState
<1>2. ASSUME NEW p \in Sync, DeleteSync(p)
      PROVE  \A s \in Sync : Evolves(s)
  <2> DEFINE cr == Live(syncs[p])
             marked == [cr EXCEPT !.deleting = TRUE, !.generation = @ + 1]
  <2>1. cr \in CR /\ cr.spec = SpecOf[p] /\ (Claims(p) => cr.finalizer) /\ cr = LiveSync(p)
    BY <1>2, LiveSpec DEF DeleteSync, LiveSync
  <2>2. cr.generation + 1 \in Nat
    BY <2>1 DEF CR
  <2>3. marked \in CR /\ marked.spec = cr.spec /\ marked.finalizer = cr.finalizer
    BY <2>1, <2>2 DEF CR
  <2>4. PutSync(p, IF cr.finalizer THEN marked ELSE NoSync) /\ OutdateSync(p)
    BY <1>2 DEF DeleteSync
  <2>5. marked \in StoredSync /\ NoSync \in StoredSync
    BY <2>3 DEF StoredSync
  <2> HIDE DEF marked, cr
  <2>6. cr.finalizer => Proper(p, marked)
    BY <2>1, <2>3, ReconcilerAssumption DEF Proper, Finalized
  <2>7. ~ cr.finalizer => Proper(p, NoSync)
    BY <2>1 DEF Proper, Finalized
  <2> QED
    BY <1>1, <2>4, <2>5, <2>6, <2>7, PutEvolves
<1>3. ASSUME NEW p \in Sync, AnnotateSync(p)
      PROVE  \A s \in Sync : Evolves(s)
  <2> DEFINE cr == Live(syncs[p])
             v == [cr EXCEPT !.mark = ~ @]
  <2>1. cr \in CR /\ cr.spec = SpecOf[p] /\ (Claims(p) => cr.finalizer) /\ cr = LiveSync(p)
    BY <1>3, LiveSpec DEF AnnotateSync, LiveSync
  <2>2. v \in CR /\ v.spec = cr.spec /\ v.finalizer = cr.finalizer
    BY <2>1 DEF CR
  <2>3. PutSync(p, v) /\ OutdateSync(p)
    BY <1>3 DEF AnnotateSync
  <2> HIDE DEF v, cr
  <2>4. Proper(p, v) /\ v \in StoredSync
    BY <2>1, <2>2, ReconcilerAssumption DEF Proper, Finalized, StoredSync
  <2> QED
    BY <1>1, <2>3, <2>4, PutEvolves
<1>4. ASSUME NEW p \in Sync, NEW spec \in SpecsOf[p], NEW b \in PresetFinalizer,
             CreateSync(p, spec, b)
      PROVE  \A s \in Sync : Evolves(s)
  <2>1. spec = SpecOf[p] /\ spec \in NamespaceSyncSpec /\ b \in BOOLEAN
    BY ReconcilerAssumption DEF Orderly
  <2>2. Claims(p) => b
    BY <2>1 DEF Orderly, Claims
  <2>3. LiveSync(p) = NoSync /\ PutSync(p, NewSync(spec, b)) /\ OutdateSync(p)
    BY <1>4 DEF CreateSync, LiveSync
  <2>4. /\ NewSync(spec, b) \in CR
        /\ NewSync(spec, b).spec = spec /\ NewSync(spec, b).finalizer = b
    BY <2>1 DEF NewSync, CR, NoStatus, NamespaceSyncStatus, Reason
  <2>5. Proper(p, NewSync(spec, b)) /\ NewSync(spec, b) \in StoredSync
    BY <2>1, <2>2, <2>3, <2>4 DEF Proper, Finalized, StoredSync
  <2> QED
    BY <1>1, <2>3, <2>5, PutEvolves
<1>5. ASSUME NEW p \in Sync, NEW spec \in SpecsOf[p], EditSync(p, spec)
      PROVE  FALSE
  <2>1. LiveSync(p).spec = SpecOf[p]
    BY <1>5, LiveSpec DEF EditSync, LiveSync
  <2> QED
    BY <1>5, <2>1 DEF EditSync, Orderly, LiveSync
<1>6. CASE UNCHANGED syncs
  BY <1>6 DEF Evolves
<1> QED
  BY <1>2, <1>3, <1>4, <1>5, <1>6
     DEF UserStep, UserPut, UserDelete, CreateNamespace, DeleteNamespace, ChangeNamespace

\* So do the controller's own writes, but for the finalizer it takes off.
LEMMA SyncWritesEvolve ==
    ASSUME IInv, OneSpec, NEW f \in Outcome,
           \/ AddFinalizer(f) \/ UpdateStatus(f)
           \/ UpdateInvalidSpecStatus(f) \/ RemoveFinalizer(f)
    PROVE  \A s \in Sync : Evolves(s)
<1>0. PICK p, latest : p = worker.sync /\ latest = syncs[p].cache
  OBVIOUS
<1>1. p \in Sync /\ TypeOK
  BY <1>0 DEF IInv, Busy, AddFinalizer, UpdateStatus, UpdateInvalidSpecStatus,
              RemoveFinalizer
<1>2. CASE UNCHANGED syncs
  BY <1>2 DEF Evolves
<1>3. CASE RemoveFinalizer(f) /\ worker.failed = {} /\ worker.fresh /\ PutSync(p, NoSync)
  <2>1. TakesOff(p)
    BY <1>0, <1>3 DEF RemoveFinalizer, Return, Requeue, TakesOff
  <2>2. \A s \in Sync : syncs'[s] = IF s = p THEN Put(syncs[p], NoSync) ELSE syncs[s]
    BY <1>1, <1>3 DEF PutSync, TypeOK
  <2> QED
    BY <2>1, <2>2 DEF Evolves
<1>4. ASSUME latest \in CR, IsCurrent(syncs[p]), NEW v \in CR, PutSync(p, v),
             v.spec = latest.spec, latest.finalizer => v.finalizer
      PROVE  \A s \in Sync : Evolves(s)
  <2>1. ~ RemoveFinalizer(f) /\ ~ worker'.fresh
    <3>1. v \in StoredSync
      BY DEF StoredSync
    <3>2. Live(Put(syncs[p], v)) = v /\ Live(Put(syncs[p], NoSync)) = NoSync
          /\ Live(syncs[p]) = latest
      BY <1>0, <1>1, <1>4, <3>1, PutFacts DEF TypeOK, StoredSync, Live, IsCurrent
    <3>3. syncs'[p] = Put(syncs[p], v)
      BY <1>1, <1>4 DEF PutSync, TypeOK
    <3>4. v # NoSync /\ latest # NoSync
      BY <1>4, ReconcilerAssumption
    <3>5. syncs'[p] # syncs[p]
      <4>1. Put(syncs[p], v).watch # <<>> /\ syncs[p].watch = <<>>
        BY <1>1, <1>4, <3>1 DEF Put, TypeOK, Entry, IsCurrent
      <4> QED
        BY <3>3, <4>1
    <3>6. ~ RemoveFinalizer(f)
      <4>1. RemoveFinalizer(f) => PutSync(p, NoSync)
        BY <1>0, <3>5 DEF RemoveFinalizer
      <4>2. PutSync(p, NoSync) => syncs'[p] = Put(syncs[p], NoSync)
        BY <1>1 DEF PutSync, TypeOK
      <4> QED
        BY <3>2, <3>3, <3>4, <4>1, <4>2
    <3>7. worker' = Idle \/ worker' = [worker EXCEPT !.pc = "list", !.fresh = FALSE]
      BY <3>6 DEF AddFinalizer, UpdateStatus, UpdateInvalidSpecStatus, Return, Requeue,
                  RequeueAfter
    <3>8. CASE worker' = Idle
      BY <3>6, <3>8 DEF Idle
    <3>9. CASE worker' = [worker EXCEPT !.pc = "list", !.fresh = FALSE]
      BY <1>1, <3>6, <3>9 DEF TypeOK, WorkerState
    <3> QED
      BY <3>7, <3>8, <3>9
  <2>2. LiveSync(p) = latest /\ latest # NoSync
    BY <1>0, <1>4, ReconcilerAssumption DEF LiveSync, Live, IsCurrent
  <2>3. latest.spec = SpecOf[p] /\ (Claims(p) => latest.finalizer)
    BY <1>1, <2>2, LiveSpec
  <2>4. Proper(p, v) /\ v \in StoredSync
    BY <1>4, <2>2, <2>3, ReconcilerAssumption DEF Proper, Finalized, StoredSync
  <2> QED
    BY <1>1, <1>4, <2>1, <2>4, PutEvolves
<1> QED
  BY <1>0, <1>2, <1>3, <1>4, SyncWriteVersions

\* A delivery moves versions on, and a restart skips to the last.
LEMMA CachesEvolve ==
    ASSUME TypeOK, (\E s \in Sync : DeliverSync(s)) \/ Restart
    PROVE  \A s \in Sync : Evolves(s)
<1>1. ASSUME NEW p \in Sync, DeliverSync(p)
      PROVE  \A s \in Sync : Evolves(s)
  <2>1. \A s \in Sync : syncs'[s] = IF s = p THEN Observe(syncs[p]) ELSE syncs[s]
    BY <1>1 DEF DeliverSync, TypeOK
  <2> QED
    BY <1>1, <2>1 DEF Evolves, DeliverSync
<1>2. CASE Restart
  BY <1>2 DEF Restart, Relisted, Evolves
<1> QED
  BY <1>1, <1>2

\* Nothing else changes what is stored of NamespaceSyncs.
LEMMA NextEvolves ==
    ASSUME IInv, OneSpec, Orderly, [Next]_vars
    PROVE  \A s \in Sync : Evolves(s)
<1>0. TypeOK
  BY DEF IInv
<1>1. CASE UNCHANGED syncs
  BY <1>1 DEF Evolves
<1>2. CASE WorkerStep
  <2>1. ASSUME NEW k \in Key, ItemStep(k)
        PROVE  UNCHANGED syncs
    BY <2>1 DEF ItemStep, KeepPeerSource, SkipConflict, KeepCopy, RemoveStaleCopy,
                CleanupItem, GetManagedCopy, CreateCopy, UpdateCopy, Call
  <2> QED
    BY <1>1, <1>2, <2>1, SyncWritesEvolve DEF WorkerStep, List, DeleteCopy, Call
<1> QED
  BY <1>0, <1>1, <1>2, UserEvolves, CachesEvolve
     DEF Next, Start, LateWrite, Delivery, DeliverNamespace, DeliverObject,
         Collect, CollectObject, CollectNamespace, ChangeNamespace, vars

\* What that means for the live version, the cached one and those between.
Evolved(s) ==
    /\ \A v \in Versions(syncs'[s]) \ {NoSync} :
          v.spec = SpecOf[s] /\ (Claims(s) => v.finalizer)
    /\ \A v \in Undelivered(syncs'[s]) : Finalized(v) => Finalized(LiveSync(s)')
    /\ Finalized(syncs'[s].cache) /\ ~ syncs'[s].cache.deleting
          => Finalized(LiveSync(s)')
    /\ Finalized(LiveSync(s)) => Finalized(LiveSync(s)') \/ TakesOff(s)
    /\ worker'.pc # "idle"
          => \/ syncs'[s].cache = syncs[s].cache
             \/ Finalized(syncs'[s].cache) => Finalized(LiveSync(s)')
    /\ s = worker.sync /\ worker.pc # "idle" /\ worker.fresh /\ worker'.fresh
          => syncs'[s] = syncs[s]

LEMMA Evolution ==
    ASSUME IInv, OneSpec, FinalizerStays, SelfKnown, NEW s \in Sync, Evolves(s)
    PROVE  Evolved(s)
<1> DEFINE e == syncs[s]
           f == syncs'[s]
<1>1. e \in Entry(StoredSync) /\ LiveSync(s) = Live(e) /\ LiveSync(s)' = Live(f)
  BY DEF IInv, TypeOK, LiveSync
<1>2. /\ \A v \in Versions(e) \ {NoSync} : v.spec = SpecOf[s] /\ (Claims(s) => v.finalizer)
      /\ \A v \in Undelivered(e) : Finalized(v) => Finalized(Live(e))
      /\ Finalized(e.cache) /\ ~ e.cache.deleting => Finalized(Live(e))
  BY DEF OneSpec, FinalizerStays
<1>3. CASE f = e
  BY <1>1, <1>2, <1>3 DEF Evolved
<1>4. CASE ~ IsCurrent(e) /\ f = Observe(e) /\ UNCHANGED worker
  <2>1. /\ Live(f) = Live(e)
        /\ f.cache \in Undelivered(e)
        /\ Undelivered(f) \subseteq Undelivered(e)
        /\ Versions(f) \subseteq Versions(e)
    BY <1>1, <1>4, ObserveFacts, ObserveVersions
  <2>2. ~ (s = worker.sync /\ worker.pc # "idle" /\ worker.fresh)
    BY <1>4 DEF SelfKnown, Synced, IsCurrent
  <2> QED
    BY <1>1, <1>2, <1>4, <2>1, <2>2 DEF Evolved
<1>5. CASE f = Synced(Live(e)) /\ worker' = Idle
  <2>1. /\ Live(f) = Live(e) /\ f.cache = Live(e)
        /\ Undelivered(f) = {} /\ Versions(f) = {Live(e)}
    BY <1>1, <1>5, LiveType, SyncedFacts, SyncedVersions DEF Synced
  <2>2. Live(e) \in Versions(e)
    BY <1>1, VersionsFacts
  <2>3. worker'.pc = "idle" /\ ~ worker'.fresh
    BY <1>5 DEF Idle
  <2> QED
    BY <1>1, <1>2, <2>1, <2>2, <2>3 DEF Evolved
<1>6. ASSUME NEW v \in StoredSync, f = Put(e, v)
      PROVE  /\ Live(f) = v /\ f.cache = e.cache
             /\ Undelivered(f) = Undelivered(e) \cup {v}
             /\ Versions(f) = Versions(e) \cup {v}
  BY <1>1, <1>6, PutFacts, PutVersions
<1>7. ASSUME NEW v \in StoredSync, f = Put(e, v), Proper(s, v),
             worker'.fresh => worker.sync # s
      PROVE  Evolved(s)
  BY <1>1, <1>2, <1>6, <1>7 DEF Evolved, Proper
<1>8. CASE f = Put(e, NoSync) /\ TakesOff(s)
  <2>1. NoSync \in StoredSync
    BY DEF StoredSync
  <2>2. worker.pc = "work" /\ s = worker.sync /\ worker.fresh /\ worker.self.deleting
        /\ worker' = Idle
    BY <1>8 DEF TakesOff
  <2>3. e = Synced(worker.self)
    BY <2>2 DEF SelfKnown
  <2>4. Undelivered(e) = {} /\ e.cache = worker.self
    BY <2>3, SyncedVersions DEF Synced
  <2>5. worker'.pc = "idle" /\ ~ worker'.fresh
    BY <2>2 DEF Idle
  <2>6. /\ Live(f) = NoSync /\ f.cache = e.cache
        /\ Undelivered(f) = {NoSync} /\ Versions(f) = Versions(e) \cup {NoSync}
    BY <1>6, <1>8, <2>1, <2>4
  <2> QED
    BY <1>1, <1>2, <1>8, <2>2, <2>4, <2>5, <2>6 DEF Evolved, Finalized
<1> QED
  BY <1>3, <1>4, <1>5, <1>7, <1>8 DEF Evolves

\* So one spec and the finalizer stay, and a copy keeps whoever cleans it up,
\* but for the one whose cleanup ends.
LEMMA EvolutionKeeps ==
    ASSUME IInv, OneSpec, FinalizerStays, SelfKnown, Orderly, [Next]_vars
    PROVE  /\ OneSpec' /\ FinalizerStays'
           /\ \A s \in Sync : Evolved(s)
<1>1. \A s \in Sync : Evolved(s)
  BY NextEvolves, Evolution
<1>2. ASSUME NEW s
      PROVE  Claims(s)' = Claims(s)
  BY DEF Claims, ClaimsFrom
<1> QED
  BY <1>1, <1>2 DEF Evolved, OneSpec, FinalizerStays, LiveSync

-----------------------------------------------------------------------------
(* What the worker knows.                                                    *)

\* The worker goes on with the NamespaceSync it has, from the finalizer to the
\* lists and from there to the items.
SameReconcile ==
    /\ worker.pc # "idle"
    /\ worker'.sync = worker.sync /\ worker'.self = worker.self
    /\ worker'.fresh => worker.fresh
    /\ \/ worker'.pc = worker.pc
       \/ \E f \in Outcome : AddFinalizer(f) /\ worker'.pc = "list"
       \/ worker.pc \in {"list", "work", "delete"} /\ worker'.pc \in {"work", "delete"}

\* A busy worker has just begun, or goes on.
LEMMA ReconcileGoesOn ==
    ASSUME IInv, [Next]_vars, worker'.pc # "idle"
    PROVE  (\E s \in Sync : Start(s)) \/ SameReconcile
<1>0. worker \in WorkerState /\ worker.fresh \in BOOLEAN /\ worker' # Idle
  BY DEF IInv, TypeOK, WorkerState, Idle
<1>1. ASSUME NEW k \in Key, worker.pc \in {"work", "delete"},
             ItemDone(k) \/ ItemFailed(k) \/ ItemSkipped(k)
      PROVE  SameReconcile
  <2>1. /\ worker'.sync = worker.sync /\ worker'.self = worker.self
        /\ worker'.pc \in {"work", worker.pc}
    BY <1>0, <1>1 DEF ItemDone, ItemFailed, ItemSkipped, WorkerState
  <2>2. worker'.fresh = worker.fresh
    BY <1>0, <1>1 DEF ItemDone, ItemFailed, ItemSkipped, WorkerState
  <2> QED
    BY <1>1, <2>1, <2>2 DEF SameReconcile
<1>2. CASE WorkerStep
  <2>1. ASSUME NEW k \in Key, ItemStep(k)
        PROVE  SameReconcile
    <3>1. worker.pc = "work"
      BY <2>1 DEF ItemStep, KeepPeerSource, SkipConflict, KeepCopy, RemoveStaleCopy,
                  CleanupItem, CreateCopy, UpdateCopy, Writing, Syncing
    <3>2. CASE worker' = [worker EXCEPT !.pc = "delete", !.item = k, !.held = TRUE]
      <4>1. /\ worker'.sync = worker.sync /\ worker'.self = worker.self
            /\ worker'.pc = "delete"
        BY <1>0, <3>2 DEF WorkerState
      <4>2. worker'.fresh = worker.fresh
        BY <1>0, <3>2 DEF WorkerState
      <4> QED
        BY <3>1, <4>1, <4>2 DEF SameReconcile
    <3> QED
      BY <1>1, <2>1, <3>1, <3>2
         DEF ItemStep, KeepPeerSource, SkipConflict, KeepCopy, RemoveStaleCopy,
             CleanupItem, GetManagedCopy, CreateCopy, UpdateCopy, ItemEnds
  <2>2. ASSUME NEW f \in WriteOutcome, DeleteCopy(f)
        PROVE  SameReconcile
    <3>1. /\ worker.pc = "delete" /\ worker.item \in Key
          /\ ItemDone(worker.item) \/ ItemFailed(worker.item)
      BY <2>2 DEF DeleteCopy, ItemEnds, IInv, HeldCopy, TypeOK, WorkerState
    <3> QED
      BY <1>1, <3>1
  <2>3. CASE List
    <3>1. /\ worker'.sync = worker.sync /\ worker'.self = worker.self
          /\ worker'.pc = "work" /\ worker.pc = "list"
      BY <1>0, <2>3 DEF List, WorkerState
    <3>2. worker'.fresh = worker.fresh
      BY <1>0, <2>3 DEF List, WorkerState
    <3> QED
      BY <3>1, <3>2 DEF SameReconcile
  <2>4. ASSUME NEW f \in Outcome,
               \/ AddFinalizer(f) \/ UpdateStatus(f)
               \/ UpdateInvalidSpecStatus(f) \/ RemoveFinalizer(f)
        PROVE  SameReconcile
    <3>1. /\ AddFinalizer(f) /\ worker.pc = "finalizer"
          /\ worker' = [worker EXCEPT !.pc = "list", !.fresh = FALSE]
      BY <1>0, <2>4 DEF AddFinalizer, UpdateStatus, RequeueAfter,
                        UpdateInvalidSpecStatus, RemoveFinalizer, Return, Requeue
    <3>2. /\ worker'.sync = worker.sync /\ worker'.self = worker.self
          /\ worker'.pc = "list"
      BY <1>0, <3>1 DEF WorkerState
    <3>3. ~ worker'.fresh
      BY <1>0, <3>1 DEF WorkerState
    <3> QED
      BY <3>1, <3>2, <3>3 DEF SameReconcile
  <2> QED
    BY <1>2, <2>1, <2>2, <2>3, <2>4 DEF WorkerStep
<1>3. ASSUME SamePlace, worker'.fresh => worker.fresh
      PROVE  SameReconcile
  BY <1>3 DEF SamePlace, SameReconcile
<1>4. CASE UNCHANGED worker
  BY <1>4 DEF SameReconcile
<1>5. ASSUME NEW k \in Key, OutdateObject(k)
      PROVE  SameReconcile
  <2>1. worker'.fresh = worker.fresh
    BY <1>0, <1>5 DEF OutdateObject, WorkerState
  <2> QED
    BY <1>0, <1>3, <1>5, <2>1, OutdateObjectFacts
<1>6. ASSUME NEW s \in Sync, OutdateSync(s)
      PROVE  SameReconcile
  <2>1. worker'.fresh => worker.fresh
    BY <1>0, <1>6 DEF OutdateSync, WorkerState
  <2> QED
    BY <1>0, <1>3, <1>6, <2>1, OutdateSyncFacts
<1>7. CASE LateWrite
  <2>1. late.key \in Key
    BY <1>7 DEF LateWrite, IInv, TypeOK, Write
  <2> QED
    BY <1>4, <1>5, <1>7, <2>1 DEF LateWrite
<1>8. CASE UserStep
  <2>1. \/ UNCHANGED worker
        \/ \E k \in UserKeys : OutdateObject(k)
        \/ \E s \in Sync : OutdateSync(s)
    BY <1>8 DEF UserStep, UserPut, UserDelete, CreateNamespace, DeleteNamespace,
                ChangeNamespace, DeleteSync, AnnotateSync, EditSync, CreateSync
  <2> QED
    BY <1>4, <1>5, <1>6, <2>1, ReconcilerAssumption
<1>9. CASE Collect
  BY <1>4, <1>5, <1>9 DEF Collect, CollectObject, CollectNamespace, ChangeNamespace
<1> QED
  BY <1>0, <1>2, <1>4, <1>7, <1>8, <1>9
     DEF Next, Delivery, DeliverSync, DeliverNamespace, DeliverObject, Restart, vars

\* A reconcile that begins knows the cached version.
LEMMA StartKnows ==
    ASSUME IInv, NEW s \in Sync, Start(s), worker'.pc # "idle"
    PROVE  LET cr == syncs[s].cache
           IN  /\ cr # NoSync /\ UNCHANGED syncs
               /\ worker'.sync = s /\ worker'.self = cr /\ worker'.pc = entryPoint(cr)
               /\ worker'.fresh => syncs[s] = Synced(cr)
<1> DEFINE cr == syncs[s].cache
<1>0. worker' # Idle
  BY DEF Idle
<1>1. /\ cr # NoSync /\ UNCHANGED syncs
      /\ worker' = [Idle EXCEPT !.pc = entryPoint(cr), !.sync = s, !.self = cr,
                                !.fresh = IsCurrent(syncs[s])]
  BY <1>0 DEF Start
<1>2. worker'.sync = s /\ worker'.self = cr /\ worker'.pc = entryPoint(cr)
  BY <1>1 DEF Idle
<1>3. worker'.fresh = IsCurrent(syncs[s])
  BY <1>1 DEF Idle
<1>4. IsCurrent(syncs[s]) => syncs[s] = Synced(cr)
  BY DEF IsCurrent, Synced, IInv, TypeOK, Entry
<1> QED
  BY <1>1, <1>2, <1>3, <1>4

\* What the worker knows of the NamespaceSync it reconciles stays true, or is
\* known to be outdated.
LEMMA SelfKnownKeeps ==
    ASSUME IInv, OneSpec, SelfKnown, [Next]_vars, \A s \in Sync : Evolved(s)
    PROVE  SelfKnown'
<1> SUFFICES ASSUME worker'.pc # "idle"
             PROVE  /\ worker'.self.spec = SpecOf[worker'.sync]
                    /\ worker'.fresh => syncs'[worker'.sync] = Synced(worker'.self)
  BY DEF SelfKnown
<1>1. ASSUME NEW s \in Sync, Start(s)
      PROVE  /\ worker'.self.spec = SpecOf[worker'.sync]
             /\ worker'.fresh => syncs'[worker'.sync] = Synced(worker'.self)
  <2>1. TypeOK
    BY DEF IInv
  <2> QED
    BY <1>1, <2>1, StartKnows, CachedSpec
<1>2. CASE SameReconcile
  <2>1. worker.sync \in Sync /\ worker.pc # "idle"
    BY <1>2 DEF IInv, Busy, SameReconcile
  <2>2. worker'.fresh => syncs'[worker.sync] = syncs[worker.sync] /\ worker.fresh
    BY <1>2, <2>1 DEF Evolved, SameReconcile
  <2> QED
    BY <1>2, <2>1, <2>2 DEF SelfKnown, SameReconcile
<1> QED
  BY <1>1, <1>2, ReconcileGoesOn

\* A reconcile begins with the finalizer on, or before it is on.
LEMMA StartFinalizer ==
    ASSUME IInv, FinalizerStays, NEW s \in Sync, Start(s), worker'.pc # "idle"
    PROVE  FinalizerFirst'
<1> DEFINE cr == syncs[s].cache
<1>1. /\ cr # NoSync /\ UNCHANGED syncs
      /\ worker'.sync = s /\ worker'.self = cr /\ worker'.pc = entryPoint(cr)
  BY StartKnows
<1>2. LiveSync(s)' = LiveSync(s)
  BY <1>1 DEF LiveSync
<1>3. LiveSync(worker.sync)' = LiveSync(s) /\ syncs'[worker'.sync].cache = cr
  BY <1>1, <1>2 DEF LiveSync
<1>4. Finalized(cr) /\ ~ cr.deleting => Finalized(LiveSync(s))
  BY DEF FinalizerStays, LiveSync
<1> HIDE DEF cr
<1>5. /\ worker'.pc \in {"finalizer", "invalid"} => ~ cr.deleting
      /\ worker'.pc = "finalizer" => ~ Finalized(cr)
      /\ worker'.pc \in {"list", "work", "delete"} => Finalized(cr)
  BY <1>1 DEF entryPoint, Finalized
<1> QED
  BY <1>1, <1>3, <1>4, <1>5 DEF FinalizerFirst, Finalized

\* The finalizer is on when the worker goes on from AddFinalizer to the lists.
LEMMA AddedFinalizer ==
    ASSUME IInv, FinalizerFirst, NEW f \in Outcome, AddFinalizer(f), worker'.pc = "list",
           NEW s \in Sync, s = worker.sync, Evolved(s)
    PROVE  Finalized(LiveSync(s)')
<1> DEFINE latest == syncs[s].cache
           marked == [latest EXCEPT !.finalizer = TRUE]
<1>1. worker' # Idle /\ worker.pc = "finalizer"
  BY DEF Idle, AddFinalizer
<1>2. \/ latest # NoSync /\ latest.finalizer
      \/ latest # NoSync /\ PutSync(s, marked)
  BY <1>1 DEF AddFinalizer, Requeue
<1>3. CASE latest # NoSync /\ latest.finalizer
  <2>1. Finalized(LiveSync(s))
    BY <1>1, <1>3 DEF FinalizerFirst, Finalized
  <2> QED
    BY <1>1, <2>1 DEF Evolved, TakesOff
<1>4. CASE latest # NoSync /\ PutSync(s, marked)
  <2>1. latest \in CR
    BY <1>4 DEF IInv, TypeOK, Entry, StoredSync
  <2>2. marked \in CR /\ marked.finalizer
    BY <2>1 DEF CR
  <2>3. marked \in StoredSync /\ marked # NoSync
    BY <2>2, ReconcilerAssumption DEF StoredSync
  <2> HIDE DEF marked
  <2>4. syncs'[s] = Put(syncs[s], marked)
    BY <1>4 DEF PutSync, IInv, TypeOK
  <2>5. Live(syncs'[s]) = marked
    BY <2>3, <2>4, PutFacts DEF IInv, TypeOK
  <2> QED
    BY <2>2, <2>3, <2>5 DEF Finalized, LiveSync
<1> QED
  BY <1>2, <1>3, <1>4

\* No item is visited before the finalizer is on.
LEMMA FinalizerFirstKeeps ==
    ASSUME IInv, FinalizerStays, FinalizerFirst, [Next]_vars, \A s \in Sync : Evolved(s)
    PROVE  FinalizerFirst'
<1>1. CASE worker'.pc = "idle"
  BY <1>1 DEF FinalizerFirst
<1>2. ASSUME worker'.pc # "idle", NEW s \in Sync, Start(s)
      PROVE  FinalizerFirst'
  BY <1>2, StartFinalizer
<1>3. ASSUME worker'.pc # "idle", SameReconcile, NEW s \in Sync, s = worker.sync
      PROVE  FinalizerFirst'
  <2>1. /\ worker'.sync = s /\ worker'.self = worker.self
        /\ LiveSync(worker.sync)' = LiveSync(s)'
    BY <1>3 DEF SameReconcile, LiveSync
  <2>2. Finalized(LiveSync(s)) => Finalized(LiveSync(s)')
    <3>1. ~ TakesOff(s)
      BY <1>3 DEF TakesOff, Idle
    <3> QED
      BY <3>1 DEF Evolved
  <2>3. \/ syncs'[s].cache = syncs[s].cache
        \/ Finalized(syncs'[s].cache) => Finalized(LiveSync(s)')
    BY <1>3 DEF Evolved
  <2>4. CASE worker'.pc = worker.pc
    BY <1>3, <2>1, <2>2, <2>3, <2>4 DEF FinalizerFirst
  <2>5. ASSUME NEW f \in Outcome, AddFinalizer(f), worker'.pc = "list"
        PROVE  FinalizerFirst'
    <3>1. Finalized(LiveSync(s)')
      BY <1>3, <2>5, AddedFinalizer
    <3>2. ~ worker.self.deleting
      BY <2>5 DEF FinalizerFirst, AddFinalizer
    <3> QED
      BY <2>1, <2>5, <3>1, <3>2 DEF FinalizerFirst
  <2>6. CASE worker.pc \in {"list", "work", "delete"} /\ worker'.pc \in {"work", "delete"}
    BY <1>3, <2>1, <2>2, <2>6 DEF FinalizerFirst
  <2> QED
    BY <1>3, <2>4, <2>5, <2>6 DEF SameReconcile
<1>4. worker'.pc # "idle" /\ SameReconcile => worker.sync \in Sync
  BY DEF IInv, Busy, SameReconcile
<1> QED
  BY <1>1, <1>2, <1>3, <1>4, ReconcileGoesOn

-----------------------------------------------------------------------------
(* How the stored objects change.                                            *)

\* No write is late if none may be.
LEMMA NothingLate ==
    ASSUME IInv, late = NoWrite, ~ Spend("delay"), [Next]_vars
    PROVE  late' = NoWrite
<1>1. ASSUME NEW k, NEW v, PutObject(k, v)
      PROVE  late' = NoWrite
  BY <1>1 DEF PutObject
<1>2. ASSUME NEW k, NEW v, NEW accepted, NEW creates, NEW current, NEW f,
             Call(k, v, accepted, creates, current, f)
      PROVE  late' = NoWrite
  <2>1. f # "late"
    BY <1>2 DEF Call, Ends
  <2> QED
    BY <1>1, <1>2, <2>1 DEF Call
<1>3. CASE WorkerStep
  <2>1. ASSUME NEW k \in Key, ItemStep(k)
        PROVE  late' = NoWrite
    BY <1>2, <2>1 DEF ItemStep, KeepPeerSource, SkipConflict, KeepCopy,
                      RemoveStaleCopy, CleanupItem, GetManagedCopy, CreateCopy,
                      UpdateCopy
  <2> QED
    BY <1>2, <1>3, <2>1 DEF WorkerStep, List, DeleteCopy, AddFinalizer, UpdateStatus,
                            UpdateInvalidSpecStatus, RemoveFinalizer
<1>4. CASE UserStep
  BY <1>1, <1>4 DEF UserStep, UserPut, UserDelete, CreateNamespace, DeleteNamespace,
                    ChangeNamespace, DeleteSync, AnnotateSync, EditSync, CreateSync
<1>5. CASE Collect
  BY <1>1, <1>5 DEF Collect, CollectObject, CollectNamespace, ChangeNamespace
<1> QED
  BY <1>3, <1>4, <1>5
     DEF Next, Start, LateWrite, Delivery, DeliverSync, DeliverNamespace,
         DeliverObject, Restart, vars

\* An object changes by the controller, by people, or because it goes.
LEMMA ObjectChanges ==
    ASSUME IInv, [Next]_vars, NEW k \in Key, LiveObject(k)' # LiveObject(k)
    PROVE  \/ Changes(k)
           \/ LiveObject(k)' = NoObject
           \/ k \in UserKeys /\ \E o \in Manifests(k) : UserPut(k, o) /\ LiveObject(k)' = o
<1>0. objects' # objects
  BY DEF LiveObject
<1>1. ASSUME NEW j \in Key, NEW v \in Stored, PutObject(j, v)
      PROVE  j = k /\ LiveObject(k)' = v
  BY <1>1, PutObjectFacts DEF IInv, TypeOK
<1>2. CASE WorkerStep \/ LateWrite
  BY <1>2 DEF Changes
<1>3. CASE UserStep
  <2>1. ASSUME NEW j \in UserKeys, NEW o \in Manifests(j), UserPut(j, o)
        PROVE  k \in UserKeys /\ o \in Manifests(k) /\ UserPut(k, o) /\ LiveObject(k)' = o
    <3>1. j \in Key /\ o \in Stored
      BY ManifestsType
    <3>2. j = k /\ LiveObject(k)' = o
      BY <1>1, <2>1, <3>1 DEF UserPut
    <3> QED
      BY <2>1, <3>2
  <2>2. ASSUME NEW j \in UserKeys, UserDelete(j)
        PROVE  LiveObject(k)' = NoObject
    BY <1>1, <2>2, ReconcilerAssumption DEF UserDelete, Stored
  <2> QED
    BY <1>0, <1>3, <2>1, <2>2
       DEF UserStep, CreateNamespace, DeleteNamespace, ChangeNamespace, DeleteSync,
           AnnotateSync, EditSync, CreateSync
<1>4. CASE Collect
  BY <1>0, <1>1, <1>4 DEF Collect, CollectObject, CollectNamespace, ChangeNamespace,
                         Stored
<1>5. ASSUME NEW j \in Key, DeliverObject(j)
      PROVE  FALSE
  <2>1. Live(Observe(objects[j])) = Live(objects[j])
    BY <1>5, ObserveFacts DEF DeliverObject, IInv, TypeOK
  <2>2. objects'[k] = IF k = j THEN Observe(objects[j]) ELSE objects[k]
    BY <1>5 DEF DeliverObject, IInv, TypeOK
  <2> QED
    BY <2>1, <2>2 DEF LiveObject
<1>6. CASE Restart
  <2>1. objects'[k] = Synced(Live(objects[k]))
    BY <1>6 DEF Restart, Relisted
  <2> QED
    BY <2>1, LiveType, SyncedFacts DEF LiveObject, IInv, TypeOK
<1> QED
  BY <1>0, <1>2, <1>3, <1>4, <1>5, <1>6
     DEF Next, Start, Delivery, DeliverSync, DeliverNamespace, vars

\* A copy was there before, or the worker, syncing, has just written it.
LEMMA CopyComesFrom ==
    ASSUME IInv, Orderly, late = NoWrite, [Next]_vars, NEW k \in Key,
           IsCopy(LiveObject(k)')
    PROVE  \/ /\ IsCopy(LiveObject(k))
              /\ LiveObject(k)'.from = LiveObject(k).from
              /\ LiveObject(k)'.fromName = LiveObject(k).fromName
           \/ /\ WorkerStep /\ worker.pc \in {"work", "delete"} /\ ~ worker.self.deleting
              /\ targetsNamespace(k[1], OwnSpec) /\ syncsName(OwnSpec, k[2])
              /\ isManagedCopy(LiveObject(k)', OwnSpec.sourceNamespace, k[2])
<1>1. CASE LiveObject(k)' = LiveObject(k)
  BY <1>1 DEF IsCopy
<1>2. ASSUME k \in UserKeys, NEW o \in Manifests(k), LiveObject(k)' = o
      PROVE  /\ IsCopy(LiveObject(k))
             /\ LiveObject(k)'.from = LiveObject(k).from
             /\ LiveObject(k)'.fromName = LiveObject(k).fromName
  <2>1. o \notin UserObjects
    BY <1>2 DEF Orderly
  <2>2. PICK d \in Data : LiveObject(k) # NoObject /\ o = [LiveObject(k) EXCEPT !.data = d]
    BY <2>1 DEF Manifests, LiveObject
  <2>3. LiveObject(k) \in Object
    BY <2>2, LiveType DEF LiveObject, IInv, TypeOK, Stored
  <2>4. o.from = LiveObject(k).from /\ o.fromName = LiveObject(k).fromName
    BY <2>2, <2>3 DEF Object
  <2> QED
    BY <1>2, <2>2, <2>4 DEF IsCopy
<1>3. CASE Changes(k)
  <2>1. worker.pc \in {"work", "delete"} /\ Author = Acting /\ WorkerStep
    BY <1>3, ChangesAmongItems DEF Changes, LateWrite
  <2>2. Entitled(Acting, k, LiveObject(k), LiveObject(k)')
    BY <1>3, <2>1, AuthorEntitled
  <2>3. LiveObject(k)' # NoObject
    BY DEF IsCopy
  <2>4. Acting.spec = OwnSpec /\ Acting.cleaning = worker.self.deleting
    BY DEF Acting
  <2> QED
    BY <2>1, <2>2, <2>3, <2>4 DEF Entitled, Due
<1> QED
  BY <1>1, <1>2, <1>3, ObjectChanges DEF IsCopy

\* The controller creates objects in active namespaces.
LEMMA WorkerCreates ==
    ASSUME IInv, WorkerStep, NEW k \in Key, LiveObject(k) = NoObject,
           LiveObject(k)' # NoObject
    PROVE  Live(namespaces[k[1]]) = "active" /\ UNCHANGED namespaces
<1>0. objects' # objects
  BY DEF LiveObject
<1>1. ASSUME NEW j \in Key, NEW v \in Stored, PutObject(j, v)
      PROVE  j = k /\ LiveObject(k)' = v
  BY <1>1, PutObjectFacts DEF IInv, TypeOK
<1>2. ASSUME NEW j \in Key, NEW f \in WriteOutcome, CreateCopy(j, f)
      PROVE  Live(namespaces[k[1]]) = "active" /\ UNCHANGED namespaces
  <2>1. PutObject(j, Desired(j)) /\ Desired(j) \in Stored
    BY <1>0, <1>2, CreateFacts, DesiredType DEF CreateCopy
  <2>2. mayCreate(j) /\ UNCHANGED namespaces
    BY <1>0, <1>2 DEF CreateCopy, Call
  <2> QED
    BY <1>1, <2>1, <2>2 DEF mayCreate
<1>3. ASSUME NEW j \in Key, NEW f \in WriteOutcome, UpdateCopy(j, f)
      PROVE  FALSE
  <2>1. PutObject(j, Desired(j)) /\ Desired(j) \in Stored
    BY <1>0, <1>3, UpdateFacts, DesiredType DEF UpdateCopy
  <2>2. Writing(j) /\ objects[j].cache # NoObject /\ mayUpdate(j)
    BY <1>0, <1>3 DEF UpdateCopy, Call
  <2> QED
    BY <1>1, <2>1, <2>2, UpdateEntitled
<1>4. ASSUME NEW f \in WriteOutcome, DeleteCopy(f)
      PROVE  FALSE
  <2>1. worker.item \in Key /\ PutObject(worker.item, NoObject) /\ NoObject \in Stored
    BY <1>0, <1>4, DeleteFacts DEF Stored
  <2> QED
    BY <1>1, <2>1
<1> QED
  BY <1>0, <1>2, <1>3, <1>4
     DEF WorkerStep, List, ItemStep, KeepPeerSource, SkipConflict, KeepCopy,
         RemoveStaleCopy, CleanupItem, GetManagedCopy, AddFinalizer, UpdateStatus,
         UpdateInvalidSpecStatus, RemoveFinalizer

\* A namespace changes its phase by hand or when it is empty, or its cache
\* moves on; none comes back.
LEMMA NamespaceChanges ==
    ASSUME IInv, Orderly, [Next]_vars, NEW n \in Namespace
    PROVE  \/ namespaces'[n] = namespaces[n]
           \/ /\ Live(namespaces'[n]) = Live(namespaces[n])
              /\ Versions(namespaces'[n]) \subseteq Versions(namespaces[n])
           \/ /\ Live(namespaces[n]) = "active" /\ UNCHANGED objects
              /\ namespaces'[n] = Put(namespaces[n], "terminating")
           \/ /\ namespaces'[n] = Put(namespaces[n], "absent") /\ UNCHANGED objects
              /\ \A r \in Resource : Live(objects[<<n, r>>]) = NoObject
<1>0. namespaces \in [Namespace -> Entry(NamespacePhase)]
  BY DEF IInv, TypeOK
<1>1. CASE UNCHANGED namespaces
  BY <1>1
<1>2. ASSUME NEW m \in Namespace, NEW from, NEW to, ChangeNamespace(m, from, to)
      PROVE  /\ Live(namespaces[m]) = from /\ UNCHANGED objects
             /\ namespaces'[n] = IF n = m THEN Put(namespaces[m], to) ELSE namespaces[n]
  BY <1>0, <1>2 DEF ChangeNamespace
<1>3. ASSUME NEW m \in Namespace, CreateNamespace(m)
      PROVE  FALSE
  BY <1>3 DEF CreateNamespace, Spend, Orderly
<1>4. ASSUME NEW m \in Namespace, DeleteNamespace(m)
      PROVE  \/ namespaces'[n] = namespaces[n]
             \/ /\ Live(namespaces[n]) = "active" /\ UNCHANGED objects
                /\ namespaces'[n] = Put(namespaces[n], "terminating")
  BY <1>2, <1>4 DEF DeleteNamespace
<1>5. ASSUME NEW m \in Namespace, CollectNamespace(m)
      PROVE  \/ namespaces'[n] = namespaces[n]
             \/ /\ namespaces'[n] = Put(namespaces[n], "absent") /\ UNCHANGED objects
                /\ \A r \in Resource : Live(objects[<<n, r>>]) = NoObject
  BY <1>2, <1>5 DEF CollectNamespace
<1>6. ASSUME NEW m \in Namespace, DeliverNamespace(m)
      PROVE  \/ namespaces'[n] = namespaces[n]
             \/ /\ Live(namespaces'[n]) = Live(namespaces[n])
                /\ Versions(namespaces'[n]) \subseteq Versions(namespaces[n])
  <2>1. /\ Live(Observe(namespaces[m])) = Live(namespaces[m])
        /\ Versions(Observe(namespaces[m])) \subseteq Versions(namespaces[m])
    BY <1>0, <1>6, ObserveFacts, ObserveVersions DEF DeliverNamespace
  <2>2. namespaces'[n] = IF n = m THEN Observe(namespaces[m]) ELSE namespaces[n]
    BY <1>0, <1>6 DEF DeliverNamespace
  <2> QED
    BY <2>1, <2>2
<1>7. CASE Restart
  <2>1. namespaces'[n] = Synced(Live(namespaces[n]))
    BY <1>7 DEF Restart, Relisted
  <2>2. /\ Live(namespaces'[n]) = Live(namespaces[n])
        /\ Versions(namespaces'[n]) = {Live(namespaces[n])}
    BY <1>0, <2>1, LiveType, SyncedFacts, SyncedVersions
  <2>3. Live(namespaces[n]) \in Versions(namespaces[n])
    BY <1>0, VersionsFacts
  <2> QED
    BY <2>2, <2>3
<1>8. CASE WorkerStep
  <2>1. ASSUME NEW k \in Key, ItemStep(k)
        PROVE  UNCHANGED namespaces
    BY <2>1 DEF ItemStep, KeepPeerSource, SkipConflict, KeepCopy, RemoveStaleCopy,
                CleanupItem, GetManagedCopy, CreateCopy, UpdateCopy, Call
  <2> QED
    BY <1>1, <1>8, <2>1 DEF WorkerStep, List, DeleteCopy, Call, AddFinalizer,
                            UpdateStatus, UpdateInvalidSpecStatus, RemoveFinalizer
<1>9. CASE UserStep
  BY <1>1, <1>3, <1>4, <1>9 DEF UserStep, UserPut, UserDelete, DeleteSync, AnnotateSync,
                                EditSync, CreateSync
<1> QED
  BY <1>1, <1>5, <1>6, <1>7, <1>8, <1>9
     DEF Next, Start, LateWrite, Delivery, DeliverSync, DeliverObject, Collect,
         CollectObject, vars

\* The cache never misses a namespace that holds an object.
LEMMA PlacedKeeps ==
    ASSUME IInv, Orderly, late = NoWrite, NamespacesOnlyGo, Placed, [Next]_vars
    PROVE  NamespacesOnlyGo' /\ Placed'
<1>0. namespaces \in [Namespace -> Entry(NamespacePhase)]
  BY DEF IInv, TypeOK
<1>1. ASSUME NEW n \in Namespace, Live(namespaces'[n]) # "absent"
      PROVE  Live(namespaces[n]) # "absent" /\ "absent" \notin Versions(namespaces'[n])
  <2>0. {"terminating", "absent"} \subseteq NamespacePhase
    BY DEF NamespacePhase
  <2>1. CASE \/ namespaces'[n] = namespaces[n]
             \/ /\ Live(namespaces'[n]) = Live(namespaces[n])
                /\ Versions(namespaces'[n]) \subseteq Versions(namespaces[n])
    BY <1>1, <2>1 DEF NamespacesOnlyGo
  <2>2. CASE Live(namespaces[n]) = "active" /\ namespaces'[n] = Put(namespaces[n], "terminating")
    <3>1. Versions(namespaces'[n]) = Versions(namespaces[n]) \cup {"terminating"}
      BY <1>0, <2>0, <2>2, PutVersions
    <3> QED
      BY <2>2, <3>1 DEF NamespacesOnlyGo
  <2>3. CASE namespaces'[n] = Put(namespaces[n], "absent")
    BY <1>0, <1>1, <2>0, <2>3, PutFacts
  <2> QED
    BY <2>1, <2>2, <2>3, NamespaceChanges
<1>2. NamespacesOnlyGo'
  BY <1>1 DEF NamespacesOnlyGo
<1>3. ASSUME NEW k \in Key, LiveObject(k)' # NoObject
      PROVE  Live(namespaces'[k[1]]) # "absent"
  <2>1. k[1] \in Namespace /\ k[2] \in Resource /\ k = <<k[1], k[2]>>
    BY DEF Key
  <2>2. CASE LiveObject(k) = NoObject
    <3>1. CASE Changes(k)
      <4>1. WorkerStep
        BY <3>1 DEF Changes, LateWrite
      <4> QED
        BY <1>3, <2>2, <4>1, WorkerCreates
    <3>2. ASSUME NEW o, UserPut(k, o)
          PROVE  Live(namespaces'[k[1]]) # "absent"
      BY <2>2, <3>2 DEF UserPut, LiveObject
    <3> QED
      BY <1>3, <2>2, <3>1, <3>2, ObjectChanges
  <2>3. CASE LiveObject(k) # NoObject
    <3>1. Live(namespaces[k[1]]) # "absent"
      BY <2>3 DEF Placed
    <3>2. CASE namespaces'[k[1]] = Put(namespaces[k[1]], "terminating")
      BY <1>0, <2>1, <3>2, PutFacts DEF NamespacePhase
    <3>3. ~ \A r \in Resource : Live(objects[<<k[1], r>>]) = NoObject
      BY <2>1, <2>3 DEF LiveObject
    <3> QED
      BY <2>1, <3>1, <3>2, <3>3, NamespaceChanges
  <2> QED
    BY <2>2, <2>3
<1>4. ASSUME NEW k \in Key, IsCopy(LiveObject(k)')
      PROVE  LiveObject(k)'.fromName = k[2][2]
  BY <1>4, CopyComesFrom DEF Placed, isManagedCopy
<1>5. Placed'
  BY <1>3, <1>4 DEF Placed, LiveObject, IsCopy
<1> QED
  BY <1>2, <1>5

-----------------------------------------------------------------------------
(* Cleanup, and the theorem.                                                 *)

\* A cleanup goes on without dropping a copy that is still there, unless it
\* remembers that it failed.
LEMMA CleanupGoesOn ==
    ASSUME IInv, [Next]_vars, worker.self.deleting,
           worker.pc \in {"work", "delete"}, worker'.pc \in {"work", "delete"},
           NEW k \in Key, LiveObject(k)' # NoObject,
           isManagedCopy(LiveObject(k)', OwnSpec.sourceNamespace, k[2])
    PROVE  /\ worker.failed \subseteq worker'.failed
           /\ k \in worker.todo => k \in worker'.todo \/ k[1] \in worker'.failed
<1> DEFINE GoesOn == /\ worker.failed \subseteq worker'.failed
                     /\ k \in worker.todo => k \in worker'.todo \/ k[1] \in worker'.failed
<1>0. worker \in WorkerState /\ worker' # Idle
  BY DEF IInv, TypeOK, Idle
<1>1. ASSUME NEW j \in Key, ItemFailed(j)
      PROVE  GoesOn
  BY <1>0, <1>1 DEF ItemFailed, WorkerState
<1>2. ASSUME NEW j \in Key, ItemDone(j), j # k
      PROVE  GoesOn
  BY <1>0, <1>2 DEF ItemDone, WorkerState
<1>3. CASE \E j \in Key : ItemStep(j)
  <2>1. PICK j \in Key, f \in Outcome : CleanupItem(j, f)
    BY <1>3 DEF ItemStep, KeepPeerSource, SkipConflict, KeepCopy, RemoveStaleCopy,
                CreateCopy, UpdateCopy, Writing, Syncing
  <2>2. GetManagedCopy(j, f) /\ UNCHANGED objects
    BY <2>1 DEF CleanupItem, GetManagedCopy
  <2>3. CASE worker' = [worker EXCEPT !.pc = "delete", !.item = j, !.held = TRUE]
    BY <1>0, <2>3 DEF WorkerState
  <2>4. CASE ItemDone(j) /\ ~ (/\ LiveObject(j) # NoObject
                               /\ isManagedCopy(LiveObject(j), OwnSpec.sourceNamespace, j[2]))
    <3>1. LiveObject(k)' = LiveObject(k)
      BY <2>2 DEF LiveObject
    <3> QED
      BY <1>2, <2>4, <3>1
  <2> QED
    BY <1>1, <2>2, <2>3, <2>4 DEF GetManagedCopy, uncachedReader, LiveObject
<1>4. ASSUME NEW f \in WriteOutcome, DeleteCopy(f)
      PROVE  GoesOn
  <2> DEFINE j == worker.item
             gone == Live(objects[j]) = NoObject
             accepted == ~ gone /\ mayDelete
  <2>1. j \in Key /\ NoObject \in Stored
    BY <1>4 DEF DeleteCopy, IInv, HeldCopy, TypeOK, WorkerState, Stored
  <2>2. CASE ItemFailed(j)
    BY <1>1, <2>1, <2>2
  <2>3. CASE ~ ItemFailed(j)
    <3>1. ItemDone(j) /\ f = "answered" /\ (gone \/ accepted)
      BY <1>4, <2>3 DEF DeleteCopy, ItemEnds
    <3>2. gone => UNCHANGED objects
      BY <1>4, <3>1 DEF DeleteCopy, Call
    <3>3. accepted => PutObject(j, NoObject)
      BY <1>4, <3>1 DEF DeleteCopy, Call
    <3>4. ASSUME j = k
          PROVE  LiveObject(k)' = NoObject
      <4>1. CASE gone
        BY <3>2, <3>4, <4>1 DEF LiveObject
      <4>2. CASE accepted
        BY <2>1, <3>3, <3>4, <4>2, PutObjectFacts DEF IInv, TypeOK
      <4> QED
        BY <3>1, <4>1, <4>2
    <3> QED
      BY <1>2, <2>1, <3>1, <3>4
  <2> QED
    BY <2>2, <2>3
<1>5. CASE WorkerStep
  <2>1. ASSUME NEW f \in Outcome,
               \/ AddFinalizer(f) \/ UpdateStatus(f)
               \/ UpdateInvalidSpecStatus(f) \/ RemoveFinalizer(f)
        PROVE  FALSE
    BY <1>0, <2>1 DEF AddFinalizer, UpdateStatus, RequeueAfter,
                      UpdateInvalidSpecStatus, RemoveFinalizer, Return, Requeue
  <2> QED
    BY <1>3, <1>4, <1>5, <2>1 DEF WorkerStep, List
<1>6. CASE UNCHANGED worker
  BY <1>6
<1>7. ASSUME NEW x, OutdateObject(x) \/ OutdateSync(x)
      PROVE  GoesOn
  BY <1>0, <1>7 DEF OutdateObject, OutdateSync, WorkerState
<1>8. CASE UserStep
  BY <1>6, <1>7, <1>8 DEF UserStep, UserPut, UserDelete, CreateNamespace, DeleteNamespace,
                          ChangeNamespace, DeleteSync, AnnotateSync, EditSync, CreateSync
<1> QED
  BY <1>0, <1>5, <1>6, <1>7, <1>8
     DEF Next, Start, LateWrite, Collect, CollectObject, CollectNamespace,
         ChangeNamespace, Delivery, DeliverSync, DeliverNamespace, DeliverObject,
         Restart, vars

\* A NamespaceSync with the finalizer on it that syncs from where the copy came.
LEMMA Cleaner ==
    ASSUME TypeOK, OneSpec, NEW s \in Sync, NEW k \in Key
    PROVE  WillCleanUp(s, k) <=>
              /\ Finalized(LiveSync(s))
              /\ SpecOf[s].sourceNamespace = LiveObject(k).from
              /\ listsName(SpecOf[s], k[2])
              /\ targetsNamespace(k[1], SpecOf[s])
  BY LiveSpec DEF WillCleanUp, Finalized

\* Whoever will clean up a copy still will, unless its own cleanup ends.
LEMMA CleanerStays ==
    ASSUME TypeOK, OneSpec, TypeOK', OneSpec', NEW s \in Sync, Evolved(s), NEW k \in Key,
           WillCleanUp(s, k), LiveObject(k)'.from = LiveObject(k).from, ~ TakesOff(s)
    PROVE  WillCleanUp(s, k)'
<1>1. /\ Finalized(LiveSync(s))
      /\ SpecOf[s].sourceNamespace = LiveObject(k).from
      /\ listsName(SpecOf[s], k[2])
      /\ targetsNamespace(k[1], SpecOf[s])
  BY Cleaner
<1>2. Finalized(LiveSync(s)')
  BY <1>1 DEF Evolved
<1>3. LiveSync(s)' # NoSync /\ LiveSync(s)'.finalizer /\ LiveSync(s)'.spec = SpecOf[s]
  <2>1. LiveSync(s)' \in Versions(syncs'[s])
    BY VersionsFacts DEF TypeOK, LiveSync
  <2> QED
    BY <1>2, <2>1 DEF Evolved, Finalized
<1> QED
  BY <1>1, <1>3 DEF WillCleanUp

\* What List leaves out of a cleanup, another NamespaceSync will clean up: the
\* peer that claims it has the finalizer on it.
LEMMA ListCovers ==
    ASSUME IInv, Orderly, OneSpec, FinalizerStays, SelfKnown, NamespacesOnlyGo, Placed,
           List, worker.self.deleting, NEW k \in Key, CopyUnder(OwnSpec, k)
    PROVE  k \in worker'.todo \/ \E p \in Sync \ {worker.sync} : WillCleanUp(p, k)
<1>0. PICK s \in Sync : s = worker.sync
  BY DEF IInv, Busy, List
<1>1. /\ TypeOK /\ OwnSpec = SpecOf[s] /\ k[1] \in Namespace /\ k[2] \in Resource
      /\ k = <<k[1], k[2]>>
  BY <1>0 DEF IInv, SelfKnown, List, OwnSpec, Key
<1>2. /\ LiveObject(k) # NoObject /\ LiveObject(k).from = SpecOf[s].sourceNamespace
      /\ listsName(SpecOf[s], k[2]) /\ targetsNamespace(k[1], SpecOf[s])
  BY <1>1 DEF CopyUnder, IsCopy
<1>3. namespaces[k[1]].cache # "absent"
  <2>1. Live(namespaces[k[1]]) # "absent"
    BY <1>2 DEF Placed
  <2>2. namespaces[k[1]].cache \in Versions(namespaces[k[1]])
    BY <1>1, VersionsFacts DEF TypeOK
  <2> QED
    BY <1>1, <2>1, <2>2 DEF NamespacesOnlyGo
<1> DEFINE peers == listPeers(s)
           targets == {n \in Namespace : /\ namespaces[n].cache # "absent"
                                         /\ targetsNamespace(n, OwnSpec)}
<1>4. worker'.todo = itemsOf(worker.self, targets, peers)
  BY <1>0, <1>1 DEF List, TypeOK, WorkerState, OwnSpec
<1>5. k[1] \in targets
  BY <1>1, <1>2, <1>3
<1>6. ASSUME NEW spec \in peers
      PROVE  \E p \in Sync \ {s} : /\ spec = SpecOf[p]
                                   /\ Claims(p) => Finalized(LiveSync(p))
  <2>1. PICK p \in Sync \ {s} : /\ spec = syncs[p].cache.spec
                                /\ syncs[p].cache # NoSync /\ ~ syncs[p].cache.deleting
    BY DEF listPeers
  <2>2. spec = SpecOf[p] /\ (Claims(p) => syncs[p].cache.finalizer)
    BY <1>1, <2>1, CachedSpec
  <2>3. Claims(p) => Finalized(LiveSync(p))
    BY <2>1, <2>2 DEF FinalizerStays, Finalized, LiveSync
  <2> QED
    BY <2>2, <2>3
<1> HIDE DEF peers, targets
<1>7. ASSUME NEW spec \in peers, spec.sourceNamespace = k[1], syncsName(spec, k[2])
      PROVE  FALSE
  <2>1. PICK p \in Sync \ {s} : spec = SpecOf[p]
    BY <1>6
  <2>2. ChainedTo(p, s)
    BY <1>1, <1>2, <1>7, <2>1 DEF ChainedTo
  <2> QED
    BY <2>2 DEF Orderly
<1>8. ASSUME NEW spec \in peers, spec.sourceNamespace = SpecOf[s].sourceNamespace,
             syncsName(spec, k[2]), targetsNamespace(k[1], spec)
      PROVE  \E p \in Sync \ {s} : WillCleanUp(p, k)
  <2>1. PICK p \in Sync \ {s} : spec = SpecOf[p] /\ (Claims(p) => Finalized(LiveSync(p)))
    BY <1>6
  <2>2. Claims(p)
    BY <1>2, <1>8, <2>1 DEF Claims, ClaimsFrom
  <2>3. listsName(spec, k[2])
    BY <1>8 DEF syncsName
  <2> QED
    BY <1>1, <1>2, <1>8, <2>1, <2>2, <2>3, Cleaner
<1>9. CASE unclaimed(peers, SpecOf[s].sourceNamespace, k[1], k[2])
  <2>1. k \in targets \X Resource
    BY <1>1, <1>5
  <2> QED
    BY <1>1, <1>2, <1>4, <1>9, <2>1 DEF itemsOf, OwnSpec
<1>10. CASE ~ unclaimed(peers, SpecOf[s].sourceNamespace, k[1], k[2])
  <2>1. sourceOwner(peers, k[1], k[2]) = {}
    BY <1>7 DEF sourceOwner
  <2>2. copyOwner(peers, SpecOf[s].sourceNamespace, k[1], k[2]) # {}
    BY <1>10, <2>1 DEF unclaimed
  <2> QED
    BY <1>0, <1>8, <2>2 DEF copyOwner
<1> QED
  BY <1>9, <1>10

\* A cleanup that may take the finalizer off keeps covering every copy.
LEMMA CoversKeeps ==
    ASSUME OrphanInv, [Next]_vars, IInv', OneSpec', \A s \in Sync : Evolved(s)
    PROVE  CleanupCovers'
<1>0. /\ IInv /\ Orderly /\ late = NoWrite /\ OneSpec /\ FinalizerStays /\ SelfKnown
      /\ NamespacesOnlyGo /\ Placed /\ CleanupCovers /\ TypeOK /\ TypeOK'
  BY DEF OrphanInv, IInv
<1> SUFFICES ASSUME worker'.pc \in {"work", "delete"}, worker'.self.deleting, worker'.fresh,
                    NEW s \in Sync, s = worker'.sync,
                    NEW spec, spec = worker'.self.spec,
                    NEW k \in Key, IsCopy(LiveObject(k)'),
                    LiveObject(k)'.from = spec.sourceNamespace,
                    listsName(spec, k[2]), targetsNamespace(k[1], spec)
             PROVE  \/ k \in worker'.todo
                    \/ k[1] \in worker'.failed
                    \/ \E p \in Sync \ {s} : WillCleanUp(p, k)'
  <2>1. worker'.pc \in {"work", "delete"} => worker'.sync \in Sync
    BY DEF IInv, Busy
  <2> QED
    BY <2>1 DEF CleanupCovers, CopyUnder, OwnSpec, IsCopy, LiveObject, WillCleanUp
<1>1. /\ List \/ worker.pc \in {"work", "delete"}
      /\ worker.sync = s /\ worker.self = worker'.self /\ OwnSpec = spec
      /\ worker.self.deleting /\ worker.fresh
  <2>1. ASSUME NEW p \in Sync, Start(p)
        PROVE  FALSE
    <3>1. worker.pc = "idle"
      BY <2>1 DEF Start
    <3>2. ~ List
      BY <3>1 DEF List
    <3> QED
      BY <1>0, <3>1, <3>2, WorkerGoesOn
  <2>2. SameReconcile
    BY <1>0, <2>1, ReconcileGoesOn
  <2>3. List \/ worker.pc \in {"work", "delete"}
    BY <1>0, WorkerGoesOn
  <2> QED
    BY <2>2, <2>3 DEF SameReconcile, OwnSpec
<1>2. /\ IsCopy(LiveObject(k))
      /\ LiveObject(k)'.from = LiveObject(k).from
      /\ LiveObject(k)'.fromName = LiveObject(k).fromName
  BY <1>0, <1>1, CopyComesFrom
<1>3. CopyUnder(OwnSpec, k)
  BY <1>1, <1>2 DEF CopyUnder
<1>4. ASSUME NEW p \in Sync \ {s}, WillCleanUp(p, k)
      PROVE  WillCleanUp(p, k)'
  <2>1. ~ TakesOff(p)
    BY <1>1 DEF TakesOff
  <2> QED
    BY <1>0, <1>2, <1>4, <2>1, CleanerStays
<1>5. CASE List
  BY <1>0, <1>1, <1>3, <1>4, <1>5, ListCovers
<1>6. CASE worker.pc \in {"work", "delete"}
  <2>1. \/ k \in worker.todo
        \/ k[1] \in worker.failed
        \/ \E p \in Sync \ {s} : WillCleanUp(p, k)
    BY <1>0, <1>1, <1>3, <1>6 DEF CleanupCovers
  <2>2. LiveObject(k)' # NoObject /\ isManagedCopy(LiveObject(k)', OwnSpec.sourceNamespace, k[2])
    BY <1>0, <1>1, <1>2 DEF IsCopy, isManagedCopy, Placed
  <2>3. /\ worker.failed \subseteq worker'.failed
        /\ k \in worker.todo => k \in worker'.todo \/ k[1] \in worker'.failed
    BY <1>0, <1>1, <1>6, <2>2, CleanupGoesOn
  <2> QED
    BY <1>4, <2>1, <2>3
<1> QED
  BY <1>1, <1>5, <1>6

\* No step orphans a copy.
LEMMA NoOrphansKeeps ==
    ASSUME OrphanInv, [Next]_vars, IInv', OneSpec', \A s \in Sync : Evolved(s)
    PROVE  NoOrphans'
<1>0. /\ IInv /\ Orderly /\ late = NoWrite /\ OneSpec /\ SelfKnown /\ FinalizerFirst
      /\ CleanupCovers /\ NoOrphans /\ TypeOK /\ TypeOK'
  BY DEF OrphanInv, IInv
<1> SUFFICES ASSUME NEW k \in Key, IsCopy(LiveObject(k)')
             PROVE  \E s \in Sync : WillCleanUp(s, k)'
  BY DEF NoOrphans, IsCopy, LiveObject
<1>1. CASE IsCopy(LiveObject(k)) /\ LiveObject(k)'.from = LiveObject(k).from
  <2>1. PICK s \in Sync : WillCleanUp(s, k)
    BY <1>0, <1>1 DEF NoOrphans
  <2>2. CASE ~ TakesOff(s)
    BY <1>0, <1>1, <2>1, <2>2, CleanerStays
  <2>3. CASE TakesOff(s)
    <3>1. /\ worker.pc = "work" /\ s = worker.sync /\ worker.self.deleting /\ worker.fresh
          /\ worker.todo = {} /\ worker.failed = {}
      BY <2>3 DEF TakesOff
    <3>2. OwnSpec = SpecOf[s]
      BY <1>0, <3>1 DEF SelfKnown, OwnSpec
    <3>3. CopyUnder(OwnSpec, k)
      BY <1>0, <1>1, <2>1, <3>2, Cleaner DEF CopyUnder
    <3>4. PICK p \in Sync \ {s} : WillCleanUp(p, k)
      BY <1>0, <3>1, <3>3 DEF CleanupCovers
    <3>5. ~ TakesOff(p)
      BY <3>1 DEF TakesOff
    <3>6. WillCleanUp(p, k)'
      BY <1>0, <1>1, <3>4, <3>5, CleanerStays
    <3> QED
      BY <3>6
  <2> QED
    BY <2>2, <2>3
<1>2. CASE /\ worker.pc \in {"work", "delete"} /\ ~ worker.self.deleting
           /\ targetsNamespace(k[1], OwnSpec) /\ syncsName(OwnSpec, k[2])
           /\ isManagedCopy(LiveObject(k)', OwnSpec.sourceNamespace, k[2])
  <2>1. PICK s \in Sync : s = worker.sync
    BY <1>0, <1>2 DEF IInv, Busy
  <2>2. OwnSpec = SpecOf[s] /\ Finalized(LiveSync(s))
    BY <1>0, <1>2, <2>1 DEF SelfKnown, FinalizerFirst, OwnSpec
  <2>3. ~ TakesOff(s)
    BY <1>2 DEF TakesOff
  <2>4. Finalized(LiveSync(s)')
    BY <2>2, <2>3 DEF Evolved
  <2>5. LiveSync(s)' # NoSync /\ LiveSync(s)'.finalizer /\ LiveSync(s)'.spec = SpecOf[s]
    <3>1. LiveSync(s)' \in Versions(syncs'[s])
      BY <1>0, VersionsFacts DEF TypeOK, LiveSync
    <3> QED
      BY <2>4, <3>1 DEF Evolved, Finalized
  <2>6. WillCleanUp(s, k)'
    BY <1>2, <2>2, <2>5 DEF WillCleanUp, isManagedCopy, syncsName
  <2> QED
    BY <2>6
<1> QED
  BY <1>0, <1>1, <1>2, CopyComesFrom

\* What was orderly at the start stays so.
LEMMA OrderlyKeeps ==
    ASSUME IInv, Orderly, [Next]_vars
    PROVE  Orderly' /\ ~ Spend("delay")
<1>1. {"createNamespace", "delay"} \subseteq Event
  BY DEF Event
<1>2. budget'["createNamespace"] = 0 /\ budget'["delay"] = 0 /\ ~ Spend("delay")
  BY <1>1, NoneLeft DEF IInv, TypeOK, Orderly
<1> QED
  BY <1>2 DEF Orderly, ChainedTo, ClaimsFrom

\* Every step keeps the invariant.
LEMMA OrphanNext == OrphanInv /\ [Next]_vars => OrphanInv'
<1> SUFFICES ASSUME OrphanInv, [Next]_vars PROVE OrphanInv'
  OBVIOUS
<1>0. /\ IInv /\ Orderly /\ late = NoWrite /\ OneSpec /\ FinalizerStays /\ SelfKnown
      /\ FinalizerFirst /\ NamespacesOnlyGo /\ Placed
  BY DEF OrphanInv
<1>1. IInv'
  BY <1>0, NextKeeps
<1>2. Orderly' /\ late' = NoWrite
  BY <1>0, OrderlyKeeps, NothingLate
<1>3. OneSpec' /\ FinalizerStays' /\ \A s \in Sync : Evolved(s)
  BY <1>0, EvolutionKeeps
<1>4. SelfKnown' /\ FinalizerFirst'
  BY <1>0, <1>3, SelfKnownKeeps, FinalizerFirstKeeps
<1>5. NamespacesOnlyGo' /\ Placed'
  BY <1>0, PlacedKeeps
<1>6. CleanupCovers' /\ NoOrphans'
  BY <1>1, <1>3, CoversKeeps, NoOrphansKeeps
<1> QED
  BY <1>1, <1>2, <1>3, <1>4, <1>5, <1>6 DEF OrphanInv

\* The controller starts with synced caches and an idle worker.
LEMMA OrphanStart == Init /\ OrderlyStart => OrphanInv
<1> SUFFICES ASSUME Init, OrderlyStart PROVE OrphanInv
  OBVIOUS
<1>1. IInv /\ worker.pc = "idle" /\ late = NoWrite
  BY InitKeeps DEF Init, Idle
<1>2. PICK c \in Clusters : /\ syncs = [s \in Sync |-> Synced(c.syncs[s])]
                            /\ namespaces = [n \in Namespace |-> Synced(c.namespaces[n])]
  BY DEF Init
<1>3. c.syncs \in [Sync -> StoredSync] /\ c.namespaces \in [Namespace -> NamespacePhase]
  BY <1>2, ReconcilerAssumption DEF Cluster
<1>4. \A s \in Sync : /\ Live(syncs[s]) = c.syncs[s] /\ syncs[s].cache = c.syncs[s]
                      /\ Versions(syncs[s]) = {c.syncs[s]} /\ Undelivered(syncs[s]) = {}
  BY <1>2, <1>3, SyncedFacts, SyncedVersions DEF Synced
<1>5. \A n \in Namespace : /\ Live(namespaces[n]) = c.namespaces[n]
                           /\ Versions(namespaces[n]) = {c.namespaces[n]}
  BY <1>2, <1>3, SyncedFacts, SyncedVersions
<1>6. Orderly /\ Placed /\ NoOrphans
  BY DEF OrderlyStart, Orderly, Placed
<1>7. OneSpec
  <2> SUFFICES ASSUME NEW p \in Sync, LiveSync(p) # NoSync
               PROVE  /\ LiveSync(p).spec = SpecOf[p]
                      /\ Claims(p) => LiveSync(p).finalizer
    BY <1>4 DEF OneSpec, LiveSync
  <2>1. LiveSync(p).spec = SpecOf[p]
    BY DEF OrderlyStart
  <2>2. ASSUME NEW s \in Sync, ClaimsFrom(p, s)
        PROVE  LiveSync(p).finalizer
    BY <2>2 DEF OrderlyStart
  <2> QED
    BY <2>1, <2>2 DEF Claims
<1>8. FinalizerStays
  BY <1>4 DEF FinalizerStays
<1>9. NamespacesOnlyGo
  BY <1>5 DEF NamespacesOnlyGo
<1> QED
  BY <1>1, <1>6, <1>7, <1>8, <1>9
     DEF OrphanInv, SelfKnown, FinalizerFirst, CleanupCovers

\* From an orderly start no copy is ever without a NamespaceSync that will clean
\* it up, however many there are and whatever fails on the way: Reconcile adds
\* the finalizer before the first copy is written, and handleDeletionAndStatus
\* takes it off only after every copy is gone or left to a peer.
THEOREM NoCopyIsOrphaned == Spec /\ OrderlyStart => []NoOrphans
<1>1. OrphanInv => NoOrphans
  BY DEF OrphanInv
<1> QED
  BY <1>1, OrphanStart, OrphanNext, PTL DEF Spec

=============================================================================
