-------------------------- MODULE ReconcilerProofs --------------------------
(***************************************************************************)
(* Proofs, for all constants, that the controller's steps keep the types,  *)
(* that whoever writes an object is entitled to, and hence that nothing    *)
(* but its own copies are deleted and a hand-made object is changed only   *)
(* in an explicit target.                                                  *)
(***************************************************************************)
EXTENDS ReconcilerProperties, WatchedStoreProofs

-----------------------------------------------------------------------------
(* What the pieces of the actions do to the variables' types.                *)

\* An event that is paid for leaves a budget.
LEMMA SpendType ==
    ASSUME budget \in [Event -> Nat], NEW e \in Event, Spend(e)
    PROVE  budget' \in [Event -> Nat]
  BY DEF Spend

\* So does an API call of the worker, however it ends.
LEMMA EndsType ==
    ASSUME budget \in [Event -> Nat], NEW f \in WriteOutcome, Ends(f)
    PROVE  budget' \in [Event -> Nat]
<1>1. "fault" \in Event /\ "delay" \in Event
  BY DEF Event
<1>2. UNCHANGED budget \/ Spend("delay") \/ Spend("fault")
  BY DEF Ends
<1> QED
  BY <1>1, <1>2, SpendType

\* A new version changes the live value of its key and of no other.
LEMMA NewVersion ==
    ASSUME objects \in [Key -> Entry(Stored)], NEW k \in Key, NEW v \in Stored,
           objects' = [objects EXCEPT ![k] = Put(@, v)]
    PROVE  /\ objects' \in [Key -> Entry(Stored)]
           /\ LiveObject(k)' = v
           /\ \A j \in Key : j # k => LiveObject(j)' = LiveObject(j)
<1>1. Put(objects[k], v) \in Entry(Stored) /\ Live(Put(objects[k], v)) = v
  BY PutFacts
<1>2. objects'[k] = Put(objects[k], v) /\ \A j \in Key : j # k => objects'[j] = objects[j]
  OBVIOUS
<1>3. objects' \in [Key -> Entry(Stored)]
  BY <1>1
<1> QED
  BY <1>1, <1>2, <1>3 DEF LiveObject

\* A write that is late stays as it is when an object is stored, except that it
\* may become outdated.
LEMMA PutObjectFacts ==
    ASSUME objects \in [Key -> Entry(Stored)], late \in Write \cup {NoWrite},
           NEW k \in Key, NEW v \in Stored, PutObject(k, v)
    PROVE  /\ objects' \in [Key -> Entry(Stored)]
           /\ LiveObject(k)' = v
           /\ \A j \in Key : j # k => LiveObject(j)' = LiveObject(j)
           /\ late' \in Write \cup {NoWrite}
           /\ late = NoWrite <=> late' = NoWrite
           /\ late # NoWrite => /\ late'.key = late.key
                                /\ late'.value = late.value
                                /\ late'.creates = late.creates
                                /\ late'.agent = late.agent
                                /\ late'.current => late.current /\ late.key # k
<1>1. objects' = [objects EXCEPT ![k] = Put(@, v)]
  BY DEF PutObject
<1>2. /\ objects' \in [Key -> Entry(Stored)]
      /\ LiveObject(k)' = v
      /\ \A j \in Key : j # k => LiveObject(j)' = LiveObject(j)
  BY <1>1, NewVersion
<1>3. CASE late = NoWrite
  BY <1>2, <1>3 DEF PutObject
<1>4. CASE late # NoWrite
  <2>1. late \in Write /\ late' = [late EXCEPT !.current = @ /\ late.key # k]
    BY <1>4 DEF PutObject
  <2>2. late' \in Write
    BY <2>1 DEF Write
  <2>3. late' # NoWrite
    BY <2>2, ReconcilerAssumption
  <2> QED
    BY <1>2, <1>4, <2>1, <2>2, <2>3 DEF Write
<1> QED
  BY <1>3, <1>4

\* Storing a NamespaceSync keeps the type.
LEMMA PutSyncType ==
    ASSUME syncs \in [Sync -> Entry(StoredSync)],
           NEW s \in Sync, NEW v \in StoredSync, PutSync(s, v)
    PROVE  syncs' \in [Sync -> Entry(StoredSync)]
<1>1. Put(syncs[s], v) \in Entry(StoredSync)
  BY PutFacts
<1> QED
  BY <1>1 DEF PutSync

\* The versions of a NamespaceSync that are written.
LEMMA CRVersions ==
    ASSUME NEW cr \in CR, NEW spec \in NamespaceSyncSpec,
           NEW status \in NamespaceSyncStatus
    PROVE  /\ [cr EXCEPT !.spec = spec, !.generation = @ + 1] \in StoredSync
           /\ [cr EXCEPT !.deleting = TRUE, !.generation = @ + 1] \in StoredSync
           /\ [cr EXCEPT !.mark = ~ @] \in StoredSync
           /\ [cr EXCEPT !.finalizer = TRUE] \in StoredSync
           /\ [cr EXCEPT !.status = status] \in StoredSync
<1>1. cr.generation + 1 \in Nat
  BY DEF CR
<1> QED
  BY <1>1 DEF CR, StoredSync

\* The state between two reconciles is a state of the worker.
LEMMA IdleType == Idle \in WorkerState
  BY DEF Idle, WorkerState, PC, StoredSync

\* The worker after an item was dealt with: only its progress has changed.
LEMMA ItemFacts ==
    ASSUME worker \in WorkerState, NEW k \in Key,
           ItemDone(k) \/ ItemFailed(k) \/ (ItemSkipped(k) /\ worker.pc = "work")
    PROVE  /\ worker' \in WorkerState
           /\ worker'.pc = "work"
           /\ worker'.self = worker.self
           /\ worker'.sync = worker.sync
           /\ worker'.peers = worker.peers
           /\ worker'.todo \subseteq worker.todo
<1>1. k[1] \in Namespace
  BY DEF Key
<1>2. CASE ItemDone(k)
  BY <1>2 DEF ItemDone, WorkerState, PC
<1>3. CASE ItemSkipped(k) /\ worker.pc = "work"
  BY <1>1, <1>3 DEF ItemSkipped, WorkerState, PC
<1>4. CASE ItemFailed(k)
  BY <1>1, <1>4 DEF ItemFailed, WorkerState, PC
<1> QED
  BY <1>2, <1>3, <1>4

\* The worker keeps its place when others write; it only loses what it held.
SamePlace ==
    /\ worker' \in WorkerState
    /\ worker'.pc = worker.pc
    /\ worker'.self = worker.self
    /\ worker'.sync = worker.sync
    /\ worker'.peers = worker.peers
    /\ worker'.todo = worker.todo
    /\ worker'.item = worker.item

\* Somebody else's write to k leaves the worker where it is, not holding k.
LEMMA OutdateObjectFacts ==
    ASSUME worker \in WorkerState, NEW k \in Key, OutdateObject(k)
    PROVE  SamePlace /\ (worker'.held => worker.held /\ worker.item # k)
  BY DEF OutdateObject, WorkerState, SamePlace

\* A write to a NamespaceSync leaves what the worker holds of an object alone.
LEMMA OutdateSyncFacts ==
    ASSUME worker \in WorkerState, NEW s \in Sync, OutdateSync(s)
    PROVE  SamePlace /\ worker'.held = worker.held
  BY DEF OutdateSync, WorkerState, SamePlace

-----------------------------------------------------------------------------
(* The inductive invariant.  An agent, that is the worker or whoever sent the *)
(* write that is late, is entitled to what the specification Custody allows. *)
(* The grounds for it were gathered earlier: every item left to visit has    *)
(* been due since List, and at "delete" what the worker holds was found to   *)
(* be a copy of its own and not off limits by the Get past the cache.        *)

\* The object under k is one a has to deal with.
Due(a, k) ==
    /\ targetsNamespace(k[1], a.spec)
    /\ IF a.cleaning
       THEN /\ listsName(a.spec, k[2])
            /\ unclaimed(a.peers, a.spec.sourceNamespace, k[1], k[2])
       ELSE syncsName(a.spec, k[2])

\* It is a peer's source, in a namespace a does not list.
OffLimits(a, k) ==
    ~ explicitTarget(k[1], a.spec) /\ sourceConflict(a.peers, k[1], k[2])

\* The agent a may have o replaced by v under k.
Entitled(a, k, o, v) ==
    /\ Due(a, k)
    /\ ~ a.cleaning => ~ OffLimits(a, k)
    /\ IF v = NoObject
       THEN /\ o # NoObject
            /\ isManagedCopy(o, a.spec.sourceNamespace, k[2])
       ELSE /\ ~ a.cleaning
            /\ isManagedCopy(v, a.spec.sourceNamespace, k[2])
            /\ v.labels \cap SourceOnlyKeys = {}
            /\ o # NoObject =>
                  ~ copyConflictGuard(a.peers, k[1], k[2], a.spec.sourceNamespace,
                                      explicitTarget(k[1], a.spec), o)

\* Only a valid spec is synced, and peers are listed by List.
Busy ==
    worker.pc # "idle" =>
        /\ worker.sync \in Sync
        /\ worker.self \in CR
        /\ worker.pc # "invalid" /\ ~ worker.self.deleting
              => validateNamespaceSync(worker.self.spec)
        /\ worker.pc \notin {"work", "delete"} => worker.peers = {}

ItemsDue ==
    worker.pc \in {"work", "delete"} => \A k \in worker.todo : Due(Acting, k)

HeldCopy ==
    worker.pc = "delete" =>
        /\ worker.item \in worker.todo
        /\ ~ worker.self.deleting => ~ OffLimits(Acting, worker.item)
        /\ worker.held =>
              /\ LiveObject(worker.item) # NoObject
              /\ isManagedCopy(LiveObject(worker.item), OwnSpec.sourceNamespace,
                               worker.item[2])

\* A write that is late is still right for the live object, or outdated.  A
\* create is right for a key that is free.
LateSound ==
    late # NoWrite =>
        /\ late.creates => /\ late.value # NoObject
                           /\ Entitled(late.agent, late.key, NoObject, late.value)
        /\ ~ late.creates /\ late.current
              => /\ LiveObject(late.key) # NoObject
                 /\ Entitled(late.agent, late.key, LiveObject(late.key), late.value)

IInv == TypeOK /\ Busy /\ ItemsDue /\ HeldCopy /\ LateSound

\* Nothing changes about a late write while nothing is stored.
LEMMA LateAside ==
    ASSUME IInv, UNCHANGED late, \A k \in Key : LiveObject(k)' = LiveObject(k)
    PROVE  LateSound'
<1> SUFFICES ASSUME late # NoWrite
             PROVE  LateSound'
  BY DEF LateSound
<1>1. late.key \in Key
  BY DEF IInv, TypeOK, Write
<1>2. LiveObject(late.key)' = LiveObject(late.key)
  BY <1>1 DEF LiveObject
<1> QED
  BY <1>2 DEF IInv, LateSound

\* What is stored under its key makes it outdated.
LEMMA LateOutdated ==
    ASSUME IInv, NEW k \in Key, NEW v \in Stored, PutObject(k, v)
    PROVE  LateSound'
<1> SUFFICES ASSUME late' # NoWrite
             PROVE  LateSound'
  BY DEF LateSound
<1>1. /\ \A j \in Key : j # k => LiveObject(j)' = LiveObject(j)
      /\ late # NoWrite
      /\ late'.key = late.key
      /\ late'.value = late.value
      /\ late'.creates = late.creates
      /\ late'.agent = late.agent
      /\ late'.current => late.current /\ late.key # k
  BY PutObjectFacts DEF IInv, TypeOK
<1>2. late.key \in Key
  BY <1>1 DEF IInv, TypeOK, Write
<1>3. late.key # k => LiveObject(late.key)' = LiveObject(late.key)
  BY <1>1, <1>2 DEF LiveObject
<1> QED
  BY <1>1, <1>3 DEF IInv, LateSound

\* Somebody else's step keeps the part of the invariant about the worker, if
\* the worker no longer holds what the step changed.
LEMMA OthersKeepWorker ==
    ASSUME IInv, SamePlace,
           worker'.held /\ worker.pc = "delete"
              => worker.held /\ LiveObject(worker.item)' = LiveObject(worker.item)
    PROVE  (Busy /\ ItemsDue /\ HeldCopy)'
<1>1. Busy'
  BY DEF IInv, Busy, SamePlace
<1>0. Acting' = Acting
  BY DEF SamePlace, Acting, OwnSpec
<1>2. ItemsDue'
  BY <1>0 DEF IInv, ItemsDue, SamePlace, Due
<1>3. HeldCopy'
  <2> SUFFICES ASSUME worker'.pc = "delete"
               PROVE  /\ worker'.item \in worker'.todo
                      /\ ~ worker.self.deleting => ~ OffLimits(Acting, worker.item)
                      /\ worker'.held =>
                           /\ LiveObject(worker.item)' # NoObject
                           /\ isManagedCopy(LiveObject(worker.item)',
                                 worker'.self.spec.sourceNamespace, worker'.item[2])
    BY <1>0 DEF HeldCopy, OwnSpec, SamePlace, OffLimits
  <2> QED
    BY DEF IInv, HeldCopy, SamePlace, OwnSpec
<1> QED
  BY <1>1, <1>2, <1>3

\* An object written by somebody else is no longer held by the worker.
LEMMA OthersPutObject ==
    ASSUME IInv, NEW k \in Key, NEW v \in Stored, PutObject(k, v), OutdateObject(k),
           budget' \in [Event -> Nat], UNCHANGED <<namespaces, syncs, queue>>
    PROVE  IInv'
<1>1. /\ objects' \in [Key -> Entry(Stored)] /\ worker' \in WorkerState
      /\ late' \in Write \cup {NoWrite}
  BY PutObjectFacts, OutdateObjectFacts DEF IInv, TypeOK, SamePlace
<1>2. TypeOK'
  BY <1>1 DEF IInv, TypeOK
<1>3. ASSUME worker'.held, worker.pc = "delete"
      PROVE  worker.held /\ LiveObject(worker.item)' = LiveObject(worker.item)
  <2>1. worker.held /\ worker.item # k
    BY <1>3, OutdateObjectFacts DEF IInv, TypeOK
  <2>2. worker.item \in Key
    BY <1>3 DEF IInv, TypeOK, HeldCopy, WorkerState
  <2>3. worker'.item = worker.item
    BY OutdateObjectFacts DEF IInv, TypeOK, SamePlace
  <2>4. \A j \in Key : j # k => LiveObject(j)' = LiveObject(j)
    BY PutObjectFacts DEF IInv, TypeOK
  <2> QED
    BY <2>1, <2>2, <2>3, <2>4 DEF LiveObject
<1>4. (Busy /\ ItemsDue /\ HeldCopy)'
  BY <1>3, OthersKeepWorker, OutdateObjectFacts DEF IInv, TypeOK
<1>5. LateSound'
  BY LateOutdated
<1> QED
  BY <1>2, <1>4, <1>5 DEF IInv

\* So is a NamespaceSync; no object changes with it.
LEMMA OthersPutSync ==
    ASSUME IInv, NEW s \in Sync, NEW v \in StoredSync, PutSync(s, v), OutdateSync(s),
           budget' \in [Event -> Nat], UNCHANGED <<namespaces, objects, queue, late>>
    PROVE  IInv'
<1>1. syncs' \in [Sync -> Entry(StoredSync)] /\ SamePlace /\ worker'.held = worker.held
  BY PutSyncType, OutdateSyncFacts DEF IInv, TypeOK
<1>2. TypeOK'
  BY <1>1 DEF IInv, TypeOK, SamePlace
<1>3. LiveObject(worker.item)' = LiveObject(worker.item)
  BY <1>1 DEF LiveObject, SamePlace
<1>4. (Busy /\ ItemsDue /\ HeldCopy)'
  BY <1>1, <1>3, OthersKeepWorker
<1>5. LateSound'
  BY LateAside DEF LiveObject
<1> QED
  BY <1>2, <1>4, <1>5 DEF IInv

\* Steps that leave the worker and the live objects alone keep the invariant.
LEMMA WorkerAside ==
    ASSUME IInv, TypeOK', UNCHANGED <<worker, late>>,
           \A k \in Key : LiveObject(k)' = LiveObject(k)
    PROVE  IInv'
<1>1. SamePlace
  BY DEF IInv, TypeOK, SamePlace
<1>2. worker.pc = "delete" => worker.item \in Key
  BY DEF IInv, TypeOK, HeldCopy, WorkerState
<1>3. (Busy /\ ItemsDue /\ HeldCopy)'
  BY <1>1, <1>2, OthersKeepWorker
<1>4. LateSound'
  BY LateAside
<1> QED
  BY <1>3, <1>4 DEF IInv

\* What people store are objects.
LEMMA ManifestsType ==
    ASSUME IInv, NEW k \in UserKeys, NEW o \in Manifests(k)
    PROVE  k \in Key /\ o \in Stored
<1>1. k \in Key /\ UserObjects \subseteq Object
  BY ReconcilerAssumption
<1>2. Live(objects[k]) \in Stored
  BY <1>1, LiveType DEF IInv, TypeOK
<1>3. \A x \in Object, d \in Data : [x EXCEPT !.data = d] \in Object
  BY DEF Object
<1> QED
  BY <1>1, <1>2, <1>3 DEF Manifests, Stored

\* What people do keeps the invariant.
LEMMA UserKeeps == IInv /\ UserStep => IInv'
<1> SUFFICES ASSUME IInv, UserStep PROVE IInv'
  OBVIOUS
<1> USE DEF Event
<1>1. ASSUME NEW k \in UserKeys, NEW o \in Manifests(k), UserPut(k, o)
      PROVE  IInv'
  <2>1. k \in Key /\ o \in Stored
    BY ManifestsType
  <2>2. budget' \in [Event -> Nat]
    BY <1>1, SpendType DEF UserPut, IInv, TypeOK
  <2> QED
    BY <1>1, <2>1, <2>2, OthersPutObject DEF UserPut
<1>2. ASSUME NEW k \in UserKeys, UserDelete(k)
      PROVE  IInv'
  <2>1. k \in Key /\ NoObject \in Stored
    BY ReconcilerAssumption DEF Stored
  <2>2. budget' \in [Event -> Nat]
    BY <1>2, SpendType DEF UserDelete, IInv, TypeOK
  <2> QED
    BY <1>2, <2>1, <2>2, OthersPutObject DEF UserDelete
<1>3. ASSUME NEW n \in Namespace, CreateNamespace(n) \/ DeleteNamespace(n)
      PROVE  IInv'
  <2>1. budget' \in [Event -> Nat]
    BY <1>3, SpendType DEF CreateNamespace, DeleteNamespace, IInv, TypeOK
  <2>2. PICK to \in NamespacePhase : namespaces' = [namespaces EXCEPT ![n] = Put(@, to)]
    BY <1>3 DEF CreateNamespace, DeleteNamespace, ChangeNamespace, NamespacePhase
  <2>3. Put(namespaces[n], to) \in Entry(NamespacePhase)
    BY PutFacts DEF IInv, TypeOK
  <2>4. UNCHANGED <<objects, syncs, queue, worker, late>>
    BY <1>3 DEF CreateNamespace, DeleteNamespace, ChangeNamespace
  <2>5. TypeOK'
    BY <2>1, <2>2, <2>3, <2>4 DEF IInv, TypeOK
  <2> QED
    BY <2>4, <2>5, WorkerAside DEF LiveObject
<1>4. ASSUME NEW s \in Sync, DeleteSync(s)
      PROVE  IInv'
  <2> DEFINE cr == Live(syncs[s])
  <2>1. cr \in StoredSync
    BY LiveType DEF IInv, TypeOK
  <2> DEFINE v == IF cr.finalizer
                  THEN [cr EXCEPT !.deleting = TRUE, !.generation = @ + 1]
                  ELSE NoSync
  <2>2. v \in StoredSync
    <3>1. cr \in CR /\ cr.spec \in NamespaceSyncSpec /\ cr.status \in NamespaceSyncStatus
      BY <1>4, <2>1 DEF DeleteSync, StoredSync, CR
    <3>2. [cr EXCEPT !.deleting = TRUE, !.generation = @ + 1] \in StoredSync
      BY <3>1, CRVersions
    <3> QED
      BY <3>2 DEF StoredSync
  <2>3. budget' \in [Event -> Nat]
    BY <1>4, SpendType DEF DeleteSync, IInv, TypeOK
  <2> QED
    BY <1>4, <2>2, <2>3, OthersPutSync DEF DeleteSync
<1>5. ASSUME NEW s \in Sync, AnnotateSync(s)
      PROVE  IInv'
  <2> DEFINE cr == Live(syncs[s])
  <2>1. cr \in CR
    BY <1>5, LiveType DEF IInv, TypeOK, AnnotateSync, StoredSync
  <2>2. [cr EXCEPT !.mark = ~ @] \in StoredSync
    BY <2>1 DEF StoredSync, CR
  <2>3. budget' \in [Event -> Nat]
    BY <1>5, SpendType DEF AnnotateSync, IInv, TypeOK
  <2> QED
    BY <1>5, <2>2, <2>3, OthersPutSync DEF AnnotateSync
<1>6. ASSUME NEW s \in Sync, NEW spec \in SpecsOf[s], EditSync(s, spec)
      PROVE  IInv'
  <2> DEFINE cr == Live(syncs[s])
  <2>1. cr \in CR /\ spec \in NamespaceSyncSpec
    BY <1>6, LiveType, ReconcilerAssumption DEF IInv, TypeOK, EditSync, StoredSync
  <2>2. [cr EXCEPT !.spec = spec, !.generation = @ + 1] \in StoredSync
    <3>1. cr.status \in NamespaceSyncStatus
      BY <2>1 DEF CR
    <3> QED
      BY <2>1, <3>1, CRVersions
  <2>3. budget' \in [Event -> Nat]
    BY <1>6, SpendType DEF EditSync, IInv, TypeOK
  <2> QED
    BY <1>6, <2>2, <2>3, OthersPutSync DEF EditSync
<1>7. ASSUME NEW s \in Sync, NEW spec \in SpecsOf[s], NEW b \in PresetFinalizer,
             CreateSync(s, spec, b)
      PROVE  IInv'
  <2>1. spec \in NamespaceSyncSpec /\ b \in BOOLEAN
    BY ReconcilerAssumption
  <2>2. NewSync(spec, b) \in StoredSync
    BY <2>1 DEF NewSync, StoredSync, CR, NoStatus, NamespaceSyncStatus, Reason
  <2>3. budget' \in [Event -> Nat]
    BY <1>7, SpendType DEF CreateSync, IInv, TypeOK
  <2> QED
    BY <1>7, <2>2, <2>3, OthersPutSync DEF CreateSync
<1> QED
  BY <1>1, <1>2, <1>3, <1>4, <1>5, <1>6, <1>7 DEF UserStep

\* The namespace controller keeps the invariant.
LEMMA CollectKeeps == IInv /\ Collect => IInv'
<1> SUFFICES ASSUME IInv, Collect PROVE IInv'
  OBVIOUS
<1>1. ASSUME NEW k \in Key, CollectObject(k)
      PROVE  IInv'
  <2>1. NoObject \in Stored /\ budget' \in [Event -> Nat]
    BY <1>1 DEF Stored, CollectObject, IInv, TypeOK
  <2> QED
    BY <1>1, <2>1, OthersPutObject DEF CollectObject
<1>2. ASSUME NEW n \in Namespace, CollectNamespace(n)
      PROVE  IInv'
  <2>1. Put(namespaces[n], "absent") \in Entry(NamespacePhase)
    BY PutFacts DEF IInv, TypeOK, NamespacePhase
  <2>2. UNCHANGED <<objects, syncs, queue, worker, late, budget>>
    BY <1>2 DEF CollectNamespace, ChangeNamespace
  <2>3. TypeOK'
    BY <1>2, <2>1, <2>2 DEF IInv, TypeOK, CollectNamespace, ChangeNamespace
  <2> QED
    BY <2>2, <2>3, WorkerAside DEF LiveObject
<1> QED
  BY <1>1, <1>2 DEF Collect

\* Watch deliveries keep the invariant: they change no live value.
LEMMA DeliveryKeeps == IInv /\ Delivery => IInv'
<1> SUFFICES ASSUME IInv, Delivery PROVE IInv'
  OBVIOUS
<1>1. ASSUME NEW s \in Sync, DeliverSync(s)
      PROVE  IInv'
  <2>1. Observe(syncs[s]) \in Entry(StoredSync)
    BY <1>1, ObserveFacts DEF IInv, TypeOK, DeliverSync
  <2>2. syncs' \in [Sync -> Entry(StoredSync)] /\ queue' \subseteq Sync
    BY <1>1, <2>1 DEF IInv, TypeOK, DeliverSync
  <2>3. UNCHANGED <<namespaces, objects, worker, late, budget>>
    BY <1>1 DEF DeliverSync
  <2>4. TypeOK'
    BY <2>2, <2>3 DEF IInv, TypeOK
  <2> QED
    BY <2>3, <2>4, WorkerAside DEF LiveObject
<1>2. ASSUME NEW n \in Namespace, DeliverNamespace(n)
      PROVE  IInv'
  <2>1. Observe(namespaces[n]) \in Entry(NamespacePhase)
    BY <1>2, ObserveFacts DEF IInv, TypeOK, DeliverNamespace
  <2>2. namespaces' \in [Namespace -> Entry(NamespacePhase)] /\ queue' \subseteq Sync
    BY <1>2, <2>1 DEF IInv, TypeOK, DeliverNamespace, findNamespaceSyncs, cachedSyncs
  <2>3. UNCHANGED <<objects, syncs, worker, late, budget>>
    BY <1>2 DEF DeliverNamespace
  <2>4. TypeOK'
    BY <2>2, <2>3 DEF IInv, TypeOK
  <2> QED
    BY <2>3, <2>4, WorkerAside DEF LiveObject
<1>3. ASSUME NEW k \in Key, DeliverObject(k)
      PROVE  IInv'
  <2>1. /\ Observe(objects[k]) \in Entry(Stored)
        /\ Live(Observe(objects[k])) = Live(objects[k])
    BY <1>3, ObserveFacts DEF IInv, TypeOK, DeliverObject
  <2>2. queue' \subseteq Sync
    BY <1>3 DEF IInv, TypeOK, DeliverObject, findNamespaceSyncsForResource,
                findNamespaceSyncs, cachedSyncs
  <2>3. objects' \in [Key -> Entry(Stored)]
    BY <1>3, <2>1 DEF IInv, TypeOK, DeliverObject
  <2>4. UNCHANGED <<namespaces, syncs, worker, late, budget>>
    BY <1>3 DEF DeliverObject
  <2>5. TypeOK'
    BY <2>2, <2>3, <2>4 DEF IInv, TypeOK
  <2>6. \A j \in Key : objects'[j] = IF j = k THEN Observe(objects[k]) ELSE objects[j]
    BY <1>3 DEF IInv, TypeOK, DeliverObject
  <2>7. \A j \in Key : LiveObject(j)' = LiveObject(j)
    BY <2>1, <2>6 DEF LiveObject
  <2> QED
    BY <2>4, <2>5, <2>7, WorkerAside
<1> QED
  BY <1>1, <1>2, <1>3 DEF Delivery

\* An idle worker has nothing to keep.
LEMMA IdleKeeps ==
    ASSUME TypeOK', worker' = Idle, LateSound'
    PROVE  IInv'
  BY DEF IInv, Idle, Busy, ItemsDue, HeldCopy

\* A restart begins with fresh caches and an idle worker.
LEMMA RestartKeeps == IInv /\ Restart => IInv'
<1> SUFFICES ASSUME IInv, Restart PROVE IInv'
  OBVIOUS
<1>1. \A n \in Namespace : Relisted(namespaces[n]) \in Entry(NamespacePhase)
  BY LiveType, SyncedFacts DEF Relisted, IInv, TypeOK
<1>2. \A k \in Key : Relisted(objects[k]) \in Entry(Stored)
  BY LiveType, SyncedFacts DEF Relisted, IInv, TypeOK
<1>3. \A s \in Sync : Relisted(syncs[s]) \in Entry(StoredSync)
  BY LiveType, SyncedFacts DEF Relisted, IInv, TypeOK
<1>4. budget' \in [Event -> Nat]
  BY SpendType DEF Restart, Event, IInv, TypeOK
<1>5. TypeOK'
  BY <1>1, <1>2, <1>3, <1>4, IdleType DEF Restart, IInv, TypeOK
<1>6. \A k \in Key : LiveObject(k)' = LiveObject(k)
  BY LiveType, SyncedFacts DEF Restart, Relisted, LiveObject, IInv, TypeOK
<1>7. LateSound'
  BY <1>6, LateAside DEF Restart
<1> QED
  BY <1>5, <1>7, IdleKeeps DEF Restart

\* The worker begins with what the cache holds.
LEMMA StartKeeps == ASSUME NEW s \in Sync, IInv, Start(s) PROVE IInv'
<1> DEFINE cr == syncs[s].cache
<1>1. UNCHANGED <<namespaces, objects, syncs, late, budget>> /\ queue' \subseteq Sync
  BY DEF Start, IInv, TypeOK
<1>0. LateSound'
  BY <1>1, LateAside DEF LiveObject
<1>2. CASE worker' = Idle
  BY <1>0, <1>1, <1>2, IdleType, IdleKeeps DEF IInv, TypeOK
<1>3. CASE worker' # Idle
  <2>1. cr \in CR
    BY <1>3 DEF Start, IInv, TypeOK, Entry, StoredSync
  <2>2. /\ entryPoint(cr) \in {"invalid", "finalizer", "list"}
        /\ entryPoint(cr) # "invalid" /\ ~ cr.deleting => validateNamespaceSync(cr.spec)
    BY <1>3 DEF Start, entryPoint
  <2>3. worker' = [Idle EXCEPT !.pc = entryPoint(cr), !.sync = s, !.self = cr,
                               !.fresh = IsCurrent(syncs[s])]
    BY <1>3 DEF Start
  <2>4. worker' \in WorkerState /\ worker'.pc = entryPoint(cr) /\ worker'.sync = s
        /\ worker'.self = cr /\ worker'.peers = {}
    BY <2>1, <2>2, <2>3, IdleType DEF WorkerState, PC, StoredSync, IsCurrent, Idle
  <2>5. TypeOK'
    BY <1>1, <2>4 DEF IInv, TypeOK
  <2> QED
    BY <1>0, <2>1, <2>2, <2>4, <2>5 DEF IInv, Busy, ItemsDue, HeldCopy
<1> QED
  BY <1>2, <1>3

\* The items listed lie in namespaces the NamespaceSync targets.
LEMMA ListKeeps == IInv /\ List => IInv'
<1> SUFFICES ASSUME IInv, List PROVE IInv'
  OBVIOUS
<1> DEFINE peers == listPeers(worker.sync)
           targets == {n \in Namespace : /\ namespaces[n].cache # "absent"
                                         /\ targetsNamespace(n, worker.self.spec)}
           todo == itemsOf(worker.self, targets, peers)
<1>1. worker' = [worker EXCEPT !.pc = "work", !.peers = peers, !.targets = targets,
                               !.todo = todo]
  BY DEF List
<1>2. peers \subseteq NamespaceSyncSpec
  <2>1. \A p \in Sync : syncs[p].cache # NoSync
                           => syncs[p].cache.spec \in NamespaceSyncSpec
    BY DEF IInv, TypeOK, Entry, StoredSync, CR
  <2> QED
    BY <2>1 DEF listPeers
<1>3. /\ todo \subseteq Key
      /\ \A k \in todo :
            /\ targetsNamespace(k[1], worker.self.spec)
            /\ IF worker.self.deleting
               THEN /\ listsName(worker.self.spec, k[2])
                    /\ unclaimed(peers, worker.self.spec.sourceNamespace, k[1], k[2])
               ELSE syncsName(worker.self.spec, k[2])
  BY DEF itemsOf, Key
<1>4. targets \subseteq Namespace
  OBVIOUS
<1>5. /\ worker' \in WorkerState /\ worker'.pc = "work" /\ worker'.self = worker.self
      /\ worker'.sync = worker.sync /\ worker'.todo = todo /\ worker'.peers = peers
  <2> HIDE DEF peers, targets, todo
  <2> QED
    BY <1>1, <1>2, <1>3, <1>4 DEF IInv, TypeOK, WorkerState, PC
<1>6. TypeOK'
  BY <1>5 DEF IInv, TypeOK, List
<1>7. Busy' /\ HeldCopy'
  BY <1>5 DEF IInv, Busy, HeldCopy, List, PC
<1>8. ItemsDue'
  <2> HIDE DEF todo, peers
  <2> QED
    BY <1>3, <1>5 DEF ItemsDue, Due, Acting, OwnSpec
<1>9. LateSound'
  BY LateAside DEF List, LiveObject
<1> QED
  BY <1>6, <1>7, <1>8, <1>9 DEF IInv

\* A step that deals with one item keeps the invariant.
LEMMA ItemKeeps ==
    ASSUME IInv, NEW k \in Key, worker.pc \in {"work", "delete"},
           ItemDone(k) \/ ItemFailed(k) \/ (ItemSkipped(k) /\ worker.pc = "work"),
           objects' \in [Key -> Entry(Stored)], budget' \in [Event -> Nat],
           late' \in Write \cup {NoWrite}, LateSound',
           UNCHANGED <<namespaces, syncs, queue>>
    PROVE  IInv'
<1>1. /\ worker' \in WorkerState /\ worker'.pc = "work" /\ worker'.self = worker.self
      /\ worker'.sync = worker.sync /\ worker'.peers = worker.peers
      /\ worker'.todo \subseteq worker.todo
  BY ItemFacts DEF IInv, TypeOK
<1>2. TypeOK'
  BY <1>1 DEF IInv, TypeOK
<1>3. Busy' /\ HeldCopy'
  BY <1>1 DEF IInv, Busy, HeldCopy
<1>4. ItemsDue'
  <2>1. Acting' = Acting
    BY <1>1 DEF Acting, OwnSpec
  <2> QED
    BY <1>1, <2>1 DEF IInv, ItemsDue, Due
<1> QED
  BY <1>2, <1>3, <1>4 DEF IInv

\* A Get past the cache holds on to nothing but a live copy of the worker's own.
LEMMA GetKeeps ==
    ASSUME IInv, NEW k \in Key, NEW f \in Outcome, worker.pc = "work",
           k \in worker.todo, ~ worker.self.deleting => ~ OffLimits(Acting, k),
           GetManagedCopy(k, f)
    PROVE  IInv'
<1>1. budget' \in [Event -> Nat] /\ UNCHANGED <<namespaces, objects, syncs, queue, late>>
  BY EndsType DEF GetManagedCopy, WriteOutcome, IInv, TypeOK
<1>0. LateSound'
  BY <1>1, LateAside DEF LiveObject
<1>2. CASE ItemDone(k) \/ ItemFailed(k)
  BY <1>0, <1>1, <1>2, ItemKeeps DEF IInv, TypeOK
<1>3. CASE ~ (ItemDone(k) \/ ItemFailed(k))
  <2>1. /\ worker' = [worker EXCEPT !.pc = "delete", !.item = k, !.held = TRUE]
        /\ LiveObject(k) # NoObject
        /\ isManagedCopy(LiveObject(k), worker.self.spec.sourceNamespace, k[2])
    BY <1>3 DEF GetManagedCopy, uncachedReader, LiveObject, OwnSpec
  <2>2. /\ worker' \in WorkerState /\ worker'.pc = "delete" /\ worker'.item = k
        /\ worker'.self = worker.self /\ worker'.sync = worker.sync
        /\ worker'.todo = worker.todo /\ worker'.peers = worker.peers
    BY <2>1 DEF IInv, TypeOK, WorkerState, PC
  <2>3. TypeOK'
    BY <1>1, <2>2 DEF IInv, TypeOK
  <2>0. Acting' = Acting
    BY <2>2 DEF Acting, OwnSpec
  <2>4. Busy' /\ ItemsDue'
    BY <2>0, <2>2 DEF IInv, Busy, ItemsDue, Due
  <2>5. LiveObject(worker.item)' = LiveObject(k)
    BY <1>1, <2>2 DEF LiveObject
  <2>6. HeldCopy'
    BY <2>0, <2>1, <2>2, <2>5 DEF HeldCopy, OwnSpec, OffLimits
  <2> QED
    BY <1>0, <2>3, <2>4, <2>6 DEF IInv
<1> QED
  BY <1>2, <1>3

\* The object a NamespaceSync wants in place of an item is an object.
LEMMA DesiredObject ==
    ASSUME IInv, NEW k \in Key, Writing(k)
    PROVE  Desired(k) \in Object
<1>1. worker.self \in CR /\ k[2] \in Resource /\ k[2][2] \in Name
  BY DEF IInv, Busy, Writing, Syncing, Key, Resource
<1>2. OwnSpec.sourceNamespace \in Namespace
  <2>1. validateNamespaceSync(worker.self.spec)
    BY DEF IInv, Busy, Writing, Syncing
  <2> QED
    BY <1>1, <2>1 DEF OwnSpec, CR, NamespaceSyncSpec, validateNamespaceSync
<1>3. SourceOf(k) \in Object
  <2>1. <<OwnSpec.sourceNamespace, k[2]>> \in Key
    BY <1>1, <1>2 DEF Key
  <2>2. SourceOf(k) \in Stored
    BY <2>1 DEF SourceOf, IInv, TypeOK, Entry
  <2> QED
    BY <2>2 DEF Writing, Stored
<1> QED
  BY <1>1, <1>2, <1>3 DEF Desired, desiredCopy, Object

\* So it can be stored.
LEMMA DesiredType ==
    ASSUME IInv, NEW k \in Key, Writing(k)
    PROVE  Desired(k) \in Stored
  BY DesiredObject DEF Stored

\* A busy worker is an agent.
LEMMA ActingType ==
    ASSUME IInv, worker.pc \in {"work", "delete"}
    PROVE  Acting \in Agent
<1>1. worker.sync \in Sync /\ worker.self \in CR /\ worker.peers \subseteq NamespaceSyncSpec
  BY DEF IInv, Busy, TypeOK, WorkerState
<1>2. worker.self.spec \in NamespaceSyncSpec /\ worker.self.deleting \in BOOLEAN
  BY <1>1 DEF CR
<1> QED
  BY <1>1, <1>2 DEF Acting, OwnSpec, Agent

\* A call of the worker stores what it asks for, sends it on its way, or does
\* nothing.
LEMMA CallFacts ==
    ASSUME IInv, worker.pc \in {"work", "delete"},
           NEW k \in Key, NEW v \in Stored, NEW f \in WriteOutcome,
           NEW accepted \in BOOLEAN, NEW creates \in BOOLEAN, NEW current \in BOOLEAN,
           Call(k, v, accepted, creates, current, f),
           creates => v # NoObject /\ Entitled(Acting, k, NoObject, v),
           ~ creates /\ current => /\ LiveObject(k) # NoObject
                                   /\ Entitled(Acting, k, LiveObject(k), v)
    PROVE  /\ objects' \in [Key -> Entry(Stored)]
           /\ late' \in Write \cup {NoWrite}
           /\ LateSound'
           /\ budget' \in [Event -> Nat]
           /\ UNCHANGED <<namespaces, syncs, queue>>
           /\ objects' # objects => PutObject(k, v) /\ accepted
<1>1. budget' \in [Event -> Nat] /\ UNCHANGED <<namespaces, syncs, queue>>
  BY EndsType DEF Call, IInv, TypeOK
<1>2. CASE PutObject(k, v) /\ accepted
  BY <1>1, <1>2, PutObjectFacts, LateOutdated DEF IInv, TypeOK
<1>3. CASE UNCHANGED <<objects, late>>
  BY <1>1, <1>3, LateAside DEF LiveObject, IInv, TypeOK
<1>4. CASE f = "late"
  <2> DEFINE w == [key |-> k, value |-> v, creates |-> creates, current |-> current,
                   agent |-> Acting]
  <2>1. late' = w /\ UNCHANGED objects
    BY <1>4 DEF Call
  <2>2. w \in Write
    BY ActingType DEF Write
  <2>3. LiveObject(k)' = LiveObject(k)
    BY <2>1 DEF LiveObject
  <2>4. late'.key = k /\ late'.value = v /\ late'.creates = creates
        /\ late'.current = current /\ late'.agent = Acting
    BY <2>1
  <2>5. LateSound'
    <3>1. ~ creates /\ current => /\ LiveObject(k)' # NoObject
                                  /\ Entitled(Acting, k, LiveObject(k)', v)
      BY <2>3
    <3>2. LiveObject(late.key)' = LiveObject(k)'
      BY <2>4 DEF LiveObject
    <3>3. creates => v # NoObject /\ Entitled(Acting, k, NoObject, v)
      OBVIOUS
    <3> QED
      BY <2>4, <3>1, <3>2, <3>3 DEF LateSound
  <2> QED
    BY <1>1, <2>1, <2>2, <2>5 DEF IInv, TypeOK
<1> QED
  BY <1>2, <1>3, <1>4 DEF Call

\* What the worker writes is a copy it may have in place of nothing, and of
\* any object the conflict rules let it overwrite.
LEMMA WriteEntitled ==
    ASSUME IInv, NEW k \in Key, Writing(k), NEW o,
           o # NoObject => ~ copyConflictGuard(worker.peers, k[1], k[2],
                                OwnSpec.sourceNamespace, Explicit(k), o)
    PROVE  Entitled(Acting, k, o, Desired(k)) /\ Desired(k) # NoObject
<1>1. Desired(k) # NoObject
  BY DesiredObject, ConflictsAssumption
<1>2. /\ Acting.peers = worker.peers /\ Acting.spec = OwnSpec
      /\ Acting.cleaning = worker.self.deleting
  BY DEF Acting
<1>3. k \in worker.todo /\ worker.pc = "work" /\ ~ worker.self.deleting
  BY DEF Writing, Syncing, InTurn
<1>4. Due(Acting, k)
  BY <1>3 DEF IInv, ItemsDue
<1>5. ~ OffLimits(Acting, k)
  BY <1>2 DEF Writing, Conflicting, OffLimits, Explicit
<1>6. /\ isManagedCopy(Desired(k), OwnSpec.sourceNamespace, k[2])
      /\ Desired(k).labels \cap SourceOnlyKeys = {}
  BY DEF Desired, desiredCopy, isManagedCopy
<1> HIDE DEF Desired
<1> QED
  BY <1>1, <1>2, <1>3, <1>4, <1>5, <1>6 DEF Entitled, Explicit

\* The cached object the conflict rules let the worker overwrite, if it is live.
LEMMA UpdateEntitled ==
    ASSUME IInv, NEW k \in Key, Writing(k), objects[k].cache # NoObject, mayUpdate(k)
    PROVE  LiveObject(k) # NoObject /\ Entitled(Acting, k, LiveObject(k), Desired(k))
<1>1. LiveObject(k) = objects[k].cache
  BY DEF LiveObject, mayUpdate, IsCurrent, Live
<1>2. ~ copyConflictGuard(worker.peers, k[1], k[2], OwnSpec.sourceNamespace,
                          Explicit(k), objects[k].cache)
  BY DEF Writing, Conflicting
<1> QED
  BY <1>1, <1>2, WriteEntitled

\* The object the worker holds for deletion, as long as it is live.
LEMMA DeleteEntitled ==
    ASSUME IInv, worker.pc = "delete", worker.held
    PROVE  Entitled(Acting, worker.item, LiveObject(worker.item), NoObject)
<1>1. Acting.spec = OwnSpec /\ Acting.cleaning = worker.self.deleting
  BY DEF Acting
<1>2. Due(Acting, worker.item)
  BY DEF IInv, HeldCopy, ItemsDue
<1> QED
  BY <1>1, <1>2 DEF IInv, HeldCopy, Entitled

\* Creating a copy: what the call does, and that the invariant is kept.
LEMMA CreateFacts ==
    ASSUME IInv, NEW k \in Key, NEW f \in WriteOutcome, CreateCopy(k, f)
    PROVE  /\ IInv'
           /\ objects' # objects => /\ PutObject(k, Desired(k))
                                    /\ Entitled(Acting, k, LiveObject(k), Desired(k))
<1>1. worker.pc = "work" /\ Writing(k) /\ mayCreate(k) \in BOOLEAN
  BY DEF CreateCopy, Writing, Syncing, mayCreate
<1>2. Desired(k) \in Stored /\ Desired(k) # NoObject
  BY <1>1, DesiredType, DesiredObject, ConflictsAssumption
<1>0. Entitled(Acting, k, NoObject, Desired(k))
  BY <1>1, WriteEntitled
<1>3. Call(k, Desired(k), mayCreate(k), TRUE, FALSE, f)
  BY DEF CreateCopy
<1>4. /\ objects' \in [Key -> Entry(Stored)]
      /\ late' \in Write \cup {NoWrite}
      /\ LateSound'
      /\ budget' \in [Event -> Nat]
      /\ UNCHANGED <<namespaces, syncs, queue>>
      /\ objects' # objects => PutObject(k, Desired(k)) /\ mayCreate(k)
  BY <1>0, <1>1, <1>2, <1>3, CallFacts
<1>5. ItemDone(k) \/ ItemFailed(k)
  BY DEF CreateCopy, ItemEnds
<1>6. mayCreate(k) => Entitled(Acting, k, LiveObject(k), Desired(k))
  BY <1>0 DEF mayCreate, LiveObject
<1> QED
  BY <1>1, <1>4, <1>5, <1>6, ItemKeeps

\* Updating a copy, likewise.
LEMMA UpdateFacts ==
    ASSUME IInv, NEW k \in Key, NEW f \in WriteOutcome, UpdateCopy(k, f)
    PROVE  /\ IInv'
           /\ objects' # objects => /\ PutObject(k, Desired(k))
                                    /\ Entitled(Acting, k, LiveObject(k), Desired(k))
<1>1. /\ worker.pc = "work" /\ Writing(k) /\ mayUpdate(k) \in BOOLEAN
      /\ objects[k].cache # NoObject
  BY DEF UpdateCopy, Writing, Syncing, mayUpdate, IsCurrent, typeKept
<1>2. Desired(k) \in Stored
  BY <1>1, DesiredType
<1>3. mayUpdate(k) => LiveObject(k) # NoObject
                         /\ Entitled(Acting, k, LiveObject(k), Desired(k))
  BY <1>1, UpdateEntitled
<1>4. Call(k, Desired(k), mayUpdate(k), FALSE, mayUpdate(k), f)
  BY DEF UpdateCopy
<1>5. /\ objects' \in [Key -> Entry(Stored)]
      /\ late' \in Write \cup {NoWrite}
      /\ LateSound'
      /\ budget' \in [Event -> Nat]
      /\ UNCHANGED <<namespaces, syncs, queue>>
      /\ objects' # objects => PutObject(k, Desired(k)) /\ mayUpdate(k)
  BY <1>1, <1>2, <1>3, <1>4, CallFacts
<1>6. ItemDone(k) \/ ItemFailed(k)
  BY DEF UpdateCopy, ItemEnds
<1> QED
  BY <1>1, <1>3, <1>5, <1>6, ItemKeeps

\* Each way of dealing with an item keeps the invariant.
LEMMA ItemStepKeeps ==
    ASSUME IInv, NEW k \in Key, ItemStep(k)
    PROVE  IInv'
<1>1. CASE KeepPeerSource(k) \/ SkipConflict(k) \/ KeepCopy(k)
  <2>1. /\ UNCHANGED <<namespaces, objects, syncs, queue, late, budget>>
        /\ worker.pc = "work"
    BY <1>1 DEF KeepPeerSource, SkipConflict, KeepCopy, Writing, Syncing
  <2>2. ItemDone(k) \/ ItemSkipped(k)
    BY <1>1 DEF KeepPeerSource, SkipConflict, KeepCopy
  <2>3. LateSound'
    BY <2>1, LateAside DEF LiveObject
  <2> QED
    BY <2>1, <2>2, <2>3, ItemKeeps DEF IInv, TypeOK
<1>2. ASSUME NEW f \in Outcome, RemoveStaleCopy(k, f) \/ CleanupItem(k, f)
      PROVE  IInv'
  <2>1. GetManagedCopy(k, f) /\ worker.pc = "work" /\ k \in worker.todo
    BY <1>2 DEF RemoveStaleCopy, CleanupItem, Syncing, InTurn
  <2>2. ~ worker.self.deleting => ~ OffLimits(Acting, k)
    BY <1>2 DEF RemoveStaleCopy, CleanupItem, OffLimits, Acting, Explicit
  <2> QED
    BY <2>1, <2>2, GetKeeps
<1> QED
  BY <1>1, <1>2, CreateFacts, UpdateFacts DEF ItemStep

\* Deleting a copy, likewise.
LEMMA DeleteFacts ==
    ASSUME IInv, NEW f \in WriteOutcome, DeleteCopy(f)
    PROVE  /\ IInv'
           /\ objects' # objects =>
                 /\ worker.item \in Key
                 /\ PutObject(worker.item, NoObject)
                 /\ Entitled(Acting, worker.item, LiveObject(worker.item), NoObject)
<1> DEFINE k == worker.item
           accepted == Live(objects[k]) # NoObject /\ worker.held
<1>1. worker.pc = "delete" /\ k \in Key /\ accepted \in BOOLEAN /\ NoObject \in Stored
  BY DEF DeleteCopy, IInv, HeldCopy, TypeOK, WorkerState, Stored
<1>2. Call(k, NoObject, accepted, FALSE, accepted, f)
  BY DEF DeleteCopy, mayDelete
<1>3. accepted => LiveObject(k) # NoObject /\ Entitled(Acting, k, LiveObject(k), NoObject)
  BY <1>1, DeleteEntitled DEF LiveObject
<1>4. ItemDone(k) \/ ItemFailed(k)
  BY DEF DeleteCopy, ItemEnds
<1> HIDE DEF k, accepted
<1>5. /\ objects' \in [Key -> Entry(Stored)]
      /\ late' \in Write \cup {NoWrite}
      /\ LateSound'
      /\ budget' \in [Event -> Nat]
      /\ UNCHANGED <<namespaces, syncs, queue>>
      /\ objects' # objects => PutObject(k, NoObject) /\ accepted
  BY <1>1, <1>2, <1>3, CallFacts
<1>6. IInv'
  BY <1>1, <1>4, <1>5, ItemKeeps
<1> QED
  BY <1>1, <1>3, <1>5, <1>6 DEF k

\* A late write that is accepted is right for the object it replaces; either way
\* the worker loses what it held of that object.
LEMMA LateWriteFacts ==
    ASSUME IInv, LateWrite
    PROVE  /\ IInv'
           /\ \A j \in Key : LiveObject(j)' # LiveObject(j) =>
                 /\ j = late.key
                 /\ Entitled(late.agent, j, LiveObject(j), LiveObject(j)')
<1>1. /\ late # NoWrite /\ late' = NoWrite /\ UNCHANGED <<namespaces, syncs, queue, budget>>
      /\ late.key \in Key /\ late.value \in Stored /\ late.creates \in BOOLEAN
  BY DEF LateWrite, IInv, TypeOK, Write
<1>2. LateSound'
  BY <1>1 DEF LateSound
<1>3. CASE UNCHANGED <<objects, worker>>
  <2>1. TypeOK'
    BY <1>1, <1>3 DEF IInv, TypeOK
  <2>2. \A j \in Key : LiveObject(j)' = LiveObject(j)
    BY <1>3 DEF LiveObject
  <2>3. IInv'
    <3>1. Acting' = Acting
      BY <1>3 DEF Acting, OwnSpec
    <3>2. Busy' /\ ItemsDue'
      BY <1>3, <3>1 DEF IInv, Busy, ItemsDue, Due
    <3>3. HeldCopy'
      BY <1>3, <3>1 DEF IInv, HeldCopy, OffLimits, OwnSpec, LiveObject
    <3> QED
      BY <1>2, <2>1, <3>2, <3>3 DEF IInv
  <2> QED
    BY <2>2, <2>3
<1>4. CASE ~ UNCHANGED <<objects, worker>>
  <2>1. /\ arrivesInTime /\ OutdateObject(late.key)
        /\ objects' = [objects EXCEPT ![late.key] = Put(@, late.value)]
    BY <1>4 DEF LateWrite
  <2>2. /\ objects' \in [Key -> Entry(Stored)]
        /\ \A j \in Key : j # late.key => LiveObject(j)' = LiveObject(j)
    BY <1>1, <2>1, NewVersion DEF IInv, TypeOK
  <2>3. ASSUME NEW j \in Key, j = late.key
        PROVE  LiveObject(j)' = late.value
    BY <1>1, <2>1, <2>3, NewVersion DEF IInv, TypeOK
  <2>4. SamePlace /\ (worker'.held => worker.held /\ worker.item # late.key)
    BY <1>1, <2>1, OutdateObjectFacts DEF IInv, TypeOK
  <2>5. TypeOK'
    BY <1>1, <2>2, <2>4 DEF IInv, TypeOK, SamePlace
  <2>6. ASSUME worker'.held, worker.pc = "delete"
        PROVE  worker.held /\ LiveObject(worker.item)' = LiveObject(worker.item)
    <3>1. worker.item \in Key /\ worker'.item = worker.item
      BY <2>4, <2>6 DEF IInv, TypeOK, HeldCopy, WorkerState, SamePlace
    <3> QED
      BY <2>2, <2>4, <2>6, <3>1 DEF LiveObject
  <2>7. (Busy /\ ItemsDue /\ HeldCopy)'
    BY <2>4, <2>6, OthersKeepWorker
  <2>8. Entitled(late.agent, late.key, LiveObject(late.key), late.value)
    <3>1. CASE late.creates
      BY <1>1, <2>1, <3>1 DEF arrivesInTime, mayCreate, LiveObject, IInv, LateSound
    <3>2. CASE ~ late.creates
      BY <1>1, <2>1, <3>2 DEF arrivesInTime, IInv, LateSound
    <3> QED
      BY <3>1, <3>2
  <2> QED
    BY <1>2, <2>2, <2>3, <2>5, <2>7, <2>8 DEF IInv
<1> QED
  BY <1>3, <1>4

\* A reconcile that returns leaves an idle worker.
LEMMA ReturnKeeps ==
    ASSUME IInv, worker.pc # "idle", Return \/ Requeue,
           syncs' \in [Sync -> Entry(StoredSync)], budget' \in [Event -> Nat],
           UNCHANGED <<namespaces, objects, late>>
    PROVE  IInv'
<1>1. worker.sync \in Sync
  BY DEF IInv, Busy
<1>2. worker' = Idle /\ queue' \subseteq Sync
  BY <1>1 DEF Return, Requeue, IInv, TypeOK
<1>3. TypeOK'
  BY <1>2, IdleType DEF IInv, TypeOK
<1>4. LateSound'
  BY LateAside DEF LiveObject
<1> QED
  BY <1>2, <1>3, <1>4, IdleKeeps

\* The statuses the controller writes are statuses.
LEMMA StatusTypes ==
    ASSUME IInv, NEW latest \in CR
    PROVE  /\ syncStatus(latest) \in NamespaceSyncStatus
           /\ worker.pc # "idle" => invalidStatus \in NamespaceSyncStatus
<1>1. \A x, y, z : readyReason(x, y, z) \in Reason
  BY DEF readyReason, Reason
<1>2. latest.generation \in Nat
  BY DEF CR
<1>3. syncStatus(latest) \in NamespaceSyncStatus
  BY <1>1, <1>2 DEF syncStatus, NamespaceSyncStatus, IInv, TypeOK, WorkerState
<1>4. worker.pc # "idle" => invalidStatus \in NamespaceSyncStatus
  BY DEF invalidStatus, NamespaceSyncStatus, Reason, IInv, Busy, CR
<1> QED
  BY <1>3, <1>4

\* The writes to a NamespaceSync keep the invariant.
LEMMA SyncWritesKeep ==
    ASSUME IInv, NEW f \in Outcome,
           \/ AddFinalizer(f) \/ UpdateStatus(f)
           \/ UpdateInvalidSpecStatus(f) \/ RemoveFinalizer(f)
    PROVE  IInv'
<1> DEFINE s == worker.sync
           latest == syncs[s].cache
<1>1. worker.pc # "idle" /\ s \in Sync /\ latest \in StoredSync
  BY DEF IInv, Busy, AddFinalizer, UpdateStatus, UpdateInvalidSpecStatus,
         RemoveFinalizer, TypeOK, Entry
<1>2. budget' \in [Event -> Nat] /\ UNCHANGED <<namespaces, objects, late>>
  BY EndsType DEF AddFinalizer, UpdateStatus, UpdateInvalidSpecStatus,
                  RemoveFinalizer, WriteOutcome, IInv, TypeOK
<1>3. latest # NoSync => /\ latest \in CR
                         /\ latest.spec \in NamespaceSyncSpec
                         /\ latest.status \in NamespaceSyncStatus
  BY <1>1 DEF StoredSync, CR
<1>4. syncs' \in [Sync -> Entry(StoredSync)]
  <2>1. ASSUME AddFinalizer(f), ~ UNCHANGED syncs
        PROVE  syncs' \in [Sync -> Entry(StoredSync)]
    <3>1. latest # NoSync /\ PutSync(s, [latest EXCEPT !.finalizer = TRUE])
      BY <2>1 DEF AddFinalizer
    <3>2. [latest EXCEPT !.finalizer = TRUE] \in StoredSync
      BY <1>3, <3>1, CRVersions
    <3> QED
      BY <1>1, <3>1, <3>2, PutSyncType DEF IInv, TypeOK
  <2>2. ASSUME UpdateStatus(f), ~ UNCHANGED syncs
        PROVE  syncs' \in [Sync -> Entry(StoredSync)]
    <3>1. latest # NoSync /\ PutSync(s, [latest EXCEPT !.status = syncStatus(latest)])
      BY <2>2 DEF UpdateStatus
    <3>2. [latest EXCEPT !.status = syncStatus(latest)] \in StoredSync
      BY <1>3, <3>1, CRVersions, StatusTypes
    <3> QED
      BY <1>1, <3>1, <3>2, PutSyncType DEF IInv, TypeOK
  <2>3. ASSUME UpdateInvalidSpecStatus(f), ~ UNCHANGED syncs
        PROVE  syncs' \in [Sync -> Entry(StoredSync)]
    <3>1. latest # NoSync /\ PutSync(s, [latest EXCEPT !.status = invalidStatus])
      BY <2>3 DEF UpdateInvalidSpecStatus
    <3>2. [latest EXCEPT !.status = invalidStatus] \in StoredSync
      BY <1>1, <1>3, <3>1, CRVersions, StatusTypes
    <3> QED
      BY <1>1, <3>1, <3>2, PutSyncType DEF IInv, TypeOK
  <2>4. ASSUME RemoveFinalizer(f), ~ UNCHANGED syncs
        PROVE  syncs' \in [Sync -> Entry(StoredSync)]
    <3>1. PutSync(s, NoSync) /\ NoSync \in StoredSync
      BY <2>4 DEF RemoveFinalizer, StoredSync
    <3> QED
      BY <1>1, <3>1, PutSyncType DEF IInv, TypeOK
  <2> QED
    BY <2>1, <2>2, <2>3, <2>4 DEF IInv, TypeOK
<1>5. CASE Return \/ Requeue
  BY <1>1, <1>2, <1>4, <1>5, ReturnKeeps
<1>6. CASE ~ (Return \/ Requeue)
  <2>1. /\ worker' = [worker EXCEPT !.pc = "list", !.fresh = FALSE]
        /\ worker.pc = "finalizer" /\ UNCHANGED queue
    BY <1>6 DEF AddFinalizer, UpdateStatus, RequeueAfter, UpdateInvalidSpecStatus,
                RemoveFinalizer
  <2>2. /\ worker' \in WorkerState /\ worker'.pc = "list" /\ worker'.self = worker.self
        /\ worker'.sync = worker.sync /\ worker'.peers = worker.peers
    BY <2>1 DEF IInv, TypeOK, WorkerState, PC
  <2>3. TypeOK'
    BY <1>2, <1>4, <2>1, <2>2 DEF IInv, TypeOK
  <2>4. LateSound'
    BY <1>2, LateAside DEF LiveObject
  <2> QED
    BY <2>1, <2>2, <2>3, <2>4 DEF IInv, Busy, ItemsDue, HeldCopy
<1> QED
  BY <1>5, <1>6

\* The controller's writes to a NamespaceSync keep all but its finalizer, which
\* goes when nothing failed in the cleanup and the version read at its start is
\* still the live one, and its status.
LEMMA SyncWriteVersions ==
    ASSUME IInv, NEW f \in Outcome,
           \/ AddFinalizer(f) \/ UpdateStatus(f)
           \/ UpdateInvalidSpecStatus(f) \/ RemoveFinalizer(f),
           NEW s, s = worker.sync, NEW latest, latest = syncs[s].cache
    PROVE  \/ UNCHANGED syncs
           \/ /\ RemoveFinalizer(f) /\ worker.failed = {} /\ worker.fresh
              /\ PutSync(s, NoSync)
           \/ /\ latest \in CR /\ IsCurrent(syncs[s])
              /\ \E v \in CR : /\ PutSync(s, v)
                               /\ v.spec = latest.spec
                               /\ v.deleting = latest.deleting
                               /\ latest.finalizer => v.finalizer
<1>1. worker.pc # "idle" /\ s \in Sync /\ latest \in StoredSync
  BY DEF IInv, Busy, AddFinalizer, UpdateStatus, UpdateInvalidSpecStatus,
         RemoveFinalizer, TypeOK, Entry
<1>2. CASE RemoveFinalizer(f) /\ ~ UNCHANGED syncs
  BY <1>2 DEF RemoveFinalizer
<1>3. CASE ~ RemoveFinalizer(f) /\ ~ UNCHANGED syncs
  <2>1. latest # NoSync /\ IsCurrent(syncs[s])
    BY <1>3 DEF AddFinalizer, UpdateStatus, UpdateInvalidSpecStatus
  <2>2. latest \in CR
    BY <1>1, <2>1 DEF StoredSync
  <2>3. syncStatus(latest) \in NamespaceSyncStatus /\ invalidStatus \in NamespaceSyncStatus
    BY <1>1, <2>2, StatusTypes
  <2>4. PICK status \in NamespaceSyncStatus :
           \/ PutSync(s, [latest EXCEPT !.finalizer = TRUE])
           \/ PutSync(s, [latest EXCEPT !.status = status])
    BY <1>3, <2>3 DEF AddFinalizer, UpdateStatus, UpdateInvalidSpecStatus
  <2>5. ASSUME NEW v, v = [latest EXCEPT !.finalizer = TRUE]
                      \/ v = [latest EXCEPT !.status = status]
        PROVE  /\ v \in CR /\ v.spec = latest.spec /\ v.deleting = latest.deleting
               /\ latest.finalizer => v.finalizer
    BY <2>2, <2>5 DEF CR
  <2> QED
    BY <2>1, <2>2, <2>4, <2>5
<1> QED
  BY <1>2, <1>3

\* Every step of the controller's worker keeps the invariant.
LEMMA WorkerKeeps == IInv /\ WorkerStep => IInv'
  BY ListKeeps, ItemStepKeeps, DeleteFacts, SyncWritesKeep DEF WorkerStep

-----------------------------------------------------------------------------
(* What no step does.                                                        *)

\* Whatever happens costs at most one event.
LEMMA StepSpends ==
    ASSUME [Next]_vars
    PROVE  UNCHANGED budget \/ \E e \in Event : Spend(e)
<1> USE DEF Event
<1>1. ASSUME NEW f, Ends(f)
      PROVE  UNCHANGED budget \/ \E e \in Event : Spend(e)
  BY <1>1 DEF Ends
<1>2. CASE WorkerStep
  <2>1. ASSUME NEW k \in Key, ItemStep(k)
        PROVE  UNCHANGED budget \/ \E e \in Event : Spend(e)
    BY <1>1, <2>1 DEF ItemStep, KeepPeerSource, SkipConflict, KeepCopy, RemoveStaleCopy,
                      CleanupItem, GetManagedCopy, CreateCopy, UpdateCopy, Call
  <2> QED
    BY <1>1, <1>2, <2>1 DEF WorkerStep, List, DeleteCopy, Call, AddFinalizer,
                            UpdateStatus, UpdateInvalidSpecStatus, RemoveFinalizer
<1>3. CASE UserStep
  BY <1>3 DEF UserStep, UserPut, UserDelete, CreateNamespace, DeleteNamespace,
              DeleteSync, AnnotateSync, EditSync, CreateSync
<1> QED
  BY <1>2, <1>3 DEF Next, Start, LateWrite, Delivery, DeliverSync, DeliverNamespace,
                    DeliverObject, Restart, Collect, CollectObject, CollectNamespace,
                    vars

\* What cannot happen any more never will.
LEMMA NoneLeft ==
    ASSUME budget \in [Event -> Nat], NEW e \in Event, budget[e] = 0, [Next]_vars
    PROVE  ~ Spend(e) /\ budget'[e] = 0
<1>1. ~ Spend(e)
  BY DEF Spend
<1>2. CASE UNCHANGED budget
  BY <1>1, <1>2
<1>3. ASSUME NEW d \in Event, Spend(d)
      PROVE  budget'[e] = 0
  BY <1>1, <1>3 DEF Spend
<1> QED
  BY <1>1, <1>2, <1>3, StepSpends

\* A worker among its items got there by List, or it was there already.
LEMMA WorkerGoesOn ==
    ASSUME IInv, [Next]_vars, worker'.pc \in {"work", "delete"}
    PROVE  \/ List
           \/ /\ worker.pc \in {"work", "delete"}
              /\ worker'.sync = worker.sync
              /\ worker'.self = worker.self
              /\ worker'.peers = worker.peers
<1> DEFINE GoesOn == /\ worker.pc \in {"work", "delete"}
                     /\ worker'.sync = worker.sync
                     /\ worker'.self = worker.self
                     /\ worker'.peers = worker.peers
<1>1. ASSUME NEW k \in Key, worker.pc \in {"work", "delete"},
             ItemDone(k) \/ ItemFailed(k) \/ (ItemSkipped(k) /\ worker.pc = "work")
      PROVE  GoesOn
  BY <1>1, ItemFacts DEF IInv, TypeOK
<1>2. ASSUME NEW k \in Key, ItemStep(k)
      PROVE  GoesOn
  <2>1. worker.pc = "work"
    BY <1>2 DEF ItemStep, KeepPeerSource, SkipConflict, KeepCopy, RemoveStaleCopy,
                CleanupItem, CreateCopy, UpdateCopy, Writing, Syncing
  <2>2. CASE worker' = [worker EXCEPT !.pc = "delete", !.item = k, !.held = TRUE]
    BY <2>1, <2>2 DEF IInv, TypeOK, WorkerState
  <2>3. CASE ItemDone(k) \/ ItemFailed(k) \/ ItemSkipped(k)
    BY <1>1, <2>1, <2>3
  <2> QED
    BY <1>2, <2>2, <2>3
       DEF ItemStep, KeepPeerSource, SkipConflict, KeepCopy, RemoveStaleCopy,
           CleanupItem, GetManagedCopy, CreateCopy, UpdateCopy, ItemEnds
<1>3. ASSUME NEW f \in WriteOutcome, DeleteCopy(f)
      PROVE  GoesOn
  <2>1. /\ worker.pc = "delete" /\ worker.item \in Key
        /\ ItemDone(worker.item) \/ ItemFailed(worker.item)
    BY <1>3 DEF DeleteCopy, ItemEnds, IInv, HeldCopy, TypeOK, WorkerState
  <2> QED
    BY <1>1, <2>1
<1>4. worker' # Idle
  BY DEF Idle
<1>5. CASE WorkerStep
  <2>1. ASSUME NEW f \in Outcome,
               \/ AddFinalizer(f) \/ UpdateStatus(f)
               \/ UpdateInvalidSpecStatus(f) \/ RemoveFinalizer(f)
        PROVE  FALSE
    <3>1. \/ worker' = Idle
          \/ worker' = [worker EXCEPT !.pc = "list", !.fresh = FALSE]
      BY <2>1 DEF AddFinalizer, UpdateStatus, RequeueAfter, UpdateInvalidSpecStatus,
                  RemoveFinalizer, Return, Requeue
    <3>2. CASE worker' = [worker EXCEPT !.pc = "list", !.fresh = FALSE]
      BY <3>2 DEF IInv, TypeOK, WorkerState
    <3> QED
      BY <1>4, <3>1, <3>2
  <2> QED
    BY <1>2, <1>3, <1>5, <2>1 DEF WorkerStep
<1>6. ASSUME NEW s \in Sync, Start(s)
      PROVE  FALSE
  <2>1. \/ worker' = Idle
        \/ worker'.pc = entryPoint(syncs[s].cache)
    BY <1>6 DEF Start, Idle
  <2> QED
    BY <1>4, <2>1 DEF entryPoint, Idle
<1>7. CASE SamePlace
  BY <1>7 DEF SamePlace
<1>8. CASE UNCHANGED worker
  BY <1>8
<1>9. CASE LateWrite
  <2>1. late.key \in Key
    BY <1>9 DEF LateWrite, IInv, TypeOK, Write
  <2>2. UNCHANGED worker \/ OutdateObject(late.key)
    BY <1>9 DEF LateWrite
  <2> QED
    BY <1>7, <1>8, <2>1, <2>2, OutdateObjectFacts DEF IInv, TypeOK
<1>10. CASE UserStep
  <2>1. \/ UNCHANGED worker
        \/ \E k \in UserKeys : OutdateObject(k)
        \/ \E s \in Sync : OutdateSync(s)
    BY <1>10 DEF UserStep, UserPut, UserDelete, CreateNamespace, DeleteNamespace,
                 ChangeNamespace, DeleteSync, AnnotateSync, EditSync, CreateSync
  <2> QED
    BY <1>7, <1>8, <2>1, OutdateObjectFacts, OutdateSyncFacts, ReconcilerAssumption
       DEF IInv, TypeOK
<1>11. CASE Collect
  <2>1. UNCHANGED worker \/ \E k \in Key : OutdateObject(k)
    BY <1>11 DEF Collect, CollectObject, CollectNamespace, ChangeNamespace
  <2> QED
    BY <1>7, <1>8, <2>1, OutdateObjectFacts DEF IInv, TypeOK
<1> QED
  BY <1>4, <1>5, <1>6, <1>8, <1>9, <1>10, <1>11
     DEF Next, Delivery, DeliverSync, DeliverNamespace, DeliverObject, Restart, vars

\* A write is late because it was before, or because the worker gave up on it.
LEMMA LateGoesOn ==
    ASSUME IInv, [Next]_vars, late' # NoWrite
    PROVE  \/ late # NoWrite /\ late'.agent = late.agent
           \/ worker.pc \in {"work", "delete"} /\ late'.agent = Acting
<1> DEFINE GoesOn == \/ late # NoWrite /\ late'.agent = late.agent
                     \/ worker.pc \in {"work", "delete"} /\ late'.agent = Acting
<1>1. CASE UNCHANGED late
  BY <1>1
<1>2. ASSUME NEW k \in Key, NEW v \in Stored, PutObject(k, v)
      PROVE  GoesOn
  BY <1>2, PutObjectFacts DEF IInv, TypeOK
<1>3. ASSUME worker.pc \in {"work", "delete"}, NEW k \in Key, NEW v \in Stored,
             NEW accepted, NEW creates, NEW current, NEW f,
             Call(k, v, accepted, creates, current, f)
      PROVE  GoesOn
  <2>1. CASE f = "late"
    BY <1>3, <2>1 DEF Call
  <2>2. CASE f # "late"
    BY <1>1, <1>2, <1>3, <2>2 DEF Call
  <2> QED
    BY <2>1, <2>2
<1>4. ASSUME NEW k \in Key, ItemStep(k)
      PROVE  GoesOn
  <2>1. ASSUME NEW f \in WriteOutcome, CreateCopy(k, f) \/ UpdateCopy(k, f)
        PROVE  GoesOn
    <3>1. Writing(k) /\ worker.pc = "work"
      BY <2>1 DEF CreateCopy, UpdateCopy, Writing, Syncing
    <3>2. Desired(k) \in Stored
      BY <3>1, DesiredType
    <3> QED
      BY <1>3, <2>1, <3>1, <3>2 DEF CreateCopy, UpdateCopy
  <2> QED
    BY <1>1, <1>4, <2>1 DEF ItemStep, KeepPeerSource, SkipConflict, KeepCopy,
                            RemoveStaleCopy, CleanupItem, GetManagedCopy
<1>5. ASSUME NEW f \in WriteOutcome, DeleteCopy(f)
      PROVE  GoesOn
  <2>1. worker.pc = "delete" /\ worker.item \in Key /\ NoObject \in Stored
    BY <1>5 DEF DeleteCopy, IInv, HeldCopy, TypeOK, WorkerState, Stored
  <2> QED
    BY <1>3, <1>5, <2>1 DEF DeleteCopy
<1>6. CASE WorkerStep
  BY <1>1, <1>4, <1>5, <1>6 DEF WorkerStep, List, AddFinalizer, UpdateStatus,
                               UpdateInvalidSpecStatus, RemoveFinalizer
<1>7. CASE UserStep
  <2>1. ASSUME NEW k \in UserKeys, NEW o \in Manifests(k), UserPut(k, o)
        PROVE  GoesOn
    BY <1>2, <2>1, ManifestsType DEF UserPut
  <2>2. ASSUME NEW k \in UserKeys, UserDelete(k)
        PROVE  GoesOn
    BY <1>2, <2>2, ReconcilerAssumption DEF UserDelete, Stored
  <2> QED
    BY <1>1, <1>7, <2>1, <2>2
       DEF UserStep, CreateNamespace, DeleteNamespace, ChangeNamespace, DeleteSync,
           AnnotateSync, EditSync, CreateSync
<1>8. CASE Collect
  BY <1>1, <1>2, <1>8 DEF Collect, CollectObject, CollectNamespace, ChangeNamespace,
                         Stored
<1> QED
  BY <1>1, <1>6, <1>7, <1>8
     DEF Next, Start, LateWrite, Delivery, DeliverSync, DeliverNamespace,
         DeliverObject, Restart, vars

-----------------------------------------------------------------------------
(* The theorems.                                                             *)

\* The controller is started with an idle worker and synced caches.
LEMMA InitKeeps == Init => IInv
<1> SUFFICES ASSUME Init PROVE IInv
  OBVIOUS
<1>1. PICK c \in Clusters :
         /\ namespaces = [n \in Namespace |-> Synced(c.namespaces[n])]
         /\ objects = [k \in Key |-> Synced(c.objects[k])]
         /\ syncs = [s \in Sync |-> Synced(c.syncs[s])]
         /\ queue = {s \in Sync : c.syncs[s] # NoSync}
         /\ worker = Idle
         /\ late = NoWrite
         /\ budget = c.budget
  BY DEF Init
<1>2. c \in Cluster
  BY ReconcilerAssumption
<1>3. namespaces \in [Namespace -> Entry(NamespacePhase)]
  <2>1. \A n \in Namespace : c.namespaces[n] \in NamespacePhase
    BY <1>2 DEF Cluster
  <2> QED
    BY <1>1, <2>1, SyncedFacts
<1>4. objects \in [Key -> Entry(Stored)]
  <2>1. \A k \in Key : c.objects[k] \in Stored
    BY <1>2 DEF Cluster
  <2> QED
    BY <1>1, <2>1, SyncedFacts
<1>5. syncs \in [Sync -> Entry(StoredSync)]
  <2>1. \A s \in Sync : c.syncs[s] \in StoredSync
    BY <1>2 DEF Cluster
  <2> QED
    BY <1>1, <2>1, SyncedFacts
<1>6. budget \in [Event -> Nat]
  BY <1>1, <1>2 DEF Cluster
<1>7. TypeOK
  BY <1>1, <1>3, <1>4, <1>5, <1>6, IdleType DEF TypeOK
<1> QED
  BY <1>1, <1>7 DEF IInv, Idle, Busy, ItemsDue, HeldCopy, LateSound

\* Every step, and every stuttering step, keeps the invariant.
LEMMA NextKeeps == IInv /\ [Next]_vars => IInv'
<1> SUFFICES ASSUME IInv, [Next]_vars PROVE IInv'
  OBVIOUS
<1>1. CASE Next
  BY <1>1, StartKeeps, WorkerKeeps, LateWriteFacts, DeliveryKeeps, RestartKeeps,
     UserKeeps, CollectKeeps DEF Next
<1>2. CASE UNCHANGED vars
  BY <1>2, WorkerAside DEF vars, IInv, TypeOK, LiveObject
<1> QED
  BY <1>1, <1>2

\* The inductive invariant holds throughout every execution of the controller.
THEOREM Invariance == Spec => []IInv
  BY InitKeeps, NextKeeps, PTL DEF Spec

\* The variables keep their types whatever people, watches, faults and restarts
\* do between the steps of the worker.
THEOREM TypeCorrect == Spec => []TypeOK
<1>1. IInv => TypeOK
  BY DEF IInv
<1> QED
  BY <1>1, Invariance, PTL

\* Whatever the worker stores, it may store in place of the live object.
LEMMA WorkerEntitled ==
    ASSUME IInv, WorkerStep, NEW k \in Key, LiveObject(k)' # LiveObject(k)
    PROVE  /\ Entitled(Acting, k, LiveObject(k), LiveObject(k)')
           /\ late = NoWrite <=> late' = NoWrite
<1>1. objects' # objects
  BY DEF LiveObject
<1>2. ASSUME NEW j \in Key, NEW v \in Stored, PutObject(j, v),
             Entitled(Acting, j, LiveObject(j), v)
      PROVE  /\ Entitled(Acting, k, LiveObject(k), LiveObject(k)')
             /\ late = NoWrite <=> late' = NoWrite
  BY <1>2, PutObjectFacts DEF IInv, TypeOK
<1>3. CASE \E j \in Key : ItemStep(j)
  <2>1. PICK j \in Key : ItemStep(j)
    BY <1>3
  <2>2. PICK f \in WriteOutcome : CreateCopy(j, f) \/ UpdateCopy(j, f)
    BY <1>1, <2>1 DEF ItemStep, KeepPeerSource, SkipConflict, KeepCopy,
                      RemoveStaleCopy, CleanupItem, GetManagedCopy
  <2>3. PutObject(j, Desired(j)) /\ Entitled(Acting, j, LiveObject(j), Desired(j))
    BY <1>1, <2>2, CreateFacts, UpdateFacts
  <2>4. Desired(j) \in Stored
    BY <2>2, DesiredType DEF CreateCopy, UpdateCopy
  <2> QED
    BY <1>2, <2>3, <2>4
<1>4. CASE ~ \E j \in Key : ItemStep(j)
  <2>1. PICK f \in WriteOutcome : DeleteCopy(f)
    BY <1>1, <1>4 DEF WorkerStep, List, AddFinalizer, UpdateStatus,
                      UpdateInvalidSpecStatus, RemoveFinalizer
  <2>2. /\ worker.item \in Key
        /\ PutObject(worker.item, NoObject)
        /\ Entitled(Acting, worker.item, LiveObject(worker.item), NoObject)
    BY <1>1, <2>1, DeleteFacts
  <2>3. NoObject \in Stored
    BY DEF Stored
  <2> QED
    BY <1>2, <2>2, <2>3
<1> QED
  BY <1>3, <1>4

\* Whatever the controller changes, its author may change.
LEMMA AuthorEntitled ==
    ASSUME IInv, NEW k \in Key, Changes(k)
    PROVE  Entitled(Author, k, LiveObject(k), LiveObject(k)')
<1>1. CASE WorkerStep
  <2>1. Author = Acting
    BY <1>1, WorkerEntitled DEF Author, Changes
  <2> QED
    BY <1>1, <2>1, WorkerEntitled DEF Changes
<1>2. CASE LateWrite
  <2>1. Author = late.agent
    BY <1>2 DEF Author, LateWrite
  <2> QED
    BY <1>2, <2>1, LateWriteFacts DEF Changes
<1> QED
  BY <1>1, <1>2 DEF Changes

\* The worker writes objects only among its items.
LEMMA ChangesAmongItems ==
    ASSUME IInv, NEW k \in Key, Changes(k)
    PROVE  \/ worker.pc \in {"work", "delete"} /\ Author = Acting
           \/ late # NoWrite /\ Author = late.agent
<1>1. CASE LateWrite
  BY <1>1 DEF LateWrite, Author
<1>2. CASE WorkerStep
  <2>1. Author = Acting
    BY <1>2, WorkerEntitled DEF Author, Changes
  <2>2. objects' # objects
    BY DEF Changes, LiveObject
  <2>3. worker.pc \in {"work", "delete"}
    BY <1>2, <2>2
       DEF WorkerStep, List, ItemStep, KeepPeerSource, SkipConflict, KeepCopy,
           RemoveStaleCopy, CleanupItem, GetManagedCopy, CreateCopy, UpdateCopy,
           Writing, Syncing, DeleteCopy, AddFinalizer, UpdateStatus,
           UpdateInvalidSpecStatus, RemoveFinalizer
  <2> QED
    BY <2>1, <2>3
<1> QED
  BY <1>1, <1>2 DEF Changes

\* An object without the annotations of a copy is changed by the controller only
\* in a namespace that the NamespaceSync it acts for lists, for any number of
\* NamespaceSyncs, stale caches, lost answers, late writes and restarts.
THEOREM HandMadeObjectsAreKept == Spec => HandMadeKept
<1>1. ASSUME IInv, [Next]_vars, NEW k \in Key, HandMade(LiveObject(k)), Changes(k)
      PROVE  explicitTarget(k[1], Author.spec)
  <2>1. LiveObject(k) # NoObject /\ LiveObject(k).from = NoNamespace
        /\ LiveObject(k).fromName = NoName
    BY <1>1 DEF HandMade
  <2>2. k[2][2] \in Name
    BY DEF Key, Resource
  <2>3. Entitled(Author, k, LiveObject(k), LiveObject(k)')
    BY <1>1, AuthorEntitled
  <2>4. LiveObject(k)' # NoObject
    BY <2>1, <2>2, <2>3, ConflictsAssumption DEF Entitled, isManagedCopy
  <2> QED
    BY <2>1, <2>3, <2>4 DEF Entitled, copyConflictGuard
<1>2. IInv /\ [Next]_vars
         => [\A k \in Key : HandMade(LiveObject(k)) /\ Changes(k)
                => explicitTarget(k[1], Author.spec)]_vars
  BY <1>1
<1> QED
  BY <1>2, Invariance, PTL DEF Spec, HandMadeKept

\* The controller deletes only copies synced from the source of the
\* NamespaceSync it acts for, out of the namespaces that one targets, whatever
\* happens between the Get and the Delete and however late the Delete arrives.
THEOREM DeletesAreOfOwnCopies == Spec => DeletesOnlyOwnCopies
<1>1. ASSUME IInv, [Next]_vars, NEW k \in Key, Changes(k), LiveObject(k)' = NoObject
      PROVE  /\ isManagedCopy(LiveObject(k), Author.spec.sourceNamespace, k[2])
             /\ targetsNamespace(k[1], Author.spec)
  BY <1>1, AuthorEntitled DEF Entitled, Due
<1>2. IInv /\ [Next]_vars
         => [\A k \in Key : Changes(k) /\ LiveObject(k)' = NoObject
                => /\ isManagedCopy(LiveObject(k), Author.spec.sourceNamespace, k[2])
                   /\ targetsNamespace(k[1], Author.spec)]_vars
  BY <1>1
<1> QED
  BY <1>2, Invariance, PTL DEF Spec, DeletesOnlyOwnCopies

=============================================================================
