--------------------------- MODULE OwnershipProofs ---------------------------
(***************************************************************************)
(* Proof, for all constants, that the ownership rules hold between the     *)
(* live NamespaceSyncs and not only between the cached ones, as long as    *)
(* nobody creates a NamespaceSync or edits a spec.                         *)
(***************************************************************************)
EXTENDS ReconcilerProofs, ConflictsProofs

\* No NamespaceSync is created or edited any more.
NobodyDeclares == budget["createSync"] = 0 /\ budget["editSync"] = 0

\* The versions of e agree on the spec while the NamespaceSync is alive.
Agree(e) ==
    Live(e) # NoSync /\ ~ Live(e).deleting =>
        \A v \in Versions(e) : v # NoSync /\ ~ v.deleting /\ v.spec = Live(e).spec

\* So whatever is cached of a live peer is what it is.
SpecsSettled == \A p \in Sync : Agree(syncs[p])

\* The author of a write knows all live peers.
PeersKnown ==
    worker.pc \in {"work", "delete"} => LivePeers(worker.sync) \subseteq worker.peers

LatePeersKnown ==
    late # NoWrite => LivePeers(late.agent.sync) \subseteq late.agent.peers

OwnershipInv ==
    IInv /\ NobodyDeclares /\ SpecsSettled /\ PeersKnown /\ LatePeersKnown

\* NamespaceSyncs only go.
Dwindling ==
    \A p \in Sync : Alive(p)' => Alive(p) /\ LiveSync(p)'.spec = LiveSync(p).spec

-----------------------------------------------------------------------------
\* A new version that keeps the spec, or ends the NamespaceSync.
LEMMA PutSettled ==
    ASSUME IInv, SpecsSettled, NEW s \in Sync, NEW v \in StoredSync, PutSync(s, v),
           v # NoSync /\ ~ v.deleting
              => /\ LiveSync(s) # NoSync /\ ~ LiveSync(s).deleting
                 /\ v.spec = LiveSync(s).spec
    PROVE  SpecsSettled' /\ Dwindling
<1>1. syncs[s] \in Entry(StoredSync)
  BY DEF IInv, TypeOK
<1>2. /\ Live(Put(syncs[s], v)) = v
      /\ Versions(Put(syncs[s], v)) = Versions(syncs[s]) \cup {v}
  BY <1>1, PutFacts, PutVersions
<1>3. \A p \in Sync : syncs'[p] = IF p = s THEN Put(syncs[s], v) ELSE syncs[p]
  BY DEF PutSync, IInv, TypeOK
<1>4. Agree(Put(syncs[s], v))
  BY <1>2 DEF Agree, SpecsSettled, LiveSync
<1>5. SpecsSettled'
  BY <1>3, <1>4 DEF SpecsSettled
<1>6. Dwindling
  BY <1>2, <1>3 DEF Dwindling, Alive, LiveSync
<1> QED
  BY <1>5, <1>6

\* Nothing to show where no NamespaceSync changes.
LEMMA SyncsAside ==
    ASSUME SpecsSettled, UNCHANGED syncs
    PROVE  SpecsSettled' /\ Dwindling
  BY DEF SpecsSettled, Dwindling, Alive, LiveSync

\* The controller's own writes to a NamespaceSync keep the spec.
LEMMA SyncWritesSettled ==
    ASSUME IInv, SpecsSettled, NEW f \in Outcome,
           \/ AddFinalizer(f) \/ UpdateStatus(f)
           \/ UpdateInvalidSpecStatus(f) \/ RemoveFinalizer(f)
    PROVE  SpecsSettled' /\ Dwindling
<1> DEFINE s == worker.sync
           latest == syncs[s].cache
<1>1. s \in Sync /\ NoSync \in StoredSync
  BY DEF IInv, Busy, AddFinalizer, UpdateStatus, UpdateInvalidSpecStatus,
         RemoveFinalizer, StoredSync
<1>2. CASE UNCHANGED syncs
  BY <1>2, SyncsAside
<1>3. CASE PutSync(s, NoSync)
  BY <1>1, <1>3, PutSettled
<1>4. ASSUME latest \in CR, IsCurrent(syncs[s]), NEW v \in CR, PutSync(s, v),
             v.spec = latest.spec, v.deleting = latest.deleting
      PROVE  SpecsSettled' /\ Dwindling
  <2>1. LiveSync(s) = latest /\ LiveSync(s) # NoSync /\ v \in StoredSync
    BY <1>4, ReconcilerAssumption DEF LiveSync, Live, IsCurrent, StoredSync
  <2> QED
    BY <1>1, <1>4, <2>1, PutSettled
<1> QED
  BY <1>2, <1>3, <1>4, SyncWriteVersions

\* What people may still do to NamespaceSyncs keeps the spec.
LEMMA UserSettled ==
    ASSUME IInv, NobodyDeclares, SpecsSettled, UserStep
    PROVE  SpecsSettled' /\ Dwindling
<1>1. ASSUME NEW s \in Sync, DeleteSync(s)
      PROVE  SpecsSettled' /\ Dwindling
  <2> DEFINE cr == Live(syncs[s])
  <2>1. cr \in CR
    BY <1>1, LiveType DEF IInv, TypeOK, DeleteSync, StoredSync
  <2>2. [cr EXCEPT !.deleting = TRUE, !.generation = @ + 1] \in StoredSync
        /\ [cr EXCEPT !.deleting = TRUE, !.generation = @ + 1].deleting
    <3>1. cr.generation + 1 \in Nat
      BY <2>1 DEF CR
    <3> QED
      BY <2>1, <3>1 DEF CR, StoredSync
  <2>3. PICK v \in StoredSync : PutSync(s, v) /\ (v = NoSync \/ v.deleting)
    BY <1>1, <2>2 DEF DeleteSync, StoredSync
  <2> QED
    BY <2>3, PutSettled
<1>2. ASSUME NEW s \in Sync, AnnotateSync(s)
      PROVE  SpecsSettled' /\ Dwindling
  <2> DEFINE cr == Live(syncs[s])
             v == [cr EXCEPT !.mark = ~ @]
  <2>1. cr \in CR
    BY <1>2, LiveType DEF IInv, TypeOK, AnnotateSync, StoredSync
  <2>2. v \in StoredSync /\ v.spec = cr.spec /\ v.deleting = cr.deleting
    BY <2>1 DEF CR, StoredSync
  <2>3. PutSync(s, v) /\ cr # NoSync
    BY <1>2 DEF AnnotateSync
  <2> HIDE DEF v
  <2> QED
    BY <2>2, <2>3, PutSettled DEF LiveSync
<1>3. ASSUME NEW s \in Sync, NEW spec, NEW b, EditSync(s, spec) \/ CreateSync(s, spec, b)
      PROVE  FALSE
  BY <1>3 DEF NobodyDeclares, EditSync, CreateSync, Spend
<1> QED
  BY <1>1, <1>2, <1>3, SyncsAside
     DEF UserStep, UserPut, UserDelete, CreateNamespace, DeleteNamespace, ChangeNamespace

\* A delivery brings what is already known, and a restart the live version.
LEMMA CachesSettled ==
    ASSUME IInv, SpecsSettled, (\E s \in Sync : DeliverSync(s)) \/ Restart
    PROVE  SpecsSettled' /\ Dwindling
<1>1. ASSUME NEW s \in Sync, DeliverSync(s)
      PROVE  SpecsSettled' /\ Dwindling
  <2>1. syncs[s] \in Entry(StoredSync) /\ ~ IsCurrent(syncs[s])
    BY <1>1 DEF DeliverSync, IInv, TypeOK
  <2>2. /\ Live(Observe(syncs[s])) = Live(syncs[s])
        /\ Versions(Observe(syncs[s])) \subseteq Versions(syncs[s])
    BY <2>1, ObserveFacts, ObserveVersions
  <2>3. \A p \in Sync : syncs'[p] = IF p = s THEN Observe(syncs[s]) ELSE syncs[p]
    BY <1>1 DEF DeliverSync, IInv, TypeOK
  <2>4. Agree(Observe(syncs[s]))
    BY <2>2 DEF Agree, SpecsSettled
  <2> QED
    BY <2>2, <2>3, <2>4 DEF SpecsSettled, Dwindling, Alive, LiveSync
<1>2. CASE Restart
  <2>1. \A p \in Sync : syncs'[p] = Synced(Live(syncs[p]))
    BY <1>2 DEF Restart, Relisted
  <2>2. \A p \in Sync : Live(syncs'[p]) = Live(syncs[p])
                        /\ Versions(syncs'[p]) = {Live(syncs[p])}
    BY <2>1, LiveType, SyncedFacts, SyncedVersions DEF IInv, TypeOK
  <2> QED
    BY <2>2 DEF SpecsSettled, Agree, Dwindling, Alive, LiveSync
<1> QED
  BY <1>1, <1>2

\* No step brings a NamespaceSync or a spec.
LEMMA NextSettled ==
    ASSUME IInv, NobodyDeclares, SpecsSettled, [Next]_vars
    PROVE  SpecsSettled' /\ Dwindling
<1>1. CASE UNCHANGED syncs
  BY <1>1, SyncsAside
<1>2. CASE WorkerStep
  <2>1. ASSUME NEW k \in Key, ItemStep(k)
        PROVE  UNCHANGED syncs
    BY <2>1 DEF ItemStep, KeepPeerSource, SkipConflict, KeepCopy, RemoveStaleCopy,
                CleanupItem, GetManagedCopy, CreateCopy, UpdateCopy, Call
  <2> QED
    BY <1>1, <1>2, <2>1, SyncWritesSettled DEF WorkerStep, List, DeleteCopy, Call
<1> QED
  BY <1>1, <1>2, UserSettled, CachesSettled
     DEF Next, Start, LateWrite, Delivery, DeliverNamespace, DeliverObject,
         Collect, CollectObject, CollectNamespace, ChangeNamespace, vars

-----------------------------------------------------------------------------
\* Whoever knew the live peers still does when some of them are gone.
LEMMA PeersDwindle ==
    ASSUME Dwindling, NEW s
    PROVE  LivePeers(s)' \subseteq LivePeers(s)
  BY DEF Dwindling, LivePeers

\* The invariant is kept: List finds every live peer in the cache.
LEMMA OwnershipNext == OwnershipInv /\ [Next]_vars => OwnershipInv'
<1> SUFFICES ASSUME OwnershipInv, [Next]_vars PROVE OwnershipInv'
  OBVIOUS
<1>1. IInv'
  BY NextKeeps DEF OwnershipInv
<1>2. NobodyDeclares'
  <2>1. {"createSync", "editSync"} \subseteq Event
    BY DEF Event
  <2> QED
    BY <2>1, NoneLeft DEF OwnershipInv, NobodyDeclares, IInv, TypeOK
<1>3. SpecsSettled' /\ Dwindling
  BY NextSettled DEF OwnershipInv
<1>4. PeersKnown'
  <2> SUFFICES ASSUME worker'.pc \in {"work", "delete"},
                      NEW s \in Sync, s = worker'.sync
               PROVE  LivePeers(s)' \subseteq worker'.peers
    <3>1. worker'.pc \in {"work", "delete"} => worker'.sync \in Sync
      BY <1>1 DEF IInv, Busy
    <3> QED
      BY <3>1 DEF PeersKnown, LivePeers
  <2>1. LivePeers(s)' \subseteq LivePeers(s)
    BY <1>3, PeersDwindle
  <2>2. CASE List
    <3>1. worker'.sync = worker.sync /\ worker'.peers = listPeers(worker.sync)
      BY <2>2 DEF List, OwnershipInv, IInv, TypeOK, WorkerState
    <3>2. ASSUME NEW p \in Sync, Alive(p)
          PROVE  /\ syncs[p].cache # NoSync /\ ~ syncs[p].cache.deleting
                 /\ syncs[p].cache.spec = LiveSync(p).spec
      <4>1. syncs[p].cache \in Versions(syncs[p])
        BY VersionsFacts DEF OwnershipInv, IInv, TypeOK
      <4> QED
        BY <3>2, <4>1 DEF OwnershipInv, SpecsSettled, Agree, Alive, LiveSync
    <3>3. LivePeers(s) \subseteq listPeers(s)
      BY <3>2 DEF LivePeers, listPeers
    <3> QED
      BY <2>1, <3>1, <3>3
  <2>3. CASE ~ List
    <3>1. /\ worker.pc \in {"work", "delete"}
          /\ worker'.sync = worker.sync /\ worker'.peers = worker.peers
      BY <2>3, WorkerGoesOn DEF OwnershipInv
    <3> QED
      BY <2>1, <3>1 DEF OwnershipInv, PeersKnown
  <2> QED
    BY <2>2, <2>3
<1>5. LatePeersKnown'
  <2> SUFFICES ASSUME late' # NoWrite, NEW s \in Sync, s = late'.agent.sync
               PROVE  LivePeers(s)' \subseteq late'.agent.peers
    <3>1. late' # NoWrite => late'.agent.sync \in Sync
      BY <1>1 DEF IInv, TypeOK, Write, Agent
    <3> QED
      BY <3>1 DEF LatePeersKnown, LivePeers
  <2>1. LivePeers(s)' \subseteq LivePeers(s)
    BY <1>3, PeersDwindle
  <2>2. CASE late # NoWrite /\ late'.agent = late.agent
    BY <2>1, <2>2 DEF OwnershipInv, LatePeersKnown
  <2>3. CASE worker.pc \in {"work", "delete"} /\ late'.agent = Acting
    <3>1. Acting.sync = worker.sync /\ Acting.peers = worker.peers
      BY DEF Acting
    <3> QED
      BY <2>1, <2>3, <3>1 DEF OwnershipInv, PeersKnown
  <2> QED
    BY <2>2, <2>3, LateGoesOn DEF OwnershipInv
<1> QED
  BY <1>1, <1>2, <1>3, <1>4, <1>5 DEF OwnershipInv

\* The controller starts with caches in which everybody's spec is the live one.
LEMMA OwnershipStart == Init /\ NobodyDeclares => OwnershipInv
<1> SUFFICES ASSUME Init, NobodyDeclares PROVE OwnershipInv
  OBVIOUS
<1>1. IInv
  BY InitKeeps
<1>2. PICK c \in Clusters : syncs = [s \in Sync |-> Synced(c.syncs[s])]
  BY DEF Init
<1>3. c.syncs \in [Sync -> StoredSync]
  BY <1>2, ReconcilerAssumption DEF Cluster
<1>4. \A p \in Sync : /\ Live(syncs[p]) = c.syncs[p]
                      /\ Versions(syncs[p]) = {c.syncs[p]}
  BY <1>2, <1>3, SyncedFacts, SyncedVersions
<1>5. SpecsSettled
  BY <1>4 DEF SpecsSettled, Agree
<1>6. worker.pc = "idle" /\ late = NoWrite
  BY DEF Init, Idle
<1> QED
  BY <1>1, <1>5, <1>6 DEF OwnershipInv, PeersKnown, LatePeersKnown

\* The author of a write knows every live peer.
LEMMA AuthorKnowsPeers ==
    ASSUME OwnershipInv, NEW k \in Key, Changes(k)
    PROVE  LivePeers(Author.sync) \subseteq Author.peers
<1>1. Acting.sync = worker.sync /\ Acting.peers = worker.peers
  BY DEF Acting
<1> QED
  BY <1>1, ChangesAmongItems DEF OwnershipInv, PeersKnown, LatePeersKnown

\* The author was entitled to the write with the peers it knew, so it is with
\* the live ones.
LEMMA LiveOwnership ==
    ASSUME OwnershipInv, NEW k \in Key, Changes(k)
    PROVE  Respected(k)
<1> DEFINE peers == LivePeers(Author.sync)
           from == Author.spec.sourceNamespace
           explicit == explicitTarget(k[1], Author.spec)
<1>1. Entitled(Author, k, LiveObject(k), LiveObject(k)')
  BY AuthorEntitled DEF OwnershipInv
<1>2. peers \in SUBSET Author.peers
  BY AuthorKnowsPeers
<1>3. explicit \in BOOLEAN
  BY DEF explicitTarget
<1> HIDE DEF peers, from, explicit
<1>4. /\ sourceConflict(peers, k[1], k[2]) => sourceConflict(Author.peers, k[1], k[2])
      /\ \A o : copyConflictGuard(peers, k[1], k[2], from, explicit, o)
                   => copyConflictGuard(Author.peers, k[1], k[2], from, explicit, o)
      /\ unclaimed(Author.peers, from, k[1], k[2]) => unclaimed(peers, from, k[1], k[2])
  BY <1>2, <1>3, MorePeersForbidMore
<1>5. CASE LiveObject(k)' = NoObject
  BY <1>1, <1>4, <1>5 DEF Respected, Entitled, Due, peers, from
<1>6. CASE LiveObject(k)' # NoObject /\ LiveObject(k) = NoObject
  BY <1>1, <1>4, <1>6
     DEF Respected, Entitled, OffLimits, sourceConflict, peers, explicit
<1>7. CASE LiveObject(k)' # NoObject /\ LiveObject(k) # NoObject
  BY <1>1, <1>4, <1>7 DEF Respected, Entitled, peers, from, explicit
<1> QED
  BY <1>5, <1>6, <1>7

\* While no NamespaceSync is created or edited, every overwrite obeys the
\* ownership rules between the live NamespaceSyncs and the live object, however
\* old the caches are from which createOrUpdateResource and List decided and
\* however late the write arrives; a cleanup takes nothing a live peer claims.
THEOREM OwnershipIsRespected == Spec /\ NobodyDeclares => OwnershipRespected
<1>1. Init /\ NobodyDeclares => OwnershipInv
  BY OwnershipStart
<1>2. OwnershipInv /\ [Next]_vars => OwnershipInv'
  BY OwnershipNext
<1>3. OwnershipInv /\ [Next]_vars => [\A k \in Key : Changes(k) => Respected(k)]_vars
  BY LiveOwnership
<1> QED
  BY <1>1, <1>2, <1>3, PTL DEF Spec, OwnershipRespected

\* On behalf of a NamespaceSync with another source the controller overwrites
\* the copy under k that a live q syncs there.
Takes(k, q) ==
    LET spec == LiveSync(q).spec
    IN  /\ Changes(k) /\ LiveObject(k)' # NoObject /\ LiveObject(k) # NoObject
        /\ q # Author.sync /\ Alive(q)
        /\ spec.sourceNamespace \notin {NoNamespace, Author.spec.sourceNamespace}
        /\ syncsName(spec, k[2]) /\ targetsNamespace(k[1], spec)
        /\ isManagedCopy(LiveObject(k), spec.sourceNamespace, k[2])

Outranks(k, q) ==
    explicitTarget(k[1], Author.spec) /\ ~ explicitTarget(k[1], LiveSync(q).spec)

\* A copy is taken from a live NamespaceSync only where it is reached by default
\* and its new owner lists the namespace, so that no copy passes back and forth
\* (ownedCopyConflict).
TakenByRank == [][\A k \in Key, q \in Sync : Takes(k, q) => Outranks(k, q)]_vars

\* So it is, for all constants, while no NamespaceSync is created or edited.
THEOREM CopiesAreTakenByRank == Spec /\ NobodyDeclares => TakenByRank
<1>1. ASSUME OwnershipInv, NEW k \in Key, NEW q \in Sync, Takes(k, q)
      PROVE  Outranks(k, q)
  <2>1. LiveSync(q).spec \in LivePeers(Author.sync)
    BY <1>1 DEF Takes, LivePeers
  <2>2. ~ copyConflictGuard(LivePeers(Author.sync), k[1], k[2],
             Author.spec.sourceNamespace, explicitTarget(k[1], Author.spec),
             LiveObject(k))
    BY <1>1, LiveOwnership DEF Takes, Respected
  <2> QED
    BY <1>1, <2>1, <2>2, OnlyListedOutranks DEF Takes, Outranks
<1>2. OwnershipInv /\ [Next]_vars
         => [\A k \in Key, q \in Sync : Takes(k, q) => Outranks(k, q)]_vars
  BY <1>1
<1> QED
  BY <1>2, OwnershipStart, OwnershipNext, PTL DEF Spec, TakenByRank

=============================================================================
