---------------------------- MODULE CustodyProofs ----------------------------
(***************************************************************************)
(* Proof, for all constants, that the controller implements Custody:       *)
(* every step of it, of people and of the cluster is a step Custody allows *)
(* on the live store, or changes nothing Custody knows of.                 *)
(***************************************************************************)
EXTENDS ReconcilerProofs

-----------------------------------------------------------------------------
(* Custody judges by the same rules.                                         *)

\* The decisions made from one spec.
LEMMA SameTargeting ==
    ASSUME NEW n, NEW r, NEW spec
    PROVE  /\ Promise!targetsNamespace(n, spec) = targetsNamespace(n, spec)
           /\ Promise!explicitTarget(n, spec) = explicitTarget(n, spec)
           /\ Promise!listsName(spec, r) = listsName(spec, r)
           /\ Promise!syncsName(spec, r) = syncsName(spec, r)
  BY DEF Promise!targetsNamespace, targetsNamespace, Promise!explicitTarget,
         explicitTarget, Promise!listsName, listsName, Promise!syncsName, syncsName,
         Promise!shouldSyncResource, shouldSyncResource

\* The rules between NamespaceSyncs.
LEMMA SameConflicts ==
    ASSUME NEW peers, NEW n, NEW r, NEW from, NEW explicit, NEW o
    PROVE  /\ Promise!isManagedCopy(o, from, r) = isManagedCopy(o, from, r)
           /\ Promise!sourceConflict(peers, n, r) = sourceConflict(peers, n, r)
           /\ Promise!unclaimed(peers, from, n, r) = unclaimed(peers, from, n, r)
           /\ Promise!copyConflictGuard(peers, n, r, from, explicit, o)
                 = copyConflictGuard(peers, n, r, from, explicit, o)
<1>1. Promise!sourceOwner(peers, n, r) = sourceOwner(peers, n, r)
  BY SameTargeting DEF Promise!sourceOwner, sourceOwner
<1>2. \A f : Promise!copyOwner(peers, f, n, r) = copyOwner(peers, f, n, r)
  BY SameTargeting DEF Promise!copyOwner, copyOwner
<1>3. Promise!isManagedCopy(o, from, r) = isManagedCopy(o, from, r)
  BY DEF Promise!isManagedCopy, isManagedCopy
<1>4. Promise!sourceConflict(peers, n, r) = sourceConflict(peers, n, r)
  BY <1>1 DEF Promise!sourceConflict, sourceConflict
<1>5. Promise!unclaimed(peers, from, n, r) = unclaimed(peers, from, n, r)
  BY <1>1, <1>2 DEF Promise!unclaimed, unclaimed
<1>6. \A f : Promise!ownedCopyConflict(peers, f, n, r, explicit)
                = ownedCopyConflict(peers, f, n, r, explicit)
  BY <1>2, SameTargeting DEF Promise!ownedCopyConflict, ownedCopyConflict
<1>7. Promise!copyConflictGuard(peers, n, r, from, explicit, o)
         = copyConflictGuard(peers, n, r, from, explicit, o)
  BY <1>3, <1>4, <1>6 DEF Promise!copyConflictGuard, copyConflictGuard
<1> QED
  BY <1>3, <1>4, <1>5, <1>7

\* The same keys and objects.
LEMMA SameObjects ==
    /\ Promise!Key = Key
    /\ Promise!Stored = Stored
    /\ Promise!NamespaceSyncSpec = NamespaceSyncSpec
  BY DEF Promise!Key, Key, Promise!Resource, Resource, Promise!Kind, Kind,
         Promise!Stored, Stored, Promise!Object, Object, Promise!NamespaceSyncSpec,
         NamespaceSyncSpec, Promise!Filter, Filter

-----------------------------------------------------------------------------
(* What a step has to show to be one of Custody's.                           *)

\* A write its author is entitled to, of one key and nothing else.
LEMMA EntitledWrites ==
    ASSUME NEW a \in Agent, AsAgent(a, TRUE) \in AgentsAtWork, NEW k \in Key, NEW v,
           Entitled(a, k, LiveObject(k), v),
           v # NoObject /\ LiveObject(k) = NoObject => LivePhases[k[1]] = "active",
           LiveStore' = [LiveStore EXCEPT ![k] = v],
           AgentsAtWork' \subseteq AgentsAtWork,
           UNCHANGED <<LivePhases, Declared, PeopleLeft>>
    PROVE  Promise!CustodyNext
<1> DEFINE b == AsAgent(a, TRUE)
<1>1. /\ b.spec = a.spec /\ b.peers = a.peers /\ b.cleaning = a.cleaning /\ b.listed
  BY DEF AsAgent
<1>2. LiveStore[k] = LiveObject(k) /\ LiveStore'[k] = v
  BY DEF LiveStore
<1>3. Promise!Stores(k, LiveStore'[k])
  BY <1>2 DEF Promise!Stores
<1> HIDE DEF b
<1>4. Promise!targetsNamespace(k[1], b.spec)
  BY <1>1, SameTargeting DEF Entitled, Due
<1>5. ~ b.cleaning => Promise!syncsName(b.spec, k[2]) /\ Promise!InBounds(b, k)
  BY <1>1, SameTargeting, SameConflicts
     DEF Entitled, Due, OffLimits, Promise!InBounds
<1>6. CASE v = NoObject
  <2>1. /\ LiveStore[k] # NoObject
        /\ Promise!isManagedCopy(LiveStore[k], b.spec.sourceNamespace, k[2])
    BY <1>1, <1>2, <1>6, SameConflicts DEF Entitled
  <2>2. b.cleaning => /\ Promise!listsName(b.spec, k[2])
                      /\ Promise!unclaimed(b.peers, b.spec.sourceNamespace, k[1], k[2])
    BY <1>1, SameTargeting, SameConflicts DEF Entitled, Due
  <2>3. Promise!MayRemove(b, k)
    BY <1>5, <2>1, <2>2 DEF Promise!MayRemove
  <2>4. Promise!AgentWrites(b, k)
    BY <1>1, <1>2, <1>3, <1>4, <1>6, <2>3 DEF Promise!AgentWrites
  <2> QED
    BY <2>4, SameObjects DEF Promise!CustodyNext, b
<1>7. CASE v # NoObject
  <2>1. ~ b.cleaning /\ Promise!CopyFor(b, k, v)
    BY <1>1, <1>7, SameConflicts DEF Entitled, Promise!CopyFor
  <2>4. Promise!MayCreate(b, k, v) \/ Promise!MayOverwrite(b, k, v)
    <3>1. CASE LiveObject(k) = NoObject
      BY <1>2, <1>5, <1>7, <2>1, <3>1 DEF Promise!MayCreate
    <3>2. CASE LiveObject(k) # NoObject
      <4>1. ~ Promise!copyConflictGuard(b.peers, k[1], k[2], b.spec.sourceNamespace,
                 Promise!explicitTarget(k[1], b.spec), LiveStore[k])
        BY <1>1, <1>2, <1>7, <3>2, SameTargeting, SameConflicts DEF Entitled
      <4> QED
        BY <1>2, <1>5, <2>1, <3>2, <4>1 DEF Promise!MayOverwrite
    <3> QED
      BY <3>1, <3>2
  <2>5. Promise!AgentWrites(b, k)
    BY <1>1, <1>2, <1>3, <1>4, <1>7, <2>4 DEF Promise!AgentWrites
  <2> QED
    BY <2>5, SameObjects DEF Promise!CustodyNext, b
<1> QED
  BY <1>6, <1>7

\* A step that stores nothing, in which agents only go.
LEMMA AgentsGo ==
    ASSUME AgentsAtWork' \subseteq AgentsAtWork,
           UNCHANGED <<LiveStore, LivePhases, PeopleLeft>>
    PROVE  Promise!CustodyNext
  BY DEF Promise!CustodyNext, Promise!AgentsMove

-----------------------------------------------------------------------------
(* What steps leave alone.                                                   *)

\* Only the edits of people use up what they may do.
LEMMA PeopleAside ==
    ASSUME budget \in [Event -> Nat], NEW e \in Event \ {"put", "delete"}, Spend(e)
    PROVE  UNCHANGED PeopleLeft
<1>1. budget' = [budget EXCEPT ![e] = @ - 1] /\ {"put", "delete"} \subseteq Event
  BY DEF Spend, Event
<1>2. budget'["put"] = budget["put"] /\ budget'["delete"] = budget["delete"]
  BY <1>1
<1> QED
  BY <1>2 DEF PeopleLeft

\* An API call of the worker is no edit.
LEMMA CallsAside ==
    ASSUME budget \in [Event -> Nat], NEW f \in WriteOutcome, Ends(f)
    PROVE  UNCHANGED PeopleLeft
<1>1. UNCHANGED budget \/ Spend("delay") \/ Spend("fault")
  BY DEF Ends
<1>2. {"delay", "fault"} \subseteq Event \ {"put", "delete"}
  BY DEF Event
<1>3. CASE UNCHANGED budget
  BY <1>3 DEF PeopleLeft
<1> QED
  BY <1>1, <1>2, <1>3, PeopleAside

\* One new version in the store.
LEMMA StoreChanges ==
    ASSUME objects \in [Key -> Entry(Stored)], NEW k \in Key, NEW v \in Stored,
           objects' = [objects EXCEPT ![k] = Put(@, v)]
    PROVE  LiveStore' = [LiveStore EXCEPT ![k] = v]
<1>1. /\ LiveObject(k)' = v
      /\ \A j \in Key : j # k => LiveObject(j)' = LiveObject(j)
  BY NewVersion
<1> QED
  BY <1>1 DEF LiveStore

\* The same live objects make the same store, and likewise for namespaces.
LEMMA LiveAside ==
    /\ UNCHANGED objects => UNCHANGED LiveStore
    /\ UNCHANGED namespaces => UNCHANGED LivePhases
    /\ UNCHANGED syncs => UNCHANGED Declared
  BY DEF LiveStore, LiveObject, LivePhases, Declared

\* The worker in its place, and the author of the late write, are the same
\* agents.
LEMMA SameAgents ==
    ASSUME SamePlace, late = NoWrite <=> late' = NoWrite,
           late # NoWrite => late'.agent = late.agent
    PROVE  AgentsAtWork' = AgentsAtWork
<1>1. Acting' = Acting
  BY DEF SamePlace, Acting, OwnSpec
<1> QED
  BY <1>1 DEF AgentsAtWork, AsAgent, SamePlace

\* A worker that returns is no longer one.
LEMMA IdleGoes ==
    ASSUME worker' = Idle, UNCHANGED late
    PROVE  AgentsAtWork' \subseteq AgentsAtWork
<1>1. worker'.pc = "idle"
  BY DEF Idle
<1> QED
  BY <1>1 DEF AgentsAtWork, AsAgent

\* From item to item the worker is the same agent, and a write it leaves behind
\* has it as its author.
LEMMA ItemAgents ==
    ASSUME worker.pc \in {"work", "delete"}, worker'.pc \in {"work", "delete"},
           worker'.self = worker.self, worker'.sync = worker.sync,
           worker'.peers = worker.peers,
           late' # NoWrite => \/ late'.agent = Acting
                              \/ late # NoWrite /\ late'.agent = late.agent
    PROVE  /\ AgentsAtWork' \subseteq AgentsAtWork
           /\ AsAgent(Acting, TRUE) \in AgentsAtWork
<1>1. Acting' = Acting
  BY DEF Acting, OwnSpec
<1>3. AgentsAtWork = {AsAgent(Acting, TRUE)}
         \cup (IF late = NoWrite THEN {} ELSE {AsAgent(late.agent, TRUE)})
  BY DEF AgentsAtWork
<1>4. AgentsAtWork' = {AsAgent(Acting, TRUE)}
         \cup (IF late' = NoWrite THEN {} ELSE {AsAgent(late'.agent, TRUE)})
  BY <1>1 DEF AgentsAtWork, AsAgent
<1> QED
  BY <1>3, <1>4 DEF AsAgent

\* Until List the worker is an agent that has not listed its peers.
LEMMA NotListed ==
    ASSUME NEW pc \in {"finalizer", "list", "invalid", "idle"}, NEW a
    PROVE  AsAgent(a, pc \in {"work", "delete"}) = AsAgent(a, FALSE)
<1>1. (pc \in {"work", "delete"}) = FALSE
  OBVIOUS
<1> QED
  BY <1>1

\* A call of the worker sends at most a write of its own on its way, and is no
\* edit of a namespace or a NamespaceSync.
LEMMA CallAgents ==
    ASSUME IInv, NEW k \in Key, NEW v \in Stored, NEW accepted, NEW creates, NEW current,
           NEW f \in WriteOutcome, Call(k, v, accepted, creates, current, f)
    PROVE  /\ late' # NoWrite => \/ late'.agent = Acting
                                 \/ late # NoWrite /\ late'.agent = late.agent
           /\ UNCHANGED <<LivePhases, Declared, PeopleLeft>>
<1>1. UNCHANGED <<LivePhases, Declared, PeopleLeft>>
  BY LiveAside, CallsAside DEF Call, IInv, TypeOK
<1>2. CASE f = "late"
  BY <1>1, <1>2 DEF Call
<1>3. CASE PutObject(k, v)
  BY <1>1, <1>3, PutObjectFacts DEF IInv, TypeOK
<1>4. CASE UNCHANGED late
  BY <1>1, <1>4
<1> QED
  BY <1>2, <1>3, <1>4 DEF Call

-----------------------------------------------------------------------------
(* The steps of the worker.                                                  *)

\* The worker takes up the cached spec, which is declared.
LEMMA StartCustody ==
    ASSUME IInv, NEW s \in Sync, Start(s)
    PROVE  Promise!CustodyNext
<1> DEFINE cr == syncs[s].cache
<1>1. UNCHANGED <<LiveStore, LivePhases, PeopleLeft, late>>
  BY LiveAside DEF Start, PeopleLeft
<1>2. CASE worker' = Idle
  BY <1>1, <1>2, IdleGoes, AgentsGo
<1>3. CASE worker' # Idle
  <2>1. /\ cr # NoSync
        /\ worker' = [Idle EXCEPT !.pc = entryPoint(cr), !.sync = s, !.self = cr,
                                  !.fresh = IsCurrent(syncs[s])]
    BY <1>3 DEF Start
  <2>2. /\ worker'.pc = entryPoint(cr) /\ worker'.sync = s /\ worker'.self = cr
        /\ worker'.peers = {}
    BY <2>1 DEF Idle
  <2>3. worker'.pc \notin {"work", "delete"}
    BY <2>2 DEF entryPoint
  <2> DEFINE b == AsAgent(Acting', FALSE)
  <2>4. AgentsAtWork' \subseteq AgentsAtWork \cup {b}
    BY <1>1, <2>3, NotListed DEF AgentsAtWork
  <2>5. b.sync = s /\ b.spec = cr.spec /\ ~ b.listed /\ b.peers = {}
    BY <2>2 DEF AsAgent, Acting, OwnSpec
  <2>6. cr.spec \in Declared[s]
    <3>1. cr \in Versions(syncs[s])
      BY VersionsFacts DEF IInv, TypeOK
    <3> QED
      BY <2>1, <3>1 DEF Declared
  <2>7. b \in Promise!CustodyAgent
    <3>1. cr \in CR
      BY <2>1 DEF IInv, TypeOK, Entry, StoredSync
    <3>2. cr.spec \in NamespaceSyncSpec /\ cr.deleting \in BOOLEAN
      BY <3>1 DEF CR
    <3> QED
      BY <2>2, <3>2, SameObjects DEF Promise!CustodyAgent, AsAgent, Acting, OwnSpec
  <2> HIDE DEF b
  <2>8. Promise!TakesUp(b)
    BY <2>5, <2>6, <2>7 DEF Promise!TakesUp
  <2>9. Promise!AgentsMove
    BY <1>1, <2>4, <2>8 DEF Promise!AgentsMove
  <2> QED
    BY <2>9 DEF Promise!CustodyNext
<1> QED
  BY <1>2, <1>3

\* The peers it lists are declared for others.
LEMMA ListCustody ==
    ASSUME IInv, List
    PROVE  Promise!CustodyNext
<1> DEFINE a == AsAgent(Acting, FALSE)
           b == AsAgent(Acting', TRUE)
           peers == listPeers(worker.sync)
<1>1. UNCHANGED <<LiveStore, LivePhases, PeopleLeft, late>>
  BY LiveAside DEF List, PeopleLeft
<1>2. /\ worker'.pc = "work" /\ worker'.sync = worker.sync /\ worker'.self = worker.self
      /\ worker'.peers = peers
  BY DEF List, IInv, TypeOK, WorkerState
<1>3. worker.pc = "list"
  BY DEF List
<1>4. a \in AgentsAtWork
  BY <1>3, NotListed DEF AgentsAtWork
<1>5. AgentsAtWork' \subseteq AgentsAtWork \cup {b}
  BY <1>1, <1>2 DEF AgentsAtWork, AsAgent
<1>6. /\ ~ a.listed /\ b.listed /\ a.sync = worker.sync /\ b.sync = a.sync
      /\ b.spec = a.spec /\ b.cleaning = a.cleaning /\ b.peers = peers
  BY <1>2 DEF AsAgent, Acting, OwnSpec
<1>7. peers \subseteq UNION {Declared[s] : s \in Sync \ {worker.sync}}
  <2>1. ASSUME NEW p \in Sync, syncs[p].cache # NoSync
        PROVE  syncs[p].cache.spec \in Declared[p]
    <3>1. syncs[p].cache \in Versions(syncs[p])
      BY VersionsFacts DEF IInv, TypeOK
    <3> QED
      BY <2>1, <3>1 DEF Declared
  <2> QED
    BY <2>1 DEF listPeers
<1>8. b \in Promise!CustodyAgent
  <2>1. peers \subseteq NamespaceSyncSpec
    <3>1. \A p \in Sync : syncs[p].cache # NoSync
                             => syncs[p].cache.spec \in NamespaceSyncSpec
      BY DEF IInv, TypeOK, Entry, StoredSync, CR
    <3> QED
      BY <3>1 DEF listPeers
  <2>2. worker.sync \in Sync /\ worker.self \in CR
    BY <1>3 DEF IInv, Busy
  <2>3. worker.self.spec \in NamespaceSyncSpec /\ worker.self.deleting \in BOOLEAN
    BY <2>2 DEF CR
  <2> QED
    BY <1>2, <2>1, <2>2, <2>3, SameObjects
       DEF Promise!CustodyAgent, AsAgent, Acting, OwnSpec
<1> HIDE DEF peers, a, b
<1>9. Promise!Lists(a, b)
  BY <1>6, <1>7, <1>8 DEF Promise!Lists
<1>10. Promise!AgentsMove
  BY <1>1, <1>4, <1>5, <1>9 DEF Promise!AgentsMove
<1> QED
  BY <1>10 DEF Promise!CustodyNext

\* Dealing with an item by a call is the write the worker is entitled to, or
\* nothing.
LEMMA CallCustody ==
    ASSUME IInv, worker.pc \in {"work", "delete"}, NEW k \in Key, NEW v \in Stored,
           NEW accepted, NEW creates, NEW current, NEW f \in WriteOutcome,
           Call(k, v, accepted, creates, current, f), ItemDone(k) \/ ItemFailed(k),
           objects' # objects => PutObject(k, v) /\ Entitled(Acting, k, LiveObject(k), v),
           objects' # objects /\ v # NoObject /\ LiveObject(k) = NoObject
              => Live(namespaces[k[1]]) = "active"
    PROVE  Promise!CustodyNext
<1>1. /\ worker'.pc = "work" /\ worker'.self = worker.self
      /\ worker'.sync = worker.sync /\ worker'.peers = worker.peers
  BY ItemFacts DEF IInv, TypeOK
<1>2. /\ late' # NoWrite => \/ late'.agent = Acting
                            \/ late # NoWrite /\ late'.agent = late.agent
      /\ UNCHANGED <<LivePhases, Declared, PeopleLeft>>
  BY CallAgents
<1>3. AgentsAtWork' \subseteq AgentsAtWork /\ AsAgent(Acting, TRUE) \in AgentsAtWork
  BY <1>1, <1>2, ItemAgents
<1>4. CASE UNCHANGED objects
  BY <1>2, <1>3, <1>4, LiveAside, AgentsGo
<1>5. CASE objects' # objects
  <2>1. LiveStore' = [LiveStore EXCEPT ![k] = v]
    BY <1>5, StoreChanges DEF PutObject, IInv, TypeOK
  <2>2. v # NoObject /\ LiveObject(k) = NoObject => LivePhases[k[1]] = "active"
    BY <1>5 DEF LivePhases, Key
  <2>3. Acting \in Agent
    BY ActingType
  <2> QED
    BY <1>2, <1>3, <1>5, <2>1, <2>2, <2>3, EntitledWrites
<1> QED
  BY <1>4, <1>5

\* Every way of dealing with an item is a step of Custody.
LEMMA ItemCustody ==
    ASSUME IInv, NEW k \in Key, ItemStep(k)
    PROVE  Promise!CustodyNext
<1>1. CASE KeepPeerSource(k) \/ SkipConflict(k) \/ KeepCopy(k)
  <2>1. /\ UNCHANGED <<namespaces, objects, syncs, queue, late, budget>>
        /\ worker.pc = "work"
    BY <1>1 DEF KeepPeerSource, SkipConflict, KeepCopy, Writing, Syncing
  <2>2. ItemDone(k) \/ ItemSkipped(k)
    BY <1>1 DEF KeepPeerSource, SkipConflict, KeepCopy
  <2>3. /\ worker'.pc = "work" /\ worker'.self = worker.self
        /\ worker'.sync = worker.sync /\ worker'.peers = worker.peers
    BY <2>1, <2>2, ItemFacts DEF IInv, TypeOK
  <2>4. AgentsAtWork' \subseteq AgentsAtWork
    BY <2>1, <2>3, ItemAgents
  <2>5. UNCHANGED PeopleLeft
    BY <2>1 DEF PeopleLeft
  <2> QED
    BY <2>1, <2>4, <2>5, LiveAside, AgentsGo
<1>2. ASSUME NEW f \in Outcome, RemoveStaleCopy(k, f) \/ CleanupItem(k, f)
      PROVE  Promise!CustodyNext
  <2>1. GetManagedCopy(k, f) /\ worker.pc = "work"
    BY <1>2 DEF RemoveStaleCopy, CleanupItem, Syncing
  <2>2. UNCHANGED <<namespaces, objects, syncs, late>> /\ Ends(f)
    BY <2>1 DEF GetManagedCopy
  <2>3. /\ worker'.pc \in {"work", "delete"} /\ worker'.self = worker.self
        /\ worker'.sync = worker.sync /\ worker'.peers = worker.peers
    <3>1. CASE ItemDone(k) \/ ItemFailed(k)
      BY <3>1, ItemFacts DEF IInv, TypeOK
    <3>2. CASE worker' = [worker EXCEPT !.pc = "delete", !.item = k, !.held = TRUE]
      BY <3>2 DEF IInv, TypeOK, WorkerState
    <3> QED
      BY <2>1, <3>1, <3>2 DEF GetManagedCopy
  <2>4. AgentsAtWork' \subseteq AgentsAtWork
    BY <2>1, <2>2, <2>3, ItemAgents
  <2>5. UNCHANGED PeopleLeft
    BY <2>2, CallsAside DEF IInv, TypeOK, WriteOutcome
  <2> QED
    BY <2>2, <2>4, <2>5, LiveAside, AgentsGo
<1>3. ASSUME NEW f \in WriteOutcome, CreateCopy(k, f)
      PROVE  Promise!CustodyNext
  <2>1. Writing(k) /\ worker.pc = "work" /\ (ItemDone(k) \/ ItemFailed(k))
        /\ Call(k, Desired(k), mayCreate(k), TRUE, FALSE, f)
    BY <1>3 DEF CreateCopy, Writing, Syncing, ItemEnds
  <2>2. objects' # objects => Live(namespaces[k[1]]) = "active"
    BY <2>1 DEF Call, mayCreate
  <2>3. Desired(k) \in Stored
    BY <2>1, DesiredType
  <2> QED
    BY <1>3, <2>1, <2>2, <2>3, CreateFacts, CallCustody
<1>4. ASSUME NEW f \in WriteOutcome, UpdateCopy(k, f)
      PROVE  Promise!CustodyNext
  <2>1. Writing(k) /\ worker.pc = "work" /\ (ItemDone(k) \/ ItemFailed(k))
        /\ Call(k, Desired(k), mayUpdate(k), FALSE, mayUpdate(k), f)
        /\ objects[k].cache # NoObject
    BY <1>4 DEF UpdateCopy, Writing, Syncing, ItemEnds
  <2>2. objects' # objects => LiveObject(k) # NoObject
    BY <2>1 DEF Call, mayUpdate, IsCurrent, LiveObject, Live
  <2>3. Desired(k) \in Stored
    BY <2>1, DesiredType
  <2> QED
    BY <1>4, <2>1, <2>2, <2>3, UpdateFacts, CallCustody
<1> QED
  BY <1>1, <1>2, <1>3, <1>4 DEF ItemStep

\* So is deleting a copy.
LEMMA DeleteCustody ==
    ASSUME IInv, NEW f \in WriteOutcome, DeleteCopy(f)
    PROVE  Promise!CustodyNext
<1> DEFINE k == worker.item
           accepted == Live(objects[k]) # NoObject /\ mayDelete
<1>1. worker.pc = "delete" /\ k \in Key /\ NoObject \in Stored
  BY DEF DeleteCopy, IInv, HeldCopy, TypeOK, WorkerState, Stored
<1>2. Call(k, NoObject, accepted, FALSE, accepted, f) /\ (ItemDone(k) \/ ItemFailed(k))
  BY DEF DeleteCopy, ItemEnds
<1>3. objects' # objects => /\ PutObject(k, NoObject)
                            /\ Entitled(Acting, k, LiveObject(k), NoObject)
  BY DeleteFacts
<1> HIDE DEF k, accepted
<1> QED
  BY <1>1, <1>2, <1>3, CallCustody

\* Writing to NamespaceSyncs is no write to the store.
LEMMA SyncWritesCustody ==
    ASSUME IInv, NEW f \in Outcome,
           \/ AddFinalizer(f) \/ UpdateStatus(f)
           \/ UpdateInvalidSpecStatus(f) \/ RemoveFinalizer(f)
    PROVE  Promise!CustodyNext
<1>1. UNCHANGED <<namespaces, objects, late>> /\ Ends(f)
  BY DEF AddFinalizer, UpdateStatus, UpdateInvalidSpecStatus, RemoveFinalizer
<1>2. UNCHANGED <<LiveStore, LivePhases, PeopleLeft>>
  BY <1>1, LiveAside, CallsAside DEF IInv, TypeOK, WriteOutcome
<1>3. AgentsAtWork' \subseteq AgentsAtWork
  <2>1. CASE worker' = Idle
    BY <1>1, <2>1, IdleGoes
  <2>2. CASE worker' # Idle
    <3>1. /\ worker' = [worker EXCEPT !.pc = "list", !.fresh = FALSE]
          /\ worker.pc = "finalizer"
      BY <2>2 DEF AddFinalizer, UpdateStatus, RequeueAfter, UpdateInvalidSpecStatus,
                  RemoveFinalizer, Return, Requeue
    <3>2. /\ worker'.pc = "list" /\ worker'.self = worker.self
          /\ worker'.sync = worker.sync /\ worker'.peers = worker.peers
      BY <3>1 DEF IInv, TypeOK, WorkerState
    <3>3. Acting' = Acting
      BY <3>2 DEF Acting, OwnSpec
    <3> QED
      BY <1>1, <3>1, <3>2, <3>3 DEF AgentsAtWork, AsAgent
  <2> QED
    BY <2>1, <2>2
<1> QED
  BY <1>2, <1>3, AgentsGo

-----------------------------------------------------------------------------
(* The steps of everybody else.                                              *)

\* A late write is right for the object it finds, or it is refused.
LEMMA LateCustody ==
    ASSUME IInv, LateWrite
    PROVE  Promise!CustodyNext
<1> DEFINE k == late.key
           v == late.value
<1>1. /\ late \in Write /\ late # NoWrite /\ late' = NoWrite
      /\ UNCHANGED <<namespaces, syncs, budget>>
  BY DEF LateWrite, IInv, TypeOK
<1>2. k \in Key /\ v \in Stored /\ late.agent \in Agent /\ late.creates \in BOOLEAN
  BY <1>1 DEF Write
<1>3. UNCHANGED <<LivePhases, Declared, PeopleLeft>>
  BY <1>1, LiveAside DEF PeopleLeft
<1>4. AsAgent(late.agent, TRUE) \in AgentsAtWork
  BY <1>1 DEF AgentsAtWork
<1>5. ASSUME SamePlace
      PROVE  AgentsAtWork' \subseteq AgentsAtWork
  <2>1. Acting' = Acting
    BY <1>5 DEF SamePlace, Acting, OwnSpec
  <2> QED
    BY <1>1, <1>5, <2>1 DEF AgentsAtWork, AsAgent, SamePlace
<1>6. CASE ~ arrivesInTime
  <2>1. UNCHANGED <<objects, worker>>
    BY <1>6 DEF LateWrite
  <2>2. SamePlace
    BY <2>1 DEF SamePlace, IInv, TypeOK
  <2> QED
    BY <1>3, <1>5, <2>1, <2>2, LiveAside, AgentsGo
<1>7. CASE arrivesInTime
  <2>1. objects' = [objects EXCEPT ![k] = Put(@, v)] /\ OutdateObject(k)
    BY <1>7 DEF LateWrite
  <2>2. LiveStore' = [LiveStore EXCEPT ![k] = v]
    BY <1>2, <2>1, StoreChanges DEF IInv, TypeOK
  <2>3. SamePlace
    BY <1>2, <2>1, OutdateObjectFacts DEF IInv, TypeOK
  <2>4. Entitled(late.agent, k, LiveObject(k), v)
    BY <1>1, <1>2, <1>7 DEF arrivesInTime, mayCreate, LiveObject, IInv, LateSound
  <2>5. v # NoObject /\ LiveObject(k) = NoObject => LivePhases[k[1]] = "active"
    <3>1. CASE late.creates
      <4>1. Live(namespaces[k[1]]) = "active" /\ k[1] \in Namespace
        BY <1>2, <1>7, <3>1 DEF arrivesInTime, mayCreate, Key
      <4> QED
        BY <4>1 DEF LivePhases
    <3>2. CASE ~ late.creates
      BY <1>1, <1>7, <3>2 DEF arrivesInTime, IInv, LateSound
    <3> QED
      BY <3>1, <3>2
  <2> HIDE DEF k, v
  <2> QED
    BY <1>2, <1>3, <1>4, <1>5, <2>2, <2>3, <2>4, <2>5, EntitledWrites
<1> QED
  BY <1>6, <1>7

\* Others store an object without disturbing the agents.
LEMMA OthersStore ==
    ASSUME IInv, NEW k \in Key, NEW v \in Stored, PutObject(k, v), OutdateObject(k),
           UNCHANGED <<namespaces, syncs>>
    PROVE  /\ LiveStore' = [LiveStore EXCEPT ![k] = v]
           /\ LiveStore'[k] = v
           /\ UNCHANGED <<LivePhases, Declared, AgentsAtWork>>
<1>1. LiveStore' = [LiveStore EXCEPT ![k] = v]
  BY StoreChanges DEF PutObject, IInv, TypeOK
<1>2. LiveStore'[k] = v
  BY <1>1 DEF LiveStore
<1>3. SamePlace
  BY OutdateObjectFacts DEF IInv, TypeOK
<1>4. UNCHANGED AgentsAtWork
  BY <1>3, PutObjectFacts, SameAgents DEF IInv, TypeOK
<1> QED
  BY <1>1, <1>2, <1>4, LiveAside

\* A NamespaceSync written by others, likewise.
LEMMA OthersDeclare ==
    ASSUME IInv, NEW s \in Sync, OutdateSync(s), UNCHANGED <<namespaces, objects, late>>,
           UNCHANGED PeopleLeft
    PROVE  Promise!CustodyNext
<1>1. SamePlace
  BY OutdateSyncFacts DEF IInv, TypeOK
<1>2. UNCHANGED AgentsAtWork
  BY <1>1, SameAgents
<1> QED
  BY <1>2, LiveAside, AgentsGo

\* A namespace changes its phase.
LEMMA PhaseCustody ==
    ASSUME IInv, NEW n \in Namespace, NEW from, NEW to \in NamespacePhase,
           ChangeNamespace(n, from, to), UNCHANGED PeopleLeft,
           \/ from = "absent" /\ to = "active"
           \/ from = "active" /\ to = "terminating"
           \/ /\ from = "terminating" /\ to = "absent"
              /\ \A r \in Resource : Live(objects[<<n, r>>]) = NoObject
    PROVE  Promise!CustodyNext
<1>1. /\ namespaces' = [namespaces EXCEPT ![n] = Put(@, to)]
      /\ UNCHANGED <<objects, syncs, worker, late>>
      /\ LivePhases[n] = from
  BY DEF ChangeNamespace, LivePhases
<1>2. /\ Live(namespaces'[n]) = to
      /\ \A m \in Namespace : m # n => namespaces'[m] = namespaces[m]
  <2>1. Live(Put(namespaces[n], to)) = to
    BY PutFacts DEF IInv, TypeOK
  <2> QED
    BY <1>1, <2>1 DEF IInv, TypeOK
<1>3. LivePhases' = [LivePhases EXCEPT ![n] = to]
  BY <1>2 DEF LivePhases
<1>4. SamePlace
  BY <1>1 DEF SamePlace, IInv, TypeOK
<1>5. UNCHANGED <<LiveStore, Declared, AgentsAtWork>>
  BY <1>1, <1>4, SameAgents, LiveAside
<1>6. \A r \in Promise!Resource : LiveStore[<<n, r>>] = Live(objects[<<n, r>>])
  BY DEF LiveStore, LiveObject, Key, Promise!Resource, Resource, Promise!Kind, Kind
<1>7. Promise!Resource = Resource
  BY DEF Promise!Resource, Resource, Promise!Kind, Kind
<1>8. Promise!PhaseChanges(n)
  BY <1>1, <1>3, <1>5, <1>6, <1>7 DEF Promise!PhaseChanges
<1> QED
  BY <1>8 DEF Promise!CustodyNext

\* What people do is allowed by Custody.
LEMMA UserCustody == IInv /\ UserStep => Promise!CustodyNext
<1> SUFFICES ASSUME IInv, UserStep PROVE Promise!CustodyNext
  OBVIOUS
<1>0. /\ {"put", "delete"} \subseteq Event
      /\ {"createNamespace", "deleteNamespace", "createSync", "editSync", "deleteSync",
          "annotateSync"} \subseteq Event \ {"put", "delete"}
  BY DEF Event
<1>1. ASSUME NEW e \in {"put", "delete"}, Spend(e)
      PROVE  PeopleLeft > 0 /\ PeopleLeft' = PeopleLeft - 1
  <2>1. budget[e] \in Nat \ {0} /\ budget["put"] \in Nat /\ budget["delete"] \in Nat
    BY <1>0, <1>1 DEF Spend, IInv, TypeOK
  <2>2. budget'[e] = budget[e] - 1
        /\ \A d \in {"put", "delete"} : d # e => budget'[d] = budget[d]
    BY <1>0, <1>1 DEF Spend, IInv, TypeOK
  <2> QED
    BY <2>1, <2>2 DEF PeopleLeft
<1>2. ASSUME NEW k \in Key, NEW v \in Stored, PutObject(k, v), OutdateObject(k),
             UNCHANGED <<namespaces, syncs>>, NEW e \in {"put", "delete"}, Spend(e)
      PROVE  Promise!CustodyNext
  <2>1. Promise!PeopleWrite(k)
    BY <1>1, <1>2, OthersStore DEF Promise!PeopleWrite, Promise!Stores
  <2> QED
    BY <2>1, SameObjects DEF Promise!CustodyNext
<1>3. ASSUME NEW k \in UserKeys, NEW o \in Manifests(k), UserPut(k, o)
      PROVE  Promise!CustodyNext
  <2>1. k \in Key /\ o \in Stored
    BY ManifestsType
  <2> QED
    BY <1>2, <1>3, <2>1 DEF UserPut
<1>4. ASSUME NEW k \in UserKeys, UserDelete(k)
      PROVE  Promise!CustodyNext
  <2>1. k \in Key /\ NoObject \in Stored
    BY ReconcilerAssumption DEF Stored
  <2> QED
    BY <1>2, <1>4, <2>1 DEF UserDelete
<1>5. ASSUME NEW n \in Namespace, CreateNamespace(n) \/ DeleteNamespace(n)
      PROVE  Promise!CustodyNext
  <2>1. UNCHANGED PeopleLeft
    BY <1>0, <1>5, PeopleAside DEF CreateNamespace, DeleteNamespace, IInv, TypeOK
  <2> QED
    BY <1>5, <2>1, PhaseCustody DEF CreateNamespace, DeleteNamespace, NamespacePhase
<1>6. ASSUME NEW s \in Sync, DeleteSync(s) \/ AnnotateSync(s)
      PROVE  Promise!CustodyNext
  <2>1. UNCHANGED PeopleLeft
    BY <1>0, <1>6, PeopleAside DEF DeleteSync, AnnotateSync, IInv, TypeOK
  <2> QED
    BY <1>6, <2>1, OthersDeclare DEF DeleteSync, AnnotateSync
<1>7. ASSUME NEW s \in Sync, NEW spec, NEW b, EditSync(s, spec) \/ CreateSync(s, spec, b)
      PROVE  Promise!CustodyNext
  <2>1. UNCHANGED PeopleLeft
    BY <1>0, <1>7, PeopleAside DEF EditSync, CreateSync, IInv, TypeOK
  <2> QED
    BY <1>7, <2>1, OthersDeclare DEF EditSync, CreateSync
<1> QED
  BY <1>3, <1>4, <1>5, <1>6, <1>7 DEF UserStep

\* The namespace controller empties a namespace, then removes it.
LEMMA CollectCustody == IInv /\ Collect => Promise!CustodyNext
<1> SUFFICES ASSUME IInv, Collect PROVE Promise!CustodyNext
  OBVIOUS
<1>1. ASSUME NEW k \in Key, CollectObject(k)
      PROVE  Promise!CustodyNext
  <2>1. LivePhases[k[1]] = "terminating" /\ NoObject \in Stored
    BY <1>1 DEF CollectObject, LivePhases, Key, Stored
  <2>2. UNCHANGED PeopleLeft
    BY <1>1 DEF CollectObject, PeopleLeft
  <2>3. Promise!NamespaceEmptied(k)
    BY <1>1, <2>1, <2>2, OthersStore
       DEF CollectObject, Promise!NamespaceEmptied, Promise!Stores
  <2> QED
    BY <2>3, SameObjects DEF Promise!CustodyNext
<1>2. ASSUME NEW n \in Namespace, CollectNamespace(n)
      PROVE  Promise!CustodyNext
  <2>1. UNCHANGED PeopleLeft
    BY <1>2 DEF CollectNamespace, PeopleLeft
  <2> QED
    BY <1>2, <2>1, PhaseCustody DEF CollectNamespace, NamespacePhase
<1> QED
  BY <1>1, <1>2 DEF Collect

\* Deliveries change caches, of which Custody knows nothing.
LEMMA DeliveryCustody == IInv /\ Delivery => Promise!CustodyNext
<1> SUFFICES ASSUME IInv, Delivery PROVE Promise!CustodyNext
  OBVIOUS
<1>1. UNCHANGED <<worker, late, budget>>
  BY DEF Delivery, DeliverSync, DeliverNamespace, DeliverObject
<1>2. SamePlace
  BY <1>1 DEF SamePlace, IInv, TypeOK
<1>3. UNCHANGED <<AgentsAtWork, PeopleLeft>>
  BY <1>1, <1>2, SameAgents DEF PeopleLeft
<1>4. UNCHANGED LiveStore
  <2>1. CASE \E k \in Key : DeliverObject(k)
    <3>1. PICK k \in Key : DeliverObject(k)
      BY <2>1
    <3>2. Live(Observe(objects[k])) = Live(objects[k])
      BY <3>1, ObserveFacts DEF DeliverObject, IInv, TypeOK
    <3>3. \A j \in Key : objects'[j] = IF j = k THEN Observe(objects[k]) ELSE objects[j]
      BY <3>1 DEF DeliverObject, IInv, TypeOK
    <3> QED
      BY <3>2, <3>3 DEF LiveStore, LiveObject
  <2> QED
    BY <2>1, LiveAside DEF Delivery, DeliverSync, DeliverNamespace
<1>5. UNCHANGED LivePhases
  <2>1. CASE \E n \in Namespace : DeliverNamespace(n)
    <3>1. PICK n \in Namespace : DeliverNamespace(n)
      BY <2>1
    <3>2. Live(Observe(namespaces[n])) = Live(namespaces[n])
      BY <3>1, ObserveFacts DEF DeliverNamespace, IInv, TypeOK
    <3>3. \A m \in Namespace :
             namespaces'[m] = IF m = n THEN Observe(namespaces[n]) ELSE namespaces[m]
      BY <3>1 DEF DeliverNamespace, IInv, TypeOK
    <3> QED
      BY <3>2, <3>3 DEF LivePhases
  <2> QED
    BY <2>1, LiveAside DEF Delivery, DeliverSync, DeliverObject
<1> QED
  BY <1>3, <1>4, <1>5, AgentsGo

\* A restart ends the reconcile in progress.
LEMMA RestartCustody == IInv /\ Restart => Promise!CustodyNext
<1> SUFFICES ASSUME IInv, Restart PROVE Promise!CustodyNext
  OBVIOUS
<1>1. AgentsAtWork' \subseteq AgentsAtWork
  BY IdleGoes DEF Restart
<1>2. UNCHANGED PeopleLeft
  <2>1. "restart" \in Event \ {"put", "delete"}
    BY DEF Event
  <2> QED
    BY <2>1, PeopleAside DEF Restart, IInv, TypeOK
<1>3. UNCHANGED LiveStore
  BY LiveType, SyncedFacts DEF Restart, Relisted, LiveStore, LiveObject, IInv, TypeOK
<1>4. UNCHANGED LivePhases
  BY LiveType, SyncedFacts DEF Restart, Relisted, LivePhases, IInv, TypeOK
<1> QED
  BY <1>1, <1>2, <1>3, <1>4, AgentsGo

-----------------------------------------------------------------------------
(* The refinement.                                                           *)

\* The controller starts where Custody does.
LEMMA InitCustody == Init => Promise!CustodyInit
<1> SUFFICES ASSUME Init PROVE Promise!CustodyInit
  OBVIOUS
<1>1. TypeOK
  BY InitKeeps DEF IInv
<1>2. LiveStore \in [Promise!Key -> Promise!Stored]
  <2>1. \A k \in Key : LiveObject(k) \in Stored
    BY <1>1, LiveType DEF TypeOK, LiveObject
  <2> QED
    BY <2>1, SameObjects DEF LiveStore
<1>3. LivePhases \in [Namespace -> {"absent", "active", "terminating"}]
  <2>1. \A n \in Namespace : Live(namespaces[n]) \in NamespacePhase
    BY <1>1, LiveType DEF TypeOK
  <2> QED
    BY <2>1 DEF LivePhases, NamespacePhase
<1>4. Declared \in [Sync -> SUBSET Promise!NamespaceSyncSpec]
  <2>1. \A s \in Sync : Versions(syncs[s]) \subseteq StoredSync
    BY <1>1, VersionsFacts DEF TypeOK
  <2>2. \A v \in StoredSync \ {NoSync} : v.spec \in NamespaceSyncSpec
    BY DEF StoredSync, CR
  <2> QED
    BY <2>1, <2>2, SameObjects DEF Declared
<1>5. worker = Idle /\ late = NoWrite
  BY DEF Init
<1>6. AgentsAtWork = {}
  BY <1>5 DEF AgentsAtWork, Idle
<1>7. PeopleLeft \in Nat
  <2>1. {"put", "delete"} \subseteq Event
    BY DEF Event
  <2> QED
    BY <1>1, <2>1 DEF PeopleLeft, TypeOK
<1> QED
  BY <1>2, <1>3, <1>4, <1>6, <1>7 DEF Promise!CustodyInit

\* Every step is a step of Custody, or none.
LEMMA NextCustody == IInv /\ [Next]_vars => [Promise!CustodyNext]_Promise!custodyVars
<1> SUFFICES ASSUME IInv, [Next]_vars
             PROVE  [Promise!CustodyNext]_Promise!custodyVars
  OBVIOUS
<1>1. CASE WorkerStep
  BY <1>1, ListCustody, ItemCustody, DeleteCustody, SyncWritesCustody DEF WorkerStep
<1>2. CASE Next
  BY <1>1, <1>2, StartCustody, LateCustody, DeliveryCustody, RestartCustody,
     UserCustody, CollectCustody DEF Next
<1>3. CASE UNCHANGED vars
  <2>1. UNCHANGED <<namespaces, objects, syncs, worker, late, budget>>
    BY <1>3 DEF vars
  <2>2. SamePlace
    BY <2>1 DEF SamePlace, IInv, TypeOK
  <2>3. UNCHANGED <<LiveStore, LivePhases, Declared, AgentsAtWork, PeopleLeft>>
    BY <2>1, <2>2, LiveAside, SameAgents DEF PeopleLeft
  <2> QED
    BY <2>3 DEF Promise!custodyVars
<1> QED
  BY <1>2, <1>3

\* The controller, with its caches, queue, retries, late writes and restarts,
\* implements Custody: whoever writes an object for it is entitled to that
\* write by the specs it took note of and by the object as it is stored at the
\* moment the write takes effect (createOrUpdateResource, deleteManagedCopy).
THEOREM ImplementsCustody == Spec => CustodyKept
<1>1. Init => Promise!CustodyInit
  BY InitCustody
<1>2. IInv /\ [Next]_vars => [Promise!CustodyNext]_Promise!custodyVars
  BY NextCustody
<1> QED
  BY <1>1, <1>2, Invariance, PTL DEF Spec, CustodyKept, Promise!CustodySpec

=============================================================================
