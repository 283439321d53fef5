------------------------ MODULE ReconcilerProperties ------------------------
(***************************************************************************)
(* What the controller promises, stated over the live state of the API     *)
(* server rather than over what the controller believes of it.             *)
(***************************************************************************)
EXTENDS Reconciler

\* The types of all variables: the caches, queue and worker of the controller
\* and the API server's versions never leave their domains.
TypeOK ==
    /\ namespaces \in [Namespace -> Entry(NamespacePhase)]
    /\ objects \in [Key -> Entry(Stored)]
    /\ syncs \in [Sync -> Entry(StoredSync)]
    /\ queue \subseteq Sync
    /\ worker \in WorkerState
    /\ late \in Write \cup {NoWrite}
    /\ budget \in [Event -> Nat]

-----------------------------------------------------------------------------
LiveObject(k) == Live(objects[k])
LiveSync(s) == Live(syncs[s])

\* A NamespaceSync that exists and is not being deleted.
Alive(s) == LiveSync(s) # NoSync /\ ~ LiveSync(s).deleting

LivePeers(s) == {LiveSync(p).spec : p \in {p \in Sync \ {s} : Alive(p)}}

\* A write of the controller that changes what is stored under k, made by the
\* reconcile in progress or sent by an earlier one and late.
Changes(k) == LiveObject(k)' # LiveObject(k) /\ (WorkerStep \/ LateWrite)

\* On whose behalf the write is made.
Author == IF late # NoWrite /\ late' = NoWrite THEN late.agent ELSE Acting

\* An object without the annotations of a copy.
HandMade(o) == o # NoObject /\ o.from = NoNamespace /\ o.fromName = NoName

IsCopy(o) == o # NoObject /\ o.from # NoNamespace

\* An object no NamespaceSync created is changed by the controller only in a
\* namespace the NamespaceSync it acts for lists in targetNamespaces, whatever
\* was in the cache when the decision was made and however late the write
\* arrives (copyConflictGuard, and the resourceVersion carried by the update).
HandMadeKept ==
    [][\A k \in Key : HandMade(LiveObject(k)) /\ Changes(k)
          => explicitTarget(k[1], Author.spec)]_vars

\* The controller deletes nothing but a copy synced from the source namespace
\* of the NamespaceSync it acts for, out of a namespace that this one targets,
\* although the object may be replaced between the Get and the Delete of
\* deleteManagedCopy, or before a Delete the worker gave up on arrives.
DeletesOnlyOwnCopies ==
    [][\A k \in Key : Changes(k) /\ LiveObject(k)' = NoObject
          => /\ isManagedCopy(LiveObject(k), Author.spec.sourceNamespace, k[2])
             /\ targetsNamespace(k[1], Author.spec)]_vars

\* The write under k obeys the rules of conflicts.go, judged by the live object
\* and the live peers of its author.
Respected(k) ==
    LET peers == LivePeers(Author.sync)
        from == Author.spec.sourceNamespace
        explicit == explicitTarget(k[1], Author.spec)
    IN  IF LiveObject(k)' = NoObject
        THEN Author.cleaning => unclaimed(peers, from, k[1], k[2])
        ELSE IF LiveObject(k) = NoObject
        THEN explicit \/ sourceOwner(peers, k[1], k[2]) = {}
        ELSE ~ copyConflictGuard(peers, k[1], k[2], from, explicit, LiveObject(k))

\* While NamespaceSyncs are neither created nor edited, every overwrite obeys
\* the ownership rules as judged by the live object and the live peers, not
\* only by the cached ones copyConflictGuard saw; and a cleanup deletes no
\* object that a live peer syncs or reads as its source (unclaimed).
OwnershipRespected == [][\A k \in Key : Changes(k) => Respected(k)]_vars

\* A NamespaceSync with the finalizer on it, reading the source of the copy
\* under k, listing its name and targeting its namespace.
WillCleanUp(s, k) ==
    LET cr == LiveSync(s)
    IN  /\ cr # NoSync /\ cr.finalizer
        /\ cr.spec.sourceNamespace = LiveObject(k).from
        /\ listsName(cr.spec, k[2])
        /\ targetsNamespace(k[1], cr.spec)

\* Every copy in the cluster has a NamespaceSync that will clean it up.
\* Reconcile adds the finalizer before the first copy and
\* handleDeletionAndStatus takes it off after the last.
NoOrphans ==
    \A k \in Key : IsCopy(LiveObject(k)) => \E s \in Sync : WillCleanUp(s, k)

-----------------------------------------------------------------------------
(* The controller implements Custody.  The store is what the API server      *)
(* holds, the agents are the reconcile in progress and the one that sent the *)
(* write that is late, and declared are the specs in the cache or on their   *)
(* way to it.                                                                *)

\* The author of writes, which has or has not listed its peers yet.
AsAgent(a, listed) == [sync |-> a.sync, spec |-> a.spec, listed |-> listed,
                       peers |-> a.peers, cleaning |-> a.cleaning]

AgentsAtWork ==
    (IF worker.pc \in {"finalizer", "list", "work", "delete"}
     THEN {AsAgent(Acting, worker.pc \in {"work", "delete"})}
     ELSE {})
    \cup (IF late = NoWrite THEN {} ELSE {AsAgent(late.agent, TRUE)})

LiveStore == [k \in Key |-> LiveObject(k)]
LivePhases == [n \in Namespace |-> Live(namespaces[n])]
Declared == [s \in Sync |-> {v.spec : v \in Versions(syncs[s]) \ {NoSync}}]
PeopleLeft == budget["put"] + budget["delete"]

Promise == INSTANCE Custody WITH
    store <- LiveStore, phase <- LivePhases, declared <- Declared,
    agents <- AgentsAtWork, people <- PeopleLeft

\* Every step of the controller, a late write included, is one that Custody
\* allows on the live store: no cache, version check or retry of
\* createOrUpdateResource and deleteManagedCopy lets it write what it may not.
CustodyKept == Promise!CustodySpec

-----------------------------------------------------------------------------
(* Liveness, under Fairness and once people and faults leave the cluster     *)
(* alone, which Budget makes sure of.                                        *)

\* Outside its explicit targets a NamespaceSync leaves a peer's source alone.
PeersSource(peers, spec, k) ==
    ~ explicitTarget(k[1], spec) /\ sourceOwner(peers, k[1], k[2]) # {}

\* What keeps a NamespaceSync with spec from writing its copy into k.
Refused(peers, spec, k) ==
    \/ PeersSource(peers, spec, k)
    \/ /\ LiveObject(k) # NoObject
       /\ copyConflictGuard(peers, k[1], k[2], spec.sourceNamespace,
                            explicitTarget(k[1], spec), LiveObject(k))

LiveTargets(spec) ==
    {n \in Namespace : Live(namespaces[n]) # "absent" /\ targetsNamespace(n, spec)}

\* The live copies of s are what its live source objects say they should be,
\* except where the ownership rules stand in the way.
Settled(s) ==
    Alive(s) /\ validateNamespaceSync(LiveSync(s).spec) =>
        LET spec == LiveSync(s).spec
        IN  \A k \in LiveTargets(spec) \X {r \in Resource : syncsName(spec, r)} :
                LET source == LiveObject(<<spec.sourceNamespace, k[2]>>)
                IN  IF source = NoObject
                    THEN \/ LiveObject(k) = NoObject
                         \/ ~ isManagedCopy(LiveObject(k), spec.sourceNamespace, k[2])
                         \/ PeersSource(LivePeers(s), spec, k)
                    ELSE \/ LiveObject(k) =
                               desiredCopy(source, spec.sourceNamespace, k[2])
                         \/ Refused(LivePeers(s), spec, k)

\* In the end every copy matches its source and stays that way.
Converges == <>[](\A s \in Sync : Settled(s))

\* In the end no new version of a Secret or ConfigMap is stored: neither the
\* controller's own watch events, nor the periodic reconcile, nor two
\* NamespaceSyncs with overlapping targets keep it rewriting copies.
Quiesces ==
    <>[][\A k \in Key : Len(objects'[k].watch) <= Len(objects[k].watch)]_vars

\* The status of a live, valid NamespaceSync tells the truth about its targets.
StatusSettled(s) ==
    Alive(s) /\ validateNamespaceSync(LiveSync(s).spec) =>
        LET spec == LiveSync(s).spec
            targets == LiveTargets(spec)
            conflicted == {n \in targets : \E r \in Resource :
                             /\ syncsName(spec, r)
                             /\ LiveObject(<<spec.sourceNamespace, r>>) # NoObject
                             /\ Refused(LivePeers(s), spec, <<n, r>>)}
        IN  LiveSync(s).status =
               [reason |-> IF conflicted = {} THEN "SyncComplete" ELSE "SyncConflict",
                observedGeneration |-> LiveSync(s).generation,
                syncedNamespaces |-> targets \ conflicted,
                failedNamespaces |-> conflicted]

\* In the end the status reports the generation that is live, the namespaces
\* that are in sync and the ones that hold conflicts.
StatusConverges == <>[](\A s \in Sync : StatusSettled(s))

\* In the end no NamespaceSync is left in deletion: faults, restarts, edits and
\* terminating namespaces on the way never keep the finalizer on it for good
\* (handleDeletionAndStatus).
DeletionCompletes == <>[](\A s \in Sync : LiveSync(s) = NoSync \/ Alive(s))

\* A NamespaceSync whose spec fails validation has Ready false with reason
\* InvalidSpec in the end (updateInvalidSpecStatus).
InvalidReported ==
    <>[](\A s \in Sync :
            Alive(s) /\ ~ validateNamespaceSync(LiveSync(s).spec) =>
                LiveSync(s).status.reason = "InvalidSpec")

-----------------------------------------------------------------------------
(* What the documentation says and the code does not always do.              *)

\* "ObservedGeneration represents the .metadata.generation that the condition
\* was set based upon": a status written by updateStatus carries the generation
\* of the spec the reconcile worked from.
ObservedGenerationIsBasis ==
    [][\A s \in Sync :
          /\ WorkerStep /\ worker.sync = s
          /\ LiveSync(s)' # NoSync /\ LiveSync(s) # NoSync
          /\ LiveSync(s).status' # LiveSync(s).status
          => LiveSync(s).status'.observedGeneration = worker.self.generation]_vars

\* "When the NamespaceSync CR is deleted, all synced resources are
\* automatically cleaned up": a copy whose source namespace no NamespaceSync
\* syncs from any more does not exist.
CleanedUp ==
    \A k \in Key : IsCopy(LiveObject(k)) =>
        \E s \in Sync : /\ LiveSync(s) # NoSync
                        /\ LiveSync(s).spec.sourceNamespace = LiveObject(k).from

=============================================================================
