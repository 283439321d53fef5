------------------------------- MODULE Custody -------------------------------
(***************************************************************************)
(* What people are promised about their Secrets and ConfigMaps while the   *)
(* controller is at work, without caches, queues, versions, retries or     *)
(* restarts.                                                               *)
(*                                                                         *)
(* The API server holds one store.  The controller acts through agents.    *)
(* An agent takes up a spec that somebody declared, takes note of the      *)
(* specs declared for other NamespaceSyncs, and then writes, one object at *)
(* a time.  Every write is right for the store as it is at the moment it   *)
(* takes effect, however long ago the agent looked.                        *)
(***************************************************************************)
EXTENDS Conflicts, Naturals

CONSTANT Sync   \* names of NamespaceSyncs

VARIABLES
    store,     \* [Key -> Stored]
    phase,     \* [Namespace -> phase]
    declared,  \* [Sync -> the specs it has or the controller may still see]
    agents,    \* reconciles and writes under way
    people     \* how many more writes people make

custodyVars == <<store, phase, declared, agents, people>>

\* An agent that has not listed the other NamespaceSyncs yet may not write.
CustodyAgent == [sync : Sync, spec : NamespaceSyncSpec, listed : BOOLEAN,
                 peers : SUBSET NamespaceSyncSpec, cleaning : BOOLEAN]

CustodyInit ==
    /\ store \in [Key -> Stored]
    /\ phase \in [Namespace -> {"absent", "active", "terminating"}]
    /\ declared \in [Sync -> SUBSET NamespaceSyncSpec]
    /\ agents = {}
    /\ people \in Nat

-----------------------------------------------------------------------------
\* The object under k, and no other, becomes v.
Stores(k, v) == store' = [store EXCEPT ![k] = v]

\* An agent of s takes up a spec declared for s ...
TakesUp(a) ==
    /\ a \in CustodyAgent
    /\ a.spec \in declared[a.sync] /\ ~ a.listed /\ a.peers = {}

\* ... and becomes b by listing what is declared for others.
Lists(a, b) ==
    /\ b \in CustodyAgent
    /\ ~ a.listed /\ b.listed
    /\ b.sync = a.sync /\ b.spec = a.spec /\ b.cleaning = a.cleaning
    /\ b.peers \subseteq UNION {declared[s] : s \in Sync \ {a.sync}}

\* Agents come, look around and go; people declare specs.
AgentsMove ==
    /\ \A b \in agents' : \/ b \in agents \/ TakesUp(b)
                          \/ \E a \in agents : Lists(a, b)
    /\ UNCHANGED <<store, phase, people>>

\* The copy that a is entitled to have in the place of k.
CopyFor(a, k, v) ==
    /\ isManagedCopy(v, a.spec.sourceNamespace, k[2])
    /\ v.labels \cap SourceOnlyKeys = {}

\* A peer's source is out of bounds unless the namespace is listed.
InBounds(a, k) ==
    \/ explicitTarget(k[1], a.spec)
    \/ ~ sourceConflict(a.peers, k[1], k[2])

\* Only in an active namespace.
MayCreate(a, k, v) ==
    /\ store[k] = NoObject /\ phase[k[1]] = "active"
    /\ ~ a.cleaning /\ syncsName(a.spec, k[2]) /\ InBounds(a, k)
    /\ CopyFor(a, k, v)

\* Only what the ownership rules let the agent have.
MayOverwrite(a, k, v) ==
    /\ store[k] # NoObject
    /\ ~ a.cleaning /\ syncsName(a.spec, k[2]) /\ InBounds(a, k)
    /\ ~ copyConflictGuard(a.peers, k[1], k[2], a.spec.sourceNamespace,
                           explicitTarget(k[1], a.spec), store[k])
    /\ CopyFor(a, k, v)

\* Only a copy of its own, and in the end only one that nobody else claims.
MayRemove(a, k) ==
    /\ store[k] # NoObject
    /\ isManagedCopy(store[k], a.spec.sourceNamespace, k[2])
    /\ IF a.cleaning
       THEN /\ listsName(a.spec, k[2])
            /\ unclaimed(a.peers, a.spec.sourceNamespace, k[1], k[2])
       ELSE syncsName(a.spec, k[2]) /\ InBounds(a, k)

AgentWrites(a, k) ==
    LET v == store'[k]
    IN  /\ a.listed /\ targetsNamespace(k[1], a.spec)
        /\ IF v = NoObject THEN MayRemove(a, k)
                           ELSE MayCreate(a, k, v) \/ MayOverwrite(a, k, v)
        /\ Stores(k, v)
        /\ agents' \subseteq agents
        /\ UNCHANGED <<phase, declared, people>>

\* People write what they like; every write of theirs is counted.
PeopleWrite(k) ==
    /\ people > 0 /\ people' = people - 1
    /\ Stores(k, store'[k])
    /\ UNCHANGED <<phase, declared, agents>>

\* Namespaces come and go; a terminating one is emptied first.
NamespaceEmptied(k) ==
    /\ phase[k[1]] = "terminating"
    /\ Stores(k, NoObject)
    /\ UNCHANGED <<phase, declared, agents, people>>

PhaseChanges(n) ==
    /\ \/ phase[n] = "absent" /\ phase' = [phase EXCEPT ![n] = "active"]
       \/ phase[n] = "active" /\ phase' = [phase EXCEPT ![n] = "terminating"]
       \/ /\ phase[n] = "terminating" /\ phase' = [phase EXCEPT ![n] = "absent"]
          /\ \A r \in Resource : store[<<n, r>>] = NoObject
    /\ UNCHANGED <<store, declared, agents, people>>

CustodyNext ==
    \/ AgentsMove
    \/ \E k \in Key : \/ \E a \in agents : AgentWrites(a, k)
                      \/ PeopleWrite(k)
                      \/ NamespaceEmptied(k)
    \/ \E n \in Namespace : PhaseChanges(n)

CustodySpec == CustodyInit /\ [][CustodyNext]_custodyVars

=============================================================================
