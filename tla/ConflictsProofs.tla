--------------------------- MODULE ConflictsProofs ---------------------------
(***************************************************************************)
(* What the ownership rules of conflicts.go guarantee between any number   *)
(* of NamespaceSyncs: knowing of more peers never permits more, and two    *)
(* NamespaceSyncs never take the same copy from each other in turn.        *)
(***************************************************************************)
EXTENDS Conflicts, TLAPS

\* The guard against owned copies, without the choice copyOwner makes: some
\* peer owns the copy, and if this sync lists the namespace some owner lists it
\* too.
LEMMA OwnedCopyConflictMeans ==
    ASSUME NEW peers, NEW from, NEW n, NEW r, NEW explicit \in BOOLEAN
    PROVE  ownedCopyConflict(peers, from, n, r, explicit)
              <=> \E p \in peers : /\ p.sourceNamespace = from
                                   /\ syncsName(p, r)
                                   /\ targetsNamespace(n, p)
                                   /\ explicit => explicitTarget(n, p)
<1> DEFINE owners == {p \in peers : /\ p.sourceNamespace = from
                                    /\ syncsName(p, r)
                                    /\ targetsNamespace(n, p)}
           listed == {p \in owners : explicitTarget(n, p)}
           owner == copyOwner(peers, from, n, r)
<1>1. owner = IF listed # {} THEN listed ELSE owners
  BY DEF copyOwner
<1>2. ownedCopyConflict(peers, from, n, r, explicit)
         <=> owner # {} /\ (explicit => \A p \in owner : explicitTarget(n, p))
  BY DEF ownedCopyConflict
<1>3. owner # {} <=> owners # {}
  BY <1>1
<1>4. owners # {} =>
         ((\A p \in owner : explicitTarget(n, p)) <=> listed # {})
  BY <1>1
<1>5. ownedCopyConflict(peers, from, n, r, explicit)
         <=> owners # {} /\ (explicit => listed # {})
  BY <1>2, <1>3, <1>4
<1> QED
  BY <1>5

\* copyOwner is nil only if no peer syncs the copy.
LEMMA CopyOwnerMeans ==
    ASSUME NEW peers, NEW from, NEW n, NEW r
    PROVE  copyOwner(peers, from, n, r) # {}
              <=> \E p \in peers : /\ p.sourceNamespace = from
                                   /\ syncsName(p, r)
                                   /\ targetsNamespace(n, p)
  BY DEF copyOwner

-----------------------------------------------------------------------------
\* Knowing of more peers never permits more: what the rules refuse with some
\* peers in view they refuse with more (sourceConflict, copyConflictGuard), and
\* what cleanup may take with more in view it may take with fewer (unclaimed).
THEOREM MorePeersForbidMore ==
    ASSUME NEW more, NEW peers \in SUBSET more, NEW n, NEW r, NEW from,
           NEW explicit \in BOOLEAN, NEW o
    PROVE  /\ sourceConflict(peers, n, r) => sourceConflict(more, n, r)
           /\ copyConflictGuard(peers, n, r, from, explicit, o)
                 => copyConflictGuard(more, n, r, from, explicit, o)
           /\ unclaimed(more, from, n, r) => unclaimed(peers, from, n, r)
<1>1. sourceConflict(peers, n, r) => sourceConflict(more, n, r)
  BY DEF sourceConflict, sourceOwner
<1>2. \A f : ownedCopyConflict(peers, f, n, r, explicit)
                => ownedCopyConflict(more, f, n, r, explicit)
  BY OwnedCopyConflictMeans
<1>3. copyConflictGuard(peers, n, r, from, explicit, o)
         => copyConflictGuard(more, n, r, from, explicit, o)
  BY <1>1, <1>2 DEF copyConflictGuard
<1>4. unclaimed(more, from, n, r) => unclaimed(peers, from, n, r)
  BY <1>1, CopyOwnerMeans DEF unclaimed, sourceConflict
<1> QED
  BY <1>1, <1>3, <1>4

\* The guard lets p overwrite the copy of a peer q only where p lists the
\* namespace and q does not, whatever other peers there are
\* (copyConflictGuard, ownedCopyConflict).
THEOREM OnlyListedOutranks ==
    ASSUME NEW p, NEW q, NEW peers, q \in peers, NEW n, NEW r, NEW o,
           q.sourceNamespace \notin {NoNamespace, p.sourceNamespace},
           syncsName(q, r), targetsNamespace(n, q),
           isManagedCopy(o, q.sourceNamespace, r),
           ~ copyConflictGuard(peers, n, r, p.sourceNamespace, explicitTarget(n, p), o)
    PROVE  explicitTarget(n, p) /\ ~ explicitTarget(n, q)
<1>1. explicitTarget(n, p) \in BOOLEAN
  BY DEF explicitTarget
<1>2. ~ ownedCopyConflict(peers, q.sourceNamespace, n, r, explicitTarget(n, p))
  BY DEF copyConflictGuard, isManagedCopy
<1> QED
  BY <1>1, <1>2, OwnedCopyConflictMeans

\* Two NamespaceSyncs that sync the same name into the same namespace from
\* different sources never both may overwrite each other's copy, so that they
\* cannot take it from each other in turn.
THEOREM NoFight ==
    ASSUME NEW p, NEW q, NEW peersOfP, q \in peersOfP, NEW peersOfQ, p \in peersOfQ,
           NEW n, NEW r, NEW copyOfP, NEW copyOfQ,
           p.sourceNamespace # q.sourceNamespace,
           NoNamespace \notin {p.sourceNamespace, q.sourceNamespace},
           syncsName(p, r), targetsNamespace(n, p),
           syncsName(q, r), targetsNamespace(n, q),
           isManagedCopy(copyOfP, p.sourceNamespace, r),
           isManagedCopy(copyOfQ, q.sourceNamespace, r)
    PROVE  \/ copyConflictGuard(peersOfP, n, r, p.sourceNamespace,
                                explicitTarget(n, p), copyOfQ)
           \/ copyConflictGuard(peersOfQ, n, r, q.sourceNamespace,
                                explicitTarget(n, q), copyOfP)
  BY OnlyListedOutranks

=============================================================================
