----------------------------- MODULE Conflicts -----------------------------
(***************************************************************************)
(* The ownership rules between NamespaceSyncs that reach the same object,  *)
(* translated from internal/controller/conflicts.go, with the shape of the *)
(* objects they judge (resources.go).  Pure operators.                     *)
(*                                                                         *)
(* An object is what one Secret or ConfigMap holds.  `from' and `fromName' *)
(* are the source-namespace and source-name annotations, NoNamespace and   *)
(* NoName when absent; `type' is the type of a Secret; `data' is the       *)
(* payload; `labels' stands for every other label and annotation key.  The *)
(* last-sync stamp is left to module LastSync: no rule here reads it.      *)
(*                                                                         *)
(* Peers are represented by their specs.  The code only asks whether some  *)
(* peer owns an object, and whether the preferred owner lists a namespace. *)
(***************************************************************************)
EXTENDS Targeting

CONSTANTS
    NoName,          \* the missing source-name annotation
    Type,            \* types of Secrets
    Data,            \* payloads
    Label,           \* label and annotation keys
    SourceOnlyKeys,  \* keys under kubernetes.io/ and kubectl.kubernetes.io/
    NoObject         \* no object is stored under the key

Object == [from     : Namespace \cup {NoNamespace},
           fromName : Name \cup {NoName},
           type     : Type,
           data     : Data,
           labels   : SUBSET Label]

ASSUME ConflictsAssumption ==
    /\ NoName \notin Name
    /\ SourceOnlyKeys \subseteq Label
    /\ NoObject \notin Object

Stored == Object \cup {NoObject}

\* Where an object is stored.
Key == Namespace \X Resource

-----------------------------------------------------------------------------
\* The copy of the object src, read from sourceNamespace under r's name.
desiredCopy(src, sourceNamespace, r) ==
    [from     |-> sourceNamespace,
     fromName |-> r[2],
     type     |-> src.type,
     data     |-> src.data,
     labels   |-> src.labels \ SourceOnlyKeys]

\* Both annotations of a copy synced from sourceNamespace.
isManagedCopy(obj, sourceNamespace, r) ==
    obj.from = sourceNamespace /\ obj.fromName = r[2]

\* The peers that read n/r as their source object; none is Go's nil.
sourceOwner(peers, n, r) ==
    {p \in peers : p.sourceNamespace = n /\ syncsName(p, r)}

\* The peers the loop may return as the owner of the copy of r that
\* sourceNamespace feeds into n: those that list n if there are any, otherwise
\* all of them; none is Go's nil.
copyOwner(peers, sourceNamespace, n, r) ==
    LET owners == {p \in peers : /\ p.sourceNamespace = sourceNamespace
                                 /\ syncsName(p, r)
                                 /\ targetsNamespace(n, p)}
        listed == {p \in owners : explicitTarget(n, p)}
    IN  IF listed # {} THEN listed ELSE owners

\* A write into an object that a peer reads as its source.
sourceConflict(peers, n, r) == sourceOwner(peers, n, r) # {}

\* Mutants of ownedCopyConflict: whoever writes last wins; a sync that lists
\* the namespace wins over one that lists it too.
lastWriterWins(peers, from, n, r, explicit) == FALSE
listedAlwaysWins(peers, from, n, r, explicit) ==
    ~ explicit /\ copyOwner(peers, from, n, r) # {}

\* A live peer syncs the copy from another source, and this sync does not
\* outrank it.
ownedCopyConflict(peers, from, n, r, explicit) ==
    LET owner == copyOwner(peers, from, n, r)
    IN  /\ owner # {}
        /\ explicit => \A p \in owner : explicitTarget(n, p)

\* TRUE when the guard refuses to let a sync from sourceNamespace overwrite
\* the existing object n/r.
copyConflictGuard(peers, n, r, sourceNamespace, explicit, existing) ==
    \/ /\ ~ isManagedCopy(existing, sourceNamespace, r)
       /\ sourceConflict(peers, n, r)
    \/ /\ existing.from = NoNamespace
       /\ ~ explicit
    \/ /\ existing.from \notin {NoNamespace, sourceNamespace}
       /\ ownedCopyConflict(peers, existing.from, n, r, explicit)

\* Cleanup may take n/r out of a sync from sourceNamespace: no peer syncs the
\* same copy and none reads it as its source.
unclaimed(peers, sourceNamespace, n, r) ==
    /\ copyOwner(peers, sourceNamespace, n, r) = {}
    /\ sourceOwner(peers, n, r) = {}

=============================================================================
