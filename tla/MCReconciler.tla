---------------------------- MODULE MCReconciler ----------------------------
(***************************************************************************)
(* Small clusters for TLC.  Namespaces a and b hold source objects, t is a *)
(* target.  Every NamespaceSync syncs the Secret x.  A run starts in any   *)
(* of the clusters its configuration names, each with its own budget.      *)
(***************************************************************************)
EXTENDS ReconcilerProperties, TLC

NoFilter == [include |-> {}, exclude |-> {}]

\* A spec that syncs the Secrets in secrets from source.
Syncs(source, secrets, targets, exclude) ==
    [sourceNamespace |-> source, targetNamespaces |-> targets, exclude |-> exclude,
     names |-> [k \in Kind |-> IF k = "secret" THEN secrets ELSE {}],
     filters |-> [k \in Kind |-> NoFilter]]

ByDefault(source) == Syncs(source, {"x"}, {}, {})
ByDefaultOnlyT(source) == Syncs(source, {"x"}, {}, Namespace \ {source, "t"})
Explicitly(source, n) == Syncs(source, {"x"}, {n}, {})

\* A filter with a pattern path.Match cannot parse.
BadFilter(spec) ==
    [spec EXCEPT !.filters["secret"].exclude = {"["}]

Secret(n, name) == <<n, <<"secret", name>>>>
ConfigMap(n, name) == <<n, <<"configmap", name>>>>

HandMadeObject(d) ==
    [from |-> NoNamespace, fromName |-> NoName, type |-> "Opaque", data |-> d,
     labels |-> {}]

\* A cluster in which all namespaces are active, the objects in present and the
\* NamespaceSyncs in declared exist, and the events of extra may happen.
ClusterOf(present, declared, extra) ==
    [namespaces |-> [n \in Namespace |-> "active"],
     objects |-> [k \in Key |-> IF k \in DOMAIN present THEN present[k] ELSE NoObject],
     syncs |-> [s \in Sync |-> IF s \in DOMAIN declared THEN declared[s] ELSE NoSync],
     budget |-> extra @@ [e \in Event |-> 0]]

Empty == <<>>

SourceInA == Secret("a", "x") :> HandMadeObject("d1")
SourcesInAB == SourceInA @@ Secret("b", "x") :> HandMadeObject("d2")

Only(A) == "A" :> NewSync(A, TRUE)
Both(A, B) == "A" :> NewSync(A, TRUE) @@ "B" :> NewSync(B, TRUE)

NoEdits == [s \in Sync |-> {}]
SecretsX == {Secret(n, "x") : n \in Namespace}
HandMade2 == {HandMadeObject("d2")}

-----------------------------------------------------------------------------
(* One NamespaceSync, which people create and delete while its source and    *)
(* the object in its target come and go.                                     *)

OneDefault == "A" :> {ByDefault("a")}

Lifecycle ==
    {ClusterOf(SourceInA, Empty,
               "createSync" :> 1 @@ "deleteSync" :> 1 @@ "put" :> 2 @@ "fault" :> 1
               @@ "restart" :> 1)}

-----------------------------------------------------------------------------
(* One NamespaceSync that is there from the start.                           *)

ValidAndInvalid == "A" :> {ByDefault("a"), BadFilter(ByDefault("a"))}

\* Its spec is edited while it is reconciled.
Editing ==
    ClusterOf(SourceInA, Only(ByDefault("a")),
              "editSync" :> 2 @@ "deleteSync" :> 1 @@ "fault" :> 1)

\* Namespaces come and go.
ComingAndGoing ==
    ClusterOf(SourceInA, Only(ByDefault("a")),
              "createNamespace" :> 1 @@ "deleteNamespace" :> 1 @@ "deleteSync" :> 1)

\* Writes arrive late, also after a new leader has taken over.
Delayed ==
    ClusterOf(SourceInA, Only(ByDefault("a")),
              "put" :> 1 @@ "delete" :> 1 @@ "delay" :> 1 @@ "restart" :> 1)

\* A Secret and a ConfigMap of the same name, one of them in the way of a copy;
\* a call fails between the two.
BothKinds == [ByDefault("a") EXCEPT !.names["configmap"] = {"x"}]
TwoKinds ==
    ClusterOf(SourceInA @@ ConfigMap("a", "x") :> HandMadeObject("d1")
              @@ ConfigMap("t", "x") :> HandMadeObject("d2"),
              Only(BothKinds), "delete" :> 1 @@ "put" :> 1 @@ "fault" :> 1)

SourceAndTarget == {Secret("a", "x"), Secret("t", "x")}

Changing == {Editing, ComingAndGoing, TwoKinds, Delayed}

-----------------------------------------------------------------------------
(* Without the periodic reconcile everything rests on watch events.  Both    *)
(* kinds, one name filtered out, labels of which some stay with the source.  *)

Labelled == [HandMadeObject("d1") EXCEPT !.labels = {"app", "kubernetes.io/x"}]
SeveralResources ==
    [ByDefault("a") EXCEPT !.names["secret"] = {"x", "y"},
                           !.names["configmap"] = {"x"},
                           !.filters["secret"].exclude = {"y*"}]
LabelledSources ==
    Secret("a", "x") :> Labelled @@ Secret("a", "y") :> Labelled
    @@ ConfigMap("a", "x") :> Labelled @@ Secret("t", "y") :> Labelled
YMatches == {<<"y*", "y">>}
SourceAndCopy == {Secret("a", "x"), Secret("a", "y"), ConfigMap("t", "x")}

\* The same without the filter: while one spec follows the other, an event may
\* be mapped with the spec that does not care.
Unfiltered == [SeveralResources EXCEPT !.filters["secret"] = NoFilter]

\* The specs of I all fail validation; the one it has at first in FormerlyAdmitted
\* would be rejected by today's CRD schema.
ValidAOrInvalidI ==
    "A" :> {SeveralResources, Unfiltered}
    @@ "I" :> {BadFilter(ByDefault("a")), BadFilter(Explicitly("a", "t"))}

InvalidI(spec) ==
    ClusterOf(SourceInA, "I" :> NewSync(spec, TRUE),
              "editSync" :> 2 @@ "deleteSync" :> 1 @@ "annotateSync" :> 1
              @@ "restart" :> 1)
FormerlyAdmitted == InvalidI(Syncs("a", {}, {}, {}))

Watched ==
    {ClusterOf(LabelledSources, Only(SeveralResources), extra) :
        extra \in {"put" :> 1, "delete" :> 2, "editSync" :> 1 @@ "delete" :> 1,
                   "deleteNamespace" :> 1 @@ "createNamespace" :> 1}}
    \cup {ClusterOf(LabelledSources, Empty, "createSync" :> 1 @@ "delete" :> 1),
          ClusterOf(SourceInA, Empty,
                    "createSync" :> 1 @@ "annotateSync" :> 1 @@ "deleteSync" :> 1),
          InvalidI(BadFilter(ByDefault("a"))), FormerlyAdmitted}

-----------------------------------------------------------------------------
(* Two NamespaceSyncs, both already in the cluster, that get in each other's *)
(* way: in t, where the copy is not there yet or is A's, and one or both are *)
(* deleted; or in each other's sources.                                      *)

DefaultAgainstDefault == Both(ByDefaultOnlyT("a"), ByDefaultOnlyT("b"))
DefaultAgainstExplicit == Both(ByDefaultOnlyT("a"), Explicitly("b", "t"))
ExplicitAgainstExplicit == Both(Explicitly("a", "t"), Explicitly("b", "t"))
SameSource == Both(ByDefaultOnlyT("a"), Explicitly("a", "t"))
Chain == Both(Explicitly("a", "b"), Explicitly("b", "t"))
Ring == Both(Explicitly("a", "b"), Explicitly("b", "a"))
IntoEachOthersSource ==
    Both(Syncs("a", {"x"}, {}, {"t"}), Syncs("b", {"x"}, {}, {"t"}))

\* s is already being deleted when the controller starts.
Leaving(s, both) == [both EXCEPT ![s].deleting = TRUE, ![s].generation = 2]

CopyInT ==
    SourcesInAB
    @@ Secret("t", "x") :> desiredCopy(HandMadeObject("d1"), "a", <<"secret", "x">>)

Overlapping ==
    {ClusterOf(CopyInT, both, "deleteSync" :> 1) :
        both \in {DefaultAgainstDefault, DefaultAgainstExplicit,
                  ExplicitAgainstExplicit, SameSource}}
    \cup
    {ClusterOf(SourcesInAB, both, "deleteSync" :> 1) :
        both \in {DefaultAgainstExplicit, SameSource, Leaving("A", SameSource),
                  Leaving("B", SameSource)}}
    \cup
    {ClusterOf(SourcesInAB, both, "restart" :> 1) :
        both \in {DefaultAgainstDefault, ExplicitAgainstExplicit}}

SourcesAB == {Secret("a", "x"), Secret("b", "x")}

Chained ==
    {ClusterOf(SourcesInAB, both, "delete" :> 1) : both \in {Chain, IntoEachOthersSource}}
    \cup {ClusterOf(SourcesInAB, Ring, "delete" :> 1 @@ "delay" :> 1)}

Meeting == Overlapping \cup Chained

-----------------------------------------------------------------------------
(* Where the documentation and the code disagree.                            *)

\* The target changes while a reconcile of the old spec is under way.
DefaultOrListed == "A" :> {ByDefault("a"), Explicitly("a", "t")}
OneEdit == {ClusterOf(SourceInA, Only(ByDefault("a")), "editSync" :> 1)}

\* t is excluded after it received its copy.
DefaultOrExcluding == "A" :> {ByDefault("a"), Syncs("a", {"x"}, {}, {"t"})}
EditThenDelete ==
    {ClusterOf(SourceInA, Only(ByDefault("a")), "editSync" :> 1 @@ "deleteSync" :> 1)}

\* B was never valid, so it has no finalizer.
InvalidPeer ==
    {ClusterOf(SourceInA,
        Only(ByDefault("a"))
        @@ "B" :> NewSync([ByDefault("a") EXCEPT !.filters["configmap"].exclude = {"["}],
                          FALSE),
        "deleteSync" :> 2)}

\* t is deleted and created again, then A is deleted.
RecreateThenDelete ==
    {ClusterOf(SourceInA, Only(ByDefault("a")),
        "deleteNamespace" :> 1 @@ "createNamespace" :> 1 @@ "deleteSync" :> 1)}

\* A copy is still on its way when A is deleted.
CreateThenDelete ==
    {ClusterOf(SourceInA, Only(ByDefault("a")), "delay" :> 1 @@ "deleteSync" :> 1)}

\* The source is deleted and created again as a Secret of another type.
AnotherType == {[HandMadeObject("d2") EXCEPT !.type = "tls"]}
OnlySource == {Secret("a", "x")}
ReplaceSource ==
    {ClusterOf(SourceInA, Only(ByDefault("a")), "delete" :> 1 @@ "put" :> 1)}

=============================================================================
