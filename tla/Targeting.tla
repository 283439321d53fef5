----------------------------- MODULE Targeting -----------------------------
(***************************************************************************)
(* What a NamespaceSync spec selects: which namespaces it targets, which   *)
(* Secrets and ConfigMaps it syncs, and whether the controller accepts it. *)
(* Pure operators, translated from internal/controller/filters.go and      *)
(* utils.go; the spec record follows api/v1/namespacesync_types.go.        *)
(*                                                                         *)
(* Lists of names are sets: the code only asks whether a list contains an  *)
(* item, and the order in which it walks a list is left open.  A nil       *)
(* filter and a filter with two empty lists behave alike and are one value.*)
(***************************************************************************)

CONSTANTS
    Namespace,         \* namespace names
    NoNamespace,       \* the empty string: a missing namespace or annotation
    SystemNamespaces,  \* the namespaces no sync ever writes to
    Name,              \* names of Secrets and ConfigMaps
    Pattern,           \* glob patterns of resource filters
    Malformed,         \* the patterns path.Match cannot parse
    Matches            \* the pairs <<pattern, name>> path.Match accepts

ASSUME TargetingAssumption ==
    /\ NoNamespace \notin Namespace
    /\ SystemNamespaces \subseteq Namespace
    /\ Malformed \subseteq Pattern
    /\ Matches \subseteq (Pattern \ Malformed) \X Name

Kind == {"secret", "configmap"}

\* A resource is a kind and a name; the same name may exist in both kinds.
Resource == Kind \X Name

Filter == [include : SUBSET Pattern, exclude : SUBSET Pattern]

NamespaceSyncSpec ==
    [sourceNamespace  : Namespace \cup {NoNamespace},
     targetNamespaces : SUBSET Namespace,
     exclude          : SUBSET Namespace,
     names            : [Kind -> SUBSET Name],
     filters          : [Kind -> Filter]]

-----------------------------------------------------------------------------
\* Exclude patterns first, and a malformed one excludes; then, if there are
\* include patterns, one of them has to match.
shouldSyncResource(name, filter) ==
    /\ \A p \in filter.exclude : p \notin Malformed /\ <<p, name>> \notin Matches
    /\ filter.include # {} => \E p \in filter.include : <<p, name>> \in Matches

\* The resources spec lists, whatever its filters say.
listsName(spec, r) == r[2] \in spec.names[r[1]]

\* The resources spec syncs: listed, and let through by the filter of the kind.
syncsName(spec, r) ==
    /\ listsName(spec, r)
    /\ shouldSyncResource(r[2], spec.filters[r[1]])

targetsNamespace(n, spec) ==
    /\ n \notin SystemNamespaces
    /\ n # spec.sourceNamespace
    /\ n \notin spec.exclude
    /\ spec.targetNamespaces # {} => n \in spec.targetNamespaces

\* An explicit target is listed rather than reached by default.
explicitTarget(n, spec) == n \in spec.targetNamespaces

-----------------------------------------------------------------------------
validateResourceFilter(filter) ==
    (filter.include \cup filter.exclude) \cap Malformed = {}

validateNamespaceSync(spec) ==
    /\ spec.sourceNamespace # NoNamespace
    /\ \E k \in Kind : spec.names[k] # {}
    /\ \A k \in Kind : validateResourceFilter(spec.filters[k])

\* What the CRD schema lets people store today; specs stored before its rules
\* existed may break them.
admitted(spec) ==
    /\ spec.sourceNamespace # NoNamespace
    /\ \E k \in Kind : spec.names[k] # {}

=============================================================================
