SPECIFICATION FairSpec
CONSTANTS
    Namespace = {"a", "b", "t"}
    NoNamespace = NoNamespace
    SystemNamespaces = {}
    Name = {"x"}
    Pattern = {}
    Malformed = {}
    Matches = {}
    NoName = NoName
    Type = {"Opaque"}
    Data = {"d1", "d2"}
    Label = {}
    SourceOnlyKeys = {}
    NoObject = NoObject
    Sync = {"A", "B"}
    NoSync = NoSync
    SpecsOf <- NoEdits
    PresetFinalizer = {FALSE, TRUE}
    UserKeys <- SourcesAB
    UserObjects <- HandMade2
    Clusters <- Meeting
    ReconcileInterval = 5
    NoWrite = NoWrite
CHECK_DEADLOCK FALSE
INVARIANTS
    NoOrphans
PROPERTIES
    OwnershipRespected
    Converges
    Quiesces
    StatusConverges
