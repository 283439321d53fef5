SPECIFICATION FairSpec
CONSTANTS
    Namespace = {"a", "t"}
    NoNamespace = NoNamespace
    SystemNamespaces = {}
    Name = {"x", "y"}
    Pattern = {"y*", "["}
    Malformed = {"["}
    Matches <- YMatches
    NoName = NoName
    Type = {"Opaque"}
    Data = {"d1", "d2"}
    Label = {"app", "kubernetes.io/x"}
    SourceOnlyKeys = {"kubernetes.io/x"}
    NoObject = NoObject
    Sync = {"A", "I"}
    NoSync = NoSync
    SpecsOf <- ValidAOrInvalidI
    PresetFinalizer = {FALSE, TRUE}
    UserKeys <- SourceAndCopy
    UserObjects <- HandMade2
    Clusters <- Watched
    ReconcileInterval = 0
    NoWrite = NoWrite
CHECK_DEADLOCK FALSE
PROPERTIES
    Converges
    StatusConverges
    InvalidReported
    DeletionCompletes
