SPECIFICATION FairSpec
CONSTANTS
    Namespace = {"a", "t", "kube-system"}
    NoNamespace = NoNamespace
    SystemNamespaces = {"kube-system"}
    Name = {"x"}
    Pattern = {"["}
    Malformed = {"["}
    Matches = {}
    NoName = NoName
    Type = {"Opaque"}
    Data = {"d1", "d2"}
    Label = {}
    SourceOnlyKeys = {}
    NoObject = NoObject
    Sync = {"A"}
    NoSync = NoSync
    SpecsOf <- ValidAndInvalid
    PresetFinalizer = {FALSE, TRUE}
    UserKeys <- SourceAndTarget
    UserObjects <- HandMade2
    Clusters <- Changing
    ReconcileInterval = 5
    NoWrite = NoWrite
CHECK_DEADLOCK FALSE
PROPERTIES
    HandMadeKept
    DeletesOnlyOwnCopies
    CustodyKept
    Converges
    StatusConverges
    DeletionCompletes
