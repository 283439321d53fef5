SPECIFICATION FairSpec
CONSTANTS
    Namespace = {"a", "t"}
    NoNamespace = NoNamespace
    SystemNamespaces = {}
    Name = {"x"}
    Pattern = {}
    Malformed = {}
    Matches = {}
    NoName = NoName
    Type = {"Opaque", "tls"}
    Data = {"d1", "d2"}
    Label = {}
    SourceOnlyKeys = {}
    NoObject = NoObject
    Sync = {"A"}
    NoSync = NoSync
    SpecsOf <- NoEdits
    PresetFinalizer = {FALSE, TRUE}
    UserKeys <- OnlySource
    UserObjects <- AnotherType
    Clusters <- ReplaceSource
    ReconcileInterval = 5
    NoWrite = NoWrite
CHECK_DEADLOCK FALSE
PROPERTIES
    Converges
