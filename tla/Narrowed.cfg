SPECIFICATION Spec
CONSTANTS
    Namespace = {"a", "t"}
    NoNamespace = NoNamespace
    SystemNamespaces = {}
    Name = {"x"}
    Pattern = {}
    Malformed = {}
    Matches = {}
    NoName = NoName
    Type = {"Opaque"}
    Data = {"d1", "d2"}
    Label = {}
    SourceOnlyKeys = {}
    NoObject = NoObject
    Sync = {"A"}
    NoSync = NoSync
    SpecsOf <- DefaultOrExcluding
    PresetFinalizer = {FALSE, TRUE}
    UserKeys <- SecretsX
    UserObjects <- HandMade2
    Clusters <- EditThenDelete
    ReconcileInterval = 5
    NoWrite = NoWrite
CHECK_DEADLOCK FALSE
INVARIANTS
    CleanedUp
