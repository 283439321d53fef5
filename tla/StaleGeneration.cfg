SPECIFICATION Spec
CONSTANTS
    Namespace = {"a", "t"}
    NoNamespace = NoNamespace
    SystemNamespaces = {}
    Name = {"x"}
    Pattern = {}
    Malformed = {}
    Matches = {}
    NoName = NoName
    Type = {"Opaque"}
    Data = {"d1", "d2"}
    Label = {}
    SourceOnlyKeys = {}
    NoObject = NoObject
    Sync = {"A"}
    NoSync = NoSync
    SpecsOf <- DefaultOrListed
    PresetFinalizer = {FALSE, TRUE}
    UserKeys <- SecretsX
    UserObjects <- HandMade2
    Clusters <- OneEdit
    ReconcileInterval = 5
    NoWrite = NoWrite
CHECK_DEADLOCK FALSE
PROPERTIES
    ObservedGenerationIsBasis
