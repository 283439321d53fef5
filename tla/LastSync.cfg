SPECIFICATION LastSyncSpec
CONSTANTS
    Data = {"d1", "d2"}
    Label = {"app", "team", "kubernetes.io/x"}
    SourceOnlyKeys = {"kubernetes.io/x"}
    Policies <- SomePolicies
    NoCopy = NoCopy
    Edits = 2
INVARIANTS
    StampIsLastDataWrite
PROPERTIES
    CopyRests
    CopySettles
