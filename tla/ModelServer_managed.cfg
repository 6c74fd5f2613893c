SPECIFICATION Spec
CONSTANTS
    Clients = {c1, c2, c3}
    Models = {m1, m2}
    ExternalModels = {}
    ImpatientLock = TRUE
SYMMETRY Symmetry
INVARIANTS OneManagedServer ReportedModelMatches
PROPERTIES ImplementsSharedServer
CHECK_DEADLOCK FALSE
