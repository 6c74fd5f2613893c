SPECIFICATION FairSpec
CONSTANTS
    Clients = {c1, c2}
    Models = {m1, m2}
    ExternalModels = {m1}
    ImpatientLock = FALSE
INVARIANTS NoAttachDuringShutdown NoOrphanServer OwnedServerIsKept
PROPERTIES StartupEnds ServerFollowsOwner
CHECK_DEADLOCK FALSE
