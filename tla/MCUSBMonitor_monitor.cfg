SPECIFICATION FairSpec
CONSTANTS
    d1 = d1
    d2 = d2
    Devices = {d1}
    MaxPlugs = 1
    MaxRegisters = 2
INVARIANTS
    TypeOK
    ConnectionsAccounted
    RegisteredMeansPolled
    QuietAfterDestroy
PROPERTIES
    AnnouncedUnlessStale
CHECK_DEADLOCK FALSE
