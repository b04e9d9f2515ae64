SPECIFICATION FairSpec
CONSTANTS
    d1 = d1
    d2 = d2
    Devices = {d1}
    MaxPlugs = 1
    MaxRegisters = 1
PROPERTIES
    AttachAnnounced
CHECK_DEADLOCK FALSE
