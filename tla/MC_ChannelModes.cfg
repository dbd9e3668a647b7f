CONSTANTS
    u1 = u1
    u2 = u2
    Clients <- MC_Clients
    CModes <- MC_CModes
    UModes = {"o", "v"}
    CHANNEL_MODE_LEN = 5
    InfoArgs <- MC_InfoArgs
    FlagArgs <- MC_FlagArgs
SPECIFICATION Spec
INVARIANT TypeOK
PROPERTY ImplementsModeSets
