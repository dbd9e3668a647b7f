CONSTANTS
    u1 = u1
    r1 = r1
    a = a
    A = A
    b = b
    x = x
    NoChan = NoChan
    Locals <- MC_Locals
    Remotes <- MC_Remotes
    IrcOps <- MC_IrcOps
    Names <- MC_Names
    Valid <- MC_Valid
    Fold <- MC_Fold
    ChanModes <- MC_ChanModes
    ModeArgs <- MC_ModeArgs
    Limits <- MC_Limits
    Requests <- MC_Requests
    MaxJoins = 2
    PredefOnly = FALSE
SPECIFICATION Spec
INVARIANTS
    TypeOK
    NamesUnique
    MembershipUnique
    MembersInLiveChannels
    NoMembershipOfDestroyed
PROPERTY
    ImplementsMembership
