\* Registration: two clients and one peer link, passing properties.
CONSTANTS
    c1 = c1
    c2 = c2
    p1 = p1
    a = a
    A = A
    b = b
    empty = empty
    secret = secret
    NoNick = NoNick
    Locals <- MC_Locals
    Outbound <- MC_Outbound
    Nicks <- MC_Nicks
    Fold <- MC_Fold
    Pwds <- MC_Pwds
    EmptyPwd = empty
    ServerPwd = secret
SPECIFICATION Spec
INVARIANTS
    TypeOK
    NickUnique
    RegisteredIdentity
PROPERTIES
    ImplementsLifecycle
