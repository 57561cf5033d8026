SPECIFICATION FairSpec
CONSTANTS
    Expire = 2
    Thread <- MCOneThread
    UsersOf <- MCOneUsersOf
    CodesOf <- MCOneCodesOf
    InitTtl <- MCInitTtl
INVARIANTS
    TypeOK
    OwnerIntact
PROPERTIES
    NoDowngrade
    LockEndsByRight
    TakeoverWhenQuiet
