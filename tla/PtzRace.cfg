SPECIFICATION Spec
CONSTANTS
    Expire = 2
    Thread <- MCTwoThreads
    UsersOf <- MCTwoUsersOf
    CodesOf <- MCTwoCodesOf
    InitTtl <- MCInitTtl
PROPERTIES
    NoDowngrade
