SPECIFICATION FairSpec
CONSTANTS
    Expire = 1
    NTrunks = 2
    TrunkUser <- MCUser
    LocalCamera <- MCLocalCamera
    OtherCamera <- MCOtherCamera
INVARIANTS
    TypeOK
    TrunkCarriesItsCamera
    OneTrunkPerCamera
    LeaseHonoured
PROPERTIES
    LeaseKept
    ServedWhenQuiet
