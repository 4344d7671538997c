SPECIFICATION TeamSpec
CONSTANTS
    alice = alice
    bob = bob
    carol = carol
    Users = {alice, bob, carol}
    Secrets = {s1}
    Tokens = {t1}
    Contents = {x}
    Creator = alice
    NoGrant = NoGrant
    NoContent = NoContent
    MaxVersion = 1
    MaxRevision = 2
    MaxKey = 2
    MaxReset = 1
    Staff <- Trio
    Runs <- Shifts
    FirstHolders = {bob, carol}
    Resetting = {carol}
    NoUser = NoUser
    NoKey = NoKey
    RotateAttempts = 2
PROPERTIES
    RemovalLeavesNoKey
    RotationKeepsAccess
CHECK_DEADLOCK FALSE
