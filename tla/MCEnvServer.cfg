SPECIFICATION Spec
CONSTANTS
    Users = {alice, bob}
    Secrets = {s1, s2}
    Tokens = {t1}
    Contents = {x, y}
    Creator = alice
    NoGrant = NoGrant
    NoContent = NoContent
    MaxVersion = 2
    MaxRevision = 2
    MaxKey = 1
    MaxReset = 1
INVARIANTS
    CurrentRowInHistory
    OneRowPerVersion
    GrantsOnlyForMembers
    TokensAnswerToMembers
    SomeOwner
PROPERTIES
    HistoryKept
    RotationRekeysEverything
    RevisionNamesContent
    FrozenWhileDeleting
CHECK_DEADLOCK FALSE
SYMMETRY Others
