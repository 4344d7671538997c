SPECIFICATION SyncSpec
CONSTANTS
    alice = alice
    bob = bob
    laptop = laptop
    desktop = desktop
    Users = {alice, bob}
    Devices = {laptop, desktop}
    Owner <- OneEach
    Creator = alice
    Admins = {}
    Secrets = {s1}
    Tokens = {}
    Contents = {x}
    NoGrant = NoGrant
    NoContent = NoContent
    MaxVersion = 2
    MaxRevision = 3
    MaxKey = 1
    MaxReset = 0
    MaxAttempts = 2
    MaxSeals = 1
INVARIANTS
    SyncTypeOK
    SyncedCoversServer
PROPERTIES
    CommitUnderCheckedKey
    NothingReplacedUnseen
    VersionsMoveForward
CHECK_DEADLOCK FALSE
