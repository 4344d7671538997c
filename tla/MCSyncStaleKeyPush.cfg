SPECIFICATION SyncSpec
CONSTANTS
    alice = alice
    bob = bob
    laptop = laptop
    desktop = desktop
    Users = {alice, bob}
    Devices = {laptop, desktop}
    Owner <- OneEach
    Creator = alice
    Admins = {bob}
    Secrets = {s1}
    Tokens = {}
    Contents = {x}
    NoGrant = NoGrant
    NoContent = NoContent
    MaxVersion = 1
    MaxRevision = 3
    MaxKey = 1
    MaxReset = 0
    MaxAttempts = 2
    MaxSeals = 1
INVARIANT
    TeamCanDecrypt
CHECK_DEADLOCK FALSE
