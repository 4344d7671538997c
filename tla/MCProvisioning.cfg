SPECIFICATION Spec
CHECK_DEADLOCK FALSE
CONSTANTS
    Ada = Ada
    Bob = Bob
    Users <- MCUsers
    Terminals <- MCUsers
    User <- MCUser
    DefaultEnvironments <- MCEnvironments
    MaxProjects = 1
    MaxKeys <- MCKeys
    Founders <- MCFounders
    Newcomers <- MCNewcomers
    CloneOptions <- MCCloneOptions
INVARIANTS ConfigResolves DevicesAgree
PROPERTIES PushGoesThrough
