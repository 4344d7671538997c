\* Sign-in and share links: five identifiers, one link of up to two views.
CONSTANTS
    u1 = u1
    u2 = u2
    f1 = f1
    f2 = f2
    Users <- MCUsers
    Flows <- MCFlows
    MaxIds = 5
    MaxLinks = 1
    MaxViews = 2
SYMMETRY AnyName
SPECIFICATION Spec
INVARIANT LoginOnce
INVARIANT ViewsBounded
\* Every run of the command ends and the identifiers are bounded: the model stops.
CHECK_DEADLOCK FALSE
