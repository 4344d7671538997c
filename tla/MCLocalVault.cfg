\* Two processes, two environments, one name and two values; up to two rows,
\* of up to three versions each.
CONSTANTS
    p1 = p1
    p2 = p2
    dev = dev
    prod = prod
    n = n
    x = x
    y = y
    Processes <- MCProcesses
    Environments <- MCEnvironments
    Names <- MCNames
    Values <- MCValues
    MaxRows = 2
    MaxVersion = 3
SYMMETRY Alike
SPECIFICATION Spec
INVARIANT NothingOverwritten
INVARIANT OneSecretPerName
