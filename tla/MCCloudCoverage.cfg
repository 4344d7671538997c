SPECIFICATION CoverageSpec
CONSTANTS
    ann = ann
    ben = ben
    card = card
    seat = seat
    cardRef = cardRef
    seatRef = seatRef
    People = {ann, ben}
    Bindings <- TwoSources
    RegOps = {r1, r2}
    Attempts = {a1, a2}
    DirectOps = {d1}
    Reports <- SomeReports
    DirectReports <- RenewedLate
    NoAttempt = NoAttempt
    NoRenewal = NoRenewal
    Recovery = 2
    ExportWindow = 3
    MaxTime = 9
INVARIANTS
    StoredRowsValid
    HeadCoversSources
    RegistrationsValid
    EvaluationAgrees
PROPERTY
    AtomicCollections
CHECK_DEADLOCK FALSE
SYMMETRY AnyId
