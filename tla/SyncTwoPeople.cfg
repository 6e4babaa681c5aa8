SPECIFICATION HistorySpec
CONSTANTS
    Ident = {i1, i2}
    Copy = {a, b}
    Wish = {w1}
    Task = {t1, t2}
    Nil = Nil
    StoreMayFail = FALSE
SYMMETRY Symmetry
INVARIANTS
    UniqueIdentifiers
    PendingOnlyAfterImport
    ContextInv
    SteadyIdsAgree
    QuietLaunchHeals
    ListIsStored
PROPERTIES
    NoLostUpdate
