SPECIFICATION HistorySpec
CONSTANTS
    Ident = {i1}
    Copy = {a, b}
    Wish = {w1, w2}
    Task = {t1}
    Nil = Nil
    StoreMayFail = TRUE
SYMMETRY Symmetry
INVARIANTS
    SnapshotsCurrent
PROPERTIES
    ImplementsBook
