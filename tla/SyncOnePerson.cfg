SPECIFICATION FairHistorySpec
CONSTANTS
    Ident = {i1}
    Copy = {a, b}
    Wish = {w1, w2}
    Task = {t1, t2}
    Nil = Nil
    StoreMayFail = FALSE
PROPERTIES
    FetchSettles
    QuietLaunchShows
