SPECIFICATION Spec
CONSTANTS
    Ident = {i1, i2}
    Copy = {a}
    Wish = {w1}
    Task = {t1, t2}
    Nil = Nil
    StoreMayFail = FALSE
PROPERTIES
    DeletesSurviveTermination
