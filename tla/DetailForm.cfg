SPECIFICATION Spec
CONSTANTS
    Person = {p1, p2}
    Text = {x1, x2}
    Day = {d1}
    Button = {first, second, third}
    Nil = Nil
SYMMETRY Symmetry
INVARIANTS
    FlagsTogether
PROPERTIES
    PressTellsTruth
