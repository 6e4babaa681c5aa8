SPECIFICATION Spec
CONSTANTS
    Person = {p1}
    Text = {x1}
    Day = {d1}
    Button = {first, second, third}
    Nil = Nil
PROPERTIES
    BoughtStaysBought
