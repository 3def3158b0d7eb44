SPECIFICATION Spec
CONSTANTS
    Screens = {s, t}
    Texts = {x}
    Comments = {c}
    Cards = {1, 2, 3}
    Columns = {todo, done}
    Assets = {a, b}
    Nothing = Nothing
    Gap = 64
    MaxRequests = 6
    MaxDeaths = 1
PROPERTIES
    NoLostUpdate
    MovesLand
INVARIANTS
    PublishedStays
SYMMETRY Alike
CHECK_DEADLOCK FALSE
