SPECIFICATION ListSpec
CONSTANTS
    Chars = {m1, m2, p1}
    Players = {p1}
    Marker = Marker
    Null = Null
    Sites = {s1, s2}
    MaxDepth = 2
    MaxPlace = 8
    Reentry = FALSE
SYMMETRY Symmetry
INVARIANTS
    LoopsExact
    FightsOwed
PROPERTIES
    ImplementsTraversal
