SPECIFICATION Spec
CONSTANTS
    Desc = {d1, d2, d3}
    Names = {n1, n2}
    Bodies = {b1, b2, b3}
    Mob = Mob
    Nil = Nil
    MaxVersion = 2
    MaxFailures = 1
    Careful = TRUE
SYMMETRY Symmetry
VIEW View
INVARIANTS
    OneBody
    Attached
PROPERTIES
    EntersCurrent
