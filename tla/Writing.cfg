SPECIFICATION Spec
CONSTANTS
    Player = {p, q}
    Boss = {q}
    Message = {m1, m2}
    Note = {n1}
    Text = {t, Empty}
    Empty = Empty
    Full = 2
    Mailbox = 1
    Careful = TRUE
    Nil = Nil
INVARIANTS SessionsSound FinishedSurvives NoneUnwritten
CHECK_DEADLOCK FALSE
