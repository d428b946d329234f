SPECIFICATION Spec
CONSTANTS
    Requests = {r1, r2, r3}
    OfChild = {r1, r2}
    Grantable = {r1, r2}
    Amendable = {r1}
    NoRequest = noRequest
    MaxAnswers = 2
    MaxTroubles = 2
INVARIANTS
    FirstAnswerWins
    FactsAreCurrent
CHECK_DEADLOCK FALSE
