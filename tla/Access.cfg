SPECIFICATION AccessSpec
CONSTANTS
    Clients = {c1, c2}
    Replicas = {r1, r2}
    MaxMails = 2
    MaxUsers = 2
    MaxTokens = 3
    MaxEdits = 1
SYMMETRY Symmetry
CHECK_DEADLOCK FALSE
INVARIANTS TokensEndOnce AnswersJustified
