SPECIFICATION AccessSpec
CONSTANTS
    Clients = {c1, c2}
    Replicas = {r1, r2}
    MaxMails = 2
    MaxUsers = 2
    MaxTokens = 2
    MaxEdits = 1

PROPERTY CreatedOnlyWhenEmpty
CHECK_DEADLOCK FALSE
