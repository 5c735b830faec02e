SPECIFICATION CardSpec
CONSTANTS
    Writer = {w1}
    MaxCommands = 4
    Histories <- NewCard
CHECK_DEADLOCK FALSE
PROPERTY ForgottenNeverRolledBack
