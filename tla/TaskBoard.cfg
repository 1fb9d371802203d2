SPECIFICATION BoardSpec
CONSTANTS
    Tasks = {t1, t2}
    Errors = {e1, e2}
    NoError = NoError
    Window = 2
    ColumnLimit = 1
INVARIANTS
    HiddenTasksAreOld
PROPERTIES
    RecurringErrorIsReported
