CONSTANTS
    opus = opus  haiku = haiku  t1 = t1  t2 = t2  c1 = c1
    NumKeys = 1
    Models = {opus, haiku}
    Tasks = {t1}
    Callers = {c1}
    StreakLimit = 2
    MaxRetries = 1
    MaxEdits = 1
    None = None
SPECIFICATION Spec
INVARIANTS VerdictEarned BilledAtMost
PROPERTIES VerdictSurvives
SYMMETRY Symmetry
CHECK_DEADLOCK FALSE
