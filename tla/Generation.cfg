CONSTANTS
    u1 = u1  v1 = v1  v2 = v2  r1 = r1  r2 = r2  r3 = r3  p1 = p1
    research = research  tailor = tailor
    Users = {u1}
    Kinds = {research, tailor}
    Reviews = {v1, v2}
    Owner <- MCOwner
    Requests = {r1, r2}
    AppRequests = {r1, r2}
    Readers = {p1}
    AppLimit = 1
    MaxCrashes = 1
    SlowRuns = FALSE
    NoRun = NoRun
    NoAsk = NoAsk
SPECIFICATION FairSpec
INVARIANTS OneActive AttachedToOwnReview DoneIsTrue OneExecution TimelineAgrees
PROPERTIES FinalVerdict ImplementsLedger RunsSettle RequestsAnswered
CHECK_DEADLOCK FALSE
