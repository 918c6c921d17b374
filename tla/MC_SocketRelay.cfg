CONSTANTS
    a = a
    b = b
    c = c
    Clients = {a, b, c}
    Depth = 1
    Numbers = 1
    NoRequest = NoRequest
    DeadlineReached = TRUE
    MaxUnanswered = 1
SPECIFICATION Spec
INVARIANTS AnswersMatch PendingIsHalfOpen
PROPERTY OutstandingCallsReturn
CHECK_DEADLOCK FALSE
