CONSTANTS
    sys = sys
    int = int
    bg = bg
    Kmain = km
    IdleTask = idle
    Users = {sys, int, bg}
    Tasks = {sys, int, bg, km, idle}
    PriorityOf <- MCPriority
    ApPresent = TRUE
SPECIFICATION Spec
INVARIANTS  LockHandover
PROPERTY TickHandsOver
