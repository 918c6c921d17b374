CONSTANTS
    sys = sys
    int = int
    bg = bg
    Kmain = km
    IdleTask = idle
    Users = {sys, int}
    Tasks = {sys, int, km, idle}
    PriorityOf <- MCPriority
    ApPresent = FALSE
SPECIFICATION Spec
PROPERTY TickPreempts
