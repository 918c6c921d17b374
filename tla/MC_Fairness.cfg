CONSTANTS
    s1 = s1
    s2 = s2
    rt = rt
    in = in
    ai = ai
    bg = bg
    Tasks = {s1, s2, rt, in, ai, bg}
    PriorityOf <- MCPriority
    Temperatures = {69, 70, 84, 85, 95}
    WaitCap = 9
SPECIFICATION FairnessSpec
INVARIANTS WaitBounded BackgroundWaitBounded
PROPERTY NoStarvation
