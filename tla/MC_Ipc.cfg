CONSTANTS
    t1 = t1
    t2 = t2
    t3 = t3
    pA = pA
    pB = pB
    KernelTask = KernelTask
    KernelPrincipal = KernelPrincipal
    NoSubject = NoSubject
    Tasks <- MCTasks
    Principals <- MCPrincipals
    PrincipalOf <- MCPrincipalOf
    Payloads = {m}
    Policies <- MCPolicies
    MaxChannelsPerOwner = 1
    MaxChannelsTotal = 1
    MaxChannelId = 2
    IrqChannels = {2}
SPECIFICATION Spec
INVARIANTS CallsStayValid WaitersAreParked NoLostWakeup
PROPERTY WaitersProgress
CHECK_DEADLOCK FALSE
