CONSTANTS
    t1 = t1
    t2 = t2
    t3 = t3
    pA = pA
    pB = pB
    KernelTask = KernelTask
    KernelPrincipal = KernelPrincipal
    NoSubject = NoSubject
    Tasks <- MCTasks
    Principals <- MCPrincipals
    PrincipalOf <- MCPrincipalOf
    Payloads = {m}
    Policies <- MCPolicies
    MaxChannelsPerOwner = 1
    MaxChannelsTotal = 2
    MaxChannelId = 1
    IrqChannels = {1}
SPECIFICATION Spec
PROPERTY IrqReceiverProgress
CHECK_DEADLOCK FALSE
