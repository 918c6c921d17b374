CONSTANTS
  N = 3
  Policy <- InstPolicy
  Sockets = {3}
  HealthEvery <- InstHealth
  BaseMs = 1
  MaxMs = 2
  Factor = 2
  CountMax = 2
  TimeMax = 5
  MaxRefusals = 1
SPECIFICATION Spec
INVARIANTS
  TypeOK
  OrderIsTopological
  NoProcessLost
  DependentsStopFirst
  ShutdownIsFinal
  BackoffIsExponential
PROPERTY
  CrashIsRepaired
CHECK_DEADLOCK FALSE
