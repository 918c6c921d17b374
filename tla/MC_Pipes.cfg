CONSTANTS
  LastFd = 5
  NoFd = NoFd
  Stdin = Stdin
  Stdout = Stdout
  NoRing = NoRing
  Capacity = 2
  MaxPipes = 2
  MaxBytes = 3
SPECIFICATION Spec
INVARIANTS
  EndsMatchDescriptors
  StreamInOrder
