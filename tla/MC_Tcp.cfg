CONSTANTS
  Client = Client
  Server = Server
  NoConn = NoConn
  Junk = Junk
  SeqMod = 32
  FirstIsn <- InstIsn
  IsnStep = 11
  Mss = 1
  MAX_RETRANSMIT = 1
  MaxBacklog = 1
  MaxWrite <- InstWrite
  MaxIsn = 2
SPECIFICATION TcpSpec
INVARIANTS
  TcpType
  StreamIsPrefix
  NothingForgotten
  HalfCloseAgreed
PROPERTY
  RetransmissionEnds
CHECK_DEADLOCK FALSE
