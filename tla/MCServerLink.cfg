SPECIFICATION LinkSpec
CONSTANTS
  Key = {k1}
  Stranger = {k9}
  Player = {p1}
  Fd = {5, 6}
  NoFd = NoFd
  MaxConn = 3
  MaxSends = 1
CHECK_DEADLOCK FALSE
INVARIANTS
  LinkTypeOK
  NoneAstrayWhileOpen
  OkIsValidated
  OnlyEarlyDrops
PROPERTIES
  LinkComesUp
