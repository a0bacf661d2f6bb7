SPECIFICATION SessionSpec
CONSTANTS
  Sockets = 2
  Fd <- MCFd
  Account = {"a", "b"}
  MaxMessages = 2
  OutputSpace = 1
  Word = 4
CHECK_DEADLOCK FALSE
INVARIANT
  NoFreedSocketUsed
