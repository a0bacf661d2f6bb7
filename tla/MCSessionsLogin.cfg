SPECIFICATION FairSessionSpec
CONSTANTS
  Sockets = 2
  Fd <- MCFd
  Account = {"a"}
  MaxMessages = 2
  OutputSpace = 1
  Word = 4
CHECK_DEADLOCK FALSE
PROPERTY
  LoginAnswered
