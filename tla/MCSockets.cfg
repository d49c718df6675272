CONSTANTS
  Fds <- MCFds
  NBCLIENT = 2
  NBCLIENTT = 1
  Handlers = {h1, h2}
  Radio = {"clientTask"}
  MaxConns = 3
  MaxTells = 1
SPECIFICATION FairSpec
INVARIANTS SlotsHoldOpen SocketsOwned
PROPERTIES AllReached AcceptGoesOn
CHECK_DEADLOCK FALSE
