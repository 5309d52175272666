\* As many numbers as connections: no number is ever overwritten. Without
\* symmetry, which the liveness properties do not allow.
SPECIFICATION FairSpec
CONSTANTS
  Conns = {c1, c2}
  Fds = {f1, f2}
  NumIds = 2
  MaxPending = 1
  NoFd = NoFd
  NoConn = NoConn
INVARIANTS HoldersReachable ClosedIsClean
PROPERTIES SessionsSpec CloseReturns EventsArrive
