\* More connections than numbers: addClient overwrites registered clients.
SPECIFICATION Spec
CONSTANTS
  Conns = {c1, c2, c3}
  Fds = {f1, f2, f3}
  NumIds = 2
  MaxPending = 2
  NoFd = NoFd
  NoConn = NoConn
SYMMETRY Symmetry
INVARIANTS RegistryOwned
PROPERTIES ClobberOnlyWhenFull
CHECK_DEADLOCK TRUE
CONSTRAINT NoDelivery
