\* The libraries with a state of their own. A stack check may end the
\* process.
SPECIFICATION Spec
CONSTANTS
  MaxWsPayload = 268435456
  Urls <- MCUrls
  Bad = ".."
  Snapshots = "snapshots"
  Fixtures <- MCFixtures
  Headers = {h1}
  Login = login
  NoLogin = nologin
  Nothing = Nothing
  Sockets = {s1, s2, s3}
  Copies = {c1, c2}
  Impls = {i1, i2, i3}
  MaxWrite = 2
  Absent = Absent
  ImageFiles = {p1, p2}
  MaxHeight = 9
  MaxBytes = 2
  NoImage = NoImage
  Ssids <- MCSsids
  Defaults <- MCDefaults
  DefaultSsid = "cafe"
  ApSsid = "crosspoint"
  Unspecified = Unspecified
  StackTasks <- MCTasks
  Budgets = {1, 2, 3}
  Frames = {1, 2}
  MaxDepth = 3
  MaxTasks = 3
  Entries <- MCEntries
INVARIANTS
  OneResponse BodiesAsAsked SocketsOwned DecodesWhole StackReported
  LinkIsReal
PROPERTIES CallsReturn
CHECK_DEADLOCK FALSE
