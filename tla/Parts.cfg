SPECIFICATION Spec
CONSTANTS
  Size = 2
  Lengths = {1, 2}
  Chunk = 1
  Retry = 2
  StreamIn = 3
  MaxOut = 2
  Handlers = {"f", "g"}
  Kinds = {"event"}
  AnyEvent = AnyEvent
  NoEvent = NoEvent
  MaxIds = 3
  Given <- FewAddresses
  Prefixes = {1, 8, 9, 16, 23, 24, 25, 31, 32}
  Clients = {"a", "b"}
  Sockets = 3
  Backlog = 1
  TlsSockets = 2
  MaxIn = 2
  Bundles <- SomeRoots
  Issuers = {0, 1, 2, 3, 4}
  Keys = {0, 1}
  NoTable = NoTable
  Hosts = {"host", "router"}
  Group = Group
  Nobody = Nobody
  Cap = 2
  MaxBytes = 3
  MaxPackets = 1
  Nearby <- Few
  Lists <- Listed
  NoSsid = NoSsid
  Low = 0
  Half = 3
  MaxScans = 2
  MaxClients = 2
  QueueLen = 2
  MaxChanges = 4
  MaxFaults = 1
  Ssids = {"home", "lab"}
  Statics = {"static"}
  NoNet = NoNet
  Nothing = Nothing
  \* Octets at the ends of the ranges, in the first subnet and in a later one.
  Owns = {1, 18, 115, 130, 250}
  Masks = {0, 128, 224, 240}
  \* Two tasks resolve names, two names, one stale request each.
  Callers = {c1, c2}
  Names = {n1, n2}
  NoAddress = NoAddress
  MaxStale = 1
  Slaves = 2
  Queries = 2
  MaxRuns = 3
INVARIANTS
  TypesOK StreamIntact SocketsAreOwned TlsIsSound DatagramIntact
  WifiIsSound DispatchIsFair EventsTellWorld AddressesFit
  ServicesHold ResultIsOwn IdleIsKept
PROPERTIES BestIsJoined CallsEnd
\* Sockets are closed, and a bound may leave nothing to do.
CHECK_DEADLOCK FALSE
