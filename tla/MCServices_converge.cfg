SPECIFICATION ClusterSpec
CONSTANTS
  Plugins = {p}  Topics = {"e"}  Services = {s}  Routes = {r}  Threads = {t1}
  MaxIds = 1  None = None
  Names = {n1}  Interfaces = {"i1", "i2"}  Capabilities = {"k1", "k2"}  Descriptors <- MCDescriptors  MaxEntries = 1
  Nodes = {m1, m2}  MaxRegs = 2  MaxTime = 1  Timeout = 1  MaxAge = 1  MaxKeys = 1
  Quiet = 1  MaxNow = 1  MaxWrites = 1  Unparsable = {}
  Addresses = {1}  Capacity = 1  PoolSize = 1  Word = 16  MaxSteps = 1
  Subscribers = {"mixed", "wild"}  Star <- MCStar  Starred = {0, 9}  Regexes = {8}  TypesOf <- MCTypesOf  Accepts <- MCAccepts  EventTypes <- MCEventTypes  Filters <- MCFilters
  Publishers = {u1}  Requests = {r1}  RequestTimeout = 1
  MaxPublished = 1  MaxDead = 1  MaxCached = 1  MaxTick = 1
PROPERTIES Converges
CHECK_DEADLOCK FALSE
