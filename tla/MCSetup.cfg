SPECIFICATION SetupSpec
CONSTANTS
  Plugins = {p, q}  Topics = {"e", "*"}  Services = {s}  Routes = {r}  Threads = {t1, t2}
  MaxIds = 2  None = None
  Names = {p, q}  Interfaces = {"i1", "i2"}  Capabilities = {"k1", "k2"}  Descriptors <- MCDescriptors  MaxEntries = 2
  Nodes = {m1, m2}  MaxRegs = 2  MaxTime = 2  Timeout = 2  MaxAge = 3  MaxKeys = 3
  Quiet = 1  MaxNow = 3  MaxWrites = 3  Unparsable = {2}
  Addresses = {1, 2, 3}  Capacity = 2  PoolSize = 1  Word = 16  MaxSteps = 5
  Subscribers = {"mixed", "wild"}  Star <- MCStar  Starred = {0, 9}  Regexes = {8}  TypesOf <- MCTypesOf  Accepts <- MCAccepts  EventTypes <- MCEventTypes  Filters <- MCFilters
  Publishers = {u1}  Requests = {r1, r2}  RequestTimeout = 1
  MaxPublished = 2  MaxDead = 1  MaxCached = 1  MaxTick = 3
INVARIANTS CleanUnload IndexExact ReloadsCurrent CountersTrue EventsSound SetupSound 
PROPERTIES MergeForward KeyFixed
SYMMETRY Symmetry
CHECK_DEADLOCK FALSE
