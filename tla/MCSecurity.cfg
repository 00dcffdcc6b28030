SPECIFICATION Spec
CONSTANTS
  Pair = {x, y}  Roles = {r1}  NoRole = NoRole  GracePeriod = 1  Validity = 2
  MaxCredentials = 3  MaxNow = 3
  MaxValue = 4  GivenVersions = {0, 2}
  MaxCode = 4  CodeCount = 2  MaxAttempts = 1  Timeout = 0
  MaxSecond = 1  U32 = 64
  Capabilities = {"Network", "Command"}  MaxPending = 1  Expiration = 1  MaxIds = 2
  MaxDay = 2  None = None
  Owners = {o}  Hosts <- MCHosts  HostPatterns <- MCHostPatterns  Blocked <- MCBlocked
  GlobalHosts <- MCGlobalHosts  Paths <- MCPaths  PathPatterns <- MCPathPatterns
  GlobalReads <- MCGlobalReads  Star = 0
  Guests = {1, 2}  Requests <- MCRequests  TextLength = 4  MaxInput = 11  MaxIdentifier = 5  MinUrl = 10
  Characters = {"http://", "ftp://", "a", "1", "two bytes", "_", ".", "/", "nul", "lf", "tab", "$"}
  GivenModes = {"Read", "WriteOnly"}  Ports = {80}  MaxPatterns = 2
  Replicas = {s3}  MaxEvent = 2  MaxLines = 3  BatchSize = 2
  MaxRetries = 1  MaxUpsets = 2  MaxMemoryLines = 1  Plain = Plain  Garbage = Garbage
  Kinds = {"load"}  Severities = {0, 3}  MaxTime = 2  MaxEvents = 2  MaxPage = 2
  MaxWritten = 3
  Users = {u}  Ttl = 2  MaxLag = 1  MaxLogged = 3
INVARIANTS RotationSound BackupCodesSound GrantsSound CheckpointSound AnswersAgree BoundedStaleness
SYMMETRY Symmetry
CHECK_DEADLOCK FALSE
