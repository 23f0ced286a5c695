SPECIFICATION ServerSpec
CONSTANTS
  Requests = {"put", "get"}
  Uploads = {"put"}
  Downloads = {"get"}
  Deferred = {"get"}
  Nil = Nil
  kMaxAbandonedIds = 1
  ToolJobs <- McToolJobs
  ToolLimit = 2
  Cmds <- McCmds
  JsonEnabled = TRUE
  Root <- McRoot
  Lines <- McLines
  JsonFlag <- McJsonFlag
  IntDigits = 3
  ExpDigits = 1
  PlugDirs <- McPlugDirs
  PlugFiles <- McPlugFiles
  Builtin = {"ds", "uss"}
  RpcBuiltin <- McRpc
  MaxDepth = 2
  IntMax = 1
  UintMax = 2
  PlainMax = 4
  LLMax = 7
  MAX_JSON_DEPTH = 4
  MAX_PAYLOAD_BYTES = 2
  MaxJobs = 1
  JsJobs <- McJsJobs
  FIFO_CHUNK_SIZE = 4
  AdlerBlock = 2
  MOD_ADLER = 251
  MaxIoErrors = 2
  CdJobs <- McCdJobs
  StScripts <- McStScripts
  DpUsers = {1, 2}
  DpJobs <- McDpJobs
  MaxTries = 1
  PfWorlds <- McPfWorlds
  PfFiles <- McPfFiles
  Migrated <- McMigrated
  FoundKeys <- McFoundKeys
  Typed <- McTyped
INVARIANTS
  AcceptedIsAnswered
  PipesSound
  ExitTellsTruth
  JsonAlone
  PluginsSound
  JsonFaithful
  StreamedIsWhole
  ToolEndsClean
  StartupSound
  InstallHonest
  ProfilesSound
