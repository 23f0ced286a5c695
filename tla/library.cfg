SPECIFICATION LibrarySpec
CONSTANTS
  t1 = t1
  t2 = t2
  t3 = t3
  Tasks = {t1, t2}
  Library = {m1}
  Workloads <- McWorkloads
  DsTasks = {t1, t2, t3}
  Missing = Missing
  Whole = Whole
  DsNames = {"D1", "D2"}
  Members = {"M1", "M2"}
  Contents = {"x", "y", "z"}
  DsJobs <- McDsJobs
  DirCases <- McDirs
  CsiCases <- McPages
  DateCases <- McDates
  UfPaths <- McPaths
  UfTasks = {t1, t2}
  UfNone = UfNone
  UfSize <- McSize
  SymLoop = 1
  MaxNow = 1
  UfJobs <- McUfJobs
  JbIds = {1, 2, 3}
  JbTasks = {t1, t2}
  JbNone = JbNone
  JbMaxDds = 2
  JobsMax = 3
  DdsMax = 1
  BufferSlots = 2
  MaxEntries = 2
  JbJobs <- McJbJobs
  SyslogCases <- McSyslog
  CsPerDay = 24
  Uint32 = 100
  CnTasks = {1, 3}
  CnDigits = 2
  CnReplies <- McReplies
  BufferSize = 3
  CnNone = CnNone
  Certs = {1, 2}
  Labels = {"A", "B", "C"}
  Rings = {"R1", "R2"}
  Virtual = "*"
  KrTasks = {k1, k2}
  KrJobs <- McKrJobs
  RingsFit = 1
  KrNone = KrNone
  Scripts <- McScripts
  PipeSize = 2
  ReadSize = 2
  Tables = {0, 1, 2}
  MaxParmlib = 2
  SvServices = {"apf", "linklist", "subsystems", "parmlib", "run", "dynalloc", "utility", "symbol", "search", "dsect", "idcams", "run24"}
  ReplLines = 3
INVARIANTS
  MemberWriteHonest
  EtagsHold
  ExclusiveUse
  ListingsHonest
  JobAnswersHonest
  ConsoleAnswers
  KeyRingAnswersHonest
  ProgramsRunRight
  NothingLeftBehind
PROPERTIES
  CopyAsksFirst
  DeleteStaysInside
  TagTellsEncoding
CHECK_DEADLOCK FALSE
