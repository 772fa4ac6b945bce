CONSTANTS
  None = None
  Torn = Torn
  ts = ts
  py = py
  f1 = f1
  f2 = f2
  \* Approvals
  Sessions = {s1}
  Tokens = {t_a, t_b}
  Saves = {w1, w2}
  Smuggled <- MCSmuggled
  MaxAnswers = 2
  \* LanguageServers
  ServerCalls = {c1, c2}
  Languages <- MCLanguages
  SourceFiles = {f1, f2}
  LanguageOf <- MCLanguageOf
  ServerProcesses = {1, 2}
  Retries = 1
  \* ArtifactsIndex
  Messages = {"plan"}
  Media = {"table"}
  Records = {"export"}
  SessionOf <- MCSessionOf
  SessionFiles <- MCSessionFiles
  Jobs = {j1}
  \* RunLog
  LoggedRuns = {r1}
  LoggedTools = {t1}
  LastDay = 2
  LoggedPerRun = 3
  QueueLimit = 1
  BufferLimit = 2
  Trouble = 1
  \* HookCommands
  Entries <- MCEntries
  Threshold = 2
  HookTurns = 4
  \* WorkDigest
  DigestFiles = {"f1", "f2", "f3"}
  Facts = {"k"}
  MaxFiles = 2
  MaxFacts = 1
  DigestRuns = 3
  DigestPerRun = 2
  \* OutputPrune
  Sizes = {0, 1, 3, 8}
  Width = 2
  PruneTurns = 3
  Protect = 4
  Quantum = 2
  \* ModelStream
  Blocks = 2
  Fragments = 2
  Replies = 2
  \* ToolCommands
  ToolCalls = {c1}
  MaxOutput = 2
  Chunks = 3
  Whole = 3
  \* SubAgents
  SpawnCalls = {c1}
  MaxTurns = 2
  Deltas = 3
  \* ModelRegistry
  RegistrySeed <- MCRegistry
  RegistryIds = 3
  ApiKeys = {"secret", "other"}
  Efforts = {"high"}
  AskedIds = {1, 3}
  RegistryStarts = 2
  \* DataSources
  SeedEnvironments = {"dev", "prod"}
  SourceNames = {"a", "b"}
  Locked = Locked
  \* CodeRoots
  CodeDirs = {"r", "q"}
  FoundDirs = {"r"}
  DirOrigin <- MCDirOrigin
  RepoUrls = {"u", "v"}
  \* SkillFiles
  SkillNames = {"a", "b"}
  SkillCalls = 2
  \* The handlers of the last four
  StoreJobs = {1, 2}
  StoreStarts = 3
SPECIFICATION Spec
INVARIANT TypeOK
INVARIANT RecordsKept
INVARIANT StoresKeep
INVARIANT ProcessesSound
INVARIANT AccountsKept
PROPERTY Answered
CHECK_DEADLOCK FALSE
