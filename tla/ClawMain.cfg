SPECIFICATION MainSpec
CONSTANTS
  EqParts <- MCEqParts
  Dashed <- MCDashed
  Slashed = {}
  Blank = {}
  KnownTools = {}
  CommandLineWords <- MCCommandLineWords
  Environments <- MCEnvironments
  Bodies <- MCBodies
  SizeOf <- MCSizeOf
  Tools = {"grep"}
  MaxLength = 6
  PreserveRecent = 1
  CommandRoot <- MCCommandRoot
  Workspace = "w"
  Paths <- MCPaths
  Roots <- MCRoots
  Updates = {1, 2}
  Conversation <- MCConversation
  LowerCase <- MCLowerCase
  NameRank <- MCNameRank
  Cwd <- MCCwd
  Env <- MCEnv
  Dirs <- MCDirs
  FileNames = {"a", "b"}
  FrontMatters <- MCFrontMatters
  Requests <- MCRequests
  Characters = {"a", "A", "-", ".", "/", " ", "$", "!"}
  MaxWords = 4
  MaxEdits = 3
  Installers = {p, q}
  Sources = {"a", "b", "c"}
  NameOf <- MCNameOf
  FilesOf <- MCFilesOf
  MaxInstalls = 3
INVARIANTS ModeAsAsked AnsweredInOrder ResumeFaithful DefinitionsWhole InstalledWhole
CHECK_DEADLOCK FALSE
