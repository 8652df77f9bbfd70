SPECIFICATION Spec
CONSTANTS
  JsonSeeds <- MCJsonSeeds
  Alphabet <- MCAlphabet
  SessionSeeds <- MCSessionSeeds
  LegacySeeds <- MCLegacySeeds
  SettingsSeeds <- MCSettingsSeeds
  KeyOrder <- MCKeyOrder
  ChatMessages <- MCChatMessages
  PendingWords = {"todo"}
  FileWords = {"lib.rs"}
  Sorted <- MCSorted
  Short = 5
  Long = 6
  Candidates <- MCCandidates
  Typed <- MCTyped
  Letters = {101, 109, 68}
  Cwd <- MCCwd
  FileSizes = {0, 3, 7}
  FileTexts = {1, 2}
  MaxTotal = 6
  MaxFile = 4
  MarkerSize = 2
  MaxI64 = 12
  MaxU32 = 5
  MaxEdits = 2
INVARIANTS JsonFaithful RecordsFaithful DiagnosticsFaithful PromptWhole
PROPERTIES NothingLostSilently
CHECK_DEADLOCK FALSE
