SPECIFICATION MCSpec
CONSTANTS
  NULL = NULL
  Words <- TheWords
  Lines <- TheLines
  Foreign <- TheForeign
  Files <- TheFiles
  PathMax = 10
  CommentMax = 11
  MaxCommands = 3
  Contents <- TheContents
  FirstSpace = 3
  maxmsgsize = 16
  MaxChanges = 2
  P1 = P1
  P2 = P2
  Processes <- TheProcesses
  Pids = {1, 2, 3}
  FirstPids = {1, 2}
  BLOCKSZ = 2
  U32 = 2
  KEYIV = 3
  RSBUFSZ = 6
  REKEY_BASE = 3
  ValSize = 2
  Lengths = {1, 6}
  DatLengths = {1}
  MaxCalls = 3
  MaxForks = 2
INVARIANTS AllowedByPledge KeyIsNamed MessageFits GivenOnce PastIsGone ReseededInTime
PROPERTY IsReader
