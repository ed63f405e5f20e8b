SPECIFICATION LibrarySpec
CONSTANTS
  BlockLen = 4
  Word = 64
  Contents <- TheContents
  BufSize = 6
  MaxRewrites = 1
  Pad64 = Pad64
  Space = Space
  Other = Other
  Nul = Nul
  Sources <- TheSources
  TargSizes = {0, 1, 2, 3, 4, 5}
  HashSize = 4
  KeyLengths = {0, 1, 2, 3, 4, 5, 6, 7, 8, 9, 10, 11, 12, 13, 14, 15, 16, 17}
  AllRounds = {0, 1, 3}
  Keys <- TheKeys
  Interval <- TheInterval
  Bits = 4
  MinSize = 4
  MinDeleted = 2
  InitSize = 4
  NULL = NULL
  DELETED = DELETED
  WordBits = 4
  RoundCounts = {64, 80}
  Schedules <- TheSchedules
  Starts <- TheStarts
  K <- TheK
  Distances <- TheDistances
  DigitBits = 1
  BLF_N = 4
  Cost = 2
  BlfKeys <- TheBlfKeys
  BlfSalts <- TheBlfSalts
  Plaintexts <- ThePlaintexts
  Ivs <- TheIvs
  initstate <- TheInitstate
INVARIANTS DigestIsOfFile TransformIsStandard DecodesExactly EntriesFindable DecryptsBack
PROPERTIES KeyIsDerived IsKeySet CallsReturn
