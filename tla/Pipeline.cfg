SPECIFICATION FairSpec
CONSTANTS
  p1 = p1  p2 = p2  p3 = p3  k0 = k0  k1 = k1  a = a  b = b  pw = pw
  Procs = {p1, p2, p3}
  InitKeys = {k0, k1}
  Pass = {pw}
  NoPass = NoPass
  Symbols = {a, b, Nul}
  Nul = Nul
  Paths <- AllPaths
  Files <- PipelineFiles
  InitSigned <- OldSignings
  Jobs <- PipelineJobs
  Edits = {}
  MaxEdits = 0
INVARIANTS TypeOK GeneratedPair PubImpliesSec ExtractedComplete
PROPERTIES KeysNeverReplaced Terminates
