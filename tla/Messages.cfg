SPECIFICATION Spec
CONSTANTS
  p1 = p1  p2 = p2  p3 = p3  k0 = k0  k1 = k1  a = a  b = b  pw = pw
  Procs = {p1, p2}
  InitKeys = {k0, k1}
  Pass = {pw}
  NoPass = NoPass
  Symbols = {a, b, Nul}
  Nul = Nul
  Paths <- AllPaths
  Files <- SomeFiles
  InitSigned <- OldSignings
  Jobs <- MessageJobs
  Edits <- MessageEdits
  MaxEdits = 2
INVARIANTS EmbeddedSelfConsistent ExtractedIsSigned RefusalKeepsOutput
SYMMETRY Symmetric
