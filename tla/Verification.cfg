SPECIFICATION MCSpec
CONSTANTS
  x = x  y = y
  Name = x
  Nul = Nul
  Magic = Magic
  HeaderLen = 3
  Size = 2
  Signings <- TheSignings
  Streams <- TheStreams
  f = f  g = g  v = v  w = w
  Files = {f, g}
  Values = {v, w}
  Missing = Missing
  Invalid = Invalid
  NoKey = NoKey
  Messages <- TheMessages
  ArgLists <- TheArgs
  MaxEdits = 1
INVARIANTS HeaderAgrees OutputIsSigned GenuineAccepted VerdictIsRight
