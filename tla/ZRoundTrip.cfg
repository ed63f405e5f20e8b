SPECIFICATION RoundTripSpec
CONSTANTS
  x = x  y = y
  Nul = Nul
  Magic = Magic
  HeaderLen = 2
  Size = 3
  BlockSize = 4
  LineLen = 2
  Extra = 3
  LongestInfo = 2
  Infos = {2, 3, 12}
  DiskSize = 14
  Name = x
  Signings <- TheSignings
  Inputs <- TheInputs
  Outputs <- TheOutputs
  Edits <- TheEdits
  MaxEdits = 1
INVARIANTS SpaceSuffices AcceptedWasSigned
PROPERTY SignedIsAccepted
