SPECIFICATION Spec
CONSTANTS
  x = x  y = y
  Nul = Nul
  Magic = Magic
  HeaderLen = 2
  Size = 3
  BlockSize = 4
  LineLen = 2
  Extra = 3
  LongestInfo = 2
  Infos = {2, 3, 12}
  DiskSize = 14
  Inputs <- SignedInputs
  Outputs <- TheOutputs
  Edits = {}
  MaxEdits = 0
INVARIANT ExtraSuffices
