SPECIFICATION MCSpec
CONSTANTS
  N = 4
  LimbBits = 3
  C = 3
  Unpacked <- TheUnpacked
  Moduli <- TheModuli
  ScalarBits = 2
  K = 3
  m = 17
  Digests <- TheDigests
  q = 149
  d = 3
  base <- TheBase
  Tasks <- TheTasks
  Seeds = {1, 2}
  Contents = {1, 2}
  Messages <- TheMessages
  Unsigned <- TheUnsigned
  MaxSigned = 2
INVARIANTS
  FieldIsExact
  ScalarsReduced
  PackedIsSum
  OpensExactlySigned
  NoncesDiffer
