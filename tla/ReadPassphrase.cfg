SPECIFICATION FairSpec
CONSTANTS
  Chars = {"a", "b"}
  BufSize = 2
  LineMax = 2
  PipeMax = 3
  MaxSignals = 2
INVARIANTS EchoIsBack PassphraseIsLine
PROPERTIES InterruptNotLost Terminates
