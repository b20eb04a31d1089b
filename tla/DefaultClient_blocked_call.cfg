SPECIFICATION Spec
CONSTANTS
  i1 = i1
  i2 = i2
  g1 = g1
  g2 = g2
  k1 = k1
  k2 = k2
  None = None
  Initers <- TwoIniters
  Callers <- MCCallers
  Closers <- MCClosers
  MaxCalls = 2
INVARIANT
  HelpersNeverBlock
