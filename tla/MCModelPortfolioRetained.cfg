SPECIFICATION Spec
CONSTANTS
  Workers = {w1, w2}
  Keys = {k1, k2}
  NProviders = 2
  Nil = Nil
INVARIANT RetainedOpen
