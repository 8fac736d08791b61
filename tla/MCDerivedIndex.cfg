SPECIFICATION Spec
CONSTANTS
  w = w
  r = r
  w1 = w1
  w2 = w2
  r1 = r1

  Conns = {w, r}
  ReadOnly = {r}
  Clients = {w1, w2, r1}
  ConnOf <- MCConnOf
  Profiles = {p}
  Models = {m}
  Lexical = Lexical
  Gens = {g1, g0}
  EmptyGen = g0
  Runs = {a, b}
  Layouts = {l1, l2}
  Roots = {root}
  ResultCap = 1
  Nil = Nil
  Failed = Failed
INVARIANTS TypeOK VectorsCurrent PlacementFaithful CachesCoherent
PROPERTY AbstractSpec
SYMMETRY MCSymmetry
VIEW MCView
