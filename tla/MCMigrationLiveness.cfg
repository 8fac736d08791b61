SPECIFICATION Spec
CONSTANTS
  Workers = {w1, w2}
  Readers = {rd}
  Journals = {j1}
  Roots = {A, B}
  Gens = {g1, g2}
  Runs = {a}
  MaxCrashes = 1
  Nil = Nil
PROPERTY MigrationCompletes
