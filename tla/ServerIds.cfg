\* Two creations and three turns in every interleaving, two crashes and a
\* failing upsert.
SPECIFICATION Spec
CONSTANTS
  Creates = {c1, c2}
  Turns = {t1, t2, t3}
  c1 = c1
  c2 = c2
  t1 = t1
  t2 = t2
  t3 = t3
  MaxCrashes = 2
  MaxStoreFaults = 1
SYMMETRY Symmetric
INVARIANTS CreatedThreadsKept RunsDistinct IdInv
