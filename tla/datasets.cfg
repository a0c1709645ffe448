SPECIFICATION Spec
CONSTANTS
  None = None
  Sets = {d1}
  Roots = {r1}
  Children = {k1}
  Assigns = {a1, a2}
  Unassigns = {u1}
  Closes = {c1, c2}
  Raters = {f1}
  Spawns = {p1}
  MaxVersions = 2
SYMMETRY Symmetry
CHECK_DEADLOCK FALSE
INVARIANTS DraftIsLast NoChildEscapes
PROPERTIES NoLateSpawn
