SPECIFICATION Spec
CONSTANTS
  Kinds = {"invoice", "document"}
  Docs = {d1, d2}
  Formats = {"A"}
  Default = "A"
  Fixed = "F"
  MaxSkips = 2
  MaxCounter = 3
  Clerks = {c1, c2}
  None = None
SYMMETRY Symmetry
INVARIANT UniqueNumbers
INVARIANT NeverReissued
