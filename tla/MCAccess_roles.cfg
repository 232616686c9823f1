SPECIFICATION AccessSpec
CONSTANTS
  Users = {u1, u2}
  Orgs = {o1}
  Callers = {c1, c2}
  First = u1
  TokenLife = 2
  MaxAge = 3
  MaxTime = 7
  MaxVersion = 1
  MaxTokens = 2
  OrgRoles = {"admin", "general", "sales", "purchasing", "accounting", "cashbook"}
  Absent = Absent
CONSTRAINT Focus
SYMMETRY Sym
INVARIANT RevokedStaysRevoked
INVARIANT ServesItsMenu
PROPERTY AdminsRemain
CHECK_DEADLOCK FALSE
