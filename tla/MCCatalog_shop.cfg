SPECIFICATION Spec
CONSTANTS
  p1 = p1
  p2 = p2
  Goods = {f1}
  Parts = {p1, p2}
  Units = {u1}
  Recipes <- TwoRecipes
  Batches = {0, 2}
  Builds = {b1, b2}
  MaxVersions = 2
  MaxStock = 1
  Orders = {o1}
  LineIds = {l1, l2}
  NewLines = {{l1, l2}}
  Deliveries = {d1, d2}
  Clerks = {c1, c2}
  None = None
CONSTRAINT Focus
SYMMETRY Symmetry
INVARIANT BuildsMoveGoodsOnce
 
INVARIANT RecipeOnRecord
PROPERTY OrdersFollowTheirPath
CHECK_DEADLOCK FALSE
