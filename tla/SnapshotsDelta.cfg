SPECIFICATION Spec
CONSTANTS
  e1 = e1
  e2 = e2
  v1 = v1
  v2 = v2
  Entity = {e1, e2}
  Field = {"health"}
  Value = {v1, v2}
  Ring = 2
  History = 2
  MaxTick = 3
  MaxReturns = 1
  MaxRejoins = 1
SYMMETRY Alike
 
PROPERTY ExactOnItsBaseline
CHECK_DEADLOCK FALSE
