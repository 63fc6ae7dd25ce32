SPECIFICATION Spec
CONSTANTS
  n1 = n1
  Node = {n1}
  Nobody = Nobody
  t1 = t1
  t2 = t2
  o1 = o1
  o2 = o2
  Thread = {t1, t2}
  Operator = {o1, o2}
  Limit = 2
  Window = 1
  MaxTime = 1
  MaxTokens = 3
SYMMETRY Symmetry
INVARIANTS TypeOK WindowBound TokensHonoured DisabledDrains
