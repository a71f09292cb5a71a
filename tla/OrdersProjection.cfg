SPECIFICATION Spec
CONSTANTS
  p1 = p1
  p2 = p2
  bad = bad
  o1 = o1
  OrderIds = {o1}
  Posts <- MCPosts
  PostOrder <- MCPostOrder
  Invalid = {bad}
  Workers = {w1, w2}
  MaxFaults = 0
CHECK_DEADLOCK FALSE
PROPERTY PlacedFillsMissingFields
