\* Three resources, pages of one, at most two pages to a chain.
CONSTANTS
  Ids = {1, 2, 3}
  Limit = 1
  MaxPages = 2
  MaxTS = 5
SPECIFICATION Spec
INVARIANTS TypeOK
PROPERTIES WalkFindsAll
