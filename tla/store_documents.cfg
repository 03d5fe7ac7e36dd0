\* One registration at a time: bodies, clients, refusals, and silent nodes.
CONSTANTS
  Absent = Absent
  Nodes = {n1}
  Devices = {d1}
  Sources = {}
  Flows = {}
  Leaves = {}
  Bodies <- MCBodies
  Minors = {0}
  Clients = {c1}
  Handlers = {h1}
  Deletable = {n1, d1}
  StaleAfter = 1
  Vals = {a, b}
  Extras = {x, y}
  BodyForms = {"good", "invalid", "incomplete"}
  V1Flows = FALSE
SPECIFICATION FairSpec
INVARIANTS DocumentsMatchTyped
PROPERTIES SilentNodesAreEvicted
