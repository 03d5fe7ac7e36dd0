\* The whole resource tree on two nodes, one registration at a time.
CONSTANTS
  Absent = Absent
  Nodes = {n1, n2}
  Devices = {d1, d2}
  Sources = {s1}
  Flows = {f1}
  Leaves = {}
  Bodies <- MCBodies
  Minors = {0}
  Clients = {}
  Handlers = {h1}
  Deletable = {n1, n2, d1, d2, s1}
  StaleAfter = 0
  Vals = {a}
  Extras = {x}
  BodyForms = {"good"}
  V1Flows = TRUE
SPECIFICATION Spec
SYMMETRY NodesAndDevices
INVARIANTS TypeOK
PROPERTIES ReferencesBreakByDelete NoUnwarrantedRemoval
