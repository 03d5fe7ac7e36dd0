\* Two registrations interleave with each other, with DELETEs and the collector.
CONSTANTS
  Absent = Absent
  Nodes = {n1}
  Devices = {d1}
  Sources = {}
  Flows = {}
  Leaves = {}
  Bodies <- MCBodies
  Minors = {0, 1}
  Clients = {}
  Handlers = {h1, h2}
  Deletable = {n1, d1}
  StaleAfter = 0
  Vals = {a, b}
  Extras = {x}
  BodyForms = {"good"}
  V1Flows = FALSE
SPECIFICATION Spec
SYMMETRY Requests
INVARIANTS HealthTracksNodes RegisteredIsAnnounced
PROPERTIES ImplementsLeases
