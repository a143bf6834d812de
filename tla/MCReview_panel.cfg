SPECIFICATION Spec
CONSTANTS
  a1 = a1
  a2 = a2
  r1 = r1
  r2 = r2
  Actors = {a1, a2}
  Roles = {r1, r2}
  NoRole = NoRole
  Panels <- MCPanels
  Absent = Absent
  MaxFaults = 2
  MaxCrashes = 2
SYMMETRY Symmetry
INVARIANTS
  ApprovedIsUnanimous
  ConsensusTakesEffect
