SPECIFICATION AuditSpec
CONSTANTS
  Workers = {w1, w2}
  Bodies = {b1, b2, b3, b4}
  Attachments = {e1}
  Missing = Missing
  Torn = Torn
  Closed = Closed
  Nobody = Nobody
  AuditFaults = 2
  AuditCrashes = 2
SYMMETRY Symmetry
INVARIANTS
  ChainIntact
  
