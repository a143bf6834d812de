SPECIFICATION AuditSpec
CONSTANTS
  Workers = {w1, w2}
  Bodies = {b1, b2, b3}
  Attachments = {e1}
  Missing = Missing
  Torn = Torn
  Closed = Closed
  Nobody = Nobody
  AuditFaults = 0
  AuditCrashes = 0
INVARIANTS
  AppendOnly
