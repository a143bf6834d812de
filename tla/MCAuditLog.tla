----------------------------- MODULE MCAuditLog -----------------------------
(* Small instances of AuditLog.  Workers, what records say and attachments *)
(* are model values, interchangeable among themselves.                     *)
EXTENDS AuditLog, TLC

Symmetry == Permutations(Workers) \cup Permutations(Bodies)
=============================================================================
