---------------------------- MODULE MCAuditTrail ----------------------------
\* Instances of AuditTrail for TLC.
EXTENDS AuditTrail

CONSTANTS e1, e2
=============================================================================
