---------------------------- MODULE MCAuditChain ----------------------------
(* Model checking AuditChain. *)
EXTENDS AuditChain

CONSTANTS p1, p2, b1, b2

MCProcesses == {p1, p2}
MCBodies == {b1, b2}
=============================================================================
