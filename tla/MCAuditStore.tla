---------------------------- MODULE MCAuditStore ----------------------------
(* Small instances of AuditStore for TLC. *)
EXTENDS AuditStore, TLC

CONSTANTS m1, m2, i1, i2

\* One message, or two of clients that chose the same id.
MCOneMessage == m1 :> i1
MCSameId == m1 :> i1 @@ m2 :> i1
=============================================================================
