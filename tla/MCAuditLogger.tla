--------------------------- MODULE MCAuditLogger ---------------------------
(***************************************************************************)
(* Three records: one batch of two and another behind it, or one record    *)
(* before and one after a failure or a restart.                            *)
(***************************************************************************)
EXTENDS AuditLogger
=============================================================================
