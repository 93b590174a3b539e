----------------------------- MODULE MCAuditLog ------------------------------
(* A small instance of AuditLog for TLC.                                    *)
EXTENDS AuditLog
=============================================================================
