---------------------------- MODULE MCAcpSession ----------------------------
(* Two prompts, one steering message, and a close that shutdown joins.       *)
EXTENDS AcpSession
=============================================================================
