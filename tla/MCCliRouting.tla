---------------------------- MODULE MCCliRouting ----------------------------
(* A small tenant for checking CliRouting with TLC. *)
EXTENDS CliRouting

CONSTANTS gemini_cli, codex, opencode, t1, t2, t3

PaidFirst == <<gemini_cli, codex>>
=============================================================================
