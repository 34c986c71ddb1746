------------------------ MODULE MCResilientExecutor ------------------------
(* Small chains and lineages for checking ResilientExecutor with TLC. *)
EXTENDS ResilientExecutor

CONSTANTS claude_code, codex, opencode, gemini_cli, a1, a2, a3

ShortChains == {<<>>, <<opencode>>, <<claude_code, codex, opencode>>, <<opencode, claude_code>>,
                <<claude_code, gemini_cli, opencode>>, <<gemini_cli, codex>>}
ManyLineages == {<<>>, <<a1>>, <<a1, a2>>, <<a1, a1>>, <<a1, a2, a3>>}
TopLevel == {<<>>}
=============================================================================
