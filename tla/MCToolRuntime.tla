---------------------------- MODULE MCToolRuntime ---------------------------
(* ToolRuntime for TLC: a shell command (parallel, waits for its runtime), an  *)
(* image or MCP read (parallel) and an exclusive tool.                         *)
EXTENDS ToolRuntime

CONSTANTS shell, read, edit

ThreeCalls == {shell, read, edit}
ParallelCalls == {shell, read}
WaitingCalls == {shell}
=============================================================================
