-------------------------- MODULE MCCommandRunner --------------------------
(* One command, small pipes, and more output than is kept.                  *)
EXTENDS CommandRunner
=============================================================================
