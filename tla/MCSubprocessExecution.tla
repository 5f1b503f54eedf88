------------------------ MODULE MCSubprocessExecution ------------------------
(* SubprocessExecution with commands of every kind.                         *)
EXTENDS SubprocessExecution

MCCommands == CommandKinds
=============================================================================
