---------------------------- MODULE MCProfileLock ----------------------------
(* ProfileLock with three jobs in two processes.  The daemon runs two of   *)
(* them as tasks, the third belongs to another process of the same host.   *)
EXTENDS ProfileLock, TLC

CONSTANTS j1, j2, j3, daemon, cli

MCProcOf == (j1 :> daemon) @@ (j2 :> daemon) @@ (j3 :> cli)
=============================================================================
