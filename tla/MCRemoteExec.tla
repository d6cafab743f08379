---------------------------- MODULE MCRemoteExec ----------------------------
(* Instances of RemoteExec for TLC.                                         *)
EXTENDS RemoteExec

Either == {"ssh", "local"}
=============================================================================
