---------------------------- MODULE MCRemoteCall ----------------------------
(* The instance of RemoteCall for TLC.                                     *)
EXTENDS RemoteCall

CONSTANTS r1, r2, kozlov, petrov

MCCallers == {r1, r2}
MCEmails == {kozlov, petrov}
=============================================================================
