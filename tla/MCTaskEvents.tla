---------------------------- MODULE MCTaskEvents ----------------------------
(* The instances of TaskEvents for TLC.                                    *)
EXTENDS TaskEvents

CONSTANTS p1, p2

MCRequests == {p1, p2}
MCOneRequest == {p1}
MCPrefetches == {1, 2}
=============================================================================
