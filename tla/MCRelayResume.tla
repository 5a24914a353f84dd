---------------------------- MODULE MCRelayResume ----------------------------
(* Three connections: the one that established the session and two that     *)
(* re-dial it.                                                              *)
EXTENDS RelayResume

CONSTANTS t0, t1, t2

ThreeThreads == {t0, t1, t2}

================================================================================
