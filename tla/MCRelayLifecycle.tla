---------------------------- MODULE MCRelayLifecycle ----------------------------
(* One attempt, accepted or dialled, beside sessions and strangers that fill    *)
(* the session table and the handshake slots.                                   *)
EXTENDS RelayLifecycle
CONSTANTS c1

OneAttempt == {c1}
================================================================================
