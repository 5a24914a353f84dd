--------------------------- MODULE MCRelayEnrollment ---------------------------
(* Two sessions, of one peer that pairs again or of two peers: every pairing  *)
(* up to the names.                                                           *)
EXTENDS RelayEnrollment
CONSTANTS s1, s2, p1, p2

TwoSessions == {s1, s2}
TwoPeers == {p1, p2}
AnyPairing == {[s \in TwoSessions |-> p1], [s \in TwoSessions |-> IF s = s1 THEN p1 ELSE p2]}
================================================================================
