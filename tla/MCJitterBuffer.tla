---------------------------- MODULE MCJitterBuffer ----------------------------
(* Sequence numbers of five bits, so that every run wraps around, and a window *)
(* that has room for the outages of the network.                               *)
EXTENDS JitterBuffer

ASSUME RoomAssumption == Bridged
================================================================================
