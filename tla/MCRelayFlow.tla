------------------------------ MODULE MCRelayFlow ------------------------------
(* Two peers, the host with the smaller stable id or with the larger one.     *)
EXTENDS RelayFlow
================================================================================
