-------------------------- MODULE MCEffectInsertion --------------------------
(* Two effects, so that one can be inserted into the other's links.            *)
EXTENDS EffectInsertion
==============================================================================
