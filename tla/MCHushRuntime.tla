---------------------------- MODULE MCHushRuntime ----------------------------
(* Callbacks of two blocks, and rings that hold no more than one callback, so  *)
(* that they do run full.                                                      *)
EXTENDS HushRuntime
==============================================================================
