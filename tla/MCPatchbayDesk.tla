---------------------------- MODULE MCPatchbayDesk ----------------------------
(* Two sources compete for one sink.                                           *)
EXTENDS PatchbayDesk
CONSTANTS o1, o2, i1
MCPairs == {<<o1, i1>>, <<o2, i1>>}
MCPatchbays == {<<>>, << <<o1, i1>>, <<o2, i1>> >>}
MCPasts == [saved : MCPatchbays, connected : {{}}]
             \cup {[saved |-> <<>>, connected |-> {<<o1, i1>>}]}
===============================================================================
