---------------------------- MODULE MCLinkCommands ----------------------------
(* Two sources and two sinks.  The link o2-i2 is only observed.  One list of   *)
(* saved rules feeds an input twice, the other misses one of the live links.   *)
EXTENDS LinkCommands
CONSTANTS o1, o2, i1, i2
MCPairs == {<<o1, i1>>, <<o2, i1>>, <<o2, i2>>}
MCObserved == {<<o2, i2>>}
MCGraphs == {{<<o1, i1>>}, MCPairs}
MCGroups == {<< <<o1, i1>>, <<o2, i1>>, <<o2, i2>> >>}
MCPatchbays == {<< <<o1, i1>>, <<o2, i1>> >>, << <<o2, i1>>, <<o2, i2>> >>}
===============================================================================
