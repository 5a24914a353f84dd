----------------------------- MODULE MCAudioPath -----------------------------
(* Two links of the host and one address of the client, whose moves these     *)
(* properties do not see.  A window of three counters and five datagrams: the *)
(* window advances by less than, exactly and more than its width.  Two        *)
(* threads bring streams, so that a stream arrives while another is installed. *)
EXTENDS AudioPath
CONSTANTS wifi, lan, tether, t1, t2
Links == {wifi}
HostLinks == {lan, tether}
Threads2 == {t1, t2}
=============================================================================
