--------------------------- MODULE SessionOwnership ---------------------------
(***************************************************************************)
(* What the relay promises about a session's control channel, whatever the *)
(* threads do: it is owned by one connection at a time, a lost connection  *)
(* may be replaced, every replacement has a control generation of its own, *)
(* and a session without an owner is soon replaced or gone for good.       *)
(***************************************************************************)
EXTENDS Naturals

VARIABLES
    phase,      \* owned, orphaned or gone
    generation  \* of the current or the last owner; nothing once it is gone

vars == <<phase, generation>>

Nothing == 0

Init == phase = "owned" /\ generation = 1

Drop ==
    /\ phase = "owned"
    /\ phase' = "orphaned"
    /\ UNCHANGED generation

Resume ==
    /\ phase = "orphaned"
    /\ phase' = "owned"
    /\ generation' = generation + 1

Lose ==
    /\ phase # "gone"
    /\ phase' = "gone"
    /\ generation' = Nothing

Next == Drop \/ Resume \/ Lose

Settle == phase = "orphaned" /\ (Resume \/ Lose)

Spec == Init /\ [][Next]_vars /\ WF_vars(Settle)
================================================================================
