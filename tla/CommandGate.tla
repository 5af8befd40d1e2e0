----------------------------- MODULE CommandGate -----------------------------
(***************************************************************************)
(* What a servo backend promises the robot, without threads, slots or      *)
(* sockets.  A command is admitted or turned away at one instant; admitted *)
(* commands (credit) may still reach the robot after the gate has closed,  *)
(* and there are never more of them than Depth.  Once the halt is written  *)
(* no servo frame follows it.                                              *)
(***************************************************************************)
EXTENDS Naturals

CONSTANT Depth      \* commands that can be admitted and not yet written

VARIABLES
    phase,     \* "held" until startup is over, "open", "closing" at the end
    stopped,   \* the robot's safety stop, as last seen
    credit,    \* commands admitted and neither written nor forgotten
    halted     \* the halt has been written

gate == <<phase, stopped, credit, halted>>

Init == phase = "held" /\ stopped = FALSE /\ credit = 0 /\ halted = FALSE

Release ==
    /\ phase = "held"
    /\ phase' = "open"
    /\ UNCHANGED <<stopped, credit, halted>>

\* The only step that lets a command in.
Admit ==
    /\ phase = "open" /\ ~stopped
    /\ credit' = credit + 1 /\ credit' <= Depth
    /\ UNCHANGED <<phase, stopped, halted>>

\* A servo frame is written, or admitted commands are superseded, cleared or
\* dropped.
Spend ==
    /\ credit' \in 0..Depth /\ credit' < credit
    /\ UNCHANGED <<phase, stopped, halted>>

SafetyStop ==
    /\ stopped' = ~stopped
    /\ UNCHANGED <<phase, credit, halted>>

Close ==
    /\ phase # "closing"
    /\ phase' = "closing"
    /\ UNCHANGED <<stopped, credit, halted>>

Halt ==
    /\ phase = "closing" /\ credit = 0
    /\ halted' = TRUE
    /\ UNCHANGED <<phase, stopped, credit>>

Next == Release \/ Admit \/ Spend \/ SafetyStop \/ Close \/ Halt

Spec == Init /\ [][Next]_gate
=============================================================================
