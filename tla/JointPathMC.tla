----------------------------- MODULE JointPathMC -----------------------------
(***************************************************************************)
(* Two joints, two poses, and one driver for each way a message can be     *)
(* read: names 1 and 2 are the target's, 3 and 4 the source's, 0 is        *)
(* unknown.                                                                *)
(***************************************************************************)
EXTENDS JointPath

Layout(names, carries, speeds) ==
    [names |-> names, carries |-> carries, speeds |-> speeds]

TwoLayouts ==
    {Layout(<<0, 2, 1>>, <<0, 2, 1>>, 3),   \* a gripper first, then backwards
     Layout(<<4, 3>>, <<2, 1>>, 2),         \* the driver's names, backwards
     Layout(<<>>, <<1, 2>>, 1),             \* in order, one velocity
     Layout(<<4, 1>>, <<2, 1>>, 2),         \* a name of each map, backwards
     Layout(<<0, 2, 1>>, <<1, 2>>, 1),      \* a position less than names
     Layout(<<1, 2>>, <<1>>, 1)}            \* too short
=============================================================================
