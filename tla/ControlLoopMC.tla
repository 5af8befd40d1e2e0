----------------------------- MODULE ControlLoopMC -----------------------------
(***************************************************************************)
(* ControlLoop for two joints with three angles each.                      *)
(***************************************************************************)
EXTENDS ControlLoop

\* Lifting either joint is safe, both together is not: the guard can lead from
\* one safe pose, <<2, 0>>, towards another, <<0, 2>>, to <<1, 1>>, and <<2, 2>>
\* is more than one step from every safe pose.
SafePoses == {<<0, 0>>, <<0, 1>>, <<0, 2>>, <<1, 0>>, <<2, 0>>}

=============================================================================
