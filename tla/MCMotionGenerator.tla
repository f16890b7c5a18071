------------------------- MODULE MCMotionGenerator -------------------------
(***************************************************************************)
(* Two goals that may overlap, and one that checkGoal refuses.             *)
(***************************************************************************)
EXTENDS MotionGenerator
CONSTANTS First, Second, Bad
MCGoals == {First, Second, Bad}
MCValidGoals == {First, Second}
=============================================================================
