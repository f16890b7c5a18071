------------------------------ MODULE MCGripper ------------------------------
(***************************************************************************)
(* Two goals that may overlap, one of them of the gripper_action server.   *)
(***************************************************************************)
EXTENDS Gripper
CONSTANTS First, Second
MCGoals == {First, Second}
MCGripperCommands == {Second}
=============================================================================
