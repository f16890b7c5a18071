------------------------- MODULE MCCommandModeSwitch -------------------------
(***************************************************************************)
(* CommandModeSwitch with two arms and controllers for one arm, for both,  *)
(* and one that claims a single joint.                                     *)
(***************************************************************************)
EXTENDS CommandModeSwitch, TLC
CONSTANTS Left, Right,
          LeftTorque, DualTorque, LeftVelocity, DualTwist, OneJoint

MCArms     == {Left, Right}
MCPosition == (Left :> 1) @@ (Right :> 2)
MCMentions == [a \in MCArms |-> {a}]
MCControllers == {LeftTorque, DualTorque, LeftVelocity, DualTwist, OneJoint}

Torque(a)   == [arm |-> a, space |-> "joint", kind |-> "effort", size |-> 7]
Velocity(a) == [arm |-> a, space |-> "joint", kind |-> "velocity", size |-> 7]
Twist(a)    == [arm |-> a, space |-> "cartesian", kind |-> "velocity", size |-> 6]

MCClaims ==
  (LeftTorque   :> {Torque(Left)}) @@
  (DualTorque   :> {Torque(Left), Torque(Right)}) @@
  (LeftVelocity :> {Velocity(Left)}) @@
  (DualTwist    :> {Twist(Left), Twist(Right)}) @@
  (OneJoint     :> {[Velocity(Right) EXCEPT !.size = 1]})
=============================================================================
