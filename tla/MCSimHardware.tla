---------------------------- MODULE MCSimHardware ----------------------------
(***************************************************************************)
(* Two simulated arms and a mobile base of another component.              *)
(***************************************************************************)
EXTENDS SimHardware, TLC
CONSTANTS Left, Right, Base,
          DualTorque, LeftPosition, RightVelocity, LeftTwist, BaseVelocity

MCArms     == {Left, Right}
MCPosition == (Left :> 1) @@ (Right :> 2)
MCControllers == {DualTorque, LeftPosition, RightVelocity, LeftTwist, BaseVelocity}

Joints(a, kind) == [arm |-> a, space |-> "joint", kind |-> kind, size |-> 7]
MCClaims ==
  (DualTorque    :> {Joints(Left, "effort"), Joints(Right, "effort")}) @@
  (LeftPosition  :> {Joints(Left, "position")}) @@
  (RightVelocity :> {Joints(Right, "velocity")}) @@
  (LeftTwist     :> {[Joints(Left, "velocity") EXCEPT !.space = "cartesian", !.size = 6]}) @@
  (BaseVelocity  :> {[Joints(Base, "velocity") EXCEPT !.size = 2]})
=============================================================================
