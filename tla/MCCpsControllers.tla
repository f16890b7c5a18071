-------------------------- MODULE MCCpsControllers --------------------------
(* The controllers of franka_bringup's configuration files: the two impedance
   controllers of mixed_dual_multimode.yaml, and those of single_sim_controllers.yaml,
   two of which name the same log file. *)
EXTENDS CpsControllers

CONSTANTS Real, Sim, Plain, Nonlinear, Example, Wrench, Energy, Reachable,
          LeftArm, RightArm, PoseLog, WrenchLog, RunLog

MCControllers == {Real, Sim, Plain, Nonlinear, Example, Wrench, Energy, Reachable}
MCClass == [c \in MCControllers |->
              CASE c = Wrench -> "wrench" [] c = Energy -> "budget"
                [] c = Reachable -> "reachable" [] c = Nonlinear -> "nonlinear" [] OTHER -> "example"]
MCArm == [c \in MCControllers |-> IF c \in {Sim, Plain} THEN RightArm ELSE LeftArm]
MCRank == [c \in MCControllers |-> CASE c = Real -> 1 [] c = Sim -> 2 [] c = Plain -> 3
                                     [] c = Nonlinear -> 4 [] c = Wrench -> 5
                                     [] c = Energy -> 6 [] c = Example -> 7 [] OTHER -> 8]
MCFeedforward == {Real, Sim, Nonlinear, Example}
MCStill == {Plain}
MCLogging == {Nonlinear, Example, Wrench, Reachable}
MCPath == [c \in MCControllers |-> CASE c = Wrench -> WrenchLog [] c = Reachable -> RunLog
                                     [] OTHER -> PoseLog]
MCPredicting == {Reachable}
MCSensing == {Reachable}
MCLoads == {{Real, Sim}, {Real, Plain}, {Nonlinear, Wrench},
            {Nonlinear, Example}, {Energy}, {Reachable}}
MCParameters ==
  {[auto |-> FALSE, baseline |-> 0, sines |-> 0, sine |-> 0, line |-> 0, lissajous |-> 0],
   [auto |-> TRUE, baseline |-> 2, sines |-> 2, sine |-> 1, line |-> 1, lissajous |-> 2],
   [auto |-> TRUE, baseline |-> 0, sines |-> 1, sine |-> 2, line |-> 0, lissajous |-> 1]}
=============================================================================
