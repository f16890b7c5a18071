---------------------------- MODULE MCFrankaRobot ----------------------------
\* FrankaRobot with two control loops: they differ only in the command copied.
EXTENDS FrankaRobot
CONSTANTS Torque, Velocity
MCControlLoops == {Torque, Velocity}
MCBoth  == {TRUE, FALSE}
MCClean == {FALSE}
=============================================================================
