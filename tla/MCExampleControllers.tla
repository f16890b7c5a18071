------------------------ MODULE MCExampleControllers ------------------------
(* One launch per kind of interplay, with the arm names of the configuration
   files: two arms, two whose names extend one another, the same arm twice. *)
EXTENDS ExampleControllers

CONSTANTS Position, Velocity, Cartesian, Dual, Impedance, Multi, Start, Gravity, Model,
          Joint, Pose, HeadC, Base, StateCast, ModelCast,
          panda, panda_2, left, right

MCControllers == {Position, Velocity, Cartesian, Dual, Impedance, Multi, Start, Gravity,
                  Model, Joint, Pose, HeadC, Base, StateCast, ModelCast}
MCKind == [c \in MCControllers |->
  CASE c = Position -> "position" [] c = Velocity -> "velocity"
    [] c = Cartesian -> "cartesianVelocity" [] c = Dual -> "dualVelocity"
    [] c = Impedance -> "impedance" [] c = Multi -> "multiImpedance"
    [] c = Start -> "moveToStart" [] c = Gravity -> "gravity" [] c = Model -> "modelExample"
    [] c = Joint -> "joint" [] c = Pose -> "cartesian" [] c = HeadC -> "head"
    [] c = Base -> "base" [] c = StateCast -> "state" [] c = ModelCast -> "model"]
MCLoads == {{Position}, {Velocity, Gravity}, {Cartesian}, {Dual}, {Impedance}, {Multi},
            {Start}, {Model}, {Joint}, {Pose}, {HeadC}, {Base}, {StateCast, ModelCast}}
MCNames == <<left, panda, panda_2, right>>
MCOccurs == {<<n, n>> : n \in ToSet(MCNames)} \cup {<<panda, panda_2>>}
MCArmLists == {<<left, right>>, <<panda, panda_2>>, <<right, left>>, <<left, left>>}
MCEnds == {0, 2, 4}
=============================================================================
