----------------------------- MODULE SimHardware -----------------------------
(***************************************************************************)
(* FrankaMjHardwareSystem: the arms of a MuJoCo simulation behind one      *)
(* ros2_control component.  Every joint has three actuators (torque,       *)
(* position, velocity); the gain of one of them is on, according to the    *)
(* mode of the arm.  prepare_command_mode_switch sets the mode in the      *)
(* service thread, perform_command_mode_switch the gains in the update     *)
(* thread, and the physics goes on with whatever is in mjData::ctrl.       *)
(*                                                                         *)
(* As in CommandModeSwitch, a group stands for the command interfaces of   *)
(* one arm, space and kind.  Here a group may also belong to another       *)
(* component: the manager shows every component the whole request.         *)
(***************************************************************************)
EXTENDS Integers, FiniteSetsExt

CONSTANTS
  Arms,        \* the keys of arms_
  Position,    \* their position in arms_, a std::map ordered by name
  Controllers,
  Claims,      \* Claims[c]: the groups controller c claims
  None,        \* ControlMode::None, or no gain that is on
  MaxRequests, MaxLifecycle, MaxNaN   \* bounds of the model

Kinds == {"effort", "position", "velocity"}
Modes == Kinds \cup {None}
Groups(cs) == UNION {Claims[c] : c \in cs}

ASSUME ArmsAssumption ==
  /\ Position \in [Arms -> Nat]
  /\ \A a, b \in Arms : a # b => Position[a] # Position[b]

ASSUME ControllersAssumption ==
  /\ IsFiniteSet(UNION {Claims[c] : c \in Controllers})
  /\ \A c \in Controllers : \A g \in Claims[c] :
       g.space \in {"joint", "cartesian"} /\ g.kind \in Kinds /\ g.size \in Nat \ {0}

ASSUME NoneAssumption == None \notin Kinds

VARIABLES
  mode,     \* ArmContainer::control_mode_
  switch,   \* ArmContainer::switch_cm_
  gains,    \* the actuators of the arm whose gain is on
  cmd,      \* hw_commands_joint_...: zero, from this cycle, from an older one, not finite
  ctrl,     \* mjData::ctrl of the arm's actuators
  hand,     \* has the gripper actuator the last command of the gripper server?
  live,     \* the component is active
  rt,       \* the next phase of the update thread
  running,  \* the controllers the manager has activated
  request,  \* the accepted change that waits for the update thread
  refused,  \* history: some prepare_command_mode_switch has answered ERROR
  used      \* the bounded things that have happened

arms == <<mode, switch, gains>>
data == <<cmd, ctrl, hand>>
vars == <<arms, data, live, rt, running, request, refused, used>>

NoRequest == [start |-> {}, stop |-> {}]
Values    == {"zero", "new", "old", "nan"}

-----------------------------------------------------------------------------
\* initSim turns every actuator off.
Init ==
  /\ mode = [a \in Arms |-> None]
  /\ switch = [a \in Arms |-> FALSE]
  /\ gains = [a \in Arms |-> None]
  /\ cmd = [a \in Arms |-> [k \in Kinds |-> "zero"]]
  /\ ctrl = cmd
  /\ hand = [a \in Arms |-> TRUE]
  /\ live = FALSE /\ rt = "read"
  /\ running = {} /\ request = NoRequest
  /\ refused = FALSE
  /\ used = [requests |-> 0, lifecycle |-> 0, nan |-> 0]

-----------------------------------------------------------------------------
(***************************************************************************)
(* prepare_command_mode_switch, in the service thread.                     *)
(***************************************************************************)
Own(list, a)     == {g \in list : g.arm = a}
HasKind(list, k) == \A g \in list : g.kind = k
Size(list)       == MapThenSumSet(LAMBDA g : g.size, list)

\* The kind is looked for in the whole list, the space and the size in the arm's part.
Unsuitable(own, list) ==
  \/ \A k \in Kinds : ~HasKind(list, k)
  \/ \E g \in own : g.space # "joint"
  \/ Size(own) # 7

StopRefused(a, list) == Own(list, a) # {} /\ Unsuitable(Own(list, a), list)

StartRefused(a, list, m) ==
  Own(list, a) # {} /\ (Unsuitable(Own(list, a), list) \/ m # None)

KindOf(list) == CHOOSE k \in Kinds : HasKind(list, k)

\* The arms a pass changes before it meets a bad one and returns ERROR.
Changed(list, bad) ==
  {a \in Arms : Own(list, a) # {} /\ \A b \in bad : Position[a] < Position[b]}

\* Mutant: a started arm is not marked for perform_command_mode_switch.
MarkStopped(stopped, started) == [a \in Arms |-> switch[a] \/ a \in stopped]

Mark(stopped, started) == [a \in Arms |-> switch[a] \/ a \in stopped \cup started]

\* The position command is not reset, "since that can be dangerous".
ResetCommands(stopped, list) ==
  [a \in Arms |-> [k \in Kinds |->
    IF a \in stopped /\ k # "position" /\ HasKind(list, k) THEN "zero" ELSE cmd[a][k]]]

\* Both passes, with what an ERROR leaves behind.
Prepare(start, stop) ==
  LET badStop  == {a \in Arms : StopRefused(a, stop)}
      stopped  == Changed(stop, badStop)
      between  == [a \in Arms |-> IF a \in stopped THEN None ELSE mode[a]]
      badStart == {a \in Arms : badStop = {} /\ StartRefused(a, start, between[a])}
      started  == IF badStop = {} THEN Changed(start, badStart) ELSE {}
  IN [ok     |-> badStop \cup badStart = {},
      mode   |-> [a \in Arms |-> IF a \in started THEN KindOf(start) ELSE between[a]],
      switch |-> Mark(stopped, started),
      cmd    |-> ResetCommands(stopped, stop)]

\* The manager gives an interface to at most one running controller.
Compatible(cs) == \A c, d \in cs : c # d => Claims[c] \cap Claims[d] = {}

Switch(start, stop) ==
  /\ live /\ request = NoRequest /\ used.requests < MaxRequests
  /\ start \cup stop # {} /\ start \cap (running \ stop) = {}
  /\ Compatible((running \ stop) \cup start)
  /\ LET prepared == Prepare(Groups(start), Groups(stop)) IN
       /\ mode' = prepared.mode /\ switch' = prepared.switch /\ cmd' = prepared.cmd
       /\ request' = IF prepared.ok THEN [start |-> start, stop |-> stop] ELSE NoRequest
       /\ refused' = (refused \/ ~prepared.ok)
  /\ used' = [used EXCEPT !.requests = @ + 1]
  /\ UNCHANGED <<gains, ctrl, hand, live, rt, running>>

-----------------------------------------------------------------------------
(***************************************************************************)
(* The update thread: read, update, write.  The physics steps on ctrl.     *)
(***************************************************************************)
\* read copies the state out of mjData and hands over the model once.
Read ==
  /\ rt = "read"
  /\ rt' = "update"
  /\ UNCHANGED <<arms, data, live, running, request, refused, used>>

Older(value) == IF value = "new" THEN "old" ELSE value

\* The controllers cs compute this cycle's commands; some may not be finite.
Compute(cs, bad) ==
  /\ bad = {} \/ used.nan < MaxNaN
  /\ used' = [used EXCEPT !.nan = IF bad = {} THEN @ ELSE @ + 1]
  /\ cmd' = [a \in Arms |-> [k \in Kinds |->
       IF \E c \in cs : \E g \in Claims[c] : g.arm = a /\ g.kind = k
       THEN IF a \in bad THEN "nan" ELSE "new"
       ELSE Older(cmd[a][k])]]
  /\ ctrl' = [a \in Arms |-> [k \in Kinds |-> Older(ctrl[a][k])]]

Update(bad) ==
  /\ rt = "update" /\ request = NoRequest
  /\ rt' = "write"
  /\ Compute(running, bad)
  /\ UNCHANGED <<arms, hand, live, running, request, refused>>

\* The gains that perform_command_mode_switch gives the arms.
GainsOfMode == [a \in Arms |-> IF switch[a] THEN mode[a] ELSE gains[a]]

PerformCommandModeSwitch ==
  /\ gains' = GainsOfMode
  /\ switch' = [a \in Arms |-> FALSE]
  /\ UNCHANGED mode

\* The update that carries out an accepted change and runs the new controllers.
UpdateAndSwitch(bad) ==
  /\ rt = "update" /\ request # NoRequest
  /\ rt' = "write"
  /\ PerformCommandModeSwitch
  /\ running' = (running \ request.stop) \cup request.start
  /\ request' = NoRequest
  /\ Compute(running', bad)
  /\ UNCHANGED <<hand, live, refused>>

\* All three kinds of commands have to be finite.
Finite(a) == \A k \in Kinds : cmd[a][k] # "nan"

\* Mutant: one bad arm ends the write before the first arm.
WrittenTogether == {a \in Arms : \A b \in Arms : Finite(b)}

\* The arms write reaches: it returns at the first arm that is not finite.
Written == {a \in Arms : \A b \in Arms : Position[b] <= Position[a] => Finite(b)}

Write ==
  /\ rt = "write"
  /\ rt' = "read"
  /\ ctrl' = [a \in Arms |-> [k \in Kinds |->
                IF a \in Written /\ mode[a] = k THEN cmd[a][k] ELSE ctrl[a][k]]]
  /\ hand' = [a \in Arms |-> hand[a] \/ a \in Written]
  /\ UNCHANGED <<arms, cmd, live, running, request, refused, used>>

\* The gripper server sets the command of a hand.
GripperCommand(a) ==
  /\ hand[a]
  /\ hand' = [hand EXCEPT ![a] = FALSE]
  /\ UNCHANGED <<arms, cmd, ctrl, live, rt, running, request, refused, used>>

-----------------------------------------------------------------------------
\* The component changes its state between two cycles, without running controllers.
Lifecycle ==
  /\ rt = "read" /\ running = {} /\ request = NoRequest
  /\ used.lifecycle < MaxLifecycle
  /\ used' = [used EXCEPT !.lifecycle = @ + 1]

OnActivate ==
  /\ ~live /\ Lifecycle
  /\ live' = TRUE
  /\ mode' = [a \in Arms |-> None]
  /\ cmd' = [a \in Arms |-> [cmd[a] EXCEPT !["effort"] = "zero"]]
  /\ UNCHANGED <<switch, gains, ctrl, hand, rt, running, request, refused>>

\* Neither the mark nor the gains are reset.
OnDeactivate ==
  /\ live /\ Lifecycle
  /\ live' = FALSE
  /\ mode' = [a \in Arms |-> None]
  /\ UNCHANGED <<switch, gains, data, rt, running, request, refused>>

Next ==
  \/ \E start \in SUBSET Controllers, stop \in SUBSET running : Switch(start, stop)
  \/ \E bad \in SUBSET Arms : Update(bad) \/ UpdateAndSwitch(bad)
  \/ \E a \in Arms : GripperCommand(a)
  \/ Read \/ Write \/ OnActivate \/ OnDeactivate

Spec == Init /\ [][Next]_vars

-----------------------------------------------------------------------------
(***************************************************************************)
(* Properties.                                                             *)
(***************************************************************************)
\* Type invariant: also, a request that waits is one of an active component.
TypeOK ==
  /\ mode \in [Arms -> Modes] /\ gains \in [Arms -> Modes]
  /\ switch \in [Arms -> BOOLEAN] /\ hand \in [Arms -> BOOLEAN]
  /\ cmd \in [Arms -> [Kinds -> Values]] /\ ctrl \in [Arms -> [Kinds -> Values]]
  /\ live \in BOOLEAN /\ rt \in {"read", "update", "write"}
  /\ running \subseteq Controllers
  /\ request \in [start : SUBSET Controllers, stop : SUBSET Controllers]
  /\ refused \in BOOLEAN
  /\ used \in [requests : Nat, lifecycle : Nat, nan : Nat]
  /\ ~live => running = {} /\ request = NoRequest

\* As long as no request has been refused, the actuators that are on are those the
\* running controllers command, and an arm no controller claims is limp.
GainsMatchControllers ==
  ~refused => \A a \in Arms :
    {k \in Kinds : \E g \in Groups(running) : g.arm = a /\ g.kind = k}
      = IF gains[a] = None THEN {} ELSE {gains[a]}

\* If the commands of an arm and of the arms before it in arms_ are finite, write
\* gives the hand its command, and, as long as no request has been refused, the
\* actuators that are on the command their controller computed in this cycle.
CommandsReachActuators ==
  [][Write => \A a \in Arms :
       (\A b \in Arms : Position[b] <= Position[a] => Finite(b))
         => /\ hand'[a]
            /\ ~refused => \A g \in Groups(running \ request.stop) :
                 g.arm = a => gains[a] = g.kind /\ ctrl'[a][g.kind] = "new"]_vars
=============================================================================
