-------------------------- MODULE CommandModeSwitch --------------------------
(***************************************************************************)
(* FrankaMultiHardwareInterface: several arms behind one ros2_control      *)
(* component.  The controller manager asks prepare_command_mode_switch (in *)
(* its service thread) whether a change of controllers is possible; after  *)
(* an OK the update thread calls perform_command_mode_switch and changes   *)
(* the controllers, after an ERROR it leaves the controllers as they are.  *)
(*                                                                         *)
(* A group stands for the command interfaces of one arm, space and kind    *)
(* that a controller claims; a list of interface names is a set of groups. *)
(* What one Robot does inside stopRobot and initialize... is FrankaRobot;  *)
(* here a loop is started or stopped in one step.                          *)
(***************************************************************************)
EXTENDS Integers, FiniteSetsExt

CONSTANTS
  Arms,          \* the keys of arms_
  Position,      \* their position in arms_, a std::map ordered by name
  Mentions,      \* Mentions[a]: the arms whose interface names contain a's name
  Controllers,   \* the controllers the manager can activate
  Claims,        \* Claims[c]: the groups controller c claims
  None,          \* ControlMode::None
  Stopped,       \* no loop runs
  MaxRequests, MaxErrors, MaxLifecycle   \* bounds of the model

Spaces == {"joint", "cartesian"}
Kinds  == {"effort", "position", "velocity"}
Modes  == (Spaces \X Kinds) \cup {None}

ASSUME ArmsAssumption ==
  /\ Position \in [Arms -> Nat]
  /\ \A a, b \in Arms : a # b => Position[a] # Position[b]
  /\ Mentions \in [Arms -> SUBSET Arms]
  /\ \A a \in Arms : a \in Mentions[a]

ASSUME ControllersAssumption ==
  /\ IsFiniteSet(UNION {Claims[c] : c \in Controllers})
  /\ \A c \in Controllers : \A g \in Claims[c] :
       g.space \in Spaces /\ g.kind \in Kinds /\ g.size \in Nat \ {0}

ASSUME ModesAssumption == None \notin Spaces \X Kinds /\ Stopped \notin Modes

ASSUME BoundsAssumption ==
  MaxRequests \in Nat /\ MaxErrors \in Nat /\ MaxLifecycle \in Nat

VARIABLES
  mode,      \* ArmContainer::control_mode_
  switch,    \* ArmContainer::switch_cm_
  loop,      \* the loop the arm's Robot runs
  error,     \* Robot::hasError()
  delivered, \* has the arm's Robot the command the controllers computed last?
  live,      \* the component is active
  rt,        \* the next phase of the update thread
  running,   \* the controllers the manager has activated
  request,   \* the accepted change that waits for the update thread
  refused,   \* history: some prepare_command_mode_switch has answered ERROR
  upset,     \* history: the arm's loop has been left by an error since it was set
  requests, errors, lifecycle

arms    == <<mode, switch, loop>>
history == <<refused, upset, requests, errors, lifecycle>>
vars    == <<arms, error, delivered, live, rt, running, request, history>>

NoRequest == [start |-> {}, stop |-> {}]

Init ==
  /\ mode = [a \in Arms |-> None]
  /\ switch = [a \in Arms |-> FALSE]
  /\ loop = [a \in Arms |-> Stopped]
  /\ error = [a \in Arms |-> FALSE]
  /\ delivered = [a \in Arms |-> TRUE]
  /\ live = FALSE /\ rt = "read"
  /\ running = {} /\ request = NoRequest
  /\ refused = FALSE
  /\ upset = [a \in Arms |-> FALSE]
  /\ requests = 0 /\ errors = 0 /\ lifecycle = 0

-----------------------------------------------------------------------------
\* The interface lists of a request and what the code derives from their names.
Groups(cs)   == UNION {Claims[c] : c \in cs}
Own(list, a) == {g \in list : g.arm \in Mentions[a]}
Size(list)   == MapThenSumSet(LAMBDA g : g.size, list)

\* check_command_mode_type and all_of_element_has_string, for lists that are not empty.
HasSpace(list, s) == \A g \in list : g.space = s
HasKind(list, k)  == \A g \in list : g.kind = k
Uniform(list, own) ==
  /\ \E s \in Spaces : HasSpace(own, s)
  /\ \E k \in Kinds : HasKind(list, k)

\* The ERROR returns of the stop pass at arm a.
StopRefused(a, list) ==
  LET own == Own(list, a) IN
  /\ own # {}
  /\ \/ ~Uniform(list, own)
     \/ HasSpace(own, "joint") /\ Size(own) # 7
     \/ HasSpace(own, "cartesian") /\ HasKind(list, "position") /\ Size(list) # 16
     \/ HasSpace(own, "cartesian") /\ HasKind(list, "velocity") /\ Size(list) # 6

\* Mutant: a running mode is not looked at.
StartRefusedAnyMode(a, list, m) ==
  LET own == Own(list, a) IN
  /\ own # {}
  /\ \/ ~Uniform(list, own)
     \/ HasSpace(own, "joint") /\ Size(own) # 7
     \/ HasSpace(own, "cartesian") /\ Size(own) \notin {6, 16}

\* The ERROR returns of the start pass at arm a, whose control_mode_ is m by then.
StartRefused(a, list, m) ==
  LET own == Own(list, a) IN
  /\ own # {}
  /\ \/ ~Uniform(list, own)
     \/ m # None
     \/ HasSpace(own, "joint") /\ Size(own) # 7
     \/ HasSpace(own, "cartesian") /\ Size(own) \notin {6, 16}

\* The mode the start pass gives an arm that owns these groups.
ModeFor(list, own) ==
  CHOOSE m \in Spaces \X Kinds : HasSpace(own, m[1]) /\ HasKind(list, m[2])

\* The arms a pass handles before it meets one of the bad ones and returns.
Before(bad) == {a \in Arms : \A b \in bad : Position[a] < Position[b]}

StopPass(stop) ==
  LET bad == {a \in Arms : StopRefused(a, stop)}
  IN [bad |-> bad, done |-> {a \in Before(bad) : Own(stop, a) # {}}]

StartPass(start, modes) ==
  LET bad == {a \in Arms : StartRefused(a, start, modes[a])}
  IN [bad |-> bad, done |-> {a \in Before(bad) : Own(start, a) # {}}]

\* Mutant: switch_cm_ is set for the arms that stop only.
MarkStopped(stopped, started) == [a \in Arms |-> switch[a] \/ a \in stopped]

Mark(stopped, started) == [a \in Arms |-> switch[a] \/ a \in stopped \cup started]

\* prepare_command_mode_switch.  A pass that returns ERROR has changed the arms
\* before the bad one, and the stop pass stays done when the start pass fails.
PrepareCommandModeSwitch(start, stop) ==
  LET stopping == StopPass(stop)
      modes    == [a \in Arms |-> IF a \in stopping.done THEN None ELSE mode[a]]
      starting == IF stopping.bad = {} THEN StartPass(start, modes)
                                       ELSE [bad |-> {}, done |-> {}]
  IN [ok     |-> stopping.bad \cup starting.bad = {},
      mode   |-> [a \in Arms |-> IF a \in starting.done
                                 THEN ModeFor(start, Own(start, a)) ELSE modes[a]],
      switch |-> Mark(stopping.done, starting.done)]

\* The manager gives every interface to at most one running controller.
Compatible(cs) == \A c, d \in cs : c # d => Claims[c] \cap Claims[d] = {}

Switch(start, stop) ==
  /\ live /\ request = NoRequest /\ requests < MaxRequests
  /\ start \cup stop # {}
  /\ Compatible((running \ stop) \cup start)
  /\ requests' = requests + 1
  /\ LET prepared == PrepareCommandModeSwitch(Groups(start), Groups(stop)) IN
       /\ mode' = prepared.mode /\ switch' = prepared.switch
       /\ request' = IF prepared.ok THEN [start |-> start, stop |-> stop] ELSE NoRequest
       /\ refused' = (refused \/ ~prepared.ok)
  /\ UNCHANGED <<loop, error, delivered, live, rt, running, upset, errors, lifecycle>>

-----------------------------------------------------------------------------
\* read: an arm in error has its loop stopped by Robot::read.
Read ==
  /\ rt = "read" /\ rt' = "update"
  /\ loop' = [a \in Arms |-> IF error[a] THEN Stopped ELSE loop[a]]
  /\ UNCHANGED <<mode, switch, error, delivered, live, running, request, history>>

\* The controllers of this cycle compute new commands.
Computed(cs) == [a \in Arms |-> delivered[a] /\ \A g \in Groups(cs) : g.arm # a]

Update ==
  /\ rt = "update" /\ request = NoRequest
  /\ rt' = IF live THEN "write" ELSE "read"
  /\ delivered' = Computed(running)
  /\ UNCHANGED <<arms, error, live, running, request, history>>

\* Mutant: switch_cm_ is not reset.
PerformKeepSwitch ==
  /\ loop' = [a \in Arms |-> IF switch[a] THEN mode[a] ELSE loop[a]]
  /\ upset' = [a \in Arms |-> IF switch[a] THEN error[a] ELSE upset[a]]
  /\ UNCHANGED <<mode, switch>>

\* perform_command_mode_switch: stopRobot and initialize... for the marked arms.
PerformCommandModeSwitch ==
  /\ loop' = [a \in Arms |-> IF switch[a] THEN mode[a] ELSE loop[a]]
  /\ switch' = [a \in Arms |-> FALSE]
  /\ upset' = [a \in Arms |-> IF switch[a] THEN error[a] ELSE upset[a]]
  /\ UNCHANGED mode

\* The update that carries out an accepted change and runs the new controllers.
UpdateAndSwitch ==
  /\ rt = "update" /\ request # NoRequest
  /\ rt' = "write"
  /\ PerformCommandModeSwitch
  /\ running' = (running \ request.stop) \cup request.start
  /\ request' = NoRequest
  /\ delivered' = Computed((running \ request.stop) \cup request.start)
  /\ UNCHANGED <<error, live, refused, requests, errors, lifecycle>>

\* The arms write reaches: it returns at the first arm in error.
Written == {a \in Arms : \A b \in Arms : Position[b] <= Position[a] => ~error[b]}

Write ==
  /\ rt = "write" /\ rt' = "read"
  /\ delivered' = [a \in Arms |-> delivered[a] \/ a \in Written]
  /\ UNCHANGED <<arms, error, live, running, request, history>>

-----------------------------------------------------------------------------
\* The component is activated and deactivated between two cycles and without
\* running controllers.  on_activate expects stopped loops (FrankaRobot).
OnActivate ==
  /\ ~live /\ rt = "read" /\ lifecycle < MaxLifecycle
  /\ \A a \in Arms : loop[a] = Stopped
  /\ live' = TRUE /\ lifecycle' = lifecycle + 1
  /\ mode' = [a \in Arms |-> None]
  /\ loop' = [a \in Arms |-> IF error[a] THEN Stopped ELSE None]
  /\ upset' = error
  /\ UNCHANGED <<switch, error, delivered, rt, running, request, refused,
                 requests, errors>>

\* on_deactivate resets control_mode_ in a copy of the containers.
OnDeactivate ==
  /\ live /\ rt = "read" /\ running = {} /\ request = NoRequest
  /\ lifecycle < MaxLifecycle
  /\ live' = FALSE /\ lifecycle' = lifecycle + 1
  /\ loop' = [a \in Arms |-> Stopped]
  /\ UNCHANGED <<mode, switch, error, delivered, rt, running, request, refused,
                 upset, requests, errors>>

\* An arm's loop ends with an exception.
ArmError(a) ==
  /\ ~error[a] /\ errors < MaxErrors
  /\ error' = [error EXCEPT ![a] = TRUE]
  /\ upset' = [upset EXCEPT ![a] = TRUE]
  /\ errors' = errors + 1
  /\ UNCHANGED <<arms, delivered, live, rt, running, request, refused, requests,
                 lifecycle>>

\* The recovery service stops the loop and starts the one Robot::control_mode_
\* names, a member nothing assigns: any loop, or none.
Recover(a) ==
  /\ error[a]
  /\ error' = [error EXCEPT ![a] = FALSE]
  /\ \E m \in Modes \cup {Stopped} : loop' = [loop EXCEPT ![a] = m]
  /\ UNCHANGED <<mode, switch, delivered, live, rt, running, request, history>>

Next ==
  \/ \E start \in SUBSET Controllers, stop \in SUBSET running : Switch(start, stop)
  \/ Read \/ Update \/ UpdateAndSwitch \/ Write
  \/ OnActivate \/ OnDeactivate
  \/ \E a \in Arms : ArmError(a) \/ Recover(a)

Spec == Init /\ [][Next]_vars

-----------------------------------------------------------------------------
\* Type invariant.
TypeOK ==
  /\ mode \in [Arms -> Modes]
  /\ switch \in [Arms -> BOOLEAN]
  /\ loop \in [Arms -> Modes \cup {Stopped}]
  /\ error \in [Arms -> BOOLEAN] /\ delivered \in [Arms -> BOOLEAN]
  /\ live \in BOOLEAN /\ rt \in {"read", "update", "write"}
  /\ running \subseteq Controllers
  /\ request \in [start : SUBSET Controllers, stop : SUBSET Controllers]
  /\ refused \in BOOLEAN /\ upset \in [Arms -> BOOLEAN]
  /\ requests \in 0..MaxRequests /\ errors \in 0..MaxErrors
  /\ lifecycle \in 0..MaxLifecycle

\* An active arm that has met no error since its loop was set runs the loop its
\* container names, whatever requests were refused, unless a switch is marked.
LoopFollowsMode ==
  live => \A a \in Arms : ~upset[a] /\ ~switch[a] => loop[a] = mode[a]

\* The controllers that will be running once the accepted change is carried out.
Agreed == (running \ request.stop) \cup request.start
ClaimedModes(a) == {<<g.space, g.kind>> : g \in {h \in Groups(Agreed) : h.arm = a}}

\* "It prevents a new controller from being activated if another controller is
\* currently running" (docs): no arm is claimed in two ways at a time.
OneModePerArm == \A a \in Arms : \A m, n \in ClaimedModes(a) : m = n

\* As long as no request has been refused, the container of every arm names
\* exactly the mode its controllers claim.
ModesMatchControllers ==
  ~refused /\ live => \A a \in Arms :
    ClaimedModes(a) = IF mode[a] = None THEN {} ELSE {mode[a]}

\* As long as no request has been refused, carrying out a change touches only
\* the loops of the arms that change names.
SwitchIsLocal ==
  [][~refused /\ UpdateAndSwitch => \A a \in Arms :
       (\A g \in Groups(request.start \cup request.stop) : g.arm # a)
         => loop'[a] = loop[a] /\ upset'[a] = upset[a]]_vars

=============================================================================
