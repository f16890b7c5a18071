-------------------------- MODULE MotionGenerator --------------------------
(***************************************************************************)
(* A motion generator: an action server that turns a goal's via poses into *)
(* a trajectory and publishes one control goal per step of it.             *)
(*                                                                         *)
(* The executor thread accepts and rejects goals; every accepted goal runs *)
(* in a detached thread.  Both work on one state_, one progress_ and one   *)
(* trajectory, without a lock: state_mutex_ is never taken.                *)
(***************************************************************************)
EXTENDS Integers, FiniteSets

CONSTANTS
  Goals,
  ValidGoals,  \* those that checkGoal lets pass
  End,         \* the end time of a trajectory, in steps
  MaxTimeouts, \* bound: service calls that are not answered in time
  MaxScalings  \* bound: messages on set_time_scaling

NoGoal == "no goal"

ASSUME GoalsAssumption ==
  /\ IsFiniteSet(Goals)
  /\ ValidGoals \subseteq Goals
  /\ NoGoal \notin Goals

ASSUME EndAssumption == End \in Nat \ {0}

VARIABLES
  node,         \* the process runs, or has died
  goal,         \* the state of a goal in the action server
  pc,           \* the thread that executes a goal
  svc,          \* where the executor thread is, and for which goal
  moving,       \* state_ = MOVING, else IDLE: the other two are never assigned
  traj,         \* whose trajectory end_times_, via_poses_ and the coefficients are
  t,            \* t_, in steps at full speed
  progress,     \* progress_ * End
  timeScaling,  \* time_scaling_: 0 holds the motion, 1 runs it
  steps,        \* steps_ > 0: a request of the subscriber is to be applied
  scaling,      \* scaling_
  scalingGoal,  \* scaling_goal_
  ramping,      \* scaling_progress_ < 1
  driven,       \* history: goals whose own thread stepped their trajectory to its end
  disturbed,    \* history: goals executing while another request was handled
  used          \* the bounded things that have happened

server     == <<node, goal, svc>>
trajectory == <<traj, t>>
speed      == <<scaling, scalingGoal, ramping>>
request    == <<timeScaling, steps>>
history    == <<driven, disturbed, used>>
vars == <<server, pc, moving, trajectory, progress, request, speed, history>>

Nothing == [at |-> "idle", g |-> NoGoal]
Executing == {g \in Goals : pc[g] \notin {"none", "done"}}

-----------------------------------------------------------------------------
\* progress_ and t_ are not initialised; they are written before they are read.
Init ==
  /\ node = "ok"
  /\ goal = [g \in Goals |-> "none"]
  /\ pc = [g \in Goals |-> "none"]
  /\ svc = Nothing
  /\ moving = FALSE
  /\ traj = NoGoal /\ t = 0
  /\ progress \in {0, End}
  /\ timeScaling = 1 /\ steps = FALSE
  /\ scaling = 1 /\ scalingGoal = 1 /\ ramping = FALSE
  /\ driven = {} /\ disturbed = {}
  /\ used = [timeouts |-> 0, scalings |-> 0]

-----------------------------------------------------------------------------
(***************************************************************************)
(* The executor thread: one callback at a time.                            *)
(***************************************************************************)
Idle == node = "ok" /\ svc = Nothing

\* A rejection resets state_, whichever goal it belongs to.
Reject(g) ==
  /\ goal' = [goal EXCEPT ![g] = "rejected"]
  /\ moving' = FALSE
  /\ svc' = Nothing

\* handle_goal, up to checkGoal.
HandleGoal(g) ==
  /\ Idle
  /\ goal[g] = "none"
  /\ disturbed' = IF Executing = {} THEN disturbed ELSE disturbed \cup Executing \cup {g}
  /\ IF g \in ValidGoals
     THEN svc' = [at |-> "pose", g |-> g] /\ UNCHANGED <<goal, moving>>
     ELSE Reject(g)
  /\ UNCHANGED <<node, pc, trajectory, progress, request, speed, driven, used>>

\* getCurrentPose calls get_robot_states and waits two seconds for it.
GetCurrentPose ==
  /\ node = "ok" /\ svc.at = "pose"
  /\ svc' = [svc EXCEPT !.at = "generate"]
  /\ UNCHANGED <<node, goal, pc, moving, trajectory, progress, request, speed, history>>

PoseTimeout ==
  /\ node = "ok" /\ svc.at = "pose"
  /\ used.timeouts < MaxTimeouts
  /\ used' = [used EXCEPT !.timeouts = @ + 1]
  /\ Reject(svc.g)
  /\ UNCHANGED <<node, pc, trajectory, progress, request, speed, driven, disturbed>>

\* generateTrajectory replaces via_poses_ and clears end_times_ and the coefficients.
ClearTrajectory ==
  /\ node = "ok" /\ svc.at = "generate"
  /\ svc' = [svc EXCEPT !.at = "fill"]
  /\ traj' = NoGoal
  /\ t' = 0
  /\ UNCHANGED <<node, goal, pc, moving, progress, request, speed, history>>

\* generateTrajectoryImpl fails only for a v_scale that checkGoal has refused: the
\* goal is accepted, and handle_accepted detaches a thread for it.
GenerateTrajectory ==
  /\ node = "ok" /\ svc.at = "fill"
  /\ svc' = Nothing
  /\ traj' = svc.g
  /\ goal' = [goal EXCEPT ![svc.g] = "executing"]
  /\ pc' = [pc EXCEPT ![svc.g] = "reset"]
  /\ UNCHANGED <<node, moving, t, progress, request, speed, history>>

\* handle_cancel accepts every request.
HandleCancel(g) ==
  /\ Idle
  /\ goal[g] = "executing"
  /\ svc' = [at |-> "cancel", g |-> g]
  /\ UNCHANGED <<node, goal, pc, moving, trajectory, progress, request, speed, history>>

\* Then the action server marks the goal, unless it has been answered meanwhile.
CancelGoal ==
  /\ node = "ok" /\ svc.at = "cancel"
  /\ svc' = Nothing
  /\ goal' = IF goal[svc.g] = "executing" THEN [goal EXCEPT ![svc.g] = "canceling"]
             ELSE goal
  /\ UNCHANGED <<node, pc, moving, trajectory, progress, request, speed, history>>

\* setTimeScalingCallback writes the scaling, then the steps.
TimeScaling ==
  /\ Idle
  /\ used.scalings < MaxScalings
  /\ used' = [used EXCEPT !.scalings = @ + 1]
  /\ timeScaling' \in {0, 1}
  /\ svc' = [at |-> "steps", g |-> NoGoal]
  /\ UNCHANGED <<node, goal, pc, moving, trajectory, progress, steps, speed, driven,
                 disturbed>>

TimeScalingSteps ==
  /\ node = "ok" /\ svc.at = "steps"
  /\ steps' = TRUE
  /\ svc' = Nothing
  /\ UNCHANGED <<node, goal, pc, moving, trajectory, progress, timeScaling, speed,
                 history>>

-----------------------------------------------------------------------------
(***************************************************************************)
(* The thread of a goal.                                                   *)
(***************************************************************************)
At(g, label) == node = "ok" /\ pc[g] = label
GoTo(g, label) == pc' = [pc EXCEPT ![g] = label]

\* Mutant: progress_ keeps what the last motion left in it.
ResetProgressKeep(g) ==
  /\ At(g, "reset")
  /\ GoTo(g, "prepare")
  /\ UNCHANGED <<server, moving, trajectory, progress, request, speed, history>>

\* executeGoal resets what the last motion has left.
ResetProgress(g) ==
  /\ At(g, "reset")
  /\ GoTo(g, "prepare")
  /\ progress' = 0
  /\ UNCHANGED <<server, moving, trajectory, request, speed, history>>

\* prepareMotion asks for the controllet and ignores the answer, and that there is
\* none.  A parameter it cannot read throws, and nothing catches it in this thread.
PrepareMotion(g) ==
  /\ At(g, "prepare")
  /\ GoTo(g, "start")
  /\ UNCHANGED <<server, moving, trajectory, progress, request, speed, history>>

PrepareThrows(g) ==
  /\ At(g, "prepare")
  /\ node' = "dead"
  /\ UNCHANGED <<goal, svc, pc, moving, trajectory, progress, request, speed, history>>

\* setTimeScaling, if a request of the subscriber is to be applied, begins a ramp to
\* the scaling that was asked for ...
SetTimeScaling(g, here, clear, next) ==
  /\ At(g, here)
  /\ IF steps
     THEN scalingGoal' = timeScaling /\ ramping' = TRUE /\ GoTo(g, clear)
     ELSE UNCHANGED <<scalingGoal, ramping>> /\ GoTo(g, next)
  /\ UNCHANGED <<server, moving, trajectory, progress, request, scaling, history>>

\* ... and steps_ is cleared, also if another request has come in between.
ResetSteps(g, here, next) ==
  /\ At(g, here)
  /\ steps' = FALSE
  /\ GoTo(g, next)
  /\ UNCHANGED <<server, moving, trajectory, progress, timeScaling, speed, history>>

\* Mutant: state_ stays as the last goal left it.
StartMotionIdle(g) ==
  /\ At(g, "start")
  /\ GoTo(g, "apply")
  /\ UNCHANGED <<server, moving, trajectory, progress, request, speed, history>>

\* executeGoal goes on: the state first, then a request made before the motion.
StartMotion(g) ==
  /\ At(g, "start")
  /\ GoTo(g, "apply")
  /\ moving' = TRUE
  /\ UNCHANGED <<server, trajectory, progress, request, speed, history>>

StartScaling(g) == SetTimeScaling(g, "apply", "forget", "ramp")
ForgetSteps(g) == ResetSteps(g, "forget", "ramp")

\* start() leaves no ramp: what was asked for applies at once.
StartRamp(g) ==
  /\ At(g, "ramp")
  /\ scaling' = scalingGoal
  /\ ramping' = FALSE
  /\ GoTo(g, "update")
  /\ UNCHANGED <<server, moving, trajectory, progress, request, scalingGoal, history>>

\* Mutant: only a motion that is under way looks at its cancellation.
UpdateCanceledMoving(g) ==
  /\ At(g, "update")
  /\ IF goal[g] = "canceling" /\ moving
     THEN goal' = [goal EXCEPT ![g] = "canceled"] /\ GoTo(g, "answered")
     ELSE UNCHANGED goal /\ GoTo(g, "scale")
  /\ UNCHANGED <<node, svc, moving, trajectory, progress, request, speed, history>>

\* updateState.  abort_ is never set, so only a cancellation ends the goal here.
UpdateCanceled(g) ==
  /\ At(g, "update")
  /\ IF goal[g] = "canceling"
     THEN goal' = [goal EXCEPT ![g] = "canceled"] /\ GoTo(g, "answered")
     ELSE UNCHANGED goal /\ GoTo(g, "scale")
  /\ UNCHANGED <<node, svc, moving, trajectory, progress, request, speed, history>>

\* The request of the subscriber, in every round of the loop.
UpdateScaling(g) == SetTimeScaling(g, "scale", "clear", "switch")
ClearSteps(g) == ResetSteps(g, "clear", "switch")

\* Mutant: the loop goes on after the success has been reported.
UpdateStateGoesOn(g) ==
  /\ At(g, "switch")
  /\ IF moving /\ progress >= End
     THEN goal' = [goal EXCEPT ![g] = "succeeded"]
     ELSE UNCHANGED goal
  /\ GoTo(g, "step")
  /\ UNCHANGED <<node, svc, moving, trajectory, progress, request, speed, history>>

\* The switch over state_: IDLE leaves the loop running.
UpdateState(g) ==
  /\ At(g, "switch")
  /\ IF moving /\ progress >= End
     THEN goal' = [goal EXCEPT ![g] = "succeeded"] /\ GoTo(g, "answered")
     ELSE UNCHANGED goal /\ GoTo(g, "step")
  /\ UNCHANGED <<node, svc, moving, trajectory, progress, request, speed, history>>

\* The client has the result before state_ is reset.
ResetState(g) ==
  /\ At(g, "answered")
  /\ moving' = FALSE
  /\ GoTo(g, "done")
  /\ UNCHANGED <<server, trajectory, progress, request, speed, history>>

\* executeTrajectory while state_ is IDLE.
Hold(g) ==
  /\ At(g, "step")
  /\ ~moving
  /\ GoTo(g, "update")
  /\ UNCHANGED <<server, moving, trajectory, progress, request, speed, history>>

Advance(v) == IF t + v < End THEN t + v ELSE End

\* step(), with a ramp of one step.  The time stops at End, which is as good as later.
Step(g) ==
  /\ At(g, "step")
  /\ moving
  /\ traj # NoGoal
  /\ scaling' = IF ramping THEN scalingGoal ELSE scaling
  /\ ramping' = FALSE
  /\ t' = Advance(scaling')
  /\ progress' = t'
  /\ driven' = IF traj = g /\ t' = End THEN driven \cup {g} ELSE driven
  /\ GoTo(g, "update")
  /\ UNCHANGED <<server, moving, traj, request, scalingGoal, disturbed, used>>

\* step() while the executor rebuilds the trajectory reads a vector that is being
\* cleared or filled: any time and progress can come of it, or a crash.
StepRace(g) ==
  /\ At(g, "step")
  /\ moving
  /\ traj = NoGoal
  /\ scaling' = IF ramping THEN scalingGoal ELSE scaling
  /\ ramping' = FALSE
  /\ \/ /\ t' \in 0..End
        /\ progress' \in 0..End
        /\ GoTo(g, "update")
        /\ UNCHANGED node
     \/ /\ node' = "dead"
        /\ UNCHANGED <<t, progress, pc>>
  /\ UNCHANGED <<goal, svc, moving, traj, request, scalingGoal, history>>

-----------------------------------------------------------------------------
ExecuteGoal(g) ==
  \/ ResetProgress(g) \/ PrepareMotion(g) \/ PrepareThrows(g) \/ StartMotion(g)
  \/ StartScaling(g) \/ ForgetSteps(g) \/ StartRamp(g)
  \/ UpdateCanceled(g) \/ UpdateScaling(g) \/ ClearSteps(g) \/ UpdateState(g)
  \/ ResetState(g) \/ Hold(g) \/ Step(g) \/ StepRace(g)

Callback ==
  \/ GetCurrentPose \/ PoseTimeout \/ ClearTrajectory \/ GenerateTrajectory
  \/ CancelGoal \/ TimeScalingSteps

Next ==
  \/ \E g \in Goals : HandleGoal(g) \/ HandleCancel(g) \/ ExecuteGoal(g)
  \/ Callback \/ TimeScaling

\* The threads run, and a callback that has begun returns.
Fairness == WF_vars(Callback) /\ \A g \in Goals : WF_vars(ExecuteGoal(g))

Spec == Init /\ [][Next]_vars /\ Fairness

-----------------------------------------------------------------------------
(***************************************************************************)
(* Properties.                                                             *)
(***************************************************************************)
Answered == {"succeeded", "canceled"}

\* The answers and the threads agree: the thread of a goal runs exactly while the
\* goal is open, and ends with the answer.
TypeOK ==
  /\ node \in {"ok", "dead"}
  /\ goal \in [Goals -> {"none", "rejected", "executing", "canceling"} \cup Answered]
  /\ pc \in [Goals -> {"none", "reset", "prepare", "start", "apply", "forget", "ramp",
                       "update", "scale", "clear", "switch", "step", "answered", "done"}]
  /\ svc \in [at : {"idle", "pose", "generate", "fill", "cancel", "steps"},
              g : Goals \cup {NoGoal}]
  /\ moving \in BOOLEAN /\ steps \in BOOLEAN /\ ramping \in BOOLEAN
  /\ traj \in Goals \cup {NoGoal}
  /\ t \in 0..End /\ progress \in 0..End
  /\ {timeScaling, scaling, scalingGoal} \subseteq {0, 1}
  /\ driven \subseteq Goals /\ disturbed \subseteq Goals
  /\ used \in [timeouts : Nat, scalings : Nat]
  /\ \A g \in Goals : goal[g] \in Answered <=> pc[g] \in {"answered", "done"}

\* A goal reported as succeeded was driven by its own thread along its own trajectory
\* to the end, unless another request was handled while it was executing: progress_
\* and the trajectory are shared, and reset once per goal.
SucceededWasDriven ==
  \A g \in Goals : goal[g] = "succeeded" => g \in driven \cup disturbed

\* An undisturbed goal does not execute for ever unless its motion is held.
UndisturbedIsAnswered ==
  \A g \in Goals :
    []<>(goal[g] # "executing" \/ g \in disturbed \/ scalingGoal = 0 \/ node = "dead")

\* Every accepted goal is answered, unless the client holds the motion or the node
\* dies: the clients wait for it without a timeout.
AcceptedIsAnswered ==
  \A g \in Goals : []<>(goal[g] # "executing" \/ timeScaling = 0 \/ node = "dead")

\* The server is a legal action server, and a cancelled goal is answered, also one
\* that a rejection has left waiting in the loop.
Abstract == INSTANCE ActionServer WITH up <- node = "ok"
ServesGoals == Abstract!Server
=============================================================================
