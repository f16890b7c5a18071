# A verification project for multipanda_ros2

TLA+ models of the parts of `multipanda_ros2` whose correctness depends on the
order in which threads, callbacks and requests act, the TLC runs that check
small instances of them, and theorems that TLAPS proves for every value of the
parameters. Everything was translated from the source; where a document or a
comment says something else, a run shows it or the list after the runs names it.

## The system

`multipanda_ros2` connects one or more Franka Panda arms, real or simulated, to
`ros2_control`. A process has these parts and threads.

| Part | State | Operations | Talks to |
|---|---|---|---|
| `Robot` (`franka_hardware/src/real/robot.cpp`), one per arm | `control_thread_`, `stopped_`, `finish_`, `has_error_`, `control_mode_`, two mutexes | `read`, `write`, `stopRobot`, six `initialize...`, parameter setters | libfranka, which runs one `control`/`read`/`readOnce` at a time; the loop's callback runs in `control_thread_` |
| Error recovery service | none of its own | `triggerAutomaticRecovery` | calls the `Robot` from an executor thread |
| Parameter services | none | seven setters | take `write_mutex_` of the `Robot` |
| `FrankaMultiHardwareInterface` | `arms_`: per arm `control_mode_`, `switch_cm_`, the commands and states | `on_activate`, `on_deactivate`, `read`, `write`, `prepare_...` and `perform_command_mode_switch` | the controller manager: `prepare` comes from its service thread, everything else from the update thread |
| Gripper action server (`franka_gripper`) and its simulated twin (`franka_hardware/src/sim/gripper_sim_action_server.cpp`) | the goals; in the twin `is_canceled_`; the last width and its mutex | goals, cancel requests, the stop service; two threads per goal | clients, through `rclcpp_action`; libfranka's gripper, or MuJoCo |
| `MultiModeController` and its controllets (`franka_multi_mode_controller`) | `active_control_set_` under `control_mtx_`; per controllet the buffered target `desired_` and parameters `p_` | `update`, `setControllersCallback`, `getControllersCallback`, `on_activate`, `on_deactivate`; `start_`, `stop_`, `computeTau_`, two callbacks per controllet | its control laws; callbacks run in an executor thread |
| Reachability shield (`cps_controllers/src/reachable_cartesian_impedance_controller.cpp`, `cps_trajectory_generators`, `cps_safety_monitor`) | `last_verified_plan_` with its cursors, `intended_buffer_`, `mode_`, the last decision; the input and the output handed to and from the worker thread | `update`, the worker's `safetyMonitorWorkerLoop`, `on_activate`, `on_deactivate` | a trajectory planner and a reachability check |
| Motion generators (`panda_motion_generators`) | `state_`, `progress_`, `t_`, the trajectory, the time scaling; all shared by the goals | goals, cancel requests, `set_time_scaling`; one detached thread per goal | clients; the multi-mode controller, which it asks for a controllet and sends targets |
| CPS controllers (`cps_controllers`, and their older text in `franka_example_controllers/src/comless`) | the reference and its time, statistics, a cached Jacobian derivative (static), log files, the experiment, the goal buffer, the runtime gains, contact atomics | `on_configure`, `on_activate`, `update`, `on_deactivate`, two message callbacks | the control node's thread; the executor for messages |
| Example controllers, state broadcasters, semantic components, Garmi controllers | trajectory time, arms by name, targets, references to loaned interfaces, a publisher | the same | the control node's loop; a `RealtimePublisher` thread per broadcaster |
| Simulated hardware (`franka_hardware/src/sim`) | the containers of the arms, the gains and `ctrl` of the actuators | as of the real interface | MuJoCo, which steps on whatever is in `mjData` |
| Control laws, models, human workspace, descriptions, launch files | little or none | real-valued computation, conversion | |

What is hard here: flags shared by threads without a lock, one flag for several
requests, a `join` under a mutex the joined thread needs, requests that are
refused after half of their work is done, loops that die by themselves, and
results that were computed for a state the system has left. `PROJECT.json`
lists such places under `hazards`.

## Modules

| Module | Models |
|---|---|
| `FrankaRobot` | one `Robot`, its libfranka loop, the update thread, the recovery service and the parameter services |
| `FrankaRobotProofs` | theorems about it |
| `Arm` | what the hardware interface counts on from an arm; `FrankaRobot` implements it |
| `CommandModeSwitch` | the multi-arm hardware interface and the controller manager's side of a mode switch |
| `ReachableShield` | the reachability shield: update, plans, monitor, worker |
| `ReachableShieldProofs` | theorems about it |
| `VerifiedMotion` | what the shield promises of the samples commanded; `ReachableShield` implements it |
| `MultiModeController` | the multi-mode controller: exchange of the active set against update, targets and parameters of controllets |
| `MultiModeControllerProofs` | theorems about it |
| `Gripper` | the real and the simulated gripper action server: goals that overlap, their cancellation, the stop service |
| `GripperProofs` | theorems about it |
| `ActionServer` | what a client of an action server is promised; `Gripper` and `MotionGenerator` implement it |
| `MotionGenerator` | the action server of the motion generators: goals that overlap, one trajectory, the time scaling |
| `MotionGeneratorProofs` | theorems about it |
| `SimHardware` | the simulated hardware's component: mode switch, gains, commands, lifecycle |
| `HardwareProofs` | theorems about `CommandModeSwitch` and, as `Sim!`, about `SimHardware` |
| `CpsControllers` | the torque controllers of `cps_controllers` side by side: sessions, schedules, statics, logs, messages |
| `CpsControllersProofs` | theorems about it |
| `ReachableImpedance` | operators for it: the reachable controller outside its shield |
| `ExampleControllers` | the example controllers, broadcasters and Garmi controllers under the control node's loop |
| `ExampleControllersProofs` | theorems about it |
| `MC...` | the root modules of the runs; the `.cfg` files give the values |

### FrankaRobot

A step is one access to state another thread can see. `pc` says where the
update thread (`"rt"`) and the recovery service (`"rec"`) are; `job` is the
operation whose `stopRobot` or `initialize...` they execute, so that the shared
code (`StopCheck` ... `StopMark`, `InitializeLoop`, `SpawnLoop`) returns to the
right caller. `loop` is the progress of `control_thread_`, `"none"` when there
is nothing to join, `"done"` when the function has returned and the thread is
not joined yet; `lib` is who is inside libfranka. `fault` records how the
process died: a second `join` (`std::system_error`), a failed assertion, a
joinable thread overwritten (`std::terminate`), a loop that begins beside a
`readOnce`, an exception of libfranka no `catch` matches. `Builds` says which builds are considered: the README asks for a
Release build, which has no assertions. `controlMode` starts with any value
because `Robot::control_mode_` is never assigned.

Abstracted: the values of commands and states, the five control loops differ
only in their name, the logging helpers. `Write` waits for `write_mutex_`, which a
parameter service may hold while it calls the robot. `switches`,
`recoveries`, `lifecycle` and `reflexes` bound how often the environment acts.

What libfranka throws is a step of its own, in every environment. `readOnce`,
`control` and `read` may end in a `NetworkException`, which neither `Robot::read`
nor a loop catches. `robot_->stop()` may throw behind the `join` (`StopThrows`),
`doAutomaticErrorRecovery` at the beginning of a recovery (`RecoverCommand`) and
`setDefaultParams` when its error is cleared already (`RecoverParamsThrow`); the
recovery handler catches a `ControlException` and a `NetworkException`, answers and
goes on, and a `CommandException` leaves it. An exception that is not caught is taken to end
the process (`fault = "exception"`), on the update thread too: what the controller
manager does with one is outside the repository. The parameter services catch
what their calls throw. `gaveUp` is history: a recovery ended in `StopThrows`.

`Calm` restricts when requests are made and when the arm may enter a reflex,
and nothing else: they wait until the arm has settled. It separates what the code
promises under well-behaved use from what it promises always. In a calm environment a
recovery finds the loop stopped, so that its own `stopRobot` does nothing and does
not throw; and an arm that starts without an error has its parameters set.
`RecoverParamsThrow` is therefore reached only where the arm may start in error, as it may in
both runs, and a caught `StopThrows` in `robot_safety`.

### Arm

The arm without threads, locks and flags: the loop asked for last, the loop that runs, an
error. `Ask` is a mode switch, an activation or a deactivation; `Fail` an error, which may
take the loop along; `GiveUp` the end of a loop that is in error; `Recover` the end of a
recovery, which leaves behind some loop or none. It does not promise the loop that ran
before: the code starts the one an unassigned member names (`robot.hpp:323`), and none when
the member names none or `setDefaultParams` throws. The module translates no code. The
mapping lets a request take effect when it is made (`Effective` is the loop asked for while the
update thread is inside `stopRobot` or `initialize...` for it) and a recovery when it has
started the loop or given up (`InError` lasts until then). `ErrorStopsLoop` and
`StoppedUnlessRecovered` say when a loop is gone; this says which one runs, that none ends
without an error or a request, and that none starts but by a request or a recovery.

### CommandModeSwitch

A group stands for the command interfaces of one arm, space (joint or
Cartesian) and kind (effort, position, velocity) that a controller claims, with
their number; a list of interface names is a set of groups. `Prepare...` is one
step (only the service thread writes what it writes, and the update thread
looks at it after the answer) and returns what the code leaves behind, for an
`ERROR` too. `Mentions` is the substring test by which the code finds the
interfaces of an arm. A loop starts and stops in one step: how is
`FrankaRobot`'s subject. The manager's part (exclusive claims, the update that
carries out an accepted request) is external and modelled from how the
interface is called. `refused` and `upset` are history variables. Left out of
`Written` and `Prepare...`: commands that are not finite, for which `write` returns `ERROR`
at the first arm that has one, and the zeroing of the commands in the stop pass.

The modules describe layers that the code connects only through `ros2_control`;
nothing composes them.

### ReachableShield

The controller commands one sample per update, out of a plan whose intended
prefix (`Steps` samples) and the brake that follows it were accepted together by
the monitor. Without the worker (`~param.async`) an update is one step,
`UpdateSync`: it runs the monitor (`ComputeShieldDecision`) every
`monitor_decimation_` updates and repeats the last decision in between
(`RepeatDecision`). With the worker it is three, because the worker may act
between them: `Publish` an input, `Take` an output, then `DecideFresh`,
`Bootstrap` or `DecideStale`. The worker's steps are the critical sections of
`safetyMonitorWorkerLoop`: `"check"` tests the predicate under the input mutex,
`"doze"` is the moment between the test and the sleep, `"asleep"`, `"compute"`,
and `"store"` under the output mutex. The update only tries the mutexes, so a
busy one skips the hand-over. `Deactivate`, `NotifyStop` and `Join` are the three
statements of `stopSafetyMonitorWorker`.

Abstracted:

 - The via-point path is straight and the arm is on it, so a position is a path
   time, in samples. A planned retiming waits for some samples and then advances
   one per sample; the ramps of rate, acceleration and jerk are left out. A brake
   runs `BrakeSteps` samples on.
 - The verdict of the reachability analysis is any Boolean. What is checked is
   what the controller does with it.
 - `fresh` may lapse at any update: the age of a plan against
   `async_plan_max_age_sec_`. `due` counts updates of the publishing period,
   without jitter.
 - `latest_async_input_` is cleared when it is taken, and a refused candidate is
   not put into the output: neither is read again, except for the log.
 - An emergency stop holds the measured pose, taken to be the last commanded one.
 - `monitor_counter_` is kept modulo `Steps`; 0 is told from `Steps` because the
   update that has no decision yet does not count.

`epoch` counts activations; `plan.epoch` and `plan.refused` say where a plan came
from. They are history. `LookaheadAssumption` is what the configuration gives
(500 samples against a horizon of 50).

### VerifiedMotion

A plan of two parts, how far each is commanded, a verdict, a command. `Begin` and `Adopt` bring a plan
into force only if it was approved in this activation and its brake leads from the last
sample of its intended part to rest (`Approved`); `GoOn` commands the next sample of the
intended part, unless the verdict is to brake; `Brake` the next one of the other; `Refuse` is
a verdict without a command; `Hold` is the arm without a plan. `GoOn` and `Brake` repeat the
last sample of a part, as the cursors do. There is no period, worker, buffer or clock in
it, and no action that withdraws a verdict but those two, so it is one specification for both
modes of the shield. It does not say when the brake is entered: `PlanFollowed` does, for
the mode in which the code keeps it. The mapping is the identity but for the verdict: in a decision of
the worker, `trigger` brakes too (`ToBrake`).

### MultiModeController

Two threads. `rt` is the update thread: `OnActivate`, one `StartNext` per
controllet, `Activated`; `Update`, `LockShared`, one `ComputeTau` per controllet,
`WriteCommands`; `OnDeactivate`. `svc` is the executor, which runs one callback of
the node at a time (the default callback group is mutually exclusive):
`SetControllers` decides, `LockExclusive` waits for `control_mtx_`, `Replace`
exchanges the vector, `StartNew` starts its members. A target is checked in one
step (`CheckTarget`) and stored in another (`SetTarget`), because `on_activate`
may start the controllet in between.

A controllet is a pair of `control_map_`; `Resource` gives its arms. A session is
the time from one `start_` of it to the next. A target is named by the session it
was checked in, and so is a torque by the session it was computed in; that is all
the properties need of poses and torques. Parameters are the defaults or what a
service set. `stop_` changes only flags that `start_` sets again, so it has no
step. A refused target or request changes nothing that is read: `error_` has no
reader, and the response of `set_controllers` is empty. `on_activate` does not take
`control_mtx_`; when the vector is replaced under its loop it goes on with the old
entries, or the process dies (`Crash`).

`Init` is the state after `on_configure`. That the configured start set gives every
arm one controllet is an assumption, `StartAssumption`: `initControllers` does not
test it, and `on_configure` ignores what it answers.

### Gripper

The two servers share their structure and, but for the motions, their text; the
constant of a behaviour, `simulated`, says which one it is. The executor runs one
callback at a time (the default callback group is mutually exclusive):
`HandleGoal`, `HandleCancel` with the marking of the goal that `rclcpp_action` does
next (`CancelGoal`), `StopService`. `exec` is where the detached thread of a goal
is: `"start"`, in the `wait` for the future, at the `check` of `is_canceling()`,
about to `stop`, in the unbounded `get`, or about to `leave` the function. `cmd` is
the thread that carries the command out. Between any two of these steps the other
goals and the executor may act.

What ends a motion differs. libfranka's `stop()` ends those that run (`halted`); a
simulated motion looks at `is_canceled_`, which every goal shares, which a cancel
request and a stop raise and the next goal clears. It starts with either value,
because nothing initialises it.

Abstracted: a motion is a number of steps; the choice between move and grasp, the
checks of the width and the mutex around it, which no thread holds while it waits,
are left out. `AnswerAtOnce` is a width out of range or already reached. The real
gripper may also fail. `stop()` may throw: the service catches it, the thread of a
goal does not, and the process dies. `cut`, `asked` and `late` are history.

### ActionServer

The life of a goal as `rclcpp_action` defines it: none, rejected or executing, perhaps
canceling, then one answer, which is `canceled` only for a goal that is canceling. `Server`
adds that a cancelled goal is answered while the node is up, `PromptServer` that every
accepted goal is. Both implementations keep the state of a goal under the same name, so the
refinement mapping is `up <- node = "ok"`. `Gripper` implements `PromptServer`,
`MotionGenerator` only `Server`: `motion_stuck` shows what is missing.

### MotionGenerator

`svc` is the executor: `HandleGoal` checks a goal, waits for the present pose
(`GetCurrentPose`, or `PoseTimeout`), clears the trajectory (`ClearTrajectory`) and fills it
(`GenerateTrajectory`), which also accepts the goal and detaches its thread.
`pc[g]` is where that thread is; the labels follow `executeGoal`, `updateState` and
`executeTrajectory`. No lock orders the two: `state_mutex_` exists and is never taken, so
every access to `state_`, `progress_`, `t_`, the trajectory and the scaling is a step
(`StartMotion`, `StartScaling`, `ForgetSteps` and `StartRamp` are the beginning of a motion).
A `step()` on a trajectory that is being rebuilt reads vectors that another thread clears;
that is undefined, and `StepRace` gives it any outcome or the end of the process.

Abstracted: a trajectory is whose it is and its end time; a ramp of the time scaling takes
one step; the unused states (recovery, abort) and callbacks are left out. `driven` and
`disturbed` are history.

### SimHardware

As in `CommandModeSwitch` a group stands for the interfaces of one arm, space and kind; a
group may also belong to another component, because the manager shows a request to all.
What differs is what a mode means: one actuator of three per joint has its gain on, and the
simulation goes on with the last `ctrl`. A command is `zero`, `new` in this cycle, `old` or
not finite; `write` returns at the first arm with one that is not. `hand` is whether the
gripper's actuator has the last command of its server. The state that `RobotSim` copies out
of MuJoCo is not modelled.

### CpsControllers and ReachableImpedance

The manager updates the active controllers one after the other, by `Rank`; activation and
deactivation happen between cycles; `Loads` are the sets of controllers that run together.
A session is one activation of a controller, and most state is named by the session, or the
controller and session, it comes from: the Jacobian derivative that the impedance classes
keep in statics of `update`, the samples in the statistics, the rows of a log file, the
goal of the energy budget controller, the velocities its filter has taken in. `on_activate`
resets neither that filter (`dq_filtered_`) nor the runtime gains: they carry over in the
model as in the code. Its energies are numbers in units, `Scale` is `k_scale` as a fraction,
and a potential of at most 1e-9 is 0, for which the scale is 0. The line trajectory is computed exactly, in units of
`MoveTicks`^-5. The schedule of experiments is a sequence of durations, as
`build_experiment_schedule` builds it. `RealtimeBuffer` is external: `readFromRT` tries the
lock and keeps the old value otherwise. Of the reference trajectories the line is modelled,
and not the Lissajous figure. The `ERROR` of the wrench controller without a robot state is
left out: both hardware interfaces export the address of a member
(`franka_multi_hardware_interface.cpp:103`, `franka_mj_hardware_system.cpp:121`), which is
not null.

`ReachableImpedance` holds operators on the record of the reachable controller's members
that are not the shield's: rise and fall of the gains, torque limits, the finite
difference of the Jacobian, the atomics of the contact sensor, the two logs, statistics
and markers. Abstracted: a gain level stands for every entry of `K` and `D`, one joint for
seven; a torque that is asked for is any in range; `on_activate` resets in one step, and a
contact message that overlaps it is marked (`overlaps`), since its contact may be counted
in (the count is then one off at most) and may be the first of the session;
a log row reads the contact atomics in one step; each activation has a fresh run directory.

### ExampleControllers

`Begin`, `StartUpdates`, and one update per active controller: the loop of
`franka_control2_node`, with a measured period of one or more ticks. Every class has an
action of its own per operation; they share what they share in the code (a trajectory time,
arms found by name, `FrankaRobotModel` and `FrankaRobotState` with their references, a
target). The targets of the subscribing controllers are plain members, so a callback writes
(`CallbackWrite`) and an update reads (`ReadPart`) them element by element; where the code
has a lock, the step is as large as the lock. Elements are numbered by the message, or the
activation, they come from. A `RealtimePublisher` has a turn and a thread; `trylock` may fail
at any time. Joint values, gains, torques and the contents of messages are left out.

## Runs

| Run | Question | Result |
|---|---|---|
| `robot_safety` | both builds, any environment, every exception: what can `stopped_` and `finish_` be trusted for? what does it take for threads to collide? | holds, 2.2 million states |
| `robot_calm` | calm environment, two of every request, an error at the start: of what can the process die? does anything hang? does an error end its loop? is it the abstract arm? | holds, 132 thousand states; refinement; liveness under fairness; deadlock checked |
| `switch` | two arms, all requests over five controllers: do loops, containers and controllers agree? | holds, 27 thousand states; deadlock checked |
| `switch_onemode` | can an arm get two controllers? | violated |
| `multimode` | two arms, four controllets: one controllet per arm? torques of one set? no old target? can the threads lock each other out? | holds, 130 thousand states; liveness under fairness |
| `gripper` | both servers, two goals: does a request reach a goal it was not for? does a canceled gripper stand still? is it an action server that answers every goal? | holds, 220 thousand states; refinement with liveness |
| `shield` | with and without worker, monitor and path: is what is commanded what was verified? does the worker see its input, and end? | holds, 770 thousand states; refinement; liveness under fairness |
| `motion` | two goals and an invalid one: does a success mean that the motion was driven? is it an action server that answers every cancelled goal? | holds, 490 thousand states; refinement with liveness |
| `motion_stuck` | is every accepted goal answered? | violated |
| `simhw` | two simulated arms and a foreign base: do gains and commands follow the controllers? | holds, 46 thousand states; deadlock checked |
| `cps` | eight controllers in the combinations the launch files load, two sessions each: does a session compute from its own data, at the due time? what does the scaling keep of the budget? | holds, 750 thousand states; deadlock checked |
| `examples` | fifteen classes under uneven cycles and overlapping messages: own interfaces, trajectory time, whole targets, a broadcast that goes on? | holds, 235 thousand states; liveness under fairness; deadlock checked |

Properties worth reading: `StoppedUnlessRecovered` (when the unlocked `stopped_` can be
trusted), `FinishOwned` (the one `finish_` flag serves every stop and is not left over),
`FaultsNeedRecovery` (two threads collide in a `join`, an assertion or a joinable thread
only if one of them is a recovery), `CallsReturn` (a `join` under a mutex its thread needs),
`ErrorStopsLoop`, `ImplementsArm` (no flag left over from one request ends the loop of
another); `LoopFollowsMode`, `ModesMatchControllers` and `SwitchIsLocal` (three
views of an arm's mode agree across accepted and refused requests); `OnlyVerified` (no
sample of a refused plan or of an earlier activation), `RefusalHolds` and `PlanFollowed` (a
brake follows the whole prefix it was verified with, and ends only at the first sample of
a new plan), `ImplementsVerifiedMotion` (every brake starts where the prefix
in force ends, whoever computed it), `NoSleepOnWork` (an input published with `try_lock` is
not slept on);
`OneControllet` (partial requests, each completed from the active set, never leave an arm
without a controllet or with two), `TorquesOfOneSet` (what an update sends was computed in
it, by one set), `NoStaleTarget` (no target outlives a stop); `CutShortByRequest` (a flag
that all goals share and only a new goal clears is not left over for the next motion);
`SucceededWasDriven` (a progress that all goals share is not read as another's);
`GainsMatchControllers` and `CommandsReachActuators` (mode, gains and the running
controllers agree, and a bad arm takes only those behind it along); `SessionLocal` (what is
it names is of this session and this controller: not all is), `WithinBudget` (what the
scaling of the stiffness does keep),
`SegmentIsDue`, `SessionsGoForward`; `InterfacesAreOwn` (an arm found by a substring of its
name is the right one), `TrajectoryOnTime`, `TargetsOfOneMessage`, `BroadcastGoesOn`.

A process that died stutters for ever (`Over`), so that the robot's runs check for
deadlock. `shield` does not: with both bounds reached an active controller is left with nothing to publish.
`multimode`, `gripper` and `motion` do not: the process may end, and a server may have no
goals left.

No run checks the type invariants of `CommandModeSwitch`, `SimHardware`, `ReachableShield`,
`MultiModeController` and `Gripper`: they are proved.

What the violations say:

 - `switch_onemode`: `prepare_command_mode_switch` changes the arms while it
   checks. A request that stops a controller and starts an invalid one is
   refused, the controller keeps running, and its arm is free for a second one.
   docs/chapters/franka_hardware.md:34 says that this is prevented.
 - `motion_stuck`: rejecting a goal resets `state_`, which belongs to the goal that is
   executing: its thread loops without moving and never answers. The clients in the
   same package wait without a timeout (`panda_to_init_pose_client.cpp:94`).

Seen while modelling, without a run that shows it:

 - src/README.md:30 says that a recovery executes the control loop that ran before. The handler
   starts the loop that `Robot::control_mode_` names, and nothing ever assigns that member
   (`robot.hpp:323`). `Arm` leaves open which loop a recovery leaves behind.
 - When `robot_->stop()` throws a `NetworkException` in a recovery (`robot.cpp:110`), the handler
   catches it and answers: the thread is joined, `finish_` stays set and `stopped_` clear.
   `isStopped()` is then false with no loop running, against its comment (`robot.hpp:136`);
   the next stop joins a thread that is gone, and a start fails its assertion. `FinishOwned`
   names this as the one case in which `finish_` outlives its stop (`gaveUp`).
 - An arm that comes up in error and is recovered before it is activated runs a loop;
   `on_activate` starts another without stopping it. `assert(isStopped())` (`robot.cpp:270`) fails,
   and in a Release build the joinable thread is replaced; either ends the process.
   `NoFault` names the case, as the only collision that a calm environment allows.
 - With a kinetic energy above the budget the energy controller's scale is 0 and the total
   still exceeds the budget, which
   `joint_impedance_energybudget_controller.hpp:33-35` says it never does. `WithinBudget` says what
   holds: the total is within the budget while the scale is on, it is the budget exactly
   where the scale is partial, and stiffness and damping are off where the motion has used
   the budget up or the arm is at its goal, and only there.
 - A recovery that overlaps the update thread can hang both: its `stopRobot` clears `finish_`
   while `read` joins the loop under `read_mutex_`, and the loop's callback waits for that
   mutex. It can also join the thread a second time. `FaultsNeedRecovery` says that
   nothing of the kind happens without a recovery, `CallsReturn` and `NoFault` are about
   recoveries that wait until the arm has settled.
 - In a Release build `stopRobot` of one thread may set `stopped_` (`robot.cpp:112`) after
   the other has started a loop, so that `isStopped()` (`robot.hpp:136`) lies; the
   assertion that would notice is compiled out. `StoppedUnlessRecovered` says when not.
 - A controllet that is started again keeps the parameters of its last session, and a
   request stops and starts every active controllet, also of arms it does not name;
   docs/chapters/franka_multi_mode_controller.md:48 and :236 say otherwise.
 - A refused candidate of the shield leaves `intended_buffer_` as it is while the brake
   moves the arm on (`reachable_cartesian_impedance_controller.cpp:937`). When the monitor
   accepts the buffer later, it is executed from its first sample, behind the arm.
 - The worker reads `commanded_path_time_` while the update writes it (:558): an input published
   before the update adopts the pending plan is replanned from before that plan or from after it.
 - `write` returns OK at the first arm in error: the arms after it in `arms_` get no
   command.
 - A refused request to the simulated hardware has already set the mode of an arm to `None`
   (`franka_mj_hardware_system.cpp:409`): its controller runs on and its gains stay, but `write`
   drops its commands, and the actuators hold the last ones.
 - A simulated motion that is cut short returns true. A goal ended by the stop service
   is reported as succeeded, like one whose gripper arrived; so is a goal whose motion
   sees the flag of a cancel request before its thread looks at `is_canceling()`.
 - `gripper_->stop()` may throw `franka::NetworkException` in the detached thread of a
   goal (`gripper_action_server.hpp:163`, `gripper_action_server.cpp:222`), which ends
   the process; the stop service catches the same exception.
 - The first two updates of the shield both run the monitor, because the first
   does not advance `monitor_counter_`; a refusal in the second brakes from the end
   of a prefix of which one sample was executed. `PlanFollowed` exempts them. A path that ends within
   a sample leaves a plan of one sample, which is repeated; `PlanFollowed` allows that too.
 - `stopSafetyMonitorWorker` clears its flag without the input mutex: a worker
   that has just tested it sleeps through the notification, and `join` never
   returns. `StopReturns` is about every other stop.
 - With an empty path every update is an emergency stop at the measured pose,
   while the message at `reachable_cartesian_impedance_controller.cpp:2562`
   speaks of holding the initial pose. With the worker, `DecideFresh` brakes on a
   predicted trigger even when `enable_safety_monitor_` is off.
 - `on_activate` of the reachable controller resets everything but `K_runtime_` and
   `D_runtime_` (set by `on_configure` only): a session that ended in a brake hands its
   soft gains to the next. That of the energy budget controller does not reset
   `dq_filtered_` (`joint_impedance_energybudget_controller.cpp:156`): the first torque of a
   session is damped with the last velocity of an earlier one.
 - At its goal (a potential of at most 1e-9) the energy budget controller has neither
   stiffness nor damping, however much of the budget is left (:148-150).
 - The cached Jacobian derivative of the impedance controllers is static
   (`nonlinear_impedance_controller.cpp:920-930`): two controllers of the class, as in
   `franka_bringup/config/mixed/mixed_dual_multimode.yaml:12-15`, use each other's.
   `SessionLocal` promises it only to a controller without a sibling.
 - Two controllers of `franka_bringup/config/sim/single_sim_controllers.yaml` (:81 and
   :123) name the same log file, which each truncates when it is activated.
 - The simulated position command is never reset: one that is not finite makes every
   later `write` fail, whatever controller runs.

### Bounds

`robot_safety`: one reflex, two switches, one recovery, two lifecycle changes:
an activation, a switch to a control loop and away from it, an error and a
recovery that overlaps any of them. Two control loops are enough because a step
asks only whether a loop is the reading loop. `robot_calm`: two of each, so
that a second error and recovery meet what the first left behind, and an arm that may start in
error. It checks the Release build, in which nothing but the code itself keeps a second loop
from starting; with assertions the process would only die earlier. `robot_safety` has both builds,
and the theorems cover both. `switch`: two arms,
one request that creates the state, one that is refused, one that meets what the
refusal left; five controllers cover one arm, both arms, a second mode of an arm,
Cartesian lists, and an invalid list.

`shield`: `Steps` 2, so that a prefix has a first and a last sample and the
counter a value in between; `Horizon` a multiple of it, as configured (50 and 10),
so that a buffer outlives a verification; a brake of two samples, one moving and
one at rest; `PathEnd` 1, the shortest path with motion. Two activations, with two
published inputs in the first and one in the second: an output can be left over
from the first, a second input can meet the first's computation.

`multimode`: four controllets over two arms, of which one takes both; two requests
(one that splits the arms, one that follows it: a change of one arm, a conflict, a
controllet that is not loaded, or back); one target, which can be left over or
overtaken; one change of parameters; two activations, with requests before,
between and after them. The number of updates is not bounded.

`gripper`: two goals, one of them of the `gripper_action` server, so that one is
accepted, canceled, stopped or answered at any point of the other; motions of up to
two steps, so that a motion is cut before its first or before its last; two stops; one
lost connection. More goals are the theorems' part.

`motion`: two valid goals, so that one is requested, accepted, cancelled or answered at any
point of the other; one invalid goal; a trajectory of two steps, so that a motion is
disturbed before its first and before its last; one service that does not answer; one
message that holds or resumes. `simhw`: as `switch`, with a controller of another component
and one command that is not finite.

`cps`: two sessions, the second of which can meet what the first left; a period of four
updates for the derivative and of two for the statistics; lines of three cycles, so that
the profile has a beginning, a middle and an end; schedules without phases, with all of
them, and with durations of zero; cycles of one tick or two, so that an update can jump a
segment; two messages. Gains of three levels, so that a rise is limited before it arrives.

`examples`: one launch per kind of interplay, two sessions, two messages; cycles of one or
two ticks and times up to five, so that a motion ends before, at and after an update; arm
names of which one is the beginning of the other, out of order and equal.

### Fairness

Threads of a preemptive scheduler: weak fairness of the update thread, the
recovery thread, the loop, and the end of a parameter service (libfranka's calls
time out). Strong fairness on the five steps that wait for a mutex: a thread is
not overtaken for ever. Requests, reflexes and the start of a parameter service
are not fair. In `ReachableShield` the worker's steps and the rest of an update or
a stop that has begun are weakly fair; activations, updates and spurious wakeups
are not. In `MultiModeController` the steps of an update or a request that has begun
are weakly fair, and strongly where they wait for `control_mtx_`: the update thread
releases it every millisecond, and neither thread gets it for ever at the cost of the
other. Requests, messages and updates are not fair. In `Gripper` the threads of a goal
are weakly fair, which for the real gripper says that its commands return, as
libfranka's do; requests, goals, stops and the marking of a canceled goal are not. In
`MotionGenerator` a callback that has begun and the threads of the goals are weakly fair. In
`ExampleControllers` the node's loop and the publishers' threads are; `Broadcast` strongly,
because `trylock` fails only while the other thread looks at the message, and not every
time. Messages, configurations and activations are not.

## Proofs

| Theorem | Statement |
|---|---|
| `FrankaRobotProofs!TypeCorrect` | `Spec => []TypeOK` |
| `FrankaRobotProofs!StoppedSafe` | `Spec => []StoppedUnlessRecovered` |
| `FrankaRobotProofs!FinishSafe` | `Spec => []FinishOwned` |
| `FrankaRobotProofs!CollisionsNeedRecovery` | `Spec => []FaultsNeedRecovery` |
| `FrankaRobotProofs!NoFaultSafe` | `Spec => []NoFault`, if `Calm` |
| `FrankaRobotProofs!ArmImplemented` | `Spec => ImplementsArm`, if `Calm` or `MaxRecoveries = 0` |
| `HardwareProofs!TypeCorrect` | `Spec => []TypeOK` |
| `HardwareProofs!LoopSafe` | `Spec => []LoopFollowsMode` |
| `HardwareProofs!ModesSafe` | `Spec => []ModesMatchControllers`, if `NamesApart` and `WholeCartesian` |
| `HardwareProofs!SwitchIsLocalSafe` | `Spec => SwitchIsLocal`, under the same |
| `HardwareProofs!SimTypeCorrect` | `Sim!Spec => []Sim!TypeOK`, if `None \notin Kinds` |
| `HardwareProofs!GainsSafe` | `Sim!Spec => []Sim!GainsMatchControllers`, under the same |
| `HardwareProofs!CommandsSafe` | `Sim!Spec => Sim!CommandsReachActuators`, under the same |
| `ReachableShieldProofs!TypeCorrect` | `Spec => []TypeOK` |
| `ReachableShieldProofs!VerifiedSafe` | `Spec => []OnlyVerified` |
| `ReachableShieldProofs!WorkIsSeen` | `Spec => []NoSleepOnWork` |
| `ReachableShieldProofs!RefusalSafe` | `Spec => RefusalHolds` |
| `ReachableShieldProofs!PlanFollowedSafe` | `Spec => PlanFollowed`, if `Whole(Horizon)` |
| `ReachableShieldProofs!VerifiedMotionImplemented` | `Spec => ImplementsVerifiedMotion` |
| `MultiModeControllerProofs!TypeCorrect` | `Spec => []TypeOK` |
| `MultiModeControllerProofs!OneControlletSafe` | `Spec => []OneControllet` |
| `MultiModeControllerProofs!TorquesSafe` | `Spec => TorquesOfOneSet` |
| `MultiModeControllerProofs!TargetSafe` | `Spec => NoStaleTarget` |
| `GripperProofs!TypeCorrect` | `Spec => []TypeOK` |
| `GripperProofs!CutShortSafe` | `Spec => []CutShortByRequest` |
| `GripperProofs!StillSafe` | `Spec => []CanceledIsStill` |
| `GripperProofs!ImplementsLifecycle` | `Spec => Abstract!Lifecycle` |
| `MotionGeneratorProofs!TypeCorrect` | `Spec => []TypeOK` |
| `MotionGeneratorProofs!DrivenToTheEnd` | `Spec => []SucceededWasDriven` |
| `MotionGeneratorProofs!ImplementsLifecycle` | `Spec => Abstract!Lifecycle` |
| `CpsControllersProofs!TypeCorrect` | `Spec => []TypeOK` |
| `CpsControllersProofs!SessionSafe` | `Spec => []SessionLocal`, if `LogsApart` |
| `CpsControllersProofs!SegmentSafe` | `Spec => []SegmentIsDue` |
| `CpsControllersProofs!BudgetSafe` | `Spec => []WithinBudget` |
| `CpsControllersProofs!ForwardSafe` | `Spec => [][EverythingGoesOn]_vars` |
| `ExampleControllersProofs!TypeCorrect` | `Spec => []TypeOK` |
| `ExampleControllersProofs!InterfacesSafe` | `Spec => []InterfacesAreOwn`, if `OccursLater` |
| `ExampleControllersProofs!TrajectorySafe` | `Spec => []TrajectoryOnTime` |
| `ExampleControllersProofs!TargetsSafe` | `Spec => []TargetsOfOneMessage` |

They hold for any set of control loops, any bounds, both builds; for any arms, names,
controllers and claims; for any path, prefix, horizon, brake and number of activations; for
any controllets over any arms; for any goals, motions and stops; and for any controllers,
launches, periods, schedules, cycles and messages. They rest on the named assumptions of
the modules - distinct names of modes and loops, Boolean settings, natural bounds and
durations, positions and ranks that order arms and controllers, arm names that differ,
finite claims - and some on a hypothesis of their own:

 - `NamesApart`: no arm's name occurs in the interface names of another. `WholeCartesian`: the
   Cartesian interfaces of an arm and kind are claimed all together, as the semantic
   components do; joints may be claimed in any portions. Neither is tested by
   the code, which counts names: without the first it counts the interfaces of one arm for
   another.
 - `None \notin Kinds`: the assumption of `SimHardware`, which `HardwareProofs` instantiates.
 - `Whole(Horizon)`: the buffer is a whole number of prefixes. The configured horizon is five
   prefixes; the remainder of another would be executed again when the buffer is the
   fallback.
 - `LogsApart`: controllers of one launch with one log file are of one arm. The configuration
   that names a file twice does so for one arm, and two controllers of one arm are never
   active together. Two of different arms would write into each other's file.
 - `OccursLater`: an arm's name that occurs in another comes first in the map, as a prefix
   does in the order of strings. `right` would not in a map with `front_right`, and the code
   would then find the wrong interfaces.
 - `Calm`: requests wait until the arm has settled, and a reflex does not fall into a change.
   Neither the build, the state the arm starts in, nor what libfranka throws is restricted.
 - `MaxRecoveries = 0`, the other case of `ArmImplemented`: nobody calls the recovery service;
   requests and errors come at any time. With recoveries that overlap anything the statement
   is false: a recovery clears the error while the update thread, which saw it, is about
   to join the loop, and the loop ends without an error that explains it.
   No run has this environment; the theorem alone covers it.

### The arm

`StoppedUnlessRecovered` is not inductive: between `join` and `stopped_ = true`
the flag and the thread disagree. `LoopOwnership` says who owns the loop in that
window (one thread past the join, one thread about to start a loop, never both)
and `SoleCaller` why the update thread alone never starts a loop before it has
stopped the last. `StoppedSafe` proves the conjunction inductive, guarded by the
condition that an assertion is compiled in or no recovery was requested.
`CollisionsNeedRecovery` adds `Unshared`: without recoveries the update thread finds a loop
to join whenever it finds `stopped_` clear, and none where it starts one.
`FinishSafe` follows `finish_` through the stops: it is up between the first
line and the reset, and behind a `robot_->stop()` that threw.

`NoFault` and `ArmImplemented` need to know why no two threads meet in a calm environment
(`Peace`). `Holders` says who has `read_mutex_` and who is inside libfranka; `Joinable` where
`stopped_` and `control_thread_` disagree and who mends it; `RecoveryAlone` that a recovery
which found the loop stopped has the arm to itself until it has restarted it, because `read`
does not stop a loop without an error and the error is cleared first; `NoErrorYet` that a
switch or a change of the lifecycle is never overtaken by an error, and that a loop that was
just started finds libfranka free. All this holds whether the arm starts in error or not.
`NoFaultSafe` follows: by `Joinable` a loop that is to be joined is there, and only
`on_activate` starts one without stopping the last, which a recovery of the inactive arm may
have left; by `NoErrorYet` none begins beside a `readOnce`. The assertions are not
needed for it: it holds in both builds.

`ArmImplemented` is a step simulation, in either environment. Under `Calm` it uses
`Peace`; without recoveries that of `StoppedSafe` and `FinishSafe`.
`Orderly` is what the mapping needs and both invariants give: a stopped loop is joined, a
recovery joins no loop itself, and while it restarts one the update thread only reads and no
error is up. `Purpose` says what each thread is there for, and is inductive beside
`Orderly`: the update thread stops a loop in `read` only in an error, `finish_` is up only while it
does, and a recovery is under way only in an error. Every step is then a request, an
error, the end of a loop in error, the end of a recovery - with a loop, or without one when
`setDefaultParams` threw - or a stutter. Which one the same step is depends on
what it is done for: a loop that ends by `finish_` is a stutter in a change, whose effect was at
the request, and gives up in an error.

### The hardware interfaces

`LoopSafe` needs only the types: every operation that changes a container marks
the arm, every step that clears the mark sets the loop from the container.
`ModesInv` holds while no request was refused. It says of every arm, from the groups its
controllers claim now and will claim after the accepted change (`ModeOf`): what the
container names, whether the arm is marked, and that a mark belongs to a change that waits.
`SimInv` is the same for the simulation, with gains in place of loops. Both requests count
interfaces, so they rest on lemmas about sums over finite sets (a sum is the summand and the
sum of the rest, it grows with the set, a sum of 7 joints is all of them). The provers cannot
instantiate the library's induction over sets; the lemmas use instead that among finite
counterexamples there is a least one, by `WellFoundedInduction`.

### The shield

`OnlyVerified` is about the plan that is executed, while a refused or outdated plan
could come from the worker. `ShieldInv` follows a plan on its way: what the worker
holds (`InFlight`) and what the output holds (`HeldGood`) was accepted in this
activation, because a stop ends with a worker that has returned (`NoWorkerLeft`)
and a start clears the output. `RunningOK` ties the flag to the controller's state.
`WorkIsSeen` needs that the flag and the input change only under the mutex or
before a notification. `RefusalInv` adds what the decision in force and the cursors
say while the arm brakes, and that a plan which is taken over begins at its first sample.
`FollowInv` follows, without the worker, how far the prefix is executed when the monitor
runs next, and that buffers are whole prefixes, at rest or a single sample.
`VerifiedMotionImplemented` rests on both and on `Fitted`. `Fit` is what makes a plan
`Approved` beside its verdict: nothing of it is commanded yet, and its brake begins a step or
none after the last intended sample and ends at rest. `BrakeStops` proves that of `Brake` for
every length, `CandidateFit` of every candidate, and `Fitted` carries it with the plan through
the worker and the output. A step of the worker is a stutter; an update is one of the abstract
steps, according to the decision it executes; the take-over of an output is an `Adopt` or a
`Refuse`, before the sample is commanded.

### The multi-mode controller, the gripper, the motion generators

`OneControllet` is kept because the accepted set is the one that replaces the active
one (`SetInv`): the executor does not begin a second request in between. For
`TorquesOfOneSet`, `Written` says that the controllets asked so far have written all
their arms and that nobody has touched those torques since; it is kept by a
`ComputeTau` because two controllets share no arm, and by everything else because
the set and the sessions change only outside the shared lock. `NoStaleTarget` rests
on `Current`: the target a controllet will use next, be it in the buffer or taken
over, is of the present session.

`CutShortByRequest` speaks of motions that have ended. `Requested` says the same of
those to come: while the flag is raised, or somebody is about to raise it, every
accepted goal was asked about or came in while one was canceling. The second half is
needed because the thread that raises it acts long after the request; `StopSeen` ties
it to a goal that is still canceling.

`SucceededWasDriven` needs to know whose trajectory and progress the shared members are.
`Owned` says that the one goal that executes undisturbed owns both, once its thread has
reset the progress; `Alone` that two goals overlap only if one was requested during the
other, which makes both disturbed; `Served` that the executor's request has no thread yet.

Both `ImplementsLifecycle` theorems are step simulations under the inductive invariant: a
step of an implementation is a step of `ActionServer` or leaves goals and node alone. They
are the safety part of `ServesGoals`; its fairness is model-checked.

### The controllers

`CpsInv` and `ExampleInv` are conjunctions of one invariant per group of members (statistics
and derivative, experiment, goal and energy, log, the reachable controller; trajectories,
arms, references, targets, publishers). That a step changes the members of one controller
only is proved once, and each group looks only at the steps that can touch it. What crosses
controllers is told apart by the session in its name: `dot`, shared by a class, is of the
controller that is alone in it; `RowsOwn` says whose rows a file has while a controller has
it open. `SegmentIsDue` rests on the accumulated durations, a recursive function of
which only its defining equation and its monotony are used. `TargetsOfOneMessage` needs for
every stage of a callback (`cb`) and of a reading update (`walk`) which elements are of
the message in progress, and `Turned` and `Wheels` that they are written and read in one
order. `InterfacesAreOwn` compares the map's order with the search by name: among the names
held that have this one within them the least is it, by `OccursLater`; and the entry of
a name in an ordered list is its place in the map, by counting the keys before it.

### Only model-checked

The liveness properties `CallsReturn`, `ErrorStopsLoop`,
`ThreadsComplete`, `StopReturns`, `UndisturbedIsAnswered`, `BroadcastGoesOn`, and the fairness
of `ServesGoals`: liveness under fairness is out of the prover's reach. So is the part of
`SessionsGoForward` that is about the line (`LineGoesOn`): its profile is a polynomial written
with `^`, of which the provers know nothing; `ForwardSafe` proves the rest of it.

## Plan

 1. `FrankaRobot`, `CommandModeSwitch`, `ReachableShield`, `MultiModeController`, `Gripper`,
    `MotionGenerator`, `SimHardware`, `CpsControllers`, `ExampleControllers`: done.
 2. Abstract specification of an action server, implemented by `Gripper` and
    `MotionGenerator`; of an arm, by `FrankaRobot`; of the motion a shield lets through, by
    `ReachableShield`: done.
 3. Theorems: every invariant and every action property that a run checks, but for
    `LineGoesOn`, and the step simulations of item 2: done.

## Not modelled

 - The values of control laws and the null-space criteria (`redundancy_resolution.cpp`), the
   distance computation of `openGJK.c` (third party), reachable sets, the retiming profile
   and the physics step: functions of the present state over real numbers, whose
   correctness is a matter of numerical error and not of order.
 - Hardware models: calls handed on to libfranka or MuJoCo.
 - The human workspace (`human_workspace.cpp`): geometry read from a file once, and its
   markers; it keeps no state that changes.
 - The executor of the hardware services has no module: its effect, that services run beside
   the update thread, is the interleaving of `FrankaRobot`.
 - Export of interfaces and the checks of `on_init`, state copied out of MuJoCo, parameters
   of libfranka, messages, robot descriptions, launch files and tools: conversions and data.
