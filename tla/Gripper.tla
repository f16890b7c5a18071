------------------------------- MODULE Gripper -------------------------------
(***************************************************************************)
(* The gripper action servers, the real one and the simulated one: goals   *)
(* that run at the same time, their cancellation, and the stop service.    *)
(*                                                                         *)
(* The two differ in what ends a motion.  libfranka's stop() ends it from  *)
(* outside; the simulated motions look at is_canceled_, one flag that all  *)
(* goals share.                                                            *)
(***************************************************************************)
EXTENDS Integers, FiniteSets

CONSTANTS
  Goals,
  GripperCommands, \* the goals of the gripper_action server
  Ticks,           \* bound: steps of a simulated motion
  MaxStops,        \* bound: calls of the stop service
  MaxFailures      \* bound: lost connections at a stop()

ASSUME GoalsAssumption ==
  /\ IsFiniteSet(Goals)
  /\ GripperCommands \subseteq Goals
  /\ Ticks \in Nat

VARIABLES
  simulated,  \* which of the two servers it is
  node,       \* rclcpp::ok(), or the process has died
  goal,       \* the state of a goal in the action server
  exec,       \* the detached thread that executes a goal
  cmd,        \* its command thread: running, or what it returned
  left,       \* steps a simulated motion has to go
  isCanceled, \* is_canceled_
  halted,     \* motions of the real gripper ended by a stop()
  svc,        \* the goal whose cancellation the executor is accepting
  cut,        \* history: simulated motions that ended early
  asked,      \* history: goals accepted before some cancel or stop request
  late,       \* history: goals accepted while another one was canceling
  used        \* the bounded things that have happened

history == <<cut, asked, late, used>>
vars == <<simulated, node, goal, exec, cmd, left, isCanceled, halted, svc, history>>

NoGoal == "no goal"

Accepted  == {g \in Goals : goal[g] # "none"}
Canceling == {g \in Goals : goal[g] = "canceling"}
Running   == {g \in Goals : cmd[g] = "running"}
Returned(g) == cmd[g] \in {"true", "false"}

-----------------------------------------------------------------------------
\* is_canceled_ is not initialised.
Init ==
  /\ simulated \in BOOLEAN
  /\ node = "ok"
  /\ goal = [g \in Goals |-> "none"]
  /\ exec = [g \in Goals |-> "none"]
  /\ cmd = [g \in Goals |-> "none"]
  /\ left = [g \in Goals |-> 0]
  /\ isCanceled \in BOOLEAN
  /\ halted = {}
  /\ svc = NoGoal
  /\ cut = {} /\ asked = {} /\ late = {}
  /\ used = [stops |-> 0, failures |-> 0]

-----------------------------------------------------------------------------
(***************************************************************************)
(* The executor: one callback at a time.                                   *)
(***************************************************************************)
Idle == node = "ok" /\ svc = NoGoal

\* Mutant: a new goal inherits the last cancellation.
HandleGoalKeepFlag(g) ==
  /\ Idle
  /\ goal[g] = "none"
  /\ goal' = [goal EXCEPT ![g] = "executing"]
  /\ exec' = [exec EXCEPT ![g] = "start"]
  /\ late' = IF Canceling # {} THEN late \cup {g} ELSE late
  /\ UNCHANGED <<simulated, node, cmd, left, isCanceled, halted, svc, cut, asked,
                 used>>

\* handleGoal accepts every goal, and a thread is detached for it.
HandleGoal(g) ==
  /\ Idle
  /\ goal[g] = "none"
  /\ goal' = [goal EXCEPT ![g] = "executing"]
  /\ exec' = [exec EXCEPT ![g] = "start"]
  /\ isCanceled' = (isCanceled /\ ~simulated)
  /\ late' = IF Canceling # {} THEN late \cup {g} ELSE late
  /\ UNCHANGED <<simulated, node, cmd, left, halted, svc, cut, asked, used>>

\* handleCancel accepts every request.
HandleCancel(g) ==
  /\ Idle
  /\ goal[g] = "executing"
  /\ svc' = g
  /\ isCanceled' = (isCanceled \/ simulated)
  /\ asked' = Accepted
  /\ UNCHANGED <<simulated, node, goal, exec, cmd, left, halted, cut, late, used>>

\* Then the action server marks the goal, unless it has been answered meanwhile.
CancelGoal ==
  /\ node = "ok"
  /\ svc # NoGoal
  /\ goal' = IF goal[svc] = "executing" THEN [goal EXCEPT ![svc] = "canceling"]
             ELSE goal
  /\ svc' = NoGoal
  /\ UNCHANGED <<simulated, node, exec, cmd, left, isCanceled, halted, history>>

\* stop() reaches the gripper, or the connection is lost.
StopMotions ==
  /\ isCanceled' = (isCanceled \/ simulated)
  /\ halted' = IF simulated THEN halted ELSE halted \cup Running

LoseConnection ==
  /\ ~simulated
  /\ used.failures < MaxFailures
  /\ UNCHANGED <<isCanceled, halted>>

\* The stop service catches what stop() throws.
StopService ==
  /\ Idle
  /\ used.stops < MaxStops
  /\ \/ /\ StopMotions
        /\ used' = [used EXCEPT !.stops = @ + 1]
     \/ /\ LoseConnection
        /\ used' = [used EXCEPT !.stops = @ + 1, !.failures = @ + 1]
  /\ asked' = Accepted
  /\ UNCHANGED <<simulated, node, goal, exec, cmd, left, svc, cut, late>>

Shutdown ==
  /\ Idle
  /\ node' = "shutdown"
  /\ UNCHANGED <<simulated, goal, exec, cmd, left, isCanceled, halted, svc, history>>

-----------------------------------------------------------------------------
(***************************************************************************)
(* The command thread of a goal.                                           *)
(***************************************************************************)
Alive == node # "dead"

\* A step of simGripperHoming, simGripperMove or simGripperGrasp.
SimStep(g) ==
  /\ Alive /\ simulated
  /\ cmd[g] = "running"
  /\ left[g] > 0 /\ ~isCanceled
  /\ left' = [left EXCEPT ![g] = @ - 1]
  /\ UNCHANGED <<simulated, node, goal, exec, cmd, isCanceled, halted, svc, history>>

\* Mutant: the motion waits for the gripper to arrive, whatever was canceled.
SimReturnArrived(g) ==
  /\ Alive /\ simulated
  /\ cmd[g] = "running"
  /\ left[g] = 0
  /\ cmd' = [cmd EXCEPT ![g] = "true"]
  /\ UNCHANGED <<simulated, node, goal, exec, left, isCanceled, halted, svc, history>>

\* They return true, also when they were cut short.
SimReturn(g) ==
  /\ Alive /\ simulated
  /\ cmd[g] = "running"
  /\ left[g] = 0 \/ isCanceled
  /\ cmd' = [cmd EXCEPT ![g] = "true"]
  /\ cut' = IF left[g] > 0 THEN cut \cup {g} ELSE cut
  /\ UNCHANGED <<simulated, node, goal, exec, left, isCanceled, halted, svc, asked,
                 late, used>>

\* homing(), move() and grasp() return false or throw when the gripper fails, is
\* stopped, or gets another command.
RealReturn(g) ==
  /\ Alive /\ ~simulated
  /\ cmd[g] = "running"
  /\ \/ cmd' = [cmd EXCEPT ![g] = "false"]
     \/ g \notin halted /\ cmd' = [cmd EXCEPT ![g] = "true"]
  /\ UNCHANGED <<simulated, node, goal, exec, left, isCanceled, halted, svc, history>>

-----------------------------------------------------------------------------
(***************************************************************************)
(* The execution thread of a goal.                                         *)
(***************************************************************************)
Answer(g, answer) ==
  /\ exec' = [exec EXCEPT ![g] = "done"]
  /\ goal' = [goal EXCEPT ![g] = answer]

\* onExecuteGripperCommand: a width out of range, or the width there is.
AnswerAtOnce(g) ==
  /\ Alive
  /\ g \in GripperCommands
  /\ exec[g] = "start"
  /\ Answer(g, "aborted") \/ Answer(g, "succeeded")
  /\ UNCHANGED <<simulated, node, cmd, left, isCanceled, halted, svc, history>>

\* The command runs in a thread of its own.
Begin(g) ==
  /\ Alive
  /\ exec[g] = "start"
  /\ exec' = [exec EXCEPT ![g] = "wait"]
  /\ cmd' = [cmd EXCEPT ![g] = "running"]
  /\ \E n \in IF simulated THEN 0..Ticks ELSE {0} : left' = [left EXCEPT ![g] = n]
  /\ UNCHANGED <<simulated, node, goal, isCanceled, halted, svc, history>>

\* resultIsReady: false after a timeout.
ResultNotReady(g) ==
  /\ Alive
  /\ exec[g] = "wait"
  /\ ~Returned(g)
  /\ exec' = [exec EXCEPT ![g] = IF node = "ok" THEN "check" ELSE "leave"]
  /\ UNCHANGED <<simulated, node, goal, cmd, left, isCanceled, halted, svc, history>>

ResultIsReady(g) ==
  /\ Alive
  /\ exec[g] = "wait"
  /\ Returned(g)
  /\ exec' = [exec EXCEPT ![g] = "leave"]
  /\ UNCHANGED <<simulated, node, goal, cmd, left, isCanceled, halted, svc, history>>

CheckCanceling(g) ==
  /\ Alive
  /\ exec[g] = "check"
  /\ exec' = [exec EXCEPT ![g] = IF goal[g] = "canceling" THEN "stop" ELSE "wait"]
  /\ UNCHANGED <<simulated, node, goal, cmd, left, isCanceled, halted, svc, history>>

\* Mutant: the cancellation is reported before the command has returned.
StopGoalReport(g) ==
  /\ Alive
  /\ exec[g] = "stop"
  /\ StopMotions
  /\ Answer(g, "canceled")
  /\ UNCHANGED <<simulated, node, cmd, left, svc, history>>

\* Nothing catches an exception of stop() here.
StopGoal(g) ==
  /\ Alive
  /\ exec[g] = "stop"
  /\ \/ /\ StopMotions
        /\ exec' = [exec EXCEPT ![g] = "get"]
        /\ UNCHANGED <<node, used>>
     \/ /\ LoseConnection
        /\ node' = "dead"
        /\ used' = [used EXCEPT !.failures = @ + 1]
        /\ UNCHANGED exec
  /\ UNCHANGED <<simulated, goal, cmd, left, svc, cut, asked, late>>

\* The future is waited for without a timeout.
GetCanceled(g) ==
  /\ Alive
  /\ exec[g] = "get"
  /\ Returned(g)
  /\ Answer(g, "canceled")
  /\ UNCHANGED <<simulated, node, cmd, left, isCanceled, halted, svc, history>>

\* After a shutdown nothing is answered; the future waits for its command.
Leave(g) ==
  /\ Alive
  /\ exec[g] = "leave"
  /\ Returned(g)
  /\ IF node = "ok"
     THEN Answer(g, IF cmd[g] = "true" THEN "succeeded" ELSE "aborted")
     ELSE exec' = [exec EXCEPT ![g] = "done"] /\ UNCHANGED goal
  /\ UNCHANGED <<simulated, node, cmd, left, isCanceled, halted, svc, history>>

-----------------------------------------------------------------------------
Execution(g) ==
  \/ Begin(g) \/ ResultIsReady(g) \/ CheckCanceling(g) \/ StopGoal(g)
  \/ GetCanceled(g) \/ Leave(g)
Command(g) == SimStep(g) \/ SimReturn(g) \/ RealReturn(g)

Next ==
  \/ \E g \in Goals :
       \/ HandleGoal(g) \/ HandleCancel(g)
       \/ AnswerAtOnce(g) \/ ResultNotReady(g)
       \/ Execution(g) \/ Command(g)
  \/ CancelGoal \/ StopService \/ Shutdown

\* Every thread goes on, and every motion of the gripper ends.
Fairness ==
  \A g \in Goals : WF_vars(Execution(g) \/ AnswerAtOnce(g) \/ ResultNotReady(g))
                   /\ WF_vars(Command(g))

Spec == Init /\ [][Next]_vars /\ Fairness

-----------------------------------------------------------------------------
(***************************************************************************)
(* Properties.                                                             *)
(***************************************************************************)
Answered == {"succeeded", "aborted", "canceled"}

TypeOK ==
  /\ simulated \in BOOLEAN
  /\ node \in {"ok", "shutdown", "dead"}
  /\ goal \in [Goals -> {"none", "executing", "canceling"} \cup Answered]
  /\ exec \in [Goals -> {"none", "start", "wait", "check", "stop", "get", "leave",
                         "done"}]
  /\ cmd \in [Goals -> {"none", "running", "true", "false"}]
  /\ left \in [Goals -> 0..Ticks]
  /\ isCanceled \in BOOLEAN
  /\ halted \subseteq Goals
  /\ svc \in Goals \cup {NoGoal}
  /\ cut \subseteq Goals /\ asked \subseteq Goals /\ late \subseteq Goals
  /\ used \in [stops : Nat, failures : Nat]
  /\ \A g \in Goals : goal[g] \in Answered => exec[g] = "done"

\* One flag serves all goals, and yet no request is left over in it: a motion is
\* cut short only if a client asked to cancel or to stop something after the goal
\* was accepted, or the goal was accepted while another one was canceling.
CutShortByRequest == cut \subseteq asked \cup late

\* A goal that is reported canceled does not move the gripper any more.
CanceledIsStill == \A g \in Goals : goal[g] = "canceled" => cmd[g] # "running"

\* The servers are legal action servers: a goal is answered once, with canceled only
\* if it is canceling, and every accepted goal is answered while the node is up.
Abstract == INSTANCE ActionServer WITH up <- node = "ok"
ServesGoals == Abstract!PromptServer
=============================================================================
