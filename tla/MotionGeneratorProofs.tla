------------------------ MODULE MotionGeneratorProofs ------------------------
(***************************************************************************)
(* Theorems about MotionGenerator, for any goals and any bounds.           *)
(***************************************************************************)
EXTENDS MotionGenerator, TLAPS

-----------------------------------------------------------------------------
(***************************************************************************)
(* The inductive invariant.                                                *)
(***************************************************************************)
\* The executor works on a request for a new goal ...
Serving == svc.at \in {"pose", "generate", "fill"}

\* ... which has no thread yet; every goal that was accepted has one.
Served ==
  /\ Serving => svc.g \in Goals /\ goal[svc.g] = "none"
  /\ svc.at = "cancel" => svc.g \in Goals
  /\ \A g \in Goals : goal[g] \in {"none", "rejected"} <=> pc[g] = "none"

\* Two goals execute at the same time only if one was requested during the other.
Alone ==
  /\ \A g, h \in Executing : g = h \/ (g \in disturbed /\ h \in disturbed)
  /\ Serving => /\ Executing \subseteq disturbed
                /\ Executing = {} \/ svc.g \in disturbed

\* A goal that is not disturbed owns the trajectory, and the progress once it is reset.
Owns(g) == traj = g /\ (pc[g] = "reset" \/ progress < End \/ g \in driven)
Owned == \A g \in Executing : g \in disturbed \/ Owns(g)

MotionInv == TypeOK /\ Served /\ Alone /\ Owned /\ SucceededWasDriven

LEMMA InitMotion == Init => MotionInv
<1> SUFFICES ASSUME Init PROVE MotionInv
  OBVIOUS
<1>1. TypeOK
  <2>1. svc \in [at : {"idle", "pose", "generate", "fill", "cancel", "steps"},
                g : Goals \cup {NoGoal}]
    BY DEF Init, Nothing
  <2>2. used \in [timeouts : Nat, scalings : Nat]
    BY DEF Init
  <2>3. t \in 0..End /\ progress \in 0..End
    BY EndAssumption DEF Init
  <2> QED BY <2>1, <2>2, <2>3 DEF Init, TypeOK, Answered
<1>2. Executing = {}
  BY DEF Init, Executing
<1>3. Served /\ SucceededWasDriven
  BY DEF Init, Served, Serving, Nothing, SucceededWasDriven
<1> QED BY <1>1, <1>2, <1>3 DEF MotionInv, Alone, Owned, Init, Serving, Nothing

-----------------------------------------------------------------------------
(***************************************************************************)
(* The executor.                                                           *)
(***************************************************************************)
LEMMA RejectStep ==
  ASSUME NEW g \in Goals, MotionInv, goal[g] = "none", Reject(g)
  PROVE  /\ goal' \in [Goals -> {"none", "rejected", "executing", "canceling"} \cup Answered]
         /\ moving' \in BOOLEAN /\ svc' = Nothing
         /\ \A h \in Goals : h # g => goal'[h] = goal[h]
         /\ goal'[g] = "rejected"
BY DEF MotionInv, TypeOK, Reject

LEMMA HandleGoalStep ==
  ASSUME NEW g \in Goals, MotionInv, HandleGoal(g)
  PROVE  MotionInv'
<1> USE DEF MotionInv
<1>1. Executing' = Executing
  BY DEF HandleGoal, Executing
<1>2. Executing \subseteq disturbed' /\ (Executing = {} \/ g \in disturbed')
      /\ disturbed \subseteq disturbed' /\ disturbed' \subseteq Goals
  BY DEF HandleGoal, Executing, TypeOK
<1>3. CASE g \in ValidGoals
  <2>1. svc' = [at |-> "pose", g |-> g] /\ goal' = goal /\ moving' = moving
    BY <1>3 DEF HandleGoal
  <2>2. TypeOK'
    BY <1>2, <2>1 DEF HandleGoal, TypeOK, trajectory, request, speed
  <2>3. Served'
    BY <2>1 DEF HandleGoal, Served, Serving
  <2>4. Alone'
    BY <1>1, <1>2, <2>1 DEF Alone, Serving
  <2>5. Owned' /\ SucceededWasDriven'
    BY <1>1, <1>2, <2>1 DEF HandleGoal, Owned, Owns, SucceededWasDriven, trajectory
  <2> QED BY <2>2, <2>3, <2>4, <2>5
<1>4. CASE g \notin ValidGoals
  <2>1. Reject(g) /\ goal[g] = "none" /\ pc[g] = "none"
    BY <1>4 DEF HandleGoal, Served
  <2>2. TypeOK'
    BY <1>2, <2>1, RejectStep DEF HandleGoal, TypeOK, trajectory, request, speed,
       Nothing, Answered
  <2>3. Served'
    BY <2>1, RejectStep DEF HandleGoal, Served, Serving, Nothing
  <2>4. Alone'
    BY <1>1, <1>2, <2>1, RejectStep DEF Alone, Serving, Nothing
  <2>5. Owned' /\ SucceededWasDriven'
    BY <1>1, <1>2, <2>1, RejectStep
       DEF HandleGoal, Owned, Owns, SucceededWasDriven, trajectory
  <2> QED BY <2>2, <2>3, <2>4, <2>5
<1> QED BY <1>3, <1>4

\* A step that moves the executor on within its request, or back to idle.
LEMMA ExecutorStep ==
  ASSUME MotionInv, TypeOK',
         svc' = Nothing \/ (Serving /\ svc'.g = svc.g)
           \/ svc'.at \notin {"pose", "generate", "fill", "cancel"},
         UNCHANGED <<goal, pc, disturbed, driven>>,
         UNCHANGED <<traj, progress>> \/ Serving
  PROVE  MotionInv'
<1> USE DEF MotionInv
<1>1. Executing' = Executing
  BY DEF Executing
<1>2. Served'
  BY DEF Served, Serving, Nothing
<1>3. Alone'
  BY <1>1 DEF Alone, Serving, Nothing
<1>4. Owned'
  BY <1>1 DEF Owned, Owns, Alone
<1> QED BY <1>2, <1>3, <1>4 DEF SucceededWasDriven

LEMMA GetCurrentPoseStep ==
  ASSUME MotionInv, GetCurrentPose
  PROVE  MotionInv'
<1>1. TypeOK' /\ Serving /\ svc'.g = svc.g
  BY DEF MotionInv, GetCurrentPose, TypeOK, trajectory, request, speed, history, Serving
<1> QED BY <1>1, ExecutorStep DEF GetCurrentPose, trajectory, history

LEMMA PoseTimeoutStep ==
  ASSUME MotionInv, PoseTimeout
  PROVE  MotionInv'
<1> USE DEF MotionInv
<1>1. svc.g \in Goals /\ goal[svc.g] = "none" /\ pc[svc.g] = "none"
  BY DEF PoseTimeout, Served, Serving
<1>2. Reject(svc.g) /\ Executing' = Executing
  BY DEF PoseTimeout, Executing
<1>3. used' \in [timeouts : Nat, scalings : Nat]
  BY DEF PoseTimeout, TypeOK
<1>4. TypeOK'
  BY <1>1, <1>2, <1>3, RejectStep DEF PoseTimeout, TypeOK, trajectory, request, speed,
     Nothing, Answered
<1>5. Served'
  BY <1>1, <1>2, RejectStep DEF PoseTimeout, Served, Serving, Nothing
<1>6. Alone'
  BY <1>1, <1>2, RejectStep DEF PoseTimeout, Alone, Serving, Nothing
<1>7. Owned' /\ SucceededWasDriven'
  BY <1>1, <1>2, RejectStep
     DEF PoseTimeout, Owned, Owns, SucceededWasDriven, trajectory
<1> QED BY <1>4, <1>5, <1>6, <1>7

LEMMA ClearTrajectoryStep ==
  ASSUME MotionInv, ClearTrajectory
  PROVE  MotionInv'
<1>1. TypeOK' /\ Serving /\ svc'.g = svc.g
  BY EndAssumption DEF MotionInv, ClearTrajectory, TypeOK, request, speed, history,
     Serving
<1> QED BY <1>1, ExecutorStep DEF ClearTrajectory, history

LEMMA GenerateTrajectoryStep ==
  ASSUME MotionInv, GenerateTrajectory
  PROVE  MotionInv'
<1> USE DEF MotionInv
<1> DEFINE g == svc.g
<1>1. Serving /\ g \in Goals /\ goal[g] = "none" /\ pc[g] = "none"
  BY DEF GenerateTrajectory, Served, Serving
<1>2. TypeOK'
  BY <1>1 DEF GenerateTrajectory, TypeOK, request, speed, history, Nothing, Answered
<1>3. Served'
  BY <1>1 DEF GenerateTrajectory, Served, Serving, Nothing, TypeOK
<1>4. Executing' = Executing \cup {g}
  BY <1>1 DEF GenerateTrajectory, Executing, TypeOK
<1>5. Executing \subseteq disturbed /\ (Executing = {} \/ g \in disturbed)
      /\ disturbed' = disturbed
  BY <1>1 DEF GenerateTrajectory, Alone, history
<1>6. Alone'
  BY <1>4, <1>5 DEF GenerateTrajectory, Alone, Serving, Nothing
<1>7. traj' = g /\ pc'[g] = "reset"
  BY <1>1 DEF GenerateTrajectory, TypeOK
<1>8. Owned'
  BY <1>4, <1>5, <1>7 DEF Owned, Owns
<1>9. SucceededWasDriven'
  BY <1>1 DEF GenerateTrajectory, SucceededWasDriven, history, TypeOK
<1> QED BY <1>2, <1>3, <1>6, <1>8, <1>9

LEMMA HandleCancelStep ==
  ASSUME NEW g \in Goals, MotionInv, HandleCancel(g)
  PROVE  MotionInv'
<1> USE DEF MotionInv
<1>1. svc' = [at |-> "cancel", g |-> g]
      /\ UNCHANGED <<goal, pc, disturbed, driven, traj, progress>>
  BY DEF HandleCancel, trajectory, history
<1>2. TypeOK'
  BY <1>1 DEF HandleCancel, TypeOK, trajectory, request, speed, history
<1>3. Served' /\ Alone' /\ Owned' /\ SucceededWasDriven'
  BY <1>1 DEF Served, Serving, Alone, Owned, Owns, Executing, SucceededWasDriven
<1> QED BY <1>2, <1>3

LEMMA CancelGoalStep ==
  ASSUME MotionInv, CancelGoal
  PROVE  MotionInv'
<1> USE DEF MotionInv
<1>1. svc.g \in Goals /\ svc' = Nothing
  BY DEF CancelGoal, Served
<1>2. UNCHANGED <<pc, disturbed, driven, traj, progress>>
  BY DEF CancelGoal, trajectory, history
<1>3. \A h \in Goals : goal'[h] = goal[h] \/ (goal[h] = "executing" /\ goal'[h] = "canceling")
  BY <1>1 DEF CancelGoal, TypeOK
<1>4. goal' \in [Goals -> {"none", "rejected", "executing", "canceling"} \cup Answered]
  BY <1>1 DEF CancelGoal, TypeOK
<1>5. TypeOK'
  BY <1>1, <1>2, <1>3, <1>4 DEF CancelGoal, TypeOK, trajectory, request, speed, history,
     Nothing, Answered
<1>6. Served' /\ Alone' /\ Owned' /\ SucceededWasDriven'
  BY <1>1, <1>2, <1>3 DEF Served, Serving, Alone, Owned, Owns, Executing,
     SucceededWasDriven, Nothing
<1> QED BY <1>5, <1>6

LEMMA TimeScalingStep ==
  ASSUME MotionInv, TimeScaling \/ TimeScalingSteps
  PROVE  MotionInv'
<1>1. CASE TimeScaling
  <2>1. used' \in [timeouts : Nat, scalings : Nat]
    BY <1>1 DEF MotionInv, TimeScaling, TypeOK
  <2>2. TypeOK'
    BY <1>1, <2>1 DEF MotionInv, TimeScaling, TypeOK, trajectory, speed
  <2> QED BY <1>1, <2>2, ExecutorStep DEF TimeScaling, trajectory
<1>2. CASE TimeScalingSteps
  <2>1. TypeOK'
    BY <1>2 DEF MotionInv, TimeScalingSteps, TypeOK, trajectory, speed, history, Nothing
  <2> QED BY <1>2, <2>1, ExecutorStep DEF TimeScalingSteps, trajectory, history
<1> QED BY <1>1, <1>2

-----------------------------------------------------------------------------
(***************************************************************************)
(* The thread of a goal.                                                   *)
(***************************************************************************)
\* A step within the thread of a goal that answers nothing, and leaves the trajectory.
LEMMA ThreadStep ==
  ASSUME NEW g \in Goals, MotionInv, TypeOK',
         pc[g] \notin {"none", "reset", "done"},
         NEW label \in {"start", "apply", "forget", "ramp", "update", "scale", "clear", "switch",
                        "step"},
         GoTo(g, label),
         UNCHANGED <<goal, svc, traj, disturbed>>,
         driven \subseteq driven',
         progress' = progress \/ progress' < End \/ g \in driven' \/ g \in disturbed
  PROVE  MotionInv'
<1> USE DEF MotionInv
<1>1. pc' = [pc EXCEPT ![g] = label] /\ pc'[g] = label /\ DOMAIN pc = Goals
  BY DEF GoTo, TypeOK
<1>2. Executing' = Executing /\ g \in Executing
  BY <1>1 DEF Executing
<1>3. Served'
  BY <1>1 DEF Served, Serving
<1>4. Alone'
  BY <1>2 DEF Alone, Serving
<1>5. \A h \in Executing : h \in disturbed \/ h = g
  BY <1>2 DEF Alone
<1>6. g \in disturbed \/ Owns(g)'
  BY <1>1, <1>2 DEF Owned, Owns
<1>7. Owned'
  BY <1>2, <1>5, <1>6 DEF Owned
<1> QED BY <1>3, <1>4, <1>7 DEF SucceededWasDriven

LEMMA ResetProgressStep ==
  ASSUME NEW g \in Goals, MotionInv, ResetProgress(g)
  PROVE  MotionInv'
<1> USE DEF MotionInv
<1>1. pc' = [pc EXCEPT ![g] = "prepare"] /\ pc[g] = "reset" /\ DOMAIN pc = Goals
      /\ progress' = 0 /\ UNCHANGED <<goal, svc, traj, disturbed, driven>>
  BY DEF ResetProgress, At, GoTo, TypeOK, server, trajectory, history
<1>2. TypeOK'
  BY <1>1, EndAssumption
     DEF ResetProgress, TypeOK, server, trajectory, request, speed, history, Answered
<1>3. Executing' = Executing
  BY <1>1 DEF Executing
<1>4. Served' /\ Alone'
  BY <1>1, <1>3 DEF Served, Alone, Serving
<1>5. Owned'
  BY <1>1, <1>3, EndAssumption DEF Owned, Owns
<1> QED BY <1>1, <1>2, <1>4, <1>5 DEF SucceededWasDriven

LEMMA PrepareMotionStep ==
  ASSUME NEW g \in Goals, MotionInv, PrepareMotion(g)
  PROVE  MotionInv'
<1>1. GoTo(g, "start") /\ pc[g] = "prepare"
      /\ UNCHANGED <<goal, svc, traj, disturbed, driven, progress>>
  BY DEF PrepareMotion, At, server, trajectory, history
<1>2. TypeOK'
  BY DEF MotionInv, PrepareMotion, At, GoTo, TypeOK, server, trajectory, request, speed,
     history, Answered
<1> QED BY <1>1, <1>2, ThreadStep

\* The node dies, and nothing else happens.
LEMMA DieStep ==
  ASSUME MotionInv, node' = "dead",
         UNCHANGED <<goal, svc, pc, moving, trajectory, progress, request, scalingGoal,
                     history>>,
         scaling' \in {0, 1}, ramping' \in BOOLEAN
  PROVE  MotionInv'
BY DEF MotionInv, TypeOK, Served, Serving, Alone, Owned, Owns, Executing,
   SucceededWasDriven, trajectory, request, history

LEMMA PrepareThrowsStep ==
  ASSUME NEW g \in Goals, MotionInv, PrepareThrows(g)
  PROVE  MotionInv'
BY DieStep DEF PrepareThrows, speed, MotionInv, TypeOK

LEMMA StartMotionStep ==
  ASSUME NEW g \in Goals, MotionInv, StartMotion(g)
  PROVE  MotionInv'
<1>1. GoTo(g, "apply") /\ pc[g] = "start"
      /\ UNCHANGED <<goal, svc, traj, disturbed, driven, progress>>
  BY DEF StartMotion, At, server, trajectory, history
<1>2. TypeOK'
  BY DEF MotionInv, StartMotion, At, GoTo, TypeOK, server, trajectory, request, speed,
     history, Answered
<1> QED BY <1>1, <1>2, ThreadStep

LEMMA StartRampStep ==
  ASSUME NEW g \in Goals, MotionInv, StartRamp(g)
  PROVE  MotionInv'
<1>1. GoTo(g, "update") /\ pc[g] = "ramp"
      /\ UNCHANGED <<goal, svc, traj, disturbed, driven, progress>>
  BY DEF StartRamp, At, server, trajectory, history
<1>2. TypeOK'
  BY DEF MotionInv, StartRamp, At, GoTo, TypeOK, server, trajectory, request, history,
     Answered
<1> QED BY <1>1, <1>2, ThreadStep

\* A request for another scaling, before the motion or in a round of the loop.
LEMMA SetTimeScalingStep ==
  ASSUME NEW g \in Goals, MotionInv, StartScaling(g) \/ UpdateScaling(g)
  PROVE  MotionInv'
<1>1. PICK label \in {"forget", "ramp", "clear", "switch"} : GoTo(g, label)
  BY DEF StartScaling, UpdateScaling, SetTimeScaling
<1>2. pc[g] \in {"apply", "scale"}
      /\ UNCHANGED <<goal, svc, traj, disturbed, driven, progress>>
  BY DEF StartScaling, UpdateScaling, SetTimeScaling, At, server, trajectory, history
<1>3. /\ scalingGoal' \in {scalingGoal, timeScaling} /\ ramping' \in {TRUE, ramping}
      /\ UNCHANGED <<server, moving, trajectory, progress, request, scaling, history>>
  BY DEF StartScaling, UpdateScaling, SetTimeScaling
<1>4. TypeOK'
  BY <1>1, <1>2, <1>3 DEF MotionInv, GoTo, TypeOK, server, trajectory, request, history,
     Answered
<1> QED BY <1>1, <1>2, <1>4, ThreadStep

LEMMA ResetStepsStep ==
  ASSUME NEW g \in Goals, MotionInv, ForgetSteps(g) \/ ClearSteps(g)
  PROVE  MotionInv'
<1>1. PICK label \in {"ramp", "switch"} : GoTo(g, label)
  BY DEF ForgetSteps, ClearSteps, ResetSteps
<1>2. pc[g] \in {"forget", "clear"}
      /\ UNCHANGED <<goal, svc, traj, disturbed, driven, progress>>
  BY DEF ForgetSteps, ClearSteps, ResetSteps, At, server, trajectory, history
<1>3. TypeOK'
  BY <1>1, <1>2 DEF MotionInv, ForgetSteps, ClearSteps, ResetSteps, GoTo, TypeOK, server,
     trajectory, speed, history, Answered
<1> QED BY <1>1, <1>2, <1>3, ThreadStep

\* The thread answers its goal: with success only at the end of a motion it owns.
LEMMA AnswerStep ==
  ASSUME NEW g \in Goals, MotionInv, pc[g] \in {"update", "switch"},
         NEW answer \in Answered,
         goal' = [goal EXCEPT ![g] = answer], GoTo(g, "answered"),
         answer = "succeeded" => progress >= End,
         UNCHANGED <<node, svc, moving, trajectory, progress, request, speed, history>>
  PROVE  MotionInv'
<1> USE DEF MotionInv
<1>1. pc' = [pc EXCEPT ![g] = "answered"] /\ DOMAIN pc = Goals /\ DOMAIN goal = Goals
      /\ UNCHANGED <<traj, disturbed, driven>>
  BY DEF GoTo, TypeOK, trajectory, history
<1>2. TypeOK'
  BY <1>1 DEF TypeOK, trajectory, request, speed, history, Answered
<1>3. Executing' = Executing /\ g \in Executing
  BY <1>1 DEF Executing
<1>4. Served'
  BY <1>1 DEF Served, Serving, Answered
<1>5. Alone'
  BY <1>1, <1>3 DEF Alone, Serving
<1>6. Owned'
  BY <1>1, <1>3 DEF Owned, Owns
<1>7. g \in driven \cup disturbed \/ ~(progress >= End)
  BY <1>3, EndAssumption DEF Owned, Owns, TypeOK
<1>8. SucceededWasDriven'
  BY <1>1, <1>7 DEF SucceededWasDriven
<1> QED BY <1>2, <1>4, <1>5, <1>6, <1>8

LEMMA UpdateCanceledStep ==
  ASSUME NEW g \in Goals, MotionInv, UpdateCanceled(g)
  PROVE  MotionInv'
<1>1. CASE goal[g] = "canceling"
  BY <1>1, AnswerStep DEF UpdateCanceled, At, Answered
<1>2. CASE goal[g] # "canceling"
  <2>1. GoTo(g, "scale") /\ pc[g] = "update"
        /\ UNCHANGED <<goal, svc, traj, disturbed, driven, progress>>
    BY <1>2 DEF UpdateCanceled, At, trajectory, history
  <2>2. TypeOK'
    BY <1>2 DEF MotionInv, UpdateCanceled, At, GoTo, TypeOK, trajectory, request, speed,
       history, Answered
  <2> QED BY <2>1, <2>2, ThreadStep
<1> QED BY <1>1, <1>2

LEMMA UpdateStateStep ==
  ASSUME NEW g \in Goals, MotionInv, UpdateState(g)
  PROVE  MotionInv'
<1>1. CASE moving /\ progress >= End
  BY <1>1, AnswerStep DEF UpdateState, At, Answered
<1>2. CASE ~(moving /\ progress >= End)
  <2>1. GoTo(g, "step") /\ pc[g] = "switch"
        /\ UNCHANGED <<goal, svc, traj, disturbed, driven, progress>>
    BY <1>2 DEF UpdateState, At, trajectory, history
  <2>2. TypeOK'
    BY <1>2 DEF MotionInv, UpdateState, At, GoTo, TypeOK, trajectory, request, speed,
       history, Answered
  <2> QED BY <2>1, <2>2, ThreadStep
<1> QED BY <1>1, <1>2

LEMMA ResetStateStep ==
  ASSUME NEW g \in Goals, MotionInv, ResetState(g)
  PROVE  MotionInv'
<1> USE DEF MotionInv
<1>1. pc' = [pc EXCEPT ![g] = "done"] /\ pc[g] = "answered" /\ DOMAIN pc = Goals
      /\ UNCHANGED <<goal, svc, traj, disturbed, driven, progress>>
  BY DEF ResetState, At, GoTo, TypeOK, server, trajectory, history
<1>2. TypeOK'
  BY <1>1 DEF ResetState, TypeOK, server, trajectory, request, speed, history
<1>3. Executing' = Executing \ {g}
  BY <1>1 DEF Executing
<1>4. Served' /\ Alone'
  BY <1>1, <1>3 DEF Served, Alone, Serving
<1>5. Owned' /\ SucceededWasDriven'
  BY <1>1, <1>3 DEF Owned, Owns, SucceededWasDriven
<1> QED BY <1>2, <1>4, <1>5

LEMMA HoldStep ==
  ASSUME NEW g \in Goals, MotionInv, Hold(g)
  PROVE  MotionInv'
<1>1. GoTo(g, "update") /\ pc[g] = "step"
      /\ UNCHANGED <<goal, svc, traj, disturbed, driven, progress>>
  BY DEF Hold, At, server, trajectory, history
<1>2. TypeOK'
  BY DEF MotionInv, Hold, At, GoTo, TypeOK, server, trajectory, request, speed, history,
     Answered
<1> QED BY <1>1, <1>2, ThreadStep

LEMMA StepStep ==
  ASSUME NEW g \in Goals, MotionInv, Step(g)
  PROVE  MotionInv'
<1> USE DEF MotionInv
<1>1. GoTo(g, "update") /\ pc[g] = "step" /\ UNCHANGED <<goal, svc, traj, disturbed>>
  BY DEF Step, At, server
<1>2. scaling' \in {0, 1}
  BY DEF Step, TypeOK
<1>3. t' \in 0..End /\ progress' = t' /\ driven' \subseteq Goals /\ driven \subseteq driven'
  BY <1>2, EndAssumption DEF Step, Advance, TypeOK
<1>4. TypeOK'
  BY <1>1, <1>2, <1>3 DEF Step, GoTo, TypeOK, server, request, Answered
<1>5. traj = g \/ g \in disturbed
  BY <1>1 DEF Owned, Owns, Executing
<1>6. progress' < End \/ g \in driven' \/ g \in disturbed
  BY <1>3, <1>5, EndAssumption DEF Step
<1> QED BY <1>1, <1>3, <1>4, <1>6, ThreadStep

\* Only a disturbed goal finds its trajectory cleared.
LEMMA StepRaceStep ==
  ASSUME NEW g \in Goals, MotionInv, StepRace(g)
  PROVE  MotionInv'
<1>1. scaling' \in {0, 1} /\ ramping' \in BOOLEAN
  BY DEF MotionInv, StepRace, TypeOK
<1>2. CASE GoTo(g, "update") /\ node' = node
  <2>1. pc[g] = "step" /\ traj = NoGoal
        /\ UNCHANGED <<goal, svc, traj, disturbed, driven>>
    BY DEF StepRace, At, history
  <2>2. t' \in 0..End /\ progress' \in 0..End
    BY <1>2, <2>1 DEF MotionInv, StepRace, TypeOK, GoTo
  <2>3. TypeOK'
    BY <1>1, <1>2, <2>1, <2>2 DEF MotionInv, StepRace, GoTo, TypeOK, request, history,
       Answered
  <2>4. g \in disturbed
    BY <2>1, GoalsAssumption DEF MotionInv, Owned, Owns, Executing
  <2> QED BY <1>2, <2>1, <2>3, <2>4, ThreadStep
<1>3. CASE node' = "dead" /\ UNCHANGED <<t, progress, pc>>
  BY <1>1, <1>3, DieStep DEF StepRace, trajectory
<1> QED BY <1>2, <1>3 DEF StepRace

-----------------------------------------------------------------------------
(***************************************************************************)
(* Every step keeps the invariant.                                         *)
(***************************************************************************)
LEMMA NextMotion == MotionInv /\ [Next]_vars => MotionInv'
<1> SUFFICES ASSUME MotionInv, [Next]_vars PROVE MotionInv'
  OBVIOUS
<1>1. CASE UNCHANGED vars
  BY <1>1 DEF MotionInv, TypeOK, Served, Serving, Alone, Owned, Owns, Executing,
     SucceededWasDriven, vars, server, trajectory, request, speed, history
<1>2. CASE \E g \in Goals : HandleGoal(g) \/ HandleCancel(g)
  BY <1>2, HandleGoalStep, HandleCancelStep
<1>3. CASE \E g \in Goals : ExecuteGoal(g)
  BY <1>3, ResetProgressStep, PrepareMotionStep, PrepareThrowsStep, StartMotionStep,
     SetTimeScalingStep, ResetStepsStep, StartRampStep, UpdateCanceledStep, UpdateStateStep,
     ResetStateStep, HoldStep, StepStep, StepRaceStep DEF ExecuteGoal
<1>4. CASE Callback \/ TimeScaling
  BY <1>4, GetCurrentPoseStep, PoseTimeoutStep, ClearTrajectoryStep,
     GenerateTrajectoryStep, CancelGoalStep, TimeScalingStep DEF Callback
<1> QED BY <1>1, <1>2, <1>3, <1>4 DEF Next

\* Whose trajectory and progress the shared members are is kept by every step of the
\* goals' threads and of the callbacks.
THEOREM InvariantHolds == Spec => []MotionInv
BY InitMotion, NextMotion, PTL DEF Spec

\* The variables have their types, and the thread of a goal runs exactly while the goal
\* is open: executeGoal answers its goal and ends.
THEOREM TypeCorrect == Spec => []TypeOK
BY InvariantHolds, PTL DEF MotionInv

\* A goal reported as succeeded was driven to its end by its own thread, unless another
\* request was handled during it: one progress_ and one trajectory serve all goals.
THEOREM DrivenToTheEnd == Spec => []SucceededWasDriven
BY InvariantHolds, PTL DEF MotionInv

-----------------------------------------------------------------------------
(***************************************************************************)
(* The server implements the life of a goal.                               *)
(***************************************************************************)
LEMMA InitMaps == Init => Abstract!Init
BY DEF Init, Abstract!Init

LEMMA ExecutorMaps ==
  ASSUME MotionInv, [Next]_vars, ~\E g \in Goals : ExecuteGoal(g)
  PROVE  [Abstract!Next]_(Abstract!vars)
<1> USE DEF Abstract!vars, Abstract!Next, MotionInv
<1>1. ASSUME NEW g \in Goals, HandleGoal(g) PROVE [Abstract!Next]_(Abstract!vars)
  BY <1>1 DEF HandleGoal, Reject, Abstract!Reject
<1>2. CASE PoseTimeout
  BY <1>2 DEF PoseTimeout, Reject, Abstract!Reject, Served, Serving
<1>3. CASE GenerateTrajectory
  BY <1>3 DEF GenerateTrajectory, Abstract!Accept, Served, Serving
<1>4. CASE CancelGoal
  BY <1>4 DEF CancelGoal, Abstract!Cancel, Served
<1>5. CASE \/ UNCHANGED vars \/ GetCurrentPose \/ ClearTrajectory
           \/ TimeScaling \/ TimeScalingSteps \/ \E g \in Goals : HandleCancel(g)
  BY <1>5 DEF vars, server, GetCurrentPose, ClearTrajectory, TimeScaling,
     TimeScalingSteps, HandleCancel
<1> QED BY <1>1, <1>2, <1>3, <1>4, <1>5 DEF Next, Callback

LEMMA ThreadMaps ==
  ASSUME NEW g \in Goals, MotionInv, ExecuteGoal(g)
  PROVE  [Abstract!Next]_(Abstract!vars)
<1> USE DEF Abstract!vars, Abstract!Next
<1>1. CASE UpdateCanceled(g)
  BY <1>1 DEF UpdateCanceled, Abstract!Answer, Abstract!Answers
<1>2. CASE UpdateState(g)
  <2>1. goal[g] \in {"executing", "canceling"}
    BY <1>2 DEF UpdateState, At, MotionInv, TypeOK, Served
  <2> QED BY <1>2, <2>1 DEF UpdateState, Abstract!Answer, Abstract!Answers
<1>3. CASE PrepareThrows(g)
  BY <1>3 DEF PrepareThrows, At, Abstract!GoDown
<1>4. CASE StepRace(g)
  BY <1>4 DEF StepRace, At, Abstract!GoDown
<1>5. CASE \/ ResetProgress(g) \/ PrepareMotion(g) \/ StartMotion(g)
           \/ StartScaling(g) \/ ForgetSteps(g) \/ StartRamp(g) \/ UpdateScaling(g)
           \/ ClearSteps(g) \/ ResetState(g) \/ Hold(g) \/ Step(g)
  BY <1>5 DEF ResetProgress, PrepareMotion, StartMotion, StartScaling, ForgetSteps,
     StartRamp, UpdateScaling, ClearSteps, SetTimeScaling, ResetSteps, ResetState, Hold,
     Step, server
<1> QED BY <1>1, <1>2, <1>3, <1>4, <1>5 DEF ExecuteGoal

\* The motion generator is a legal action server: it answers a goal once, and reports
\* canceled() only for a goal that is canceling, which rclcpp_action insists on.
THEOREM ImplementsLifecycle == Spec => Abstract!Lifecycle
<1>1. MotionInv /\ [Next]_vars => [Abstract!Next]_(Abstract!vars)
  BY ExecutorMaps, ThreadMaps
<1> QED BY <1>1, InitMaps, InvariantHolds, PTL DEF Spec, Abstract!Lifecycle
=============================================================================
