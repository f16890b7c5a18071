---------------------------- MODULE GripperProofs ----------------------------
(***************************************************************************)
(* Theorems about Gripper, for any goals and any bounds.                   *)
(***************************************************************************)
EXTENDS Gripper, TLAPS

-----------------------------------------------------------------------------
(***************************************************************************)
(* The inductive invariant.                                                *)
(***************************************************************************)
\* A goal has its threads only after it was accepted.
Started == \A g \in Goals : goal[g] = "none" => exec[g] = "none" /\ cmd[g] = "none"

\* The execution thread stops the motions, and reports so, only for a goal being canceled.
StopSeen == \A g \in Goals : exec[g] \in {"stop", "get"} => goal[g] = "canceling"

\* The cancellation of a goal is reported after its command has returned.
Still == \A g \in Goals : goal[g] = "canceled" => Returned(g)

\* Whatever can raise the flag, or has, was asked for after every accepted goal but
\* those that came while a goal was canceling.
Pending == (simulated /\ isCanceled) \/ Canceling # {} \/ svc # NoGoal
Requested == Pending => Accepted \subseteq asked \cup late

GripperInv ==
  /\ TypeOK /\ Started /\ StopSeen /\ Still
  /\ asked \subseteq Accepted
  /\ Requested
  /\ CutShortByRequest

-----------------------------------------------------------------------------
LEMMA InitGripper == Init => GripperInv
BY GoalsAssumption DEF Init, GripperInv, TypeOK, Started, StopSeen, Still, Requested,
   Pending, Accepted, Canceling, CutShortByRequest, Answered

\* A step that accepts no goal, and reports and starts nothing of its own, keeps the
\* account of requests if it keeps the flag and what was asked.
LEMMA QuietStep ==
  ASSUME GripperInv, Accepted' = Accepted, Canceling' \subseteq Canceling,
         UNCHANGED <<simulated, isCanceled, svc, asked, late, cut>>
  PROVE  /\ (asked \subseteq Accepted)'
         /\ Requested'
         /\ CutShortByRequest'
BY DEF GripperInv, Requested, Pending, CutShortByRequest

\* The threads of a goal move it on, and accept none.
LEMMA AnswerKeepsAccepted ==
  ASSUME NEW g \in Goals, NEW answer \in Answered, GripperInv, exec[g] # "none",
         Answer(g, answer)
  PROVE  Accepted' = Accepted /\ Canceling' \subseteq Canceling
<1>1. goal' = [goal EXCEPT ![g] = answer] /\ DOMAIN goal = Goals
  BY DEF Answer, GripperInv, TypeOK
<1>2. goal[g] # "none" /\ answer \notin {"none", "canceling"}
  BY DEF GripperInv, Started, Answered
<1> QED BY <1>1, <1>2 DEF Accepted, Canceling

-----------------------------------------------------------------------------
(***************************************************************************)
(* The executor.                                                           *)
(***************************************************************************)
LEMMA HandleGoalStep ==
  ASSUME NEW g \in Goals, GripperInv, HandleGoal(g)
  PROVE  GripperInv'
<1> USE DEF GripperInv
<1>1. TypeOK'
  BY DEF HandleGoal, TypeOK, Answered
<1>2. Started' /\ StopSeen' /\ Still'
  BY DEF HandleGoal, TypeOK, Started, StopSeen, Still, Returned
<1>3. Accepted' = Accepted \cup {g} /\ Canceling' = Canceling
  BY DEF HandleGoal, TypeOK, Accepted, Canceling
<1>4. Requested'
  <2>1. svc' = NoGoal /\ ~(simulated' /\ isCanceled') /\ asked' = asked
    BY DEF HandleGoal, Idle
  <2>2. Canceling # {} => g \in late' /\ late \subseteq late'
    BY DEF HandleGoal
  <2> QED BY <1>3, <2>1, <2>2 DEF Requested, Pending
<1>5. (asked \subseteq Accepted)'
  BY <1>3 DEF HandleGoal
<1>6. CutShortByRequest'
  BY DEF HandleGoal, CutShortByRequest
<1> QED BY <1>1, <1>2, <1>4, <1>5, <1>6

\* A cancel request and a stop request account for every goal accepted so far.
LEMMA HandleCancelStep ==
  ASSUME NEW g \in Goals, GripperInv, HandleCancel(g)
  PROVE  GripperInv'
<1> USE DEF GripperInv
<1>1. TypeOK'
  BY DEF HandleCancel, TypeOK, Accepted, Answered
<1>2. Started' /\ StopSeen' /\ Still'
  BY DEF HandleCancel, Started, StopSeen, Still, Returned
<1>3. Accepted' = Accepted /\ asked' = Accepted /\ UNCHANGED <<late, cut>>
  BY DEF HandleCancel, Accepted
<1> QED BY <1>1, <1>2, <1>3 DEF Requested, CutShortByRequest

LEMMA CancelGoalStep ==
  ASSUME GripperInv, CancelGoal
  PROVE  GripperInv'
<1> USE DEF GripperInv
<1>1. TypeOK'
  BY DEF CancelGoal, TypeOK, Answered, history
<1>2. Started' /\ StopSeen' /\ Still'
  BY DEF CancelGoal, TypeOK, Started, StopSeen, Still, Returned
<1>3. Accepted' = Accepted
  BY DEF CancelGoal, TypeOK, Accepted
<1> QED BY <1>1, <1>2, <1>3 DEF CancelGoal, history, Requested, Pending,
                                CutShortByRequest

LEMMA StopServiceStep ==
  ASSUME GripperInv, StopService
  PROVE  GripperInv'
<1> USE DEF GripperInv
<1>1. isCanceled' \in BOOLEAN /\ halted' \subseteq Goals
  BY DEF StopService, StopMotions, LoseConnection, TypeOK, Running
<1>2. used' \in [stops : Nat, failures : Nat]
  <2>1. used \in [stops : Nat, failures : Nat]
    BY DEF TypeOK
  <2>2. CASE used' = [used EXCEPT !.stops = @ + 1]
    BY <2>1, <2>2
  <2>3. CASE used' = [used EXCEPT !.stops = @ + 1, !.failures = @ + 1]
    <3> DEFINE stopped == [used EXCEPT !.stops = @ + 1]
    <3>1. stopped \in [stops : Nat, failures : Nat]
      BY <2>1
    <3>2. used' = [stopped EXCEPT !.failures = @ + 1]
      BY <2>1, <2>3
    <3> HIDE DEF stopped
    <3> QED BY <3>1, <3>2
  <2> QED BY <2>2, <2>3 DEF StopService
<1>3. TypeOK'
  BY <1>1, <1>2 DEF StopService, TypeOK, Accepted, Answered
<1>4. Started' /\ StopSeen' /\ Still'
  BY DEF StopService, Started, StopSeen, Still, Returned
<1>5. Accepted' = Accepted /\ asked' = Accepted /\ UNCHANGED <<late, cut>>
  BY DEF StopService, Accepted
<1> QED BY <1>3, <1>4, <1>5 DEF Requested, CutShortByRequest

LEMMA ShutdownStep ==
  ASSUME GripperInv, Shutdown
  PROVE  GripperInv'
BY DEF GripperInv, Shutdown, TypeOK, Answered, history, Started, StopSeen, Still,
       Returned, Accepted, Canceling, Requested, Pending, CutShortByRequest

-----------------------------------------------------------------------------
(***************************************************************************)
(* The command thread.                                                     *)
(***************************************************************************)
LEMMA CommandStep ==
  ASSUME NEW g \in Goals, GripperInv, Command(g)
  PROVE  GripperInv'
<1> USE DEF GripperInv
<1>1. cmd[g] = "running" /\ goal' = goal /\ exec' = exec /\ asked' = asked
      /\ late' = late /\ UNCHANGED <<simulated, isCanceled, svc>>
  BY DEF Command, SimStep, SimReturn, RealReturn, history
<1>2. cmd' = cmd \/ cmd' = [cmd EXCEPT ![g] = "true"]
      \/ cmd' = [cmd EXCEPT ![g] = "false"]
  BY DEF Command, SimStep, SimReturn, RealReturn
<1>3. g \in Accepted
  BY <1>1 DEF Started, Accepted
<1>4. TypeOK'
  <2>1. left' \in [Goals -> 0..Ticks]
    BY GoalsAssumption DEF Command, SimStep, SimReturn, RealReturn, TypeOK
  <2>2. cmd' \in [Goals -> {"none", "running", "true", "false"}]
    BY <1>2 DEF TypeOK
  <2>3. cut' \subseteq Goals /\ UNCHANGED <<node, halted, used>>
    BY DEF Command, SimStep, SimReturn, RealReturn, history, TypeOK
  <2> QED BY <1>1, <2>1, <2>2, <2>3 DEF TypeOK, Answered
<1>5. Started' /\ StopSeen' /\ Still'
  BY <1>1, <1>2, <1>3 DEF TypeOK, Started, StopSeen, Still, Returned, Accepted
<1>6. Accepted' = Accepted /\ Canceling' = Canceling
  BY <1>1 DEF Accepted, Canceling
<1>7. CutShortByRequest'
  <2>1. cut' = cut \/ (simulated /\ isCanceled /\ cut' = cut \cup {g})
    BY DEF Command, SimStep, SimReturn, RealReturn, history, TypeOK
  <2> QED BY <1>1, <1>3, <2>1 DEF Requested, Pending, CutShortByRequest
<1> QED BY <1>1, <1>4, <1>5, <1>6, <1>7 DEF Requested, Pending

-----------------------------------------------------------------------------
(***************************************************************************)
(* The execution thread.                                                   *)
(***************************************************************************)
\* Steps that wait, look and begin: the goal keeps its state.
LEMMA WaitStep ==
  ASSUME NEW g \in Goals, GripperInv,
         Begin(g) \/ ResultNotReady(g) \/ ResultIsReady(g) \/ CheckCanceling(g)
  PROVE  GripperInv'
<1> USE DEF GripperInv
<1>1. goal' = goal /\ UNCHANGED <<simulated, isCanceled, svc, asked, late, cut>>
  BY DEF Begin, ResultNotReady, ResultIsReady, CheckCanceling, history
<1>2. TypeOK'
  <2>1. CASE Begin(g)
    <3>1. left' \in [Goals -> 0..Ticks]
      BY <2>1, GoalsAssumption DEF Begin, TypeOK
    <3> QED BY <2>1, <3>1 DEF Begin, TypeOK, Answered, history
  <2>2. CASE ResultNotReady(g) \/ ResultIsReady(g) \/ CheckCanceling(g)
    BY <2>2 DEF ResultNotReady, ResultIsReady, CheckCanceling, TypeOK, Answered,
                history
  <2> QED BY <2>1, <2>2
<1>3. Started' /\ StopSeen' /\ Still'
  BY DEF Begin, ResultNotReady, ResultIsReady, CheckCanceling, TypeOK, Answered,
         Started, StopSeen, Still, Returned
<1>4. Accepted' = Accepted /\ Canceling' = Canceling
  BY <1>1 DEF Accepted, Canceling
<1> QED BY <1>1, <1>2, <1>3, <1>4, QuietStep

\* The flag is raised for a goal that is canceling.
LEMMA StopGoalStep ==
  ASSUME NEW g \in Goals, GripperInv, StopGoal(g)
  PROVE  GripperInv'
<1> USE DEF GripperInv
<1>1. isCanceled' \in BOOLEAN /\ halted' \subseteq Goals
  BY DEF StopGoal, StopMotions, LoseConnection, TypeOK, Running
<1>2. used' \in [stops : Nat, failures : Nat]
  BY DEF StopGoal, LoseConnection, TypeOK
<1>3. exec' = [exec EXCEPT ![g] = "get"] \/ exec' = exec
  BY DEF StopGoal
<1>4. goal[g] = "canceling" /\ goal' = goal /\ cmd' = cmd
  BY DEF StopGoal, StopSeen
<1>5. TypeOK'
  <2>1. exec' \in [Goals -> {"none", "start", "wait", "check", "stop", "get", "leave",
                             "done"}]
    BY <1>3 DEF TypeOK
  <2>2. \A h \in Goals : goal'[h] \in Answered => exec'[h] = "done"
    BY <1>3, <1>4 DEF TypeOK, Answered
  <2> QED BY <1>1, <1>2, <1>4, <2>1, <2>2 DEF StopGoal, TypeOK
<1>6. Started' /\ StopSeen' /\ Still'
  BY <1>3, <1>4 DEF TypeOK, Started, StopSeen, Still, Returned
<1>7. Accepted' = Accepted /\ g \in Canceling
  BY <1>4 DEF Accepted, Canceling
<1>8. UNCHANGED <<asked, late, cut>>
  BY DEF StopGoal
<1> QED BY <1>5, <1>6, <1>7, <1>8 DEF Requested, Pending, CutShortByRequest

LEMMA AnswerStep ==
  ASSUME NEW g \in Goals, GripperInv, AnswerAtOnce(g) \/ GetCanceled(g) \/ Leave(g)
  PROVE  GripperInv'
<1> USE DEF GripperInv
<1>1. exec' = [exec EXCEPT ![g] = "done"] /\ exec[g] \in {"start", "get", "leave"}
  BY DEF AnswerAtOnce, GetCanceled, Leave, Answer
<1>2. UNCHANGED <<simulated, cmd, left, isCanceled, halted, svc, cut, asked, late,
                  used, node>>
  BY DEF AnswerAtOnce, GetCanceled, Leave, history
<1>3. \/ goal' = goal
      \/ \E answer \in Answered : Answer(g, answer)
                                  /\ (answer = "canceled" => Returned(g))
  BY DEF AnswerAtOnce, GetCanceled, Leave, Answered
<1>4. Accepted' = Accepted /\ Canceling' \subseteq Canceling
  BY <1>1, <1>3, AnswerKeepsAccepted DEF Accepted, Canceling
<1>5. TypeOK'
  BY <1>1, <1>2, <1>3 DEF Answer, TypeOK, Answered
<1>6. Started' /\ StopSeen' /\ Still'
  BY <1>1, <1>2, <1>3 DEF Answer, TypeOK, Answered, Started, StopSeen, Still, Returned
<1> QED BY <1>2, <1>4, <1>5, <1>6, QuietStep

-----------------------------------------------------------------------------
LEMMA GripperStep == GripperInv /\ [Next]_vars => GripperInv'
<1> SUFFICES ASSUME GripperInv, [Next]_vars PROVE GripperInv'
  OBVIOUS
<1>1. CASE UNCHANGED vars
  BY <1>1 DEF GripperInv, vars, history, TypeOK, Answered, Started, StopSeen, Still,
              Returned, Accepted, Canceling, Requested, Pending, CutShortByRequest
<1>2. CASE CancelGoal \/ StopService \/ Shutdown
  BY <1>2, CancelGoalStep, StopServiceStep, ShutdownStep
<1>3. ASSUME NEW g \in Goals,
             \/ HandleGoal(g) \/ HandleCancel(g)
             \/ AnswerAtOnce(g) \/ ResultNotReady(g)
             \/ Execution(g) \/ Command(g)
      PROVE  GripperInv'
  BY <1>3, HandleGoalStep, HandleCancelStep, CommandStep, WaitStep, StopGoalStep,
     AnswerStep DEF Execution
<1> QED BY <1>1, <1>2, <1>3 DEF Next

LEMMA InvariantGripper == Spec => []GripperInv
<1> QED BY InitGripper, GripperStep, PTL DEF Spec

\* The types of the gripper server, and that an answered goal's execution has ended.
THEOREM TypeCorrect == Spec => []TypeOK
<1>1. GripperInv => TypeOK
  BY DEF GripperInv
<1> QED BY <1>1, InvariantGripper, PTL

\* Though all goals share is_canceled_, which no one clears but a new goal, a motion
\* of the simulated gripper is cut short only on a request made after its goal.
THEOREM CutShortSafe == Spec => []CutShortByRequest
<1>1. GripperInv => CutShortByRequest
  BY DEF GripperInv
<1> QED BY <1>1, InvariantGripper, PTL

\* A goal reported canceled has a command that returned: the gripper does not move
\* for it any more.
THEOREM StillSafe == Spec => []CanceledIsStill
<1>1. GripperInv => CanceledIsStill
  BY DEF GripperInv, Still, CanceledIsStill, Returned
<1> QED BY <1>1, InvariantGripper, PTL

-----------------------------------------------------------------------------
(***************************************************************************)
(* The servers implement the life of a goal.                               *)
(***************************************************************************)
LEMMA InitMaps == Init => Abstract!Init
BY DEF Init, Abstract!Init

\* While a goal has an execution thread, it is open.
LEMMA ThreadIsOpen ==
  ASSUME NEW g \in Goals, GripperInv, exec[g] \notin {"none", "done"}
  PROVE  goal[g] \in {"executing", "canceling"}
BY DEF GripperInv, TypeOK, Started, Answered

LEMMA ExecutorMaps ==
  ASSUME GripperInv,
         \/ UNCHANGED vars \/ CancelGoal \/ StopService \/ Shutdown
         \/ \E g \in Goals : HandleGoal(g) \/ HandleCancel(g)
  PROVE  [Abstract!Next]_(Abstract!vars)
<1> USE DEF Abstract!vars, Abstract!Next
<1>1. CASE \E g \in Goals : HandleGoal(g)
  BY <1>1 DEF HandleGoal, Abstract!Accept
<1>2. CASE CancelGoal
  BY <1>2 DEF CancelGoal, Abstract!Cancel, GripperInv, TypeOK
<1>3. CASE Shutdown
  BY <1>3 DEF Shutdown, Idle, Abstract!GoDown
<1>4. CASE UNCHANGED vars \/ StopService \/ \E g \in Goals : HandleCancel(g)
  BY <1>4 DEF vars, StopService, HandleCancel
<1> QED BY <1>1, <1>2, <1>3, <1>4

LEMMA ThreadMaps ==
  ASSUME NEW g \in Goals, GripperInv,
         AnswerAtOnce(g) \/ ResultNotReady(g) \/ Execution(g) \/ Command(g)
  PROVE  [Abstract!Next]_(Abstract!vars)
<1> USE DEF Abstract!vars, Abstract!Next
<1>1. CASE AnswerAtOnce(g) \/ Leave(g)
  <2>1. goal[g] \in {"executing", "canceling"} /\ node' = node
    BY <1>1, ThreadIsOpen DEF AnswerAtOnce, Leave
  <2>2. \/ goal' = goal
        \/ goal' = [goal EXCEPT ![g] = "aborted"] \/ goal' = [goal EXCEPT ![g] = "succeeded"]
    BY <1>1 DEF AnswerAtOnce, Leave, Answer
  <2> QED BY <2>1, <2>2 DEF Abstract!Answer, Abstract!Answers
<1>2. CASE GetCanceled(g)
  <2>1. goal[g] = "canceling" /\ node' = node /\ goal' = [goal EXCEPT ![g] = "canceled"]
    BY <1>2 DEF GetCanceled, Answer, GripperInv, StopSeen
  <2> QED BY <2>1 DEF Abstract!Answer, Abstract!Answers
<1>3. CASE StopGoal(g)
  BY <1>3 DEF StopGoal, Alive, Abstract!GoDown
<1>4. CASE \/ Begin(g) \/ ResultIsReady(g) \/ ResultNotReady(g) \/ CheckCanceling(g)
           \/ Command(g)
  BY <1>4 DEF Begin, ResultIsReady, ResultNotReady, CheckCanceling, Command, SimStep,
     SimReturn, RealReturn
<1> QED BY <1>1, <1>2, <1>3, <1>4 DEF Execution

\* Both servers are legal action servers: a goal is answered once, and canceled() is
\* called only for a goal that is canceling, which rclcpp_action insists on.
THEOREM ImplementsLifecycle == Spec => Abstract!Lifecycle
<1>1. GripperInv /\ [Next]_vars => [Abstract!Next]_(Abstract!vars)
  BY ExecutorMaps, ThreadMaps DEF Next
<1> QED BY <1>1, InitMaps, InvariantGripper, PTL DEF Spec, Abstract!Lifecycle
=============================================================================
