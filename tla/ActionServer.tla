---------------------------- MODULE ActionServer ----------------------------
(***************************************************************************)
(* What a client of an action server is promised, whatever the server does *)
(* inside: the life of a goal as rclcpp_action defines it.  The gripper    *)
(* servers and the motion generators are shown to implement it.            *)
(*                                                                         *)
(* A goal is answered at most once.  canceled() is legal only for a goal   *)
(* that is canceling: rclcpp_action throws otherwise, in a detached thread *)
(* that nothing guards.                                                    *)
(***************************************************************************)
CONSTANT Goals

VARIABLES
  goal,  \* the state of each goal
  up     \* the node answers; it may be shut down, or die

vars == <<goal, up>>

Answers == {"succeeded", "aborted", "canceled"}

Init ==
  /\ goal = [g \in Goals |-> "none"]
  /\ up = TRUE

Accept(g) ==
  /\ goal[g] = "none"
  /\ goal' = [goal EXCEPT ![g] = "executing"]
  /\ UNCHANGED up

Reject(g) ==
  /\ goal[g] = "none"
  /\ goal' = [goal EXCEPT ![g] = "rejected"]
  /\ UNCHANGED up

Cancel(g) ==
  /\ goal[g] = "executing"
  /\ goal' = [goal EXCEPT ![g] = "canceling"]
  /\ UNCHANGED up

Answer(g) ==
  /\ \/ /\ goal[g] = "executing"
        /\ \E a \in Answers \ {"canceled"} : goal' = [goal EXCEPT ![g] = a]
     \/ /\ goal[g] = "canceling"
        /\ \E a \in Answers : goal' = [goal EXCEPT ![g] = a]
  /\ UNCHANGED up

GoDown ==
  /\ up
  /\ up' = FALSE
  /\ UNCHANGED goal

Next ==
  \/ GoDown
  \/ \E g \in Goals : Accept(g) \/ Reject(g) \/ Cancel(g) \/ Answer(g)

Lifecycle == Init /\ [][Next]_vars

\* A cancelled goal is answered while the node is up.
AnswerCanceled(g) == up /\ goal[g] = "canceling" /\ Answer(g)

Server == Lifecycle /\ \A g \in Goals : WF_vars(AnswerCanceled(g))

\* Every accepted goal is.
AnswerAccepted(g) == up /\ Answer(g)

PromptServer == Lifecycle /\ \A g \in Goals : WF_vars(AnswerAccepted(g))
=============================================================================
