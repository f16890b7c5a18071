---------------------------- MODULE VerifiedMotion ----------------------------
(***************************************************************************)
(* What the shield promises of the samples an arm is commanded, without    *)
(* the monitor's period, its worker, the buffers or the clocks: they come  *)
(* from one approved plan at a time, each of its two parts in order from   *)
(* its first sample, and from the failsafe part on a verdict to brake,     *)
(* which only another approved plan withdraws.                             *)
(***************************************************************************)
EXTENDS Integers, Sequences

VARIABLES
  epoch,             \* activations so far
  plan,              \* the plan in force: two parts, its activation, its verdict
  intended_index,    \* the sample of each part that is commanded next
  failsafe_index,
  brake,             \* the verdict in force
  command

vars == <<epoch, plan, intended_index, failsafe_index, brake, command>>

Empty(p) == p.intended = <<>>

\* A part that goes on from a sample, one step or none at a time, and ends at rest.
Stops(s, from) ==
  /\ s # <<>> /\ ~s[Len(s)].moving
  /\ \A n \in 1 .. Len(s) :
       s[n].pos - (IF n = 1 THEN from.pos ELSE s[n - 1].pos) \in {0, 1}

\* The monitor found nothing against the plan in this activation, and its brake
\* starts where its intended part ends.
Approved(p) ==
  /\ ~Empty(p)
  /\ p.epoch = epoch /\ ~p.refused
  /\ Stops(p.failsafe, p.intended[Len(p.intended)])

After(n, s) == IF n < Len(s) THEN n + 1 ELSE n

Commanded(kind, s, n) ==
  [kind |-> kind, pos |-> s[n].pos, moving |-> s[n].moving, k |-> n,
   last |-> n = Len(s)]

Idle == command.kind = "start" /\ ~command.moving

Init ==
  /\ epoch = 0 /\ Empty(plan) /\ intended_index = 1 /\ failsafe_index = 1
  /\ ~brake /\ Idle

Activate ==
  /\ epoch' = epoch + 1 /\ Empty(plan') /\ intended_index' = 1 /\ failsafe_index' = 1
  /\ ~brake' /\ Idle'

\* A plan comes into force: with its first sample, or before it.
Begin ==
  /\ Approved(plan')
  /\ command' = Commanded("intended", plan'.intended, 1)
  /\ intended_index' = After(1, plan'.intended) /\ failsafe_index' = 1
  /\ brake' \in BOOLEAN
  /\ UNCHANGED epoch

Adopt ==
  /\ Approved(plan')
  /\ intended_index' = 1 /\ failsafe_index' = 1
  /\ brake' \in BOOLEAN
  /\ UNCHANGED <<epoch, command>>

Refuse ==
  /\ brake' = TRUE
  /\ UNCHANGED <<epoch, plan, intended_index, failsafe_index, command>>

GoOn ==
  /\ ~Empty(plan) /\ ~brake
  /\ command' = Commanded("intended", plan.intended, intended_index)
  /\ intended_index' = After(intended_index, plan.intended)
  /\ UNCHANGED <<epoch, plan, failsafe_index, brake>>

Brake ==
  /\ ~Empty(plan)
  /\ command' = Commanded("failsafe", plan.failsafe, failsafe_index)
  /\ failsafe_index' = After(failsafe_index, plan.failsafe)
  /\ brake' = TRUE
  /\ UNCHANGED <<epoch, plan, intended_index>>

\* Without a plan the arm stays where it is.
Hold ==
  /\ Empty(plan)
  /\ command' = [kind |-> "emergency", pos |-> command.pos, moving |-> FALSE,
                 k |-> 1, last |-> TRUE]
  /\ brake' \in BOOLEAN
  /\ UNCHANGED <<epoch, plan, intended_index, failsafe_index>>

Next == Activate \/ Begin \/ Adopt \/ Refuse \/ GoOn \/ Brake \/ Hold

Spec == Init /\ [][Next]_vars
=============================================================================
