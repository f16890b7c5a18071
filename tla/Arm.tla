--------------------------------- MODULE Arm ---------------------------------
(***************************************************************************)
(* What the hardware interface counts on from one arm, without threads,    *)
(* locks or flags: it runs the loop that was asked for last until it is    *)
(* asked for another one or an error ends it, and it leaves an error only  *)
(* by a recovery.  Which loop a recovery leaves behind, or none, is not    *)
(* promised: the next request asks for one.  A mode switch, an activation  *)
(* and a deactivation are single steps.                                    *)
(***************************************************************************)
CONSTANTS
  Loops,     \* the loops an arm can run
  Stopped    \* no loop

VARIABLES
  asked,     \* the loop asked for last, Stopped while the arm is inactive
  loop,      \* the loop that runs
  error      \* the arm is in error, or a recovery has not answered yet

vars == <<asked, loop, error>>

Init ==
  /\ asked = Stopped /\ loop = Stopped
  /\ error \in BOOLEAN

Ask(m) ==
  /\ asked' = m /\ loop' = m
  /\ UNCHANGED error

Fail ==
  /\ ~error /\ error' = TRUE
  /\ loop' \in {loop, Stopped}
  /\ UNCHANGED asked

GiveUp ==
  /\ error
  /\ loop' = Stopped
  /\ UNCHANGED <<asked, error>>

Recover ==
  /\ error /\ loop = Stopped
  /\ error' = FALSE
  /\ loop' \in Loops \cup {Stopped}
  /\ UNCHANGED asked

Next == (\E m \in Loops \cup {Stopped} : Ask(m)) \/ Fail \/ GiveUp \/ Recover

Spec == Init /\ [][Next]_vars
=============================================================================
