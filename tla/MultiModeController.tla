------------------------- MODULE MultiModeController -------------------------
(***************************************************************************)
(* The multi-mode controller: the set of active controllets, which a       *)
(* service exchanges while update() computes the torques of all arms with  *)
(* it, and the buffers through which a controllet gets its target and its  *)
(* parameters.                                                             *)
(*                                                                         *)
(* Two threads: "rt", the update thread, which also activates and          *)
(* deactivates; and "svc", the executor, which runs the callbacks of the   *)
(* node one at a time because they share a callback group.                 *)
(***************************************************************************)
EXTENDS Integers, Sequences, FiniteSets

CONSTANTS
  Arms,            \* arms_
  Controllets,     \* the (name, resource) pairs of control_map_
  Resource,        \* the arms of the resource of a controllet
  StartSet,        \* start_controllers, as configured
  Requests,        \* the lists of pairs a client may ask for
  None,
  MaxRequests,     \* bound: set_controllers calls
  MaxMessages,     \* bound: desired_pose messages
  MaxSettings,     \* bound: calls of the parameters services
  MaxActivations   \* bound: activations

ASSUME ControlletsAssumption ==
  Resource \in [Controllets -> (SUBSET Arms) \ {{}}]
ASSUME NoneAssumption == None \notin Controllets

VARIABLES
  state,    \* the lifecycle state
  active,   \* active_control_set_
  session,  \* history: how often a controllet was started
  target,   \* desired_: a target is named by the session it was checked in
  params,   \* p_
  raced,    \* history: targets checked before on_activate, set after it
  tau,      \* tau_ of an arm: which controllet wrote it, in which session
  rt,       \* the update thread
  svc,      \* the executor
  used      \* the bounded things that have happened

controlletVars == <<session, target, params, raced>>
vars == <<state, active, controlletVars, tau, rt, svc, used>>

-----------------------------------------------------------------------------
(***************************************************************************)
(* Buffered<T>: written by the callbacks, taken over by the control loop.  *)
(***************************************************************************)
SetBuffer(b, v) == [content |-> b.content, pending |-> TRUE, buffer |-> v]
Updated(b) ==
  [content |-> IF b.pending THEN b.buffer ELSE b.content,
   pending |-> FALSE, buffer |-> b.buffer]

\* What the control loop will use next.
Effective(b) == Updated(b).content

-----------------------------------------------------------------------------
(***************************************************************************)
(* Which sets of controllets may be active.                                *)
(***************************************************************************)
\* Each arm is used by one member of the list, and by one only.
OnePerArm(set) ==
  \A a \in Arms : \E i \in DOMAIN set :
    /\ a \in Resource[set[i]]
    /\ \A j \in DOMAIN set : a \in Resource[set[j]] => j = i

\* Mutant: no arm may be left out, but it may be used twice.
AtLeastOnePerArm(set) ==
  \A a \in Arms : \E i \in DOMAIN set : a \in Resource[set[i]]

\* setupControlSet: the old controllets that share no arm with a new one are
\* kept.
ControlSet(new) ==
  new \o SelectSeq(active, LAMBDA old :
           \A i \in DOMAIN new : Resource[old] \cap Resource[new[i]] = {})

\* The arms of the controllets of a list.
ArmsOf(set) == UNION {Resource[set[i]] : i \in DOMAIN set}

Loaded(set) == set \in Seq(Controllets)

\* Mutant: two controllets may use an arm.
AcceptableOverlap(new) ==
  /\ Loaded(new)
  /\ Loaded(ControlSet(new))
  /\ AtLeastOnePerArm(ControlSet(new))

\* What is kept is loaded as well.
Acceptable(new) ==
  /\ Loaded(new)
  /\ Loaded(ControlSet(new))
  /\ OnePerArm(ControlSet(new))

ASSUME StartAssumption == Loaded(StartSet) /\ OnePerArm(StartSet)

-----------------------------------------------------------------------------
\* After on_configure: the controllets are initialised and none is started.
Init ==
  /\ state = "inactive"
  /\ active = StartSet
  /\ session = [c \in Controllets |-> 0]
  /\ target = [c \in Controllets |->
                 [content |-> 0, pending |-> FALSE, buffer |-> 0]]
  /\ params = [c \in Controllets |->
                 [content |-> "none", pending |-> TRUE, buffer |-> "default"]]
  /\ raced = {}
  /\ tau = [a \in Arms |-> [by |-> None, session |-> 0]]
  /\ rt = [pc |-> "idle", i |-> 1, list |-> <<>>, torn |-> FALSE,
           written |-> {}]
  /\ svc = [pc |-> "idle", new |-> <<>>, affected |-> {}, c |-> None,
            session |-> 0]
  /\ used = [requests |-> 0, messages |-> 0, settings |-> 0, activations |-> 0]

\* Mutant: a controllet keeps its last target.
StartKeepsTarget(S) ==
  /\ session' = [c \in Controllets |-> IF c \in S THEN session[c] + 1
                                       ELSE session[c]]
  /\ UNCHANGED target
  /\ raced' = raced \ S
  /\ UNCHANGED params

\* start_: the current pose becomes the target.  stop_ changes nothing that is
\* read again, not even the subscription.
Start(S) ==
  /\ session' = [c \in Controllets |-> IF c \in S THEN session[c] + 1
                                       ELSE session[c]]
  /\ target' = [c \in Controllets |->
                  IF c \in S THEN Updated(SetBuffer(target[c], session'[c]))
                  ELSE target[c]]
  /\ raced' = raced \ S
  /\ UNCHANGED params

-----------------------------------------------------------------------------
(***************************************************************************)
(* The update thread: lifecycle.                                           *)
(***************************************************************************)
\* on_activate walks through the active set without control_mtx_.
OnActivate ==
  /\ rt.pc = "idle"
  /\ state = "inactive"
  /\ used.activations < MaxActivations
  /\ used' = [used EXCEPT !.activations = @ + 1]
  /\ rt' = [rt EXCEPT !.pc = "starting", !.i = 1, !.list = active,
                      !.torn = FALSE]
  /\ UNCHANGED <<state, active, controlletVars, tau, svc>>

StartNext ==
  /\ rt.pc = "starting"
  /\ rt.i <= Len(rt.list)
  /\ Start({rt.list[rt.i]})
  /\ rt' = [rt EXCEPT !.i = @ + 1]
  /\ UNCHANGED <<state, active, tau, svc, used>>

\* The vector was replaced under the loop, which goes on in freed memory:
\* the old controllets may still be there, or the process dies.
Crash ==
  /\ rt.pc = "starting"
  /\ rt.torn
  /\ rt' = [rt EXCEPT !.pc = "dead"]
  /\ svc' = [svc EXCEPT !.pc = "dead"]
  /\ UNCHANGED <<state, active, controlletVars, tau, used>>

Activated ==
  /\ rt.pc = "starting"
  /\ rt.i > Len(rt.list)
  /\ rt' = [rt EXCEPT !.pc = "idle", !.i = 1, !.list = <<>>, !.torn = FALSE]
  /\ state' = "active"
  /\ UNCHANGED <<active, controlletVars, tau, svc, used>>

\* on_deactivate stops no controllet.
OnDeactivate ==
  /\ rt.pc = "idle"
  /\ state = "active"
  /\ state' = "inactive"
  /\ UNCHANGED <<active, controlletVars, tau, rt, svc, used>>

-----------------------------------------------------------------------------
(***************************************************************************)
(* The update thread: update().  control_mtx_ is held shared in "compute"; *)
(* svc holds it exclusively in "replace" and "start".                      *)
(***************************************************************************)
Exclusive == svc.pc \in {"replace", "start"}

Update ==
  /\ rt.pc = "idle"
  /\ state = "active"
  /\ rt' = [rt EXCEPT !.pc = "lock"]
  /\ UNCHANGED <<state, active, controlletVars, tau, svc, used>>

LockShared ==
  /\ rt.pc = "lock"
  /\ ~Exclusive
  /\ rt' = [rt EXCEPT !.pc = "compute", !.i = 1, !.written = {}]
  /\ UNCHANGED <<state, active, controlletVars, tau, svc, used>>

\* computeTau of the next controllet of the set.
ComputeTau ==
  /\ rt.pc = "compute"
  /\ rt.i <= Len(active)
  /\ LET c == active[rt.i]
     IN  /\ params' = [params EXCEPT ![c] = Updated(@)]
         /\ target' = [target EXCEPT ![c] = Updated(@)]
         /\ tau' = [a \in Arms |-> IF a \in Resource[c]
                                   THEN [by |-> c, session |-> session[c]]
                                   ELSE tau[a]]
         /\ rt' = [rt EXCEPT !.i = @ + 1,
                             !.written = @ \cup Resource[c]]
  /\ UNCHANGED <<state, active, session, raced, svc, used>>

\* Mutant: the lock is not released.
WriteCommandsLocked ==
  /\ rt.pc = "compute"
  /\ rt.i > Len(active)
  /\ rt' = [rt EXCEPT !.pc = "compute"]
  /\ UNCHANGED <<state, active, controlletVars, tau, svc, used>>

\* tau_ of every arm goes to the command interfaces.
WriteCommands ==
  /\ rt.pc = "compute"
  /\ rt.i > Len(active)
  /\ rt' = [rt EXCEPT !.pc = "idle", !.i = 1, !.written = {}]
  /\ UNCHANGED <<state, active, controlletVars, tau, svc, used>>

-----------------------------------------------------------------------------
(***************************************************************************)
(* The executor: set_controllers.                                          *)
(***************************************************************************)
SetControllers(new) ==
  /\ svc.pc = "idle"
  /\ used.requests < MaxRequests
  /\ used' = [used EXCEPT !.requests = @ + 1]
  /\ \/ /\ Acceptable(new)
        /\ svc' = [svc EXCEPT !.pc = "wait", !.new = ControlSet(new),
                              !.affected = ArmsOf(new)]
     \/ /\ ~Acceptable(new)
        /\ UNCHANGED svc
  /\ UNCHANGED <<state, active, controlletVars, tau, rt>>

\* Mutant: the exchange does not wait for update().
LockExclusiveAtOnce ==
  /\ svc.pc = "wait"
  /\ svc' = [svc EXCEPT !.pc = "replace"]
  /\ UNCHANGED <<state, active, controlletVars, tau, rt, used>>

\* Under the lock every old controllet is stopped, also the ones that stay.
LockExclusive ==
  /\ svc.pc = "wait"
  /\ rt.pc # "compute"
  /\ svc' = [svc EXCEPT !.pc = "replace"]
  /\ UNCHANGED <<state, active, controlletVars, tau, rt, used>>

Replace ==
  /\ svc.pc = "replace"
  /\ active' = svc.new
  /\ svc' = [svc EXCEPT !.pc = "start", !.new = <<>>]
  /\ rt' = [rt EXCEPT !.torn = rt.pc = "starting"]
  /\ UNCHANGED <<state, controlletVars, tau, used>>

StartNew ==
  /\ svc.pc = "start"
  /\ Start({active[i] : i \in DOMAIN active})
  /\ svc' = [svc EXCEPT !.pc = "idle", !.affected = {}]
  /\ UNCHANGED <<state, active, tau, rt, used>>

-----------------------------------------------------------------------------
(***************************************************************************)
(* The executor: the topic and the service of a controllet, there from its *)
(* first start on and never taken away.                                    *)
(***************************************************************************)
\* desiredPoseCallbackImpl compares the target with the last known pose; a
\* target that is refused only sets an error flag nobody reads.
CheckTarget(c) ==
  /\ svc.pc = "idle"
  /\ session[c] > 0
  /\ used.messages < MaxMessages
  /\ used' = [used EXCEPT !.messages = @ + 1]
  /\ svc' = [svc EXCEPT !.pc = "checked", !.c = c, !.session = session[c]]
  /\ UNCHANGED <<state, active, controlletVars, tau, rt>>

SetTarget ==
  /\ svc.pc = "checked"
  /\ target' = [target EXCEPT ![svc.c] = SetBuffer(@, svc.session)]
  /\ raced' = IF svc.session = session[svc.c] THEN raced ELSE raced \cup {svc.c}
  /\ svc' = [svc EXCEPT !.pc = "idle", !.c = None, !.session = 0]
  /\ UNCHANGED <<state, active, session, params, tau, rt, used>>

SetParameters(c) ==
  /\ svc.pc = "idle"
  /\ session[c] > 0
  /\ used.settings < MaxSettings
  /\ used' = [used EXCEPT !.settings = @ + 1]
  /\ params' = [params EXCEPT ![c] = SetBuffer(@, "set")]
  /\ UNCHANGED <<state, active, session, target, raced, tau, rt, svc>>

-----------------------------------------------------------------------------
Next ==
  \/ OnActivate \/ StartNext \/ Crash \/ Activated \/ OnDeactivate
  \/ Update \/ LockShared \/ ComputeTau \/ WriteCommands
  \/ \E new \in Requests : SetControllers(new)
  \/ LockExclusive \/ Replace \/ StartNew
  \/ \E c \in Controllets : CheckTarget(c) \/ SetParameters(c)
  \/ SetTarget

\* Both threads go on with what they have begun.  A lock is not withheld from
\* a thread for ever; nothing forces a request or an update.
Fairness ==
  /\ WF_vars(StartNext \/ Activated)
  /\ SF_vars(LockShared) /\ WF_vars(ComputeTau) /\ WF_vars(WriteCommands)
  /\ SF_vars(LockExclusive) /\ WF_vars(Replace) /\ WF_vars(StartNew)
  /\ WF_vars(SetTarget)

Spec == Init /\ [][Next]_vars /\ Fairness

-----------------------------------------------------------------------------
(***************************************************************************)
(* Properties.                                                             *)
(***************************************************************************)
BufferedOf(T) == [content : T, pending : BOOLEAN, buffer : T]
RtSteps == {"idle", "starting", "lock", "compute", "dead"}
RtType == [pc : RtSteps, i : Nat \ {0}, list : Seq(Controllets), torn : BOOLEAN,
           written : SUBSET Arms]
SvcType == [pc : {"idle", "wait", "replace", "start", "checked", "dead"},
            new : Seq(Controllets), affected : SUBSET Arms,
            c : Controllets \cup {None}, session : Nat]
UsedType == [requests : Nat, messages : Nat, settings : Nat, activations : Nat]

TypeOK ==
  /\ state \in {"inactive", "active"}
  /\ active \in Seq(Controllets)
  /\ session \in [Controllets -> Nat]
  /\ target \in [Controllets -> BufferedOf(Nat)]
  /\ params \in [Controllets -> BufferedOf({"none", "default", "set"})]
  /\ raced \subseteq Controllets
  /\ tau \in [Arms -> [by : Controllets \cup {None}, session : Nat]]
  /\ rt \in RtType
  /\ rt.pc \in {"lock", "compute"} => state = "active"
  /\ svc \in SvcType
  /\ svc.pc = "checked" => svc.c \in Controllets
  /\ used \in UsedType

\* Whatever was requested, in whatever order: an arm always has a controllet,
\* and never two that write its torques in turn.
OneControllet == OnePerArm(active)

\* The torques of one update are of one set, whole and running: every arm gets
\* what its controllet computed in this very update, and none what was left
\* by a controllet that has been stopped since.
TorquesOfOneSet ==
  [][WriteCommands =>
       \A a \in Arms :
         /\ a \in rt.written
         /\ \E i \in DOMAIN active :
              /\ a \in Resource[active[i]]
              /\ tau[a] = [by |-> active[i], session |-> session[active[i]]]]_vars

\* Torques are never computed towards a target that was checked before the
\* controllet was last started: not a leftover, not a message to a stopped
\* controllet.  Except for a message whose check on_activate overtook.
NoStaleTarget ==
  [][ComputeTau =>
       LET c == active[rt.i]
       IN  target'[c].content = session[c] \/ c \in raced]_vars

\* Neither thread starves the other: an accepted request is carried out although
\* updates never pause, and no update is locked out by requests.
ThreadsComplete ==
  /\ svc.pc = "wait" ~> svc.pc \in {"idle", "dead"}
  /\ rt.pc = "lock" ~> rt.pc \in {"idle", "dead"}
=============================================================================
