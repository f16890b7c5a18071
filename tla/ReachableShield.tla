--------------------------- MODULE ReachableShield ---------------------------
(***************************************************************************)
(* The reachability shield of ReachableCartesianImpedanceController: the   *)
(* 1 kHz update, the plans it executes, the safety monitor that accepts or *)
(* refuses them, and the worker thread that runs the monitor when          *)
(* async_safety_monitor_ is set.                                           *)
(*                                                                         *)
(* The via-point path is straight and a position is the path time 0 ..     *)
(* PathEnd at which the path passes there, in samples.  The verdict of the *)
(* reachability analysis is any Boolean.                                   *)
(***************************************************************************)
EXTENDS Integers, Sequences, FiniteSets

CONSTANTS
  Steps,          \* shield_intended_steps_ and monitor_decimation_
  Horizon,        \* local_replan_horizon_steps_: length of a fallback buffer
  Lookahead,      \* local_path_lookahead_sec_, in samples
  BrakeSteps,     \* samples a brake from a moving sample takes
  PathEnd,        \* duration of cartesian_via_point_path_, in samples
  MaxActivations, \* bound: activations of the controller
  MaxSequence     \* bound: inputs published, one fewer in each activation

ASSUME StepsAssumption      == Steps \in Nat \ {0}
ASSUME HorizonAssumption    == Horizon \in Nat \ {0}
\* As configured, 500 samples against 50: a fallback that is shorter than the
\* horizon has reached the end of the path.
ASSUME LookaheadAssumption  == Lookahead \in Nat /\ Lookahead >= Horizon
ASSUME BrakeStepsAssumption == BrakeSteps \in Nat \ {0}
ASSUME PathEndAssumption    == PathEnd \in Nat

VARIABLES
  param,     \* async_safety_monitor_, enable_safety_monitor_, "there is a path"
  pc,        \* where the controller manager's thread is
  epoch,     \* history: activations so far
  plan,      \* last_verified_plan_
  buffer,    \* the part of intended_buffer_ from intended_buffer_index_ on
  cmd,       \* last_commanded_sample_, with its place in its plan
  dec,       \* last_shield_decision_, last_shield_decision_valid_
  mode,      \* mode_
  clock,     \* nominal_guess_time: time spent in nominal mode
  pathTime,  \* commanded_path_time_
  counter,   \* monitor_counter_: 0, then its value modulo Steps in 1 .. Steps
  due,       \* updates since last_async_input_publish_wall_time_
  sequence,  \* async_input_sequence_
  consumed,  \* last_consumed_async_output_sequence_
  fresh,     \* the consumed output is not older than async_plan_max_age_sec_
  running,   \* safety_monitor_worker_running_
  pending,   \* async_input_pending_
  input,     \* latest_async_input_
  output,    \* latest_async_output_
  worker     \* the worker: where it is, its buffer, its input, its answer

rtVars     == <<plan, buffer, cmd, dec, mode, clock, pathTime, counter>>
asyncVars  == <<due, sequence, consumed, fresh>>
sharedVars == <<running, pending, input, output>>
vars == <<param, pc, epoch, rtVars, asyncVars, sharedVars, worker>>

Smaller(a, b) == IF a < b THEN a ELSE b
Larger(a, b)  == IF a > b THEN a ELSE b
Positions     == 0 .. PathEnd

-----------------------------------------------------------------------------
(***************************************************************************)
(* Samples, plans and the planner.                                         *)
(***************************************************************************)
Sample == [pos : Positions, moving : BOOLEAN]

NoPlan == [intended |-> <<>>, failsafe |-> <<>>, ie |-> 1, fe |-> 1,
           epoch |-> 0, refused |-> FALSE]
Valid(p) == p.intended # <<>>

\* The path time from which a replan starts: the point of the window
\* nearest to the planning start.
NearestPathTime(minimum, from) ==
  LET lower == Smaller(minimum, PathEnd)
  IN  Smaller(Larger(lower, from), Smaller(lower + Lookahead, PathEnd))

\* n samples from path time start on: the planner ramps the rate up and
\* keeps it to the end of the path, here after a wait of any length.
Retimings(start, n) ==
  {[i \in 1 .. n |-> Smaller(start + Larger(i - wait, 0), PathEnd)] :
     wait \in 0 .. n}

\* The velocity of a sample is the difference to the sample before it.
Samples(t, from) ==
  [i \in DOMAIN t |->
     [pos |-> t[i], moving |-> t[i] # (IF i = 1 THEN from ELSE t[i - 1])]]

\* A buffer has n samples, or fewer that come to rest where the path ends.
Buffers(start, n) ==
  Retimings(start, n)
    \cup UNION {{t \in Retimings(start, i) :
                   /\ t[i] = PathEnd
                   /\ t[i] = (IF i = 1 THEN start ELSE t[i - 1])} :
                  i \in 1 .. n - 1}

\* What the planner may put into an intended buffer: a retiming of the path,
\* or the fallback's longer one; nothing without a path.
Replans(minimum, from) ==
  IF ~param.path THEN {<<>>}
  ELSE LET start == NearestPathTime(minimum, from)
       IN  {Samples(t, from) :
              t \in Buffers(start, Steps) \cup Buffers(start, Horizon)}

\* The brake continues along the path from the last intended sample.
Brake(s) ==
  IF ~s.moving THEN <<[pos |-> s.pos, moving |-> FALSE]>>
  ELSE [i \in 1 .. BrakeSteps |-> [pos    |-> Smaller(s.pos + i, PathEnd),
                                   moving |-> i # BrakeSteps]]

\* The next Steps samples of a buffer, and what is left of it after them.
Segment(b)   == SubSeq(b, 1, Smaller(Steps, Len(b)))
Remainder(b) == SubSeq(b, Smaller(Steps, Len(b)) + 1, Len(b))

\* Mutant: the brake is planned from the first sample of the prefix.
CandidateBrakeFirst(segment, trigger, e) ==
  [intended |-> segment, failsafe |-> Brake(segment[1]),
   ie |-> 1, fe |-> 1, epoch |-> e, refused |-> param.enabled /\ trigger]

\* A candidate carries its activation and its verdict as history.
Candidate(segment, trigger, e) ==
  [intended |-> segment, failsafe |-> Brake(segment[Len(segment)]),
   ie |-> 1, fe |-> 1, epoch |-> e, refused |-> param.enabled /\ trigger]

\* A buffer that still holds samples is verified again, an exhausted one
\* replanned.
Refilled(b, minimum, from) ==
  IF b # <<>> THEN {b} ELSE Replans(minimum, from)

\* predicted_trigger: verifyReachablePlan rolls out the prefix and then its
\* brake against bounds on energy; any verdict is possible.
Verdicts == BOOLEAN

Accepted(trigger) == ~param.enabled \/ ~trigger

-----------------------------------------------------------------------------
(***************************************************************************)
(* Commands from the cached plan.  The last sample is repeated.            *)
(***************************************************************************)
IntendedCommand(p) ==
  [kind |-> "intended", pos |-> p.intended[p.ie].pos,
   moving |-> p.intended[p.ie].moving,
   k |-> p.ie, last |-> p.ie = Len(p.intended)]
AfterIntended(p) ==
  [p EXCEPT !.ie = Smaller(@ + 1, Len(p.intended))]

FailsafeCommand(p) ==
  [kind |-> "failsafe", pos |-> p.failsafe[p.fe].pos,
   moving |-> p.failsafe[p.fe].moving,
   k |-> p.fe, last |-> p.fe = Len(p.failsafe)]
AfterFailsafe(p) ==
  [p EXCEPT !.fe = Smaller(@ + 1, Len(p.failsafe))]

\* The measured pose; without a plan the arm is still where it started.
EmergencyCommand ==
  [kind |-> "emergency", pos |-> cmd.pos, moving |-> FALSE, k |-> 1,
   last |-> TRUE]

\* The command of an update that has the plan p and brakes or goes on.
Execute(p, braking) ==
  /\ cmd'  = IF ~Valid(p) THEN EmergencyCommand
             ELSE IF braking THEN FailsafeCommand(p) ELSE IntendedCommand(p)
  /\ plan' = IF ~Valid(p) THEN p
             ELSE IF braking THEN AfterFailsafe(p) ELSE AfterIntended(p)
  /\ mode' = IF braking THEN "failsafe" ELSE "nominal"
  /\ clock' = IF braking THEN clock ELSE Smaller(clock + 1, PathEnd)

\* The path time after a plan was accepted.
AnchoredPathTime(p) == Larger(pathTime, p.intended[Len(p.intended)].pos)

ComputeShieldDecision ==
  \E b \in Refilled(buffer, Larger(clock, pathTime), cmd.pos),
     trigger \in Verdicts :
    IF b = <<>>
    THEN /\ ~trigger
         /\ buffer' = <<>>
         /\ dec' = [valid |-> TRUE, failsafe |-> TRUE, trigger |-> FALSE]
         /\ UNCHANGED pathTime
         /\ Execute(plan, TRUE)
    ELSE LET candidate == Candidate(Segment(b), trigger, epoch)
         IN  IF Accepted(trigger)
             THEN /\ buffer' = Remainder(b)
                  /\ pathTime' = AnchoredPathTime(candidate)
                  /\ dec' = [valid |-> TRUE, failsafe |-> FALSE,
                             trigger |-> trigger]
                  /\ Execute(candidate, FALSE)
             ELSE /\ buffer' = b
                  /\ UNCHANGED pathTime
                  /\ dec' = [valid |-> TRUE, failsafe |-> TRUE,
                             trigger |-> trigger]
                  /\ Execute(plan, TRUE)

-----------------------------------------------------------------------------
(***************************************************************************)
(* Activation.                                                             *)
(***************************************************************************)
NoInput  == [seq |-> 0, epoch |-> 0, clock |-> 0, pos |-> 0]
NoOutput == [seq |-> 0, failsafe |-> FALSE, trigger |-> FALSE,
             accepted |-> FALSE, plan |-> NoPlan]
NoWorker == [pc |-> "off", rest |-> <<>>, input |-> NoInput,
             answer |-> NoOutput]
StartCommand == [kind |-> "start", pos |-> 0, moving |-> FALSE, k |-> 1,
                 last |-> TRUE]
NoDecision == [valid |-> FALSE, failsafe |-> FALSE, trigger |-> FALSE]

Init ==
  /\ param \in [async : BOOLEAN, enabled : BOOLEAN, path : BOOLEAN]
  /\ pc = "inactive"
  /\ epoch = 0
  /\ plan = NoPlan /\ buffer = <<>>
  /\ cmd = StartCommand /\ dec = NoDecision
  /\ mode = "nominal" /\ clock = 0 /\ pathTime = 0 /\ counter = 0
  /\ due = Steps /\ sequence = 0 /\ consumed = 0 /\ fresh = FALSE
  /\ running = FALSE /\ pending = FALSE
  /\ input = NoInput /\ output = NoOutput
  /\ worker = NoWorker

\* Mutant: the last output of the previous activation is left.
StartWorkerKeepOutput ==
  /\ running' = param.async
  /\ pending' = FALSE
  /\ input'   = NoInput
  /\ UNCHANGED output
  /\ consumed' = 0
  /\ fresh' = FALSE
  /\ due' = Steps
  /\ worker' = IF param.async THEN [NoWorker EXCEPT !.pc = "check"]
               ELSE worker

\* startSafetyMonitorWorker, at the end of on_activate.
StartWorker ==
  /\ running' = param.async
  /\ pending' = FALSE
  /\ input'   = NoInput
  /\ output'  = NoOutput
  /\ consumed' = 0
  /\ fresh' = FALSE
  /\ due' = Steps
  /\ worker' = IF param.async THEN [NoWorker EXCEPT !.pc = "check"]
               ELSE worker

\* Of the last decision only the flag is reset; the rest is not read before
\* it is set again.
Activate ==
  /\ pc = "inactive"
  /\ epoch < MaxActivations
  /\ pc' = "idle"
  /\ epoch' = epoch + 1
  /\ plan' = NoPlan /\ buffer' = <<>>
  /\ cmd' = StartCommand /\ dec' = NoDecision
  /\ mode' = "nominal" /\ clock' = 0 /\ pathTime' = 0 /\ counter' = 0
  /\ sequence' = 0
  /\ StartWorker
  /\ UNCHANGED param

\* stopSafetyMonitorWorker, step by step: the flag, the notification, the
\* join.
Deactivate ==
  /\ pc = "idle"
  /\ running' = FALSE
  /\ pc' = IF running THEN "notify" ELSE "inactive"
  /\ UNCHANGED <<param, epoch, rtVars, asyncVars, pending, input, output,
                 worker>>

\* Mutant: nobody is notified.
WokenNever(w) == w

\* notify_one, notify_all: there is one waiter.
Woken(w) == IF w.pc = "asleep" THEN [w EXCEPT !.pc = "check"] ELSE w

NotifyStop ==
  /\ pc = "notify"
  /\ pc' = "join"
  /\ worker' = Woken(worker)
  /\ UNCHANGED <<param, epoch, rtVars, asyncVars, sharedVars>>

Join ==
  /\ pc = "join"
  /\ worker.pc = "off"
  /\ pc' = "inactive"
  /\ UNCHANGED <<param, epoch, rtVars, asyncVars, sharedVars, worker>>

-----------------------------------------------------------------------------
(***************************************************************************)
(* update() without the worker.                                            *)
(***************************************************************************)
\* Mutant: the monitor runs before the end of the prefix.
MonitorDueEarly == ~dec.valid \/ counter \in {0, Steps - 1}

MonitorDue == ~dec.valid \/ counter \in {0, Steps}

CountUpdate ==
  counter' = IF ~dec.valid THEN counter
             ELSE IF counter = Steps THEN 1 ELSE counter + 1

\* Mutant: the cached branch goes on with the intended samples.
RepeatDecisionNominal ==
  /\ ~MonitorDue
  /\ Execute(plan, FALSE)
  /\ dec' = [dec EXCEPT !.failsafe = FALSE]
  /\ UNCHANGED <<buffer, pathTime>>

\* Between two runs of the monitor the last decision stays in force.
RepeatDecision ==
  /\ ~MonitorDue
  /\ LET braking == mode = "failsafe" \/ dec.failsafe
     IN  /\ Execute(plan, braking)
         /\ dec' = [dec EXCEPT !.failsafe = braking]
  /\ UNCHANGED <<buffer, pathTime>>

UpdateSync ==
  /\ pc = "idle"
  /\ ~param.async
  /\ CountUpdate
  /\ \/ MonitorDue /\ ComputeShieldDecision
     \/ RepeatDecision
  /\ UNCHANGED <<param, pc, epoch, asyncVars, sharedVars, worker>>

-----------------------------------------------------------------------------
(***************************************************************************)
(* update() with the worker: it publishes an input, takes an output and    *)
(* commands.  Both mutexes are only tried: they are busy while the worker  *)
(* is in its short critical sections, "check" and "doze" for the input,    *)
(* "store" for the output.                                                 *)
(***************************************************************************)
Publish ==
  /\ pc = "idle"
  /\ param.async
  /\ pc' = "take"
  /\ \/ /\ due < Steps
        /\ due' = due + 1
        /\ UNCHANGED <<sequence, pending, input, worker>>
     \/ /\ due = Steps
        /\ sequence + epoch < MaxSequence
        /\ due' = 1
        /\ sequence' = sequence + 1
        /\ \/ /\ worker.pc # "doze"
              /\ input' = [seq |-> sequence', epoch |-> epoch,
                           clock |-> clock, pos |-> cmd.pos]
              /\ pending' = TRUE
              /\ worker' = Woken(worker)
           \/ /\ worker.pc \in {"check", "doze"}
              /\ UNCHANGED <<input, pending, worker>>
  /\ UNCHANGED <<param, epoch, rtVars, consumed, fresh, running, output>>

\* An output is consumed once; its plan is adopted when it was accepted.
Take ==
  /\ pc = "take"
  /\ pc' = "decide"
  /\ \/ /\ output.seq > consumed
        /\ consumed' = output.seq
        /\ dec' = [valid |-> TRUE, failsafe |-> output.failsafe,
                   trigger |-> output.trigger]
        /\ fresh' = TRUE
        /\ IF output.accepted /\ Valid(output.plan)
           THEN /\ plan' = output.plan
                /\ pathTime' = AnchoredPathTime(output.plan)
           ELSE UNCHANGED <<plan, pathTime>>
     \/ /\ output.seq <= consumed \/ worker.pc = "store"
        /\ UNCHANGED <<consumed, dec, fresh, plan, pathTime>>
  /\ UNCHANGED <<param, epoch, buffer, cmd, mode, clock, counter, due, sequence,
                 sharedVars, worker>>

\* A fresh decision is carried out.
DecideFresh ==
  /\ pc = "decide"
  /\ fresh
  /\ pc' = "idle"
  /\ Execute(plan, dec.failsafe \/ dec.trigger)
  /\ UNCHANGED <<param, epoch, buffer, dec, pathTime, counter, asyncVars,
                 sharedVars, worker>>

\* Without a fresh decision and without a plan the update monitors itself.
Bootstrap ==
  /\ pc = "decide"
  /\ fresh' = FALSE
  /\ ~Valid(plan)
  /\ pc' = "idle"
  /\ ComputeShieldDecision
  /\ UNCHANGED <<param, epoch, counter, due, sequence, consumed, sharedVars,
                 worker>>

\* Without a fresh decision the last one stays in force.
DecideStale ==
  /\ pc = "decide"
  /\ fresh' = FALSE
  /\ Valid(plan)
  /\ pc' = "idle"
  /\ LET braking == mode = "failsafe" \/ dec.failsafe \/ dec.trigger
     IN  /\ Execute(plan, braking)
         /\ dec' = [dec EXCEPT !.failsafe = braking]
  /\ UNCHANGED <<param, epoch, buffer, pathTime, counter, due, sequence,
                 consumed, sharedVars, worker>>

-----------------------------------------------------------------------------
(***************************************************************************)
(* The worker: safetyMonitorWorkerLoop.                                    *)
(***************************************************************************)
\* Mutant: the predicate is only about the input.
WorkerCheckPendingOnly ==
  /\ worker.pc = "check"
  /\ \/ /\ pending
        /\ worker' = [worker EXCEPT !.pc = "compute", !.input = input]
        /\ pending' = FALSE
        /\ input' = NoInput
     \/ /\ ~pending
        /\ worker' = [worker EXCEPT !.pc = "doze"]
        /\ UNCHANGED <<pending, input>>
  /\ UNCHANGED <<param, pc, epoch, rtVars, asyncVars, running, output>>

\* The predicate is tested under the input mutex.  Nobody reads
\* latest_async_input_ again after it was taken.
WorkerCheck ==
  /\ worker.pc = "check"
  /\ \/ /\ ~running
        /\ worker' = NoWorker
        /\ UNCHANGED <<pending, input>>
     \/ /\ running /\ pending
        /\ worker' = [worker EXCEPT !.pc = "compute", !.input = input]
        /\ pending' = FALSE
        /\ input' = NoInput
     \/ /\ running /\ ~pending
        /\ worker' = [worker EXCEPT !.pc = "doze"]
        /\ UNCHANGED <<pending, input>>
  /\ UNCHANGED <<param, pc, epoch, rtVars, asyncVars, running, output>>

\* The predicate was false; the mutex is released as the thread falls asleep.
WorkerSleep ==
  /\ worker.pc = "doze"
  /\ worker' = [worker EXCEPT !.pc = "asleep"]
  /\ UNCHANGED <<param, pc, epoch, rtVars, asyncVars, sharedVars>>

\* A condition variable may wake its waiter for no reason.
SpuriousWakeup ==
  /\ worker.pc = "asleep"
  /\ worker' = Woken(worker)
  /\ UNCHANGED <<param, pc, epoch, rtVars, asyncVars, sharedVars>>

\* computeShieldDecisionForAsyncInput: the input is a copy, pathTime is not.
\* A refused plan is in the output for the log only, and left out here.
WorkerCompute ==
  /\ worker.pc = "compute"
  /\ \E b \in Refilled(worker.rest, Larger(worker.input.clock, pathTime),
                       worker.input.pos),
        trigger \in Verdicts :
       IF b = <<>>
       THEN /\ ~trigger
            /\ worker' = [worker EXCEPT
                            !.pc = "store", !.rest = <<>>,
                            !.answer = [NoOutput EXCEPT
                                          !.seq = worker.input.seq,
                                          !.failsafe = TRUE]]
       ELSE worker' =
              [worker EXCEPT
                 !.pc = "store",
                 !.rest = IF Accepted(trigger) THEN Remainder(b) ELSE b,
                 !.answer = [seq      |-> worker.input.seq,
                             failsafe |-> ~Accepted(trigger),
                             trigger  |-> trigger,
                             accepted |-> Accepted(trigger),
                             plan     |-> IF Accepted(trigger)
                                          THEN Candidate(Segment(b), trigger,
                                                         worker.input.epoch)
                                          ELSE NoPlan]]
  /\ UNCHANGED <<param, pc, epoch, rtVars, asyncVars, sharedVars>>

WorkerStore ==
  /\ worker.pc = "store"
  /\ output' = worker.answer
  /\ worker' = [worker EXCEPT !.pc = "check", !.input = NoInput,
                              !.answer = NoOutput]
  /\ UNCHANGED <<param, pc, epoch, rtVars, asyncVars, running, pending, input>>

-----------------------------------------------------------------------------
Next ==
  \/ Activate \/ Deactivate \/ NotifyStop \/ Join
  \/ UpdateSync
  \/ Publish \/ Take \/ DecideFresh \/ Bootstrap \/ DecideStale
  \/ WorkerCheck \/ WorkerSleep \/ SpuriousWakeup \/ WorkerCompute \/ WorkerStore

\* Both threads are scheduled; nothing forces an activation, an update or a
\* spurious wakeup.
Fairness ==
  /\ WF_vars(NotifyStop) /\ WF_vars(Join)
  /\ WF_vars(Take) /\ WF_vars(DecideFresh \/ Bootstrap \/ DecideStale)
  /\ WF_vars(WorkerCheck) /\ WF_vars(WorkerSleep)
  /\ WF_vars(WorkerCompute) /\ WF_vars(WorkerStore)

Spec == Init /\ [][Next]_vars /\ Fairness
-----------------------------------------------------------------------------
(***************************************************************************)
(* Properties.                                                             *)
(***************************************************************************)
Plans == [intended : Seq(Sample), failsafe : Seq(Sample), ie : Nat \ {0},
          fe : Nat \ {0}, epoch : Nat, refused : BOOLEAN]
Commands == [kind : {"start", "intended", "failsafe", "emergency"},
             pos : Positions, moving : BOOLEAN, k : Nat \ {0}, last : BOOLEAN]
Outputs == [seq : Nat, failsafe : BOOLEAN, trigger : BOOLEAN,
            accepted : BOOLEAN, plan : Plans]
Inputs == [seq : Nat, epoch : Nat, clock : Positions, pos : Positions]
Workers == [pc : {"off", "check", "doze", "asleep", "compute", "store"},
            rest : Seq(Sample), input : Inputs, answer : Outputs]

TypeOK ==
  /\ param \in [async : BOOLEAN, enabled : BOOLEAN, path : BOOLEAN]
  /\ pc \in {"inactive", "idle", "take", "decide", "notify", "join"}
  /\ epoch \in Nat
  /\ plan \in Plans /\ buffer \in Seq(Sample) /\ cmd \in Commands
  /\ dec \in [valid : BOOLEAN, failsafe : BOOLEAN, trigger : BOOLEAN]
  /\ mode \in {"nominal", "failsafe"}
  /\ clock \in Positions /\ pathTime \in Positions
  /\ counter \in 0 .. Steps /\ due \in 1 .. Steps
  /\ sequence \in Nat /\ consumed \in Nat /\ fresh \in BOOLEAN
  /\ running \in BOOLEAN /\ pending \in BOOLEAN
  /\ input \in Inputs /\ output \in Outputs /\ worker \in Workers

\* Whatever is commanded out of a plan belongs to a plan of this activation
\* that the monitor, when enabled, found no trigger in: neither a refused
\* candidate nor what the worker computed for an earlier activation reaches
\* the arm.
OnlyVerified ==
  /\ cmd.kind \in {"intended", "failsafe"} => Valid(plan)
  /\ Valid(plan) => plan.epoch = epoch /\ ~plan.refused

\* A refusal holds until a newer plan is accepted: motion is resumed only at
\* the first sample of a plan, never in the middle of the one that was
\* braked.
RefusalHolds ==
  [][cmd.kind = "failsafe" /\ cmd'.kind = "intended" => cmd'.k = 1]_vars

\* What runs is what was verified: without the worker a brake is entered
\* after the whole intended prefix it was verified to follow, and executed
\* in order, and a sample with a velocity is not commanded twice: the cache
\* is replaced in the update after its last moving sample.  The first two
\* updates are exempt from the former: both run the monitor, whatever
\* monitor_decimation_ is; the only sample of its plan from the latter: a
\* path that ends within a sample leaves a plan of one, which is repeated.
PlanFollowed ==
  [][UpdateSync =>
       /\ counter # 0 /\ cmd'.kind = "failsafe" =>
            \/ cmd.kind = "intended" /\ cmd.last /\ cmd'.k = 1
            \/ cmd.kind = "failsafe" /\ cmd'.k = cmd.k + 1
            \/ cmd.kind = "failsafe" /\ cmd.last /\ cmd'.k = cmd.k
       /\ cmd.kind = "intended" /\ cmd.moving /\ cmd'.kind = "intended" =>
            cmd'.k = 1 \/ cmd'.k = cmd.k + 1]_vars

\* The worker never sleeps on an input: try_lock either publishes it to a
\* thread that will test the predicate, or not at all.
NoSleepOnWork == pending => worker.pc \notin {"doze", "asleep"}

\* on_deactivate returns, unless the worker was just falling asleep while the
\* flag was cleared and notified: running is stored without the mutex.
StopReturns ==
  (pc = "join" /\ worker.pc \notin {"doze", "asleep"}) ~> pc = "inactive"

\* The plan in force without the places reached in it, and the verdict: that
\* of an output also takes a trigger the disabled monitor let pass.
PlanInForce == [intended |-> plan.intended, failsafe |-> plan.failsafe,
                epoch |-> plan.epoch, refused |-> plan.refused]
ToBrake == dec.failsafe \/ (param.async /\ dec.trigger)

Motion == INSTANCE VerifiedMotion WITH
  plan <- PlanInForce, intended_index <- plan.ie, failsafe_index <- plan.fe,
  brake <- ToBrake, command <- cmd

\* With or without the worker every sample commanded is the next one of the
\* approved plan in force, whose brake starts where its prefix ends.
ImplementsVerifiedMotion == Motion!Spec
=============================================================================
