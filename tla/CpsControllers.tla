--------------------------- MODULE CpsControllers ---------------------------
(***************************************************************************)
(* The torque controllers of cps_controllers, as the controller manager     *)
(* runs them:                                                              *)
(*   "nonlinear"  NonlinearImpedanceController;                            *)
(*   "example"    CartesianImpedanceExampleController of                   *)
(*                franka_example_controllers: the same text in another     *)
(*                library;                                                 *)
(*   "wrench"     FreeMotionExternalWrenchController, a schedule of         *)
(*                experiments;                                             *)
(*   "budget"     JointImpedanceEnergyBudgetController, which scales its    *)
(*                stiffness to an energy budget;                           *)
(*   "reachable"  ReachableCartesianImpedanceController, as far as its      *)
(*                shield and its worker thread are not concerned            *)
(*                (ReachableShield has those).                              *)
(*                                                                         *)
(* The update thread runs one controller after the other, in the order of  *)
(* the manager's list, and activates and deactivates them between two      *)
(* cycles; the executor thread configures them and delivers messages.      *)
(* A session is what lies between an activation and the deactivation.      *)
(* What a session computes from is either set by on_activate or left over: *)
(* the Jacobian derivative of the impedance classes is a static local of   *)
(* update, shared by every controller of the class, and a log file is whatever     *)
(* path the parameters say.                                                *)
(***************************************************************************)
EXTENDS Integers, FiniteSets, Sequences, ReachableImpedance

CONSTANTS
  Controllers,      \* the controllers the configuration files name
  Class,            \* of each: its class, one of the five
  Arm,              \* of each: the arm whose effort interfaces it claims
  Rank,             \* of each: its place in the controller manager's list
  Feedforward,      \* the impedance controllers with use_nonlinear_feedforward
  Still,            \* those with use_constant_reference
  Logging,          \* those with enable_error_logging or enable_csv_logging
  Path,             \* of each: its error_log_path or csv_log_path
  Predicting,       \* those with enable_prediction_logging
  Sensing,          \* those with enable_mujoco_contact_logging and a topic
  Loads,            \* the sets of controllers a launch file loads together
  JtvPeriod,        \* kJtvUpdatePeriod
  StatsPeriod,      \* loop_stats_print_period
  ProfilePeriod,    \* profiling_stats_print_period
  MoveTicks,        \* T_move of the line trajectory, in cycles
  Parameters,       \* the schedules an experiment may be given
  BiasDuration,     \* bias_estimation_duration, in cycles
  Budget, MaxEnergy, \* energy_budget, and the largest energy considered
  MaxSessions, MaxMessages   \* bounds: activations, goal messages

ASSUME PeriodsPositive == JtvPeriod \in Nat \ {0} /\ StatsPeriod \in Nat \ {0}
                          /\ ProfilePeriod \in Nat \ {0}
ASSUME BoundsNatural ==
  /\ MoveTicks \in Nat \ {0} /\ BiasDuration \in Nat /\ Budget \in Nat
  /\ MaxEnergy \in Nat /\ MaxSessions \in Nat /\ MaxMessages \in Nat
ASSUME LoadsNamed == Loads \subseteq SUBSET Controllers /\ Feedforward \subseteq Controllers
ASSUME LogsNamed == \A c \in Logging : c \in Controllers /\ Class[c] # "budget"
ASSUME DurationsNatural ==
  /\ Parameters # {}
  /\ \A p \in Parameters : /\ p.auto \in BOOLEAN
                            /\ {p.baseline, p.sines, p.sine, p.line, p.lissajous} \subseteq Nat
ASSUME RankIsOrder ==
  /\ Rank \in [Controllers -> Nat]
  /\ \A c, d \in Controllers : Rank[c] = Rank[d] => c = d

VARIABLES
  loaded,    \* the controllers of this launch
  life,      \* lifecycle state of each
  session,   \* activations so far, of each
  due,       \* the controllers the running cycle has not updated yet
  jtv,       \* per class: jtv_cycle_counter and whose cached_J_geo_dot is
  used,      \* per impedance controller: the derivative of its last update
  window,    \* per impedance controller: loop_counter_, profiling_counter_ and
             \* whose samples they have
  detail,    \* per class: model_detail_counter and whose samples it has
  ref,       \* per impedance controller: time and reference of its session
  trial,     \* per wrench controller: the experiment
  energy,    \* per budget controller: the energies p and k and the k_scale
             \* num / den of its last update, and of whose velocity its
             \* dq_filtered_ is
  goal,      \* per budget controller: q_goal_buffer_
  reach,     \* per reachable controller: its members outside the shield
  log,       \* the session whose log file is open, of each; 0 for none
  rows       \* of each path: whose rows the file there has

vars == <<loaded, life, session, due, jtv, used, window, detail, ref, trial, energy, goal,
          reach, log, rows>>
lifecycle == <<loaded, session, due>>
impedance == <<jtv, used, window, detail, ref>>
files == <<log, rows>>

Of(classes) == {c \in Controllers : Class[c] \in classes}
Shared == {"nonlinear", "example"}     \* the classes whose update has statics
Impedances == Of(Shared)
Wrenches == Of({"wrench"})
Budgets == Of({"budget"})
Reachables == Of({"reachable"})

Active == {c \in loaded : life[c] = "active"}
EmptyWindow == [loop |-> Empty, profile |-> Empty]
Nobody == [of |-> "nobody", session |-> 0]
Mine(c) == [of |-> c, session |-> session[c]]

-----------------------------------------------------------------------------
(* The log files                                                           *)

\* open with trunc: what the file had is lost.
OpenLog(c) ==
  /\ log' = [log EXCEPT ![c] = session'[c]]
  /\ rows' = [rows EXCEPT ![Path[c]] = {}]

\* The end of on_activate: a file that cannot be opened is an ERROR, after
\* everything else is done, and the node is finalized.
Opened(c) ==
  \/ c \notin Logging /\ life' = [life EXCEPT ![c] = "active"] /\ UNCHANGED files
  \/ c \in Logging /\ life' = [life EXCEPT ![c] = "active"] /\ OpenLog(c)
  \/ c \in Logging /\ life' = [life EXCEPT ![c] = "finalized"] /\ UNCHANGED files

\* A row, of a stream that is open.
LogRow(c) ==
  /\ rows' = IF log[c] = 0 THEN rows ELSE [rows EXCEPT ![Path[c]] = @ \cup {Mine(c)}]
  /\ UNCHANGED log

CloseLog(c) == log' = [log EXCEPT ![c] = 0] /\ UNCHANGED rows

-----------------------------------------------------------------------------
(* NonlinearImpedanceController, CartesianImpedanceExampleController       *)

\* makeSmoothStartProfile, times MoveTicks^5: a quintic from 0 to 1 at rest.
Profile(t) ==
  LET T == MoveTicks IN
  IF t <= 0 THEN [s |-> 0, ds |-> 0]
  ELSE IF t >= T THEN [s |-> T^5, ds |-> 0]
  ELSE [s |-> 10 * t^3 * T^2 - 15 * t^4 * T + 6 * t^5,
        ds |-> 30 * t^2 * T^2 - 60 * t^3 * T + 30 * t^4]

\* makeReferenceZYXLine: from the pose on_activate captured, along one axis.
\* The time is now() - start_time_; a line that has ended stays ended.
Line(t) == [time |-> IF t > MoveTicks THEN MoveTicks ELSE t, at |-> Profile(t)]

\* Stage 1: a constant reference is the captured pose itself.
Reference(c) ==
  \E dt \in {0, 1} :
    ref' = [ref EXCEPT ![c] = IF c \in Still THEN @ ELSE Line(@.time + dt)]

\* loop_counter_ and profiling_counter_ and their sums, members.
LoopStatistics(c) ==
  window' = [window EXCEPT ![c].loop = Sampled(@, session[c], StatsPeriod),
                           ![c].profile = Sampled(@, session[c], ProfilePeriod)]

\* model_detail_counter and its sums, static locals of either path.
ModelProfile(c, path) ==
  detail' = [detail EXCEPT ![<<Class[c], path>>] = Sampled(@, Mine(c), ProfilePeriod)]

FastStatistics(c) == LoopStatistics(c) /\ ModelProfile(c, FALSE)
FeedforwardStatistics(c) == LoopStatistics(c) /\ ModelProfile(c, TRUE)

\* Impedance only: no derivative is needed.
FastUpdate(c) ==
  /\ c \notin Feedforward
  /\ Reference(c) /\ FastStatistics(c)
  /\ UNCHANGED <<jtv, used>>

\* A mutant of Refreshed: the counter is advanced only by a refresh.
RefreshedOnce(c) ==
  LET j == jtv[Class[c]] IN
  [count |-> IF j.count = 0 THEN 1 ELSE j.count,
   dot |-> IF j.count = 0 THEN Mine(c) ELSE j.dot]

\* A mutant of Refreshed: the counter is not reduced by the period.
RefreshedUnreduced(c) ==
  LET j == jtv[Class[c]] IN
  [count |-> j.count + 1, dot |-> IF j.count = 0 THEN Mine(c) ELSE j.dot]

\* "Low-frequency update of Jacobian time variation".
Refreshed(c) ==
  LET j == jtv[Class[c]] IN
  [count |-> (j.count + 1) % JtvPeriod,
   dot |-> IF j.count = 0 THEN Mine(c) ELSE j.dot]

\* With the feedforward: J_geo_dot = cached_J_geo_dot, into J_r_dot, ddq_ref and
\* the torque.  age counts the updates of this controller since its refresh.
FeedforwardUpdate(c) ==
  LET now == Refreshed(c) IN
  /\ c \in Feedforward
  /\ jtv' = [jtv EXCEPT ![Class[c]] = now]
  /\ used' = [used EXCEPT ![c] =
       [dot |-> now.dot,
        updates |-> IF @.updates < JtvPeriod THEN @.updates + 1 ELSE @.updates,
        age |-> IF jtv[Class[c]].count = 0 THEN 0
                ELSE IF @.age < JtvPeriod THEN @.age + 1 ELSE @.age]]
  /\ Reference(c) /\ FeedforwardStatistics(c)

NonlinearUpdate(c) == Class[c] = "nonlinear" /\ (FastUpdate(c) \/ FeedforwardUpdate(c))
ExampleUpdate(c) == Class[c] = "example" /\ (FastUpdate(c) \/ FeedforwardUpdate(c))

\* on_activate: everything of the session is set, the statics of update are not.
ActivateImpedance(c) ==
  /\ ref' = [ref EXCEPT ![c] = Line(0)]
  /\ window' = [window EXCEPT ![c] = EmptyWindow]
  /\ used' = [used EXCEPT ![c].updates = 0]
  /\ Opened(c)
  /\ UNCHANGED <<jtv, detail, trial, energy, goal, reach>>

ActivateNonlinear(c) == Class[c] = "nonlinear" /\ ActivateImpedance(c)
ActivateExample(c) == Class[c] = "example" /\ ActivateImpedance(c)

-----------------------------------------------------------------------------
(* FreeMotionExternalWrenchController                                      *)

Infinite == 1000

\* build_experiment_schedule: the durations of the segments, in order.
BuildSchedule(p) ==
  IF ~p.auto THEN <<Infinite>>
  ELSE <<p.baseline>> \o [j \in 1..p.sines |-> p.sine] \o <<p.line, p.lissajous>>

\* The sum of the first i durations: accumulated, after i rounds of the loop.
Accumulated(schedule, i) ==
  LET sum[k \in 0..Len(schedule)] == IF k = 0 THEN 0 ELSE sum[k - 1] + schedule[k]
  IN sum[i]

\* A mutant of ActiveSegment: a segment also owns the instant it ends.
ActiveSegmentInclusive(t) ==
  LET s == t.schedule
      later == {i \in DOMAIN s : t.elapsed <= Accumulated(s, i)}
      i == CHOOSE k \in later : \A l \in later : k <= l
  IN IF later = {}
     THEN [t EXCEPT !.finished = TRUE, !.index = Len(s), !.local = s[Len(s)]]
     ELSE [t EXCEPT !.finished = FALSE, !.index = i,
                    !.local = t.elapsed - Accumulated(s, i - 1)]

\* update_active_segment: the first segment that ends after the elapsed time;
\* without one the experiment is finished, at the end of the last segment.
ActiveSegment(t) ==
  LET s == t.schedule
      later == {i \in DOMAIN s : t.elapsed < Accumulated(s, i)}
      i == CHOOSE k \in later : \A l \in later : k <= l
  IN IF later = {}
     THEN [t EXCEPT !.finished = TRUE, !.index = Len(s), !.local = s[Len(s)]]
     ELSE [t EXCEPT !.finished = FALSE, !.index = i,
                    !.local = t.elapsed - Accumulated(s, i - 1)]

\* A mutant of Biased: one more sample once the duration is complete.
BiasedOnceMore(t, dt, still) ==
  IF t.biasTime <= BiasDuration /\ still
  THEN [t EXCEPT !.biasTime = @ + dt, !.samples = @ + 1]
  ELSE t

\* update_bias_estimation: samples of the wrench while the arm is (almost) still,
\* until they amount to the duration.
Biased(t, dt, still) ==
  IF t.biasTime < BiasDuration /\ still
  THEN [t EXCEPT !.biasTime = @ + dt, !.samples = @ + 1]
  ELSE t

\* experiment_elapsed_time_ only grows; past the end of the schedule, and in the
\* middle of an infinite one, its value makes no difference any more.
Horizon(schedule) ==
  IF schedule = <<Infinite>> THEN 2 ELSE Accumulated(schedule, Len(schedule)) + 1
Elapsed(t, dt) ==
  [t EXCEPT !.elapsed = IF @ + dt > Horizon(t.schedule) THEN Horizon(t.schedule) ELSE @ + dt]

UpdateWrench(c) ==
  Class[c] = "wrench" /\ \E dt \in {1, 2}, still \in BOOLEAN :
    trial' = [trial EXCEPT ![c] = Biased(ActiveSegment(Elapsed(@, dt)), dt, still)]

ActivateWrench(c) ==
  /\ Class[c] = "wrench"
  /\ trial' = [trial EXCEPT ![c] =
       ActiveSegment([@ EXCEPT !.elapsed = 0, !.biasTime = 0, !.samples = 0])]
  /\ Opened(c)
  /\ UNCHANGED <<impedance, energy, goal, reach>>

-----------------------------------------------------------------------------
(* JointImpedanceEnergyBudgetController                                    *)

\* A mutant of Scale: the budget is kept by the potential energy alone.
ScaleIgnoringMotion(p, k) ==
  IF p = 0 THEN [num |-> 0, den |-> 1]
  ELSE [num |-> IF p <= Budget THEN p ELSE Budget, den |-> p]

\* k_scale, as a fraction, for a potential energy p and a kinetic energy k: 0 where
\* the potential is (almost, 1e-9) zero; otherwise 1 as long as the budget lasts, and
\* clamp01((budget - kinetic) / potential) beyond it.  The stiffness is scaled by it,
\* the damping by its square root: both are off where it is 0.
Scale(p, k) ==
  IF p = 0 THEN [num |-> 0, den |-> 1]
  ELSE IF p + k <= Budget THEN [num |-> 1, den |-> 1]
  ELSE [num |-> IF k > Budget THEN 0 ELSE Budget - k, den |-> p]

\* readFromRT of realtime_tools: a try_lock, and a swap if there is news.
ReadFromRT(g) ==
  IF g.locked THEN g
  ELSE IF g.fresh THEN [g EXCEPT !.rt = g.nonRt, !.nonRt = g.rt, !.fresh = FALSE, !.read = TRUE]
  ELSE [g EXCEPT !.read = TRUE]

\* The velocity is filtered: what dq_filtered_ had is kept, with a weight of 0.01.
UpdateBudget(c) ==
  /\ Class[c] = "budget"
  /\ goal' = [goal EXCEPT ![c] = ReadFromRT(@)]
  /\ \E p, k \in 0..MaxEnergy :
       energy' = [energy EXCEPT ![c] =
         [p |-> p, k |-> k, num |-> Scale(p, k).num, den |-> Scale(p, k).den,
          filtered |-> @.filtered \cup {session[c]}]]

\* writeFromNonRT(q_) waits for the lock: the present position is the goal.
\* dq_filtered_ is not reset: a session begins with the velocity of the last one.
ActivateBudget(c) ==
  /\ Class[c] = "budget"
  /\ ~goal[c].locked
  /\ goal' = [goal EXCEPT ![c] = [@ EXCEPT !.serial = goal[c].serial + 1,
                                           !.nonRt = goal[c].serial + 1,
                                           !.since = goal[c].serial + 1,
                                           !.fresh = TRUE, !.read = FALSE]]
  /\ life' = [life EXCEPT ![c] = "active"]
  /\ UNCHANGED <<impedance, trial, energy, reach, files>>

\* The subscription's callback, on the executor thread: it lives from on_configure
\* on, in whatever state the controller is.  The copy is made under the lock.
GoalBegin(c) ==
  /\ c \in loaded \cap Budgets /\ life[c] \in {"inactive", "active"}
  /\ ~goal[c].locked /\ goal[c].serial < MaxMessages + session[c]
  /\ goal' = [goal EXCEPT ![c] = [@ EXCEPT !.serial = goal[c].serial + 1,
                                           !.nonRt = goal[c].serial + 1,
                                           !.locked = TRUE]]
  /\ UNCHANGED <<lifecycle, life, impedance, trial, energy, reach, files>>

GoalEnd(c) ==
  /\ c \in Budgets /\ goal[c].locked
  /\ goal' = [goal EXCEPT ![c] = [@ EXCEPT !.fresh = TRUE, !.locked = FALSE]]
  /\ UNCHANGED <<lifecycle, life, impedance, trial, energy, reach, files>>

-----------------------------------------------------------------------------
(* ReachableCartesianImpedanceController                                   *)

UpdateReachable(c) ==
  Class[c] = "reachable" /\ \E r \in Updated(reach[c], session[c], log[c] # 0, ProfilePeriod) :
    reach' = [reach EXCEPT ![c] = r]

\* The second file is opened after the first: if it cannot be, the first is left open.
ActivateReachable(c) ==
  LET r == Reset(reach[c])
      both == c \in Logging \cap Predicting
      To(l, q) == life' = [life EXCEPT ![c] = l] /\ reach' = [reach EXCEPT ![c] = q]
  IN /\ Class[c] = "reachable"
     /\ \/ ~both /\ Opened(c) /\ reach' = [reach EXCEPT ![c] = r]
        \/ both /\ OpenLog(c) /\ To("active", PredictionLogOpened(r, session'[c]))
        \/ both /\ OpenLog(c) /\ To("finalized", r)
        \/ both /\ UNCHANGED files /\ To("finalized", r)
     /\ UNCHANGED <<impedance, trial, energy, goal>>

\* The sensor's subscription exists from on_configure on.
ContactBegin(c) ==
  /\ c \in loaded \cap Reachables \cap Sensing /\ life[c] \in {"inactive", "active"}
  /\ reach[c].contact.at = "idle" /\ reach[c].contact.begun < MaxMessages
  /\ \E touch \in BOOLEAN :
       reach' = [reach EXCEPT ![c].contact = Received(@, touch)]
  /\ UNCHANGED <<lifecycle, life, impedance, trial, energy, goal, files>>

ContactStep(c) ==
  /\ c \in Reachables /\ reach[c].contact.at # "idle"
  /\ reach' = [reach EXCEPT ![c].contact = Handled(@)]
  /\ UNCHANGED <<lifecycle, life, impedance, trial, energy, goal, files>>

-----------------------------------------------------------------------------
(* The controller manager                                                  *)

NewTrial(p) == [schedule |-> BuildSchedule(p), elapsed |-> 0, index |-> 0, local |-> 0,
                finished |-> FALSE, biasTime |-> 0, samples |-> 0]

Init ==
  /\ loaded \in Loads /\ due = {}
  /\ life = [c \in Controllers |-> "unconfigured"]
  /\ session = [c \in Controllers |-> 0]
  /\ jtv = [k \in Shared |-> [count |-> 0, dot |-> Nobody]]
  /\ used = [c \in Impedances |-> [dot |-> Nobody, updates |-> 0, age |-> 0]]
  /\ window = [c \in Impedances |-> EmptyWindow]
  /\ detail = [path \in Shared \X BOOLEAN |-> Empty]
  /\ ref = [c \in Impedances |-> Line(0)]
  /\ trial \in [Wrenches -> {NewTrial(p) : p \in Parameters}]
  /\ \A c \in Wrenches \ loaded : trial[c] = NewTrial(CHOOSE p \in Parameters : TRUE)
  /\ energy = [c \in Budgets |-> [p |-> 0, k |-> 0, num |-> 0, den |-> 1, filtered |-> {}]]
  /\ goal = [c \in Budgets |-> [nonRt |-> 0, rt |-> 0, fresh |-> FALSE, locked |-> FALSE,
                                serial |-> 0, since |-> 0, read |-> FALSE]]
  /\ reach = [c \in Reachables |-> New]
  /\ log = [c \in Controllers |-> 0]
  /\ rows = [path \in {Path[c] : c \in Logging} |-> {}]

\* on_configure: an unusable parameter or model is an ERROR of the classes that
\* catch exceptions (the node is finalized), a FAILURE of "budget" (unconfigured).
ConfigureTo(c, classes, outcomes) ==
  Class[c] \in classes /\ \E l \in outcomes : life' = [life EXCEPT ![c] = l]
ConfigureNonlinear(c) == ConfigureTo(c, {"nonlinear"}, {"inactive", "finalized"})
ConfigureExample(c) == ConfigureTo(c, {"example"}, {"inactive", "finalized"})
ConfigureWrench(c) == ConfigureTo(c, {"wrench"}, {"inactive", "finalized"})
ConfigureBudget(c) == ConfigureTo(c, {"budget"}, {"inactive", "unconfigured"})

ConfigureReachable(c) == ConfigureTo(c, {"reachable"}, {"inactive", "finalized"})

Configure(c) ==
  /\ c \in loaded /\ life[c] = "unconfigured"
  /\ \/ ConfigureNonlinear(c) \/ ConfigureExample(c) \/ ConfigureWrench(c) \/ ConfigureBudget(c)
     \/ ConfigureReachable(c)
  /\ reach' = [d \in Reachables |-> IF d = c /\ life'[c] = "inactive" THEN Gained(reach[d]) ELSE reach[d]]
  /\ UNCHANGED <<lifecycle, impedance, trial, energy, goal, files>>

\* Between two cycles; the arm's effort interfaces are free.
Activate(c) ==
  /\ c \in loaded /\ due = {} /\ life[c] = "inactive" /\ session[c] < MaxSessions
  /\ \A d \in Active : Arm[d] # Arm[c]
  /\ session' = [session EXCEPT ![c] = @ + 1]
  /\ \/ ActivateNonlinear(c) \/ ActivateExample(c) \/ ActivateWrench(c) \/ ActivateBudget(c)
     \/ ActivateReachable(c)
  /\ UNCHANGED <<loaded, due>>

\* on_deactivate closes the log and returns the interfaces, and resets nothing but
\* the Jacobian of "reachable".
Deactivate(c) ==
  /\ c \in Active /\ due = {}
  /\ life' = [life EXCEPT ![c] = "inactive"]
  /\ CloseLog(c)
  /\ reach' = [d \in Reachables |-> IF d = c THEN Closed(reach[d]) ELSE reach[d]]
  /\ UNCHANGED <<lifecycle, impedance, trial, energy, goal>>

Cycle ==
  /\ due = {} /\ due' = Active
  /\ UNCHANGED <<loaded, session, life, impedance, trial, energy, goal, reach, files>>

Update(c) ==
  /\ c \in due /\ \A d \in due : Rank[c] <= Rank[d]
  /\ due' = due \ {c}
  /\ \/ (NonlinearUpdate(c) \/ ExampleUpdate(c)) /\ UNCHANGED <<trial, energy, goal, reach>>
     \/ UpdateWrench(c) /\ UNCHANGED <<impedance, energy, goal, reach>>
     \/ UpdateBudget(c) /\ UNCHANGED <<impedance, trial, reach>>
     \/ UpdateReachable(c) /\ UNCHANGED <<impedance, trial, energy, goal>>
  /\ LogRow(c)
  /\ UNCHANGED <<loaded, session, life>>

Next ==
  \/ Cycle
  \/ \E c \in Controllers :
       \/ Configure(c) \/ Activate(c) \/ Deactivate(c) \/ Update(c)
       \/ GoalBegin(c) \/ GoalEnd(c) \/ ContactBegin(c) \/ ContactStep(c)

Spec == Init /\ [][Next]_vars

-----------------------------------------------------------------------------
Marks == {Nobody} \cup [of : Controllers, session : 0..MaxSessions]

TypeOK ==
  /\ loaded \in Loads /\ due \subseteq loaded
  /\ life \in [Controllers -> {"unconfigured", "inactive", "active", "finalized"}]
  /\ session \in [Controllers -> 0..MaxSessions]
  /\ jtv \in [Shared -> [count : 0..JtvPeriod - 1, dot : Marks]]
  /\ used \in [Impedances -> [dot : Marks, updates : 0..JtvPeriod, age : 0..JtvPeriod]]
  /\ window \in [Impedances ->
       [loop : [n : 0..StatsPeriod - 1, from : SUBSET (1..MaxSessions)],
        profile : [n : 0..ProfilePeriod - 1, from : SUBSET (1..MaxSessions)]]]
  /\ detail \in [Shared \X BOOLEAN -> [n : 0..ProfilePeriod - 1, from : SUBSET Marks]]
  /\ DOMAIN ref = Impedances /\ \A c \in Impedances : ref[c].time \in 0..MoveTicks
  /\ DOMAIN trial = Wrenches
  /\ \A c \in Wrenches : trial[c].index \in 0..Len(trial[c].schedule)
  /\ energy \in [Budgets -> [p : 0..MaxEnergy, k : 0..MaxEnergy, num : Nat, den : Nat \ {0},
                             filtered : SUBSET (1..MaxSessions)]]
  /\ DOMAIN goal = Budgets
  /\ \A c \in Budgets : goal[c].serial \in 0..MaxMessages + MaxSessions
  /\ DOMAIN reach = Reachables
  /\ \A c \in Reachables : reach[c].gain \in FailsafeGain..NominalGain
                          /\ reach[c].tau \in -TorqueLimit..TorqueLimit
  /\ log \in [Controllers -> 0..MaxSessions]
  /\ rows \in [{Path[c] : c \in Logging} -> SUBSET Marks]

\* No other loaded controller of the class refreshes the shared derivative.
Sole(c) == \A d \in loaded \cap Feedforward : Class[d] = Class[c] => d = c

\* Of a session of "reachable": differences, estimates and statistics are of this
\* session; every contact message is counted once, in the sequence and in the rows,
\* and the first contact is that of the first message that had one.  If a message
\* overlapped the resets of on_activate the sequence is one off at most: the old
\* message may be counted in; whose first contact is reported is open then.
ContactLocal(r) ==
  LET k == r.contact IN
  /\ r.counted = r.logged /\ r.logged <= k.sequence
  /\ k.sequence <= k.begun + 1 /\ k.begun <= k.sequence + 1
  /\ ~k.overlaps =>
       /\ k.sequence <= k.begun /\ k.begun <= k.sequence + 1
       /\ k.wall \in {None, k.from} /\ k.first \in {None, k.from}
       /\ k.at = "idle" => k.sequence = k.begun /\ k.first = k.from
ReachableLocal(r, s) ==
  /\ r.jacobian \in {0, s} /\ r.jdot \subseteq {s} /\ r.braking \in {0, s}
  /\ r.window.from \subseteq {s} /\ r.markers.from \subseteq {s}
  /\ r.predicted \in {0, s} /\ r.prediction \in {0, s}
  /\ ContactLocal(r)

\* The log of a session is open for the session, and has its rows only: nobody else
\* writes into the file.  An inactive controller has no file open.
LogLocal(c) ==
  /\ c \in Active \cap Logging =>
       log[c] = session[c] /\ rows[Path[c]] \subseteq {Mine(c)}
  /\ life[c] = "inactive" =>
       log[c] = 0 /\ (c \in Reachables => reach[c].prediction = 0)

\* These are a session's own.  The statistics hold samples of this session only, and
\* so does the log.  A controller that shares its class with no other uses its own
\* derivative, fewer than JtvPeriod updates old, and after as many updates none of an
\* earlier session.  Once an update has found the goal buffer free, the goal is not
\* older than the position at activation.  Of "reachable", its differences, estimates
\* and contact counts.
\* These are not, and nothing is claimed of them: dq_filtered_ of "budget", K_runtime_
\* and D_runtime_ of "reachable", the derivative of a class of two controllers, and
\* the goal of an update that found the buffer locked.
SessionLocal ==
  /\ \A c \in loaded : LogLocal(c)
  /\ \A c \in Active :
       /\ c \in Impedances => window[c].loop.from \cup window[c].profile.from \subseteq {session[c]}
       /\ c \in Impedances \cap Feedforward /\ Sole(c) /\ used[c].updates > 0 =>
            /\ used[c].dot.of = c /\ used[c].age < JtvPeriod
            /\ used[c].dot.session = session[c] \/ used[c].updates < JtvPeriod
       /\ c \in Budgets /\ goal[c].read => goal[c].rt >= goal[c].since
       /\ c \in Reachables => ReachableLocal(reach[c], session[c])

\* The segment an experiment is in is the one its elapsed time falls into, whatever
\* the durations (zero among them) and however late an update is.
SegmentIsDue ==
  \A c \in Active \cap Wrenches :
    LET t == trial[c]
        From(i) == Accumulated(t.schedule, i - 1)
        To(i) == Accumulated(t.schedule, i)
    IN IF t.finished
       THEN \A i \in DOMAIN t.schedule : t.elapsed >= To(i)
       ELSE /\ From(t.index) <= t.elapsed /\ t.elapsed < To(t.index)
            /\ t.local = t.elapsed - From(t.index) /\ t.local < t.schedule[t.index]

\* The header promises more, "that the total controlled energy L = T + U never exceeds
\* the user-defined energy_budget parameter": it does where the scaling is 0 and the
\* kinetic energy is above the budget.  What holds of the total after the scaling:
\* the scaling is one (between 0 and 1).  While it is on, the total is within the
\* budget; where it reduces the stiffness without turning it off, the total is the
\* budget exactly, no further down.  And stiffness and damping are off in two cases
\* only: the arm's own motion has used the budget up - the total may then exceed it -
\* or the arm is at its goal, however much of the budget is left.
WithinBudget ==
  \A c \in Active \cap Budgets :
    LET e == energy[c] IN
    /\ e.num <= e.den
    /\ e.num > 0 => e.num * e.p + e.k * e.den <= Budget * e.den
    /\ 0 < e.num /\ e.num < e.den => e.num * e.p + e.k * e.den = Budget * e.den
    /\ e.num = 0 <=> e.p = 0 \/ e.k >= Budget

\* Within a session nothing is repeated: the line goes on towards its end, the
\* experiment through its segments (once finished it stays finished, and a complete
\* bias is not touched again); no update ever goes back to an older goal; and a
\* contact once seen stays seen.
LineGoesOn(c) == ref'[c].at.s >= ref[c].at.s /\ ref'[c].at.ds >= 0
ExperimentGoesOn(c) ==
  /\ trial'[c].elapsed >= trial[c].elapsed
  /\ trial'[c].index >= trial[c].index
  /\ trial[c].finished => trial'[c].finished
  /\ trial[c].biasTime >= BiasDuration => trial'[c].samples = trial[c].samples
ContactGoesOn(c) ==
  LET k == reach[c].contact  l == reach'[c].contact IN
  l.sequence >= k.sequence /\ (k.seen => l.seen) /\ reach'[c].logged >= reach[c].logged
SessionsGoForward ==
  [][/\ \A c \in Impedances : session'[c] = session[c] => LineGoesOn(c)
     /\ \A c \in Wrenches : session'[c] = session[c] => ExperimentGoesOn(c)
     /\ \A c \in Reachables : session'[c] = session[c] => ContactGoesOn(c)
     /\ \A c \in Budgets : goal'[c].rt >= goal[c].rt]_vars

=============================================================================
