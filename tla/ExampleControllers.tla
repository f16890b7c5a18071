------------------------- MODULE ExampleControllers -------------------------
(***************************************************************************)
(* The small controllers that the control node runs next to each other:    *)
(* those of franka_example_controllers, the two broadcasters of            *)
(* franka_robot_state_broadcaster, and the head and base controllers of    *)
(* garmi_controllers.                                                      *)
(*                                                                         *)
(* The control node's thread repeats: measure the period, read, update     *)
(* every active controller, write.  A controller is activated and          *)
(* deactivated by the same thread, when no update is under way.  Three     *)
(* kinds of other threads meet it: the executor delivers messages to the   *)
(* subscribing controllers, whose targets are plain members written one    *)
(* element after the other; a RealtimePublisher copies and publishes what  *)
(* a broadcaster has put into it; and the services configure controllers.  *)
(*                                                                         *)
(* Time passes in whole cycles of at least one and at most MaxPeriod       *)
(* ticks.  Messages and captured positions carry serial numbers.           *)
(***************************************************************************)
EXTENDS Integers, Sequences, SequencesExt, FiniteSets

CONSTANTS
  Controllers, Kind,       \* the controllers and the class of each
  Loads,                   \* the sets of controllers that run together
  Names,                   \* arm names, in the order of std::map
  Occurs,                  \* pairs of names, the first within the second
  ArmLists,                \* what the arm_<i>.arm_id parameters may say
  MaxPeriod, Horizon,      \* the longest cycle; how long time is told apart
  Ends,                    \* when a motion to the start position may end
  Interval,                \* 1 s / frequency of a broadcaster
  MaxSessions, MaxMessages \* bounds: activations, messages

ASSUME TimesPositive == MaxPeriod \in Nat \ {0} /\ Horizon \in Nat \ {0} /\ Interval \in Nat
ASSUME EndsWithin == Ends \subseteq 0..Horizon
ASSUME BoundsNatural == MaxSessions \in Nat /\ MaxMessages \in Nat
ASSUME LoadsNamed == Loads \subseteq SUBSET Controllers /\ "nobody" \notin Controllers
ASSUME NamesDiffer ==
  /\ Names \in Seq(ToSet(Names)) /\ ArmLists \subseteq Seq(ToSet(Names))
  /\ \A i, j \in DOMAIN Names : Names[i] = Names[j] => i = j
ASSUME NamesOccur == \A n \in ToSet(Names) : <<n, n>> \in Occurs

VARIABLES
  loaded, life, session,   \* of this launch; lifecycle state and activations of each
  phase, period, due,      \* of the control node's thread: its loop, still to be updated
  traj,     \* of the timed controllers: their own time, and the time since activation
  arms,     \* of the multi-arm controllers: arms_, and where each arm's data comes from
  topic,    \* of the subscribing controllers: the target and both who touch it
  walk,     \* the subscribing controller whose target that thread walks through
  comp,     \* of those with a FrankaRobotModel or FrankaRobotState
  cast      \* of the broadcasters: last_pub_ and the RealtimePublisher

vars == <<loaded, life, session, phase, period, due, traj, arms, topic, walk, comp, cast>>
manager == <<loaded, life, session, phase, period, due>>
data == <<traj, arms, topic, walk, comp, cast>>

Of(kinds) == {c \in Controllers : Kind[c] \in kinds}
Summing == Of({"position", "velocity", "cartesianVelocity", "dualVelocity"})
ByTheClock == Of({"impedance", "multiImpedance"})
Starting == Of({"moveToStart"})
Timed == Summing \cup ByTheClock \cup Starting
MultiArm == Of({"dualVelocity", "multiImpedance"})
Subscribers == Of({"joint", "cartesian", "head", "base"})
Broadcasters == Of({"state", "model"})
Semantic == Of({"impedance", "joint", "cartesian", "modelExample"}) \cup Broadcasters
Releasing == Of({"cartesian", "modelExample"}) \cup Broadcasters

Active == {c \in loaded : life[c] = "active"}
Nobody == [of |-> "nobody", part |-> 0, activating |-> FALSE]
Free == due = {} /\ walk = Nobody    \* the control node's thread is in no controller
Until(t) == IF t > Horizon THEN Horizon ELSE t

-----------------------------------------------------------------------------
(* Controllers with a time of their own                                    *)

\* A mutant of ActivateTimed: init_time_ is not reset.
ActivateGoesOn(c) ==
  IF c \notin Timed THEN UNCHANGED traj
  ELSE \E end \in (IF c \in Starting THEN Ends ELSE {0}) :
         traj' = [traj EXCEPT ![c].since = 0, ![c].end = end, ![c].done = FALSE]

\* on_activate: init_time_ = 0, start_time_ = now(); a MotionGenerator is built
\* from the present position, and what it has to travel decides when it ends.
ActivateTimed(c) ==
  IF c \notin Timed THEN UNCHANGED traj
  ELSE \E end \in (IF c \in Starting THEN Ends ELSE {0}) :
         traj' = [traj EXCEPT ![c] = [time |-> 0, since |-> 0, end |-> end, done |-> FALSE]]

\* init_time_ = init_time_ + period: the period before the first update counts.
Summed(t) == [t EXCEPT !.time = Until(@ + period)]

\* now() - start_time_.
Clocked(t) == [t EXCEPT !.time = t.since]

\* getDesiredJointPositions: all joints end together; zero torques from then on.
Moved(t) == [t EXCEPT !.time = t.since, !.done = t.since >= t.end]

-----------------------------------------------------------------------------
(* Controllers of several arms: arms_ is a std::map                        *)

\* The order of the keys, and the place of one of them in the map.
Key(n) == CHOOSE i \in DOMAIN Names : Names[i] = n
PlaceIn(n, held) == Cardinality({m \in held : Key(m) <= Key(n)})

\* updateJointStates: the first seven interfaces whose prefix contains the name,
\* and those of one arm follow each other.
SourceOf(name, held) ==
  LET found == {n \in held : <<name, n>> \in Occurs}
  IN CHOOSE n \in found : \A m \in found : Key(n) <= Key(m)

UpdateJointStates(c) ==
  arms' = [arms EXCEPT ![c].source = [n \in arms[c].held |-> SourceOf(n, arms[c].held)]]

\* The parameters name the arms, and add to those of an earlier on_configure; the
\* gains of the i-th arm of the map are those of arm_<i>.
WithArms(c) ==
  LET held == arms[c].held \cup ToSet(arms[c].listed)
  IN arms' = [arms EXCEPT ![c].held = held,
                ![c].gains = [n \in held |-> arms[c].listed[PlaceIn(n, held)]]]

Becomes(c, outcomes) == \E l \in outcomes : life' = [life EXCEPT ![c] = l]

\* Two arms of one name are an ERROR.
ConfigureDualVelocity(c) ==
  /\ Kind[c] = "dualVelocity"
  /\ IF Cardinality(ToSet(arms[c].listed)) < Len(arms[c].listed)
     THEN Becomes(c, {"finalized"}) /\ UNCHANGED arms
     ELSE Becomes(c, {"inactive"}) /\ WithArms(c)

\* Missing or short gains are a FAILURE; the arms stay.
ConfigureMultiImpedance(c) ==
  Kind[c] = "multiImpedance" /\ WithArms(c) /\ Becomes(c, {"inactive", "unconfigured"})

-----------------------------------------------------------------------------
(* FrankaRobotModel and FrankaRobotState: pointers out of state interfaces *)

\* update_state_and_model, get_robot_state_ptr: the first reference with the name;
\* one of an earlier session dangles, the interfaces were given back.
LookUp(m, now) == [m EXCEPT !.initialized = TRUE, !.dangled = @ \/ Head(m.refs) # now]

\* getCoriolisForceVector and the others look up only once.
Getter(m, now) == IF m.initialized THEN m ELSE LookUp(m, now)

\* assign_loaned_state_interfaces appends to what is there; on_activate of
\* "cartesian" then asks for the pose.
Assign(c) ==
  LET now == session[c] + 1
      m == [comp[c] EXCEPT !.refs = Append(@, now)]
  IN comp' = IF c \in Semantic
             THEN [comp EXCEPT ![c] = IF Kind[c] = "cartesian" THEN Getter(m, now) ELSE m]
             ELSE comp

\* A mutant of Release: the broadcasters keep their references.
ReleaseButBroadcasters(c) ==
  comp' = IF c \in Releasing \ Broadcasters THEN [comp EXCEPT ![c].refs = <<>>] ELSE comp

\* release_interfaces: called by some of the classes only.
Release(c) ==
  comp' = IF c \in Releasing THEN [comp EXCEPT ![c].refs = <<>>] ELSE comp

UseModel(c) ==
  comp' = IF c \in Semantic \ Broadcasters
          THEN [comp EXCEPT ![c] = Getter(@, session[c])] ELSE comp

-----------------------------------------------------------------------------
(* The updates that meet no other thread                                   *)

FollowSum(c) == traj' = [traj EXCEPT ![c] = Summed(@)] /\ UNCHANGED <<arms, comp>>

UpdatePosition(c) == Kind[c] = "position" /\ FollowSum(c)
UpdateVelocity(c) == Kind[c] = "velocity" /\ FollowSum(c)
UpdateCartesianVelocity(c) == Kind[c] = "cartesianVelocity" /\ FollowSum(c)
UpdateDualVelocity(c) == Kind[c] = "dualVelocity" /\ FollowSum(c)

UpdateImpedance(c) ==
  /\ Kind[c] = "impedance"
  /\ traj' = [traj EXCEPT ![c] = Clocked(@)] /\ UseModel(c) /\ UNCHANGED arms

UpdateMultiImpedance(c) ==
  /\ Kind[c] = "multiImpedance"
  /\ traj' = [traj EXCEPT ![c] = Clocked(@)] /\ UpdateJointStates(c) /\ UNCHANGED comp

UpdateMoveToStart(c) ==
  Kind[c] = "moveToStart" /\ traj' = [traj EXCEPT ![c] = Moved(@)] /\ UNCHANGED <<arms, comp>>

\* Zero torques; and four values of the model, printed.
UpdateGravity(c) == Kind[c] = "gravity" /\ UNCHANGED <<traj, arms, comp>>
UpdateModelExample(c) == Kind[c] = "modelExample" /\ UseModel(c) /\ UNCHANGED <<traj, arms>>

-----------------------------------------------------------------------------
(* Subscribing controllers                                                 *)

Parts(c) == IF Kind[c] = "cartesian" THEN 3 ELSE 2     \* position, and orientation
Reads(c) == IF Kind[c] = "cartesian" THEN 4 ELSE 2     \* the orientation is read twice

\* The callback of a message: one whose data[0] is 0 is dropped, one whose data[11]
\* is 0 leaves the orientation alone.  It runs on the executor whatever the state
\* of the controller: subscribed in on_init, or in on_configure (head and base).
CallbackBegin(c) ==
  /\ c \in loaded \cap Subscribers /\ topic[c].cb = 0
  /\ Kind[c] \in {"head", "base"} => life[c] \in {"inactive", "active"}
  /\ topic[c].stamp < MaxMessages + session[c]
  /\ \E upto \in CASE Kind[c] = "joint" -> {0, 2} [] Kind[c] = "cartesian" -> {0, 2, 3}
                   [] OTHER -> {2} :
       topic' = [topic EXCEPT ![c] = [@ EXCEPT !.stamp = topic[c].stamp + 1,
                                               !.serial = topic[c].stamp + 1,
                                               !.upto = upto, !.cb = IF upto = 0 THEN 0 ELSE 1]]
  /\ UNCHANGED <<manager, traj, arms, walk, comp, cast>>

\* A mutant of SetVelocityTarget: each wheel under a lock of its own.
SetOneByOne(t) ==
  [t EXCEPT !.target[t.cb] = t.serial, !.cb = IF t.cb = t.upto THEN 0 ELSE t.cb + 1]

\* set_velocity_target: both wheels under one lock.
SetVelocityTarget(t) == [t EXCEPT !.target = [p \in DOMAIN @ |-> t.serial], !.cb = 0]

\* A mutant of WriteElement: the loop runs one element too far.
WriteBeyond(t) == [t EXCEPT !.target[t.cb] = t.serial, !.cb = t.cb + 1]

\* q_d_(i) = msg.data[i], and the like.
WriteElement(t) ==
  [t EXCEPT !.target[t.cb] = t.serial, !.cb = IF t.cb = t.upto THEN 0 ELSE t.cb + 1]

CallbackWrite(c) ==
  /\ c \in Subscribers /\ topic[c].cb > 0
  /\ topic' = [topic EXCEPT ![c] = IF Kind[c] = "base" THEN SetVelocityTarget(@)
                                   ELSE WriteElement(@)]
  /\ UNCHANGED <<manager, traj, arms, walk, comp, cast>>

\* q_d_ = q_; desired_position, desired_orientation from the present pose.
\* The head and the base keep the target of their last session.
CapturePart(c) ==
  /\ walk.of = c /\ walk.activating
  /\ topic' = [topic EXCEPT ![c].target[walk.part] = Max(topic[c].acts)]
  /\ IF walk.part < Parts(c)
     THEN walk' = [walk EXCEPT !.part = @ + 1] /\ UNCHANGED life
     ELSE walk' = Nobody /\ life' = [life EXCEPT ![c] = "active"]
  /\ UNCHANGED <<loaded, session, phase, period, due, traj, arms, comp, cast>>

\* update reads the target element by element; "cartesian" its orientation once
\* for the sign of the quaternion and once for the error.
ReadPart(c) ==
  LET part == IF walk = Nobody THEN 1 ELSE walk.part
  IN /\ c \in Subscribers
     /\ \/ walk = Nobody /\ c \in due
        \/ walk.of = c /\ ~walk.activating
     /\ topic' = [topic EXCEPT ![c].used[part] =
                    topic[c].target[IF part > Parts(c) THEN Parts(c) ELSE part]]
     /\ IF part < Reads(c)
        THEN walk' = [of |-> c, part |-> part + 1, activating |-> FALSE] /\ UNCHANGED due
        ELSE walk' = Nobody /\ due' = due \ {c}
     /\ IF part = 1 THEN UseModel(c) ELSE UNCHANGED comp
     /\ UNCHANGED <<loaded, life, session, phase, period, traj, arms, cast>>

UpdateJoint(c) == Kind[c] = "joint" /\ ReadPart(c)
UpdateCartesian(c) == Kind[c] = "cartesian" /\ ReadPart(c)
UpdateHead(c) == Kind[c] = "head" /\ ReadPart(c)

\* get_velocity_target: each wheel under a lock of its own.
UpdateBase(c) == Kind[c] = "base" /\ ReadPart(c)

-----------------------------------------------------------------------------
(* Broadcasters and their RealtimePublisher                                *)

\* A mutant of Filled: unlock in place of unlockAndPublish.
FilledOnly(b) == [b EXCEPT !.lag = 0]

\* get_values_as_message, unlockAndPublish, last_pub_ = now().
Filled(b) == [b EXCEPT !.turn = "publisher", !.lag = 0]

\* trylock: needs the turn, and the lock that the other thread takes to look.
Broadcast(c) ==
  /\ c \in due \cap Broadcasters /\ walk = Nobody
  /\ cast[c].lag >= Interval /\ cast[c].turn = "realtime"
  /\ cast' = [cast EXCEPT ![c] = Filled(@)]
  /\ comp' = [comp EXCEPT ![c] = LookUp(@, session[c])]
  /\ due' = due \ {c}
  /\ UNCHANGED <<loaded, life, session, phase, period, traj, arms, topic, walk>>

\* Too early, OK; or trylock has failed, ERROR, which the manager only reports.
NoBroadcast(c) ==
  /\ c \in due \cap Broadcasters /\ walk = Nobody
  /\ due' = due \ {c}
  /\ UNCHANGED <<loaded, life, session, phase, period, data>>

\* The publisher's thread: copies the message and gives the turn back, publishes.
Copy(c) ==
  /\ c \in loaded \cap Broadcasters
  /\ cast[c].turn = "publisher" /\ cast[c].thread = "waiting"
  /\ cast' = [cast EXCEPT ![c] = [@ EXCEPT !.turn = "realtime", !.thread = "publishing"]]
  /\ UNCHANGED <<manager, traj, arms, topic, walk, comp>>

Publish(c) ==
  /\ c \in Broadcasters /\ cast[c].thread = "publishing"
  /\ cast' = [cast EXCEPT ![c].thread = "waiting"]
  /\ UNCHANGED <<manager, traj, arms, topic, walk, comp>>

-----------------------------------------------------------------------------
(* The lifecycle, and the control node's loop                              *)

NewTopic(c) ==
  [target |-> [p \in 1..Parts(c) |-> 0], used |-> [p \in 1..Reads(c) |-> 0],
   stamp |-> 0, serial |-> 0, acts |-> {}, cb |-> 0, upto |-> 0]
NewCast == [lag |-> 0, turn |-> "realtime", thread |-> "waiting"]
NewComp == [refs |-> <<>>, initialized |-> FALSE, dangled |-> FALSE]

Init ==
  /\ loaded \in Loads
  /\ life = [c \in Controllers |-> "unconfigured"]
  /\ session = [c \in Controllers |-> 0]
  /\ phase = "asleep" /\ period = 0 /\ due = {} /\ walk = Nobody
  /\ traj = [c \in Timed |-> [time |-> 0, since |-> 0, end |-> 0, done |-> FALSE]]
  /\ \E listed \in ArmLists :
       arms = [c \in loaded \cap MultiArm |-> [listed |-> listed, held |-> {}, source |-> <<>>,
                                   gains |-> <<>>]]
  /\ topic = [c \in Subscribers |-> NewTopic(c)]
  /\ comp = [c \in Semantic |-> NewComp]
  /\ cast = [c \in Broadcasters |-> NewCast]

\* Missing or short gains are a FAILURE.
ConfigureImpedance(c) == Kind[c] = "impedance" /\ Becomes(c, {"inactive", "unconfigured"})
ConfigureJoint(c) == Kind[c] = "joint" /\ Becomes(c, {"inactive", "unconfigured"})
ConfigureMoveToStart(c) == Kind[c] = "moveToStart" /\ Becomes(c, {"inactive", "unconfigured"})

\* last_pub_ = now() and a new publisher.
ConfigureState(c) == Kind[c] = "state" /\ Becomes(c, {"inactive"})
ConfigureModel(c) == Kind[c] = "model" /\ Becomes(c, {"inactive"})

\* robot_id and sim; sim is not declared, and without it as_bool throws.
ConfigureHead(c) == Kind[c] = "head" /\ Becomes(c, {"inactive", "finalized"})
ConfigureBase(c) == Kind[c] = "base" /\ Becomes(c, {"inactive", "finalized"})

ConfigureCartesian(c) == Kind[c] = "cartesian" /\ Becomes(c, {"inactive"})
ConfigureModelExample(c) == Kind[c] = "modelExample" /\ Becomes(c, {"inactive"})

\* arm_id, or nothing.
ConfigurePlain(c) ==
  /\ Kind[c] \in {"position", "velocity", "cartesianVelocity", "gravity"}
  /\ Becomes(c, {"inactive"})

\* on_configure makes a new semantic component.
Configure(c) ==
  /\ c \in loaded /\ life[c] = "unconfigured"
  /\ \/ ConfigureDualVelocity(c) \/ ConfigureMultiImpedance(c)
     \/ /\ \/ ConfigureImpedance(c) \/ ConfigureJoint(c) \/ ConfigureMoveToStart(c)
           \/ ConfigureState(c) \/ ConfigureModel(c) \/ ConfigurePlain(c)
           \/ ConfigureHead(c) \/ ConfigureBase(c)
           \/ ConfigureCartesian(c) \/ ConfigureModelExample(c)
        /\ UNCHANGED arms
  /\ comp' = IF c \in Semantic THEN [comp EXCEPT ![c] = NewComp] ELSE comp
  /\ cast' = IF c \in Broadcasters THEN [cast EXCEPT ![c] = NewCast] ELSE cast
  /\ UNCHANGED <<loaded, session, phase, period, due, traj, topic, walk>>

\* on_activate.  last_pub_ is not touched.
Activate(c) ==
  /\ Free /\ c \in loaded /\ life[c] = "inactive" /\ session[c] < MaxSessions
  /\ session' = [session EXCEPT ![c] = @ + 1]
  /\ ActivateTimed(c) /\ Assign(c)
  /\ IF c \in MultiArm THEN UpdateJointStates(c) ELSE UNCHANGED arms
  /\ IF Kind[c] \in {"joint", "cartesian"}
     THEN /\ topic' = [topic EXCEPT ![c] = [@ EXCEPT !.stamp = topic[c].stamp + 1,
                                       !.acts = topic[c].acts \cup {topic[c].stamp + 1}]]
          /\ walk' = [of |-> c, part |-> 1, activating |-> TRUE]
          /\ UNCHANGED life
     ELSE life' = [life EXCEPT ![c] = "active"] /\ UNCHANGED <<topic, walk>>
  /\ UNCHANGED <<loaded, phase, period, due, cast>>

Deactivate(c) ==
  /\ Free /\ c \in Active
  /\ life' = [life EXCEPT ![c] = "inactive"]
  /\ Release(c)
  /\ UNCHANGED <<loaded, session, phase, period, due, traj, arms, topic, walk, cast>>

\* The measured period; time has passed for everybody.
Begin ==
  /\ Free /\ phase = "asleep" /\ phase' = "awake"
  /\ \E dt \in 1..MaxPeriod :
       /\ period' = dt
       /\ traj' = [c \in Timed |-> IF c \in Active THEN [traj[c] EXCEPT !.since = Until(@ + dt)]
                                   ELSE traj[c]]
       /\ cast' = [c \in Broadcasters |->
                     [cast[c] EXCEPT !.lag = IF @ + dt > Interval THEN Interval ELSE @ + dt]]
  /\ UNCHANGED <<loaded, life, session, due, arms, topic, walk, comp>>

\* cm->update, to the next sleep_until.
StartUpdates ==
  /\ Free /\ phase = "awake"
  /\ phase' = "asleep" /\ due' = Active
  /\ UNCHANGED <<loaded, life, session, period, data>>

Update(c) ==
  /\ c \in due \ (Subscribers \cup Broadcasters) /\ walk = Nobody
  /\ due' = due \ {c}
  /\ \/ UpdatePosition(c) \/ UpdateVelocity(c) \/ UpdateCartesianVelocity(c)
     \/ UpdateDualVelocity(c) \/ UpdateImpedance(c) \/ UpdateMultiImpedance(c)
     \/ UpdateMoveToStart(c) \/ UpdateGravity(c) \/ UpdateModelExample(c)
  /\ UNCHANGED <<loaded, life, session, phase, period, topic, walk, cast>>

Step(c) ==
  \/ Update(c) \/ CapturePart(c) \/ Broadcast(c) \/ NoBroadcast(c)
  \/ UpdateJoint(c) \/ UpdateCartesian(c) \/ UpdateHead(c) \/ UpdateBase(c)
Loop == Begin \/ StartUpdates \/ \E c \in Controllers : Step(c)

Next ==
  \/ Loop
  \/ \E c \in Controllers :
       \/ Configure(c) \/ Activate(c) \/ Deactivate(c)
       \/ CallbackBegin(c) \/ CallbackWrite(c) \/ Copy(c) \/ Publish(c)

\* The node's loop and the publishers' threads never stop; and trylock, which fails
\* only in the moment the other thread looks at the message, does not always fail.
Fairness ==
  /\ WF_vars(Loop)
  /\ \A c \in Broadcasters :
       WF_vars(Copy(c)) /\ WF_vars(Publish(c)) /\ SF_vars(Broadcast(c))

Spec == Init /\ [][Next]_vars /\ Fairness

-----------------------------------------------------------------------------
Serials == 0..MaxMessages + MaxSessions

TypeOK ==
  /\ loaded \in Loads /\ due \subseteq loaded
  /\ life \in [Controllers -> {"unconfigured", "inactive", "active", "finalized"}]
  /\ session \in [Controllers -> 0..MaxSessions]
  /\ phase \in {"asleep", "awake"} /\ period \in 0..MaxPeriod
  /\ traj \in [Timed -> [time : 0..Horizon, since : 0..Horizon, end : 0..Horizon,
                         done : BOOLEAN]]
  /\ DOMAIN arms = loaded \cap MultiArm /\ \A c \in DOMAIN arms : arms[c].held \subseteq ToSet(Names)
  /\ DOMAIN topic = Subscribers
  /\ \A c \in Subscribers :
       /\ topic[c].target \in [1..Parts(c) -> Serials] /\ topic[c].stamp \in Serials
       /\ topic[c].cb \in 0..topic[c].upto
  /\ walk = Nobody \/ walk.of \in Subscribers
  /\ DOMAIN comp = Semantic /\ \A c \in Semantic : comp[c].dangled \in BOOLEAN
  /\ cast \in [Broadcasters -> [lag : 0..Interval, turn : {"realtime", "publisher"},
                                thread : {"waiting", "publishing"}]]

\* The entries of the parameters are in the order of the names.
InOrder(listed) == \A i, j \in DOMAIN listed : i < j => Key(listed[i]) < Key(listed[j])

\* What a controller reads is its own and current: an arm of several reads the
\* interfaces of its own joints although it searches by name, it has the gains of
\* its entry if the entries are in the order of the names, and a controller that
\* releases its references looks nothing up through those of an earlier session.
InterfacesAreOwn ==
  /\ \A c \in Active \cap MultiArm, n \in ToSet(Names) : n \in arms[c].held =>
       /\ arms[c].source[n] = n
       /\ InOrder(arms[c].listed) => arms[c].gains[n] = n
  /\ \A c \in Releasing : ~comp[c].dangled

\* A trajectory follows the clock of its session however the cycles come: once
\* updated it is nowhere behind the time since activation and at most one cycle
\* ahead of it (the cycle before the first update), and the motion to the start
\* position is commanded exactly until it ends.
TrajectoryOnTime ==
  \A c \in Active \cap Timed :
    LET ahead == traj[c].time - traj[c].since IN
    /\ ahead <= MaxPeriod
    /\ phase = "asleep" /\ c \notin due /\ traj[c].since > 0 => ahead >= 0
    /\ phase = "asleep" /\ c \notin due /\ traj[c].since > 0 /\ c \in Starting =>
         (traj[c].done <=> traj[c].since >= traj[c].end)

\* At rest a target is that of one message, or partly the position captured by an
\* activation its callback overlapped; the orientation is not newer than the
\* position; and the two wheels, read under two locks, never go back in time.
TargetsOfOneMessage ==
  \A c \in loaded \cap Subscribers :
    LET t == topic[c] IN
    walk.of # c =>
      /\ t.cb = 0 => t.target[1] = t.target[2] \/ {t.target[1], t.target[2]} \cap t.acts # {}
      /\ t.cb = 0 /\ Kind[c] = "cartesian" =>
           t.target[3] <= t.target[1] \/ ToSet(t.target) \cap t.acts # {}
      /\ Kind[c] = "base" => t.used[1] <= t.used[2]

\* A broadcaster that stays active publishes again and again, whatever the cycles,
\* the failures of trylock and the time it was inactive.
BroadcastGoesOn ==
  \A c \in Broadcasters : []<>(life[c] # "active" \/ cast[c].thread = "publishing")
=============================================================================
