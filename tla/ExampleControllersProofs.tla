---------------------- MODULE ExampleControllersProofs ----------------------
(***************************************************************************)
(* The small controllers and broadcasters (ExampleControllers), for any    *)
(* controllers, launches, arm names, cycles and numbers of messages.       *)
(***************************************************************************)
EXTENDS ExampleControllers, FiniteSetTheorems, TLAPS

-----------------------------------------------------------------------------
(***************************************************************************)
(* Whose members a step changes: those of one controller, except for the   *)
(* start of a cycle, when time passes for all.                             *)
(***************************************************************************)
Walks == [of : Subscribers \cup {"nobody"}, part : 0..4, activating : BOOLEAN]

\* Every variable that has a member per controller is a function on those.
Shapes ==
  /\ walk \in Walks
  /\ loaded \in SUBSET Controllers
  /\ life = [c \in Controllers |-> life[c]]
  /\ session = [c \in Controllers |-> session[c]]
  /\ traj = [c \in Timed |-> traj[c]]
  /\ arms = [c \in loaded \cap MultiArm |-> arms[c]]
  /\ topic = [c \in Subscribers |-> topic[c]]
  /\ comp = [c \in Semantic |-> comp[c]]
  /\ cast = [c \in Broadcasters |-> cast[c]]

\* The members of a controller after a step, those before it.
Untouched(c) ==
  /\ life'[c] = life[c] /\ session'[c] = session[c]
  /\ c \in Timed => traj'[c] = traj[c]
  /\ c \in loaded \cap MultiArm => arms'[c] = arms[c]
  /\ c \in Subscribers => topic'[c] = topic[c]
  /\ c \in Semantic => comp'[c] = comp[c]
  /\ c \in Broadcasters => cast'[c] = cast[c]

\* What the control node's thread has still to do with a controller.
Undisturbed(c) ==
  /\ UNCHANGED <<phase, period>>
  /\ c \in due' <=> c \in due
  /\ walk' = walk \/ (walk.of # c /\ walk'.of # c)

\* The steps of a controller.
Own(c) ==
  \/ Step(c) \/ Configure(c) \/ Activate(c) \/ Deactivate(c)
  \/ CallbackBegin(c) \/ CallbackWrite(c) \/ Copy(c) \/ Publish(c)

LEMMA NobodyWalks == Nobody \in Walks
BY DEF Nobody, Walks

LEMMA ShapesInit == Init => Shapes
BY LoadsNamed, NobodyWalks DEF Init, Shapes

LEMMA Steps ==
  [Next]_vars => UNCHANGED vars \/ Begin \/ StartUpdates \/ \E c \in Controllers : Own(c)
BY DEF Next, Loop, Own

LEMMA OfIn ==
  /\ Timed \subseteq Controllers /\ MultiArm \subseteq Controllers
  /\ Subscribers \subseteq Controllers /\ Semantic \subseteq Controllers
  /\ Broadcasters \subseteq Controllers /\ Releasing \subseteq Semantic
BY DEF Timed, Summing, ByTheClock, Starting, MultiArm, Subscribers, Semantic, Broadcasters,
       Releasing, Of

\* What a step of one controller keeps: the shapes, and what belongs to others.
Frame(d) ==
  /\ loaded' = loaded /\ UNCHANGED <<phase, period>>
  /\ Shapes' /\ \A c \in Controllers \ {d} : Untouched(c) /\ Undisturbed(c)

LEMMA FrameUpdate ==
  ASSUME Shapes, NEW d \in Controllers, Update(d)
  PROVE  Frame(d)
<1>1. /\ UNCHANGED <<loaded, life, session, phase, period, topic, walk, cast>>
      /\ d \in due /\ due' = due \ {d}
  BY DEF Update
<1>2. /\ traj' = traj \/ \E t : traj' = [traj EXCEPT ![d] = t]
      /\ arms' = arms \/ \E a : arms' = [arms EXCEPT ![d] = a]
      /\ comp' = comp \/ \E m : comp' = [comp EXCEPT ![d] = m]
  <2>1. CASE UpdatePosition(d) \/ UpdateVelocity(d) \/ UpdateCartesianVelocity(d)
             \/ UpdateDualVelocity(d)
    <3>1. FollowSum(d)
      BY <2>1 DEF UpdatePosition, UpdateVelocity, UpdateCartesianVelocity, UpdateDualVelocity
    <3> QED BY <3>1 DEF FollowSum
  <2>2. CASE UpdateImpedance(d)
    BY <2>2 DEF UpdateImpedance, UseModel
  <2>3. CASE UpdateMultiImpedance(d)
    BY <2>3 DEF UpdateMultiImpedance, UpdateJointStates
  <2>4. CASE UpdateMoveToStart(d)
    BY <2>4 DEF UpdateMoveToStart
  <2>5. CASE UpdateGravity(d) \/ UpdateModelExample(d)
    BY <2>5 DEF UpdateGravity, UpdateModelExample, UseModel
  <2> QED BY <2>1, <2>2, <2>3, <2>4, <2>5 DEF Update
<1>3. Shapes'
  BY <1>1, <1>2 DEF Shapes
<1>4. ASSUME NEW c \in Controllers \ {d} PROVE Untouched(c) /\ Undisturbed(c)
  BY <1>1, <1>2 DEF Shapes, Untouched, Undisturbed
<1> QED BY <1>1, <1>3, <1>4 DEF Frame

LEMMA FrameCapture ==
  ASSUME Shapes, NEW d \in Controllers, CapturePart(d)
  PROVE  Frame(d)
<1>0. "nobody" \notin Controllers
  BY LoadsNamed
<1>1. /\ UNCHANGED <<loaded, session, phase, period, due, traj, arms, comp, cast>>
      /\ walk.of = d
      /\ topic' = [topic EXCEPT ![d].target[walk.part] = Max(topic[d].acts)]
      /\ \/ walk' = [walk EXCEPT !.part = @ + 1] /\ walk.part < Parts(d) /\ life' = life
         \/ walk' = Nobody /\ life' = [life EXCEPT ![d] = "active"]
  BY DEF CapturePart
<1>2. walk' \in Walks /\ (walk' = walk \/ walk'.of = d \/ walk'.of = "nobody")
  <2>1. CASE walk' = [walk EXCEPT !.part = @ + 1] /\ walk.part < Parts(d)
    BY <1>1, <2>1 DEF Shapes, Walks, Parts
  <2>2. CASE walk' = Nobody
    BY <2>2, NobodyWalks DEF Nobody
  <2> QED BY <1>1, <2>1, <2>2
<1>3. Shapes'
  BY <1>1, <1>2 DEF Shapes
<1>4. ASSUME NEW c \in Controllers \ {d} PROVE Untouched(c) /\ Undisturbed(c)
  BY <1>0, <1>1, <1>2 DEF Shapes, Untouched, Undisturbed
<1> QED BY <1>1, <1>3, <1>4 DEF Frame

LEMMA FrameRead ==
  ASSUME Shapes, NEW d \in Controllers, ReadPart(d)
  PROVE  Frame(d)
<1>0. "nobody" \notin Controllers
  BY LoadsNamed
<1>1. /\ UNCHANGED <<loaded, life, session, phase, period, traj, arms, cast>>
      /\ walk = Nobody \/ walk.of = d
      /\ due' = due \/ due' = due \ {d}
      /\ walk' = Nobody \/ walk'.of = d
      /\ comp' = comp \/ \E m : comp' = [comp EXCEPT ![d] = m]
  BY DEF ReadPart, UseModel
<1>5. walk' \in Walks
  <2> DEFINE part == IF walk = Nobody THEN 1 ELSE walk.part
  <2>1. walk' = Nobody \/ (walk' = [of |-> d, part |-> part + 1, activating |-> FALSE]
                            /\ part < Reads(d) /\ d \in Subscribers)
    BY DEF ReadPart
  <2>2. part \in 0..4 /\ Reads(d) \in 0..4
    BY DEF Shapes, Walks, Reads
  <2>3. part + 1 \in 0..4 \/ ~ (part < Reads(d))
    BY <2>2
  <2> HIDE DEF part
  <2>4. ASSUME part < Reads(d), d \in Subscribers
        PROVE  [of |-> d, part |-> part + 1, activating |-> FALSE] \in Walks
    BY <2>3, <2>4, Zenon DEF Walks
  <2> QED BY <2>1, <2>4, NobodyWalks
<1>2. \E t : topic' = [topic EXCEPT ![d] = t]
  BY DEF ReadPart
<1>3. Shapes'
  BY <1>1, <1>2, <1>5 DEF Shapes
<1>4. ASSUME NEW c \in Controllers \ {d} PROVE Untouched(c) /\ Undisturbed(c)
  BY <1>0, <1>1, <1>2 DEF Shapes, Untouched, Undisturbed, Nobody
<1> QED BY <1>1, <1>3, <1>4 DEF Frame

LEMMA FrameCast ==
  ASSUME Shapes, NEW d \in Controllers,
         Broadcast(d) \/ NoBroadcast(d) \/ Copy(d) \/ Publish(d)
  PROVE  Frame(d)
<1>1. /\ UNCHANGED <<loaded, life, session, phase, period, traj, arms, topic, walk>>
      /\ due' = due \/ due' = due \ {d}
      /\ comp' = comp \/ \E m : comp' = [comp EXCEPT ![d] = m]
      /\ cast' = cast \/ \E b : cast' = [cast EXCEPT ![d] = b]
  <2>1. CASE Broadcast(d)
    BY <2>1 DEF Broadcast
  <2>2. CASE NoBroadcast(d)
    BY <2>2 DEF NoBroadcast, data
  <2>3. CASE Copy(d)
    BY <2>3 DEF Copy, manager
  <2>4. CASE Publish(d)
    BY <2>4 DEF Publish, manager
  <2> QED BY <2>1, <2>2, <2>3, <2>4
<1>2. Shapes'
  BY <1>1 DEF Shapes
<1>3. ASSUME NEW c \in Controllers \ {d} PROVE Untouched(c) /\ Undisturbed(c)
  BY <1>1 DEF Shapes, Untouched, Undisturbed
<1> QED BY <1>1, <1>2, <1>3 DEF Frame

\* What on_configure does to the lifecycle and to the arms.
LEMMA ConfigureEffect ==
  ASSUME NEW d \in Controllers, Configure(d)
  PROVE  /\ d \in loaded /\ life[d] = "unconfigured"
         /\ \E l \in {"inactive", "unconfigured", "finalized"} : life' = [life EXCEPT ![d] = l]
         /\ arms' = arms \/ (d \in MultiArm /\ WithArms(d))
         /\ comp' = IF d \in Semantic THEN [comp EXCEPT ![d] = NewComp] ELSE comp
         /\ cast' = IF d \in Broadcasters THEN [cast EXCEPT ![d] = NewCast] ELSE cast
         /\ UNCHANGED <<loaded, session, phase, period, due, traj, topic, walk>>
<1>1. /\ d \in loaded /\ life[d] = "unconfigured"
      /\ comp' = IF d \in Semantic THEN [comp EXCEPT ![d] = NewComp] ELSE comp
      /\ cast' = IF d \in Broadcasters THEN [cast EXCEPT ![d] = NewCast] ELSE cast
      /\ UNCHANGED <<loaded, session, phase, period, due, traj, topic, walk>>
  BY DEF Configure
<1>2. CASE ConfigureDualVelocity(d)
  <2>1. d \in MultiArm
    BY <1>2 DEF ConfigureDualVelocity, MultiArm, Of
  <2> QED BY <1>1, <1>2, <2>1 DEF ConfigureDualVelocity, Becomes
<1>3. CASE ConfigureMultiImpedance(d)
  <2>1. d \in MultiArm
    BY <1>3 DEF ConfigureMultiImpedance, MultiArm, Of
  <2> QED BY <1>1, <1>3, <2>1 DEF ConfigureMultiImpedance, Becomes
<1>4. CASE /\ \/ ConfigureImpedance(d) \/ ConfigureJoint(d) \/ ConfigureMoveToStart(d)
              \/ ConfigureState(d) \/ ConfigureModel(d) \/ ConfigurePlain(d)
              \/ ConfigureHead(d) \/ ConfigureBase(d)
              \/ ConfigureCartesian(d) \/ ConfigureModelExample(d)
           /\ UNCHANGED arms
  <2>1. \E l \in {"inactive", "unconfigured", "finalized"} : life' = [life EXCEPT ![d] = l]
    BY <1>4 DEF ConfigureImpedance, ConfigureJoint, ConfigureMoveToStart, ConfigureState,
                ConfigureModel, ConfigurePlain, ConfigureHead, ConfigureBase,
                ConfigureCartesian, ConfigureModelExample, Becomes
  <2> QED BY <1>1, <1>4, <2>1
<1> QED BY <1>2, <1>3, <1>4 DEF Configure

\* on_configure adds the arms that the parameters name; their gains follow the order.
Held(a) == a.held \cup ToSet(a.listed)
Gains(a) == [n \in Held(a) |-> a.listed[PlaceIn(n, Held(a))]]
SomeArms(d, a) == arms' = [arms EXCEPT ![d] = a]
LEMMA ArmsGain ==
  ASSUME NEW d, WithArms(d), Shapes, d \in loaded \cap MultiArm
  PROVE  SomeArms(d, [[arms[d] EXCEPT !.held = Held(arms[d])] EXCEPT !.gains = Gains(arms[d])])
BY DEF WithArms, SomeArms, Held, Gains, Shapes

LEMMA FrameConfigure ==
  ASSUME Shapes, NEW d \in Controllers, Configure(d)
  PROVE  Frame(d)
<1>1. /\ UNCHANGED <<loaded, session, phase, period, due, traj, topic, walk>>
      /\ \E l : life' = [life EXCEPT ![d] = l]
      /\ comp' = comp \/ \E m : comp' = [comp EXCEPT ![d] = m]
      /\ cast' = cast \/ \E b : cast' = [cast EXCEPT ![d] = b]
  BY ConfigureEffect
<1>4. arms' = arms \/ \E a : arms' = [arms EXCEPT ![d] = a]
  BY ConfigureEffect, ArmsGain DEF SomeArms
<1>2. Shapes'
  BY <1>1, <1>4 DEF Shapes
<1>3. ASSUME NEW c \in Controllers \ {d} PROVE Untouched(c) /\ Undisturbed(c)
  BY <1>1, <1>4 DEF Shapes, Untouched, Undisturbed
<1> QED BY <1>1, <1>2, <1>3 DEF Frame

LEMMA FrameActivate ==
  ASSUME Shapes, NEW d \in Controllers, Activate(d)
  PROVE  Frame(d)
<1>0. "nobody" \notin Controllers
  BY LoadsNamed
<1>1. /\ UNCHANGED <<loaded, phase, period, due, cast>>
      /\ session' = [session EXCEPT ![d] = @ + 1] /\ walk = Nobody
  BY DEF Activate, Free
<1>2. traj' = traj \/ \E t : traj' = [traj EXCEPT ![d] = t]
  BY DEF Activate, ActivateTimed
<1>3. arms' = arms \/ \E a : arms' = [arms EXCEPT ![d] = a]
  BY DEF Activate, UpdateJointStates
<1>4. comp' = comp \/ \E m : comp' = [comp EXCEPT ![d] = m]
  BY DEF Activate, Assign
<1>5. /\ topic' = topic \/ \E t : topic' = [topic EXCEPT ![d] = t]
      /\ \/ walk' = walk
         \/ /\ walk' = [of |-> d, part |-> 1, activating |-> TRUE]
            /\ Kind[d] \in {"joint", "cartesian"}
      /\ life' = life \/ \E l : life' = [life EXCEPT ![d] = l]
  BY DEF Activate
<1>8. walk' \in Walks /\ (walk' = walk \/ walk'.of = d)
  <2>1. CASE walk' = walk
    BY <2>1 DEF Shapes
  <2>2. CASE walk' = [of |-> d, part |-> 1, activating |-> TRUE] /\ d \in Subscribers
    <3>1. 1 \in 0..4 /\ TRUE \in BOOLEAN /\ d \in Subscribers \cup {"nobody"}
      BY <2>2
    <3> QED BY <2>2, <3>1, Zenon DEF Walks
  <2> QED BY <1>5, <2>1, <2>2 DEF Subscribers, Of
<1>6. Shapes'
  BY <1>1, <1>2, <1>3, <1>4, <1>5, <1>8 DEF Shapes
<1>7. ASSUME NEW c \in Controllers \ {d} PROVE Untouched(c) /\ Undisturbed(c)
  <2>1. Untouched(c)
    BY <1>1, <1>2, <1>3, <1>4, <1>5 DEF Shapes, Untouched
  <2>2. Undisturbed(c)
    BY <1>0, <1>1, <1>8 DEF Undisturbed, Nobody
  <2> QED BY <2>1, <2>2
<1> QED BY <1>1, <1>6, <1>7 DEF Frame

LEMMA FrameDeactivate ==
  ASSUME Shapes, NEW d \in Controllers, Deactivate(d)
  PROVE  Frame(d)
<1>1. /\ UNCHANGED <<loaded, session, phase, period, due, traj, arms, topic, walk, cast>>
      /\ life' = [life EXCEPT ![d] = "inactive"]
      /\ comp' = comp \/ \E m : comp' = [comp EXCEPT ![d] = m]
  BY DEF Deactivate, Release
<1>2. Shapes'
  BY <1>1 DEF Shapes
<1>3. ASSUME NEW c \in Controllers \ {d} PROVE Untouched(c) /\ Undisturbed(c)
  BY <1>1 DEF Shapes, Untouched, Undisturbed
<1> QED BY <1>1, <1>2, <1>3 DEF Frame

LEMMA FrameCallback ==
  ASSUME Shapes, NEW d \in Controllers, CallbackBegin(d) \/ CallbackWrite(d)
  PROVE  Frame(d)
<1>1. UNCHANGED <<loaded, life, session, phase, period, due, traj, arms, walk, comp, cast>>
  BY DEF CallbackBegin, CallbackWrite, manager
<1>2. \E t : topic' = [topic EXCEPT ![d] = t]
  BY DEF CallbackBegin, CallbackWrite
<1>3. Shapes'
  BY <1>1, <1>2 DEF Shapes
<1>4. ASSUME NEW c \in Controllers \ {d} PROVE Untouched(c) /\ Undisturbed(c)
  BY <1>1, <1>2 DEF Shapes, Untouched, Undisturbed
<1> QED BY <1>1, <1>3, <1>4 DEF Frame

\* A subscribing controller reads its target, whatever its class.
LEMMA OwnSteps ==
  ASSUME NEW d \in Controllers, Own(d)
  PROVE  \/ Update(d) \/ CapturePart(d) \/ ReadPart(d) \/ Broadcast(d) \/ NoBroadcast(d)
         \/ Configure(d) \/ Activate(d) \/ Deactivate(d)
         \/ CallbackBegin(d) \/ CallbackWrite(d) \/ Copy(d) \/ Publish(d)
BY DEF Own, Step, UpdateJoint, UpdateCartesian, UpdateHead, UpdateBase

LEMMA FrameOwn ==
  ASSUME Shapes, NEW d \in Controllers, Own(d)
  PROVE  Frame(d)
BY OwnSteps, FrameUpdate, FrameCapture, FrameRead, FrameCast, FrameConfigure, FrameActivate,
   FrameDeactivate, FrameCallback

LEMMA ShapesNext == Shapes /\ [Next]_vars => Shapes'
<1> SUFFICES ASSUME Shapes, [Next]_vars PROVE Shapes'
  OBVIOUS
<1>1. CASE UNCHANGED vars
  BY <1>1 DEF vars, Shapes
<1>2. CASE Begin
  <2>1. /\ UNCHANGED <<loaded, life, session, arms, topic, walk, comp>>
        /\ \E f : traj' = [c \in Timed |-> f[c]]
        /\ \E f : cast' = [c \in Broadcasters |-> f[c]]
    BY <1>2 DEF Begin
  <2> QED BY <2>1 DEF Shapes
<1>3. CASE StartUpdates
  BY <1>3 DEF StartUpdates, Shapes, data
<1>4. ASSUME NEW d \in Controllers, Own(d) PROVE Shapes'
  BY <1>4, FrameOwn DEF Frame
<1> QED BY <1>1, <1>2, <1>3, <1>4, Steps

\* So an invariant about the members of each controller is kept if it is by the steps
\* of the controller itself and by the loop.
LEMMA OneAtATime ==
  ASSUME Shapes, [Next]_vars, NEW c \in Controllers
  PROVE  /\ loaded' = loaded
         /\ \/ Begin \/ StartUpdates \/ Own(c)
            \/ (Untouched(c) /\ Undisturbed(c))
<1>1. CASE UNCHANGED vars
  BY <1>1 DEF vars, Untouched, Undisturbed
<1>2. CASE Begin \/ StartUpdates
  BY <1>2 DEF Begin, StartUpdates
<1>3. ASSUME NEW d \in Controllers, Own(d)
      PROVE  loaded' = loaded /\ (Own(c) \/ (Untouched(c) /\ Undisturbed(c)))
  <2>1. Frame(d)
    BY <1>3, FrameOwn
  <2>2. CASE d = c
    <3>1. Own(c)
      BY <1>3, <2>2
    <3> QED BY <2>1, <3>1 DEF Frame
  <2>3. CASE d # c
    <3>1. c \in Controllers \ {d}
      BY <2>3
    <3> QED BY <2>1, <3>1 DEF Frame
  <2> QED BY <2>2, <2>3
<1> QED BY <1>1, <1>2, <1>3, Steps

-----------------------------------------------------------------------------
(***************************************************************************)
(* The lifecycle, and the loop of the control node.                        *)
(***************************************************************************)
States == {"unconfigured", "inactive", "active", "finalized"}

\* The thread walks through the target of a controller that it activates, or of one
\* that it has still to update.
Walking ==
  \/ walk = Nobody
  \/ /\ walk.activating /\ walk.of \in Subscribers /\ Kind[walk.of] \in {"joint", "cartesian"}
     /\ life[walk.of] = "inactive" /\ due = {} /\ walk.part \in 1..Parts(walk.of)
  \/ ~walk.activating /\ walk.of \in due \cap Subscribers /\ walk.part \in 2..Reads(walk.of)

\* Only active controllers are updated, in a cycle that has taken its time.
Lives ==
  /\ loaded \in Loads
  /\ life \in [Controllers -> States]
  /\ session \in [Controllers -> 0..MaxSessions]
  /\ phase \in {"asleep", "awake"} /\ period \in 0..MaxPeriod
  /\ due \subseteq Active
  /\ phase = "awake" => due = {}
  /\ phase = "awake" \/ due # {} => period \in 1..MaxPeriod

LEMMA LivesInit == Init => Lives /\ Walking
<1> SUFFICES ASSUME Init PROVE Lives /\ Walking
  OBVIOUS
<1>1. loaded \in Loads /\ due = {} /\ life \in [Controllers -> States] /\ walk = Nobody
  BY DEF Init, States
<1>2. session \in [Controllers -> 0..MaxSessions] /\ phase = "asleep" /\ period \in 0..MaxPeriod
  BY BoundsNatural, TimesPositive DEF Init
<1> QED BY <1>1, <1>2 DEF Lives, Walking

\* What a step may do to the lifecycle of its controller.
LEMMA Lifecycles ==
  ASSUME Shapes, Lives, Walking, NEW c \in Controllers, Own(c)
  PROVE  \/ /\ c \in loaded /\ life[c] = "unconfigured" /\ walk' = walk
            /\ life' \in [Controllers -> States] /\ life'[c] # "active"
            /\ UNCHANGED <<session, due>>
         \/ /\ c \in loaded /\ life[c] = "inactive" /\ Free
            /\ session' = [session EXCEPT ![c] = @ + 1] /\ session[c] < MaxSessions
            /\ due' = due
            /\ \/ life' = [life EXCEPT ![c] = "active"] /\ walk' = walk
               \/ /\ life' = life /\ Kind[c] \in {"joint", "cartesian"}
                  /\ walk' = [of |-> c, part |-> 1, activating |-> TRUE]
         \/ /\ c \in Active /\ Free /\ UNCHANGED <<session, due, walk>>
            /\ life' = [life EXCEPT ![c] = "inactive"]
         \/ /\ walk.of = c /\ walk.activating /\ UNCHANGED <<session, due>>
            /\ \/ /\ walk.part < Parts(c) /\ walk' = [walk EXCEPT !.part = @ + 1]
                  /\ life' = life
               \/ walk' = Nobody /\ life' = [life EXCEPT ![c] = "active"]
         \/ /\ UNCHANGED <<life, session>> /\ c \in Subscribers \cap due
            /\ walk = Nobody \/ (walk.of = c /\ ~walk.activating)
            /\ \/ /\ due' = due
                  /\ \E p \in 2..Reads(c) : walk' = [of |-> c, part |-> p, activating |-> FALSE]
               \/ walk' = Nobody /\ due' = due \ {c}
         \/ /\ UNCHANGED <<life, session, walk>>
            /\ due' = due \/ (walk = Nobody /\ due' = due \ {c})
<1>1. CASE Configure(c)
  <2>1. PICK l \in {"inactive", "unconfigured", "finalized"} : life' = [life EXCEPT ![c] = l]
    BY <1>1, ConfigureEffect
  <2>2. life' \in [Controllers -> States] /\ life'[c] # "active"
    BY <2>1 DEF Lives, States
  <2> QED BY <1>1, <2>2, ConfigureEffect
<1>2. CASE Activate(c)
  BY <1>2 DEF Activate, Free
<1>3. CASE Deactivate(c)
  BY <1>3 DEF Deactivate
<1>4. CASE CapturePart(c)
  BY <1>4 DEF CapturePart
<1>5. CASE ReadPart(c)
  <2> DEFINE part == IF walk = Nobody THEN 1 ELSE walk.part
  <2>1. /\ UNCHANGED <<life, session>> /\ c \in Subscribers
        /\ (walk = Nobody /\ c \in due) \/ (walk.of = c /\ ~walk.activating)
        /\ \/ part < Reads(c) /\ due' = due
              /\ walk' = [of |-> c, part |-> part + 1, activating |-> FALSE]
           \/ walk' = Nobody /\ due' = due \ {c}
    BY <1>5 DEF ReadPart
  <2>2. walk = Nobody => walk.of # c
    BY LoadsNamed DEF Nobody
  <2>3. c \in due /\ part \in 1..4
    BY <2>1, <2>2 DEF Walking, Reads, Nobody
  <2>4. part < Reads(c) => part + 1 \in 2..Reads(c)
    BY <2>3 DEF Reads
  <2> HIDE DEF part
  <2> QED BY <2>1, <2>3, <2>4
<1>6. CASE Update(c) \/ Broadcast(c) \/ NoBroadcast(c)
  BY <1>6 DEF Update, Broadcast, NoBroadcast, data
<1>7. CASE CallbackBegin(c) \/ CallbackWrite(c) \/ Copy(c) \/ Publish(c)
  BY <1>7 DEF CallbackBegin, CallbackWrite, Copy, Publish, manager
<1> QED BY <1>1, <1>2, <1>3, <1>4, <1>5, <1>6, <1>7, OwnSteps

LEMMA LivesNext == Shapes /\ Lives /\ Walking /\ [Next]_vars => Lives' /\ Walking'
<1> SUFFICES ASSUME Shapes, Lives, Walking, [Next]_vars PROVE Lives' /\ Walking'
  OBVIOUS
<1>1. CASE UNCHANGED vars
  BY <1>1 DEF vars, Lives, Walking, Active
<1>2. CASE Begin
  <2>1. /\ UNCHANGED <<loaded, life, session, due, walk>> /\ Free
        /\ phase' = "awake" /\ period' \in 1..MaxPeriod
    BY <1>2 DEF Begin
  <2> QED BY <2>1 DEF Lives, Walking, Active, Free
<1>3. CASE StartUpdates
  BY <1>3 DEF StartUpdates, data, Lives, Walking, Active, Free
<1>4. ASSUME NEW c \in Controllers, Own(c) PROVE Lives' /\ Walking'
  <2>0. UNCHANGED <<loaded, phase, period>>
    BY <1>4, FrameOwn DEF Frame
  <2>a. \A s : session' = [session EXCEPT ![c] = s] /\ s \in 0..MaxSessions
           => session' \in [Controllers -> 0..MaxSessions]
    BY DEF Lives
  <2>b. \A s \in 0..MaxSessions : s < MaxSessions => s + 1 \in 0..MaxSessions
    BY BoundsNatural
  <2>c. walk = Nobody => walk.of \notin Controllers
    BY LoadsNamed DEF Nobody
  <2>1. CASE /\ life[c] = "unconfigured" /\ walk' = walk
             /\ life' \in [Controllers -> States] /\ life'[c] # "active"
             /\ UNCHANGED <<session, due>>
    <3>1. \A d \in Controllers \ {c} : life'[d] = life[d]
      BY <1>4, FrameOwn DEF Frame, Untouched
    <3>2. Active' = Active
      BY <2>0, <2>1, <3>1, LoadsNamed DEF Active, Lives
    <3>3. walk = Nobody \/ (walk.of \in Controllers \ {c} /\ life'[walk.of] = life[walk.of])
          \/ (~walk.activating /\ walk.of \in due \cap Subscribers)
      BY <2>1, <3>1, OfIn DEF Walking
    <3>4. Walking'
      BY <2>1, <3>3 DEF Walking
    <3> QED BY <2>0, <2>1, <3>2, <3>4 DEF Lives
  <2>2. CASE /\ life[c] = "inactive" /\ Free
             /\ session' = [session EXCEPT ![c] = @ + 1] /\ session[c] < MaxSessions
             /\ due' = due
             /\ \/ life' = [life EXCEPT ![c] = "active"] /\ walk' = walk
                \/ /\ life' = life /\ Kind[c] \in {"joint", "cartesian"}
                   /\ walk' = [of |-> c, part |-> 1, activating |-> TRUE]
    <3>1. session' \in [Controllers -> 0..MaxSessions]
      BY <2>2, <2>a, <2>b DEF Lives
    <3>2. life' \in [Controllers -> States] /\ due = {}
      BY <2>2 DEF Lives, States, Free
    <3>3. Walking'
      <4>1. CASE walk' = walk
        BY <2>2, <4>1 DEF Walking, Free
      <4>2. CASE /\ life' = life /\ Kind[c] \in {"joint", "cartesian"}
                 /\ walk' = [of |-> c, part |-> 1, activating |-> TRUE]
        <5>1. 1 \in 1..Parts(c) /\ c \in Subscribers
          BY <4>2 DEF Parts, Subscribers, Of
        <5>2. walk'.activating /\ walk'.of = c /\ walk'.part = 1
          BY <4>2
        <5> QED BY <2>2, <3>2, <4>2, <5>1, <5>2 DEF Walking
      <4> QED BY <2>2, <4>1, <4>2
    <3> QED BY <2>0, <2>2, <3>1, <3>2, <3>3 DEF Lives
  <2>3. CASE /\ c \in Active /\ Free /\ UNCHANGED <<session, due, walk>>
             /\ life' = [life EXCEPT ![c] = "inactive"]
    BY <2>0, <2>3 DEF Lives, Walking, Free, States, Active
  <2>4. CASE /\ walk.of = c /\ walk.activating /\ UNCHANGED <<session, due>>
             /\ \/ /\ walk.part < Parts(c) /\ walk' = [walk EXCEPT !.part = @ + 1]
                   /\ life' = life
                \/ walk' = Nobody /\ life' = [life EXCEPT ![c] = "active"]
    <3>1. /\ due = {} /\ life[c] = "inactive" /\ c \in Subscribers /\ walk.part \in 1..Parts(c)
          /\ Kind[c] \in {"joint", "cartesian"}
      BY <2>4, <2>c DEF Walking
    <3>2. life' \in [Controllers -> States]
      BY <2>4 DEF Lives, States
    <3>3. Walking'
      <4>1. CASE walk' = Nobody
        BY <4>1 DEF Walking
      <4>2. CASE /\ walk.part < Parts(c) /\ walk' = [walk EXCEPT !.part = @ + 1]
                 /\ life' = life
        <5>1. walk'.of = c /\ walk'.activating /\ walk'.part = walk.part + 1
          BY <2>4, <4>2 DEF Shapes, Walks
        <5>2. walk.part + 1 \in 1..Parts(c)
          BY <3>1, <4>2 DEF Parts
        <5> QED BY <2>4, <3>1, <4>2, <5>1, <5>2 DEF Walking
      <4> QED BY <2>4, <4>1, <4>2
    <3> QED BY <2>0, <2>4, <3>1, <3>2, <3>3 DEF Lives
  <2>5. CASE /\ UNCHANGED <<life, session>> /\ c \in Subscribers \cap due
             /\ walk = Nobody \/ (walk.of = c /\ ~walk.activating)
             /\ \/ /\ due' = due
                   /\ \E p \in 2..Reads(c) : walk' = [of |-> c, part |-> p, activating |-> FALSE]
                \/ walk' = Nobody /\ due' = due \ {c}
    <3>1. Walking'
      <4>1. CASE walk' = Nobody
        BY <4>1 DEF Walking
      <4>2. ASSUME due' = due, NEW p \in 2..Reads(c),
                   walk' = [of |-> c, part |-> p, activating |-> FALSE]
            PROVE  Walking'
        <5>1. walk'.of = c /\ walk'.part = p /\ ~walk'.activating
          BY <4>2
        <5> QED BY <2>5, <4>2, <5>1 DEF Walking
      <4> QED BY <2>5, <4>1, <4>2
    <3> QED BY <2>0, <2>5, <3>1 DEF Lives, Active
  <2>6. CASE /\ UNCHANGED <<life, session, walk>>
             /\ due' = due \/ (walk = Nobody /\ due' = due \ {c})
    <3>1. Walking'
      BY <2>6 DEF Walking
    <3> QED BY <2>0, <2>6, <3>1 DEF Lives, Active
  <2> QED BY <1>4, <2>1, <2>2, <2>3, <2>4, <2>5, <2>6, Lifecycles
<1> QED BY <1>1, <1>2, <1>3, <1>4, Steps

-----------------------------------------------------------------------------
(***************************************************************************)
(* Trajectories: the time of a controller and the time since activation.   *)
(***************************************************************************)
Times == [time : 0..Horizon, since : 0..Horizon, end : 0..Horizon, done : BOOLEAN]

\* Updated in this cycle; time has not passed since.
Settled(c) == phase = "asleep" /\ c \notin due

\* A sum of periods, before and after the period at hand is added.
SumFits(t, pending) ==
  LET sum == IF pending THEN Until(t.time + period) ELSE t.time
  IN t.since <= sum /\ sum <= t.since + MaxPeriod

\* A clock, which is read in every update.
ClockFits(t, pending) == t.time <= t.since /\ (~pending => t.time = t.since)

\* The flag says whether the motion is over at the time that was read last.
MoveFits(t, pending) == ~pending /\ t.since > 0 => (t.done <=> t.since >= t.end)

TimeFits(c, t, pending) ==
  /\ c \in Summing => SumFits(t, pending)
  /\ c \notin Summing => ClockFits(t, pending)
  /\ c \in Starting => MoveFits(t, pending)

OnTime(c) == TimeFits(c, traj[c], ~Settled(c))

Trajectories ==
  /\ traj \in [Timed -> Times]
  /\ \A c \in Active \cap Timed : OnTime(c)

LEMMA Capped ==
  /\ \A t \in Nat : Until(t) \in 0..Horizon /\ Until(t) <= t
  /\ \A t, u \in Nat : t <= u => Until(t) <= Until(u)
  /\ \A t \in 0..Horizon : Until(t) = t
  /\ \A t, u \in Nat : Until(t + u) <= Until(t) + u
BY TimesPositive DEF Until

\* A cycle begins: since grows by the period, and the sum is short of it.
LEMMA TimePasses ==
  ASSUME NEW c \in Timed, NEW t \in Times, NEW dt \in 1..MaxPeriod, period' = dt,
         TimeFits(c, t, FALSE), NEW u, u = [t EXCEPT !.since = Until(@ + dt)]
  PROVE  u \in Times /\ TimeFits(c, u, TRUE)'
<1>1. /\ t.time \in 0..Horizon /\ t.since \in 0..Horizon /\ dt \in Nat
      /\ Until(t.since + dt) \in 0..Horizon
      /\ t.time \in Nat /\ t.since \in Nat /\ t.since + dt \in Nat
  BY Capped, TimesPositive DEF Times
<1>2. u \in Times /\ u.time = t.time /\ u.since = Until(t.since + dt)
  BY <1>1 DEF Times
<1>3. CASE c \in Summing
  <2>1. t.since <= t.time /\ t.time <= t.since + MaxPeriod
    BY <1>3 DEF TimeFits, SumFits
  <2>2. Until(t.since + dt) <= Until(t.time + dt)
    BY <1>1, <2>1, TimesPositive DEF Until
  <2>3. Until(t.time + dt) <= Until(t.since + dt) + MaxPeriod
    BY <1>1, <2>1, TimesPositive DEF Until
  <2>4. c \notin Starting
    BY <1>3 DEF Summing, Starting, Of
  <2>5. SumFits(u, TRUE)'
    BY <1>2, <2>2, <2>3 DEF SumFits, Until
  <2> QED BY <1>2, <1>3, <2>4, <2>5 DEF TimeFits
<1>4. CASE c \notin Summing
  <2>1. t.time = t.since
    BY <1>4 DEF TimeFits, ClockFits
  <2>2. t.time <= Until(t.since + dt)
    BY <1>1, <2>1, TimesPositive DEF Until
  <2> QED BY <1>2, <1>4, <2>2 DEF TimeFits, ClockFits, MoveFits
<1> QED BY <1>3, <1>4

\* The three kinds of update: the controller has caught up with its clock.
LEMMA Updated ==
  ASSUME NEW c \in Timed, NEW t \in Times, TimeFits(c, t, TRUE), period \in 0..MaxPeriod
  PROVE  /\ Summed(t) \in Times /\ Clocked(t) \in Times /\ Moved(t) \in Times
         /\ c \in Summing => TimeFits(c, Summed(t), FALSE)
         /\ c \in ByTheClock => TimeFits(c, Clocked(t), FALSE)
         /\ c \in Starting => TimeFits(c, Moved(t), FALSE)
<1>1. t.time \in 0..Horizon /\ t.since \in 0..Horizon /\ t.end \in 0..Horizon
  BY DEF Times
<1>2. Until(t.time + period) \in 0..Horizon
  <2>1. t.time + period \in Nat
    BY <1>1, TimesPositive
  <2> QED BY <2>1, Capped
<1>3. /\ Summed(t) \in Times /\ Summed(t).time = Until(t.time + period)
      /\ Summed(t).since = t.since
  BY <1>2 DEF Summed, Times
<1>4. Clocked(t) \in Times /\ Clocked(t).time = t.since /\ Clocked(t).since = t.since
  BY <1>1 DEF Clocked, Times
<1>5. /\ Moved(t) \in Times /\ Moved(t).time = t.since /\ Moved(t).since = t.since
      /\ Moved(t).end = t.end /\ (Moved(t).done <=> t.since >= t.end)
  <2> DEFINE over == t.since >= t.end
  <2>1. over \in BOOLEAN
    BY <1>1
  <2>2. Moved(t) = [t EXCEPT !.time = t.since, !.done = over]
    BY DEF Moved
  <2> HIDE DEF over
  <2>3. /\ Moved(t) \in Times /\ Moved(t).time = t.since /\ Moved(t).since = t.since
        /\ Moved(t).end = t.end
    BY <1>1, <2>1, <2>2 DEF Times
  <2>4. Moved(t).done = over
    BY <2>2 DEF Times
  <2> QED BY <2>3, <2>4 DEF over
<1>6. /\ c \in Summing => c \notin Starting
      /\ c \in ByTheClock => c \notin Summing /\ c \notin Starting
      /\ c \in Starting => c \notin Summing
  BY DEF Summing, Starting, ByTheClock, Of
<1>7. c \in Summing => SumFits(t, TRUE)
  BY DEF TimeFits
<1>8. c \in Summing => TimeFits(c, Summed(t), FALSE)
  BY <1>3, <1>6, <1>7 DEF TimeFits, SumFits
<1>9. c \in ByTheClock => TimeFits(c, Clocked(t), FALSE)
  <2>1. ClockFits(Clocked(t), FALSE)
    BY <1>1, <1>4 DEF ClockFits
  <2> QED BY <1>6, <2>1 DEF TimeFits
<1>10. c \in Starting => TimeFits(c, Moved(t), FALSE)
  <2>1. ClockFits(Moved(t), FALSE)
    BY <1>1, <1>5 DEF ClockFits
  <2>2. MoveFits(Moved(t), FALSE)
    BY <1>5 DEF MoveFits
  <2> QED BY <1>6, <2>1, <2>2 DEF TimeFits
<1> QED BY <1>3, <1>4, <1>5, <1>8, <1>9, <1>10

\* A session begins at zero.
LEMMA Reset ==
  ASSUME NEW c \in Timed, NEW end \in 0..Horizon, NEW pending \in BOOLEAN,
         period \in 0..MaxPeriod, NEW t,
         t = [time |-> 0, since |-> 0, end |-> end, done |-> FALSE]
  PROVE  t \in Times /\ TimeFits(c, t, pending)
<1>1. t \in Times
  BY TimesPositive, FALSE \in BOOLEAN DEF Times
<1>2. t.time = 0 /\ t.since = 0
  OBVIOUS
<1>3. SumFits(t, pending)
  BY <1>2, TimesPositive DEF SumFits, Until
<1> QED BY <1>1, <1>2, <1>3 DEF TimeFits, ClockFits, MoveFits

LEMMA TrajectoriesInit == Init => Trajectories
<1> SUFFICES ASSUME Init PROVE Trajectories
  OBVIOUS
<1>1. Active = {}
  BY LoadsNamed DEF Init, Active
<1>2. [time |-> 0, since |-> 0, end |-> 0, done |-> FALSE] \in Times
  BY TimesPositive, FALSE \in BOOLEAN DEF Times
<1> QED BY <1>1, <1>2 DEF Init, Trajectories

\* What an update does to the clock of its controller.
LEMMA UpdateTimes ==
  ASSUME Shapes, NEW c \in Timed, Update(c)
  PROVE  \/ c \in Summing /\ traj'[c] = Summed(traj[c])
         \/ c \in ByTheClock /\ traj'[c] = Clocked(traj[c])
         \/ c \in Starting /\ traj'[c] = Moved(traj[c])
<1>1. \A t : traj' = [traj EXCEPT ![c] = t] => traj'[c] = t
  BY DEF Shapes
<1>2. CASE UpdatePosition(c) \/ UpdateVelocity(c) \/ UpdateCartesianVelocity(c)
           \/ UpdateDualVelocity(c)
  <2>1. FollowSum(c) /\ c \in Summing
    BY <1>2, OfIn DEF UpdatePosition, UpdateVelocity, UpdateCartesianVelocity, UpdateDualVelocity,
                Summing, Of
  <2> QED BY <1>1, <2>1 DEF FollowSum
<1>3. CASE UpdateImpedance(c) \/ UpdateMultiImpedance(c)
  <2>1. c \in ByTheClock
    BY <1>3, OfIn DEF UpdateImpedance, UpdateMultiImpedance, ByTheClock, Of
  <2> QED BY <1>1, <1>3, <2>1 DEF UpdateImpedance, UpdateMultiImpedance
<1>4. CASE UpdateMoveToStart(c)
  <2>1. c \in Starting
    BY <1>4, OfIn DEF UpdateMoveToStart, Starting, Of
  <2> QED BY <1>1, <1>4, <2>1 DEF UpdateMoveToStart
<1>5. CASE UpdateGravity(c) \/ UpdateModelExample(c)
  BY <1>5 DEF UpdateGravity, UpdateModelExample, Timed, Summing, ByTheClock, Starting, Of
<1> QED BY <1>2, <1>3, <1>4, <1>5 DEF Update

\* The members of a step of a timed controller other than those with the lifecycle.
LEMMA TimedSteps ==
  ASSUME Walking, NEW c \in Timed, Own(c)
  PROVE  Update(c) \/ Configure(c) \/ Activate(c) \/ Deactivate(c)
<1>1. c \notin Subscribers \cup Broadcasters /\ c # "nobody"
  BY LoadsNamed, OfIn DEF Timed, Summing, ByTheClock, Starting, Subscribers, Broadcasters, Of
<1>2. ~CapturePart(c) /\ ~ReadPart(c) /\ ~CallbackBegin(c) /\ ~CallbackWrite(c)
  <2>1. walk.of = c => ~CapturePart(c)
    BY <1>1 DEF Walking, Nobody
  <2> QED BY <1>1, <2>1 DEF CapturePart, ReadPart, CallbackBegin, CallbackWrite
<1>3. ~Broadcast(c) /\ ~NoBroadcast(c) /\ ~Copy(c) /\ ~Publish(c)
  BY <1>1 DEF Broadcast, NoBroadcast, Copy, Publish
<1> QED BY <1>2, <1>3, OwnSteps, OfIn

LEMMA TrajectoriesNext ==
  Shapes /\ Lives /\ Walking /\ Trajectories /\ [Next]_vars => Trajectories'
<1> SUFFICES ASSUME Shapes, Lives, Walking, Trajectories, [Next]_vars PROVE Trajectories'
  OBVIOUS
<1>0. Shapes' /\ Lives'
  BY ShapesNext, LivesNext
<1>1. SUFFICES ASSUME NEW c \in Timed
               PROVE  /\ traj'[c] \in Times
                      /\ c \in Active' => OnTime(c)'
  BY <1>0 DEF Trajectories, Shapes
<1>2. c \in Controllers /\ loaded' = loaded /\ traj[c] \in Times /\ period \in 0..MaxPeriod
      /\ period' \in 0..MaxPeriod
  BY <1>0, OfIn, OneAtATime DEF Lives, Trajectories
<1>3. c \in Active => OnTime(c)
  BY DEF Trajectories
<1>4. CASE Begin
  <2>1. PICK dt \in 1..MaxPeriod :
          /\ period' = dt
          /\ traj' = [d \in Timed |-> IF d \in Active THEN [traj[d] EXCEPT !.since = Until(@ + dt)]
                                      ELSE traj[d]]
    BY <1>4 DEF Begin
  <2>2. /\ UNCHANGED <<life, due>> /\ phase = "asleep" /\ due = {} /\ phase' = "awake"
    BY <1>4 DEF Begin, Free
  <2>3. Active' = Active /\ Settled(c) /\ ~Settled(c)'
    BY <1>2, <2>2 DEF Active, Settled
  <2>4. CASE c \in Active
    <3>1. traj'[c] = [traj[c] EXCEPT !.since = Until(@ + dt)]
      BY <2>1, <2>4
    <3>2. TimeFits(c, traj[c], FALSE)
      BY <1>3, <2>3, <2>4 DEF OnTime
    <3>3. traj'[c] \in Times /\ TimeFits(c, traj[c], TRUE)'
      BY <1>2, <2>1, <3>1, <3>2, TimePasses
    <3> QED BY <2>3, <3>3 DEF OnTime
  <2>5. CASE c \notin Active
    BY <1>2, <2>1, <2>3, <2>5
  <2> QED BY <2>4, <2>5
<1>5. CASE StartUpdates
  <2>1. UNCHANGED <<loaded, life, traj, period>> /\ phase = "awake" /\ due' = Active
    BY <1>5 DEF StartUpdates, data
  <2>2. Active' = Active /\ ~Settled(c) /\ (c \in Active => ~Settled(c)')
    BY <2>1 DEF Active, Settled
  <2>3. c \in Active => OnTime(c)'
    BY <1>3, <2>1, <2>2 DEF OnTime, TimeFits, SumFits, ClockFits, MoveFits
  <2> QED BY <1>2, <2>1, <2>2, <2>3
<1>6. CASE Untouched(c) /\ Undisturbed(c)
  <2>1. /\ traj'[c] = traj[c] /\ period' = period /\ life'[c] = life[c]
        /\ Settled(c)' <=> Settled(c)
    BY <1>6 DEF Untouched, Undisturbed, Settled
  <2>2. c \in Active' <=> c \in Active
    BY <1>2, <2>1 DEF Active
  <2>3. OnTime(c) => OnTime(c)'
    BY <2>1 DEF OnTime, TimeFits, SumFits, ClockFits, MoveFits
  <2> QED BY <1>2, <1>3, <2>1, <2>2, <2>3
<1>7. CASE Own(c)
  <2>0. UNCHANGED <<loaded, phase, period>>
    BY <1>2, <1>7, FrameOwn DEF Frame
  <2>1. CASE Update(c)
    <3>1. c \in due /\ due' = due \ {c} /\ life' = life
      BY <2>1 DEF Update
    <3>2. ~Settled(c) /\ Settled(c)' /\ Active' = Active
      BY <2>0, <3>1 DEF Settled, Lives, Active
    <3>3. c \in Active
      BY <3>1 DEF Lives
    <3>4. TimeFits(c, traj[c], TRUE)
      BY <1>3, <3>2, <3>3 DEF OnTime
    <3>5. traj'[c] \in Times /\ TimeFits(c, traj'[c], FALSE)
      BY <1>2, <2>1, <3>4, UpdateTimes, Updated
    <3>6. OnTime(c)'
      BY <2>0, <3>2, <3>5 DEF OnTime, TimeFits, SumFits, ClockFits, MoveFits
    <3> QED BY <3>5, <3>6
  <2>2. CASE Configure(c)
    <3>1. traj' = traj /\ c \notin Active'
      <4>1. \E l \in {"inactive", "unconfigured", "finalized"} : life' = [life EXCEPT ![c] = l]
        BY <1>2, <2>2, ConfigureEffect
      <4>2. life'[c] # "active"
        BY <1>2, <4>1 DEF Lives
      <4> QED BY <1>2, <2>2, <4>2, ConfigureEffect DEF Active
    <3> QED BY <1>2, <3>1
  <2>3. CASE Activate(c)
    <3>1. PICK end \in 0..Horizon :
            traj' = [traj EXCEPT ![c] = [time |-> 0, since |-> 0, end |-> end, done |-> FALSE]]
      BY <2>3, EndsWithin, TimesPositive DEF Activate, ActivateTimed
    <3>2. traj'[c] = [time |-> 0, since |-> 0, end |-> end, done |-> FALSE]
      BY <3>1 DEF Shapes
    <3>3. traj'[c] \in Times /\ TimeFits(c, traj'[c], ~Settled(c)')
      <4>1. (~Settled(c)') \in BOOLEAN
        BY DEF Settled
      <4> HIDE DEF Settled
      <4> QED BY <1>2, <3>2, <4>1, Reset
    <3>4. OnTime(c)'
      BY <2>0, <3>3 DEF OnTime, TimeFits, SumFits, ClockFits, MoveFits
    <3> QED BY <3>3, <3>4
  <2>4. CASE Deactivate(c)
    <3>1. traj' = traj /\ life' = [life EXCEPT ![c] = "inactive"]
      BY <2>4 DEF Deactivate
    <3>2. c \notin Active'
      BY <1>2, <3>1 DEF Active, Lives
    <3> QED BY <1>2, <3>1, <3>2
  <2> QED BY <1>7, <2>1, <2>2, <2>3, <2>4, TimedSteps
<1> QED BY <1>2, <1>4, <1>5, <1>6, <1>7, OneAtATime

-----------------------------------------------------------------------------
(***************************************************************************)
(* Several arms: which interfaces and which gains each of them gets.       *)
(***************************************************************************)
\* A name that has another within it comes later: names extend one another.
OccursLater == \A n, m \in ToSet(Names) : <<n, m>> \in Occurs => Key(n) <= Key(m)

LEMMA Keys ==
  ASSUME NEW n \in ToSet(Names)
  PROVE  Key(n) \in DOMAIN Names /\ Names[Key(n)] = n /\ Key(n) \in Nat
<1>1. \E i \in DOMAIN Names : Names[i] = n
  BY DEF ToSet
<1>2. Key(n) \in DOMAIN Names /\ Names[Key(n)] = n
  BY <1>1 DEF Key
<1>3. DOMAIN Names = 1..Len(Names) /\ Len(Names) \in Nat
  BY NamesDiffer
<1> QED BY <1>2, <1>3

LEMMA ListedNames ==
  ASSUME NEW listed \in ArmLists
  PROVE  /\ listed \in Seq(ToSet(Names)) /\ ToSet(listed) \subseteq ToSet(Names)
         /\ Len(listed) \in Nat /\ DOMAIN listed = 1..Len(listed)
<1>1. listed \in Seq(ToSet(Names))
  BY NamesDiffer
<1> HIDE DEF ToSet
<1>2. \A i \in DOMAIN listed : listed[i] \in ToSet(Names)
  BY <1>1
<1>3. Len(listed) \in Nat /\ DOMAIN listed = 1..Len(listed)
  BY <1>1
<1> QED BY <1>1, <1>2, <1>3 DEF ToSet

\* The search by name finds the interfaces of the arm itself.
LEMMA SourceIsOwn ==
  ASSUME OccursLater, NEW held \in SUBSET ToSet(Names), NEW n \in held
  PROVE  SourceOf(n, held) = n
<1> DEFINE found == {m \in held : <<n, m>> \in Occurs}
<1>1. n \in found /\ \A m \in found : Key(n) <= Key(m)
  BY NamesOccur DEF OccursLater
<1>2. ASSUME NEW s \in found, \A m \in found : Key(s) <= Key(m)
      PROVE  s = n
  <2>1. Key(s) = Key(n)
    BY <1>1, <1>2, Keys
  <2> QED BY <1>1, <1>2, <2>1, Keys
<1>3. SourceOf(n, held) = CHOOSE s \in found : \A m \in found : Key(s) <= Key(m)
  BY DEF SourceOf
<1> HIDE DEF found
<1> QED BY <1>1, <1>2, <1>3

\* The i-th arm of the map is the i-th entry when the entries are in its order.
LEMMA PlaceIsOwn ==
  ASSUME NEW listed \in ArmLists, InOrder(listed), NEW i \in DOMAIN listed
  PROVE  PlaceIn(listed[i], ToSet(listed)) = i
<1> DEFINE S == {m \in ToSet(listed) : Key(m) <= Key(listed[i])}
           f == [j \in 1..i |-> listed[j]]
<1>1. DOMAIN listed = 1..Len(listed) /\ Len(listed) \in Nat /\ i \in Nat /\ 1..i \subseteq DOMAIN listed
  BY ListedNames
<1>2. \A j \in DOMAIN listed : listed[j] \in ToSet(Names) /\ Key(listed[j]) \in Nat
  BY ListedNames, Keys DEF ToSet
<1>3. \A j, k \in DOMAIN listed : j < k => Key(listed[j]) < Key(listed[k])
  BY DEF InOrder
<1>4. ASSUME NEW j \in DOMAIN listed
      PROVE  Key(listed[j]) <= Key(listed[i]) <=> j \in 1..i
  <2>1. Key(listed[j]) \in Nat /\ Key(listed[i]) \in Nat /\ j \in Nat /\ 1 <= j
    BY <1>1, <1>2
  <2>2. CASE j < i
    BY <1>1, <1>3, <2>1, <2>2
  <2>3. CASE j = i
    BY <1>1, <2>1, <2>3
  <2>4. CASE i < j
    <3>1. Key(listed[i]) < Key(listed[j])
      BY <1>3, <2>4
    <3> QED BY <1>1, <2>1, <2>4, <3>1
  <2> QED BY <1>1, <2>1, <2>2, <2>3, <2>4
<1>5. S = {listed[j] : j \in 1..i}
  BY <1>1, <1>4 DEF ToSet
<1>6. \A j, k \in 1..i : listed[j] = listed[k] => j = k
  <2>1. \A j, k \in 1..i : j < k => listed[j] # listed[k]
    <3>1. \A j, k \in 1..i : j < k => Key(listed[j]) # Key(listed[k])
      BY <1>1, <1>2, <1>3
    <3> QED BY <3>1
  <2>2. \A j, k \in 1..i : j < k \/ k < j \/ j = k
    BY <1>1
  <2> QED BY <2>1, <2>2
<1>7. f \in Bijection(1..i, S)
  BY <1>5, <1>6 DEF Bijection, Injection, Surjection, IsInjective
<1>8. IsFiniteSet(1..i) /\ Cardinality(1..i) = i
  BY <1>1, FS_Interval
<1>9. Cardinality(S) = Cardinality(1..i)
  <2> HIDE DEF f, S
  <2>1. ExistsBijection(1..i, S)
    BY <1>7 DEF ExistsBijection
  <2> QED BY <1>8, <2>1, FS_Bijection
<1> QED BY <1>8, <1>9 DEF PlaceIn

\* The arms of a controller, and where it found their interfaces when active.
ArmsOK(a) ==
  /\ a = [listed |-> a.listed, held |-> a.held, source |-> a.source, gains |-> a.gains]
  /\ a.listed \in ArmLists /\ a.held \in {{}, ToSet(a.listed)}
  /\ a.held # {} => a.gains = [n \in a.held |-> a.listed[PlaceIn(n, a.held)]]
Sources(a) == a.source = [n \in a.held |-> SourceOf(n, a.held)]

Arms ==
  /\ \A c \in loaded \cap MultiArm : ArmsOK(arms[c])
  /\ \A c \in Active \cap MultiArm : Sources(arms[c])

LEMMA ArmsInit == Init => Arms
<1> SUFFICES ASSUME Init PROVE Arms
  OBVIOUS
<1>1. Active = {}
  BY LoadsNamed DEF Init, Active
<1>2. \A c \in loaded \cap MultiArm : ArmsOK(arms[c])
  <2>1. PICK listed \in ArmLists :
          arms = [c \in loaded \cap MultiArm |->
                    [listed |-> listed, held |-> {}, source |-> <<>>, gains |-> <<>>]]
    BY DEF Init
  <2>2. ArmsOK([listed |-> listed, held |-> {}, source |-> <<>>, gains |-> <<>>])
    BY DEF ArmsOK
  <2> QED BY <2>1, <2>2
<1> QED BY <1>1, <1>2 DEF Arms

LEMMA ArmsConfigured ==
  ASSUME NEW a, ArmsOK(a), NEW b,
         b = [[a EXCEPT !.held = Held(a)] EXCEPT !.gains = Gains(a)]
  PROVE  ArmsOK(b)
<1>1. Held(a) = ToSet(a.listed)
  BY DEF Held, ArmsOK
<1>2. b = [listed |-> a.listed, held |-> Held(a), source |-> a.source, gains |-> Gains(a)]
  BY DEF ArmsOK
<1>3. b.listed = a.listed /\ b.held = Held(a) /\ b.gains = Gains(a)
  BY <1>2
<1> QED BY <1>1, <1>2, <1>3 DEF ArmsOK, Gains

LEMMA ArmsSearched ==
  ASSUME NEW a, ArmsOK(a), NEW b,
         b = [a EXCEPT !.source = [n \in a.held |-> SourceOf(n, a.held)]]
  PROVE  ArmsOK(b) /\ Sources(b)
<1>1. b = [listed |-> a.listed, held |-> a.held, gains |-> a.gains,
           source |-> [n \in a.held |-> SourceOf(n, a.held)]]
  BY DEF ArmsOK
<1> QED BY <1>1 DEF ArmsOK, Sources

LEMMA ArmsNext == Shapes /\ Lives /\ Walking /\ Arms /\ [Next]_vars => Arms'
<1> SUFFICES ASSUME Shapes, Lives, Walking, Arms, [Next]_vars, NEW c \in Controllers
    PROVE  /\ loaded' = loaded
           /\ c \in loaded \cap MultiArm => ArmsOK(arms[c])'
           /\ c \in Active' \cap MultiArm => Sources(arms[c])'
  BY LoadsNamed, LivesNext DEF Arms, Lives, Active
<1>0. /\ loaded' = loaded /\ Shapes'
      /\ c \in loaded \cap MultiArm => ArmsOK(arms[c])
      /\ c \in Active \cap MultiArm => Sources(arms[c])
  BY ShapesNext, OneAtATime DEF Arms
<1>1. CASE arms' = arms /\ Active' \subseteq Active
  BY <1>0, <1>1
<1>2. CASE Begin \/ StartUpdates
  BY <1>0, <1>1, <1>2 DEF Begin, StartUpdates, data, Active
<1>3. CASE Untouched(c)
  BY <1>0, <1>3 DEF Untouched, Active
<1>4. CASE Own(c) /\ c \in loaded \cap MultiArm
  <2>0. Frame(c)
    BY <1>4, FrameOwn
  <2>1. CASE Configure(c)
    <3>1. c \notin Active'
      BY <2>1, ConfigureEffect DEF Active, Lives
    <3>2. ASSUME WithArms(c) PROVE ArmsOK(arms[c])'
      <4> DEFINE b == [[arms[c] EXCEPT !.held = Held(arms[c])] EXCEPT !.gains = Gains(arms[c])]
      <4>1. SomeArms(c, b)
        BY <1>4, <3>2, ArmsGain
      <4>2. arms'[c] = b
        BY <1>4, <4>1 DEF SomeArms, Shapes
      <4>3. ArmsOK(arms'[c])
        BY <1>0, <1>4, <4>2, ArmsConfigured
      <4> QED BY <4>3 DEF ArmsOK
    <3> QED BY <1>0, <1>4, <2>1, <3>1, <3>2, ConfigureEffect
  <2>2. ASSUME UpdateJointStates(c) PROVE ArmsOK(arms[c])' /\ Sources(arms[c])'
    <3>1. arms'[c] = [arms[c] EXCEPT !.source = [n \in arms[c].held |-> SourceOf(n, arms[c].held)]]
      BY <1>4, <2>2 DEF UpdateJointStates, Shapes
    <3>2. ArmsOK(arms'[c]) /\ Sources(arms'[c])
      BY <1>0, <1>4, <3>1, ArmsSearched
    <3> QED BY <3>2 DEF ArmsOK, Sources
  <2>3. CASE Activate(c)
    BY <1>0, <1>4, <2>2, <2>3 DEF Activate
  <2>4. CASE Deactivate(c)
    <3>1. arms' = arms /\ c \notin Active'
      BY <2>4 DEF Deactivate, Active, Lives
    <3> QED BY <1>0, <3>1
  <2>5. CASE Update(c)
    <3>1. arms' = arms \/ UpdateJointStates(c)
      BY <2>5 DEF Update, UpdatePosition, UpdateVelocity, UpdateCartesianVelocity,
                  UpdateDualVelocity, UpdateImpedance, UpdateMultiImpedance, UpdateMoveToStart,
                  UpdateGravity, UpdateModelExample, FollowSum
    <3>2. Active' = Active
      BY <2>5 DEF Update, Active
    <3> QED BY <1>0, <2>2, <3>1, <3>2
  <2>6. CASE CapturePart(c) \/ ReadPart(c) \/ Broadcast(c) \/ NoBroadcast(c)
             \/ CallbackBegin(c) \/ CallbackWrite(c) \/ Copy(c) \/ Publish(c)
    <3>1. c \notin Subscribers \cup Broadcasters /\ c # "nobody"
      BY <1>4, LoadsNamed DEF MultiArm, Subscribers, Broadcasters, Of
    <3>2. ~CapturePart(c)
      BY <3>1 DEF CapturePart, Walking, Nobody
    <3> QED BY <2>6, <3>1, <3>2 DEF ReadPart, Broadcast, NoBroadcast, CallbackBegin,
               CallbackWrite, Copy, Publish
  <2> QED BY <1>4, <2>1, <2>3, <2>4, <2>5, <2>6, OwnSteps
<1>5. CASE c \notin loaded \cap MultiArm
  BY <1>0, <1>5 DEF Active
<1> QED BY <1>0, <1>2, <1>3, <1>4, <1>5, OneAtATime

-----------------------------------------------------------------------------
(***************************************************************************)
(* FrankaRobotModel and FrankaRobotState: references of this session only. *)
(***************************************************************************)
Comps == [refs : Seq(Nat), initialized : BOOLEAN, dangled : BOOLEAN]

\* From on_activate, which may take several steps, to on_deactivate.
InSession(c) == life[c] = "active" \/ walk.of = c
SessionRefs(c) == IF InSession(c) THEN <<session[c]>> ELSE <<>>

References ==
  /\ comp \in [Semantic -> Comps]
  /\ \A c \in Releasing : ~comp[c].dangled /\ comp[c].refs = SessionRefs(c)

LEMMA LookedUp ==
  ASSUME NEW m \in Comps, NEW now
  PROVE  /\ LookUp(m, now) \in Comps /\ Getter(m, now) \in Comps
         /\ LookUp(m, now).refs = m.refs /\ Getter(m, now).refs = m.refs
         /\ ~m.dangled /\ Head(m.refs) = now =>
              ~LookUp(m, now).dangled /\ ~Getter(m, now).dangled
<1> DEFINE bad == m.dangled \/ Head(m.refs) # now
<1>1. bad \in BOOLEAN
  OBVIOUS
<1>2. LookUp(m, now) = [m EXCEPT !.initialized = TRUE, !.dangled = bad]
  BY DEF LookUp
<1>3. ~m.dangled /\ Head(m.refs) = now => ~bad
  OBVIOUS
<1> HIDE DEF bad
<1>4. LookUp(m, now) \in Comps /\ LookUp(m, now).refs = m.refs
  BY <1>1, <1>2, TRUE \in BOOLEAN DEF Comps
<1>5. LookUp(m, now).dangled = bad
  BY <1>2 DEF Comps
<1> QED BY <1>3, <1>4, <1>5 DEF Getter

LEMMA ReferencesInit == Init => References
<1> SUFFICES ASSUME Init PROVE References
  OBVIOUS
<1>1. <<>> \in Seq(Nat) /\ FALSE \in BOOLEAN
  OBVIOUS
<1>2. NewComp \in Comps
  BY <1>1, Zenon DEF NewComp, Comps
<1>3. \A c \in Controllers : ~InSession(c)
  BY LoadsNamed DEF Init, InSession, Nobody
<1> QED BY <1>2, <1>3, OfIn DEF Init, References, SessionRefs, NewComp

LEMMA ReferencesNext == Shapes /\ Lives /\ Walking /\ References /\ [Next]_vars => References'
<1> SUFFICES ASSUME Shapes, Lives, Walking, References, [Next]_vars, NEW c \in Semantic
    PROVE  /\ comp'[c] \in Comps
           /\ c \in Releasing => ~comp'[c].dangled /\ comp'[c].refs = SessionRefs(c)'
  BY ShapesNext, OfIn DEF References, Shapes
<1>0. /\ c \in Controllers /\ Shapes' /\ Lives' /\ Walking' /\ loaded' = loaded
      /\ comp[c] \in Comps
      /\ c \in Releasing => ~comp[c].dangled /\ comp[c].refs = SessionRefs(c)
      /\ walk = Nobody => walk.of # c
      /\ \A m : comp' = [comp EXCEPT ![c] = m] => comp'[c] = m
  <2>1. c \in Controllers /\ Shapes' /\ Lives' /\ Walking' /\ loaded' = loaded
    BY ShapesNext, LivesNext, OneAtATime, OfIn
  <2>2. walk = Nobody => walk.of # c
    BY <2>1, LoadsNamed DEF Nobody
  <2>3. \A m : comp' = [comp EXCEPT ![c] = m] => comp'[c] = m
    BY DEF Shapes
  <2> QED BY <2>1, <2>2, <2>3 DEF References
<1>1. CASE comp' = comp /\ SessionRefs(c)' = SessionRefs(c)
  BY <1>0, <1>1
<1>2. CASE Begin \/ StartUpdates
  BY <1>0, <1>1, <1>2 DEF Begin, StartUpdates, data, SessionRefs, InSession
<1>3. CASE Untouched(c) /\ Undisturbed(c)
  BY <1>0, <1>3 DEF Untouched, Undisturbed, SessionRefs, InSession
<1>4. CASE Own(c)
  <2>0. Frame(c)
    BY <1>0, <1>4, FrameOwn
  <2>1. CASE Configure(c)
    <3>1. comp'[c] = NewComp
      BY <1>0, <2>1, ConfigureEffect
    <3>2. life'[c] # "active" /\ life[c] = "unconfigured" /\ walk' = walk
      BY <1>0, <2>1, ConfigureEffect DEF Lives
    <3>3. walk.of # c
      BY <1>0, <3>2 DEF Walking, Lives, Active
    <3>4. ~InSession(c)'
      BY <3>2, <3>3 DEF InSession
    <3>5. <<>> \in Seq(Nat) /\ FALSE \in BOOLEAN
      OBVIOUS
    <3>6. NewComp \in Comps
      BY <3>5, Zenon DEF NewComp, Comps
    <3> QED BY <3>1, <3>4, <3>6 DEF SessionRefs, NewComp
  <2>2. CASE Activate(c)
    <3>1. /\ session'[c] = session[c] + 1 /\ session[c] \in Nat /\ life[c] = "inactive"
          /\ walk.of # c
      BY <1>0, <2>2 DEF Activate, Lives, Free
    <3>2. InSession(c)'
      BY <1>0, <2>2 DEF Activate, InSession, Lives
    <3> DEFINE now == session[c] + 1
               m == [comp[c] EXCEPT !.refs = Append(@, now)]
    <3>3. m \in Comps /\ m.refs = Append(comp[c].refs, now) /\ m.dangled = comp[c].dangled
      <4>1. comp[c].refs \in Seq(Nat) /\ now \in Nat
        BY <1>0, <3>1 DEF Comps
      <4>2. Append(comp[c].refs, now) \in Seq(Nat)
        BY <4>1
      <4> HIDE DEF now
      <4> QED BY <1>0, <4>2 DEF Comps
    <3>4. comp'[c] = m \/ comp'[c] = Getter(m, now)
      BY <1>0, <2>2 DEF Activate, Assign
    <3>5. c \in Releasing => m.refs = <<now>> /\ ~m.dangled
      <4>1. c \in Releasing => comp[c].refs = <<>>
        BY <1>0, <3>1 DEF SessionRefs, InSession
      <4>2. Append(<<>>, now) = <<now>>
        OBVIOUS
      <4> HIDE DEF now, m
      <4> QED BY <1>0, <3>3, <4>1, <4>2
    <3>6. SessionRefs(c)' = <<now>>
      BY <3>1, <3>2 DEF SessionRefs
    <3> HIDE DEF now, m
    <3>7. Head(<<now>>) = now
      OBVIOUS
    <3> QED BY <3>3, <3>4, <3>5, <3>6, <3>7, LookedUp
  <2>3. CASE Deactivate(c)
    <3>1. c \in Releasing => comp' = [comp EXCEPT ![c].refs = <<>>]
      BY <2>3 DEF Deactivate, Release
    <3>2. c \notin Releasing => comp' = comp
      BY <2>3 DEF Deactivate, Release
    <3>3. c \in Releasing => comp'[c] \in Comps /\ comp'[c].refs = <<>>
                             /\ comp'[c].dangled = comp[c].dangled
      <4> DEFINE m == [comp[c] EXCEPT !.refs = <<>>]
      <4>1. <<>> \in Seq(Nat)
        OBVIOUS
      <4>2. m \in Comps /\ m.refs = <<>> /\ m.dangled = comp[c].dangled
        BY <1>0, <4>1 DEF Comps
      <4>3. c \in Releasing => comp'[c] = m
        BY <1>0, <3>1
      <4> HIDE DEF m
      <4> QED BY <4>2, <4>3
    <3>4. ~InSession(c)'
      BY <1>0, <2>3 DEF Deactivate, InSession, Lives, Free
    <3> QED BY <1>0, <3>2, <3>3, <3>4 DEF SessionRefs
  <2>4. ASSUME c \in Active, UNCHANGED <<life, session>>, comp' = comp \/
               comp' = [comp EXCEPT ![c] = LookUp(@, session[c])] \/
               comp' = [comp EXCEPT ![c] = Getter(@, session[c])]
        PROVE  /\ comp'[c] \in Comps
               /\ c \in Releasing => ~comp'[c].dangled /\ comp'[c].refs = SessionRefs(c)'
    <3>1. /\ SessionRefs(c)' = <<session[c]>>
          /\ c \in Releasing => comp[c].refs = <<session[c]>>
      BY <1>0, <2>4 DEF SessionRefs, InSession, Active
    <3>2. Head(<<session[c]>>) = session[c]
      OBVIOUS
    <3>3. \/ comp'[c] = comp[c]
          \/ comp'[c] = LookUp(comp[c], session[c]) \/ comp'[c] = Getter(comp[c], session[c])
      BY <2>4 DEF Shapes
    <3> QED BY <1>0, <3>1, <3>2, <3>3, LookedUp
  <2>5. CASE Update(c) \/ Broadcast(c)
    <3>1. c \in Active
      BY <2>5 DEF Update, Broadcast, Lives
    <3>2. UNCHANGED <<life, session>>
      BY <2>5 DEF Update, Broadcast
    <3>3. comp' = comp \/ comp' = [comp EXCEPT ![c] = LookUp(@, session[c])]
          \/ comp' = [comp EXCEPT ![c] = Getter(@, session[c])]
      <4>1. CASE Broadcast(c)
        BY <4>1 DEF Broadcast
      <4>2. CASE Update(c)
        BY <4>2 DEF Update, UpdatePosition, UpdateVelocity, UpdateCartesianVelocity,
                    UpdateDualVelocity, UpdateImpedance, UpdateMultiImpedance, UpdateMoveToStart,
                    UpdateGravity, UpdateModelExample, FollowSum, UseModel
      <4> QED BY <2>5, <4>1, <4>2
    <3> QED BY <2>4, <3>1, <3>2, <3>3
  <2>6. CASE ReadPart(c)
    <3>1. c \in Active
      <4>1. c \in due
        BY <1>0, <2>6 DEF ReadPart, Walking
      <4> QED BY <4>1 DEF Lives
    <3>2. UNCHANGED <<life, session>>
      BY <2>6 DEF ReadPart
    <3>3. comp' = comp \/ comp' = [comp EXCEPT ![c] = Getter(@, session[c])]
      BY <2>6 DEF ReadPart, UseModel
    <3> QED BY <2>4, <3>1, <3>2, <3>3
  <2>7. CASE CapturePart(c)
    <3>1. comp' = comp /\ session' = session /\ InSession(c)
      BY <2>7 DEF CapturePart, InSession
    <3>2. InSession(c)'
      BY <1>0, <2>7 DEF CapturePart, InSession, Lives, Shapes, Walks
    <3> QED BY <1>1, <3>1, <3>2 DEF SessionRefs
  <2>8. CASE NoBroadcast(c) \/ CallbackBegin(c) \/ CallbackWrite(c) \/ Copy(c) \/ Publish(c)
    <3>1. UNCHANGED <<life, session, walk, comp>>
      BY <2>8 DEF NoBroadcast, CallbackBegin, CallbackWrite, Copy, Publish, data, manager
    <3> QED BY <1>1, <3>1 DEF SessionRefs, InSession
  <2> QED BY <1>0, <1>4, <2>1, <2>2, <2>3, <2>5, <2>6, <2>7, <2>8, OwnSteps
<1> QED BY <1>0, <1>2, <1>3, <1>4, OneAtATime

-----------------------------------------------------------------------------
(***************************************************************************)
(* Targets: the callback, the activation and the update meet in them.      *)
(***************************************************************************)
Topics(c) ==
  [target : [1..Parts(c) -> Serials], used : [1..Reads(c) -> Serials], stamp : Serials,
   serial : Serials, acts : SUBSET Serials, cb : 0..3, upto : 0..3]

\* Stamps are given in turn; the callback is at an element of the target.
Stamped(c, t, s) ==
  /\ t \in Topics(c)
  /\ t.serial <= t.stamp /\ t.stamp <= MaxMessages + s
  /\ \A a \in t.acts : a <= t.stamp
  /\ t.acts # {} => Max(t.acts) \in t.acts
  /\ t.cb \in 0..t.upto /\ t.upto \in {0, 2, 3} /\ t.upto <= Parts(c)
  /\ Kind[c] = "base" => t.cb \in {0, 1}

\* The first elements: after both are written they are of one message, or partly
\* captured; while one is, the first is of the present message or captured.
Whole(t) ==
  /\ t.cb # 2 => t.target[1] = t.target[2] \/ t.target[1] \in t.acts \/ t.target[2] \in t.acts
  /\ t.cb \in {2, 3} => t.target[1] = t.serial \/ t.target[1] \in t.acts

\* The orientation is never newer than the message, nor than the position.
Turned(t) ==
  /\ t.target[3] \in t.acts \/ t.target[3] <= t.serial
  /\ t.target[3] \in t.acts \/ t.target[1] \in t.acts \/ t.target[3] <= t.target[1]

\* Both wheels are written under one lock, and read one after the other.
Wheels(t) ==
  /\ t.target[1] = t.target[2] /\ t.target[1] <= t.serial
  /\ t.used[1] <= t.target[1]
InTurn(t) == t.used[1] <= t.used[2]

TargetOK(c) ==
  /\ Stamped(c, topic[c], session[c])
  /\ Whole(topic[c])
  /\ Kind[c] = "cartesian" => Turned(topic[c])
  /\ Kind[c] = "base" => Wheels(topic[c]) /\ (walk.of # c => InTurn(topic[c]))

Targets ==
  /\ \A c \in Subscribers : TargetOK(c)
  /\ walk.activating => topic[walk.of].acts # {}

LEMMA PartsIn ==
  ASSUME NEW c
  PROVE  /\ Parts(c) \in {2, 3} /\ Reads(c) \in {2, 4}
         /\ 1 \in 1..Parts(c) /\ 2 \in 1..Parts(c) /\ 1 \in 1..Reads(c) /\ 2 \in 1..Reads(c)
         /\ Kind[c] = "cartesian" => 3 \in 1..Parts(c)
BY DEF Parts, Reads

LEMMA SerialsNat == /\ Serials \subseteq Nat /\ 0 \in Serials
                    /\ \A n \in Nat, s \in 0..MaxSessions : n <= MaxMessages + s => n \in Serials
BY BoundsNatural DEF Serials

Sessions == 0..MaxSessions

\* A message arrives.
Receive(t, upto) ==
  [t EXCEPT !.stamp = t.stamp + 1, !.serial = t.stamp + 1, !.upto = upto,
            !.cb = IF upto = 0 THEN 0 ELSE 1]
LEMMA Received ==
  ASSUME NEW c, NEW s \in Sessions, NEW t, Stamped(c, t, s), t.cb = 0,
         t.stamp < MaxMessages + s, NEW upto \in {0, 2, 3}, upto <= Parts(c),
         NEW u, u = Receive(t, upto)
  PROVE  /\ Stamped(c, u, s)
         /\ Whole(t) => Whole(u)
         /\ Kind[c] = "cartesian" /\ Turned(t) => Turned(u)
         /\ (Wheels(t) => Wheels(u)) /\ (InTurn(t) => InTurn(u))
         /\ u.acts = t.acts
<1> DEFINE n == t.stamp + 1
           cb == IF upto = 0 THEN 0 ELSE 1
<1>1. /\ t \in Topics(c) /\ t.stamp \in Nat /\ t.serial \in Nat /\ t.serial <= t.stamp
      /\ t.acts \subseteq Nat /\ t.target \in [1..Parts(c) -> Nat]
  BY SerialsNat DEF Stamped, Topics
<1>2. n \in Serials /\ n \in Nat /\ n <= MaxMessages + s /\ t.stamp <= n /\ t.serial <= n
  <2>1. s \in 0..MaxSessions /\ s \in Nat
    BY BoundsNatural DEF Sessions
  <2>2. n \in Nat /\ n <= MaxMessages + s /\ t.stamp <= n /\ t.serial <= n
    BY <1>1, <2>1, BoundsNatural
  <2> HIDE DEF n
  <2> QED BY <2>1, <2>2, SerialsNat
<1>3. cb \in 0..upto /\ cb \in {0, 1} /\ cb \in 0..3 /\ upto \in 0..3
  OBVIOUS
<1>4. u = [t EXCEPT !.stamp = n, !.serial = n, !.upto = upto, !.cb = cb]
  BY DEF Receive
<1> HIDE DEF n, cb
<1>5. /\ u \in Topics(c) /\ u.stamp = n /\ u.serial = n /\ u.upto = upto /\ u.cb = cb
      /\ u.target = t.target /\ u.used = t.used /\ u.acts = t.acts
  BY <1>1, <1>2, <1>3, <1>4 DEF Topics
<1>6. Stamped(c, u, s)
  <2>1. \A a \in t.acts : a <= n
    BY <1>1, <1>2 DEF Stamped
  <2> QED BY <1>2, <1>3, <1>5, <2>1 DEF Stamped
<1>7. Whole(t) => Whole(u)
  BY <1>3, <1>5 DEF Whole
<1>8. Kind[c] = "cartesian" /\ Turned(t) => Turned(u)
  <2>1. Kind[c] = "cartesian" => t.target[3] \in Nat
    BY <1>1, PartsIn
  <2> QED BY <1>1, <1>2, <1>5, <2>1 DEF Turned
<1>9. (Wheels(t) => Wheels(u)) /\ (InTurn(t) => InTurn(u))
  <2>1. t.target[1] \in Nat
    BY <1>1, PartsIn
  <2> QED BY <1>1, <1>2, <1>5, <2>1 DEF Wheels, InTurn
<1> QED BY <1>5, <1>6, <1>7, <1>8, <1>9

\* The callback writes one element.
LEMMA Written ==
  ASSUME NEW c, NEW s, NEW t, Stamped(c, t, s), t.cb > 0, Kind[c] # "base",
         Whole(t), Kind[c] = "cartesian" => Turned(t), NEW u, u = WriteElement(t)
  PROVE  Stamped(c, u, s) /\ Whole(u) /\ (Kind[c] = "cartesian" => Turned(u))
<1> DEFINE cb == IF t.cb = t.upto THEN 0 ELSE t.cb + 1
           target == [t.target EXCEPT ![t.cb] = t.serial]
<1>1. /\ t \in Topics(c) /\ t.stamp \in Nat /\ t.serial \in Serials
      /\ t.acts \subseteq Nat /\ t.target \in [1..Parts(c) -> Serials]
      /\ t.cb \in 1..t.upto /\ t.upto \in {2, 3} /\ t.upto <= Parts(c)
  <2>1. /\ t \in Topics(c) /\ t.stamp \in Nat /\ t.serial \in Serials
        /\ t.acts \subseteq Nat /\ t.target \in [1..Parts(c) -> Serials]
    BY SerialsNat DEF Stamped, Topics
  <2>2. t.upto \in {0, 2, 3} /\ t.cb \in 0..t.upto /\ t.upto <= Parts(c)
    BY DEF Stamped
  <2> QED BY <2>1, <2>2
<1>2. /\ target \in [1..Parts(c) -> Serials] /\ t.cb \in 1..Parts(c)
      /\ target[t.cb] = t.serial /\ \A p \in 1..Parts(c) : p # t.cb => target[p] = t.target[p]
  BY <1>1, PartsIn
<1>3. cb \in 0..t.upto /\ cb \in 0..3 /\ (cb = 0 \/ cb = t.cb + 1)
  BY <1>1
<1>a. /\ t.cb = 1 => cb = 2
      /\ t.cb = 2 => cb \in {0, 3}
      /\ t.cb = 3 => cb = 0 /\ Parts(c) = 3
      /\ t.cb \in {1, 2, 3}
  BY <1>1, PartsIn
<1>4. u = [t EXCEPT !.target = target, !.cb = cb]
  BY DEF WriteElement
<1> HIDE DEF cb, target
<1>5. /\ u \in Topics(c) /\ u.stamp = t.stamp /\ u.serial = t.serial /\ u.upto = t.upto
      /\ u.cb = cb /\ u.target = target /\ u.acts = t.acts
  BY <1>1, <1>2, <1>3, <1>4 DEF Topics
<1>6. Stamped(c, u, s)
  BY <1>3, <1>5 DEF Stamped
<1>7. Whole(u)
  <2>1. CASE t.cb = 1
    BY <1>2, <1>5, <1>a, <2>1, PartsIn DEF Whole
  <2>2. CASE t.cb = 2
    BY <1>2, <1>5, <1>a, <2>2, PartsIn DEF Whole
  <2>3. CASE t.cb = 3
    BY <1>2, <1>5, <1>a, <2>3, PartsIn DEF Whole
  <2> QED BY <1>a, <2>1, <2>2, <2>3
<1>8. ASSUME Kind[c] = "cartesian" PROVE Turned(u)
  <2>1. t.target[3] \in Nat /\ t.target[1] \in Nat /\ t.serial \in Nat
    BY <1>1, <1>8, PartsIn, SerialsNat
  <2>2. CASE t.cb = 1
    BY <1>2, <1>5, <1>8, <2>1, <2>2, PartsIn DEF Turned
  <2>3. CASE t.cb = 2
    BY <1>2, <1>5, <1>8, <2>1, <2>3, PartsIn DEF Turned
  <2>4. CASE t.cb = 3
    BY <1>2, <1>5, <1>8, <2>1, <2>4, PartsIn DEF Turned, Whole
  <2> QED BY <1>a, <2>2, <2>3, <2>4
<1> QED BY <1>6, <1>7, <1>8

\* The callback of the base writes both wheels.
LEMMA WheelsSet ==
  ASSUME NEW c, NEW s, NEW t, Stamped(c, t, s), Kind[c] = "base",
         Wheels(t), NEW u, u = SetVelocityTarget(t)
  PROVE  Stamped(c, u, s) /\ Whole(u) /\ Wheels(u) /\ (InTurn(t) => InTurn(u))
<1> DEFINE target == [p \in 1..Parts(c) |-> t.serial]
<1>1. /\ t \in Topics(c) /\ t.serial \in Serials
      /\ t.target \in [1..Parts(c) -> Serials] /\ t.used \in [1..Reads(c) -> Serials]
  BY DEF Stamped, Topics
<1>2. target \in [1..Parts(c) -> Serials] /\ target[1] = t.serial /\ target[2] = t.serial
  BY <1>1, PartsIn
<1>3. u = [t EXCEPT !.target = target, !.cb = 0]
  BY <1>1 DEF SetVelocityTarget
<1> HIDE DEF target
<1>4. /\ u \in Topics(c) /\ u.stamp = t.stamp /\ u.serial = t.serial /\ u.upto = t.upto
      /\ u.cb = 0 /\ u.target = target /\ u.acts = t.acts /\ u.used = t.used
  <2>1. 0 \in 0..3
    OBVIOUS
  <2> QED BY <1>1, <1>2, <1>3, <2>1 DEF Topics
<1>5. Stamped(c, u, s)
  <2>1. t.upto \in {0, 2, 3} /\ 0 \in 0..t.upto
    BY DEF Stamped
  <2> QED BY <1>4, <2>1 DEF Stamped
<1>6. /\ t.used[1] \in Nat /\ t.target[1] \in Nat /\ t.serial \in Nat
  BY <1>1, PartsIn, SerialsNat
<1> QED BY <1>2, <1>4, <1>5, <1>6 DEF Whole, Wheels, InTurn

\* An activation captures one element.
LEMMA Captured ==
  ASSUME NEW c, NEW s, NEW t, Stamped(c, t, s), t.acts # {}, NEW p \in 1..Parts(c),
         NEW u, u = [t EXCEPT !.target[p] = Max(t.acts)]
  PROVE  /\ Stamped(c, u, s) /\ u.acts = t.acts
         /\ Whole(t) => Whole(u)
         /\ Kind[c] = "cartesian" /\ Turned(t) => Turned(u)
<1> DEFINE target == [t.target EXCEPT ![p] = Max(t.acts)]
<1>1. /\ t \in Topics(c) /\ Max(t.acts) \in t.acts /\ t.acts \subseteq Serials
      /\ t.target \in [1..Parts(c) -> Serials]
  BY DEF Stamped, Topics
<1>2. /\ target \in [1..Parts(c) -> Serials] /\ target[p] \in t.acts
      /\ \A q \in 1..Parts(c) : q # p => target[q] = t.target[q]
  BY <1>1
<1>3. u = [t EXCEPT !.target = target]
  OBVIOUS
<1> HIDE DEF target
<1>4. /\ u \in Topics(c) /\ u.stamp = t.stamp /\ u.serial = t.serial /\ u.upto = t.upto
      /\ u.cb = t.cb /\ u.target = target /\ u.acts = t.acts
  BY <1>1, <1>2, <1>3 DEF Topics
<1>5. \A q \in 1..Parts(c) : target[q] \in t.acts \/ target[q] = t.target[q]
  BY <1>2
<1>6. Stamped(c, u, s)
  BY <1>4 DEF Stamped
<1>7. Whole(t) => Whole(u)
  BY <1>4, <1>5, PartsIn DEF Whole
<1>8. Kind[c] = "cartesian" /\ Turned(t) => Turned(u)
  BY <1>4, <1>5, PartsIn DEF Turned
<1> QED BY <1>4, <1>6, <1>7, <1>8

\* The update reads one element.
LEMMA ReadOne ==
  ASSUME NEW c, NEW s, NEW t, Stamped(c, t, s), NEW p \in 1..Reads(c), NEW q \in 1..Parts(c),
         NEW u, u = [t EXCEPT !.used[p] = t.target[q]]
  PROVE  /\ Stamped(c, u, s) /\ u.acts = t.acts
         /\ Whole(t) => Whole(u)
         /\ Turned(t) => Turned(u)
         /\ Wheels(t) /\ p = q /\ p \in {1, 2} => Wheels(u) /\ (p = 2 => InTurn(u))
<1> DEFINE used == [t.used EXCEPT ![p] = t.target[q]]
<1>1. /\ t \in Topics(c) /\ t.used \in [1..Reads(c) -> Serials]
      /\ t.target \in [1..Parts(c) -> Serials]
  BY DEF Stamped, Topics
<1>2. /\ used \in [1..Reads(c) -> Serials] /\ used[p] = t.target[q]
      /\ \A r \in 1..Reads(c) : r # p => used[r] = t.used[r]
  BY <1>1
<1>3. u = [t EXCEPT !.used = used]
  OBVIOUS
<1> HIDE DEF used
<1>4. /\ u \in Topics(c) /\ u.stamp = t.stamp /\ u.serial = t.serial /\ u.upto = t.upto
      /\ u.cb = t.cb /\ u.target = t.target /\ u.used = used /\ u.acts = t.acts
  BY <1>1, <1>2, <1>3 DEF Topics
<1>5. Stamped(c, u, s)
  BY <1>4 DEF Stamped
<1>6. (Whole(t) => Whole(u)) /\ (Turned(t) => Turned(u))
  BY <1>4 DEF Whole, Turned
<1>7. t.target[1] \in Nat /\ t.target[2] \in Nat /\ t.used[1] \in Nat /\ t.used[2] \in Nat
  BY <1>1, PartsIn, SerialsNat
<1>8. Wheels(t) /\ p = q /\ p \in {1, 2} => Wheels(u) /\ (p = 2 => InTurn(u))
  BY <1>2, <1>4, <1>7, PartsIn DEF Wheels, InTurn
<1> QED BY <1>4, <1>5, <1>6, <1>8

\* An activation begins: it gets a stamp, the greatest one so far.
Stamp(t) == [t EXCEPT !.stamp = t.stamp + 1, !.acts = t.acts \cup {t.stamp + 1}]
LEMMA Stamping ==
  ASSUME NEW c, NEW s \in Sessions, s + 1 \in Sessions, NEW t, Stamped(c, t, s),
         NEW u, u = Stamp(t)
  PROVE  /\ Stamped(c, u, s + 1) /\ u.acts # {}
         /\ Whole(t) => Whole(u)
         /\ Turned(t) => Turned(u)
<1> DEFINE n == t.stamp + 1
           acts == t.acts \cup {n}
<1>1. /\ t \in Topics(c) /\ t.stamp \in Nat /\ t.serial \in Nat /\ t.serial <= t.stamp
      /\ t.acts \subseteq Serials /\ t.acts \subseteq Nat
  BY SerialsNat DEF Stamped, Topics
<1>2. n \in Nat /\ t.serial <= n /\ n <= MaxMessages + (s + 1)
  BY <1>1, BoundsNatural DEF Stamped, Sessions
<1>3. n \in Serials
  BY <1>2, SerialsNat DEF Sessions
<1>4. \A a \in acts : a <= n
  BY <1>1 DEF Stamped
<1>5. Max(acts) \in acts
  <2>1. acts \subseteq Nat /\ n \in acts /\ \A a \in acts : n >= a
    BY <1>1, <1>2, <1>4
  <2> HIDE DEF acts
  <2>2. \E m \in acts : \A a \in acts : m >= a
    BY <2>1
  <2> QED BY <2>2 DEF Max
<1>6. acts \subseteq Serials /\ acts # {} /\ t.acts \subseteq acts
  BY <1>1, <1>3
<1> HIDE DEF n, acts
<1>7. u = [t EXCEPT !.stamp = n, !.acts = acts]
  BY DEF Stamp, n, acts
<1>8. /\ u \in Topics(c) /\ u.stamp = n /\ u.serial = t.serial /\ u.upto = t.upto
      /\ u.cb = t.cb /\ u.target = t.target /\ u.acts = acts
  BY <1>1, <1>3, <1>6, <1>7 DEF Topics
<1>9. Stamped(c, u, s + 1)
  BY <1>2, <1>4, <1>5, <1>8 DEF Stamped
<1>10. (Whole(t) => Whole(u)) /\ (Turned(t) => Turned(u))
  BY <1>6, <1>8 DEF Whole, Turned
<1> QED BY <1>6, <1>8, <1>9, <1>10

LEMMA TargetsInit == Init => Targets
<1> SUFFICES ASSUME Init PROVE Targets
  OBVIOUS
<1>1. ~walk.activating
  BY DEF Init, Nobody
<1>2. ASSUME NEW c \in Subscribers PROVE TargetOK(c)
  <2> DEFINE t == NewTopic(c)
  <2>1. topic[c] = t /\ session[c] = 0
    BY <1>2, OfIn DEF Init
  <2>2. /\ t.target = [p \in 1..Parts(c) |-> 0] /\ t.used = [p \in 1..Reads(c) |-> 0]
        /\ t.stamp = 0 /\ t.serial = 0 /\ t.acts = {} /\ t.cb = 0 /\ t.upto = 0
    BY DEF NewTopic
  <2>3. t \in Topics(c)
    <3>1. /\ [p \in 1..Parts(c) |-> 0] \in [1..Parts(c) -> Serials]
          /\ [p \in 1..Reads(c) |-> 0] \in [1..Reads(c) -> Serials]
          /\ 0 \in Serials /\ 0 \in 0..3 /\ {} \in SUBSET Serials
      BY SerialsNat
    <3> QED BY <3>1 DEF NewTopic, Topics
  <2> HIDE DEF t
  <2>4. Stamped(c, t, 0)
    BY <2>2, <2>3, PartsIn, BoundsNatural DEF Stamped
  <2>5. Whole(t) /\ (Kind[c] = "cartesian" => Turned(t)) /\ Wheels(t) /\ InTurn(t)
    BY <2>2, PartsIn DEF Whole, Turned, Wheels, InTurn
  <2> QED BY <2>1, <2>4, <2>5 DEF TargetOK
<1> QED BY <1>1, <1>2 DEF Targets

\* The steps of the controller itself.
LEMMA TargetOwn ==
  ASSUME Shapes, Lives, Walking, Targets, NEW c \in Subscribers, Own(c)
  PROVE  TargetOK(c)' /\ (walk'.activating /\ walk'.of = c => topic'[c].acts # {})
<1> DEFINE t == topic[c]
           u == topic'[c]
           s == session[c]
<1>0. /\ c \in Controllers /\ s \in 0..MaxSessions /\ Stamped(c, t, s) /\ Whole(t)
      /\ Kind[c] = "cartesian" => Turned(t)
      /\ Kind[c] = "base" => Wheels(t) /\ (walk.of # c => InTurn(t))
      /\ \A x : topic' = [topic EXCEPT ![c] = x] => topic'[c] = x
      /\ walk = Nobody => walk.of # c /\ ~walk.activating
  BY OfIn, LoadsNamed DEF Shapes, Lives, Targets, TargetOK, Nobody
<1>c. s \in Sessions /\ s \in Nat
  BY <1>0, BoundsNatural DEF Sessions
<1>d. /\ Stamped(c, t, s) /\ Whole(t)
      /\ Kind[c] = "cartesian" => Turned(t)
      /\ Kind[c] = "base" => Wheels(t) /\ (walk.of # c => InTurn(t))
  BY <1>0
<1>a. walk.activating /\ walk.of = c => t.acts # {}
  BY DEF Targets
<1>b. ASSUME /\ Stamped(c, u, session'[c]) /\ Whole(u) /\ (Kind[c] = "cartesian" => Turned(u))
             /\ Kind[c] = "base" => Wheels(u) /\ (walk'.of # c => InTurn(u))
      PROVE  TargetOK(c)'
  BY <1>b DEF TargetOK, Stamped, Whole, Turned, Wheels, InTurn, Topics
<1>1. CASE CallbackBegin(c)
  <2>1. PICK upto \in {0, 2, 3} :
          /\ topic' = [topic EXCEPT ![c] = Receive(t, upto)]
          /\ upto <= Parts(c)
    <3> DEFINE choices == CASE Kind[c] = "joint" -> {0, 2} [] Kind[c] = "cartesian" -> {0, 2, 3}
                            [] OTHER -> {2}
    <3>1. choices \subseteq {0, 2, 3} /\ \A upto \in choices : upto <= Parts(c)
      BY DEF Parts
    <3>2. \E upto \in choices :
            topic' = [topic EXCEPT ![c] = Receive(t, upto)]
      BY <1>1 DEF CallbackBegin, Receive
    <3> HIDE DEF choices
    <3> QED BY <3>1, <3>2
  <2>2. t.cb = 0 /\ t.stamp < MaxMessages + s /\ UNCHANGED <<session, walk>>
    BY <1>1 DEF CallbackBegin, manager
  <2>3. u = Receive(t, upto)
    BY <1>0, <2>1
  <2> HIDE DEF t, u, s
  <2>5. /\ Stamped(c, u, s) /\ Whole(u) /\ (Kind[c] = "cartesian" => Turned(u))
        /\ Kind[c] = "base" => Wheels(u) /\ (walk.of # c => InTurn(u))
        /\ u.acts = t.acts
    BY <1>c, <1>d, <2>1, <2>2, <2>3, Received
  <2> QED BY <1>a, <1>b, <2>2, <2>5 DEF s, u
<1>2. CASE CallbackWrite(c)
  <2>1. t.cb > 0 /\ UNCHANGED <<session, walk>>
    BY <1>2 DEF CallbackWrite, manager
  <2>2. CASE Kind[c] = "base"
    <3>1. u = SetVelocityTarget(t)
      BY <1>0, <1>2, <2>2 DEF CallbackWrite
    <3>2. u.acts = t.acts
      BY <3>1, <1>0 DEF Stamped, Topics, SetVelocityTarget
    <3> HIDE DEF t, u, s
    <3>3. Stamped(c, u, s) /\ Whole(u) /\ Wheels(u) /\ (walk.of # c => InTurn(u))
      BY <1>0, <2>2, <3>1, WheelsSet
    <3> QED BY <1>a, <1>b, <2>1, <2>2, <3>2, <3>3 DEF s, u
  <2>3. CASE Kind[c] # "base"
    <3>1. u = WriteElement(t)
      BY <1>0, <1>2, <2>3 DEF CallbackWrite
    <3>2. u.acts = t.acts
      BY <3>1, <1>0 DEF Stamped, Topics, WriteElement
    <3> HIDE DEF t, u, s
    <3>3. Stamped(c, u, s) /\ Whole(u) /\ (Kind[c] = "cartesian" => Turned(u))
      BY <1>0, <2>1, <2>3, <3>1, Written
    <3> QED BY <1>a, <1>b, <2>1, <2>3, <3>2, <3>3 DEF s, u
  <2> QED BY <2>2, <2>3
<1>3. CASE CapturePart(c)
  <2>1. /\ walk.of = c /\ walk.activating /\ session' = session
        /\ topic' = [topic EXCEPT ![c].target[walk.part] = Max(topic[c].acts)]
        /\ walk' = Nobody \/ walk' = [walk EXCEPT !.part = @ + 1]
    BY <1>3 DEF CapturePart
  <2>2. walk.part \in 1..Parts(c) /\ Kind[c] # "base"
    BY <1>0, <2>1 DEF Walking
  <2>3. u = [t EXCEPT !.target[walk.part] = Max(t.acts)]
    BY <1>0, <2>1
  <2> HIDE DEF t, u, s
  <2>4. /\ Stamped(c, u, s) /\ u.acts = t.acts /\ Whole(u)
        /\ Kind[c] = "cartesian" => Turned(u)
    BY <1>0, <1>a, <2>1, <2>2, <2>3, Captured
  <2> QED BY <1>a, <1>b, <2>1, <2>2, <2>4 DEF s, u
<1>4. CASE ReadPart(c)
  <2> DEFINE p == IF walk = Nobody THEN 1 ELSE walk.part
             q == IF p > Parts(c) THEN Parts(c) ELSE p
  <2>1. /\ (walk = Nobody \/ (walk.of = c /\ ~walk.activating)) /\ session' = session
        /\ topic' = [topic EXCEPT ![c].used[p] = topic[c].target[q]]
        /\ \/ p < Reads(c) /\ walk' = [of |-> c, part |-> p + 1, activating |-> FALSE]
           \/ ~(p < Reads(c)) /\ walk' = Nobody
    BY <1>4 DEF ReadPart
  <2>2. p \in 1..Reads(c) /\ (walk # Nobody => p \in 2..Reads(c))
    BY <1>0, <2>1, PartsIn DEF Walking
  <2>3. q \in 1..Parts(c) /\ (Kind[c] = "base" => q = p /\ p \in {1, 2})
    BY <2>2 DEF Parts, Reads
  <2>4. u = [t EXCEPT !.used[p] = t.target[q]]
    BY <1>0, <2>1
  <2>5. Kind[c] = "base" => IF p = 1 THEN walk = Nobody /\ walk'.of = c
                                     ELSE walk.of = c /\ walk' = Nobody
    BY <2>1, <2>2, <2>3 DEF Reads
  <2>6. ~walk'.activating
    BY <2>1 DEF Nobody
  <2>7. walk' = Nobody => walk'.of # c
    BY <1>0, LoadsNamed DEF Nobody
  <2> HIDE DEF t, u, s, p, q
  <2>8. /\ Stamped(c, u, s) /\ u.acts = t.acts /\ Whole(u)
        /\ Kind[c] = "cartesian" => Turned(u)
    BY <1>0, <2>2, <2>3, <2>4, ReadOne
  <2>9. ASSUME Kind[c] = "base" PROVE Wheels(u) /\ (walk'.of # c => InTurn(u))
    <3>1. Wheels(u) /\ (p = 2 => InTurn(u))
      BY <1>0, <2>2, <2>3, <2>4, <2>9, ReadOne
    <3>2. p = 1 => walk'.of = c
      BY <2>5, <2>9
    <3> QED BY <2>3, <2>9, <3>1, <3>2
  <2> QED BY <1>b, <2>1, <2>6, <2>8, <2>9 DEF s, u
<1>5. CASE Activate(c)
  <2>1. /\ session' = [session EXCEPT ![c] = @ + 1] /\ s + 1 \in Sessions /\ walk = Nobody
    BY <1>0, <1>5, BoundsNatural DEF Activate, Free, Sessions
  <2>2. session'[c] = s + 1
    BY <1>0, <2>1 DEF Shapes
  <2>3. CASE Kind[c] \in {"joint", "cartesian"}
    <3>1. u = Stamp(t)
      BY <1>0, <1>5, <2>3 DEF Activate, Stamp
    <3> HIDE DEF t, u, s
    <3>2. /\ Stamped(c, u, s + 1) /\ u.acts # {} /\ Whole(u)
          /\ Kind[c] = "cartesian" => Turned(u)
      BY <1>c, <1>d, <2>1, <3>1, Stamping
    <3> QED BY <1>b, <2>2, <2>3, <3>2 DEF u
  <2>4. CASE Kind[c] \notin {"joint", "cartesian"}
    <3>1. topic' = topic /\ walk' = walk
      BY <1>5, <2>4 DEF Activate
    <3>2. Stamped(c, t, s + 1)
      <4>1. t.stamp \in Nat /\ s \in Nat
        <5>1. t.stamp \in Serials
          BY <1>0 DEF Stamped, Topics
        <5> QED BY <1>c, <5>1, SerialsNat
      <4>2. t.stamp <= MaxMessages + s => t.stamp <= MaxMessages + (s + 1)
        BY <4>1, BoundsNatural
      <4> QED BY <1>0, <4>2 DEF Stamped
    <3> QED BY <1>0, <1>b, <2>1, <2>2, <2>4, <3>1, <3>2
  <2> QED BY <2>3, <2>4
<1>6. CASE Update(c) \/ Configure(c) \/ Deactivate(c) \/ Broadcast(c) \/ NoBroadcast(c)
           \/ Copy(c) \/ Publish(c)
  <2>1. UNCHANGED <<topic, session, walk>>
    BY <1>0, <1>6, ConfigureEffect DEF Update, Deactivate, Broadcast, NoBroadcast, Copy, Publish,
       data, manager
  <2> QED BY <1>0, <1>a, <1>b, <2>1
<1> QED BY <1>0, <1>1, <1>2, <1>3, <1>4, <1>5, <1>6, OwnSteps

LEMMA TargetsNext == Shapes /\ Lives /\ Walking /\ Targets /\ [Next]_vars => Targets'
<1> SUFFICES ASSUME Shapes, Lives, Walking, Targets, [Next]_vars PROVE Targets'
  OBVIOUS
<1>1. ASSUME NEW c \in Subscribers
      PROVE  TargetOK(c)' /\ (walk'.activating /\ walk'.of = c => topic'[c].acts # {})
  <2>0. c \in Controllers /\ TargetOK(c) /\ (walk.activating /\ walk.of = c => topic[c].acts # {})
    BY OfIn DEF Targets
  <2>1. CASE Own(c)
    BY <2>1, TargetOwn
  <2>2. CASE topic'[c] = topic[c] /\ session'[c] = session[c]
             /\ (walk' = walk \/ (walk.of # c /\ walk'.of # c))
    BY <2>0, <2>2 DEF TargetOK, Stamped, Whole, Turned, Wheels, InTurn, Topics
  <2>3. CASE Begin \/ StartUpdates
    BY <2>2, <2>3 DEF Begin, StartUpdates, data
  <2>4. CASE Untouched(c) /\ Undisturbed(c)
    BY <2>2, <2>4 DEF Untouched, Undisturbed
  <2> QED BY <2>0, <2>1, <2>3, <2>4, OneAtATime
<1>2. walk'.activating => walk'.of \in Subscribers
  BY LivesNext DEF Walking, Nobody
<1> QED BY <1>1, <1>2 DEF Targets

-----------------------------------------------------------------------------
(***************************************************************************)
(* The broadcasters.                                                       *)
(***************************************************************************)
Casts == [lag : 0..Interval, turn : {"realtime", "publisher"}, thread : {"waiting", "publishing"}]

Casting == cast \in [Broadcasters -> Casts]

LEMMA NewCastIn == NewCast \in Casts
<1>1. 0 \in 0..Interval
  BY TimesPositive
<1> QED BY <1>1 DEF NewCast, Casts

LEMMA CastingNext == Shapes /\ Casting /\ [Next]_vars => Casting'
<1> SUFFICES ASSUME Shapes, Casting, [Next]_vars, NEW c \in Broadcasters PROVE cast'[c] \in Casts
  BY ShapesNext DEF Casting, Shapes
<1>1. cast[c] \in Casts /\ c \in Controllers /\ 0 \in 0..Interval
  BY OfIn, TimesPositive DEF Casting
<1>2. CASE cast'[c] = cast[c]
  BY <1>1, <1>2
<1>3. CASE Begin
  <2>1. PICK dt \in 1..MaxPeriod :
          cast'[c] = [cast[c] EXCEPT !.lag = IF @ + dt > Interval THEN Interval ELSE @ + dt]
    BY <1>3 DEF Begin
  <2>2. /\ cast[c].lag \in Nat /\ Interval \in Nat /\ dt \in Nat
    BY <1>1, TimesPositive DEF Casts
  <2> DEFINE lag == IF cast[c].lag + dt > Interval THEN Interval ELSE cast[c].lag + dt
  <2>3. lag \in 0..Interval
    BY <2>2
  <2>4. cast'[c] = [cast[c] EXCEPT !.lag = lag]
    BY <2>1
  <2> HIDE DEF lag
  <2> QED BY <1>1, <2>3, <2>4 DEF Casts
<1>4. CASE StartUpdates
  BY <1>2, <1>4 DEF StartUpdates, data
<1>5. CASE Own(c)
  <2>0. \A b : cast' = [cast EXCEPT ![c] = b] => cast'[c] = b
    BY DEF Shapes
  <2>1. CASE Broadcast(c)
    <3>1. cast'[c] = [cast[c] EXCEPT !.turn = "publisher", !.lag = 0]
      BY <2>0, <2>1 DEF Broadcast, Filled
    <3> QED BY <1>1, <3>1 DEF Casts
  <2>2. CASE Copy(c)
    <3>1. cast'[c] = [cast[c] EXCEPT !.turn = "realtime", !.thread = "publishing"]
      BY <2>0, <2>2 DEF Copy
    <3> QED BY <1>1, <3>1 DEF Casts
  <2>3. CASE Publish(c)
    <3>1. cast'[c] = [cast[c] EXCEPT !.thread = "waiting"]
      BY <2>0, <2>3 DEF Publish
    <3> QED BY <1>1, <3>1 DEF Casts
  <2>4. CASE Configure(c)
    BY <1>1, <2>0, <2>4, ConfigureEffect, NewCastIn
  <2>5. CASE Update(c) \/ CapturePart(c) \/ ReadPart(c) \/ NoBroadcast(c) \/ Activate(c)
             \/ Deactivate(c) \/ CallbackBegin(c) \/ CallbackWrite(c)
    BY <1>2, <2>5 DEF Update, CapturePart, ReadPart, NoBroadcast, Activate, Deactivate,
       CallbackBegin, CallbackWrite, data
  <2> QED BY <1>1, <1>5, <2>1, <2>2, <2>3, <2>4, <2>5, OwnSteps
<1>6. CASE Untouched(c)
  BY <1>2, <1>6 DEF Untouched
<1> QED BY <1>1, <1>3, <1>4, <1>5, <1>6, OneAtATime

-----------------------------------------------------------------------------
(***************************************************************************)
(* The invariant, and what follows from it.                                *)
(***************************************************************************)
ExampleInv ==
  Shapes /\ Lives /\ Walking /\ Trajectories /\ Arms /\ References /\ Targets /\ Casting

LEMMA ExampleInvHolds == Spec => []ExampleInv
<1>1. Init => ExampleInv
  <2>1. Init => Casting
    BY NewCastIn DEF Init, Casting
  <2> QED BY <2>1, ShapesInit, LivesInit, TrajectoriesInit, ArmsInit, ReferencesInit, TargetsInit
          DEF ExampleInv
<1>2. ExampleInv /\ [Next]_vars => ExampleInv'
  BY ShapesNext, LivesNext, TrajectoriesNext, ArmsNext, ReferencesNext, TargetsNext, CastingNext
     DEF ExampleInv
<1> QED BY <1>1, <1>2, PTL DEF Spec

\* Every variable keeps its type.
THEOREM TypeCorrect == Spec => []TypeOK
<1>1. ExampleInv => TypeOK
  <2> SUFFICES ASSUME ExampleInv PROVE TypeOK
    OBVIOUS
  <2>1. /\ loaded \in Loads /\ due \subseteq loaded
        /\ life \in [Controllers -> {"unconfigured", "inactive", "active", "finalized"}]
        /\ session \in [Controllers -> 0..MaxSessions]
        /\ phase \in {"asleep", "awake"} /\ period \in 0..MaxPeriod
    BY DEF ExampleInv, Lives, States, Active
  <2>2. traj \in [Timed -> [time : 0..Horizon, since : 0..Horizon, end : 0..Horizon,
                            done : BOOLEAN]]
    BY DEF ExampleInv, Trajectories, Times
  <2>3. DOMAIN arms = loaded \cap MultiArm
    BY DEF ExampleInv, Shapes
  <2>4. ASSUME NEW c \in loaded \cap MultiArm PROVE arms[c].held \subseteq ToSet(Names)
    <3>1. ArmsOK(arms[c])
      BY <2>4 DEF ExampleInv, Arms
    <3> QED BY <3>1, ListedNames DEF ArmsOK
  <2>5. DOMAIN topic = Subscribers
    BY DEF ExampleInv, Shapes
  <2>6. ASSUME NEW c \in Subscribers
        PROVE  /\ topic[c].target \in [1..Parts(c) -> Serials] /\ topic[c].stamp \in Serials
               /\ topic[c].cb \in 0..topic[c].upto
    <3>1. Stamped(c, topic[c], session[c])
      BY <2>6 DEF ExampleInv, Targets, TargetOK
    <3> QED BY <3>1 DEF Stamped, Topics
  <2>7. walk = Nobody \/ walk.of \in Subscribers
    BY DEF ExampleInv, Walking
  <2>8. DOMAIN comp = Semantic /\ \A c \in Semantic : comp[c].dangled \in BOOLEAN
    BY DEF ExampleInv, References, Comps
  <2>9. cast \in [Broadcasters -> [lag : 0..Interval, turn : {"realtime", "publisher"},
                                   thread : {"waiting", "publishing"}]]
    BY DEF ExampleInv, Casting, Casts
  <2> QED BY <2>1, <2>2, <2>3, <2>4, <2>5, <2>6, <2>7, <2>8, <2>9 DEF TypeOK
<1> QED BY <1>1, ExampleInvHolds, PTL

\* If of two arms of which one is named within the other the longer name comes later,
\* an active controller of several arms reads each arm's own interfaces, and has its
\* gains if the entries are in order; and no controller that releases its references
\* ever looks up one of an earlier session.
THEOREM InterfacesSafe == ASSUME OccursLater PROVE Spec => []InterfacesAreOwn
<1>1. ExampleInv => InterfacesAreOwn
  <2> SUFFICES ASSUME ExampleInv PROVE InterfacesAreOwn
    OBVIOUS
  <2>1. ASSUME NEW c \in Active \cap MultiArm, NEW n \in ToSet(Names), n \in arms[c].held
        PROVE  /\ arms[c].source[n] = n
               /\ InOrder(arms[c].listed) => arms[c].gains[n] = n
    <3> DEFINE a == arms[c]
    <3>1. ArmsOK(a) /\ Sources(a)
      BY <2>1 DEF ExampleInv, Arms, Active
    <3> HIDE DEF a
    <3>2. /\ a.listed \in ArmLists /\ n \in a.held /\ a.held = ToSet(a.listed)
          /\ a.source = [m \in a.held |-> SourceOf(m, a.held)]
          /\ a.gains = [m \in a.held |-> a.listed[PlaceIn(m, a.held)]]
      BY <2>1, <3>1 DEF ArmsOK, Sources, a
    <3>3. a.held \in SUBSET ToSet(Names)
      BY <3>2, ListedNames
    <3>4. a.source[n] = n
      BY <3>2, <3>3, SourceIsOwn
    <3>5. PICK i \in DOMAIN a.listed : a.listed[i] = n
      BY <3>2 DEF ToSet
    <3>6. InOrder(a.listed) => PlaceIn(n, a.held) = i
      BY <3>2, <3>5, PlaceIsOwn
    <3>7. InOrder(a.listed) => a.gains[n] = n
      BY <3>2, <3>5, <3>6
    <3> QED BY <3>4, <3>7 DEF a
  <2>2. \A c \in Releasing : ~comp[c].dangled
    BY DEF ExampleInv, References
  <2> QED BY <2>1, <2>2 DEF InterfacesAreOwn
<1> QED BY <1>1, ExampleInvHolds, PTL

\* A controller with a time of its own is nowhere behind the time since its activation
\* when updated, never more than a cycle ahead, and ends its motion when it is over.
THEOREM TrajectorySafe == Spec => []TrajectoryOnTime
<1>1. ExampleInv => TrajectoryOnTime
  <2> SUFFICES ASSUME ExampleInv, NEW c \in Active \cap Timed
      PROVE  LET ahead == traj[c].time - traj[c].since IN
             /\ ahead <= MaxPeriod
             /\ phase = "asleep" /\ c \notin due /\ traj[c].since > 0 => ahead >= 0
             /\ phase = "asleep" /\ c \notin due /\ traj[c].since > 0 /\ c \in Starting =>
                  (traj[c].done <=> traj[c].since >= traj[c].end)
    BY DEF TrajectoryOnTime
  <2> DEFINE t == traj[c]
  <2>1. OnTime(c) /\ t \in Times /\ period \in 0..MaxPeriod
    BY DEF ExampleInv, Trajectories, Lives
  <2>2. /\ t.time \in 0..Horizon /\ t.since \in 0..Horizon /\ period \in Nat
        /\ t.time \in Nat /\ t.since \in Nat /\ Horizon \in Nat /\ MaxPeriod \in Nat
    BY <2>1, TimesPositive DEF Times
  <2>3. TimeFits(c, t, ~Settled(c))
    BY <2>1 DEF OnTime
  <2> HIDE DEF t
  <2>4. t.time <= Until(t.time + period)
    BY <2>2 DEF Until
  <2>5. t.time <= t.since + MaxPeriod
    <3>1. CASE c \in Summing
      <4>1. SumFits(t, ~Settled(c))
        BY <2>3, <3>1 DEF TimeFits
      <4>2. Until(t.time + period) \in Nat
        BY <2>2 DEF Until
      <4> QED BY <2>2, <2>4, <4>1, <4>2 DEF SumFits
    <3>2. CASE c \notin Summing
      BY <2>2, <2>3, <3>2 DEF TimeFits, ClockFits
    <3> QED BY <3>1, <3>2
  <2>6. Settled(c) => t.since <= t.time
    BY <2>2, <2>3 DEF TimeFits, ClockFits, SumFits
  <2>7. Settled(c) /\ t.since > 0 /\ c \in Starting => (t.done <=> t.since >= t.end)
    BY <2>3 DEF TimeFits, MoveFits
  <2> QED BY <2>2, <2>5, <2>6, <2>7 DEF Settled, t
<1> QED BY <1>1, ExampleInvHolds, PTL

\* However callbacks, activations and updates overlap, a target at rest is that of one
\* message or in part captured, the orientation is not newer than the position, and
\* the wheels never go back in time.
THEOREM TargetsSafe == Spec => []TargetsOfOneMessage
<1>1. ExampleInv => TargetsOfOneMessage
  <2> SUFFICES ASSUME ExampleInv, NEW c \in loaded \cap Subscribers, walk.of # c
      PROVE  LET t == topic[c] IN
             /\ t.cb = 0 => t.target[1] = t.target[2] \/ {t.target[1], t.target[2]} \cap t.acts # {}
             /\ t.cb = 0 /\ Kind[c] = "cartesian" =>
                  t.target[3] <= t.target[1] \/ ToSet(t.target) \cap t.acts # {}
             /\ Kind[c] = "base" => t.used[1] <= t.used[2]
    BY DEF TargetsOfOneMessage
  <2> DEFINE t == topic[c]
  <2>1. /\ Stamped(c, t, session[c]) /\ Whole(t)
        /\ Kind[c] = "cartesian" => Turned(t)
        /\ Kind[c] = "base" => InTurn(t)
    BY DEF ExampleInv, Targets, TargetOK
  <2> HIDE DEF t
  <2>2. DOMAIN t.target = 1..Parts(c)
    BY <2>1 DEF Stamped, Topics
  <2>3. \A p \in 1..Parts(c) : t.target[p] \in t.acts => ToSet(t.target) \cap t.acts # {}
    BY <2>2 DEF ToSet
  <2>4. t.cb = 0 => t.target[1] = t.target[2] \/ {t.target[1], t.target[2]} \cap t.acts # {}
    BY <2>1 DEF Whole
  <2>5. Kind[c] = "cartesian" =>
          t.target[3] <= t.target[1] \/ ToSet(t.target) \cap t.acts # {}
    BY <2>1, <2>3, PartsIn DEF Turned
  <2> QED BY <2>1, <2>4, <2>5 DEF InTurn, t
<1> QED BY <1>1, ExampleInvHolds, PTL
=============================================================================
