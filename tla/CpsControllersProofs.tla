------------------------ MODULE CpsControllersProofs ------------------------
(***************************************************************************)
(* The controllers of cps_controllers (CpsControllers), for any            *)
(* controllers, launches, periods and schedules.                           *)
(***************************************************************************)
EXTENDS CpsControllers, FiniteSetTheorems, SequenceTheorems, WellFoundedInduction, TLAPS

-----------------------------------------------------------------------------
(***************************************************************************)
(* Whose members a step changes: those of one controller, except for the   *)
(* statics of a class and the files.                                       *)
(***************************************************************************)
\* Every variable that has a member per controller is a function on those.
Shapes ==
  /\ life = [c \in Controllers |-> life[c]]
  /\ session = [c \in Controllers |-> session[c]]
  /\ log = [c \in Controllers |-> log[c]]
  /\ used = [c \in Impedances |-> used[c]]
  /\ window = [c \in Impedances |-> window[c]]
  /\ ref = [c \in Impedances |-> ref[c]]
  /\ trial = [c \in Wrenches |-> trial[c]]
  /\ energy = [c \in Budgets |-> energy[c]]
  /\ goal = [c \in Budgets |-> goal[c]]
  /\ reach = [c \in Reachables |-> reach[c]]

\* The members of a controller after a step, those before it.
Untouched(c) ==
  /\ life'[c] = life[c] /\ session'[c] = session[c] /\ log'[c] = log[c]
  /\ c \in Impedances => used'[c] = used[c] /\ window'[c] = window[c] /\ ref'[c] = ref[c]
  /\ c \in Wrenches => trial'[c] = trial[c]
  /\ c \in Budgets => energy'[c] = energy[c] /\ goal'[c] = goal[c]
  /\ c \in Reachables => reach'[c] = reach[c]

\* The steps of a controller.
Own(c) ==
  \/ Configure(c) \/ Activate(c) \/ Deactivate(c) \/ Update(c)
  \/ GoalBegin(c) \/ GoalEnd(c) \/ ContactBegin(c) \/ ContactStep(c)

\* Shapes hold from the beginning.
LEMMA ShapesInit == Init => Shapes
BY DEF Init, Shapes

\* Every step is one of the launch's cycle or one of a controller.
LEMMA Steps == [Next]_vars => UNCHANGED vars \/ Cycle \/ \E c \in Controllers : Own(c)
BY DEF Next, Own

LEMMA OfIn == /\ Impedances \subseteq Controllers /\ Wrenches \subseteq Controllers
              /\ Budgets \subseteq Controllers /\ Reachables \subseteq Controllers
BY DEF Impedances, Wrenches, Budgets, Reachables, Of

\* A step of one controller leaves the shapes, and the members of the others.
LEMMA OwnConfigure ==
  ASSUME Shapes, NEW d \in Controllers, Configure(d)
  PROVE  Shapes' /\ \A c \in Controllers \ {d} : Untouched(c)
<1>1. UNCHANGED <<session, log, used, window, ref, trial, energy, goal>>
  BY DEF Configure, lifecycle, impedance, files
<1>2. PICK l : life' = [life EXCEPT ![d] = l]
  BY DEF Configure, ConfigureNonlinear, ConfigureExample, ConfigureWrench, ConfigureBudget,
         ConfigureReachable, ConfigureTo
<1>3. reach' = [c \in Reachables |-> IF c = d /\ life'[d] = "inactive" THEN Gained(reach[c])
                                    ELSE reach[c]]
  BY DEF Configure
<1> QED BY <1>1, <1>2, <1>3 DEF Shapes, Untouched

LEMMA OwnDeactivate ==
  ASSUME Shapes, NEW d \in Controllers, Deactivate(d)
  PROVE  Shapes' /\ \A c \in Controllers \ {d} : Untouched(c)
<1>1. UNCHANGED <<session, used, window, ref, trial, energy, goal>>
  BY DEF Deactivate, lifecycle, impedance
<1>2. life' = [life EXCEPT ![d] = "inactive"] /\ log' = [log EXCEPT ![d] = 0]
  BY DEF Deactivate, CloseLog
<1>3. reach' = [c \in Reachables |-> IF c = d THEN Closed(reach[c]) ELSE reach[c]]
  BY DEF Deactivate
<1> QED BY <1>1, <1>2, <1>3 DEF Shapes, Untouched

LEMMA OwnMessage ==
  ASSUME Shapes, NEW d \in Controllers,
         GoalBegin(d) \/ GoalEnd(d) \/ ContactBegin(d) \/ ContactStep(d)
  PROVE  Shapes' /\ \A c \in Controllers \ {d} : Untouched(c)
<1>1. UNCHANGED <<life, session, log, used, window, ref, trial, energy>>
  BY DEF GoalBegin, GoalEnd, ContactBegin, ContactStep, lifecycle, impedance, files
<1>2. goal' = goal \/ \E g : goal' = [goal EXCEPT ![d] = g]
  <2>1. CASE GoalBegin(d)
    BY <2>1 DEF GoalBegin
  <2>2. CASE GoalEnd(d)
    BY <2>2 DEF GoalEnd
  <2>3. CASE ContactBegin(d) \/ ContactStep(d)
    BY <2>3 DEF ContactBegin, ContactStep
  <2> QED BY <2>1, <2>2, <2>3
<1>3. reach' = reach \/ \E r : reach' = [reach EXCEPT ![d] = r]
  <2>1. CASE GoalBegin(d) \/ GoalEnd(d)
    BY <2>1 DEF GoalBegin, GoalEnd
  <2>2. CASE ContactBegin(d)
    BY <2>2 DEF ContactBegin
  <2>3. CASE ContactStep(d)
    BY <2>3 DEF ContactStep
  <2> QED BY <2>1, <2>2, <2>3
<1> QED BY <1>1, <1>2, <1>3 DEF Shapes, Untouched

\* An update, and what it changes in its class.
LEMMA UpdateKinds ==
  ASSUME NEW d \in Controllers, Update(d)
  PROVE  /\ d \in due /\ due' = due \ {d} /\ UNCHANGED <<loaded, session, life>> /\ LogRow(d)
         /\ \/ /\ d \in Impedances /\ FastUpdate(d)
               /\ UNCHANGED <<trial, energy, goal, reach>>
            \/ /\ d \in Impedances /\ FeedforwardUpdate(d)
               /\ UNCHANGED <<trial, energy, goal, reach>>
            \/ /\ d \in Wrenches /\ UpdateWrench(d)
               /\ UNCHANGED <<impedance, energy, goal, reach>>
            \/ /\ d \in Budgets /\ UpdateBudget(d)
               /\ UNCHANGED <<impedance, trial, reach>>
            \/ /\ d \in Reachables /\ UpdateReachable(d)
               /\ UNCHANGED <<impedance, trial, energy, goal>>
<1>1. d \in due /\ due' = due \ {d} /\ UNCHANGED <<loaded, session, life>> /\ LogRow(d)
  BY DEF Update
<1>2. CASE (NonlinearUpdate(d) \/ ExampleUpdate(d)) /\ UNCHANGED <<trial, energy, goal, reach>>
  BY <1>1, <1>2 DEF NonlinearUpdate, ExampleUpdate, Impedances, Of, Shared
<1>3. CASE UpdateWrench(d) /\ UNCHANGED <<impedance, energy, goal, reach>>
  BY <1>1, <1>3 DEF UpdateWrench, Wrenches, Of
<1>4. CASE UpdateBudget(d) /\ UNCHANGED <<impedance, trial, reach>>
  BY <1>1, <1>4 DEF UpdateBudget, Budgets, Of
<1>5. CASE UpdateReachable(d) /\ UNCHANGED <<impedance, trial, energy, goal>>
  BY <1>1, <1>5 DEF UpdateReachable, Reachables, Of
<1> QED BY <1>1, <1>2, <1>3, <1>4, <1>5 DEF Update

\* An activation: of one of the four kinds, whose other variables it leaves alone.
LEMMA ActivateKinds ==
  ASSUME NEW d \in Controllers, Activate(d)
  PROVE  /\ d \in loaded /\ due = {} /\ life[d] = "inactive" /\ session[d] < MaxSessions
         /\ \A c \in Active : Arm[c] # Arm[d]
         /\ session' = [session EXCEPT ![d] = @ + 1] /\ UNCHANGED <<loaded, due>>
         /\ \/ d \in Impedances /\ ActivateImpedance(d)
            \/ d \in Wrenches /\ ActivateWrench(d)
            \/ d \in Budgets /\ ActivateBudget(d)
            \/ d \in Reachables /\ ActivateReachable(d)
<1>1. CASE ActivateNonlinear(d) \/ ActivateExample(d)
  BY <1>1 DEF Activate, ActivateNonlinear, ActivateExample, Impedances, Of, Shared
<1>2. CASE ActivateWrench(d)
  BY <1>2 DEF Activate, ActivateWrench, Wrenches, Of
<1>3. CASE ActivateBudget(d)
  BY <1>3 DEF Activate, ActivateBudget, Budgets, Of
<1>4. CASE ActivateReachable(d)
  BY <1>4 DEF Activate, ActivateReachable, Reachables, Of
<1> QED BY <1>1, <1>2, <1>3, <1>4 DEF Activate

\* After an activation the controller is active, with its log open for the session if
\* it keeps one and empty then; or it is finalized, with or without a log.
LEMMA ActivateOutcomes ==
  ASSUME NEW d \in Controllers, Activate(d)
  PROVE  \/ /\ life' = [life EXCEPT ![d] = "active"]
            /\ IF d \in Logging THEN OpenLog(d) ELSE UNCHANGED files
         \/ /\ life' = [life EXCEPT ![d] = "finalized"] /\ d \in Logging
            /\ OpenLog(d) \/ UNCHANGED files
<1>0. d \in Budgets => d \notin Logging
  BY LogsNamed DEF Budgets, Of
<1>1. CASE Opened(d)
  BY <1>1 DEF Opened
<1>2. CASE d \in Budgets /\ ActivateBudget(d)
  BY <1>0, <1>2 DEF ActivateBudget
<1>3. CASE d \in Reachables /\ ActivateReachable(d) /\ ~Opened(d)
  BY <1>3 DEF ActivateReachable
<1> QED BY <1>1, <1>2, <1>3, ActivateKinds DEF ActivateImpedance, ActivateWrench,
           ActivateReachable

LEMMA OwnUpdate ==
  ASSUME Shapes, NEW d \in Controllers, Update(d)
  PROVE  Shapes' /\ \A c \in Controllers \ {d} : Untouched(c)
<1>1. UNCHANGED <<session, life, log>>
  BY UpdateKinds DEF LogRow
<1>2. CASE d \in Impedances /\ (FastUpdate(d) \/ FeedforwardUpdate(d))
           /\ UNCHANGED <<trial, energy, goal, reach>>
  <2>1. \E w : window' = [window EXCEPT ![d] = w]
    BY <1>2 DEF FastUpdate, FeedforwardUpdate, FastStatistics, FeedforwardStatistics, LoopStatistics
  <2>2. \E r : ref' = [ref EXCEPT ![d] = r]
    BY <1>2 DEF FastUpdate, FeedforwardUpdate, Reference
  <2>3. used' = used \/ \E u : used' = [used EXCEPT ![d] = u]
    BY <1>2 DEF FastUpdate, FeedforwardUpdate
  <2> QED BY <1>1, <1>2, <2>1, <2>2, <2>3 DEF Shapes, Untouched
<1>3. CASE UpdateWrench(d) /\ UNCHANGED <<impedance, energy, goal, reach>>
  <2>1. \E t : trial' = [trial EXCEPT ![d] = t]
    BY <1>3 DEF UpdateWrench
  <2> QED BY <1>1, <1>3, <2>1 DEF Shapes, Untouched, impedance
<1>4. CASE UpdateBudget(d) /\ UNCHANGED <<impedance, trial, reach>>
  <2>1. \E g : goal' = [goal EXCEPT ![d] = g]
    BY <1>4 DEF UpdateBudget
  <2>2. \E e : energy' = [energy EXCEPT ![d] = e]
    BY <1>4 DEF UpdateBudget
  <2> QED BY <1>1, <1>4, <2>1, <2>2 DEF Shapes, Untouched, impedance
<1>5. CASE UpdateReachable(d) /\ UNCHANGED <<impedance, trial, energy, goal>>
  <2>1. \E r : reach' = [reach EXCEPT ![d] = r]
    BY <1>5 DEF UpdateReachable
  <2> QED BY <1>1, <1>5, <2>1 DEF Shapes, Untouched, impedance
<1> QED BY <1>2, <1>3, <1>4, <1>5, UpdateKinds

LEMMA OwnActivate ==
  ASSUME Shapes, NEW d \in Controllers, Activate(d)
  PROVE  Shapes' /\ \A c \in Controllers \ {d} : Untouched(c)
<1>1. session' = [session EXCEPT ![d] = @ + 1]
  BY ActivateKinds
<1>2. \E l : life' = [life EXCEPT ![d] = l]
  BY ActivateOutcomes
<1>3. log' = log \/ \E l : log' = [log EXCEPT ![d] = l]
  BY ActivateOutcomes DEF OpenLog, files
<1>4. CASE ActivateImpedance(d)
  <2>1. /\ \E r : ref' = [ref EXCEPT ![d] = r]
        /\ \E w : window' = [window EXCEPT ![d] = w]
        /\ \E u : used' = [used EXCEPT ![d] = u]
        /\ UNCHANGED <<trial, energy, goal, reach>>
    BY <1>4 DEF ActivateImpedance
  <2> QED BY <1>1, <1>2, <1>3, <2>1 DEF Shapes, Untouched
<1>5. CASE ActivateWrench(d)
  <2>1. (\E t : trial' = [trial EXCEPT ![d] = t]) /\ UNCHANGED <<impedance, energy, goal, reach>>
    BY <1>5 DEF ActivateWrench
  <2> QED BY <1>1, <1>2, <1>3, <2>1 DEF Shapes, Untouched, impedance
<1>6. CASE ActivateBudget(d)
  <2>1. (\E g : goal' = [goal EXCEPT ![d] = g]) /\ UNCHANGED <<impedance, trial, energy, reach>>
    BY <1>6 DEF ActivateBudget
  <2> QED BY <1>1, <1>2, <1>3, <2>1 DEF Shapes, Untouched, impedance
<1>7. CASE ActivateReachable(d)
  <2>1. (\E r : reach' = [reach EXCEPT ![d] = r]) /\ UNCHANGED <<impedance, trial, energy, goal>>
    BY <1>7 DEF ActivateReachable
  <2> QED BY <1>1, <1>2, <1>3, <2>1 DEF Shapes, Untouched, impedance
<1> QED BY <1>4, <1>5, <1>6, <1>7, ActivateKinds

\* A step of one controller leaves the shapes, and the members of the others.
LEMMA OwnIsOwn ==
  ASSUME Shapes, NEW d \in Controllers, Own(d)
  PROVE  Shapes' /\ \A c \in Controllers \ {d} : Untouched(c)
BY OwnConfigure, OwnActivate, OwnDeactivate, OwnUpdate, OwnMessage DEF Own

LEMMA ShapesNext == Shapes /\ [Next]_vars => Shapes'
<1> SUFFICES ASSUME Shapes, [Next]_vars PROVE Shapes'
  OBVIOUS
<1>1. CASE UNCHANGED vars
  BY <1>1 DEF vars, Shapes
<1>2. CASE Cycle
  BY <1>2 DEF Cycle, Shapes, impedance, files
<1> QED BY <1>1, <1>2, Steps, OwnIsOwn

\* So an invariant about the members of each controller is kept if it is by the
\* steps of the controller itself.
LEMMA OneAtATime ==
  ASSUME Shapes, [Next]_vars, NEW c \in Controllers
  PROVE  Own(c) \/ Untouched(c)
<1>1. CASE UNCHANGED vars
  BY <1>1 DEF vars, Untouched
<1>2. CASE Cycle
  BY <1>2 DEF Cycle, Untouched, impedance, files
<1> QED BY <1>1, <1>2, Steps, OwnIsOwn

-----------------------------------------------------------------------------
(***************************************************************************)
(* The lifecycle, and the log files.                                       *)
(***************************************************************************)
States == {"unconfigured", "inactive", "active", "finalized"}

\* Only active controllers are updated, no two of them have the same arm, and each
\* of them has been activated.
Lives ==
  /\ loaded \in Loads
  /\ life \in [Controllers -> States]
  /\ session \in [Controllers -> 0..MaxSessions]
  /\ due \subseteq Active
  /\ \A c \in Active : session[c] # 0
  /\ \A c, d \in Active : Arm[c] = Arm[d] => c = d

\* What a step may do to the lifecycle of its controller.
LEMMA Lifecycles ==
  ASSUME Shapes, NEW c \in Controllers, Own(c)
  PROVE  /\ loaded' = loaded
         /\ \/ /\ c \in loaded /\ life[c] = "unconfigured" /\ Configure(c)
               /\ \E l \in States \ {"active"} : life' = [life EXCEPT ![c] = l]
               /\ UNCHANGED <<session, due>>
            \/ /\ c \in loaded /\ life[c] = "inactive" /\ Activate(c) /\ due = {}
               /\ \E l \in {"active", "finalized"} : life' = [life EXCEPT ![c] = l]
               /\ session[c] < MaxSessions /\ session' = [session EXCEPT ![c] = @ + 1]
               /\ \A d \in Active : Arm[d] # Arm[c]
               /\ due' = due
            \/ /\ c \in Active /\ due = {} /\ Deactivate(c)
               /\ life' = [life EXCEPT ![c] = "inactive"] /\ UNCHANGED <<session, due>>
            \/ /\ ~Configure(c) /\ ~Activate(c) /\ ~Deactivate(c)
               /\ UNCHANGED <<life, session>> /\ due' \subseteq due
<1>1. CASE Configure(c)
  <2>1. \E l \in States \ {"active"} : life' = [life EXCEPT ![c] = l]
    BY <1>1 DEF Configure, ConfigureNonlinear, ConfigureExample, ConfigureWrench, ConfigureBudget,
                ConfigureReachable, ConfigureTo, States
  <2> QED BY <1>1, <2>1 DEF Configure, lifecycle
<1>2. CASE Activate(c)
  <2>1. \E l \in {"active", "finalized"} : life' = [life EXCEPT ![c] = l]
    BY <1>2, ActivateOutcomes
  <2> QED BY <1>2, <2>1, ActivateKinds
<1>3. CASE Deactivate(c)
  BY <1>3 DEF Deactivate, lifecycle
<1>4. CASE ~Configure(c) /\ ~Activate(c) /\ ~Deactivate(c)
  <2>1. CASE Update(c)
    BY <1>4, <2>1, UpdateKinds
  <2>2. CASE GoalBegin(c) \/ GoalEnd(c) \/ ContactBegin(c) \/ ContactStep(c)
    BY <1>4, <2>2 DEF GoalBegin, GoalEnd, ContactBegin, ContactStep, lifecycle
  <2> QED BY <1>4, <2>1, <2>2 DEF Own
<1> QED BY <1>1, <1>2, <1>3, <1>4

LEMMA LivesInit == Init => Lives
<1> SUFFICES ASSUME Init PROVE Lives
  OBVIOUS
<1>1. loaded \in Loads /\ due = {} /\ life \in [Controllers -> States]
  BY DEF Init, States
<1>2. session \in [Controllers -> 0..MaxSessions]
  BY BoundsNatural DEF Init
<1>3. Active = {}
  BY LoadsNamed DEF Init, Active
<1> QED BY <1>1, <1>2, <1>3 DEF Lives

LEMMA LivesNext == Shapes /\ Lives /\ [Next]_vars => Lives'
<1> SUFFICES ASSUME Shapes, Lives, [Next]_vars PROVE Lives'
  OBVIOUS
<1>1. CASE UNCHANGED vars
  BY <1>1 DEF vars, Lives, Active
<1>2. CASE Cycle
  BY <1>2 DEF Cycle, Lives, Active
<1>3. ASSUME NEW c \in Controllers, Own(c) PROVE Lives'
  <2>1. CASE /\ \E l \in States \ {"active"} : life' = [life EXCEPT ![c] = l]
             /\ life[c] = "unconfigured" /\ UNCHANGED <<loaded, session, due>>
    BY <2>1 DEF Lives, Active, States
  <2>2. CASE /\ \E l \in {"active", "finalized"} : life' = [life EXCEPT ![c] = l]
             /\ session[c] < MaxSessions /\ session' = [session EXCEPT ![c] = @ + 1]
             /\ \A d \in Active : Arm[d] # Arm[c]
             /\ due = {} /\ UNCHANGED <<loaded, due>>
    <3>1. session[c] \in Nat /\ session' \in [Controllers -> 0..MaxSessions] /\ session'[c] # 0
      BY <2>2, BoundsNatural DEF Lives
    <3>2. \A d \in Controllers \ {c} : life'[d] = life[d] /\ session'[d] = session[d]
      BY <2>2 DEF Lives
    <3>3. life' \in [Controllers -> States]
      BY <2>2 DEF Lives, States
    <3>4. Active' \subseteq Active \cup {c} /\ Active \subseteq Controllers
      BY <2>2, <3>2, LoadsNamed DEF Active, Lives
    <3> QED BY <2>2, <3>1, <3>2, <3>3, <3>4 DEF Lives
  <2>3. CASE life' = [life EXCEPT ![c] = "inactive"] /\ due = {} /\ UNCHANGED <<loaded, session, due>>
    BY <2>3 DEF Lives, Active, States
  <2>4. CASE UNCHANGED <<loaded, life, session>> /\ due' \subseteq due
    BY <2>4 DEF Lives, Active
  <2> QED BY <1>3, <2>1, <2>2, <2>3, <2>4, Lifecycles
<1> QED BY <1>1, <1>2, <1>3, Steps

\* Only classes that have a log have one open, and it is that of the last session:
\* from a successful activation to the deactivation.
LogsOpen ==
  \A c \in Controllers :
    /\ log[c] \in {0, session[c]}
    /\ log[c] # 0 => c \in Logging
    /\ life[c] \in {"unconfigured", "inactive"} => log[c] = 0
    /\ life[c] = "active" /\ c \in Logging => log[c] = session[c]

LEMMA LogsOpenInit == Init => LogsOpen
BY DEF Init, LogsOpen

LEMMA LogsOpenNext == Shapes /\ Lives /\ LogsOpen /\ [Next]_vars => LogsOpen'
<1> SUFFICES ASSUME Shapes, Lives, LogsOpen, [Next]_vars, NEW c \in Controllers
    PROVE  /\ log'[c] \in {0, session'[c]}
           /\ log'[c] # 0 => c \in Logging
           /\ life'[c] \in {"unconfigured", "inactive"} => log'[c] = 0
           /\ life'[c] = "active" /\ c \in Logging => log'[c] = session'[c]
  BY DEF LogsOpen
<1>1. CASE Untouched(c)
  BY <1>1 DEF Untouched, LogsOpen
<1>2. CASE Configure(c)
  <2>1. log' = log /\ session' = session /\ log[c] = 0 /\ life'[c] # "active"
    BY <1>2, Lifecycles DEF Configure, files, Own, LogsOpen, Lives
  <2> QED BY <2>1
<1>3. CASE Activate(c)
  <2>1. log[c] = 0
    BY <1>3, ActivateKinds DEF LogsOpen
  <2>2. \A l : log' = [log EXCEPT ![c] = l] => log'[c] = l
    BY DEF Shapes
  <2>3. \A l \in States : life' = [life EXCEPT ![c] = l] => life'[c] = l
    BY DEF Lives
  <2>4. \/ life'[c] = "active" /\ IF c \in Logging THEN OpenLog(c) ELSE UNCHANGED files
        \/ life'[c] = "finalized" /\ c \in Logging /\ (OpenLog(c) \/ UNCHANGED files)
    BY <1>3, <2>3, ActivateOutcomes DEF States
  <2> QED BY <2>1, <2>2, <2>4 DEF OpenLog, files
<1>4. CASE Deactivate(c)
  <2>1. log'[c] = 0 /\ life'[c] = "inactive"
    BY <1>4 DEF Deactivate, CloseLog, Shapes, Lives
  <2> QED BY <2>1
<1>5. CASE ~Configure(c) /\ ~Activate(c) /\ ~Deactivate(c) /\ Own(c)
  <2>1. UNCHANGED <<life, session>>
    BY <1>5, Lifecycles
  <2>2. log' = log
    BY <1>5, UpdateKinds DEF Own, LogRow, GoalBegin, GoalEnd, ContactBegin, ContactStep, files
  <2> QED BY <2>1, <2>2 DEF LogsOpen
<1> QED BY <1>1, <1>2, <1>3, <1>4, <1>5, OneAtATime

\* Two controllers of one launch that write the same file are of the same arm.
LogsApart ==
  \A load \in Loads : \A c, d \in load \cap Logging : Path[c] = Path[d] => Arm[c] = Arm[d]

Paths == {Path[c] : c \in Logging}

\* Every file has marks in it, and that of an active controller its own only.
RowsOwn ==
  /\ rows \in [Paths -> SUBSET Marks]
  /\ LogsApart => \A c \in Active \cap Logging : rows[Path[c]] \subseteq {Mine(c)}

LEMMA MineIsMark ==
  ASSUME Lives, NEW c \in Controllers
  PROVE  Mine(c) \in Marks
BY DEF Lives, Mine, Marks

\* A log is opened, whose arm is free; a row is written.
Opens(c) ==
  /\ \A d \in Active : Arm[d] # Arm[c]
  /\ Active' \subseteq Active \cup {c}
  /\ rows' = [rows EXCEPT ![Path[c]] = {}]
Writes(c) == rows' = [rows EXCEPT ![Path[c]] = @ \cup {Mine(c)}] /\ Active' = Active

\* A step writes rows of one controller, into its own file.
LEMMA RowsSteps ==
  ASSUME Shapes, Lives, LogsOpen, RowsOwn, [Next]_vars
  PROVE  \/ rows' = rows /\ Active' \cap Logging \subseteq Active
         \/ \E c \in Logging \cap loaded : Opens(c)
         \/ \E c \in Active \cap Logging : Writes(c)
<1>1. CASE UNCHANGED vars
  BY <1>1 DEF vars, Active
<1>2. CASE Cycle
  BY <1>2 DEF Cycle, files, Active
<1>3. ASSUME NEW c \in Controllers, Own(c) PROVE
         \/ rows' = rows /\ Active' \cap Logging \subseteq Active
         \/ c \in Logging \cap loaded /\ Opens(c)
         \/ c \in Active \cap Logging /\ Writes(c)
  <2>0. /\ loaded' = loaded
        /\ \A l \in States : life' = [life EXCEPT ![c] = l] =>
             \A d \in Controllers : life'[d] = IF d = c THEN l ELSE life[d]
    BY <1>3, Lifecycles DEF Lives
  <2>l. loaded \subseteq Controllers
    BY LoadsNamed DEF Lives
  <2>1. CASE Configure(c)
    <3>1. rows' = rows /\ \E l \in States \ {"active"} : life' = [life EXCEPT ![c] = l]
      BY <2>1, <1>3, Lifecycles DEF Configure, files, Active
    <3> QED BY <2>0, <2>l, <3>1 DEF Active
  <2>2. CASE Activate(c)
    <3>1. \E l \in {"active", "finalized"} : life' = [life EXCEPT ![c] = l]
      BY <2>2, ActivateOutcomes
    <3>2. Active' \subseteq Active \cup {c}
      BY <2>0, <2>l, <3>1 DEF Active, States
    <3>3. \/ UNCHANGED files /\ life'[c] # "active"
          \/ UNCHANGED files /\ c \notin Logging
          \/ OpenLog(c) /\ c \in Logging
      BY <2>2, ActivateOutcomes DEF Lives
    <3>4. c \in loaded /\ \A d \in Active : Arm[d] # Arm[c]
      BY <2>2, ActivateKinds
    <3>5. CASE OpenLog(c) /\ c \in Logging
      BY <3>2, <3>4, <3>5 DEF OpenLog, Opens
    <3>6. CASE UNCHANGED files /\ life'[c] # "active"
      <4>1. c \notin Active'
        BY <3>6 DEF Active
      <4> QED BY <3>2, <3>6, <4>1 DEF files
    <3>7. CASE UNCHANGED files /\ c \notin Logging
      BY <3>2, <3>7 DEF files
    <3> QED BY <3>3, <3>5, <3>6, <3>7
  <2>3. CASE Deactivate(c)
    <3>1. rows' = rows /\ life' = [life EXCEPT ![c] = "inactive"]
      BY <2>3 DEF Deactivate, CloseLog
    <3>2. Active' \subseteq Active
      BY <2>0, <2>l, <3>1 DEF Active, States
    <3> QED BY <3>1, <3>2
  <2>4. CASE ~Configure(c) /\ ~Activate(c) /\ ~Deactivate(c)
    <3>1. Active' = Active
      BY <2>4, <2>0, <1>3, Lifecycles DEF Active
    <3>2. CASE Update(c)
      <4>1. LogRow(c) /\ c \in Active
        BY <3>2, UpdateKinds DEF Lives
      <4>2. log[c] # 0 => c \in Logging
        BY DEF LogsOpen
      <4> QED BY <3>1, <4>1, <4>2 DEF LogRow, Writes
    <3>3. CASE GoalBegin(c) \/ GoalEnd(c) \/ ContactBegin(c) \/ ContactStep(c)
      BY <3>1, <3>3 DEF GoalBegin, GoalEnd, ContactBegin, ContactStep, files
    <3> QED BY <1>3, <2>4, <3>2, <3>3 DEF Own
  <2> QED BY <2>1, <2>2, <2>3, <2>4
<1> QED BY <1>1, <1>2, <1>3, Steps

LEMMA RowsOwnInit == Init => RowsOwn
<1> SUFFICES ASSUME Init PROVE RowsOwn
  OBVIOUS
<1>1. rows \in [Paths -> SUBSET Marks]
  BY DEF Init, Paths
<1>2. Active = {}
  BY LoadsNamed DEF Init, Active
<1> QED BY <1>1, <1>2 DEF RowsOwn

LEMMA RowsOwnNext == Shapes /\ Lives /\ LogsOpen /\ RowsOwn /\ [Next]_vars => RowsOwn'
<1> SUFFICES ASSUME Shapes, Lives, LogsOpen, RowsOwn, [Next]_vars PROVE RowsOwn'
  OBVIOUS
<1>0. /\ Lives' /\ loaded' = loaded /\ Active \subseteq loaded /\ loaded \in Loads
      /\ loaded \subseteq Controllers
  <2>1. loaded' = loaded
    BY Steps, Lifecycles DEF vars, Cycle
  <2> QED BY <2>1, LivesNext, LoadsNamed DEF Lives, Active
<1>1. \A c \in Active : c \in Active' => Mine(c)' = Mine(c)
  <2> SUFFICES ASSUME NEW c \in Active, c \in Active' PROVE session'[c] = session[c]
    BY DEF Mine
  <2>1. c \in Controllers /\ life[c] = "active"
    BY <1>0 DEF Active
  <2>2. CASE Own(c)
    BY <2>1, <2>2, Lifecycles DEF Active
  <2> QED BY <2>1, <2>2, OneAtATime DEF Untouched
<1>2. CASE rows' = rows /\ Active' \cap Logging \subseteq Active
  BY <1>1, <1>2 DEF RowsOwn, Marks
<1>3. ASSUME NEW c \in Logging \cap loaded, Opens(c) PROVE RowsOwn'
  <2>0. /\ \A d \in Active : Arm[d] # Arm[c]
        /\ Active' \subseteq Active \cup {c} /\ rows' = [rows EXCEPT ![Path[c]] = {}]
    BY <1>3 DEF Opens
  <2>1. rows' \in [Paths -> SUBSET Marks]
    BY <2>0 DEF RowsOwn
  <2>2. ASSUME LogsApart, NEW d \in Active' \cap Logging
        PROVE  rows'[Path[d]] \subseteq {Mine(d)'}
    <3>1. CASE Path[d] = Path[c]
      BY <2>0, <3>1 DEF RowsOwn, Paths
    <3>2. CASE Path[d] # Path[c]
      <4>1. d \in Active /\ Mine(d)' = Mine(d)
        BY <1>1, <2>0, <3>2
      <4>2. rows'[Path[d]] = rows[Path[d]]
        BY <2>0, <3>2 DEF RowsOwn, Paths
      <4> QED BY <2>2, <4>1, <4>2 DEF RowsOwn
    <3> QED BY <3>1, <3>2
  <2>3. LogsApart' <=> LogsApart
    BY DEF LogsApart
  <2>4. Marks' = Marks
    BY DEF Marks
  <2> QED BY <2>1, <2>2, <2>3, <2>4 DEF RowsOwn
<1>4. ASSUME NEW c \in Active \cap Logging, Writes(c) PROVE RowsOwn'
  <2>w. rows' = [rows EXCEPT ![Path[c]] = @ \cup {Mine(c)}] /\ Active' = Active
    BY <1>4 DEF Writes
  <2>0. Mine(c) \in Marks /\ Path[c] \in Paths
    BY <1>0, MineIsMark DEF Paths
  <2>1. rows' \in [Paths -> SUBSET Marks]
    BY <2>w, <2>0 DEF RowsOwn
  <2>2. ASSUME LogsApart, NEW d \in Active' \cap Logging
        PROVE  rows'[Path[d]] \subseteq {Mine(d)'}
    <3>1. d \in Active \cap Logging /\ Mine(d)' = Mine(d) /\ Path[d] \in Paths
      BY <1>1, <2>w DEF Paths
    <3>2. rows[Path[d]] \subseteq {Mine(d)}
      BY <2>2, <3>1 DEF RowsOwn
    <3>3. CASE Path[d] = Path[c]
      <4>1. Arm[d] = Arm[c]
        BY <1>0, <2>2, <3>1, <3>3 DEF LogsApart
      <4>2. d = c
        BY <3>1, <4>1 DEF Lives
      <4> QED BY <2>w, <2>0, <3>1, <3>2, <4>2 DEF RowsOwn
    <3>4. CASE Path[d] # Path[c]
      BY <2>w, <3>1, <3>2, <3>4 DEF RowsOwn
    <3> QED BY <3>3, <3>4
  <2>3. LogsApart' <=> LogsApart
    BY DEF LogsApart
  <2>4. Marks' = Marks
    BY DEF Marks
  <2> QED BY <2>1, <2>2, <2>3, <2>4 DEF RowsOwn
<1> QED BY <1>2, <1>3, <1>4, RowsSteps

-----------------------------------------------------------------------------
(***************************************************************************)
(* JointImpedanceEnergyBudgetController.                                   *)
(***************************************************************************)
Energies == [p : 0..MaxEnergy, k : 0..MaxEnergy, num : Nat, den : Nat \ {0},
             filtered : SUBSET (1..MaxSessions)]

\* The energies and the scale of an update: what WithinBudget says of them.
Kept(e) ==
  /\ e \in Energies
  /\ e.num <= e.den
  /\ e.num > 0 => e.num * e.p + e.k * e.den <= Budget * e.den
  /\ 0 < e.num /\ e.num < e.den => e.num * e.p + e.k * e.den = Budget * e.den
  /\ e.num = 0 <=> e.p = 0 \/ e.k >= Budget
BudgetKept == \A c \in Budgets : Kept(energy[c])

\* The scale k_scale of two energies keeps the budget.
LEMMA ScaleKeeps ==
  ASSUME NEW p \in 0..MaxEnergy, NEW k \in 0..MaxEnergy, NEW F \in SUBSET (1..MaxSessions)
  PROVE  Kept([p |-> p, k |-> k, num |-> Scale(p, k).num, den |-> Scale(p, k).den,
               filtered |-> F])
<1>0. p \in Nat /\ k \in Nat /\ Budget \in Nat /\ MaxEnergy \in Nat
  BY BoundsNatural
<1> DEFINE e == [p |-> p, k |-> k, num |-> Scale(p, k).num, den |-> Scale(p, k).den,
                 filtered |-> F]
<1>1. CASE p = 0
  <2>1. Scale(p, k).num = 0 /\ Scale(p, k).den = 1
    BY <1>1 DEF Scale
  <2>2. e.num = 0 /\ e.den = 1 /\ e.p = 0 /\ e.k = k
    BY <2>1, <1>1
  <2>3. e \in Energies
    BY <2>1 DEF Energies
  <2> HIDE DEF e
  <2>4. Kept(e)
    BY <1>0, <2>2, <2>3 DEF Kept
  <2> QED BY <2>4 DEF e
<1>2. CASE p > 0 /\ p + k <= Budget
  <2>1. Scale(p, k).num = 1 /\ Scale(p, k).den = 1
    BY <1>0, <1>2 DEF Scale
  <2>2. e.num = 1 /\ e.den = 1 /\ e.p = p /\ e.k = k
    BY <2>1
  <2>3. e \in Energies
    BY <2>1 DEF Energies
  <2> HIDE DEF e
  <2>4. Kept(e)
    BY <1>0, <1>2, <2>2, <2>3 DEF Kept
  <2> QED BY <2>4 DEF e
<1>3. CASE p > 0 /\ p + k > Budget /\ k >= Budget
  <2>1. Scale(p, k).num = 0 /\ Scale(p, k).den = p
    BY <1>0, <1>3 DEF Scale
  <2>2. e.num = 0 /\ e.den = p /\ e.p = p /\ e.k = k
    BY <2>1
  <2>3. e \in Energies
    BY <1>0, <1>3, <2>1 DEF Energies
  <2> HIDE DEF e
  <2>4. Kept(e)
    BY <1>0, <1>3, <2>2, <2>3 DEF Kept
  <2> QED BY <2>4 DEF e
<1>4. CASE p > 0 /\ p + k > Budget /\ k < Budget
  <2>1. Scale(p, k).num = Budget - k /\ Scale(p, k).den = p
    BY <1>0, <1>4 DEF Scale
  <2>2. e.num = Budget - k /\ e.den = p /\ e.p = p /\ e.k = k
    BY <2>1
  <2>3. e \in Energies
    BY <1>0, <1>4, <2>1 DEF Energies
  <2>4. (Budget - k) * p + k * p = Budget * p
    BY <1>0
  <2> HIDE DEF e
  <2>5. e.num * e.p + e.k * e.den = Budget * e.den
    BY <2>2, <2>4
  <2>6. e.num <= e.den /\ e.num > 0 /\ ~(e.p = 0 \/ e.k >= Budget)
    BY <1>0, <1>4, <2>2
  <2>7. Budget * e.den \in Int
    BY <1>0, <2>2
  <2>8. Kept(e)
    BY <2>3, <2>5, <2>6, <2>7 DEF Kept
  <2> QED BY <2>8 DEF e
<1> QED BY <1>0, <1>1, <1>2, <1>3, <1>4

LEMMA BudgetKeptInit == Init => BudgetKept
BY BoundsNatural DEF Init, BudgetKept, Kept, Energies

LEMMA BudgetKeptNext == Shapes /\ Lives /\ BudgetKept /\ [Next]_vars => BudgetKept'
<1> SUFFICES ASSUME Shapes, Lives, BudgetKept, [Next]_vars, NEW c \in Budgets
    PROVE  Kept(energy'[c])
  BY DEF BudgetKept, Kept, Energies
<1>0. c \in Controllers /\ Kept(energy[c])
  BY OfIn DEF BudgetKept
<1>1. CASE Update(c)
  <2>1. CASE UNCHANGED energy
    BY <1>0, <2>1
  <2>2. CASE UpdateBudget(c)
    <3>1. PICK p, k \in 0..MaxEnergy :
            energy' = [energy EXCEPT ![c] =
              [p |-> p, k |-> k, num |-> Scale(p, k).num, den |-> Scale(p, k).den,
               filtered |-> @.filtered \cup {session[c]}]]
      BY <2>2 DEF UpdateBudget
    <3> DEFINE F == energy[c].filtered \cup {session[c]}
    <3>2. energy'[c] = [p |-> p, k |-> k, num |-> Scale(p, k).num, den |-> Scale(p, k).den,
                        filtered |-> F]
      BY <3>1 DEF Shapes
    <3>3. session[c] \in 1..MaxSessions
      BY <1>0, <1>1, UpdateKinds DEF Lives
    <3>4. F \in SUBSET (1..MaxSessions)
      BY <1>0, <3>3 DEF Kept, Energies
    <3> QED BY <3>2, <3>4, ScaleKeeps
  <2> QED BY <1>0, <1>1, <2>1, <2>2, UpdateKinds
<1>2. CASE Untouched(c)
  BY <1>0, <1>2 DEF Untouched
<1>3. CASE Own(c) /\ ~Update(c)
  <2>1. energy' = energy
    <3>1. CASE Activate(c)
      BY <3>1, <1>0, ActivateKinds DEF ActivateImpedance, ActivateWrench, ActivateBudget, ActivateReachable
    <3> QED BY <3>1, <1>3 DEF Own, Configure, Deactivate, GoalBegin, GoalEnd, ContactBegin, ContactStep
  <2> QED BY <1>0, <2>1
<1> QED BY <1>0, <1>1, <1>2, <1>3, OneAtATime

\* q_goal_buffer_ holds no goal newer than the last, the one waiting is the last, and
\* once it has been fetched it is not older than the position at activation.
Goals(s) == [nonRt : Nat, rt : Nat, fresh : BOOLEAN, locked : BOOLEAN,
             serial : 0..MaxMessages + s, since : Nat, read : BOOLEAN]
Ordered(g) ==
  /\ g.rt <= g.serial /\ g.since <= g.serial
  /\ g.fresh \/ g.locked => g.nonRt = g.serial
  /\ ~g.fresh /\ ~g.locked => g.since <= g.rt
  /\ g.read => g.since <= g.rt
GoalsOrdered == \A c \in Budgets : goal[c] \in Goals(session[c]) /\ Ordered(goal[c])

LEMMA GoalsOrderedInit == Init => GoalsOrdered
<1> SUFFICES ASSUME Init, NEW c \in Budgets PROVE goal[c] \in Goals(session[c]) /\ Ordered(goal[c])
  BY DEF GoalsOrdered
<1>1. /\ session[c] = 0
      /\ goal[c] = [nonRt |-> 0, rt |-> 0, fresh |-> FALSE, locked |-> FALSE,
                    serial |-> 0, since |-> 0, read |-> FALSE]
  BY OfIn DEF Init
<1> QED BY <1>1, BoundsNatural DEF Goals, Ordered

\* The callback's copy, its end, the update's fetch and the activation's own goal.
LEMMA GoalWritten ==
  ASSUME NEW s \in Nat, MaxMessages \in Nat, NEW g \in Goals(s), Ordered(g), ~g.locked,
         g.serial < MaxMessages + s,
         NEW h, h = [g EXCEPT !.serial = g.serial + 1, !.nonRt = g.serial + 1, !.locked = TRUE]
  PROVE  h \in Goals(s) /\ Ordered(h) /\ h.rt >= g.rt
<1>1. /\ h.serial = g.serial + 1 /\ h.nonRt = g.serial + 1 /\ h.rt = g.rt /\ h.since = g.since
      /\ h.fresh = g.fresh /\ h.locked = TRUE /\ h.read = g.read
  BY DEF Goals
<1>4. g.serial + 1 \in 0..MaxMessages + s /\ g.serial + 1 \in Nat
  BY DEF Goals
<1>2. h \in Goals(s)
  BY <1>4 DEF Goals
<1>3. g.rt \in Nat /\ g.since \in Nat /\ g.serial \in Nat
  BY DEF Goals
<1> QED BY <1>1, <1>2, <1>3 DEF Ordered

LEMMA GoalReleased ==
  ASSUME NEW s \in Nat, MaxMessages \in Nat, NEW g \in Goals(s), Ordered(g), g.locked,
         NEW h, h = [g EXCEPT !.fresh = TRUE, !.locked = FALSE]
  PROVE  h \in Goals(s) /\ Ordered(h) /\ h.rt >= g.rt
<1>1. /\ h.serial = g.serial /\ h.nonRt = g.nonRt /\ h.rt = g.rt /\ h.since = g.since
      /\ h.fresh = TRUE /\ h.locked = FALSE /\ h.read = g.read
  BY DEF Goals
<1>2. h \in Goals(s)
  BY DEF Goals
<1>3. g.rt \in Nat /\ g.since \in Nat /\ g.serial \in Nat
  BY DEF Goals
<1> QED BY <1>1, <1>2, <1>3 DEF Ordered

LEMMA GoalCaptured ==
  ASSUME NEW s \in Nat, MaxMessages \in Nat, NEW g \in Goals(s), Ordered(g),
         NEW h, h = [g EXCEPT !.serial = g.serial + 1, !.nonRt = g.serial + 1,
                              !.since = g.serial + 1, !.fresh = TRUE, !.read = FALSE]
  PROVE  h \in Goals(s + 1) /\ Ordered(h) /\ h.rt >= g.rt
<1>1. /\ h.serial = g.serial + 1 /\ h.nonRt = g.serial + 1 /\ h.rt = g.rt
      /\ h.since = g.serial + 1 /\ h.fresh = TRUE /\ h.locked = g.locked /\ h.read = FALSE
  BY DEF Goals
<1>4. g.serial + 1 \in 0..MaxMessages + (s + 1) /\ g.serial + 1 \in Nat
  BY DEF Goals
<1>2. h \in Goals(s + 1)
  BY <1>4 DEF Goals
<1>3. g.rt \in Nat /\ g.since \in Nat /\ g.serial \in Nat
  BY DEF Goals
<1> QED BY <1>1, <1>2, <1>3 DEF Ordered

LEMMA GoalRead ==
  ASSUME NEW s \in Nat, MaxMessages \in Nat, NEW g \in Goals(s), Ordered(g)
  PROVE  ReadFromRT(g) \in Goals(s) /\ Ordered(ReadFromRT(g)) /\ ReadFromRT(g).rt >= g.rt
<1>0. /\ g.rt \in Nat /\ g.since \in Nat /\ g.serial \in Nat /\ g.nonRt \in Nat
      /\ g.fresh \in BOOLEAN /\ g.locked \in BOOLEAN
  BY DEF Goals
<1>1. CASE g.locked
  BY <1>0, <1>1 DEF ReadFromRT
<1>2. CASE ~g.locked /\ g.fresh
  <2> DEFINE h == [g EXCEPT !.rt = g.nonRt, !.nonRt = g.rt, !.fresh = FALSE, !.read = TRUE]
  <2>1. ReadFromRT(g) = h
    BY <1>2 DEF ReadFromRT
  <2>2. /\ h.serial = g.serial /\ h.rt = g.nonRt /\ h.since = g.since
        /\ h.fresh = FALSE /\ h.locked = g.locked /\ h.read = TRUE
    BY DEF Goals
  <2>3. h \in Goals(s)
    BY DEF Goals
  <2> HIDE DEF h
  <2>4. Ordered(h) /\ h.rt >= g.rt
    BY <1>0, <1>2, <2>2 DEF Ordered
  <2> QED BY <2>1, <2>3, <2>4
<1>3. CASE ~g.locked /\ ~g.fresh
  <2> DEFINE h == [g EXCEPT !.read = TRUE]
  <2>1. ReadFromRT(g) = h
    BY <1>3 DEF ReadFromRT
  <2>2. /\ h.serial = g.serial /\ h.rt = g.rt /\ h.since = g.since
        /\ h.fresh = g.fresh /\ h.locked = g.locked /\ h.read = TRUE
    BY DEF Goals
  <2>3. h \in Goals(s)
    BY DEF Goals
  <2> HIDE DEF h
  <2>4. Ordered(h) /\ h.rt >= g.rt
    BY <1>0, <1>3, <2>2 DEF Ordered
  <2> QED BY <2>1, <2>3, <2>4
<1> QED BY <1>0, <1>1, <1>2, <1>3

\* A step of the budget controller: the goals stay in order, and the thread of the
\* updates never goes back to an older one.
LEMMA GoalsOrderedOwn ==
  ASSUME Shapes, Lives, [Next]_vars, NEW c \in Budgets, goal[c] \in Goals(session[c]), Ordered(goal[c])
  PROVE  goal'[c] \in Goals(session'[c]) /\ Ordered(goal'[c]) /\ goal'[c].rt >= goal[c].rt
<1>0. c \in Controllers /\ session[c] \in Nat /\ MaxMessages \in Nat
  BY OfIn, BoundsNatural DEF Lives
<1>1. CASE goal'[c] = goal[c] /\ session'[c] = session[c]
  BY <1>1 DEF Goals
<1>g. \A g : goal' = [goal EXCEPT ![c] = g] => goal'[c] = g
  BY DEF Shapes
<1>2. CASE GoalBegin(c)
  <2>1. /\ ~goal[c].locked /\ goal[c].serial < MaxMessages + session[c]
        /\ goal' = [goal EXCEPT ![c] = [goal[c] EXCEPT !.serial = goal[c].serial + 1,
                                         !.nonRt = goal[c].serial + 1, !.locked = TRUE]]
    BY <1>2 DEF GoalBegin
  <2>2. goal'[c] = [goal[c] EXCEPT !.serial = goal[c].serial + 1, !.nonRt = goal[c].serial + 1,
                                   !.locked = TRUE]
    BY <1>g, <2>1
  <2>3. session' = session
    BY <1>2 DEF GoalBegin, lifecycle
  <2> QED BY <1>0, <2>1, <2>2, <2>3, GoalWritten
<1>3. CASE GoalEnd(c)
  <2>1. goal[c].locked /\ goal' = [goal EXCEPT ![c] = [goal[c] EXCEPT !.fresh = TRUE, !.locked = FALSE]]
    BY <1>3 DEF GoalEnd
  <2>2. goal'[c] = [goal[c] EXCEPT !.fresh = TRUE, !.locked = FALSE]
    BY <1>g, <2>1
  <2>3. session' = session
    BY <1>3 DEF GoalEnd, lifecycle
  <2> QED BY <1>0, <2>1, <2>2, <2>3, GoalReleased
<1>4. CASE Update(c)
  <2>0. session' = session
    BY <1>4, <1>0, UpdateKinds
  <2>1. CASE goal'[c] = ReadFromRT(goal[c])
    BY <1>0, <2>0, <2>1, GoalRead
  <2> QED BY <1>0, <1>1, <1>4, <2>0, <2>1, UpdateKinds DEF UpdateBudget, Shapes
<1>5. CASE Activate(c)
  <2>0. session'[c] = session[c] + 1
    BY <1>5, <1>0, ActivateKinds DEF Shapes
  <2>1. CASE ActivateBudget(c)
    <3>1. /\ ~goal[c].locked
          /\ goal' = [goal EXCEPT ![c] = [goal[c] EXCEPT !.serial = goal[c].serial + 1,
                 !.nonRt = goal[c].serial + 1, !.since = goal[c].serial + 1,
                 !.fresh = TRUE, !.read = FALSE]]
      BY <2>1 DEF ActivateBudget
    <3>2. goal'[c] = [goal[c] EXCEPT !.serial = goal[c].serial + 1, !.nonRt = goal[c].serial + 1,
                        !.since = goal[c].serial + 1, !.fresh = TRUE, !.read = FALSE]
      BY <1>g, <3>1
    <3> QED BY <1>0, <2>0, <3>2, GoalCaptured
  <2>2. CASE goal'[c] = goal[c]
    BY <1>0, <2>0, <2>2 DEF Goals
  <2>3. CASE ActivateImpedance(c) \/ ActivateWrench(c) \/ ActivateReachable(c)
    BY <2>2, <2>3 DEF ActivateImpedance, ActivateWrench, ActivateReachable
  <2> QED BY <1>0, <1>5, <2>1, <2>3, ActivateKinds
<1>6. CASE Untouched(c)
  BY <1>1, <1>6 DEF Untouched
<1>7. CASE Configure(c) \/ Deactivate(c) \/ ContactBegin(c) \/ ContactStep(c)
  BY <1>1, <1>7 DEF Configure, Deactivate, ContactBegin, ContactStep, lifecycle
<1> QED BY <1>0, <1>2, <1>3, <1>4, <1>5, <1>6, <1>7, OneAtATime DEF Own

LEMMA GoalsOrderedNext == Shapes /\ Lives /\ GoalsOrdered /\ [Next]_vars => GoalsOrdered'
<1> SUFFICES ASSUME Shapes, Lives, GoalsOrdered, [Next]_vars, NEW c \in Budgets
    PROVE  goal'[c] \in Goals(session'[c]) /\ Ordered(goal'[c])
  BY DEF GoalsOrdered, Goals, Ordered
<1> QED BY GoalsOrderedOwn DEF GoalsOrdered

-----------------------------------------------------------------------------
(***************************************************************************)
(* NonlinearImpedanceController, CartesianImpedanceExampleController.      *)
(***************************************************************************)
Windows(period, samples) == [n : 0..period - 1, from : SUBSET samples]

LEMMA SampledIsWindow ==
  ASSUME NEW period \in Nat \ {0}, NEW samples, NEW w \in Windows(period, samples),
         NEW sample \in samples
  PROVE  /\ Sampled(w, sample, period) \in Windows(period, samples)
         /\ Empty \in Windows(period, samples)
<1>1. w.n \in 0..period - 1 /\ w.from \subseteq samples
  BY DEF Windows
<1>2. w.n + 1 < period => w.n + 1 \in 0..period - 1
  BY <1>1
<1>3. 0 \in 0..period - 1
  OBVIOUS
<1> QED BY <1>1, <1>2, <1>3 DEF Sampled, Empty, Windows

\* The statistics hold samples of the last session only.
Sessions(c) == {session[c]} \ {0}
WindowsOwn ==
  \A c \in Impedances :
    window[c] \in [loop : Windows(StatsPeriod, Sessions(c)),
                   profile : Windows(ProfilePeriod, Sessions(c))]

LEMMA WindowsOwnInit == Init => WindowsOwn
<1> SUFFICES ASSUME Init, NEW c \in Impedances
    PROVE  window[c] \in [loop : Windows(StatsPeriod, Sessions(c)),
                          profile : Windows(ProfilePeriod, Sessions(c))]
  BY DEF WindowsOwn
<1>1. Empty \in Windows(StatsPeriod, Sessions(c)) /\ Empty \in Windows(ProfilePeriod, Sessions(c))
  BY PeriodsPositive DEF Empty, Windows
<1> QED BY <1>1 DEF Init, EmptyWindow

LEMMA WindowsOwnNext == Shapes /\ Lives /\ WindowsOwn /\ [Next]_vars => WindowsOwn'
<1> SUFFICES ASSUME Shapes, Lives, WindowsOwn, [Next]_vars, NEW c \in Impedances
    PROVE  window'[c] \in [loop : Windows(StatsPeriod, Sessions(c)'),
                           profile : Windows(ProfilePeriod, Sessions(c)')]
  BY DEF WindowsOwn, Windows
<1> DEFINE W == [loop : Windows(StatsPeriod, Sessions(c)), profile : Windows(ProfilePeriod, Sessions(c))]
<1>0. c \in Controllers /\ window[c] \in W
  BY OfIn DEF WindowsOwn
<1>1. CASE window'[c] = window[c] /\ session'[c] = session[c]
  BY <1>0, <1>1 DEF Sessions
<1>2. CASE Update(c)
  <2>1. session' = session /\ session[c] \in Sessions(c)
    BY <1>0, <1>2, UpdateKinds DEF Lives, Sessions
  <2>2. CASE LoopStatistics(c)
    <3>1. window'[c] = [loop |-> Sampled(window[c].loop, session[c], StatsPeriod),
                        profile |-> Sampled(window[c].profile, session[c], ProfilePeriod)]
      BY <2>2, <1>0 DEF LoopStatistics, Shapes
    <3>2. /\ Sampled(window[c].loop, session[c], StatsPeriod) \in Windows(StatsPeriod, Sessions(c))
          /\ Sampled(window[c].profile, session[c], ProfilePeriod) \in Windows(ProfilePeriod, Sessions(c))
      BY <1>0, <2>1, SampledIsWindow, PeriodsPositive
    <3>3. Sessions(c)' = Sessions(c)
      BY <2>1 DEF Sessions
    <3> QED BY <3>1, <3>2, <3>3
  <2>3. CASE UNCHANGED window
    BY <1>1, <2>1, <2>3
  <2>4. LoopStatistics(c) \/ UNCHANGED window
    BY <1>0, <1>2, UpdateKinds DEF FastUpdate, FeedforwardUpdate, FastStatistics,
       FeedforwardStatistics, impedance
  <2> QED BY <2>2, <2>3, <2>4
<1>3. CASE Activate(c)
  <2>1. ActivateImpedance(c)
    BY <1>0, <1>3, ActivateKinds DEF Impedances, Wrenches, Budgets, Reachables, Of, Shared
  <2>2. window'[c] = EmptyWindow
    BY <2>1 DEF ActivateImpedance, Shapes
  <2>3. Empty \in Windows(StatsPeriod, Sessions(c)') /\ Empty \in Windows(ProfilePeriod, Sessions(c)')
    BY PeriodsPositive DEF Empty, Windows
  <2> QED BY <2>2, <2>3 DEF EmptyWindow
<1>4. CASE Untouched(c)
  BY <1>1, <1>4 DEF Untouched
<1>5. CASE Configure(c) \/ Deactivate(c) \/ GoalBegin(c) \/ GoalEnd(c) \/ ContactBegin(c) \/ ContactStep(c)
  BY <1>1, <1>5 DEF Configure, Deactivate, GoalBegin, GoalEnd, ContactBegin, ContactStep,
     lifecycle, impedance
<1> QED BY <1>0, <1>2, <1>3, <1>4, <1>5, OneAtATime DEF Own

\* The references, and the statistics of a class.
References == \A c \in Impedances : ref[c].time \in 0..MoveTicks
Details == detail \in [Shared \X BOOLEAN -> Windows(ProfilePeriod, Marks)]

LEMMA LineTimed == \A t \in Nat : Line(t).time \in 0..MoveTicks
BY BoundsNatural DEF Line

LEMMA ReferencesInit == Init => References /\ Details
<1> SUFFICES ASSUME Init PROVE References /\ Details
  OBVIOUS
<1>1. References
  BY LineTimed DEF Init, References
<1>2. Empty \in Windows(ProfilePeriod, Marks)
  BY PeriodsPositive DEF Empty, Windows
<1> QED BY <1>1, <1>2 DEF Init, Details

LEMMA ReferencesNext == Shapes /\ References /\ [Next]_vars => References'
<1> SUFFICES ASSUME Shapes, References, [Next]_vars, NEW c \in Impedances
    PROVE  ref'[c].time \in 0..MoveTicks
  BY DEF References
<1>0. c \in Controllers /\ ref[c].time \in 0..MoveTicks
  BY OfIn DEF References
<1>1. CASE Update(c)
  <2>1. CASE Reference(c)
    <3>1. PICK dt \in {0, 1} : ref'[c] = IF c \in Still THEN ref[c] ELSE Line(ref[c].time + dt)
      BY <2>1 DEF Reference, Shapes
    <3>2. ref[c].time + dt \in Nat
      BY <1>0
    <3> QED BY <1>0, <3>1, <3>2, LineTimed
  <2>2. Reference(c) \/ UNCHANGED ref
    BY <1>0, <1>1, UpdateKinds DEF FastUpdate, FeedforwardUpdate, impedance
  <2> QED BY <1>0, <2>1, <2>2
<1>2. CASE Activate(c)
  <2>1. ActivateImpedance(c)
    BY <1>0, <1>2, ActivateKinds DEF Impedances, Wrenches, Budgets, Reachables, Of, Shared
  <2>2. ref'[c] = Line(0)
    BY <2>1 DEF ActivateImpedance, Shapes
  <2> QED BY <2>2, LineTimed
<1>3. CASE Untouched(c)
  BY <1>0, <1>3 DEF Untouched
<1>4. CASE Configure(c) \/ Deactivate(c) \/ GoalBegin(c) \/ GoalEnd(c) \/ ContactBegin(c) \/ ContactStep(c)
  BY <1>0, <1>4 DEF Configure, Deactivate, GoalBegin, GoalEnd, ContactBegin, ContactStep,
     lifecycle, impedance
<1> QED BY <1>0, <1>1, <1>2, <1>3, <1>4, OneAtATime DEF Own

\* Only the updates of a class, of either path, touch its statics.
LEMMA StaticsSteps ==
  ASSUME [Next]_vars
  PROVE  \/ UNCHANGED <<jtv, detail>>
         \/ \E c \in Impedances : /\ c \in due /\ Class[c] \in Shared
              /\ \E path \in BOOLEAN : ModelProfile(c, path)
              /\ \/ UNCHANGED <<jtv, used>>
                 \/ c \in Feedforward /\ FeedforwardUpdate(c)
<1>1. CASE UNCHANGED vars \/ Cycle
  BY <1>1 DEF vars, Cycle, impedance
<1>2. ASSUME NEW c \in Controllers, Own(c), ~UNCHANGED <<jtv, detail>>
      PROVE  /\ c \in Impedances /\ c \in due /\ Class[c] \in Shared
             /\ \E path \in BOOLEAN : ModelProfile(c, path)
             /\ \/ UNCHANGED <<jtv, used>>
                \/ c \in Feedforward /\ FeedforwardUpdate(c)
  <2>1. ~Configure(c) /\ ~Deactivate(c) /\ ~GoalBegin(c) /\ ~GoalEnd(c) /\ ~ContactBegin(c)
        /\ ~ContactStep(c)
    BY <1>2 DEF Configure, Deactivate, GoalBegin, GoalEnd, ContactBegin, ContactStep, impedance
  <2>2. ~Activate(c)
    <3>1. ~ActivateImpedance(c) /\ ~ActivateWrench(c) /\ ~ActivateBudget(c) /\ ~ActivateReachable(c)
      BY <1>2 DEF ActivateImpedance, ActivateWrench, ActivateBudget, ActivateReachable, impedance
    <3> QED BY <3>1, ActivateKinds
  <2>3. Update(c)
    BY <1>2, <2>1, <2>2 DEF Own
  <2>4. c \in Impedances /\ (FastUpdate(c) \/ FeedforwardUpdate(c)) /\ c \in due
    BY <1>2, <2>3, UpdateKinds DEF impedance
  <2> QED BY <2>4 DEF FastUpdate, FeedforwardUpdate, FastStatistics, FeedforwardStatistics,
             Impedances, Of
<1> QED BY <1>1, <1>2, Steps

LEMMA DetailsNext == Shapes /\ Lives /\ Details /\ [Next]_vars => Details'
<1> SUFFICES ASSUME Shapes, Lives, Details, [Next]_vars PROVE Details'
  OBVIOUS
<1>0. Details' <=> detail' \in [Shared \X BOOLEAN -> Windows(ProfilePeriod, Marks)]
  BY DEF Details, Windows, Marks
<1>1. CASE UNCHANGED detail
  BY <1>0, <1>1 DEF Details
<1>2. ASSUME NEW c \in Impedances, Class[c] \in Shared, NEW path \in BOOLEAN, ModelProfile(c, path)
      PROVE  detail' \in [Shared \X BOOLEAN -> Windows(ProfilePeriod, Marks)]
  <2>1. <<Class[c], path>> \in Shared \X BOOLEAN
    BY <1>2
  <2>2. Mine(c) \in Marks
    BY OfIn, MineIsMark
  <2>3. Sampled(detail[<<Class[c], path>>], Mine(c), ProfilePeriod) \in Windows(ProfilePeriod, Marks)
    BY <2>1, <2>2, SampledIsWindow, PeriodsPositive DEF Details
  <2>4. detail' = [detail EXCEPT ![<<Class[c], path>>] =
                     Sampled(detail[<<Class[c], path>>], Mine(c), ProfilePeriod)]
    BY <1>2 DEF ModelProfile
  <2> HIDE DEF Windows
  <2> QED BY <2>1, <2>3, <2>4 DEF Details
<1> QED BY <1>0, <1>1, <1>2, StaticsSteps

\* The counter and the derivative it has last been refreshed to, of each class; and the
\* derivative each controller has last used.
Derivatives ==
  /\ jtv \in [Shared -> [count : 0..JtvPeriod - 1, dot : Marks]]
  /\ used \in [Impedances -> [dot : Marks, updates : 0..JtvPeriod, age : 0..JtvPeriod]]

LEMMA DerivativesInit == Init => Derivatives
<1> SUFFICES ASSUME Init PROVE Derivatives
  OBVIOUS
<1>1. 0 \in 0..JtvPeriod - 1 /\ 0 \in 0..JtvPeriod /\ Nobody \in Marks
  BY PeriodsPositive DEF Marks
<1> QED BY <1>1 DEF Init, Derivatives

\* The next value of a counter that runs from 0 to its period.
LEMMA Counted ==
  ASSUME NEW period \in Nat \ {0}, NEW n \in 0..period - 1
  PROVE  (n + 1) % period = IF n = period - 1 THEN 0 ELSE n + 1
OBVIOUS

LEMMA RefreshedIs ==
  ASSUME Lives, Derivatives, NEW c \in Impedances, Class[c] \in Shared
  PROVE  /\ Refreshed(c) \in [count : 0..JtvPeriod - 1, dot : Marks]
         /\ Refreshed(c).count = IF jtv[Class[c]].count = JtvPeriod - 1 THEN 0
                                 ELSE jtv[Class[c]].count + 1
         /\ Refreshed(c).dot = IF jtv[Class[c]].count = 0 THEN Mine(c) ELSE jtv[Class[c]].dot
<1>1. jtv[Class[c]].count \in 0..JtvPeriod - 1 /\ jtv[Class[c]].dot \in Marks
  BY DEF Derivatives
<1>2. Mine(c) \in Marks
  BY OfIn, MineIsMark
<1>3. (jtv[Class[c]].count + 1) % JtvPeriod =
        IF jtv[Class[c]].count = JtvPeriod - 1 THEN 0 ELSE jtv[Class[c]].count + 1
  BY <1>1, PeriodsPositive, Counted
<1>4. (IF jtv[Class[c]].count = JtvPeriod - 1 THEN 0 ELSE jtv[Class[c]].count + 1)
        \in 0..JtvPeriod - 1
  BY <1>1, PeriodsPositive
<1> QED BY <1>1, <1>2, <1>3, <1>4 DEF Refreshed

\* What an update with the feedforward makes of the record of its derivative.
Using(c) ==
  [dot |-> Refreshed(c).dot,
   updates |-> IF used[c].updates < JtvPeriod THEN used[c].updates + 1 ELSE used[c].updates,
   age |-> IF jtv[Class[c]].count = 0 THEN 0
           ELSE IF used[c].age < JtvPeriod THEN used[c].age + 1 ELSE used[c].age]

LEMMA UsedIs ==
  ASSUME NEW c, FeedforwardUpdate(c)
  PROVE  /\ jtv' = [jtv EXCEPT ![Class[c]] = Refreshed(c)]
         /\ used' = [used EXCEPT ![c] = Using(c)]
BY DEF FeedforwardUpdate, Using

LEMMA UsingIsUse ==
  ASSUME Lives, Derivatives, NEW c \in Impedances, Class[c] \in Shared
  PROVE  Using(c) \in [dot : Marks, updates : 0..JtvPeriod, age : 0..JtvPeriod]
<1>1. used[c].updates \in 0..JtvPeriod /\ used[c].age \in 0..JtvPeriod
  BY DEF Derivatives
<1>2. Refreshed(c).dot \in Marks
  BY RefreshedIs
<1> QED BY <1>1, <1>2, PeriodsPositive DEF Using

LEMMA DerivativesNext == Shapes /\ Lives /\ Derivatives /\ [Next]_vars => Derivatives'
<1> SUFFICES ASSUME Shapes, Lives, Derivatives, [Next]_vars PROVE Derivatives'
  OBVIOUS
<1> DEFINE Uses == [dot : Marks, updates : 0..JtvPeriod, age : 0..JtvPeriod]
<1>0. Derivatives' <=> /\ jtv' \in [Shared -> [count : 0..JtvPeriod - 1, dot : Marks]]
                       /\ used' \in [Impedances -> Uses]
  BY DEF Derivatives, Marks
<1>1. used' = used \/ \E c \in Impedances : \E u \in Uses : used' = [used EXCEPT ![c] = u]
  <2>1. CASE UNCHANGED vars \/ Cycle
    BY <2>1 DEF vars, Cycle, impedance
  <2>2. ASSUME NEW c \in Controllers, Own(c), used' # used
        PROVE  c \in Impedances /\ \E u \in Uses : used' = [used EXCEPT ![c] = u]
    <3>1. CASE Activate(c)
      <4>1. ActivateImpedance(c) /\ c \in Impedances
        BY <2>2, <3>1, ActivateKinds DEF ActivateWrench, ActivateBudget, ActivateReachable, impedance
      <4>2. used' = [used EXCEPT ![c] = [used[c] EXCEPT !.updates = 0]]
        BY <4>1 DEF ActivateImpedance, Derivatives
      <4>3. [used[c] EXCEPT !.updates = 0] \in Uses
        BY <4>1, PeriodsPositive DEF Derivatives
      <4> HIDE DEF Uses
      <4> QED BY <4>1, <4>2, <4>3
    <3>2. CASE Update(c)
      <4>1. c \in Impedances /\ FeedforwardUpdate(c)
        BY <2>2, <3>2, UpdateKinds DEF impedance, FastUpdate
      <4>2. Class[c] \in Shared
        BY <4>1 DEF Impedances, Of
      <4>3. Using(c) \in Uses
        BY <4>1, <4>2, UsingIsUse
      <4> HIDE DEF Uses
      <4> QED BY <4>1, <4>3, UsedIs
    <3>3. CASE Configure(c) \/ Deactivate(c) \/ GoalBegin(c) \/ GoalEnd(c) \/ ContactBegin(c)
               \/ ContactStep(c)
      BY <2>2, <3>3 DEF Configure, Deactivate, GoalBegin, GoalEnd, ContactBegin, ContactStep, impedance
    <3> QED BY <2>2, <3>1, <3>2, <3>3 DEF Own
  <2> HIDE DEF Uses
  <2> QED BY <2>1, <2>2, Steps
<1>2. used' \in [Impedances -> Uses]
  <2>1. used \in [Impedances -> Uses]
    BY DEF Derivatives
  <2> HIDE DEF Uses
  <2> QED BY <1>1, <2>1
<1>3. jtv' \in [Shared -> [count : 0..JtvPeriod - 1, dot : Marks]]
  <2>1. CASE UNCHANGED jtv
    BY <2>1 DEF Derivatives
  <2>2. ASSUME NEW c \in Impedances, Class[c] \in Shared, FeedforwardUpdate(c)
        PROVE  jtv' \in [Shared -> [count : 0..JtvPeriod - 1, dot : Marks]]
    BY <2>2, UsedIs, RefreshedIs DEF Derivatives
  <2> QED BY <2>1, <2>2, StaticsSteps
<1> QED BY <1>0, <1>2, <1>3

\* A derivative that no other controller of the launch refreshes: it is the one its
\* controller used last, as old as the counter says; and one of an earlier session is
\* older than the updates of this session.
Alone(c) ==
  LET j == jtv[Class[c]]  u == used[c] IN
  \/ j.count = 0 /\ u.updates = 0
  \/ /\ j.dot = u.dot /\ u.dot.of = c
     /\ u.age = IF j.count = 0 THEN JtvPeriod - 1 ELSE j.count - 1
     /\ u.dot.session = session[c] \/ u.updates <= u.age
AloneOwn == \A c \in loaded \cap Impedances \cap Feedforward : Sole(c) => Alone(c)

LEMMA AloneInit == Init => AloneOwn
<1> SUFFICES ASSUME Init, NEW c \in Impedances PROVE Alone(c)
  BY DEF AloneOwn
<1>1. Class[c] \in Shared
  BY DEF Impedances, Of
<1>2. jtv[Class[c]].count = 0 /\ used[c].updates = 0
  BY <1>1 DEF Init
<1> QED BY <1>2 DEF Alone

\* An update of the controller itself: a refresh, or the derivative one update older.
LEMMA AloneUpdate ==
  ASSUME Shapes, Lives, Derivatives, NEW c \in Impedances, Alone(c), FeedforwardUpdate(c),
         session'[c] = session[c]
  PROVE  Alone(c)'
<1> DEFINE P == JtvPeriod
           j == jtv[Class[c]]
           u == used[c]
           k == jtv'[Class[c]]
           v == used'[c]
<1>0. Class[c] \in Shared
  BY DEF Impedances, Of
<1>1. /\ k = Refreshed(c) /\ v = Using(c)
  BY <1>0, UsedIs DEF Derivatives
<1>2. /\ j.count \in 0..P - 1 /\ u.updates \in 0..P /\ u.age \in 0..P /\ P \in Nat \ {0}
  BY <1>0, PeriodsPositive DEF Derivatives
<1>3. /\ k.count = IF j.count = P - 1 THEN 0 ELSE j.count + 1
      /\ k.dot = IF j.count = 0 THEN Mine(c) ELSE j.dot
      /\ v.dot = k.dot
      /\ v.updates = IF u.updates < P THEN u.updates + 1 ELSE u.updates
      /\ v.age = IF j.count = 0 THEN 0 ELSE IF u.age < P THEN u.age + 1 ELSE u.age
  BY <1>0, <1>1, RefreshedIs DEF Using
<1>4. Mine(c).of = c /\ Mine(c).session = session[c]
  BY DEF Mine
<1>5. \/ j.count = 0 /\ u.updates = 0
      \/ /\ j.dot = u.dot /\ u.dot.of = c
         /\ u.age = IF j.count = 0 THEN P - 1 ELSE j.count - 1
         /\ u.dot.session = session[c] \/ u.updates <= u.age
  BY DEF Alone
<1>6. v.dot = k.dot /\ v.dot.of = c
  BY <1>3, <1>4, <1>5
<1>7. v.age = IF k.count = 0 THEN P - 1 ELSE k.count - 1
  <2>1. CASE j.count = 0
    <3>1. v.age = 0 /\ k.count = IF 0 = P - 1 THEN 0 ELSE 1
      BY <1>3, <2>1
    <3> HIDE DEF k, v, P
    <3> QED BY <3>1, <1>2
  <2>2. CASE j.count # 0
    <3>1. u.age = j.count - 1
      BY <1>5, <2>2
    <3> HIDE DEF j, u, k, v, P
    <3> QED BY <3>1, <2>2, <1>2, <1>3
  <2> QED BY <2>1, <2>2
<1>8. v.dot.session = session[c] \/ v.updates <= v.age
  <2>1. CASE j.count = 0
    BY <1>3, <1>4, <2>1
  <2>2. CASE j.count # 0
    <3>1. v.dot = u.dot /\ u.age = j.count - 1 /\ (u.dot.session = session[c] \/ u.updates <= u.age)
      BY <1>3, <1>5, <2>2
    <3>2. CASE u.dot.session = session[c]
      BY <3>1, <3>2
    <3>3. CASE u.updates <= u.age
      <4> HIDE DEF j, u, k, v, P
      <4> QED BY <3>1, <3>3, <2>2, <1>2, <1>3
    <3> QED BY <3>1, <3>2, <3>3
  <2> QED BY <2>1, <2>2
<1> QED BY <1>6, <1>7, <1>8 DEF Alone

LEMMA AloneNext == Shapes /\ Lives /\ Derivatives /\ AloneOwn /\ [Next]_vars => AloneOwn'
<1>0. [Next]_vars /\ Shapes => loaded' = loaded
  BY Steps, Lifecycles DEF vars, Cycle
<1> SUFFICES ASSUME Shapes, Lives, Derivatives, AloneOwn, [Next]_vars,
                    NEW c \in loaded \cap Impedances \cap Feedforward, Sole(c)
             PROVE  Alone(c)'
  BY <1>0 DEF AloneOwn, Sole
<1>1. /\ Alone(c) /\ c \in Controllers /\ Class[c] \in Shared
      /\ used[c].age \in Nat /\ DOMAIN jtv = Shared
  BY DEF AloneOwn, Impedances, Of, Derivatives
<1>2. CASE FeedforwardUpdate(c) /\ session'[c] = session[c]
  BY <1>1, <1>2, AloneUpdate
<1>3. CASE Activate(c)
  <2>1. ActivateImpedance(c)
    BY <1>1, <1>3, ActivateKinds DEF Impedances, Wrenches, Budgets, Reachables, Of, Shared
  <2>2. jtv' = jtv /\ used'[c] = [used[c] EXCEPT !.updates = 0]
    BY <2>1 DEF ActivateImpedance, Shapes
  <2>3. used'[c].updates = 0 /\ used'[c].age = used[c].age /\ used'[c].dot = used[c].dot
    BY <2>2 DEF Derivatives
  <2> QED BY <1>1, <2>2, <2>3 DEF Alone
<1>4. CASE ~Activate(c) /\ ~FeedforwardUpdate(c)
  <2>1. used'[c] = used[c] /\ session'[c] = session[c]
    <3>1. CASE Untouched(c)
      BY <3>1 DEF Untouched
    <3>2. CASE Update(c)
      <4>1. FastUpdate(c)
        BY <1>1, <1>4, <3>2, UpdateKinds DEF Impedances, Wrenches, Budgets, Reachables, Of, Shared
      <4> QED BY <1>1, <3>2, <4>1, UpdateKinds DEF FastUpdate
    <3>3. CASE Configure(c) \/ Deactivate(c) \/ GoalBegin(c) \/ GoalEnd(c) \/ ContactBegin(c)
               \/ ContactStep(c)
      BY <3>3 DEF Configure, Deactivate, GoalBegin, GoalEnd, ContactBegin, ContactStep,
         lifecycle, impedance
    <3> QED BY <1>1, <1>4, <3>1, <3>2, <3>3, OneAtATime DEF Own
  <2>2. jtv'[Class[c]] = jtv[Class[c]]
    <3>1. ASSUME NEW d \in Impedances, d \in due, d \in Feedforward, FeedforwardUpdate(d)
          PROVE  jtv'[Class[c]] = jtv[Class[c]]
      <4>1. d \in loaded /\ d # c
        BY <3>1, <1>4 DEF Lives, Active
      <4>2. Class[d] # Class[c]
        BY <3>1, <4>1 DEF Sole
      <4> QED BY <1>1, <3>1, <4>2, UsedIs
    <3> QED BY <3>1, StaticsSteps
  <2> QED BY <1>1, <2>1, <2>2 DEF Alone
<1>5. Activate(c) \/ session'[c] = session[c]
  BY <1>1, OneAtATime, Lifecycles DEF Untouched
<1> QED BY <1>2, <1>3, <1>4, <1>5

-----------------------------------------------------------------------------
(***************************************************************************)
(* ReachableCartesianImpedanceController outside its shield.                *)
(***************************************************************************)
Places == {"idle", "value", "stamp", "count", "flag", "seen", "wall", "first"}
Contacts == [at : Places, touch : BOOLEAN, value : BOOLEAN, stamp : Nat \cup {None},
             sequence : Nat, active : BOOLEAN, seen : BOOLEAN, wall : Nat \cup {None},
             first : Nat \cup {None}, begun : Nat, from : Nat \cup {None}, overlaps : BOOLEAN]

\* Where the callback is tells how far the message under way has been counted, and
\* whether the first contact has been recorded: all of it, or none of it yet.
Recorded(k) == k.wall = k.from /\ k.first = k.from /\ (k.seen <=> k.from # None)
Unrecorded(k) == k.touch /\ k.from = k.begun /\ k.wall = None /\ k.first = None /\ ~k.seen
InPlace(k) ==
  CASE k.at = "idle" -> k.begun = k.sequence /\ Recorded(k)
    [] k.at \in {"value", "stamp", "count"} ->
         k.begun = k.sequence + 1 /\ ((Recorded(k) /\ (k.touch => k.seen)) \/ Unrecorded(k))
    [] k.at \in {"flag", "seen"} ->
         /\ k.begun = k.sequence /\ ((Recorded(k) /\ (k.touch => k.seen)) \/ Unrecorded(k))
         /\ k.at = "seen" => k.touch
    [] k.at = "wall" ->
         k.begun = k.sequence /\ k.from = k.begun /\ k.wall = None /\ k.first = None /\ k.seen
    [] k.at = "first" ->
         k.begun = k.sequence /\ k.from = k.begun /\ k.wall = k.from /\ k.first = None /\ k.seen
\* A message that overlapped the resets is counted in, or was forgotten.
CountInStep(k) ==
  IF k.at \in {"value", "stamp", "count"} THEN k.sequence \in {k.begun, k.begun - 1}
  ELSE k.sequence \in {k.begun, k.begun + 1}
ContactOK(k) == k \in Contacts /\ CountInStep(k) /\ (~k.overlaps => InPlace(k))

LEMMA NoContactOK == NoContact \in Contacts /\ CountInStep(NoContact) /\ InPlace(NoContact)
<1>1. NoContact \in Contacts
  BY DEF NoContact, Contacts, Places
<1>2. NoContact.at = "idle" /\ NoContact.begun = NoContact.sequence /\ Recorded(NoContact)
  BY DEF NoContact, Recorded
<1>3. NoContact.sequence = 0
  BY DEF NoContact
<1> QED BY <1>1, <1>2, <1>3 DEF InPlace, CountInStep

LEMMA ReceivedOK ==
  ASSUME NEW k, ContactOK(k), k.at = "idle", NEW touch \in BOOLEAN
  PROVE  ContactOK(Received(k, touch)) /\ Received(k, touch).sequence = k.sequence
         /\ Received(k, touch).seen = k.seen
<1> DEFINE from == IF touch /\ k.from = None THEN k.begun + 1 ELSE k.from
           h == [k EXCEPT !.at = "value", !.touch = touch, !.begun = k.begun + 1, !.from = from]
<1>0. Received(k, touch) = h
  BY DEF Received
<1>1. k \in Contacts /\ k.begun \in Nat /\ k.from \in Nat \cup {None} /\ from \in Nat \cup {None}
      /\ k.sequence \in Nat
  BY DEF ContactOK, Contacts
<1>2. h \in Contacts
  <2>1. "value" \in Places /\ k.begun + 1 \in Nat
    BY <1>1 DEF Places
  <2> HIDE DEF from, Places
  <2> QED BY <1>1, <2>1 DEF Contacts
<1>3. /\ h.at = "value" /\ h.touch = touch /\ h.begun = k.begun + 1 /\ h.from = from
      /\ h.sequence = k.sequence /\ h.seen = k.seen /\ h.wall = k.wall /\ h.first = k.first
      /\ h.overlaps = k.overlaps
  BY <1>1 DEF Contacts
<1>4. ASSUME ~k.overlaps PROVE InPlace(h)
  <2>1. k.begun = k.sequence /\ Recorded(k)
    BY <1>4 DEF ContactOK, InPlace
  <2>2. h.begun = h.sequence + 1
    BY <1>3, <2>1
  <2>3. CASE touch /\ k.from = None
    <3>1. from = k.begun + 1
      BY <2>3
    <3>2. Unrecorded(h)
      <4> HIDE DEF h, from
      <4> QED BY <1>3, <2>1, <2>3, <3>1 DEF Recorded, Unrecorded
    <3> HIDE DEF h, from
    <3> QED BY <1>3, <2>2, <3>2 DEF InPlace
  <2>4. CASE ~(touch /\ k.from = None)
    <3>1. from = k.from
      BY <2>4
    <3>2. Recorded(h) /\ (h.touch => h.seen)
      <4> HIDE DEF h, from
      <4> QED BY <1>3, <2>1, <2>4, <3>1 DEF Recorded
    <3> HIDE DEF h, from
    <3> QED BY <1>3, <2>2, <3>2 DEF InPlace
  <2> QED BY <2>3, <2>4
<1> HIDE DEF h
<1>5. CountInStep(k)
  BY DEF ContactOK
<1>6. CountInStep(h)
  BY <1>1, <1>3, <1>5 DEF CountInStep
<1> QED BY <1>0, <1>2, <1>3, <1>4, <1>6 DEF ContactOK

LEMMA ForgottenOK ==
  ASSUME NEW k, ContactOK(k)
  PROVE  ContactOK(Forgotten(k)) /\ Forgotten(k).sequence = 0
<1> DEFINE o == k.at # "idle"
           h == [NoContact EXCEPT !.at = k.at, !.touch = k.touch, !.overlaps = o]
<1>0. Forgotten(k) = h
  BY DEF Forgotten
<1>1. k.at \in Places /\ k.touch \in BOOLEAN
  BY DEF ContactOK, Contacts
<1>2. o \in BOOLEAN
  OBVIOUS
<1>3. h \in Contacts
  <2> HIDE DEF o
  <2> QED BY <1>1, <1>2, NoContactOK DEF Contacts
<1>4. /\ h.at = k.at /\ h.overlaps = o /\ h.begun = 0 /\ h.sequence = 0 /\ h.seen = FALSE
      /\ h.wall = None /\ h.first = None /\ h.from = None
  BY DEF NoContact
<1>5. ~h.overlaps => InPlace(h)
  <2> HIDE DEF h
  <2> QED BY <1>4 DEF InPlace, Recorded
<1> HIDE DEF h
<1>6. CountInStep(h)
  BY <1>4 DEF CountInStep
<1> QED BY <1>0, <1>3, <1>4, <1>5, <1>6 DEF ContactOK

\* One atomic operation of the callback.
LEMMA HandledOK ==
  ASSUME NEW k, ContactOK(k), k.at # "idle"
  PROVE  ContactOK(Handled(k)) /\ Handled(k).sequence >= k.sequence
         /\ (k.seen => Handled(k).seen)
<1>0. /\ k \in Contacts /\ k.at \in Places \ {"idle"} /\ k.touch \in BOOLEAN /\ k.seen \in BOOLEAN
      /\ k.begun \in Nat /\ k.sequence \in Nat /\ k.from \in Nat \cup {None}
  BY DEF ContactOK, Contacts
<1>p. \A x \in {"idle", "value", "stamp", "count", "flag", "seen", "wall", "first"} : x \in Places
  BY DEF Places
<1>i. ~k.overlaps => InPlace(k)
  BY DEF ContactOK
<1>c. CountInStep(k)
  BY DEF ContactOK
<1>1. CASE k.at = "value"
  <2> DEFINE h == [k EXCEPT !.value = k.touch, !.at = "stamp"]
  <2>1. Handled(k) = h
    BY <1>1 DEF Handled
  <2>2. h \in Contacts
    BY <1>0, <1>p DEF Contacts
  <2>3. /\ h.at = "stamp" /\ h.touch = k.touch /\ h.begun = k.begun /\ h.from = k.from
        /\ h.sequence = k.sequence /\ h.seen = k.seen /\ h.wall = k.wall /\ h.first = k.first
        /\ h.overlaps = k.overlaps
    BY <1>0 DEF Contacts
  <2> HIDE DEF h
  <2>4. ~h.overlaps => InPlace(h)
    BY <1>1, <1>i, <2>3 DEF InPlace, Recorded, Unrecorded
  <2>5. CountInStep(h)
    BY <1>0, <1>1, <1>c, <2>3 DEF CountInStep
  <2> QED BY <1>0, <2>1, <2>2, <2>3, <2>4, <2>5 DEF ContactOK
<1>2. CASE k.at = "stamp"
  <2> DEFINE h == [k EXCEPT !.stamp = k.begun, !.at = "count"]
  <2>1. Handled(k) = h
    BY <1>2 DEF Handled
  <2>2. h \in Contacts
    BY <1>0, <1>p DEF Contacts
  <2>3. /\ h.at = "count" /\ h.touch = k.touch /\ h.begun = k.begun /\ h.from = k.from
        /\ h.sequence = k.sequence /\ h.seen = k.seen /\ h.wall = k.wall /\ h.first = k.first
        /\ h.overlaps = k.overlaps
    BY <1>0 DEF Contacts
  <2> HIDE DEF h
  <2>4. ~h.overlaps => InPlace(h)
    BY <1>2, <1>i, <2>3 DEF InPlace, Recorded, Unrecorded
  <2>5. CountInStep(h)
    BY <1>0, <1>2, <1>c, <2>3 DEF CountInStep
  <2> QED BY <1>0, <2>1, <2>2, <2>3, <2>4, <2>5 DEF ContactOK
<1>3. CASE k.at = "count"
  <2> DEFINE h == [k EXCEPT !.sequence = k.sequence + 1, !.at = "flag"]
  <2>1. Handled(k) = h
    BY <1>3 DEF Handled
  <2>2. h \in Contacts
    <3>1. k.sequence + 1 \in Nat
      BY <1>0
    <3> QED BY <1>0, <1>p, <3>1 DEF Contacts
  <2>3. /\ h.at = "flag" /\ h.touch = k.touch /\ h.begun = k.begun /\ h.from = k.from
        /\ h.sequence = k.sequence + 1 /\ h.seen = k.seen /\ h.wall = k.wall
        /\ h.first = k.first /\ h.overlaps = k.overlaps
    BY <1>0 DEF Contacts
  <2> HIDE DEF h
  <2>4. ~h.overlaps => InPlace(h)
    BY <1>3, <1>i, <2>3 DEF InPlace, Recorded, Unrecorded
  <2>5. CountInStep(h)
    BY <1>0, <1>3, <1>c, <2>3 DEF CountInStep
  <2> QED BY <1>0, <2>1, <2>2, <2>3, <2>4, <2>5 DEF ContactOK
<1>4. CASE k.at = "flag"
  <2> DEFINE to == IF k.touch THEN "seen" ELSE "idle"
             h == [k EXCEPT !.active = k.touch, !.at = to]
  <2>1. Handled(k) = h
    BY <1>4 DEF Handled
  <2>t. to \in Places
    BY <1>p
  <2>2. h \in Contacts
    <3> HIDE DEF to
    <3> QED BY <1>0, <2>t DEF Contacts
  <2>3. /\ h.at = to /\ h.touch = k.touch /\ h.begun = k.begun /\ h.from = k.from
        /\ h.sequence = k.sequence /\ h.seen = k.seen /\ h.wall = k.wall /\ h.first = k.first
        /\ h.overlaps = k.overlaps
    BY <1>0 DEF Contacts
  <2> HIDE DEF h
  <2>4. ~h.overlaps => InPlace(h)
    BY <1>0, <1>4, <1>i, <2>3 DEF InPlace, Recorded, Unrecorded
  <2>5. CountInStep(h)
    BY <1>0, <1>4, <1>c, <2>3 DEF CountInStep
  <2> QED BY <1>0, <2>1, <2>2, <2>3, <2>4, <2>5 DEF ContactOK
<1>5. CASE k.at = "seen"
  <2> DEFINE to == IF k.seen THEN "idle" ELSE "wall"
             h == [k EXCEPT !.seen = TRUE, !.at = to]
  <2>1. Handled(k) = h
    BY <1>5 DEF Handled
  <2>t. to \in Places
    BY <1>p
  <2>2. h \in Contacts
    <3> HIDE DEF to
    <3> QED BY <1>0, <2>t DEF Contacts
  <2>3. /\ h.at = to /\ h.touch = k.touch /\ h.begun = k.begun /\ h.from = k.from
        /\ h.sequence = k.sequence /\ h.seen = TRUE /\ h.wall = k.wall /\ h.first = k.first
        /\ h.overlaps = k.overlaps
    BY <1>0 DEF Contacts
  <2> HIDE DEF h
  <2>4. ~h.overlaps => InPlace(h)
    BY <1>0, <1>5, <1>i, <2>3 DEF InPlace, Recorded, Unrecorded
  <2>5. CountInStep(h)
    BY <1>0, <1>5, <1>c, <2>3 DEF CountInStep
  <2> QED BY <1>0, <2>1, <2>2, <2>3, <2>4, <2>5 DEF ContactOK
<1>6. CASE k.at = "wall"
  <2> DEFINE h == [k EXCEPT !.wall = k.begun, !.at = "first"]
  <2>1. Handled(k) = h
    BY <1>6 DEF Handled
  <2>2. h \in Contacts
    BY <1>0, <1>p DEF Contacts
  <2>3. /\ h.at = "first" /\ h.touch = k.touch /\ h.begun = k.begun /\ h.from = k.from
        /\ h.sequence = k.sequence /\ h.seen = k.seen /\ h.wall = k.begun /\ h.first = k.first
        /\ h.overlaps = k.overlaps
    BY <1>0 DEF Contacts
  <2> HIDE DEF h
  <2>4. ~h.overlaps => InPlace(h)
    BY <1>6, <1>i, <2>3 DEF InPlace, Recorded, Unrecorded
  <2>5. CountInStep(h)
    BY <1>0, <1>6, <1>c, <2>3 DEF CountInStep
  <2> QED BY <1>0, <2>1, <2>2, <2>3, <2>4, <2>5 DEF ContactOK
<1>7. CASE k.at = "first"
  <2> DEFINE h == [k EXCEPT !.first = k.begun, !.at = "idle"]
  <2>1. Handled(k) = h
    BY <1>7 DEF Handled
  <2>2. h \in Contacts
    BY <1>0, <1>p DEF Contacts
  <2>3. /\ h.at = "idle" /\ h.touch = k.touch /\ h.begun = k.begun /\ h.from = k.from
        /\ h.sequence = k.sequence /\ h.seen = k.seen /\ h.wall = k.wall /\ h.first = k.begun
        /\ h.overlaps = k.overlaps
    BY <1>0 DEF Contacts
  <2> HIDE DEF h
  <2>4. ~h.overlaps => InPlace(h)
    BY <1>0, <1>7, <1>i, <2>3 DEF InPlace, Recorded, Unrecorded, None
  <2>5. CountInStep(h)
    BY <1>0, <1>7, <1>c, <2>3 DEF CountInStep
  <2> QED BY <1>0, <2>1, <2>2, <2>3, <2>4, <2>5 DEF ContactOK
<1> QED BY <1>0, <1>1, <1>2, <1>3, <1>4, <1>5, <1>6, <1>7 DEF Places

\* The members of a controller of session s.
Members(s) ==
  [gain : FailsafeGain..NominalGain, tau : -TorqueLimit..TorqueLimit,
   jacobian : {0, s}, jdot : SUBSET {s}, braking : {0, s},
   window : Windows(ProfilePeriod, {s}), markers : Windows(MarkerDecimation, {s}),
   prediction : {0, s}, predicted : {0, s}, logged : Nat, counted : Nat, contact : Contacts]
ReachOK(r, s) ==
  /\ r \in Members(s) /\ ContactOK(r.contact)
  /\ r.counted = r.logged /\ r.logged <= r.contact.sequence

LEMMA NewOK == ReachOK(New, 0) /\ New.prediction = 0
<1>1. NominalGain \in FailsafeGain..NominalGain /\ 0 \in -TorqueLimit..TorqueLimit
  BY GainsOrdered, StepsPositive
<1>2. Empty \in Windows(ProfilePeriod, {0}) /\ Empty \in Windows(MarkerDecimation, {0})
  BY PeriodsPositive, DecimationPositive DEF Empty, Windows
<1>3. New \in Members(0)
  <2> HIDE DEF NoContact, Contacts, Windows, Empty
  <2> QED BY <1>1, <1>2, NoContactOK DEF New, Members
<1>4. New.contact = NoContact /\ New.counted = 0 /\ New.logged = 0 /\ New.prediction = 0
  BY DEF New
<1>5. NoContact.sequence = 0
  BY DEF NoContact
<1> QED BY <1>3, <1>4, <1>5, NoContactOK DEF ReachOK, ContactOK

LEMMA GainedOK ==
  ASSUME NEW s, NEW r, ReachOK(r, s)
  PROVE  /\ ReachOK(Gained(r), s) /\ Gained(r).prediction = r.prediction
         /\ Gained(r).contact = r.contact /\ Gained(r).logged = r.logged
<1>1. NominalGain \in FailsafeGain..NominalGain
  BY GainsOrdered
<1>2. Gained(r) \in Members(s)
  BY <1>1 DEF ReachOK, Members, Gained
<1>3. /\ Gained(r).counted = r.counted /\ Gained(r).logged = r.logged
      /\ Gained(r).contact = r.contact /\ Gained(r).prediction = r.prediction
  BY DEF ReachOK, Members, Gained
<1> QED BY <1>2, <1>3 DEF ReachOK

LEMMA ClosedOK ==
  ASSUME NEW s, NEW r, ReachOK(r, s)
  PROVE  /\ ReachOK(Closed(r), s) /\ Closed(r).prediction = 0
         /\ Closed(r).contact = r.contact /\ Closed(r).logged = r.logged
<1>1. Closed(r) \in Members(s)
  BY DEF ReachOK, Members, Closed
<1>2. /\ Closed(r).counted = r.counted /\ Closed(r).logged = r.logged
      /\ Closed(r).contact = r.contact /\ Closed(r).prediction = 0
  BY DEF ReachOK, Members, Closed
<1> QED BY <1>1, <1>2 DEF ReachOK

\* The activation: nothing is left of the last session, if its log is closed.
LEMMA ResetOK ==
  ASSUME NEW s, NEW new, NEW r, ReachOK(r, s), r.prediction = 0
  PROVE  /\ ReachOK(Reset(r), new) /\ Reset(r).prediction = 0
         /\ ReachOK(PredictionLogOpened(Reset(r), new), new)
<1> DEFINE h == Reset(r)
<1>2. r.gain \in FailsafeGain..NominalGain /\ ContactOK(r.contact)
  BY DEF ReachOK, Members
<1>3. 0 \in -TorqueLimit..TorqueLimit
  BY StepsPositive
<1>4. Empty \in Windows(ProfilePeriod, {new}) /\ Empty \in Windows(MarkerDecimation, {new})
  BY PeriodsPositive, DecimationPositive DEF Empty, Windows
<1>5. ContactOK(Forgotten(r.contact)) /\ Forgotten(r.contact).sequence = 0
  BY <1>2, ForgottenOK
<1>6. Forgotten(r.contact) \in Contacts
  BY <1>5 DEF ContactOK
<1>7. h \in Members(new)
  <2>1. r \in Members(s)
    BY DEF ReachOK
  <2> HIDE DEF Contacts, Windows, Empty, Forgotten
  <2> QED BY <2>1, <1>2, <1>3, <1>4, <1>6 DEF Members, Reset
<1>8. h.counted = h.logged /\ h.logged = 0 /\ h.contact = Forgotten(r.contact) /\ h.prediction = 0
  BY DEF ReachOK, Members, Reset
<1> HIDE DEF h
<1>9. ReachOK(h, new)
  BY <1>5, <1>7, <1>8 DEF ReachOK
<1> DEFINE l == PredictionLogOpened(h, new)
<1>10. /\ l \in Members(new) /\ l.counted = h.counted /\ l.logged = h.logged
       /\ l.contact = h.contact
  BY <1>7 DEF Members, PredictionLogOpened
<1> HIDE DEF l
<1>11. ReachOK(l, new)
  BY <1>9, <1>10 DEF ReachOK
<1> QED BY <1>8, <1>9, <1>11 DEF l, h

\* The rate limit stays between the present value and the target.
LEMMA ClampedBetween ==
  ASSUME NEW low \in Int, NEW high \in Int, NEW x \in low..high, NEW y \in low..high,
         NEW step \in Nat
  PROVE  x + Clamped(y - x, step) \in low..high
BY DEF Clamped

LEMMA StepsNatural ==
  ASSUME NEW dt \in {1, 2}
  PROVE  GainStep * dt \in Nat /\ TorqueStep * dt \in Nat
<1>1. GainStep \in Nat /\ TorqueStep \in Nat
  BY StepsPositive
<1>2. CASE dt = 1
  BY <1>1, <1>2
<1>3. CASE dt = 2
  BY <1>1, <1>3
<1> QED BY <1>2, <1>3

\* What every part of an update leaves alone.
Same(q, r) == q.prediction = r.prediction /\ q.contact = r.contact

LEMMA PredictionLoggedOK ==
  ASSUME NEW s, NEW r, ReachOK(r, s), NEW evaluated \in BOOLEAN
  PROVE  ReachOK(PredictionLogged(r, evaluated), s) /\ Same(PredictionLogged(r, evaluated), r)
         /\ PredictionLogged(r, evaluated).logged = r.logged
<1> DEFINE h == [r EXCEPT !.predicted = r.prediction]
<1>1. PredictionLogged(r, evaluated) = r \/ PredictionLogged(r, evaluated) = h
  BY DEF PredictionLogged
<1>2. /\ h \in Members(s) /\ h.counted = r.counted /\ h.logged = r.logged
      /\ h.contact = r.contact /\ h.prediction = r.prediction
  BY DEF ReachOK, Members
<1> HIDE DEF h
<1>3. ReachOK(h, s) /\ Same(h, r)
  BY <1>2 DEF ReachOK, Same
<1> QED BY <1>1, <1>2, <1>3 DEF Same

LEMMA EnergyEstimatedOK ==
  ASSUME NEW s, NEW r, ReachOK(r, s), NEW failsafe \in BOOLEAN
  PROVE  ReachOK(EnergyEstimated(r, s, failsafe), s) /\ Same(EnergyEstimated(r, s, failsafe), r)
         /\ EnergyEstimated(r, s, failsafe).logged = r.logged
<1> DEFINE to == IF failsafe THEN s ELSE 0
           h == [r EXCEPT !.braking = to]
<1>1. EnergyEstimated(r, s, failsafe) = h
  BY DEF EnergyEstimated
<1>2. to \in {0, s}
  OBVIOUS
<1>3. /\ h \in Members(s) /\ h.counted = r.counted /\ h.logged = r.logged
      /\ h.contact = r.contact /\ h.prediction = r.prediction
  <2> HIDE DEF to
  <2> QED BY <1>2 DEF ReachOK, Members
<1> HIDE DEF h
<1> QED BY <1>1, <1>3 DEF ReachOK, Same

LEMMA DifferentiatedOK ==
  ASSUME NEW s, NEW r, ReachOK(r, s)
  PROVE  ReachOK(Differentiated(r, s), s) /\ Same(Differentiated(r, s), r)
         /\ Differentiated(r, s).logged = r.logged
<1> DEFINE to == IF r.jacobian = 0 THEN r.jdot ELSE r.jdot \cup {r.jacobian, s}
           h == [r EXCEPT !.jdot = to, !.jacobian = s]
<1>1. Differentiated(r, s) = h
  BY DEF Differentiated
<1>2. to \in SUBSET {s}
  BY DEF ReachOK, Members
<1>3. /\ h \in Members(s) /\ h.counted = r.counted /\ h.logged = r.logged
      /\ h.contact = r.contact /\ h.prediction = r.prediction
  <2> HIDE DEF to
  <2> QED BY <1>2 DEF ReachOK, Members
<1> HIDE DEF h
<1> QED BY <1>1, <1>3 DEF ReachOK, Same

LEMMA TorqueOK ==
  ASSUME NEW s, NEW r, ReachOK(r, s), NEW soft \in BOOLEAN, NEW dt \in {1, 2},
         NEW q \in Torque(r, s, soft, dt)
  PROVE  ReachOK(q, s) /\ Same(q, r) /\ q.logged = r.logged
<1> DEFINE p == Differentiated(r, s)
           level == RateLimited(p.gain, Target(soft), dt)
           g == [p EXCEPT !.gain = level]
<1>1. PICK desired \in {-TorqueLimit, 0, TorqueLimit} : q = Commanded(g, desired, dt)
  BY DEF Torque
<1> DEFINE asked == g.tau + Clamped(desired - g.tau, TorqueStep * dt)
<1>2. q = [g EXCEPT !.tau = asked]
  BY <1>1 DEF Commanded
<1>3. ReachOK(p, s) /\ Same(p, r) /\ p.logged = r.logged
  BY DifferentiatedOK
<1>4. level \in FailsafeGain..NominalGain
  <2>1. p.gain \in FailsafeGain..NominalGain
    BY <1>3 DEF ReachOK, Members
  <2>2. Target(soft) \in FailsafeGain..NominalGain
    BY GainsOrdered DEF Target
  <2>3. FailsafeGain \in Int /\ NominalGain \in Int
    BY GainsOrdered
  <2>4. GainStep * dt \in Nat
    BY StepsNatural
  <2>5. level = p.gain + Clamped(Target(soft) - p.gain, GainStep * dt)
    BY DEF RateLimited
  <2> HIDE DEF p, level
  <2> QED BY <2>1, <2>2, <2>3, <2>4, <2>5, ClampedBetween
<1> HIDE DEF p
<1>5. /\ g \in Members(s) /\ g.counted = p.counted /\ g.logged = p.logged
      /\ g.contact = p.contact /\ g.prediction = p.prediction
  <2> HIDE DEF level
  <2> QED BY <1>3, <1>4 DEF ReachOK, Members
<1> HIDE DEF g
<1>6. asked \in -TorqueLimit..TorqueLimit
  <2>1. g.tau \in -TorqueLimit..TorqueLimit /\ TorqueLimit \in Nat
    BY <1>5, StepsPositive DEF Members
  <2>2. desired \in -TorqueLimit..TorqueLimit /\ -TorqueLimit \in Int /\ TorqueLimit \in Int
    BY <1>1, <2>1
  <2>3. TorqueStep * dt \in Nat
    BY StepsNatural
  <2> QED BY <2>1, <2>2, <2>3, ClampedBetween
<1>7. /\ q \in Members(s) /\ q.counted = g.counted /\ q.logged = g.logged
      /\ q.contact = g.contact /\ q.prediction = g.prediction
  <2> HIDE DEF asked
  <2> QED BY <1>2, <1>5, <1>6 DEF Members
<1> QED BY <1>3, <1>5, <1>7 DEF ReachOK, Same

LEMMA DiagnosedOK ==
  ASSUME NEW s, NEW r, ReachOK(r, s)
  PROVE  ReachOK(Diagnosed(r, s), s) /\ Same(Diagnosed(r, s), r) /\ Diagnosed(r, s).logged = r.logged
<1> DEFINE w == Sampled(r.markers, s, MarkerDecimation)
           h == [r EXCEPT !.markers = w]
<1>1. Diagnosed(r, s) = h
  BY DEF Diagnosed
<1>2. w \in Windows(MarkerDecimation, {s})
  <2>1. r.markers \in Windows(MarkerDecimation, {s})
    BY DEF ReachOK, Members
  <2> QED BY <2>1, SampledIsWindow, DecimationPositive
<1>3. /\ h \in Members(s) /\ h.counted = r.counted /\ h.logged = r.logged
      /\ h.contact = r.contact /\ h.prediction = r.prediction
  <2> HIDE DEF w, Windows
  <2> QED BY <1>2 DEF ReachOK, Members
<1> HIDE DEF h
<1> QED BY <1>1, <1>3 DEF ReachOK, Same

LEMMA TimedOK ==
  ASSUME NEW s, NEW r, ReachOK(r, s)
  PROVE  ReachOK(Timed(r, s, ProfilePeriod), s) /\ Same(Timed(r, s, ProfilePeriod), r)
         /\ Timed(r, s, ProfilePeriod).logged = r.logged
<1> DEFINE w == Sampled(r.window, s, ProfilePeriod)
           h == [r EXCEPT !.window = w]
<1>1. Timed(r, s, ProfilePeriod) = h
  BY DEF Timed
<1>2. w \in Windows(ProfilePeriod, {s})
  <2>1. r.window \in Windows(ProfilePeriod, {s})
    BY DEF ReachOK, Members
  <2> QED BY <2>1, SampledIsWindow, PeriodsPositive
<1>3. /\ h \in Members(s) /\ h.counted = r.counted /\ h.logged = r.logged
      /\ h.contact = r.contact /\ h.prediction = r.prediction
  <2> HIDE DEF w, Windows
  <2> QED BY <1>2 DEF ReachOK, Members
<1> HIDE DEF h
<1> QED BY <1>1, <1>3 DEF ReachOK, Same

\* Every contact message is in one row: the rows have counted as many as the sequence.
LEMMA LoggedRowOK ==
  ASSUME NEW s, NEW r, ReachOK(r, s), NEW open \in BOOLEAN
  PROVE  ReachOK(LoggedRow(r, open), s) /\ Same(LoggedRow(r, open), r)
         /\ LoggedRow(r, open).logged >= r.logged
<1> DEFINE now == r.contact.sequence
           sum == r.counted + (IF now >= r.logged THEN now - r.logged ELSE 0)
           h == [r EXCEPT !.counted = sum, !.logged = now]
<1>1. LoggedRow(r, open) = r \/ LoggedRow(r, open) = h
  BY DEF LoggedRow
<1>2. /\ r.counted \in Nat /\ r.logged \in Nat /\ now \in Nat
      /\ r.counted = r.logged /\ r.logged <= now
  BY DEF ReachOK, Members, Contacts
<1>3. sum = now
  <2> HIDE DEF now
  <2> QED BY <1>2
<1>4. /\ h \in Members(s) /\ h.counted = sum /\ h.logged = now
      /\ h.contact = r.contact /\ h.prediction = r.prediction
  <2>1. sum \in Nat
    BY <1>2, <1>3
  <2> HIDE DEF now, sum
  <2> QED BY <1>2, <2>1 DEF ReachOK, Members
<1> HIDE DEF h
<1>5. ReachOK(h, s) /\ Same(h, r) /\ h.logged >= r.logged
  BY <1>2, <1>3, <1>4 DEF ReachOK, Same
<1> QED BY <1>1, <1>2, <1>5 DEF Same

\* The whole update.
LEMMA UpdatedOK ==
  ASSUME NEW s, NEW r, ReachOK(r, s), NEW open \in BOOLEAN,
         NEW u \in Updated(r, s, open, ProfilePeriod)
  PROVE  ReachOK(u, s) /\ Same(u, r) /\ u.logged >= r.logged
<1>1. PICK evaluated \in BOOLEAN, failsafe \in BOOLEAN, soft \in BOOLEAN, dt \in {1, 2} :
        \E q \in Torque(EnergyEstimated(PredictionLogged(r, evaluated), s, failsafe), s, soft, dt) :
          u = Timed(LoggedRow(Diagnosed(q, s), open), s, ProfilePeriod)
  BY DEF Updated
<1> DEFINE a == PredictionLogged(r, evaluated)
           b == EnergyEstimated(a, s, failsafe)
<1>2. PICK q \in Torque(b, s, soft, dt) :
        u = Timed(LoggedRow(Diagnosed(q, s), open), s, ProfilePeriod)
  BY <1>1
<1> DEFINE d == Diagnosed(q, s)
           e == LoggedRow(d, open)
<1>3. ReachOK(a, s) /\ Same(a, r) /\ a.logged = r.logged
  BY PredictionLoggedOK
<1> HIDE DEF a
<1>4. ReachOK(b, s) /\ Same(b, a) /\ b.logged = a.logged
  BY <1>3, EnergyEstimatedOK
<1> HIDE DEF b
<1>5. ReachOK(q, s) /\ Same(q, b) /\ q.logged = b.logged
  BY <1>4, TorqueOK
<1>6. ReachOK(d, s) /\ Same(d, q) /\ d.logged = q.logged
  BY <1>5, DiagnosedOK
<1> HIDE DEF d
<1>7. ReachOK(e, s) /\ Same(e, d) /\ e.logged >= d.logged
  BY <1>6, LoggedRowOK
<1>8. u = Timed(e, s, ProfilePeriod)
  BY <1>2 DEF d
<1> HIDE DEF e
<1>9. ReachOK(u, s) /\ Same(u, e) /\ u.logged = e.logged
  BY <1>7, <1>8, TimedOK
<1> QED BY <1>3, <1>4, <1>5, <1>6, <1>7, <1>9 DEF Same

\* A controller that is not active, and has not failed to become so, has no
\* prediction log open.
ReachesOK ==
  \A c \in Reachables :
    /\ ReachOK(reach[c], session[c])
    /\ life[c] \in {"unconfigured", "inactive"} => reach[c].prediction = 0

LEMMA ReachesInit == Init => ReachesOK
<1> SUFFICES ASSUME Init, NEW c \in Reachables
    PROVE  ReachOK(reach[c], session[c]) /\ reach[c].prediction = 0
  BY DEF ReachesOK
<1>1. reach[c] = New /\ session[c] = 0
  BY OfIn DEF Init
<1> QED BY <1>1, NewOK

\* Nothing of a session of "reachable" goes backwards, either.
LEMMA ReachOwn ==
  ASSUME Shapes, Lives, [Next]_vars, NEW c \in Reachables,
         ReachOK(reach[c], session[c]),
         life[c] \in {"unconfigured", "inactive"} => reach[c].prediction = 0
  PROVE  /\ ReachOK(reach'[c], session'[c])
         /\ life'[c] \in {"unconfigured", "inactive"} => reach'[c].prediction = 0
         /\ session'[c] = session[c] => ContactGoesOn(c)
<1> DEFINE r == reach[c]
           q == reach'[c]
           s == session[c]
<1>0. /\ c \in Controllers /\ s \in Nat
      /\ r.logged \in Nat /\ r.contact.sequence \in Nat
  BY OfIn DEF Lives, ReachOK, Members, Contacts
<1>s. q.contact = r.contact /\ q.logged >= r.logged => ContactGoesOn(c)
  BY <1>0 DEF ContactGoesOn
<1>1. CASE life'[c] = life[c] /\ session'[c] = session[c] /\ reach'[c] = reach[c]
  BY <1>0, <1>1, <1>s
<1>2. CASE Configure(c)
  <2>1. /\ q = r \/ q = Gained(r)
        /\ life[c] = "unconfigured" /\ session' = session
    BY <1>2 DEF Configure, lifecycle
  <2>2. /\ ReachOK(Gained(r), s) /\ Gained(r).prediction = r.prediction
        /\ Gained(r).contact = r.contact /\ Gained(r).logged = r.logged
    BY GainedOK
  <2> HIDE DEF q, r
  <2>3. ReachOK(q, s) /\ q.prediction = 0 /\ q.contact = r.contact /\ q.logged = r.logged
    BY <2>1, <2>2 DEF r
  <2> QED BY <1>0, <1>s, <2>1, <2>3 DEF q, r
<1>3. CASE Deactivate(c)
  <2>1. q = Closed(r) /\ session' = session
    BY <1>3 DEF Deactivate, lifecycle
  <2>2. ReachOK(q, s) /\ q.prediction = 0 /\ q.contact = r.contact /\ q.logged = r.logged
    BY <2>1, ClosedOK
  <2> QED BY <1>0, <1>s, <2>1, <2>2
<1>4. CASE Update(c)
  <2>0. session' = session /\ life' = life
    BY <1>0, <1>4, UpdateKinds
  <2>1. CASE UpdateReachable(c)
    <3>1. PICK u \in Updated(r, s, log[c] # 0, ProfilePeriod) : reach' = [reach EXCEPT ![c] = u]
      BY <2>1 DEF UpdateReachable
    <3>2. q = u
      BY <3>1 DEF Shapes
    <3>3. (log[c] # 0) \in BOOLEAN
      OBVIOUS
    <3>4. ReachOK(u, s) /\ Same(u, r) /\ u.logged >= r.logged
      BY <3>3, UpdatedOK
    <3> QED BY <1>s, <2>0, <3>2, <3>4 DEF Same
  <2>2. CASE UNCHANGED reach
    BY <1>1, <2>0, <2>2
  <2> QED BY <1>0, <1>4, <2>1, <2>2, UpdateKinds
<1>5. CASE Activate(c)
  <2>0. life[c] = "inactive" /\ session'[c] = s + 1 /\ session'[c] # session[c]
    BY <1>0, <1>5, ActivateKinds DEF Shapes
  <2>1. ActivateReachable(c)
    BY <1>0, <1>5, ActivateKinds DEF Impedances, Wrenches, Budgets, Reachables, Of, Shared
  <2>2. \A x : reach' = [reach EXCEPT ![c] = x] => q = x
    BY DEF Shapes
  <2>3. \A l \in States : life' = [life EXCEPT ![c] = l] => life'[c] = l
    BY <1>0 DEF Lives
  <2>4. \E l \in {"active", "finalized"} : life' = [life EXCEPT ![c] = l]
    BY <1>5, <1>0, ActivateOutcomes
  <2>5. life'[c] \in {"active", "finalized"}
    BY <2>3, <2>4 DEF States
  <2>6. q = Reset(r) \/ q = PredictionLogOpened(Reset(r), session'[c])
    BY <2>1, <2>2 DEF ActivateReachable
  <2>7. ReachOK(Reset(r), session'[c]) /\ ReachOK(PredictionLogOpened(Reset(r), session'[c]), session'[c])
    BY <2>0, ResetOK
  <2> HIDE DEF q, r
  <2>8. ReachOK(q, session'[c])
    BY <2>6, <2>7
  <2> QED BY <2>0, <2>5, <2>8 DEF q
<1>6. CASE ContactBegin(c)
  <2>1. PICK touch \in BOOLEAN : q = [r EXCEPT !.contact = Received(r.contact, touch)]
    BY <1>6 DEF ContactBegin, Shapes
  <2>2. r.contact.at = "idle" /\ session' = session /\ life' = life
    BY <1>6 DEF ContactBegin, lifecycle
  <2>3. /\ ContactOK(Received(r.contact, touch))
        /\ Received(r.contact, touch).sequence = r.contact.sequence
        /\ Received(r.contact, touch).seen = r.contact.seen
    BY <2>2, ReceivedOK DEF ReachOK
  <2> DEFINE k == Received(r.contact, touch)
  <2>4. q.contact = k /\ q.logged = r.logged /\ q.counted = r.counted /\ q.prediction = r.prediction
        /\ q \in Members(s)
    <3>1. k \in Contacts
      BY <2>3 DEF ContactOK
    <3> HIDE DEF k
    <3> QED BY <2>1, <3>1 DEF ReachOK, Members, k
  <2> HIDE DEF k
  <2>5. ReachOK(q, s)
    BY <2>3, <2>4 DEF ReachOK, k
  <2>6. ContactGoesOn(c)
    BY <1>0, <2>3, <2>4 DEF ContactGoesOn, k
  <2> QED BY <2>2, <2>4, <2>5, <2>6
<1>7. CASE ContactStep(c)
  <2>1. q = [r EXCEPT !.contact = Handled(r.contact)]
    BY <1>7 DEF ContactStep, Shapes
  <2>2. r.contact.at # "idle" /\ session' = session /\ life' = life
    BY <1>7 DEF ContactStep, lifecycle
  <2> DEFINE k == Handled(r.contact)
  <2>3. ContactOK(k) /\ k.sequence >= r.contact.sequence /\ (r.contact.seen => k.seen)
    BY <2>2, HandledOK DEF ReachOK
  <2>4. q.contact = k /\ q.logged = r.logged /\ q.counted = r.counted /\ q.prediction = r.prediction
        /\ q \in Members(s)
    <3>1. k \in Contacts
      BY <2>3 DEF ContactOK
    <3>2. q = [r EXCEPT !.contact = k]
      BY <2>1
    <3> HIDE DEF k
    <3> QED BY <3>2, <3>1 DEF ReachOK, Members
  <2>k. k.sequence \in Nat
    BY <2>3 DEF ContactOK, Contacts
  <2> HIDE DEF k
  <2>5. ReachOK(q, s)
    <3>1. r.counted = r.logged /\ r.logged <= r.contact.sequence
      BY DEF ReachOK
    <3> HIDE DEF q, r
    <3> QED BY <1>0, <2>3, <2>4, <2>k, <3>1 DEF ReachOK
  <2>6. ContactGoesOn(c)
    BY <1>0, <2>3, <2>4, <2>k DEF ContactGoesOn
  <2> QED BY <2>2, <2>4, <2>5, <2>6
<1>8. CASE GoalBegin(c) \/ GoalEnd(c)
  BY <1>1, <1>8 DEF GoalBegin, GoalEnd, lifecycle
<1>9. CASE Untouched(c)
  BY <1>1, <1>9 DEF Untouched
<1> QED BY <1>0, <1>2, <1>3, <1>4, <1>5, <1>6, <1>7, <1>8, <1>9, OneAtATime DEF Own

LEMMA ReachesNext == Shapes /\ Lives /\ ReachesOK /\ [Next]_vars => ReachesOK'
<1> SUFFICES ASSUME Shapes, Lives, ReachesOK, [Next]_vars, NEW c \in Reachables
    PROVE  /\ ReachOK(reach'[c], session'[c])
           /\ life'[c] \in {"unconfigured", "inactive"} => reach'[c].prediction = 0
  <2>1. \A c \in Reachables : ReachOK(reach[c], session[c])' <=> ReachOK(reach'[c], session'[c])
    BY DEF ReachOK, Members, ContactOK, InPlace, Recorded, Unrecorded
  <2> QED BY <2>1 DEF ReachesOK
<1> QED BY ReachOwn DEF ReachesOK

-----------------------------------------------------------------------------
(***************************************************************************)
(* FreeMotionExternalWrenchController.                                     *)
(***************************************************************************)
\* Every set of numbers has a least: the induction in a form without an operator.
LEMMA LeastNatural ==
  ASSUME NEW U \in SUBSET Nat, U # {}
  PROVE  \E n \in U : \A m \in U : n <= m
<1> DEFINE Below == {0..n : n \in U}
           S == UNION Below
           R == StrictSubsetOrdering(S)
<1>1. \A A \in Below : IsFiniteSet(A)
  BY FS_Interval
<1>2. Below \subseteq FiniteSubsetsOf(S) /\ Below # {}
  BY <1>1 DEF FiniteSubsetsOf
<1>3. IsWellFoundedOn(R, FiniteSubsetsOf(S))
  BY FS_StrictSubsetOrderingWellFounded
<1>4. \E A \in Below : \A B \in Below : ~ (<<B, A>> \in R)
  <2> HIDE DEF R, Below, S
  <2> QED BY <1>2, <1>3, WFMin, Zenon
<1>5. PICK n \in U : \A m \in U : ~ (<<0..m, 0..n>> \in R)
  BY <1>4
<1>6. ASSUME NEW m \in U, m < n PROVE <<0..m, 0..n>> \in R
  <2>1. 0..m \subseteq 0..n /\ n \in 0..n /\ n \notin 0..m
    BY <1>6
  <2>2. 0..m \in SUBSET S /\ 0..n \in SUBSET S
    OBVIOUS
  <2> HIDE DEF S
  <2> QED BY <2>1, <2>2 DEF StrictSubsetOrdering
<1>7. \A m \in U : n <= m
  <2>1. \A m \in U : ~ (m < n)
    <3> HIDE DEF R
    <3> QED BY <1>5, <1>6
  <2>2. n \in Nat /\ \A m \in U : m \in Nat
    OBVIOUS
  <2> QED BY <2>1, <2>2
<1> QED BY <1>7

\* The sums of the first n durations, as a function.
SumsUp(sum, s, n) == sum = [k \in 0..n |-> IF k = 0 THEN 0 ELSE sum[k - 1] + s[k]]

LEMMA SumsDefined ==
  ASSUME NEW s \in Seq(Nat), NEW n \in Nat
  PROVE  \E sum : SumsUp(sum, s, n)
<1> DEFINE Bad == {k \in Nat : ~ \E sum : SumsUp(sum, s, k)}
<1> SUFFICES ASSUME Bad # {} PROVE FALSE
  OBVIOUS
<1>1. PICK m \in Bad : \A k \in Bad : m <= k
  <2>1. Bad \in SUBSET Nat
    OBVIOUS
  <2> HIDE DEF Bad
  <2> QED BY <2>1, LeastNatural
<1>2. m \in Nat /\ ~ \E sum : SumsUp(sum, s, m)
  OBVIOUS
<1>3. CASE m = 0
  <2> DEFINE f == [k \in 0..0 |-> 0]
  <2>1. f = [k \in 0..0 |-> IF k = 0 THEN 0 ELSE f[k - 1] + s[k]]
    OBVIOUS
  <2>2. SumsUp(f, s, m)
    BY <1>3, <2>1 DEF SumsUp
  <2> HIDE DEF f
  <2> QED BY <1>2, <2>2
<1>4. CASE m # 0
  <2>1. m - 1 \in Nat /\ m - 1 \notin Bad
    <3>1. m - 1 \in Nat /\ ~ (m <= m - 1)
      BY <1>2, <1>4
    <3> HIDE DEF Bad
    <3> QED BY <1>1, <3>1
  <2>2. PICK f : SumsUp(f, s, m - 1)
    BY <2>1
  <2>3. \A k \in 0..m - 1 : f[k] = IF k = 0 THEN 0 ELSE f[k - 1] + s[k]
    BY <2>2 DEF SumsUp
  <2> DEFINE g == [k \in 0..m |-> IF k = m THEN f[m - 1] + s[m] ELSE f[k]]
  <2>4. \A k \in 0..m : g[k] = IF k = 0 THEN 0 ELSE g[k - 1] + s[k]
    <3> SUFFICES ASSUME NEW k \in 0..m PROVE g[k] = IF k = 0 THEN 0 ELSE g[k - 1] + s[k]
      OBVIOUS
    <3>1. CASE k = m
      <4>1. g[m] = f[m - 1] + s[m] /\ m - 1 \in 0..m /\ m - 1 # m
        BY <1>2, <1>4
      <4>2. g[m - 1] = f[m - 1]
        BY <4>1
      <4> HIDE DEF g
      <4> QED BY <1>4, <3>1, <4>1, <4>2
    <3>2. CASE k # m
      <4>1. k \in 0..m - 1 /\ g[k] = f[k]
        BY <1>2, <3>2
      <4>2. k # 0 => g[k - 1] = f[k - 1]
        <5>1. k # 0 => k - 1 \in 0..m /\ k - 1 # m
          BY <1>2, <4>1
        <5> QED BY <5>1
      <4> HIDE DEF g
      <4> QED BY <2>3, <4>1, <4>2
    <3> QED BY <3>1, <3>2
  <2>5. g = [k \in 0..m |-> g[k]]
    OBVIOUS
  <2>6. SumsUp(g, s, m)
    <3> HIDE DEF g
    <3> QED BY <2>4, <2>5 DEF SumsUp
  <2> HIDE DEF g
  <2> QED BY <1>2, <2>6
<1> QED BY <1>3, <1>4

\* The recursion of the sums, and what follows for durations that are not negative.
LEMMA AccumulatedUnfolds ==
  ASSUME NEW s \in Seq(Nat)
  PROVE  /\ Accumulated(s, 0) = 0
         /\ \A i \in 1..Len(s) : Accumulated(s, i) = Accumulated(s, i - 1) + s[i]
<1> DEFINE f == CHOOSE sum : SumsUp(sum, s, Len(s))
<1>1. \A i : Accumulated(s, i) = f[i]
  BY DEF Accumulated, SumsUp
<1>2. SumsUp(f, s, Len(s))
  BY SumsDefined
<1> HIDE DEF f
<1>3. \A i \in 0..Len(s) : f[i] = IF i = 0 THEN 0 ELSE f[i - 1] + s[i]
  BY <1>2 DEF SumsUp
<1>4. Len(s) \in Nat
  OBVIOUS
<1>5. f[0] = 0
  BY <1>3, <1>4
<1>6. \A i \in 1..Len(s) : f[i] = f[i - 1] + s[i]
  BY <1>3, <1>4
<1> QED BY <1>1, <1>5, <1>6

LEMMA AccumulatedNatural ==
  ASSUME NEW s \in Seq(Nat), NEW i \in 0..Len(s)
  PROVE  Accumulated(s, i) \in Nat
<1> DEFINE Bad == {k \in 0..Len(s) : Accumulated(s, k) \notin Nat}
<1> SUFFICES ASSUME Bad # {} PROVE FALSE
  OBVIOUS
<1>1. PICK m \in Bad : \A k \in Bad : m <= k
  <2>1. Bad \in SUBSET Nat
    OBVIOUS
  <2> HIDE DEF Bad
  <2> QED BY <2>1, LeastNatural
<1>2. m \in 0..Len(s) /\ Accumulated(s, m) \notin Nat
  OBVIOUS
<1>3. m # 0
  BY <1>2, AccumulatedUnfolds
<1>4. m - 1 \in 0..Len(s) /\ m \in 1..Len(s) /\ ~ (m <= m - 1)
  BY <1>2, <1>3
<1>5. m - 1 \notin Bad
  <2> HIDE DEF Bad
  <2> QED BY <1>1, <1>4
<1>6. Accumulated(s, m - 1) \in Nat /\ s[m] \in Nat
  BY <1>4, <1>5
<1> QED BY <1>2, <1>4, <1>6, AccumulatedUnfolds

LEMMA AccumulatedGrows ==
  ASSUME NEW s \in Seq(Nat), NEW i \in 0..Len(s), NEW j \in i..Len(s)
  PROVE  Accumulated(s, i) <= Accumulated(s, j)
<1> DEFINE Bad == {k \in i..Len(s) : ~ (Accumulated(s, i) <= Accumulated(s, k))}
<1> SUFFICES ASSUME Bad # {} PROVE FALSE
  OBVIOUS
<1>1. PICK m \in Bad : \A k \in Bad : m <= k
  <2>1. Bad \in SUBSET Nat
    OBVIOUS
  <2> HIDE DEF Bad
  <2> QED BY <2>1, LeastNatural
<1>2. m \in i..Len(s) /\ ~ (Accumulated(s, i) <= Accumulated(s, m))
  OBVIOUS
<1>3. m # i
  BY <1>2, AccumulatedNatural
<1>4. m - 1 \in i..Len(s) /\ m \in 1..Len(s) /\ ~ (m <= m - 1)
  BY <1>2, <1>3
<1>5. m - 1 \notin Bad
  <2> HIDE DEF Bad
  <2> QED BY <1>1, <1>4
<1>6. Accumulated(s, i) <= Accumulated(s, m - 1)
  BY <1>4, <1>5
<1>7. /\ Accumulated(s, m) = Accumulated(s, m - 1) + s[m] /\ s[m] \in Nat
      /\ Accumulated(s, m - 1) \in Nat /\ Accumulated(s, i) \in Nat
  <2>1. m - 1 \in 0..Len(s) /\ i \in 0..Len(s)
    BY <1>4
  <2>2. Accumulated(s, m) = Accumulated(s, m - 1) + s[m]
    BY <1>4, AccumulatedUnfolds
  <2>3. s[m] \in Nat
    BY <1>4
  <2>4. Accumulated(s, m - 1) \in Nat /\ Accumulated(s, i) \in Nat
    BY <2>1, AccumulatedNatural
  <2> QED BY <2>2, <2>3, <2>4
<1>8. Accumulated(s, i) <= Accumulated(s, m)
  BY <1>6, <1>7
<1> QED BY <1>2, <1>8

Schedules == {s \in Seq(Nat) : Len(s) > 0}
Trials == [schedule : Schedules, elapsed : Nat, index : Nat, local : Nat,
           finished : BOOLEAN, biasTime : Nat, samples : Nat]
TrialOK(t) ==
  t \in Trials /\ t.index \in 0..Len(t.schedule) /\ t.elapsed <= Horizon(t.schedule)

\* The segment a trial is in is the one its elapsed time falls into.
Due(t) ==
  IF t.finished
  THEN /\ t.index = Len(t.schedule)
       /\ \A i \in DOMAIN t.schedule : t.elapsed >= Accumulated(t.schedule, i)
  ELSE /\ t.index \in DOMAIN t.schedule
       /\ Accumulated(t.schedule, t.index - 1) <= t.elapsed
       /\ t.elapsed < Accumulated(t.schedule, t.index)
       /\ t.local = t.elapsed - Accumulated(t.schedule, t.index - 1)
       /\ t.local < t.schedule[t.index]

LEMMA ScheduleBuilt == \A p \in Parameters : BuildSchedule(p) \in Schedules
<1> SUFFICES ASSUME NEW p \in Parameters PROVE BuildSchedule(p) \in Schedules
  OBVIOUS
<1>1. p.baseline \in Nat /\ p.sines \in Nat /\ p.sine \in Nat /\ p.line \in Nat /\ p.lissajous \in Nat
  BY DurationsNatural
<1>2. <<Infinite>> \in Seq(Nat) /\ Len(<<Infinite>>) = 1
  BY DEF Infinite
<1> DEFINE a == <<p.baseline>>
           b == [j \in 1..p.sines |-> p.sine]
           d == <<p.line, p.lissajous>>
<1>3. a \in Seq(Nat) /\ Len(a) = 1 /\ b \in Seq(Nat) /\ Len(b) \in Nat /\ d \in Seq(Nat) /\ Len(d) = 2
  <2>1. a \in Seq(Nat) /\ Len(a) = 1 /\ d \in Seq(Nat) /\ Len(d) = 2
    BY <1>1
  <2>2. b \in [1..p.sines -> Nat]
    BY <1>1
  <2>3. b \in Seq(Nat)
    BY <1>1, <2>2
  <2> HIDE DEF b
  <2> QED BY <2>1, <2>3
<1>4. a \o b \o d \in Seq(Nat) /\ Len(a \o b \o d) > 0
  <2> HIDE DEF a, b, d
  <2>1. a \o b \in Seq(Nat) /\ Len(a \o b) = Len(a) + Len(b)
    BY <1>3, ConcatProperties
  <2> DEFINE f == a \o b
  <2>2. f \in Seq(Nat) /\ Len(f) \in Nat
    BY <2>1
  <2>3. f \o d \in Seq(Nat) /\ Len(f \o d) = Len(f) + Len(d)
    <3> HIDE DEF f
    <3> QED BY <1>3, <2>2, ConcatProperties
  <2>4. Len(f) + Len(d) > 0
    <3> HIDE DEF f
    <3> QED BY <1>3, <2>2
  <2> QED BY <2>3, <2>4
<1>5. BuildSchedule(p) = IF ~p.auto THEN <<Infinite>> ELSE a \o b \o d
  BY DEF BuildSchedule
<1> HIDE DEF a, b, d
<1>6. <<Infinite>> \in Schedules /\ a \o b \o d \in Schedules
  BY <1>2, <1>4 DEF Schedules
<1> QED BY <1>5, <1>6

LEMMA HorizonNatural == \A s \in Schedules : Horizon(s) \in Nat
<1> SUFFICES ASSUME NEW s \in Schedules PROVE Horizon(s) \in Nat
  OBVIOUS
<1>1. Accumulated(s, Len(s)) \in Nat
  BY AccumulatedNatural DEF Schedules
<1> QED BY <1>1 DEF Horizon

\* update_active_segment finds it, whatever it was before.
LEMMA ActiveSegmentDue ==
  ASSUME NEW t \in Trials
  PROVE  LET q == ActiveSegment(t) IN
         /\ q \in Trials /\ q.index \in 0..Len(q.schedule) /\ Due(q)
         /\ q.schedule = t.schedule /\ q.elapsed = t.elapsed
         /\ q.biasTime = t.biasTime /\ q.samples = t.samples
<1> DEFINE s == t.schedule
           e == t.elapsed
           later == {i \in DOMAIN s : e < Accumulated(s, i)}
           i == CHOOSE k \in later : \A l \in later : k <= l
           q == ActiveSegment(t)
<1>1. s \in Seq(Nat) /\ Len(s) \in Nat \ {0} /\ e \in Nat /\ DOMAIN s = 1..Len(s)
  BY DEF Trials, Schedules
<1>2. CASE later = {}
  <2> DEFINE l == s[Len(s)]
  <2>0. l \in Nat /\ Len(s) \in Nat
    BY <1>1
  <2>1. q = [t EXCEPT !.finished = TRUE, !.index = Len(s), !.local = l]
    BY <1>2 DEF ActiveSegment
  <2>2. /\ q \in Trials /\ q.finished = TRUE /\ q.index = Len(s)
        /\ q.schedule = s /\ q.elapsed = e /\ q.biasTime = t.biasTime /\ q.samples = t.samples
    <3> HIDE DEF q, l
    <3> QED BY <2>0, <2>1 DEF Trials
  <2>3. \A k \in DOMAIN s : e >= Accumulated(s, k)
    <3> SUFFICES ASSUME NEW k \in DOMAIN s PROVE e >= Accumulated(s, k)
      OBVIOUS
    <3>1. ~ (e < Accumulated(s, k))
      BY <1>2
    <3>2. Accumulated(s, k) \in Nat
      BY <1>1, AccumulatedNatural
    <3> QED BY <1>1, <3>1, <3>2
  <2>4. Due(q)
    <3> HIDE DEF q, s, e
    <3> QED BY <2>2, <2>3 DEF Due
  <2> HIDE DEF q
  <2> QED BY <1>1, <2>2, <2>4 DEF q
<1>3. CASE later # {}
  <2>1. i \in later /\ \A l \in later : i <= l
    <3>1. later \in SUBSET Nat
      BY <1>1
    <3>2. \E k \in later : \A l \in later : k <= l
      <4> HIDE DEF later
      <4> QED BY <1>3, <3>1, LeastNatural
    <3> HIDE DEF later
    <3> QED BY <3>2
  <2>2. i \in 1..Len(s) /\ e < Accumulated(s, i)
    BY <1>1, <2>1
  <2>3. \A k \in DOMAIN s : k < i => ~ (e < Accumulated(s, k))
    <3>1. \A k \in DOMAIN s : e < Accumulated(s, k) => i <= k
      BY <2>1
    <3> HIDE DEF i, later
    <3> QED BY <1>1, <2>2, <3>1
  <2> HIDE DEF i, later
  <2>4. Accumulated(s, i - 1) \in Nat /\ Accumulated(s, i) \in Nat /\ s[i] \in Nat
        /\ Accumulated(s, i) = Accumulated(s, i - 1) + s[i]
    <3>1. i - 1 \in 0..Len(s) /\ i \in 0..Len(s)
      BY <1>1, <2>2
    <3> QED BY <1>1, <2>2, <3>1, AccumulatedNatural, AccumulatedUnfolds
  <2>5. Accumulated(s, i - 1) <= e
    <3>1. CASE i = 1
      <4>1. Accumulated(s, 0) = 0 /\ i - 1 = 0
        BY <1>1, <3>1, AccumulatedUnfolds
      <4> QED BY <1>1, <4>1
    <3>2. CASE i # 1
      <4>1. i - 1 \in DOMAIN s /\ i - 1 < i
        BY <1>1, <2>2, <3>2
      <4> QED BY <1>1, <2>3, <2>4, <4>1
    <3> QED BY <3>1, <3>2
  <2> DEFINE l == e - Accumulated(s, i - 1)
  <2>6. l \in Nat /\ l < s[i]
    <3>1. \A x, y, z, d \in Nat : x <= e /\ e < y /\ y = x + d => e - x \in Nat /\ e - x < d
      BY <1>1
    <3> QED BY <2>2, <2>4, <2>5, <3>1
  <2>7. q = [t EXCEPT !.finished = FALSE, !.index = i, !.local = l]
    BY <1>3 DEF ActiveSegment, i, later
  <2>8. /\ q \in Trials /\ q.finished = FALSE /\ q.index = i /\ q.local = l
        /\ q.schedule = s /\ q.elapsed = e /\ q.biasTime = t.biasTime /\ q.samples = t.samples
    <3> HIDE DEF q, l
    <3>1. i \in Nat
      BY <2>2
    <3> QED BY <2>6, <2>7, <3>1 DEF Trials
  <2> HIDE DEF l
  <2>9. Due(q)
    <3>1. q.index \in DOMAIN q.schedule
      BY <1>1, <2>2, <2>8
    <3> HIDE DEF q, s, e
    <3> QED BY <2>2, <2>5, <2>6, <2>8, <3>1 DEF Due, l
  <2> HIDE DEF q
  <2> QED BY <1>1, <2>2, <2>8, <2>9 DEF q
<1> QED BY <1>2, <1>3

LEMMA ElapsedOK ==
  ASSUME NEW t, TrialOK(t), NEW dt \in {1, 2}
  PROVE  LET q == Elapsed(t, dt) IN
         /\ q \in Trials /\ q.elapsed <= Horizon(q.schedule) /\ q.elapsed >= t.elapsed
         /\ q.schedule = t.schedule /\ q.biasTime = t.biasTime /\ q.samples = t.samples
<1> DEFINE H == Horizon(t.schedule)
           e == IF t.elapsed + dt > H THEN H ELSE t.elapsed + dt
           q == [t EXCEPT !.elapsed = e]
<1>1. t \in Trials /\ t.elapsed \in Nat /\ t.elapsed <= H /\ H \in Nat
  BY HorizonNatural DEF TrialOK, Trials
<1>2. e \in Nat /\ e <= H /\ e >= t.elapsed
  <2> HIDE DEF H
  <2> QED BY <1>1
<1>3. Elapsed(t, dt) = q
  BY DEF Elapsed
<1>4. /\ q \in Trials /\ q.elapsed = e
      /\ q.schedule = t.schedule /\ q.biasTime = t.biasTime /\ q.samples = t.samples
  <2> HIDE DEF e
  <2> QED BY <1>1, <1>2 DEF Trials
<1> HIDE DEF q, e
<1> QED BY <1>2, <1>3, <1>4

LEMMA BiasedOK ==
  ASSUME NEW t \in Trials, NEW dt \in {1, 2}, NEW still \in BOOLEAN
  PROVE  LET q == Biased(t, dt, still) IN
         /\ q \in Trials /\ q.schedule = t.schedule /\ q.elapsed = t.elapsed
         /\ q.index = t.index /\ q.local = t.local /\ q.finished = t.finished
         /\ t.biasTime >= BiasDuration => q.samples = t.samples
<1> DEFINE b == t.biasTime + dt
           n == t.samples + 1
           q == [t EXCEPT !.biasTime = b, !.samples = n]
<1>1. b \in Nat /\ n \in Nat /\ t.biasTime \in Nat
  BY DEF Trials
<1>2. CASE t.biasTime < BiasDuration /\ still
  <2>1. Biased(t, dt, still) = q
    BY <1>2 DEF Biased
  <2>2. /\ q \in Trials /\ q.schedule = t.schedule /\ q.elapsed = t.elapsed
        /\ q.index = t.index /\ q.local = t.local /\ q.finished = t.finished
    <3> HIDE DEF b, n
    <3> QED BY <1>1 DEF Trials
  <2>3. ~ (t.biasTime >= BiasDuration)
    BY <1>1, <1>2, BoundsNatural
  <2> HIDE DEF q
  <2> QED BY <2>1, <2>2, <2>3
<1>3. CASE ~ (t.biasTime < BiasDuration /\ still)
  BY <1>3 DEF Biased
<1> QED BY <1>2, <1>3

LEMMA DueSame ==
  ASSUME NEW t, NEW q, q.schedule = t.schedule, q.elapsed = t.elapsed,
         q.index = t.index, q.local = t.local, q.finished = t.finished, Due(t)
  PROVE  Due(q)
BY DEF Due

\* An active trial is in the segment that is due.
TrialsOK ==
  \A c \in Wrenches : TrialOK(trial[c]) /\ (life[c] = "active" => Due(trial[c]))

LEMMA TrialsInit == Init => TrialsOK
<1> SUFFICES ASSUME Init, NEW c \in Wrenches
    PROVE  TrialOK(trial[c]) /\ life[c] # "active"
  BY DEF TrialsOK
<1>1. life[c] # "active"
  BY OfIn DEF Init
<1>2. PICK p \in Parameters : trial[c] = NewTrial(p)
  BY DEF Init
<1>3. BuildSchedule(p) \in Schedules /\ Horizon(BuildSchedule(p)) \in Nat
      /\ Len(BuildSchedule(p)) \in Nat
  BY ScheduleBuilt, HorizonNatural DEF Schedules
<1>4. TrialOK(NewTrial(p))
  <2> HIDE DEF Schedules
  <2> QED BY <1>3 DEF NewTrial, TrialOK, Trials
<1> QED BY <1>1, <1>2, <1>4

\* While nothing is activated an experiment goes on: its segment is due before and
\* after the update, and the later of two segments that are due is the later in time.
LEMMA DueGoesOn ==
  ASSUME NEW t, NEW q, t \in Trials, q \in Trials, Due(t), Due(q), q.schedule = t.schedule,
         q.elapsed >= t.elapsed
  PROVE  q.index >= t.index /\ (t.finished => q.finished)
<1> DEFINE s == t.schedule
<1>1. /\ s \in Seq(Nat) /\ Len(s) \in Nat \ {0} /\ t.elapsed \in Nat /\ q.elapsed \in Nat
      /\ t.index \in Nat /\ q.index \in Nat /\ t.finished \in BOOLEAN /\ q.finished \in BOOLEAN
      /\ DOMAIN s = 1..Len(s)
  BY DEF Trials, Schedules
<1>2. \A i \in DOMAIN s : Accumulated(s, i) \in Nat
  BY <1>1, AccumulatedNatural
<1> HIDE DEF s
<1>3. CASE t.finished
  <2>1. t.index = Len(s) /\ \A i \in DOMAIN s : t.elapsed >= Accumulated(s, i)
    BY <1>3 DEF Due, s
  <2>2. \A i \in DOMAIN s : ~ (q.elapsed < Accumulated(s, i))
    BY <1>1, <1>2, <2>1
  <2>3. q.finished
    BY <2>2 DEF Due, s
  <2>4. q.index = Len(s)
    BY <2>3 DEF Due, s
  <2> QED BY <1>1, <2>1, <2>3, <2>4
<1>4. CASE ~t.finished /\ q.finished
  <2>1. t.index \in DOMAIN s /\ q.index = Len(s)
    BY <1>4 DEF Due, s
  <2> QED BY <1>1, <1>4, <2>1
<1>5. CASE ~t.finished /\ ~q.finished
  <2>1. t.index \in DOMAIN s /\ Accumulated(s, t.index - 1) <= t.elapsed
    BY <1>5 DEF Due, s
  <2>2. q.index \in DOMAIN s /\ q.elapsed < Accumulated(s, q.index)
    BY <1>5 DEF Due, s
  <2>3. ASSUME q.index < t.index PROVE FALSE
    <3>1. q.index \in 0..Len(s) /\ t.index - 1 \in q.index..Len(s) /\ t.index - 1 \in DOMAIN s
      BY <1>1, <2>1, <2>2, <2>3
    <3>2. Accumulated(s, q.index) <= Accumulated(s, t.index - 1)
      BY <1>1, <3>1, AccumulatedGrows
    <3>3. Accumulated(s, q.index) \in Nat /\ Accumulated(s, t.index - 1) \in Nat
      BY <1>2, <2>2, <3>1
    <3> QED BY <1>1, <2>1, <2>2, <3>2, <3>3
  <2> QED BY <1>1, <1>5, <2>3
<1> QED BY <1>1, <1>3, <1>4, <1>5

LEMMA TrialOwn ==
  ASSUME Shapes, Lives, [Next]_vars, NEW c \in Wrenches,
         TrialOK(trial[c]), life[c] = "active" => Due(trial[c])
  PROVE  /\ TrialOK(trial'[c]) /\ (life'[c] = "active" => Due(trial'[c]))
         /\ session'[c] = session[c] => ExperimentGoesOn(c)
<1> DEFINE t == trial[c]
<1>0. c \in Controllers /\ t \in Trials /\ session[c] \in Nat
  BY OfIn DEF Lives, TrialOK
<1>1. CASE trial'[c] = t /\ (life'[c] = "active" => life[c] = "active")
  <2>1. t.elapsed \in Nat /\ t.index \in Nat
    BY <1>0 DEF Trials
  <2> QED BY <1>1, <2>1 DEF ExperimentGoesOn
<1>2. CASE Update(c)
  <2>1. c \in Active /\ UNCHANGED <<life, session>>
    BY <1>0, <1>2, UpdateKinds DEF Lives
  <2>2. UpdateWrench(c)
    BY <1>0, <1>2, UpdateKinds DEF Impedances, Wrenches, Budgets, Reachables, Of, Shared
  <2>3. PICK dt \in {1, 2}, still \in BOOLEAN :
          trial' = [trial EXCEPT ![c] = Biased(ActiveSegment(Elapsed(t, dt)), dt, still)]
    BY <2>2 DEF UpdateWrench
  <2> DEFINE e == Elapsed(t, dt)
             a == ActiveSegment(e)
             b == Biased(a, dt, still)
  <2>4. trial'[c] = b
    BY <2>3 DEF Shapes
  <2>5. /\ e \in Trials /\ e.elapsed <= Horizon(e.schedule) /\ e.elapsed >= t.elapsed
        /\ e.schedule = t.schedule /\ e.biasTime = t.biasTime /\ e.samples = t.samples
    BY ElapsedOK
  <2> HIDE DEF e
  <2>6. /\ a \in Trials /\ a.index \in 0..Len(a.schedule) /\ Due(a)
        /\ a.schedule = e.schedule /\ a.elapsed = e.elapsed
        /\ a.biasTime = e.biasTime /\ a.samples = e.samples
    BY <2>5, ActiveSegmentDue
  <2> HIDE DEF a
  <2>7. /\ b \in Trials /\ b.schedule = a.schedule /\ b.elapsed = a.elapsed
        /\ b.index = a.index /\ b.local = a.local /\ b.finished = a.finished
        /\ a.biasTime >= BiasDuration => b.samples = a.samples
    BY <2>6, BiasedOK
  <2> HIDE DEF b
  <2>8. Due(b)
    BY <2>6, <2>7, DueSame
  <2>9. TrialOK(b)
    BY <2>5, <2>6, <2>7 DEF TrialOK
  <2>10. Due(t) /\ b.schedule = t.schedule /\ b.elapsed >= t.elapsed
    BY <2>1, <2>5, <2>6, <2>7 DEF Active
  <2>11. b.index >= t.index /\ (t.finished => b.finished)
    BY <1>0, <2>7, <2>8, <2>10, DueGoesOn
  <2>12. t.biasTime >= BiasDuration => b.samples = t.samples
    BY <2>5, <2>6, <2>7
  <2>13. ExperimentGoesOn(c)
    BY <2>4, <2>10, <2>11, <2>12 DEF ExperimentGoesOn
  <2> QED BY <2>4, <2>8, <2>9, <2>13
<1>3. CASE Activate(c)
  <2>1. ActivateWrench(c) /\ session'[c] # session[c]
    BY <1>0, <1>3, ActivateKinds DEF Shapes, Impedances, Wrenches, Budgets, Reachables, Of, Shared
  <2> DEFINE z == [t EXCEPT !.elapsed = 0, !.biasTime = 0, !.samples = 0]
             a == ActiveSegment(z)
  <2>2. trial'[c] = a
    BY <2>1 DEF ActivateWrench, Shapes
  <2>3. z \in Trials /\ z.elapsed = 0 /\ z.schedule = t.schedule
    BY <1>0 DEF Trials
  <2> HIDE DEF z
  <2>4. /\ a \in Trials /\ a.index \in 0..Len(a.schedule) /\ Due(a)
        /\ a.schedule = z.schedule /\ a.elapsed = z.elapsed
    BY <2>3, ActiveSegmentDue
  <2>5. Horizon(t.schedule) \in Nat
    BY <1>0, HorizonNatural DEF Trials
  <2> HIDE DEF a, t
  <2>6. TrialOK(a)
    BY <2>3, <2>4, <2>5 DEF TrialOK
  <2> QED BY <2>1, <2>2, <2>4, <2>6
<1>4. CASE Configure(c)
  <2>1. life'[c] # "active"
    BY <1>0, <1>4, Lifecycles DEF Own, Configure, Active, Lives
  <2>2. trial' = trial
    BY <1>4 DEF Configure
  <2> QED BY <1>1, <2>1, <2>2
<1>5. CASE Deactivate(c)
  BY <1>1, <1>5, <1>0 DEF Deactivate, Lives
<1>6. CASE GoalBegin(c) \/ GoalEnd(c) \/ ContactBegin(c) \/ ContactStep(c)
  BY <1>1, <1>6 DEF GoalBegin, GoalEnd, ContactBegin, ContactStep
<1>7. CASE Untouched(c)
  BY <1>1, <1>7 DEF Untouched
<1> QED BY <1>0, <1>2, <1>3, <1>4, <1>5, <1>6, <1>7, OneAtATime DEF Own

LEMMA TrialsNext == Shapes /\ Lives /\ TrialsOK /\ [Next]_vars => TrialsOK'
<1> SUFFICES ASSUME Shapes, Lives, TrialsOK, [Next]_vars, NEW c \in Wrenches
    PROVE  TrialOK(trial'[c]) /\ (life'[c] = "active" => Due(trial'[c]))
  BY DEF TrialsOK, TrialOK, Due
<1> QED BY TrialOwn DEF TrialsOK

-----------------------------------------------------------------------------
(***************************************************************************)
(* The theorems.                                                           *)
(***************************************************************************)
CpsInv ==
  /\ Shapes /\ Lives /\ LogsOpen /\ RowsOwn
  /\ BudgetKept /\ GoalsOrdered
  /\ WindowsOwn /\ References /\ Details /\ Derivatives /\ AloneOwn
  /\ TrialsOK /\ ReachesOK

LEMMA CpsInvInit == Init => CpsInv
BY ShapesInit, LivesInit, LogsOpenInit, RowsOwnInit, BudgetKeptInit, GoalsOrderedInit,
   WindowsOwnInit, ReferencesInit, DerivativesInit, AloneInit, TrialsInit, ReachesInit DEF CpsInv

LEMMA CpsInvNext == CpsInv /\ [Next]_vars => CpsInv'
BY ShapesNext, LivesNext, LogsOpenNext, RowsOwnNext, BudgetKeptNext, GoalsOrderedNext,
   WindowsOwnNext, ReferencesNext, DetailsNext, DerivativesNext, AloneNext, TrialsNext,
   ReachesNext DEF CpsInv

LEMMA CpsInvHolds == Spec => []CpsInv
BY CpsInvInit, CpsInvNext, PTL DEF Spec

\* Every variable has its type: the counter of the shared derivative stays below its
\* period, the statistics and the files hold samples of sessions there have been, and the
\* gains and the torque of "reachable" stay in range (applyMatrixRateLimit, tau_cmd).
THEOREM TypeCorrect == Spec => []TypeOK
<1>1. CpsInv => TypeOK
  <2> SUFFICES ASSUME CpsInv PROVE TypeOK
    OBVIOUS
  <2>1. /\ loaded \in Loads /\ due \subseteq loaded
        /\ life \in [Controllers -> {"unconfigured", "inactive", "active", "finalized"}]
        /\ session \in [Controllers -> 0..MaxSessions]
    BY DEF CpsInv, Lives, Active, States
  <2>2. /\ jtv \in [Shared -> [count : 0..JtvPeriod - 1, dot : Marks]]
        /\ used \in [Impedances -> [dot : Marks, updates : 0..JtvPeriod, age : 0..JtvPeriod]]
        /\ detail \in [Shared \X BOOLEAN -> [n : 0..ProfilePeriod - 1, from : SUBSET Marks]]
    BY DEF CpsInv, Derivatives, Details, Windows
  <2>3. window \in [Impedances ->
          [loop : [n : 0..StatsPeriod - 1, from : SUBSET (1..MaxSessions)],
           profile : [n : 0..ProfilePeriod - 1, from : SUBSET (1..MaxSessions)]]]
    <3> SUFFICES ASSUME NEW c \in Impedances
        PROVE  window[c] \in [loop : [n : 0..StatsPeriod - 1, from : SUBSET (1..MaxSessions)],
                 profile : [n : 0..ProfilePeriod - 1, from : SUBSET (1..MaxSessions)]]
      BY DEF CpsInv, Shapes
    <3>1. Sessions(c) \subseteq 1..MaxSessions
      BY <2>1, OfIn, BoundsNatural DEF Sessions
    <3>2. window[c] \in [loop : Windows(StatsPeriod, Sessions(c)),
                         profile : Windows(ProfilePeriod, Sessions(c))]
      BY DEF CpsInv, WindowsOwn
    <3> QED BY <3>1, <3>2 DEF Windows
  <2>4. DOMAIN ref = Impedances /\ \A c \in Impedances : ref[c].time \in 0..MoveTicks
    BY DEF CpsInv, Shapes, References
  <2>5. DOMAIN trial = Wrenches /\ \A c \in Wrenches : trial[c].index \in 0..Len(trial[c].schedule)
    BY DEF CpsInv, Shapes, TrialsOK, TrialOK
  <2>6. energy \in [Budgets -> [p : 0..MaxEnergy, k : 0..MaxEnergy, num : Nat, den : Nat \ {0},
                                filtered : SUBSET (1..MaxSessions)]]
    BY DEF CpsInv, Shapes, BudgetKept, Kept, Energies
  <2>7. DOMAIN goal = Budgets /\ \A c \in Budgets : goal[c].serial \in 0..MaxMessages + MaxSessions
    <3>1. DOMAIN goal = Budgets
      BY DEF CpsInv, Shapes
    <3>2. \A c \in Budgets : goal[c].serial \in 0..MaxMessages + session[c] /\ session[c] \in 0..MaxSessions
      BY <2>1, OfIn DEF CpsInv, GoalsOrdered, Goals
    <3> QED BY <3>1, <3>2, BoundsNatural
  <2>8. DOMAIN reach = Reachables /\ \A c \in Reachables :
          reach[c].gain \in FailsafeGain..NominalGain /\ reach[c].tau \in -TorqueLimit..TorqueLimit
    BY DEF CpsInv, Shapes, ReachesOK, ReachOK, Members
  <2>9. log \in [Controllers -> 0..MaxSessions]
    <3>1. \A c \in Controllers : log[c] \in 0..MaxSessions
      BY <2>1, BoundsNatural DEF CpsInv, LogsOpen
    <3> QED BY <3>1 DEF CpsInv, Shapes
  <2>10. rows \in [{Path[c] : c \in Logging} -> SUBSET Marks]
    BY DEF CpsInv, RowsOwn, Paths
  <2> QED BY <2>1, <2>2, <2>3, <2>4, <2>5, <2>6, <2>7, <2>8, <2>9, <2>10 DEF TypeOK
<1> QED BY <1>1, CpsInvHolds, PTL

\* k_scale of JointImpedanceEnergyBudgetController, for every budget and energies: while
\* it is on the total is within the budget, a partial one makes the total the budget, and
\* it is off at the goal and where the arm's motion has used the budget up, and only there.
THEOREM BudgetSafe == Spec => []WithinBudget
<1>1. CpsInv => WithinBudget
  BY DEF CpsInv, BudgetKept, Kept, WithinBudget
<1> QED BY <1>1, CpsInvHolds, PTL

\* The segment an experiment is in is the one its elapsed time falls into, for every
\* schedule (update_active_segment).
THEOREM SegmentSafe == Spec => []SegmentIsDue
<1>1. CpsInv => SegmentIsDue
  <2> SUFFICES ASSUME CpsInv, NEW c \in Active \cap Wrenches, NEW t, t = trial[c]
      PROVE  IF t.finished
             THEN \A i \in DOMAIN t.schedule : t.elapsed >= Accumulated(t.schedule, i)
             ELSE /\ Accumulated(t.schedule, t.index - 1) <= t.elapsed
                  /\ t.elapsed < Accumulated(t.schedule, t.index)
                  /\ t.local = t.elapsed - Accumulated(t.schedule, t.index - 1)
                  /\ t.local < t.schedule[t.index]
    BY DEF SegmentIsDue
  <2>1. Due(t)
    BY DEF CpsInv, TrialsOK, Active
  <2> QED BY <2>1 DEF Due
<1> QED BY <1>1, CpsInvHolds, PTL

\* Of a session are its statistics, the derivative of a controller alone in its class,
\* the goal once an update has found the buffer free, the differences, estimates and
\* contact counts of "reachable", and the rows of the log if controllers of different
\* arms name different files.  Neither the runtime gains nor dq_filtered_ are claimed.
THEOREM SessionSafe ==
  ASSUME LogsApart
  PROVE  Spec => []SessionLocal
<1>1. CpsInv => SessionLocal
  <2> SUFFICES ASSUME CpsInv PROVE SessionLocal
    OBVIOUS
  <2>0. loaded \subseteq Controllers /\ Active \subseteq loaded
    BY LoadsNamed DEF CpsInv, Lives, Active
  <2>1. \A c \in loaded : LogLocal(c)
    BY <2>0, LogsApart DEF CpsInv, LogsOpen, RowsOwn, ReachesOK, LogLocal, Active
  <2>2. ASSUME NEW c \in Active, c \in Impedances
        PROVE  window[c].loop.from \cup window[c].profile.from \subseteq {session[c]}
    BY <2>2 DEF CpsInv, WindowsOwn, Windows, Sessions
  <2>3. ASSUME NEW c \in Active, c \in Impedances \cap Feedforward, Sole(c), used[c].updates > 0
        PROVE  /\ used[c].dot.of = c /\ used[c].age < JtvPeriod
               /\ used[c].dot.session = session[c] \/ used[c].updates < JtvPeriod
    <3>1. Alone(c)
      BY <2>0, <2>3 DEF CpsInv, AloneOwn
    <3>2. Class[c] \in Shared
      BY <2>3 DEF Impedances, Of
    <3>3. jtv[Class[c]].count \in 0..JtvPeriod - 1 /\ JtvPeriod \in Nat \ {0}
          /\ used[c].updates \in Nat
      BY <2>3, <3>2, PeriodsPositive DEF CpsInv, Derivatives
    <3> QED BY <2>3, <3>1, <3>3 DEF Alone
  <2>4. ASSUME NEW c \in Active, c \in Budgets, goal[c].read
        PROVE  goal[c].rt >= goal[c].since
    BY <2>4 DEF CpsInv, GoalsOrdered, Goals, Ordered
  <2>5. ASSUME NEW c \in Active, c \in Reachables
        PROVE  ReachableLocal(reach[c], session[c])
    <3> DEFINE r == reach[c]
               k == r.contact
    <3>1. ReachOK(r, session[c])
      BY <2>5 DEF CpsInv, ReachesOK
    <3> HIDE DEF r
    <3>2. /\ r.jacobian \in {0, session[c]} /\ r.jdot \subseteq {session[c]}
          /\ r.braking \in {0, session[c]} /\ r.window.from \subseteq {session[c]}
          /\ r.markers.from \subseteq {session[c]}
          /\ r.predicted \in {0, session[c]} /\ r.prediction \in {0, session[c]}
          /\ r.counted = r.logged /\ r.logged <= k.sequence
      BY <3>1 DEF ReachOK, Members, Windows
    <3>3. ContactOK(k) /\ k \in Contacts
      BY <3>1 DEF ReachOK, ContactOK
    <3> HIDE DEF k
    <3>4. k.sequence \in Nat /\ k.begun \in Nat /\ k.at \in Places
      BY <3>3 DEF Contacts
    <3>c. k.sequence <= k.begun + 1 /\ k.begun <= k.sequence + 1
      BY <3>3, <3>4 DEF ContactOK, CountInStep
    <3>5. ASSUME ~k.overlaps
          PROVE  /\ k.sequence <= k.begun /\ k.begun <= k.sequence + 1
                 /\ k.wall \in {None, k.from} /\ k.first \in {None, k.from}
                 /\ k.at = "idle" => k.sequence = k.begun /\ k.first = k.from
      <4>1. InPlace(k)
        BY <3>3, <3>5 DEF ContactOK
      <4>2. k.begun = k.sequence \/ k.begun = k.sequence + 1
        BY <3>4, <4>1 DEF InPlace, Places
      <4>3. k.wall \in {None, k.from} /\ k.first \in {None, k.from}
        BY <3>4, <4>1 DEF InPlace, Places, Recorded, Unrecorded
      <4>4. k.at = "idle" => k.sequence = k.begun /\ k.first = k.from
        BY <4>1 DEF InPlace, Recorded
      <4> QED BY <3>4, <4>2, <4>3, <4>4
    <3>6. ContactLocal(r)
      BY <3>2, <3>c, <3>5 DEF ContactLocal, k
    <3> QED BY <3>2, <3>6 DEF ReachableLocal, r
  <2> QED BY <2>1, <2>2, <2>3, <2>4, <2>5 DEF SessionLocal
<1> QED BY <1>1, CpsInvHolds, PTL

\* Within a session nothing is repeated: the experiment goes on through its segments, a
\* complete bias is left alone, the contact log only grows, and no update of the energy
\* budget goes back to an older goal.
EverythingGoesOn ==
  /\ \A c \in Wrenches : session'[c] = session[c] => ExperimentGoesOn(c)
  /\ \A c \in Reachables : session'[c] = session[c] => ContactGoesOn(c)
  /\ \A c \in Budgets : goal'[c].rt >= goal[c].rt

\* No step of any controller, callback or lifecycle change takes one of these back
\* within the session it belongs to.
THEOREM ForwardSafe == Spec => [][EverythingGoesOn]_vars
<1>1. CpsInv /\ [Next]_vars => EverythingGoesOn
  <2> SUFFICES ASSUME CpsInv, [Next]_vars PROVE EverythingGoesOn
    OBVIOUS
  <2>1. \A c \in Wrenches : session'[c] = session[c] => ExperimentGoesOn(c)
    BY TrialOwn DEF CpsInv, TrialsOK
  <2>2. \A c \in Reachables : session'[c] = session[c] => ContactGoesOn(c)
    BY ReachOwn DEF CpsInv, ReachesOK
  <2>3. \A c \in Budgets : goal'[c].rt >= goal[c].rt
    BY GoalsOrderedOwn DEF CpsInv, GoalsOrdered
  <2> QED BY <2>1, <2>2, <2>3 DEF EverythingGoesOn
<1> QED BY <1>1, CpsInvHolds, PTL DEF Spec
=============================================================================
