---------------------- MODULE MultiModeControllerProofs ----------------------
(***************************************************************************)
(* Theorems about MultiModeController, for any arms, controllets, requests *)
(* and bounds.                                                             *)
(***************************************************************************)
EXTENDS MultiModeController, TLAPS

\* The controllets start with default parameters and the configured set.
LEMMA TypeInit == Init => TypeOK
  BY StartAssumption DEF Init, TypeOK, BufferedOf, RtType, RtSteps, SvcType, UsedType, Loaded

\* The two ways in which the update thread changes several fields at once.
LEMMA ListChanged ==
  ASSUME NEW r \in RtType, NEW pc \in RtSteps, NEW list \in Seq(Controllets)
  PROVE  LET q == [r EXCEPT !.pc = pc, !.i = 1, !.list = list, !.torn = FALSE]
         IN  q \in RtType /\ q.pc = pc
<1>1. PICK i : i = 1
  OBVIOUS
<1>2. i \in Nat \ {0}
  BY <1>1
<1>3. [r EXCEPT !.pc = pc, !.i = i, !.list = list, !.torn = FALSE] \in RtType
  BY <1>2 DEF RtType
<1>4. [r EXCEPT !.pc = pc, !.i = 1, !.list = list, !.torn = FALSE] \in RtType
  BY <1>1, <1>3, Zenon
<1>5. [r EXCEPT !.pc = pc, !.i = 1, !.list = list, !.torn = FALSE].pc = pc
  BY DEF RtType
<1> QED BY <1>4, <1>5

LEMMA WrittenChanged ==
  ASSUME NEW r \in RtType, NEW pc \in RtSteps, NEW written \in SUBSET Arms
  PROVE  LET q == [r EXCEPT !.pc = pc, !.i = 1, !.written = written]
         IN  q \in RtType /\ q.pc = pc
<1>1. PICK i : i = 1
  OBVIOUS
<1>2. i \in Nat \ {0}
  BY <1>1
<1>3. [r EXCEPT !.pc = pc, !.i = i, !.written = written] \in RtType
  BY <1>2 DEF RtType
<1>4. [r EXCEPT !.pc = pc, !.i = 1, !.written = written] \in RtType
  BY <1>1, <1>3, Zenon
<1>5. [r EXCEPT !.pc = pc, !.i = 1, !.written = written].pc = pc
  BY DEF RtType
<1> QED BY <1>4, <1>5

\* A bound is counted.
LEMMA UsedChanged ==
  ASSUME NEW u \in UsedType
  PROVE  /\ [u EXCEPT !.requests = @ + 1] \in UsedType
         /\ [u EXCEPT !.messages = @ + 1] \in UsedType
         /\ [u EXCEPT !.settings = @ + 1] \in UsedType
         /\ [u EXCEPT !.activations = @ + 1] \in UsedType
<1>1. [u EXCEPT !.requests = @ + 1] \in UsedType
  BY DEF UsedType
<1>2. [u EXCEPT !.messages = @ + 1] \in UsedType
  BY DEF UsedType
<1>3. [u EXCEPT !.settings = @ + 1] \in UsedType
  BY DEF UsedType
<1>4. [u EXCEPT !.activations = @ + 1] \in UsedType
  BY DEF UsedType
<1> QED BY <1>1, <1>2, <1>3, <1>4

\* start_ keeps the types of what it changes.
LEMMA StartType ==
  ASSUME TypeOK, NEW S \in SUBSET Controllets, Start(S)
  PROVE  /\ session' \in [Controllets -> Nat]
         /\ target' \in [Controllets -> BufferedOf(Nat)]
         /\ raced' \subseteq Controllets
         /\ params' \in [Controllets -> BufferedOf({"none", "default", "set"})]
<1>1. session' \in [Controllets -> Nat]
  BY DEF TypeOK, Start
<1>2. ASSUME NEW c \in Controllets
      PROVE  Updated(SetBuffer(target[c], session'[c])) \in BufferedOf(Nat)
  BY <1>1 DEF TypeOK, Updated, SetBuffer, BufferedOf
<1>3. target' \in [Controllets -> BufferedOf(Nat)]
  BY <1>2 DEF TypeOK, Start
<1> QED BY <1>1, <1>3 DEF TypeOK, Start

\* Every action keeps the types: the controllets of an accepted request are loaded.
LEMMA TypeStep == TypeOK /\ [Next]_vars => TypeOK'
<1> SUFFICES ASSUME TypeOK, [Next]_vars PROVE TypeOK'
  OBVIOUS
<1>1. CASE OnActivate
  <2>1. rt' \in RtType /\ rt'.pc = "starting"
    <3>1. rt \in RtType /\ active \in Seq(Controllets) /\ "starting" \in RtSteps
      BY DEF TypeOK, RtSteps
    <3>2. rt' = [rt EXCEPT !.pc = "starting", !.i = 1, !.list = active, !.torn = FALSE]
      BY <1>1 DEF OnActivate
    <3> QED BY <3>1, <3>2, ListChanged
  <2>2. used' \in UsedType
    BY <1>1, UsedChanged DEF OnActivate, TypeOK
  <2> QED BY <1>1, <2>1, <2>2 DEF OnActivate, TypeOK, controlletVars
<1>2. CASE StartNext
  <2>1. {rt.list[rt.i]} \in SUBSET Controllets
    BY <1>2 DEF StartNext, TypeOK, RtType
  <2>2. rt' \in RtType /\ rt'.pc = "starting"
    <3>1. rt \in RtType /\ rt.pc = "starting" /\ rt' = [rt EXCEPT !.i = rt.i + 1]
      BY <1>2 DEF StartNext, TypeOK
    <3> QED BY <3>1 DEF RtType
  <2> QED BY <1>2, <2>1, <2>2, StartType DEF StartNext, TypeOK
<1>3. CASE Crash
  <2>1. rt' \in RtType /\ rt'.pc = "dead"
    BY <1>3 DEF Crash, TypeOK, RtType, RtSteps
  <2>2. svc' \in SvcType /\ svc'.pc = "dead"
    BY <1>3 DEF Crash, TypeOK, SvcType
  <2> QED BY <1>3, <2>1, <2>2 DEF Crash, TypeOK, controlletVars
<1>4. CASE Activated
  <2>1. rt' \in RtType /\ rt'.pc = "idle"
    <3>1. rt \in RtType /\ <<>> \in Seq(Controllets) /\ "idle" \in RtSteps
      BY DEF TypeOK, RtSteps
    <3>2. rt' = [rt EXCEPT !.pc = "idle", !.i = 1, !.list = <<>>, !.torn = FALSE]
      BY <1>4 DEF Activated
    <3> QED BY <3>1, <3>2, ListChanged
  <2> QED BY <1>4, <2>1 DEF Activated, TypeOK, controlletVars
<1>5. CASE OnDeactivate
  BY <1>5 DEF OnDeactivate, TypeOK, controlletVars
<1>6. CASE Update
  <2>1. rt' \in RtType /\ rt'.pc = "lock"
    BY <1>6 DEF Update, TypeOK, RtType, RtSteps
  <2> QED BY <1>6, <2>1 DEF Update, TypeOK, controlletVars
<1>7. CASE LockShared
  <2>1. rt' \in RtType /\ rt'.pc = "compute"
    <3>1. rt \in RtType /\ {} \in SUBSET Arms /\ "compute" \in RtSteps
      BY DEF TypeOK, RtSteps
    <3>2. rt' = [rt EXCEPT !.pc = "compute", !.i = 1, !.written = {}]
      BY <1>7 DEF LockShared
    <3> QED BY <3>1, <3>2, WrittenChanged
  <2> QED BY <1>7, <2>1 DEF LockShared, TypeOK, controlletVars
<1>8. CASE ComputeTau
  <2> DEFINE c == active[rt.i]
  <2>1. c \in Controllets
    BY <1>8 DEF ComputeTau, TypeOK, RtType
  <2>2. Updated(params[c]) \in BufferedOf({"none", "default", "set"})
    BY <2>1 DEF TypeOK, Updated, BufferedOf
  <2>3. Updated(target[c]) \in BufferedOf(Nat)
    BY <2>1 DEF TypeOK, Updated, BufferedOf
  <2>4. Resource[c] \subseteq Arms
    BY <2>1, ControlletsAssumption
  <2>5. /\ params' = [params EXCEPT ![c] = Updated(params[c])]
        /\ target' = [target EXCEPT ![c] = Updated(target[c])]
        /\ tau' = [a \in Arms |-> IF a \in Resource[c]
                                  THEN [by |-> c, session |-> session[c]]
                                  ELSE tau[a]]
        /\ rt' = [rt EXCEPT !.i = rt.i + 1,
                            !.written = rt.written \cup Resource[c]]
    BY <1>8 DEF ComputeTau
  <2> HIDE DEF c
  <2>6. params' \in [Controllets -> BufferedOf({"none", "default", "set"})]
    BY <2>1, <2>2, <2>5 DEF TypeOK
  <2>7. target' \in [Controllets -> BufferedOf(Nat)]
    BY <2>1, <2>3, <2>5 DEF TypeOK
  <2>8. tau' \in [Arms -> [by : Controllets \cup {None}, session : Nat]]
    BY <2>1, <2>5 DEF TypeOK
  <2>9. rt' \in RtType /\ rt'.pc = "compute"
    <3>1. rt \in RtType /\ rt.pc = "compute"
      BY <1>8 DEF ComputeTau, TypeOK
    <3> DEFINE n == rt.i + 1
    <3>2. n \in Nat \ {0} /\ rt.written \cup Resource[c] \in SUBSET Arms
      BY <3>1, <2>4 DEF RtType
    <3>3. rt' = [rt EXCEPT !.i = n, !.written = rt.written \cup Resource[c]]
      BY <2>5
    <3> HIDE DEF n
    <3> QED BY <3>1, <3>2, <3>3 DEF RtType
  <2> QED BY <1>8, <2>6, <2>7, <2>8, <2>9 DEF ComputeTau, TypeOK
<1>9. CASE WriteCommands
  <2>1. rt' \in RtType /\ rt'.pc = "idle"
    <3>1. rt \in RtType /\ {} \in SUBSET Arms /\ "idle" \in RtSteps
      BY DEF TypeOK, RtSteps
    <3>2. rt' = [rt EXCEPT !.pc = "idle", !.i = 1, !.written = {}]
      BY <1>9 DEF WriteCommands
    <3> QED BY <3>1, <3>2, WrittenChanged
  <2> QED BY <1>9, <2>1 DEF WriteCommands, TypeOK, controlletVars
<1>10. ASSUME NEW new \in Requests, SetControllers(new) PROVE TypeOK'
  <2>1. used' \in UsedType
    BY <1>10, UsedChanged DEF SetControllers, TypeOK
  <2>2. CASE UNCHANGED svc
    BY <1>10, <2>1, <2>2 DEF SetControllers, TypeOK, controlletVars
  <2>3. CASE Acceptable(new) /\ svc' = [svc EXCEPT !.pc = "wait",
                  !.new = ControlSet(new), !.affected = ArmsOf(new)]
    <3>1. ControlSet(new) \in Seq(Controllets) /\ new \in Seq(Controllets)
      BY <2>3 DEF Acceptable, Loaded
    <3>2. ArmsOf(new) \subseteq Arms
      BY <3>1, ControlletsAssumption DEF ArmsOf
    <3>3. svc' \in SvcType /\ svc'.pc = "wait"
      BY <2>3, <3>1, <3>2 DEF TypeOK, SvcType
    <3> QED BY <1>10, <2>1, <3>3 DEF SetControllers, TypeOK, controlletVars
  <2> QED BY <1>10, <2>2, <2>3 DEF SetControllers
<1>11. CASE LockExclusive
  <2>1. svc' \in SvcType /\ svc'.pc = "replace"
    BY <1>11 DEF LockExclusive, TypeOK, SvcType
  <2> QED BY <1>11, <2>1 DEF LockExclusive, TypeOK, controlletVars
<1>12. CASE Replace
  <2>1. svc' \in SvcType /\ svc'.pc = "start" /\ active' \in Seq(Controllets)
    <3>1. svc \in SvcType /\ active' = svc.new
          /\ svc' = [svc EXCEPT !.pc = "start", !.new = <<>>]
      BY <1>12 DEF Replace, TypeOK
    <3>2. <<>> \in Seq(Controllets)
      OBVIOUS
    <3> QED BY <3>1, <3>2 DEF SvcType
  <2>2. rt' \in RtType /\ rt'.pc = rt.pc
    BY <1>12 DEF Replace, TypeOK, RtType
  <2> QED BY <1>12, <2>1, <2>2 DEF Replace, TypeOK, controlletVars
<1>13. CASE StartNew
  <2>1. {active[i] : i \in DOMAIN active} \in SUBSET Controllets
    BY DEF TypeOK
  <2>2. svc' \in SvcType /\ svc'.pc = "idle"
    BY <1>13 DEF StartNew, TypeOK, SvcType
  <2> QED BY <1>13, <2>1, <2>2, StartType DEF StartNew, TypeOK
<1>14. ASSUME NEW c \in Controllets, CheckTarget(c) PROVE TypeOK'
  <2>1. svc' \in SvcType /\ svc'.c = c
    BY <1>14 DEF CheckTarget, TypeOK, SvcType
  <2>2. used' \in UsedType
    BY <1>14, UsedChanged DEF CheckTarget, TypeOK
  <2> QED BY <1>14, <2>1, <2>2 DEF CheckTarget, TypeOK, controlletVars
<1>15. ASSUME NEW c \in Controllets, SetParameters(c) PROVE TypeOK'
  <2>1. SetBuffer(params[c], "set") \in BufferedOf({"none", "default", "set"})
    BY DEF TypeOK, SetBuffer, BufferedOf
  <2>2. used' \in UsedType
    BY <1>15, UsedChanged DEF SetParameters, TypeOK
  <2> QED BY <1>15, <2>1, <2>2 DEF SetParameters, TypeOK
<1>16. CASE SetTarget
  <2>1. svc.c \in Controllets /\ svc.session \in Nat
    BY <1>16 DEF SetTarget, TypeOK, SvcType
  <2>2. SetBuffer(target[svc.c], svc.session) \in BufferedOf(Nat)
    BY <2>1 DEF TypeOK, SetBuffer, BufferedOf
  <2>3. svc' \in SvcType /\ svc'.pc = "idle"
    BY <1>16 DEF SetTarget, TypeOK, SvcType
  <2> QED BY <1>16, <2>1, <2>2, <2>3 DEF SetTarget, TypeOK
<1>17. CASE UNCHANGED vars
  BY <1>17 DEF vars, controlletVars, TypeOK
<1> QED BY <1>1, <1>2, <1>3, <1>4, <1>5, <1>6, <1>7, <1>8, <1>9, <1>10, <1>11,
           <1>12, <1>13, <1>14, <1>15, <1>16, <1>17 DEF Next

\* Every reachable state has its type.
THEOREM TypeCorrect == Spec => []TypeOK
  BY TypeInit, TypeStep, PTL DEF Spec


-----------------------------------------------------------------------------
(***************************************************************************)
(* One controllet per arm.                                                 *)
(***************************************************************************)
\* What is going to replace the active set was accepted against it, and the
\* active set does not change in between: callbacks run one at a time.
SetInv ==
  /\ TypeOK
  /\ OneControllet
  /\ svc.pc \in {"wait", "replace"} => OnePerArm(svc.new)

LEMMA SetInit == Init => SetInv
  BY TypeInit, StartAssumption DEF Init, SetInv, OneControllet

\* Only an accepted request brings a new set.
LEMMA SetStep == SetInv /\ [Next]_vars => SetInv'
<1> SUFFICES ASSUME SetInv, [Next]_vars PROVE SetInv'
  OBVIOUS
<1>0. TypeOK' /\ svc \in SvcType
  BY TypeStep DEF SetInv, TypeOK
<1>1. ASSUME NEW new \in Requests, SetControllers(new) PROVE SetInv'
  <2>1. CASE UNCHANGED svc
    BY <1>0, <1>1, <2>1 DEF SetControllers, SetInv, OneControllet, OnePerArm
  <2>2. CASE Acceptable(new) /\ svc' = [svc EXCEPT !.pc = "wait",
                  !.new = ControlSet(new), !.affected = ArmsOf(new)]
    <3>1. svc'.new = ControlSet(new)
      BY <1>0, <2>2 DEF SvcType
    <3>2. OnePerArm(svc'.new)
      BY <2>2, <3>1 DEF Acceptable
    <3> QED BY <1>0, <1>1, <3>2 DEF SetControllers, SetInv, OneControllet, OnePerArm
  <2> QED BY <1>1, <2>1, <2>2 DEF SetControllers
<1>2. CASE LockExclusive
  <2>1. svc'.new = svc.new /\ svc.pc = "wait" /\ active' = active
    BY <1>0, <1>2 DEF LockExclusive, SvcType
  <2> QED BY <1>0, <2>1 DEF SetInv, OneControllet, OnePerArm
<1>3. CASE Replace
  <2>1. svc'.pc = "start" /\ svc.pc = "replace" /\ active' = svc.new
    BY <1>0, <1>3 DEF Replace, SvcType
  <2> QED BY <1>0, <2>1 DEF SetInv, OneControllet, OnePerArm
<1>4. ASSUME UNCHANGED active, svc'.pc \notin {"wait", "replace"} PROVE SetInv'
  BY <1>0, <1>4 DEF SetInv, OneControllet, OnePerArm
<1>5. CASE Crash \/ StartNew \/ SetTarget \/ \E c \in Controllets : CheckTarget(c)
  <2>1. UNCHANGED active
    BY <1>5 DEF Crash, StartNew, SetTarget, CheckTarget, controlletVars
  <2>2. svc'.pc \in {"dead", "idle", "checked"}
    BY <1>0, <1>5 DEF Crash, StartNew, SetTarget, CheckTarget, SvcType
  <2> QED BY <2>1, <2>2, <1>4
<1>6. ASSUME UNCHANGED <<active, svc>> PROVE SetInv'
  BY <1>0, <1>6 DEF SetInv, OneControllet, OnePerArm
<1>7. CASE \/ OnActivate \/ StartNext \/ Activated \/ OnDeactivate \/ Update
           \/ LockShared \/ ComputeTau \/ WriteCommands
           \/ \E c \in Controllets : SetParameters(c)
           \/ UNCHANGED vars
  BY <1>6, <1>7 DEF OnActivate, StartNext, Activated, OnDeactivate, Update, LockShared,
     ComputeTau, WriteCommands, SetParameters, vars
<1> QED BY <1>1, <1>2, <1>3, <1>5, <1>7 DEF Next

\* Whatever was requested, an arm has one controllet that is active, and never two.
THEOREM OneControlletSafe == Spec => []OneControllet
<1>1. SetInv => OneControllet
  BY DEF SetInv
<1> QED BY <1>1, SetInit, SetStep, PTL DEF Spec

-----------------------------------------------------------------------------
(***************************************************************************)
(* The torques of an update are of one set.                                *)
(***************************************************************************)
\* The controllets of the active set that have been asked in this update have
\* written all their arms, and nobody has written or restarted anything since.
Written ==
  /\ rt.i \in 1..(Len(active) + 1)
  /\ \A j \in DOMAIN active : j < rt.i =>
       \A a \in Resource[active[j]] :
         /\ a \in rt.written
         /\ tau[a] = [by |-> active[j], session |-> session[active[j]]]

UpdateInv ==
  /\ SetInv
  /\ rt.pc = "compute" => ~Exclusive /\ Written

LEMMA UpdateInit == Init => UpdateInv
  BY SetInit DEF Init, UpdateInv

\* A controllet writes no arm that another one has written: they share none.
LEMMA ComputeWritten ==
  ASSUME UpdateInv, ComputeTau
  PROVE  Written'
<1> DEFINE c == active[rt.i]
<1>1. /\ rt.i \in Nat \ {0} /\ rt.i <= Len(active)
      /\ active \in Seq(Controllets) /\ rt \in RtType
  BY DEF ComputeTau, UpdateInv, SetInv, TypeOK, RtType
<1>2. rt.i \in DOMAIN active /\ c \in Controllets
  BY <1>1
<1>3. /\ UNCHANGED <<active, session>>
      /\ rt' = [rt EXCEPT !.i = rt.i + 1, !.written = rt.written \cup Resource[c]]
      /\ tau' = [a \in Arms |-> IF a \in Resource[c]
                                THEN [by |-> c, session |-> session[c]]
                                ELSE tau[a]]
  BY DEF ComputeTau
<1>4. Written
  BY DEF UpdateInv, ComputeTau
<1>5. rt'.i = rt.i + 1 /\ rt'.written = rt.written \cup Resource[c]
  BY <1>1, <1>3 DEF RtType
<1>6. rt'.i \in 1..(Len(active') + 1)
  BY <1>1, <1>3, <1>5
<1>7. ASSUME NEW j \in DOMAIN active, j < rt.i + 1, NEW a \in Resource[active[j]]
      PROVE  /\ a \in rt'.written
             /\ tau'[a] = [by |-> active[j], session |-> session[active[j]]]
  <2>1. active[j] \in Controllets /\ a \in Arms
    BY <1>1, ControlletsAssumption
  <2>2. CASE j = rt.i
    BY <1>3, <1>5, <2>1, <2>2
  <2>3. CASE j # rt.i
    <3>1. j < rt.i
      BY <1>1, <1>7, <2>3
    <3>2. a \notin Resource[c]
      BY <1>2, <2>1, <2>3 DEF UpdateInv, SetInv, OneControllet, OnePerArm
    <3>3. a \in rt.written /\ tau[a] = [by |-> active[j], session |-> session[active[j]]]
      BY <1>4, <3>1 DEF Written
    <3> QED BY <1>3, <1>5, <2>1, <3>2, <3>3
  <2> QED BY <2>2, <2>3
<1> QED BY <1>3, <1>5, <1>6, <1>7 DEF Written

LEMMA UpdateStep == UpdateInv /\ [Next]_vars => UpdateInv'
<1> SUFFICES ASSUME UpdateInv, [Next]_vars PROVE UpdateInv'
  OBVIOUS
<1>0. SetInv' /\ rt \in RtType /\ svc \in SvcType
  BY SetStep DEF UpdateInv, SetInv, TypeOK
<1>1. CASE ComputeTau
  <2>1. ~Exclusive'
    BY <1>1 DEF UpdateInv, ComputeTau, Exclusive
  <2> QED BY <1>0, <1>1, <2>1, ComputeWritten DEF UpdateInv
<1>2. CASE LockShared
  <2>1. ~Exclusive' /\ UNCHANGED active
    BY <1>2 DEF LockShared, Exclusive
  <2>2. rt'.i = 1
    BY <1>0, <1>2 DEF LockShared, RtType
  <2>3. active \in Seq(Controllets)
    BY DEF UpdateInv, SetInv, TypeOK
  <2> QED BY <1>0, <2>1, <2>2, <2>3 DEF UpdateInv, Written
\* The exchange of the set keeps out of an update.
<1>3. CASE LockExclusive \/ Replace \/ StartNew
  <2>1. rt'.pc # "compute"
    BY <1>0, <1>3 DEF LockExclusive, Replace, StartNew, UpdateInv, Exclusive, RtType
  <2> QED BY <1>0, <2>1 DEF UpdateInv
<1>4. CASE OnActivate \/ StartNext \/ Crash \/ Activated \/ Update \/ WriteCommands
  <2>1. rt'.pc # "compute"
    BY <1>0, <1>4 DEF OnActivate, StartNext, Crash, Activated, Update, WriteCommands, RtType
  <2> QED BY <1>0, <2>1 DEF UpdateInv
<1>5. ASSUME UNCHANGED <<active, session, tau, rt>>,
             svc'.pc \in {"replace", "start"} => svc.pc \in {"replace", "start"}
      PROVE  UpdateInv'
  BY <1>0, <1>5 DEF UpdateInv, Written, Exclusive
<1>6. CASE \/ OnDeactivate \/ SetTarget \/ UNCHANGED vars
           \/ \E c \in Controllets : CheckTarget(c) \/ SetParameters(c)
           \/ \E new \in Requests : SetControllers(new)
  <2>1. UNCHANGED <<active, session, tau, rt>>
    BY <1>6 DEF OnDeactivate, SetTarget, vars, controlletVars, CheckTarget,
       SetParameters, SetControllers
  <2>2. svc' = svc \/ svc'.pc \in {"idle", "checked", "wait"}
    BY <1>0, <1>6 DEF OnDeactivate, SetTarget, vars, CheckTarget, SetParameters,
       SetControllers, SvcType
  <2> QED BY <1>5, <2>1, <2>2
<1> QED BY <1>1, <1>2, <1>3, <1>4, <1>6 DEF Next

\* The torques an update sends to the arms were all computed in this update, by the
\* controllets of one set, each in its present session.
THEOREM TorquesSafe == Spec => TorquesOfOneSet
<1> DEFINE Sent == WriteCommands =>
       \A a \in Arms :
         /\ a \in rt.written
         /\ \E i \in DOMAIN active :
              /\ a \in Resource[active[i]]
              /\ tau[a] = [by |-> active[i], session |-> session[active[i]]]
<1>1. UpdateInv => Sent
  <2> SUFFICES ASSUME UpdateInv, WriteCommands, NEW a \in Arms
               PROVE  /\ a \in rt.written
                      /\ \E i \in DOMAIN active :
                           /\ a \in Resource[active[i]]
                           /\ tau[a] = [by |-> active[i], session |-> session[active[i]]]
    OBVIOUS
  <2>1. PICK i \in DOMAIN active : a \in Resource[active[i]]
    BY DEF UpdateInv, SetInv, OneControllet, OnePerArm
  <2>2. i < rt.i
    BY <2>1 DEF WriteCommands, UpdateInv, SetInv, TypeOK, RtType
  <2>3. Written
    BY DEF WriteCommands, UpdateInv
  <2> QED BY <2>1, <2>2, <2>3 DEF Written
<1>2. UpdateInv /\ [Next]_vars => [Sent]_vars
  BY <1>1
<1> QED BY <1>2, UpdateInit, UpdateStep, PTL DEF Spec, TorquesOfOneSet

-----------------------------------------------------------------------------
(***************************************************************************)
(* No torques towards a target from before the start.                      *)
(***************************************************************************)
\* What a controllet will use next was checked since its last start, unless
\* on_activate has overtaken the message.
Current(c) == Effective(target[c]) = session[c] \/ c \in raced

TargetInv ==
  /\ TypeOK
  /\ \A c \in Controllets : Current(c)

LEMMA TargetInit == Init => TargetInv
  BY TypeInit DEF Init, TargetInv, Current, Effective, Updated

\* A start makes the current pose the target, for good.
LEMMA StartCurrent ==
  ASSUME TargetInv, NEW S \in SUBSET Controllets, Start(S), NEW c \in Controllets
  PROVE  Current(c)'
<1>1. CASE c \in S
  <2>1. target'[c] = Updated(SetBuffer(target[c], session'[c]))
    BY <1>1 DEF Start
  <2>2. Effective(target'[c]) = session'[c]
    BY <2>1 DEF Effective, Updated, SetBuffer
  <2> QED BY <2>2 DEF Current
<1>2. CASE c \notin S
  BY <1>2 DEF Start, TargetInv, Current
<1> QED BY <1>1, <1>2

LEMMA TargetStep == TargetInv /\ [Next]_vars => TargetInv'
<1> SUFFICES ASSUME TargetInv, [Next]_vars, NEW c \in Controllets PROVE Current(c)'
  BY TypeStep DEF TargetInv
<1>0. Current(c) /\ target \in [Controllets -> BufferedOf(Nat)]
  BY DEF TargetInv, TypeOK
<1>1. CASE StartNext
  <2>1. {rt.list[rt.i]} \in SUBSET Controllets
    BY <1>1 DEF StartNext, TargetInv, TypeOK, RtType
  <2> QED BY <1>1, <2>1, StartCurrent DEF StartNext
<1>2. CASE StartNew
  <2>1. {active[i] : i \in DOMAIN active} \in SUBSET Controllets
    BY DEF TargetInv, TypeOK
  <2> QED BY <1>2, <2>1, StartCurrent DEF StartNew
<1>3. CASE ComputeTau
  <2>1. target' = [target EXCEPT ![active[rt.i]] = Updated(@)]
        /\ UNCHANGED <<session, raced>>
    BY <1>3 DEF ComputeTau
  <2>2. Effective(Updated(target[c])) = Effective(target[c])
    BY DEF Effective, Updated
  <2>3. target'[c] = target[c] \/ target'[c] = Updated(target[c])
    BY <1>0, <2>1
  <2> QED BY <1>0, <2>1, <2>2, <2>3 DEF Current
<1>4. CASE SetTarget
  <2>1. /\ target' = [target EXCEPT ![svc.c] = SetBuffer(@, svc.session)]
        /\ raced' = IF svc.session = session[svc.c] THEN raced ELSE raced \cup {svc.c}
        /\ UNCHANGED session
    BY <1>4 DEF SetTarget
  <2>2. CASE c = svc.c
    <3>1. target'[c] = SetBuffer(target[c], svc.session)
      BY <1>0, <2>1, <2>2
    <3>2. Effective(target'[c]) = svc.session
      BY <3>1 DEF Effective, Updated, SetBuffer
    <3> QED BY <2>1, <2>2, <3>2 DEF Current
  <2>3. CASE c # svc.c
    BY <1>0, <2>1, <2>3 DEF Current
  <2> QED BY <2>2, <2>3
<1>5. CASE \/ OnActivate \/ Crash \/ Activated \/ OnDeactivate \/ Update \/ LockShared
           \/ WriteCommands \/ LockExclusive \/ Replace \/ UNCHANGED vars
           \/ \E new \in Requests : SetControllers(new)
           \/ \E d \in Controllets : CheckTarget(d) \/ SetParameters(d)
  <2>1. UNCHANGED <<session, target, raced>>
    BY <1>5 DEF OnActivate, Crash, Activated, OnDeactivate, Update, LockShared,
       WriteCommands, LockExclusive, Replace, vars, controlletVars, SetControllers,
       CheckTarget, SetParameters
  <2> QED BY <1>0, <2>1 DEF Current
<1> QED BY <1>1, <1>2, <1>3, <1>4, <1>5 DEF Next

\* Torques are never computed towards a target that was checked before the controllet
\* was last started, except for a message whose check on_activate overtook.
THEOREM TargetSafe == Spec => NoStaleTarget
<1> DEFINE Fresh == ComputeTau =>
       LET c == active[rt.i]
       IN  target'[c].content = session[c] \/ c \in raced
<1>1. TargetInv => Fresh
  <2> SUFFICES ASSUME TargetInv, ComputeTau, NEW c, c = active[rt.i]
               PROVE  target'[c].content = session[c] \/ c \in raced
    OBVIOUS
  <2>1. c \in Controllets
    BY DEF ComputeTau, TargetInv, TypeOK, RtType
  <2>2. target'[c] = Updated(target[c])
    BY <2>1 DEF ComputeTau, TargetInv, TypeOK
  <2>3. target'[c].content = Effective(target[c])
    BY <2>2 DEF Effective
  <2> QED BY <2>1, <2>3 DEF TargetInv, Current
<1>2. TargetInv /\ [Next]_vars => [Fresh]_vars
  BY <1>1
<1> QED BY <1>2, TargetInit, TargetStep, PTL DEF Spec, NoStaleTarget
=============================================================================
