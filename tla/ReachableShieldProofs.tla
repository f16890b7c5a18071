----------------------- MODULE ReachableShieldProofs -----------------------
(***************************************************************************)
(* What the shield guarantees for every path, prefix, horizon and brake:   *)
(* the types; commands come from plans that were accepted in this          *)
(* activation; the worker does not sleep on a published input; a refusal   *)
(* holds until a new plan; a brake follows the prefix it was verified for. *)
(***************************************************************************)
EXTENDS ReachableShield, TLAPS

\* p is a record with the fields of VerifiedPlan.
IsPlan(p) ==
  p = [intended |-> p.intended, failsafe |-> p.failsafe, ie |-> p.ie,
       fe |-> p.fe, epoch |-> p.epoch, refused |-> p.refused]

\* A plan of this activation that was not refused.
Good(p) == IsPlan(p) /\ (Valid(p) => p.epoch = epoch /\ ~p.refused)

\* What the update thread holds.
HeldGood ==
  /\ Good(plan)
  /\ cmd.kind \in {"intended", "failsafe"} => Valid(plan)

\* What is on its way between the threads.
InFlight ==
  /\ pending => input.epoch = epoch
  /\ Good(output.plan)
  /\ worker = [pc |-> worker.pc, rest |-> worker.rest,
               input |-> worker.input, answer |-> worker.answer]
  /\ worker.pc = "compute" => worker.input.epoch = epoch
  /\ worker.pc = "store" => Good(worker.answer.plan)

\* Without its flag and the join a thread of an earlier activation would go on.
NoWorkerLeft == pc = "inactive" \/ ~param.async => worker.pc = "off"

RunningOK == /\ running \in BOOLEAN
             /\ running => pc \notin {"inactive", "notify", "join"}
             /\ pc = "inactive" \/ ~param.async => ~running
             /\ ~running /\ worker.pc # "off" => pc \in {"notify", "join"}

ShieldInv == HeldGood /\ InFlight /\ NoWorkerLeft /\ RunningOK
             /\ param.async \in BOOLEAN /\ NoSleepOnWork

LEMMA CandidateGood ==
  ASSUME NEW s, NEW trigger \in BOOLEAN, Accepted(trigger)
  PROVE  Good(Candidate(s, trigger, epoch))
  BY DEF Good, IsPlan, Candidate, Accepted, Valid

LEMMA NoPlanGood == Good(NoPlan) /\ ~Valid(NoPlan)
  BY DEF Good, IsPlan, Valid, NoPlan

\* Whatever is executed, a command from a plan comes from a good one.
LEMMA ExecuteGood ==
  ASSUME NEW p, NEW braking, Good(p), Execute(p, braking), UNCHANGED epoch
  PROVE  HeldGood'
<1>1. CASE ~Valid(p)
  <2>1. plan' = p /\ cmd'.kind = "emergency"
    BY <1>1 DEF Execute, EmergencyCommand
  <2> QED BY <2>1 DEF HeldGood, Good, IsPlan, Valid
<1>2. CASE Valid(p)
  <2>1. \/ plan' = [p EXCEPT !.fe = Smaller(@ + 1, Len(p.failsafe))]
        \/ plan' = [p EXCEPT !.ie = Smaller(@ + 1, Len(p.intended))]
    BY <1>2 DEF Execute, AfterFailsafe, AfterIntended
  <2>2. IsPlan(plan') /\ plan'.intended = p.intended
        /\ plan'.epoch = p.epoch /\ plan'.refused = p.refused
    BY <2>1 DEF Good, IsPlan
  <2> QED BY <1>2, <2>2 DEF HeldGood, Good, IsPlan, Valid
<1> QED BY <1>1, <1>2

LEMMA ComputeGood ==
  ASSUME HeldGood, ComputeShieldDecision, UNCHANGED epoch
  PROVE  HeldGood'
<1> DEFINE Bs == Refilled(buffer, Larger(clock, pathTime), cmd.pos)
<1>1. PICK b \in Bs, trigger \in BOOLEAN :
        \/ Execute(plan, TRUE)
        \/ /\ Accepted(trigger)
           /\ Execute(Candidate(Segment(b), trigger, epoch), FALSE)
  <2> HIDE DEF Bs
  <2>1. PICK b \in Bs, trigger \in BOOLEAN :
          IF b = <<>> THEN Execute(plan, TRUE)
          ELSE IF Accepted(trigger)
               THEN Execute(Candidate(Segment(b), trigger, epoch), FALSE)
               ELSE Execute(plan, TRUE)
    BY DEF ComputeShieldDecision, Bs, Verdicts
  <2> QED BY <2>1
<1>2. CASE Execute(plan, TRUE)
  BY <1>2, ExecuteGood DEF HeldGood
<1>3. CASE /\ Accepted(trigger)
           /\ Execute(Candidate(Segment(b), trigger, epoch), FALSE)
  BY <1>3, ExecuteGood, CandidateGood
<1> QED BY <1>1, <1>2, <1>3

LEMMA InitShield == Init => ShieldInv
<1> SUFFICES ASSUME Init PROVE ShieldInv
  OBVIOUS
<1>1. HeldGood
  BY NoPlanGood DEF Init, HeldGood, StartCommand
<1>2. InFlight
  BY NoPlanGood DEF Init, InFlight, NoOutput, NoWorker
<1>3. NoWorkerLeft /\ NoSleepOnWork
  BY DEF Init, NoWorkerLeft, NoSleepOnWork, NoWorker
<1>4. RunningOK
  <2>1. running = FALSE /\ running \in BOOLEAN
    BY Zenon DEF Init
  <2> QED BY <2>1 DEF Init, RunningOK, NoWorker
<1> QED BY <1>1, <1>2, <1>3, <1>4 DEF Init, ShieldInv

LEMMA LifecycleShield ==
  ASSUME ShieldInv, Activate \/ Deactivate \/ NotifyStop \/ Join
  PROVE  ShieldInv'
<1> USE DEF ShieldInv
<1>1. CASE Activate
  <2>1. /\ plan' = NoPlan /\ cmd' = StartCommand /\ output' = NoOutput
        /\ pending' = FALSE /\ running' = param.async /\ pc' = "idle"
        /\ param' = param /\ pc = "inactive"
        /\ worker' = IF param.async THEN [NoWorker EXCEPT !.pc = "check"]
                     ELSE worker
    BY <1>1 DEF Activate, StartWorker
  <2>2. IsPlan(NoPlan)' /\ ~Valid(NoPlan)
    BY NoPlanGood DEF IsPlan, NoPlan, Valid
  <2>3. HeldGood'
    BY <2>1, <2>2 DEF HeldGood, Good, IsPlan, Valid, StartCommand, NoPlan
  <2>4. output'.plan = NoPlan /\ Good(NoPlan)'
    BY <2>1, <2>2 DEF NoOutput, Good, IsPlan, Valid, NoPlan
  <2>5. CASE param.async
    BY <1>1, <2>1, <2>3, <2>4, <2>5
       DEF InFlight, NoWorkerLeft, RunningOK, NoSleepOnWork, NoWorker
  <2>6. CASE ~param.async
    BY <1>1, <2>1, <2>3, <2>4, <2>6
       DEF InFlight, NoWorkerLeft, RunningOK, NoSleepOnWork
  <2> QED BY <2>5, <2>6
<1>2. CASE Deactivate
  BY <1>2 DEF Deactivate, HeldGood, InFlight, Good, IsPlan, Valid, NoWorkerLeft,
              RunningOK, NoSleepOnWork, rtVars
<1>3. CASE NotifyStop
  BY <1>3 DEF NotifyStop, Woken, HeldGood, InFlight, Good, IsPlan, Valid,
              NoWorkerLeft, RunningOK, NoSleepOnWork, rtVars, sharedVars
<1>4. CASE Join
  BY <1>4 DEF Join, HeldGood, InFlight, Good, IsPlan, Valid, NoWorkerLeft,
              RunningOK, NoSleepOnWork, rtVars, sharedVars
<1> QED BY <1>1, <1>2, <1>3, <1>4

\* The steps of the update that command, and leave the worker alone.
LEMMA CommandShield ==
  ASSUME ShieldInv, UpdateSync \/ DecideFresh \/ Bootstrap \/ DecideStale
  PROVE  ShieldInv'
<1>1. HeldGood'
  <2>1. UNCHANGED epoch
    BY DEF UpdateSync, DecideFresh, Bootstrap, DecideStale
  <2>2. ASSUME NEW braking, Execute(plan, braking) PROVE HeldGood'
    BY <2>1, <2>2, ExecuteGood DEF ShieldInv, HeldGood
  <2>3. CASE ComputeShieldDecision
    BY <2>1, <2>3, ComputeGood DEF ShieldInv
  <2> QED BY <2>2, <2>3 DEF UpdateSync, RepeatDecision, DecideFresh, Bootstrap,
                            DecideStale
<1>2. /\ UNCHANGED <<param, epoch, running, pending, input, output, worker>>
      /\ pc' \in {"idle", pc} /\ pc \in {"idle", "decide"}
  BY DEF UpdateSync, DecideFresh, Bootstrap, DecideStale, sharedVars
<1> QED BY <1>1, <1>2 DEF ShieldInv, InFlight, Good, IsPlan, Valid,
                          NoWorkerLeft, RunningOK, NoSleepOnWork

LEMMA ExchangeShield ==
  ASSUME ShieldInv, Publish \/ Take
  PROVE  ShieldInv'
<1> USE DEF ShieldInv
<1>1. CASE Publish
  <2>1. /\ UNCHANGED <<param, epoch, plan, cmd, running, output>>
        /\ pc = "idle" /\ pc' = "take" /\ param.async
    BY <1>1 DEF Publish, rtVars
  <2>2. \/ UNCHANGED <<pending, input, worker>>
        \/ /\ worker.pc # "doze" /\ worker' = Woken(worker)
           /\ input'.epoch = epoch
    BY <1>1 DEF Publish
  <2>3. CASE UNCHANGED <<pending, input, worker>>
    BY <2>1, <2>3 DEF HeldGood, InFlight, Good, IsPlan, Valid,
                      NoWorkerLeft, RunningOK, NoSleepOnWork
  <2>4. CASE /\ worker.pc # "doze" /\ worker' = Woken(worker)
             /\ input'.epoch = epoch
    <3>1. /\ worker'.pc = IF worker.pc = "asleep" THEN "check" ELSE worker.pc
          /\ worker'.input = worker.input /\ worker'.answer = worker.answer
          /\ worker' = [pc |-> worker'.pc, rest |-> worker'.rest,
                        input |-> worker'.input, answer |-> worker'.answer]
      BY <2>4 DEF Woken, InFlight
    <3>2. HeldGood'
      BY <2>1 DEF HeldGood, Good, IsPlan, Valid
    <3>3. InFlight'
      BY <2>1, <2>4, <3>1 DEF InFlight, Good, IsPlan, Valid
    <3> QED BY <2>1, <2>4, <3>1, <3>2, <3>3
            DEF NoWorkerLeft, RunningOK, NoSleepOnWork
  <2> QED BY <2>2, <2>3, <2>4
<1>2. CASE Take
  <2>1. /\ UNCHANGED <<param, epoch, cmd, running, pending, input, output, worker>>
        /\ pc = "take" /\ pc' = "decide"
    BY <1>2 DEF Take, sharedVars
  <2>2. plan' = plan \/ (plan' = output.plan /\ Valid(output.plan))
    BY <1>2 DEF Take
  <2>3. HeldGood'
    BY <2>1, <2>2 DEF HeldGood, InFlight, Good, IsPlan, Valid
  <2> QED BY <2>1, <2>3 DEF InFlight, Good, IsPlan, Valid, NoWorkerLeft,
                            RunningOK, NoSleepOnWork
<1> QED BY <1>1, <1>2

LEMMA WorkerShield ==
  ASSUME ShieldInv,
         WorkerCheck \/ WorkerSleep \/ SpuriousWakeup \/ WorkerCompute \/ WorkerStore
  PROVE  ShieldInv'
<1> USE DEF ShieldInv
<1>1. UNCHANGED <<param, pc, epoch, plan, cmd, running>>
  BY DEF WorkerCheck, WorkerSleep, SpuriousWakeup, WorkerCompute, WorkerStore,
         rtVars, sharedVars
<1>2. HeldGood'
  BY <1>1 DEF HeldGood, Good, IsPlan, Valid
<1>3. CASE WorkerCheck
  <2>1. UNCHANGED output
    BY <1>3 DEF WorkerCheck
  <2>2. CASE ~running /\ worker' = NoWorker /\ UNCHANGED <<pending, input>>
    BY <1>1, <1>2, <2>1, <2>2
       DEF InFlight, Good, IsPlan, Valid, NoWorker, NoWorkerLeft, RunningOK,
           NoSleepOnWork
  <2>3. CASE /\ running /\ pending /\ pending' = FALSE
             /\ worker' = [worker EXCEPT !.pc = "compute", !.input = input]
    <3>1. /\ worker'.pc = "compute" /\ worker'.input = input
          /\ worker' = [pc |-> worker'.pc, rest |-> worker'.rest,
                        input |-> worker'.input, answer |-> worker'.answer]
      BY <2>3 DEF InFlight
    <3> QED BY <1>1, <1>2, <2>1, <2>3, <3>1
            DEF InFlight, Good, IsPlan, Valid, NoWorkerLeft, RunningOK,
                NoSleepOnWork
  <2>4. CASE /\ running /\ ~pending /\ UNCHANGED <<pending, input>>
             /\ worker' = [worker EXCEPT !.pc = "doze"]
    <3>1. /\ worker'.pc = "doze"
          /\ worker' = [pc |-> worker'.pc, rest |-> worker'.rest,
                        input |-> worker'.input, answer |-> worker'.answer]
      BY <2>4 DEF InFlight
    <3> QED BY <1>1, <1>2, <2>1, <2>4, <3>1
            DEF InFlight, Good, IsPlan, Valid, NoWorkerLeft, RunningOK,
                NoSleepOnWork
  <2> QED BY <1>3, <2>2, <2>3, <2>4 DEF WorkerCheck
<1>4. CASE WorkerSleep
  BY <1>1, <1>2, <1>4 DEF WorkerSleep, sharedVars, InFlight, Good, IsPlan, Valid,
                          NoWorkerLeft, RunningOK, NoSleepOnWork
<1>5. CASE SpuriousWakeup
  BY <1>1, <1>2, <1>5 DEF SpuriousWakeup, Woken, sharedVars, InFlight, Good, IsPlan,
                          Valid, NoWorkerLeft, RunningOK, NoSleepOnWork
<1>6. CASE WorkerCompute
  <2>1. /\ UNCHANGED <<pending, input, output>>
        /\ worker.pc = "compute"
    BY <1>6 DEF WorkerCompute, sharedVars
  <2>2. PICK rest, answer :
          /\ worker' = [worker EXCEPT !.pc = "store", !.rest = rest,
                                      !.answer = answer]
          /\ Good(answer.plan)
    <3> DEFINE Bs == Refilled(worker.rest, Larger(worker.input.clock, pathTime),
                              worker.input.pos)
    <3>1. PICK b \in Bs, trigger \in BOOLEAN :
            IF b = <<>>
            THEN worker' = [worker EXCEPT
                              !.pc = "store", !.rest = <<>>,
                              !.answer = [NoOutput EXCEPT
                                            !.seq = worker.input.seq,
                                            !.failsafe = TRUE]]
            ELSE worker' =
                   [worker EXCEPT
                      !.pc = "store",
                      !.rest = IF Accepted(trigger) THEN Remainder(b) ELSE b,
                      !.answer = [seq      |-> worker.input.seq,
                                  failsafe |-> ~Accepted(trigger),
                                  trigger  |-> trigger,
                                  accepted |-> Accepted(trigger),
                                  plan     |-> IF Accepted(trigger)
                                               THEN Candidate(Segment(b), trigger,
                                                              worker.input.epoch)
                                               ELSE NoPlan]]
      BY <1>6, Zenon DEF WorkerCompute, Verdicts
    <3>2. CASE b = <<>>
      <4> DEFINE answer == [NoOutput EXCEPT !.seq = worker.input.seq,
                                            !.failsafe = TRUE]
      <4>1. answer.plan = NoPlan
        BY DEF NoOutput
      <4>2. Good(answer.plan)
        BY <4>1, NoPlanGood
      <4>3. worker' = [worker EXCEPT !.pc = "store", !.rest = <<>>,
                                     !.answer = answer]
        BY <3>1, <3>2
      <4> QED BY <4>2, <4>3
    <3>3. CASE b # <<>>
      <4> DEFINE thePlan == IF Accepted(trigger)
                            THEN Candidate(Segment(b), trigger, worker.input.epoch)
                            ELSE NoPlan
                 answer == [seq      |-> worker.input.seq,
                            failsafe |-> ~Accepted(trigger),
                            trigger  |-> trigger,
                            accepted |-> Accepted(trigger),
                            plan     |-> thePlan]
      <4>1. Good(thePlan)
        BY <2>1, NoPlanGood, CandidateGood DEF InFlight
      <4>2. answer.plan = thePlan
        OBVIOUS
      <4>3. worker' = [worker EXCEPT
                         !.pc = "store",
                         !.rest = IF Accepted(trigger) THEN Remainder(b) ELSE b,
                         !.answer = answer]
        BY <3>1, <3>3
      <4> HIDE DEF answer
      <4> QED BY <4>1, <4>2, <4>3
    <3> QED BY <3>2, <3>3
  <2>3. /\ worker'.pc = "store" /\ worker'.answer = answer
        /\ worker' = [pc |-> worker'.pc, rest |-> worker'.rest,
                      input |-> worker'.input, answer |-> worker'.answer]
    BY <2>2 DEF InFlight
  <2> QED BY <1>1, <1>2, <2>1, <2>2, <2>3
          DEF InFlight, Good, IsPlan, Valid, NoWorkerLeft, RunningOK, NoSleepOnWork
<1>7. CASE WorkerStore
  <2>1. /\ output' = worker.answer /\ worker.pc = "store"
        /\ UNCHANGED <<pending, input>>
        /\ worker' = [worker EXCEPT !.pc = "check", !.input = NoInput,
                                    !.answer = NoOutput]
    BY <1>7 DEF WorkerStore
  <2>2. /\ worker'.pc = "check"
        /\ worker' = [pc |-> worker'.pc, rest |-> worker'.rest,
                      input |-> worker'.input, answer |-> worker'.answer]
    BY <2>1 DEF InFlight
  <2> QED BY <1>1, <1>2, <2>1, <2>2
          DEF InFlight, Good, IsPlan, Valid, NoWorkerLeft, RunningOK, NoSleepOnWork
<1> QED BY <1>3, <1>4, <1>5, <1>6, <1>7

LEMMA StepShield == ShieldInv /\ [Next]_vars => ShieldInv'
<1> SUFFICES ASSUME ShieldInv, [Next]_vars PROVE ShieldInv'
  OBVIOUS
<1>1. CASE UNCHANGED vars
  BY <1>1 DEF vars, rtVars, asyncVars, sharedVars, ShieldInv, HeldGood, InFlight,
              Good, IsPlan, Valid, NoWorkerLeft, RunningOK, NoSleepOnWork
<1> QED BY <1>1, LifecycleShield, CommandShield, ExchangeShield, WorkerShield
        DEF Next

\* No command comes from a plan that was refused, or that the worker verified
\* in an earlier activation.
THEOREM VerifiedSafe == Spec => []OnlyVerified
<1>1. ShieldInv => OnlyVerified
  BY DEF ShieldInv, HeldGood, Good, OnlyVerified
<1> QED BY <1>1, InitShield, StepShield, PTL DEF Spec

\* An input that publishAsyncMonitorInput stored is seen: the worker that
\* found none is either still to fall asleep with the mutex, and the input
\* was not stored, or is woken.
THEOREM WorkIsSeen == Spec => []NoSleepOnWork
<1>1. ShieldInv => NoSleepOnWork
  BY DEF ShieldInv
<1> QED BY <1>1, InitShield, StepShield, PTL DEF Spec

-----------------------------------------------------------------------------
(***************************************************************************)
(* The types of the samples, the buffers and the plans.                    *)
(***************************************************************************)
LEMMA LargerType == ASSUME NEW p \in Positions, NEW q \in Positions
                    PROVE  Larger(p, q) \in Positions
  BY DEF Larger

LEMMA NearestType ==
  ASSUME NEW minimum \in Positions, NEW from \in Positions
  PROVE  NearestPathTime(minimum, from) \in Positions
  BY PathEndAssumption, LookaheadAssumption DEF NearestPathTime, Smaller, Larger, Positions

LEMMA RetimingType ==
  ASSUME NEW start \in Positions, NEW n \in Nat, NEW t \in Retimings(start, n)
  PROVE  t \in [1 .. n -> Positions]
<1>1. PICK wait \in 0 .. n :
        t = [i \in 1 .. n |-> Smaller(start + Larger(i - wait, 0), PathEnd)]
  BY DEF Retimings
<1>2. \A i \in 1 .. n : Smaller(start + Larger(i - wait, 0), PathEnd) \in Positions
  BY PathEndAssumption DEF Smaller, Larger, Positions
<1> QED BY <1>1, <1>2

LEMMA BufferType ==
  ASSUME NEW start \in Positions, NEW n \in Nat \ {0}, NEW t \in Buffers(start, n)
  PROVE  \E m \in 1 .. n : /\ t \in [1 .. m -> Positions]
                           /\ m = n \/ t[m] = IF m = 1 THEN start ELSE t[m - 1]
<1>1. CASE t \in Retimings(start, n)
  BY <1>1, RetimingType
<1>2. ASSUME NEW m \in 1 .. n - 1, t \in Retimings(start, m),
             t[m] = IF m = 1 THEN start ELSE t[m - 1]
      PROVE  /\ m \in 1 .. n /\ t \in [1 .. m -> Positions]
             /\ t[m] = IF m = 1 THEN start ELSE t[m - 1]
  BY <1>2, RetimingType
<1> QED BY <1>1, <1>2 DEF Buffers

LEMMA SamplesType ==
  ASSUME NEW m \in Nat \ {0}, NEW t \in [1 .. m -> Positions], NEW from \in Positions
  PROVE  /\ Samples(t, from) \in Seq(Sample) /\ Len(Samples(t, from)) = m
         /\ Samples(t, from)[m].moving <=> t[m] # IF m = 1 THEN from ELSE t[m - 1]
<1>1. Samples(t, from) = [i \in 1 .. m |->
        [pos |-> t[i], moving |-> t[i] # (IF i = 1 THEN from ELSE t[i - 1])]]
  BY DEF Samples
<1>2. \A i \in 1 .. m :
        [pos |-> t[i], moving |-> t[i] # (IF i = 1 THEN from ELSE t[i - 1])] \in Sample
  BY DEF Sample
<1> HIDE DEF Sample
<1> DEFINE g == Samples(t, from)
<1>3. g \in [1 .. m -> Sample]
  BY <1>1, <1>2
<1>4. g[m].moving <=> t[m] # IF m = 1 THEN from ELSE t[m - 1]
  <2> DEFINE moves == t[m] # IF m = 1 THEN from ELSE t[m - 1]
  <2>1. m \in 1 .. m
    OBVIOUS
  <2>2. g[m] = [pos |-> t[m], moving |-> moves]
    BY <1>1, <2>1, Zenon
  <2> HIDE DEF moves, g
  <2>3. g[m].moving = moves
    BY <2>2
  <2> QED BY <2>3 DEF moves
<1> HIDE DEF g
<1>5. g \in Seq(Sample) /\ Len(g) = m
  BY <1>3
<1> QED BY <1>4, <1>5 DEF g

LEMMA ReplansType ==
  ASSUME NEW minimum \in Positions, NEW from \in Positions, NEW b \in Replans(minimum, from)
  PROVE  b \in Seq(Sample)
<1>1. CASE b = <<>>
  BY <1>1
<1>2. ASSUME b # <<>> PROVE b \in Seq(Sample)
  <2> DEFINE start == NearestPathTime(minimum, from)
  <2>1. PICK n \in {Steps, Horizon} : \E t \in Buffers(start, n) : b = Samples(t, from)
    BY <1>2 DEF Replans
  <2>2. PICK t \in Buffers(start, n) : b = Samples(t, from)
    BY <2>1
  <2>3. start \in Positions /\ n \in Nat \ {0}
    BY NearestType, StepsAssumption, HorizonAssumption
  <2> HIDE DEF start
  <2>4. PICK m \in 1 .. n : t \in [1 .. m -> Positions]
    BY <2>2, <2>3, BufferType
  <2> QED BY <2>2, <2>3, <2>4, SamplesType
<1> QED BY <1>1, <1>2

LEMMA RefilledType ==
  ASSUME NEW c \in Seq(Sample), NEW minimum \in Positions, NEW from \in Positions,
         NEW b \in Refilled(c, minimum, from)
  PROVE  b \in Seq(Sample)
  BY ReplansType DEF Refilled

LEMMA BrakeType ==
  ASSUME NEW s \in Sample
  PROVE  Brake(s) \in Seq(Sample) /\ Len(Brake(s)) \in Nat \ {0}
<1>1. CASE ~s.moving
  <2>1. [pos |-> s.pos, moving |-> FALSE] \in Sample
    BY DEF Sample
  <2> QED BY <1>1, <2>1 DEF Brake
<1>2. CASE s.moving
  <2>1. \A i \in 1 .. BrakeSteps :
          [pos |-> Smaller(s.pos + i, PathEnd), moving |-> i # BrakeSteps] \in Sample
    BY PathEndAssumption, BrakeStepsAssumption DEF Sample, Smaller, Positions
  <2> HIDE DEF Sample
  <2>2. Brake(s) \in [1 .. BrakeSteps -> Sample]
    BY <1>2, <2>1 DEF Brake
  <2> QED BY <2>2, BrakeStepsAssumption
<1> QED BY <1>1, <1>2

LEMMA SegmentType ==
  ASSUME NEW b \in Seq(Sample), b # <<>>
  PROVE  /\ Segment(b) \in Seq(Sample) /\ Remainder(b) \in Seq(Sample)
         /\ Len(Segment(b)) = Smaller(Steps, Len(b)) /\ Len(Segment(b)) \in 1 .. Len(b)
         /\ Len(Remainder(b)) = Len(b) - Len(Segment(b))
         /\ \A i \in 1 .. Len(Segment(b)) : Segment(b)[i] = b[i]
         /\ \A i \in 1 .. Len(Remainder(b)) : Remainder(b)[i] = b[Len(Segment(b)) + i]
<1> HIDE DEF Sample
<1>1. Smaller(Steps, Len(b)) \in 1 .. Len(b)
  BY StepsAssumption DEF Smaller
<1> QED BY <1>1 DEF Segment, Remainder

\* Both indices point into their buffer.
Indexed(p) == Valid(p) => /\ p.ie <= Len(p.intended) /\ p.fe <= Len(p.failsafe)

LEMMA CandidateType ==
  ASSUME NEW s \in Seq(Sample), s # <<>>, NEW trigger \in BOOLEAN, NEW e \in Nat,
         param.enabled \in BOOLEAN
  PROVE  Candidate(s, trigger, e) \in Plans /\ Indexed(Candidate(s, trigger, e))
<1>1. s[Len(s)] \in Sample /\ Len(s) \in Nat \ {0}
  OBVIOUS
<1>2. Brake(s[Len(s)]) \in Seq(Sample) /\ Len(Brake(s[Len(s)])) \in Nat \ {0}
  BY <1>1, BrakeType
<1> QED BY <1>1, <1>2 DEF Candidate, Plans, Indexed

LEMMA IntendedType ==
  ASSUME NEW p \in Plans, Indexed(p), Valid(p)
  PROVE  /\ IntendedCommand(p) \in Commands
         /\ AfterIntended(p) \in Plans /\ Indexed(AfterIntended(p))
         /\ AfterIntended(p).intended = p.intended /\ AfterIntended(p).failsafe = p.failsafe
         /\ AfterIntended(p).fe = p.fe
         /\ AfterIntended(p).ie = Smaller(p.ie + 1, Len(p.intended))
<1> HIDE DEF Sample
<1>1. p.ie \in 1 .. Len(p.intended) /\ p.intended \in Seq(Sample) /\ Len(p.intended) \in Nat
  BY DEF Plans, Indexed
<1>2. p.intended[p.ie].pos \in Positions /\ p.intended[p.ie].moving \in BOOLEAN
  <2>1. p.intended[p.ie] \in Sample
    BY <1>1
  <2> QED BY <2>1 DEF Sample
<1>3. IntendedCommand(p) \in Commands
  <2> HIDE DEF Positions
  <2>1. (p.ie = Len(p.intended)) \in BOOLEAN /\ p.ie \in Nat \ {0}
    BY <1>1
  <2> QED BY <1>2, <2>1 DEF IntendedCommand, Commands
<1>4. Smaller(p.ie + 1, Len(p.intended)) \in 1 .. Len(p.intended)
  BY <1>1 DEF Smaller
<1> QED BY <1>1, <1>3, <1>4 DEF AfterIntended, Plans, Indexed, Valid

LEMMA FailsafeType ==
  ASSUME NEW p \in Plans, Indexed(p), Valid(p)
  PROVE  /\ FailsafeCommand(p) \in Commands
         /\ AfterFailsafe(p) \in Plans /\ Indexed(AfterFailsafe(p))
         /\ AfterFailsafe(p).intended = p.intended /\ AfterFailsafe(p).failsafe = p.failsafe
         /\ AfterFailsafe(p).ie = p.ie
         /\ AfterFailsafe(p).fe = Smaller(p.fe + 1, Len(p.failsafe))
<1> HIDE DEF Sample
<1>1. p.fe \in 1 .. Len(p.failsafe) /\ p.failsafe \in Seq(Sample) /\ Len(p.failsafe) \in Nat
  BY DEF Plans, Indexed
<1>2. p.failsafe[p.fe].pos \in Positions /\ p.failsafe[p.fe].moving \in BOOLEAN
  <2>1. p.failsafe[p.fe] \in Sample
    BY <1>1
  <2> QED BY <2>1 DEF Sample
<1>3. FailsafeCommand(p) \in Commands
  <2> HIDE DEF Positions
  <2>1. (p.fe = Len(p.failsafe)) \in BOOLEAN /\ p.fe \in Nat \ {0}
    BY <1>1
  <2> QED BY <1>2, <2>1 DEF FailsafeCommand, Commands
<1>4. Smaller(p.fe + 1, Len(p.failsafe)) \in 1 .. Len(p.failsafe)
  BY <1>1 DEF Smaller
<1> QED BY <1>1, <1>3, <1>4 DEF AfterFailsafe, Plans, Indexed, Valid

\* What one command writes.
CommandTyped ==
  /\ plan \in Plans /\ Indexed(plan) /\ cmd \in Commands
  /\ mode \in {"nominal", "failsafe"} /\ clock \in Positions

LEMMA ExecuteType ==
  ASSUME TypeOK, NEW p \in Plans, Indexed(p), NEW braking \in BOOLEAN, Execute(p, braking)
  PROVE  CommandTyped'
<1>1. plan' \in Plans /\ Indexed(plan') /\ cmd' \in Commands
  <2>1. CASE ~Valid(p)
    <3>1. EmergencyCommand \in Commands
      BY DEF EmergencyCommand, Commands, TypeOK
    <3> QED BY <2>1, <3>1 DEF Execute
  <2>2. CASE Valid(p)
    BY <2>2, IntendedType, FailsafeType DEF Execute
  <2> QED BY <2>1, <2>2
<1>2. clock' \in Positions /\ mode' \in {"nominal", "failsafe"}
  BY PathEndAssumption DEF Execute, TypeOK, Positions, Smaller
<1> QED BY <1>1, <1>2 DEF CommandTyped, Indexed, Valid

LEMMA AnchorType ==
  ASSUME pathTime \in Positions, NEW p \in Plans, Valid(p)
  PROVE  AnchoredPathTime(p) \in Positions
<1>1. p.intended[Len(p.intended)] \in Sample
  BY DEF Plans, Valid
<1>2. p.intended[Len(p.intended)].pos \in Positions
  BY <1>1 DEF Sample
<1> HIDE DEF Positions
<1> QED BY <1>2, LargerType DEF AnchoredPathTime

DecisionTyped ==
  /\ dec \in [valid : BOOLEAN, failsafe : BOOLEAN, trigger : BOOLEAN]
  /\ buffer \in Seq(Sample) /\ pathTime \in Positions

\* The monitor: a buffer is refilled, and then refused or executed.
LEMMA ComputeSplit ==
  ASSUME TypeOK, ComputeShieldDecision
  PROVE  \E b \in Refilled(buffer, Larger(clock, pathTime), cmd.pos) :
           \/ /\ buffer' = b /\ UNCHANGED pathTime /\ Execute(plan, TRUE)
              /\ dec'.failsafe /\ dec'.valid
              /\ dec' \in [valid : BOOLEAN, failsafe : BOOLEAN, trigger : BOOLEAN]
           \/ /\ b # <<>> /\ buffer' = Remainder(b)
              /\ \E trigger \in BOOLEAN :
                   LET c == Candidate(Segment(b), trigger, epoch) IN
                   /\ Execute(c, FALSE) /\ pathTime' = AnchoredPathTime(c)
                   /\ dec' = [valid |-> TRUE, failsafe |-> FALSE, trigger |-> trigger]
<1> DEFINE Bs == Refilled(buffer, Larger(clock, pathTime), cmd.pos)
<1> HIDE DEF Bs
<1>1. PICK b \in Bs, trigger \in BOOLEAN :
        IF b = <<>>
        THEN /\ buffer' = <<>> /\ UNCHANGED pathTime /\ Execute(plan, TRUE)
             /\ dec' = [valid |-> TRUE, failsafe |-> TRUE, trigger |-> FALSE]
        ELSE IF Accepted(trigger)
        THEN LET c == Candidate(Segment(b), trigger, epoch) IN
             /\ buffer' = Remainder(b) /\ Execute(c, FALSE)
             /\ pathTime' = AnchoredPathTime(c)
             /\ dec' = [valid |-> TRUE, failsafe |-> FALSE, trigger |-> trigger]
        ELSE /\ buffer' = b /\ UNCHANGED pathTime /\ Execute(plan, TRUE)
             /\ dec' = [valid |-> TRUE, failsafe |-> TRUE, trigger |-> trigger]
  BY Zenon DEF ComputeShieldDecision, Bs, Verdicts
<1>2. ASSUME NEW t \in BOOLEAN, dec' = [valid |-> TRUE, failsafe |-> TRUE, trigger |-> t]
      PROVE  /\ dec'.failsafe /\ dec'.valid
             /\ dec' \in [valid : BOOLEAN, failsafe : BOOLEAN, trigger : BOOLEAN]
  BY <1>2
<1>3. CASE b # <<>> /\ Accepted(trigger)
  BY <1>1, <1>3 DEF Bs
<1>4. CASE b = <<>> \/ ~Accepted(trigger)
  <2>1. buffer' = b /\ UNCHANGED pathTime /\ Execute(plan, TRUE)
    BY <1>1, <1>4, Zenon
  <2>2. \E t \in BOOLEAN : dec' = [valid |-> TRUE, failsafe |-> TRUE, trigger |-> t]
    <3>1. FALSE \in BOOLEAN
      OBVIOUS
    <3> QED BY <1>1, <1>4, <3>1, Zenon
  <2>3. /\ dec'.failsafe /\ dec'.valid
        /\ dec' \in [valid : BOOLEAN, failsafe : BOOLEAN, trigger : BOOLEAN]
    BY <1>2, <2>2, Zenon
  <2> QED BY <2>1, <2>3, Zenon DEF Bs
<1> QED BY <1>3, <1>4, Zenon

LEMMA ComputeType ==
  ASSUME TypeOK, Indexed(plan), ComputeShieldDecision
  PROVE  CommandTyped' /\ DecisionTyped'
<1>1. cmd.pos \in Positions /\ Larger(clock, pathTime) \in Positions /\ buffer \in Seq(Sample)
  BY LargerType DEF TypeOK, Commands
<1>2. PICK b \in Refilled(buffer, Larger(clock, pathTime), cmd.pos) :
           \/ /\ buffer' = b /\ UNCHANGED pathTime /\ Execute(plan, TRUE)
              /\ dec'.failsafe /\ dec'.valid
              /\ dec' \in [valid : BOOLEAN, failsafe : BOOLEAN, trigger : BOOLEAN]
           \/ /\ b # <<>> /\ buffer' = Remainder(b)
              /\ \E trigger \in BOOLEAN :
                   LET c == Candidate(Segment(b), trigger, epoch) IN
                   /\ Execute(c, FALSE) /\ pathTime' = AnchoredPathTime(c)
                   /\ dec' = [valid |-> TRUE, failsafe |-> FALSE, trigger |-> trigger]
  BY ComputeSplit
<1>3. b \in Seq(Sample)
  <2> HIDE DEF Positions, Sample
  <2> QED BY <1>1, RefilledType
<1>4. CASE /\ buffer' = b /\ UNCHANGED pathTime /\ Execute(plan, TRUE)
           /\ dec' \in [valid : BOOLEAN, failsafe : BOOLEAN, trigger : BOOLEAN]
  <2>1. CommandTyped'
    BY <1>4, ExecuteType DEF TypeOK
  <2> QED BY <1>3, <1>4, <2>1 DEF DecisionTyped, TypeOK
<1>5. ASSUME b # <<>>, buffer' = Remainder(b), NEW trigger \in BOOLEAN,
             Execute(Candidate(Segment(b), trigger, epoch), FALSE),
             pathTime' = AnchoredPathTime(Candidate(Segment(b), trigger, epoch)),
             dec' = [valid |-> TRUE, failsafe |-> FALSE, trigger |-> trigger]
      PROVE  CommandTyped' /\ DecisionTyped'
  <2> DEFINE c == Candidate(Segment(b), trigger, epoch)
  <2>1. Segment(b) \in Seq(Sample) /\ Segment(b) # <<>> /\ Remainder(b) \in Seq(Sample)
    <3> HIDE DEF Sample
    <3>1. Segment(b) \in Seq(Sample) /\ Remainder(b) \in Seq(Sample)
          /\ Len(Segment(b)) \in 1 .. Len(b)
      BY <1>3, <1>5, SegmentType
    <3> QED BY <3>1
  <2>2. c \in Plans /\ Indexed(c) /\ Valid(c)
    <3>1. c \in Plans /\ Indexed(c)
      BY <2>1, CandidateType DEF TypeOK
    <3> QED BY <2>1, <3>1 DEF Candidate, Valid
  <2>3. CommandTyped' /\ pathTime' \in Positions
    <3> HIDE DEF c
    <3>1. Execute(c, FALSE) /\ pathTime' = AnchoredPathTime(c)
      BY <1>5 DEF c
    <3> QED BY <2>2, <3>1, ExecuteType, AnchorType DEF TypeOK
  <2> QED BY <1>5, <2>1, <2>3 DEF DecisionTyped
<1> QED BY <1>2, <1>4, <1>5

-----------------------------------------------------------------------------
(***************************************************************************)
(* Type correctness.                                                       *)
(***************************************************************************)
TypeInv == TypeOK /\ Indexed(plan) /\ Indexed(output.plan) /\ Indexed(worker.answer.plan)

LEMMA NothingTyped ==
  /\ NoPlan \in Plans /\ Indexed(NoPlan) /\ NoInput \in Inputs /\ NoOutput \in Outputs
  /\ NoWorker \in Workers /\ StartCommand \in Commands
  /\ NoOutput.plan = NoPlan /\ NoWorker.answer = NoOutput
<1> HIDE DEF Sample
<1>1. 0 \in Positions
  BY PathEndAssumption DEF Positions
<1>2. FALSE \in BOOLEAN /\ TRUE \in BOOLEAN /\ <<>> \in Seq(Sample)
  OBVIOUS
<1> HIDE DEF Positions
<1>3. NoPlan \in Plans /\ Indexed(NoPlan)
  BY <1>2 DEF NoPlan, Plans, Indexed, Valid
<1>4. NoInput \in Inputs /\ StartCommand \in Commands
  BY <1>1 DEF NoInput, Inputs, StartCommand, Commands
<1> HIDE DEF NoPlan, Plans, Inputs, NoInput
<1>5. NoOutput \in Outputs /\ NoOutput.plan = NoPlan
  BY <1>3 DEF NoOutput, Outputs
<1> HIDE DEF Outputs, NoOutput
<1>6. NoWorker \in Workers /\ NoWorker.answer = NoOutput
  BY <1>2, <1>4, <1>5 DEF NoWorker, Workers
<1> QED BY <1>3, <1>4, <1>5, <1>6

\* The state of the update between two activations, and of an idle worker.
LEMMA ResetTyped ==
  /\ 0 \in Positions /\ 0 \in 0 .. Steps /\ Steps \in 1 .. Steps
  /\ <<>> \in Seq(Sample)
  /\ NoDecision \in [valid : BOOLEAN, failsafe : BOOLEAN, trigger : BOOLEAN]
  BY PathEndAssumption, StepsAssumption DEF Positions, NoDecision

LEMMA InitTypes == Init => TypeInv
<1> SUFFICES ASSUME Init PROVE TypeInv
  OBVIOUS
<1>1. fresh = FALSE /\ running = FALSE /\ pending = FALSE
  BY Zenon DEF Init
<1>2. fresh \in BOOLEAN /\ running \in BOOLEAN /\ pending \in BOOLEAN
  BY <1>1
<1>3. Indexed(plan) /\ Indexed(output.plan) /\ Indexed(worker.answer.plan)
  BY NothingTyped DEF Init
<1> HIDE DEF Positions, Sample, Plans, Inputs, Outputs, Workers, Commands
<1>4. TypeOK
  BY <1>2, NothingTyped, ResetTyped DEF Init, TypeOK
<1> QED BY <1>3, <1>4 DEF TypeInv

LEMMA WokenTyped ==
  ASSUME NEW w \in Workers
  PROVE  Woken(w) \in Workers /\ Woken(w).answer = w.answer /\ Woken(w).pc # "asleep"
<1> HIDE DEF Inputs, Outputs, Sample
<1> QED BY DEF Workers, Woken

LEMMA LifecycleTypes ==
  ASSUME TypeInv, Activate \/ Deactivate \/ NotifyStop \/ Join
  PROVE  TypeInv'
<1> USE DEF TypeInv
<1> HIDE DEF Positions, Sample, Plans, Inputs, Outputs, Workers, Commands
<1>1. CASE Activate
  <2>1. /\ plan' = NoPlan /\ output' = NoOutput /\ input' = NoInput
        /\ worker' \in {worker, [NoWorker EXCEPT !.pc = "check"]}
        /\ pending' = FALSE /\ running' = param.async /\ fresh' = FALSE
    BY <1>1 DEF Activate, StartWorker
  <2>2. [NoWorker EXCEPT !.pc = "check"] \in Workers
        /\ [NoWorker EXCEPT !.pc = "check"].answer = NoOutput
    BY NothingTyped DEF Workers, NoWorker
  <2>3. worker' \in Workers /\ Indexed(worker.answer.plan)'
    BY <2>1, <2>2, NothingTyped DEF TypeOK, Indexed, Valid
  <2>4. Indexed(plan)' /\ Indexed(output.plan)'
    BY <2>1, NothingTyped DEF Indexed, Valid
  <2>5. pending' \in BOOLEAN /\ running' \in BOOLEAN /\ fresh' \in BOOLEAN
    BY <2>1 DEF TypeOK
  <2>6. TypeOK'
    BY <1>1, <2>1, <2>3, <2>5, NothingTyped, ResetTyped DEF Activate, StartWorker, TypeOK
  <2> QED BY <2>3, <2>4, <2>6
<1>2. CASE Deactivate
  <2>1. running' = FALSE /\ running' \in BOOLEAN
    BY <1>2, Zenon DEF Deactivate
  <2>2. TypeOK'
    BY <1>2, <2>1 DEF Deactivate, TypeOK, rtVars, asyncVars
  <2> QED BY <1>2, <2>2 DEF Deactivate, rtVars, Indexed, Valid
<1>3. CASE NotifyStop
  <2>1. worker' \in Workers /\ worker'.answer = worker.answer
    BY <1>3, WokenTyped DEF NotifyStop, TypeOK
  <2>2. TypeOK'
    BY <1>3, <2>1 DEF NotifyStop, TypeOK, rtVars, asyncVars, sharedVars
  <2> QED BY <1>3, <2>1, <2>2 DEF NotifyStop, rtVars, sharedVars, Indexed, Valid
<1>4. CASE Join
  <2>1. TypeOK'
    BY <1>4 DEF Join, TypeOK, rtVars, asyncVars, sharedVars
  <2> QED BY <1>4, <2>1 DEF Join, rtVars, sharedVars, Indexed, Valid
<1> QED BY <1>1, <1>2, <1>3, <1>4

LEMMA CommandTypes ==
  ASSUME TypeInv, UpdateSync \/ DecideFresh \/ Bootstrap \/ DecideStale
  PROVE  TypeInv'
<1> USE DEF TypeInv
<1> HIDE DEF Positions, Sample, Plans, Inputs, Outputs, Workers, Commands
<1>1. UNCHANGED <<param, epoch, due, sequence, consumed, sharedVars, worker>>
      /\ pc' \in {"idle", pc} /\ fresh' \in {fresh, FALSE}
      /\ (counter' = counter \/ CountUpdate)
  BY DEF UpdateSync, DecideFresh, Bootstrap, DecideStale, asyncVars
<1>2. CommandTyped' /\ DecisionTyped'
  <2>1. ASSUME NEW braking \in BOOLEAN, Execute(plan, braking), UNCHANGED <<buffer, pathTime>>,
               dec' = dec \/ dec' = [dec EXCEPT !.failsafe = braking]
        PROVE  CommandTyped' /\ DecisionTyped'
    <3>1. CommandTyped'
      BY <2>1, ExecuteType DEF TypeOK
    <3>2. dec' \in [valid : BOOLEAN, failsafe : BOOLEAN, trigger : BOOLEAN]
      BY <2>1 DEF TypeOK
    <3> QED BY <2>1, <3>1, <3>2 DEF DecisionTyped, TypeOK
  <2>2. CASE RepeatDecision
    <3>1. (mode = "failsafe" \/ dec.failsafe) \in BOOLEAN
      OBVIOUS
    <3> QED BY <2>1, <2>2, <3>1 DEF RepeatDecision
  <2>3. CASE DecideFresh
    <3>1. (dec.failsafe \/ dec.trigger) \in BOOLEAN
      OBVIOUS
    <3> QED BY <2>1, <2>3, <3>1 DEF DecideFresh
  <2>4. CASE DecideStale
    <3>1. (mode = "failsafe" \/ dec.failsafe \/ dec.trigger) \in BOOLEAN
      OBVIOUS
    <3> QED BY <2>1, <2>4, <3>1 DEF DecideStale
  <2>5. CASE ComputeShieldDecision
    BY <2>5, ComputeType
  <2> QED BY <2>2, <2>3, <2>4, <2>5 DEF UpdateSync, Bootstrap
<1>3. counter' \in 0 .. Steps
  BY <1>1, StepsAssumption DEF CountUpdate, TypeOK
<1>4. fresh' \in BOOLEAN
  BY <1>1 DEF TypeOK
<1>5. TypeOK'
  BY <1>1, <1>2, <1>3, <1>4 DEF TypeOK, CommandTyped, DecisionTyped, sharedVars
<1> QED BY <1>1, <1>2, <1>5 DEF CommandTyped, sharedVars, Indexed, Valid

LEMMA ExchangeTypes ==
  ASSUME TypeInv, Publish \/ Take
  PROVE  TypeInv'
<1> USE DEF TypeInv
<1> HIDE DEF Positions, Sample, Plans, Inputs, Outputs, Workers, Commands
<1>1. CASE Publish
  <2>1. worker' \in {worker, Woken(worker)}
        /\ input' \in {input, [seq |-> sequence', epoch |-> epoch, clock |-> clock, pos |-> cmd.pos]}
        /\ sequence' \in {sequence, sequence + 1} /\ due' \in {due + 1, 1}
        /\ (due' = due + 1 => due < Steps)
        /\ (pending' = pending \/ pending' = TRUE)
    <3>1. CASE due < Steps /\ due' = due + 1 /\ UNCHANGED <<sequence, pending, input, worker>>
      BY <3>1
    <3>2. CASE /\ due' = 1 /\ sequence' = sequence + 1
               /\ input' = [seq |-> sequence', epoch |-> epoch, clock |-> clock, pos |-> cmd.pos]
               /\ pending' = TRUE /\ worker' = Woken(worker)
      <4>1. pending' = TRUE
        BY <3>2, Zenon
      <4> QED BY <3>2, <4>1, StepsAssumption DEF TypeOK
    <3>3. CASE /\ due' = 1 /\ sequence' = sequence + 1 /\ UNCHANGED <<input, pending, worker>>
      BY <3>3, StepsAssumption DEF TypeOK
    <3> QED BY <1>1, <3>1, <3>2, <3>3, Zenon DEF Publish
  <2>2. worker' \in Workers /\ worker'.answer = worker.answer
    BY <2>1, WokenTyped DEF TypeOK
  <2>3. sequence' \in Nat /\ due' \in 1 .. Steps
    BY <2>1, StepsAssumption DEF TypeOK
  <2>4. input' \in Inputs
    BY <2>1, <2>3 DEF TypeOK, Inputs, Commands
  <2>5. pending' \in BOOLEAN
    BY <2>1 DEF TypeOK
  <2>6. TypeOK'
    BY <1>1, <2>2, <2>3, <2>4, <2>5 DEF Publish, TypeOK, rtVars
  <2> QED BY <1>1, <2>2, <2>6 DEF Publish, rtVars, Indexed, Valid
<1>2. CASE Take
  <2>1. /\ \/ UNCHANGED <<plan, pathTime>>
           \/ plan' = output.plan /\ Valid(output.plan) /\ pathTime' = AnchoredPathTime(output.plan)
        /\ dec' \in {dec, [valid |-> TRUE, failsafe |-> output.failsafe, trigger |-> output.trigger]}
        /\ consumed' \in {consumed, output.seq} /\ (fresh' = fresh \/ fresh' = TRUE)
        /\ UNCHANGED <<param, epoch, buffer, cmd, mode, clock, counter, due, sequence,
                       sharedVars, worker>>
        /\ pc' = "decide"
    BY <1>2 DEF Take
  <2>2. output \in Outputs /\ output.plan \in Plans /\ output.seq \in Nat
        /\ output.failsafe \in BOOLEAN /\ output.trigger \in BOOLEAN
    BY DEF TypeOK, Outputs
  <2>3. plan' \in Plans /\ Indexed(plan)' /\ pathTime' \in Positions
    BY <2>1, <2>2, AnchorType DEF TypeOK, Indexed, Valid
  <2>4. dec' \in [valid : BOOLEAN, failsafe : BOOLEAN, trigger : BOOLEAN]
    <3>1. [valid |-> TRUE, failsafe |-> output.failsafe, trigger |-> output.trigger]
            \in [valid : BOOLEAN, failsafe : BOOLEAN, trigger : BOOLEAN]
      BY <2>2
    <3> QED BY <2>1, <3>1 DEF TypeOK
  <2>5. fresh' \in BOOLEAN /\ consumed' \in Nat
    BY <2>1, <2>2 DEF TypeOK
  <2>6. TypeOK'
    BY <2>1, <2>3, <2>4, <2>5 DEF TypeOK, sharedVars
  <2> QED BY <2>1, <2>3, <2>6 DEF sharedVars, Indexed, Valid
<1> QED BY <1>1, <1>2

\* A plan as the monitor accepts it: nothing of it is commanded yet, and its brake goes
\* on from its last intended sample to rest.
Fit(p) == Valid(p) => /\ p.ie = 1 /\ p.fe = 1
                      /\ Motion!Stops(p.failsafe, p.intended[Len(p.intended)])

LEMMA BrakeStops ==
  ASSUME NEW s \in Sample
  PROVE  Motion!Stops(Brake(s), s)
<1>1. s.pos \in 0 .. PathEnd /\ PathEnd \in Nat
  BY PathEndAssumption DEF Sample, Positions
<1>2. CASE ~s.moving
  <2>1. Brake(s) = <<[pos |-> s.pos, moving |-> FALSE]>>
    BY <1>2 DEF Brake
  <2>2. Len(Brake(s)) = 1 /\ Brake(s)[1] = [pos |-> s.pos, moving |-> FALSE]
        /\ Brake(s) # <<>>
    BY <2>1
  <2>3. ~Brake(s)[1].moving /\ Brake(s)[1].pos = s.pos
    BY <2>2
  <2> QED BY <1>1, <2>2, <2>3 DEF Motion!Stops
<1>3. CASE s.moving
  <2> DEFINE g == [i \in 1 .. BrakeSteps |-> [pos    |-> Smaller(s.pos + i, PathEnd),
                                              moving |-> i # BrakeSteps]]
  <2>1. Brake(s) = g
    BY <1>3 DEF Brake
  <2>2. BrakeSteps \in Nat \ {0} /\ BrakeSteps \in 1 .. BrakeSteps
    BY BrakeStepsAssumption
  <2>3. \A i \in 1 .. BrakeSteps : g[i].pos = Smaller(s.pos + i, PathEnd)
                                  /\ (g[i].moving <=> i # BrakeSteps)
    OBVIOUS
  <2>4. Brake(s) \in Seq(Sample) /\ Len(Brake(s)) \in Nat \ {0}
    BY BrakeType
  <2>5. Len(g) = BrakeSteps /\ g # <<>>
    <3> HIDE DEF Sample
    <3>1. DOMAIN g = 1 .. BrakeSteps
      OBVIOUS
    <3> HIDE DEF g
    <3>2. DOMAIN g = 1 .. Len(g) /\ Len(g) \in Nat \ {0}
      BY <2>1, <2>4
    <3> QED BY <2>2, <3>1, <3>2
  <2> HIDE DEF g
  <2>6. ~g[Len(g)].moving
    BY <2>2, <2>3, <2>5
  <2>7. ASSUME NEW n \in 1 .. Len(g)
        PROVE  g[n].pos - (IF n = 1 THEN s.pos ELSE g[n - 1].pos) \in {0, 1}
    <3>1. CASE n = 1
      <4>1. g[1].pos = Smaller(s.pos + 1, PathEnd)
        BY <2>2, <2>3, <2>5, <3>1
      <4> QED BY <1>1, <3>1, <4>1 DEF Smaller
    <3>2. CASE n # 1
      <4>1. n \in 1 .. BrakeSteps /\ n - 1 \in 1 .. BrakeSteps
        BY <2>2, <2>5, <3>2
      <4>2. g[n].pos = Smaller(s.pos + n, PathEnd)
            /\ g[n - 1].pos = Smaller(s.pos + (n - 1), PathEnd)
        BY <2>3, <4>1
      <4> QED BY <1>1, <2>2, <3>2, <4>1, <4>2 DEF Smaller
    <3> QED BY <3>1, <3>2
  <2> QED BY <2>1, <2>5, <2>6, <2>7 DEF Motion!Stops
<1> QED BY <1>2, <1>3

LEMMA CandidateFit ==
  ASSUME NEW s \in Seq(Sample), s # <<>>, NEW trigger \in BOOLEAN, NEW e
  PROVE  Fit(Candidate(s, trigger, e))
<1>1. s[Len(s)] \in Sample
  OBVIOUS
<1>2. Motion!Stops(Brake(s[Len(s)]), s[Len(s)])
  BY <1>1, BrakeStops
<1> QED BY <1>2 DEF Candidate, Fit

\* An answer that does not ask for the brake brings a plan, from its start.
Answered(o) == o.seq = 0 \/ o.failsafe \/ (o.accepted /\ Valid(o.plan) /\ o.plan.ie = 1)

LEMMA WorkerAnswers ==
  ASSUME TypeInv, WorkerCompute
  PROVE  \E rest \in Seq(Sample), answer \in Outputs :
           /\ worker' = [worker EXCEPT !.pc = "store", !.rest = rest, !.answer = answer]
           /\ Indexed(answer.plan) /\ Answered(answer) /\ Fit(answer.plan)
<1> DEFINE Bs == Refilled(worker.rest, Larger(worker.input.clock, pathTime), worker.input.pos)
<1> HIDE DEF Bs
<1>1. PICK b \in Bs, trigger \in BOOLEAN :
        IF b = <<>>
        THEN worker' = [worker EXCEPT
                          !.pc = "store", !.rest = <<>>,
                          !.answer = [NoOutput EXCEPT !.seq = worker.input.seq,
                                                      !.failsafe = TRUE]]
        ELSE worker' = [worker EXCEPT
                          !.pc = "store",
                          !.rest = IF Accepted(trigger) THEN Remainder(b) ELSE b,
                          !.answer = [seq      |-> worker.input.seq,
                                      failsafe |-> ~Accepted(trigger),
                                      trigger  |-> trigger,
                                      accepted |-> Accepted(trigger),
                                      plan     |-> IF Accepted(trigger)
                                                   THEN Candidate(Segment(b), trigger,
                                                                  worker.input.epoch)
                                                   ELSE NoPlan]]
  BY Zenon DEF WorkerCompute, Verdicts, Bs
<1>2. /\ worker.rest \in Seq(Sample) /\ worker.input.pos \in Positions
      /\ worker.input.clock \in Positions /\ worker.input.seq \in Nat /\ worker.input.epoch \in Nat
      /\ pathTime \in Positions /\ param.enabled \in BOOLEAN
  <2> HIDE DEF Positions, Sample, Outputs
  <2> QED BY DEF TypeInv, TypeOK, Workers, Inputs
<1>3. b \in Seq(Sample)
  <2> HIDE DEF Positions, Sample
  <2> QED BY <1>2, LargerType, RefilledType DEF Bs
<1> HIDE DEF Sample, Positions
<1>4. CASE b = <<>>
  <2> DEFINE answer == [NoOutput EXCEPT !.seq = worker.input.seq, !.failsafe = TRUE]
  <2>1. answer \in Outputs /\ answer.plan = NoPlan /\ answer.failsafe
    <3> HIDE DEF Plans
    <3>1. NoPlan \in Plans
      BY NothingTyped
    <3> QED BY <1>2, <3>1 DEF Outputs, NoOutput
  <2>2. worker' = [worker EXCEPT !.pc = "store", !.rest = <<>>, !.answer = answer]
    BY <1>1, <1>4, Zenon
  <2>3. <<>> \in Seq(Sample)
    OBVIOUS
  <2> HIDE DEF answer
  <2>4. Fit(NoPlan)
    BY DEF Fit, NoPlan, Valid
  <2> QED BY <2>1, <2>2, <2>3, <2>4, NothingTyped DEF Answered
<1>5. CASE b # <<>>
  <2> DEFINE rest    == IF Accepted(trigger) THEN Remainder(b) ELSE b
             thePlan == IF Accepted(trigger)
                        THEN Candidate(Segment(b), trigger, worker.input.epoch) ELSE NoPlan
             answer  == [seq |-> worker.input.seq, failsafe |-> ~Accepted(trigger),
                         trigger |-> trigger, accepted |-> Accepted(trigger), plan |-> thePlan]
  <2>1. Segment(b) \in Seq(Sample) /\ Segment(b) # <<>> /\ Remainder(b) \in Seq(Sample)
    <3>1. Segment(b) \in Seq(Sample) /\ Remainder(b) \in Seq(Sample)
          /\ Len(Segment(b)) \in 1 .. Len(b)
      BY <1>3, <1>5, SegmentType
    <3> QED BY <3>1
  <2>2. rest \in Seq(Sample)
    BY <1>3, <2>1
  <2>3. thePlan \in Plans /\ Indexed(thePlan) /\ Fit(thePlan)
        /\ (Accepted(trigger) => Valid(thePlan) /\ thePlan.ie = 1)
    <3>1. CASE Accepted(trigger)
      <4>1. /\ Candidate(Segment(b), trigger, worker.input.epoch) \in Plans
            /\ Indexed(Candidate(Segment(b), trigger, worker.input.epoch))
        BY <1>2, <2>1, CandidateType
      <4>2. /\ Candidate(Segment(b), trigger, worker.input.epoch).intended = Segment(b)
            /\ Candidate(Segment(b), trigger, worker.input.epoch).ie = 1
        BY DEF Candidate
      <4>3. Fit(Candidate(Segment(b), trigger, worker.input.epoch))
        BY <2>1, CandidateFit
      <4> QED BY <2>1, <3>1, <4>1, <4>2, <4>3 DEF Valid
    <3>2. CASE ~Accepted(trigger)
      <4>1. Fit(NoPlan)
        BY DEF Fit, NoPlan, Valid
      <4> QED BY <3>2, <4>1, NothingTyped
    <3> QED BY <3>1, <3>2
  <2>4. Accepted(trigger) \in BOOLEAN
    BY DEF Accepted
  <2>5. worker' = [worker EXCEPT !.pc = "store", !.rest = rest, !.answer = answer]
    BY <1>1, <1>5, Zenon
  <2> HIDE DEF thePlan, rest, Plans
  <2>6. answer \in Outputs /\ answer.plan = thePlan /\ Answered(answer)
    <3>1. answer \in Outputs /\ answer.plan = thePlan
          /\ answer.accepted = Accepted(trigger) /\ answer.failsafe = ~Accepted(trigger)
      <4> DEFINE yes == Accepted(trigger)
      <4> HIDE DEF yes
      <4>1. yes \in BOOLEAN /\ answer = [seq |-> worker.input.seq, failsafe |-> ~yes,
              trigger |-> trigger, accepted |-> yes, plan |-> thePlan]
        BY <2>4 DEF yes
      <4>2. (~yes) \in BOOLEAN
        BY <4>1
      <4> HIDE DEF answer
      <4>3. answer \in Outputs /\ answer.plan = thePlan /\ answer.accepted = yes
            /\ answer.failsafe = ~yes
        BY <1>2, <2>3, <4>1, <4>2 DEF Outputs
      <4> QED BY <4>3 DEF yes
    <3> HIDE DEF answer
    <3>2. CASE Accepted(trigger)
      BY <2>3, <3>1, <3>2 DEF Answered
    <3>3. CASE ~Accepted(trigger)
      BY <3>1, <3>3 DEF Answered
    <3> QED BY <3>1, <3>2, <3>3
  <2> HIDE DEF answer
  <2> QED BY <2>2, <2>3, <2>5, <2>6
<1> QED BY <1>4, <1>5

LEMMA WorkerTypes ==
  ASSUME TypeInv,
         WorkerCheck \/ WorkerSleep \/ SpuriousWakeup \/ WorkerCompute \/ WorkerStore
  PROVE  TypeInv'
<1> USE DEF TypeInv
<1> HIDE DEF Positions, Sample, Plans, Inputs, Outputs, Workers, Commands
<1>1. UNCHANGED <<param, pc, epoch, rtVars, asyncVars, running>>
  BY DEF WorkerCheck, WorkerSleep, SpuriousWakeup, WorkerCompute, WorkerStore, sharedVars
<1>2. /\ worker.pc \in {"off", "check", "doze", "asleep", "compute", "store"}
      /\ worker.rest \in Seq(Sample) /\ worker.input \in Inputs /\ worker.answer \in Outputs
      /\ worker.answer.plan \in Plans /\ input \in Inputs /\ worker \in Workers
  BY DEF TypeOK, Workers, Outputs
<1>3. /\ worker' \in Workers /\ Indexed(worker'.answer.plan)
      /\ pending' \in BOOLEAN /\ input' \in Inputs
      /\ output' \in Outputs /\ Indexed(output'.plan)
  <2>1. CASE WorkerCheck
    <3>1. /\ worker' \in {NoWorker, [worker EXCEPT !.pc = "compute", !.input = input],
                         [worker EXCEPT !.pc = "doze"]}
          /\ input' \in {input, NoInput} /\ (pending' = pending \/ pending' = FALSE)
          /\ output' = output
      BY <2>1 DEF WorkerCheck
    <3>2. [worker EXCEPT !.pc = "compute", !.input = input] \in Workers
          /\ [worker EXCEPT !.pc = "doze"] \in Workers
      BY <1>2 DEF Workers
    <3>3. worker'.answer \in {worker.answer, NoOutput}
      BY <1>2, <3>1, NothingTyped DEF Workers
    <3>4. Indexed(worker'.answer.plan)
      BY <3>3, NothingTyped
    <3> QED BY <3>1, <3>2, <3>4, NothingTyped DEF TypeOK
  <2>2. CASE WorkerSleep
    <3>1. [worker EXCEPT !.pc = "asleep"] \in Workers
          /\ [worker EXCEPT !.pc = "asleep"].answer = worker.answer
      BY <1>2 DEF Workers
    <3> QED BY <2>2, <3>1 DEF WorkerSleep, TypeOK, sharedVars
  <2>3. CASE SpuriousWakeup
    BY <1>2, <2>3, WokenTyped DEF SpuriousWakeup, TypeOK, sharedVars
  <2>4. CASE WorkerCompute
    <3>1. PICK rest \in Seq(Sample), answer \in Outputs :
            /\ worker' = [worker EXCEPT !.pc = "store", !.rest = rest, !.answer = answer]
            /\ Indexed(answer.plan)
      BY <2>4, WorkerAnswers
    <3>2. worker' \in Workers /\ worker'.answer = answer
      BY <1>2, <3>1 DEF Workers
    <3> QED BY <2>4, <3>1, <3>2 DEF WorkerCompute, TypeOK, sharedVars
  <2>5. CASE WorkerStore
    <3>1. [worker EXCEPT !.pc = "check", !.input = NoInput, !.answer = NoOutput] \in Workers
          /\ [worker EXCEPT !.pc = "check", !.input = NoInput, !.answer = NoOutput].answer = NoOutput
      BY <1>2, NothingTyped DEF Workers
    <3> QED BY <1>2, <2>5, <3>1, NothingTyped DEF WorkerStore, TypeOK
  <2> QED BY <2>1, <2>2, <2>3, <2>4, <2>5
<1>4. TypeOK'
  BY <1>1, <1>3 DEF TypeOK, rtVars, asyncVars
<1> QED BY <1>1, <1>3, <1>4 DEF rtVars, Indexed, Valid

LEMMA StepTypes == TypeInv /\ [Next]_vars => TypeInv'
<1> SUFFICES ASSUME TypeInv, [Next]_vars PROVE TypeInv'
  OBVIOUS
<1>1. CASE UNCHANGED vars
  <2> HIDE DEF Positions, Sample, Plans, Inputs, Outputs, Workers, Commands
  <2> QED BY <1>1 DEF vars, rtVars, asyncVars, sharedVars, TypeInv, TypeOK, Indexed, Valid
<1> QED BY <1>1, LifecycleTypes, CommandTypes, ExchangeTypes, WorkerTypes DEF Next

\* Every buffer, plan and command of the update thread and of the worker keeps its type:
\* no index leaves its buffer and no path time the path, whatever the planner, the
\* monitor and the scheduler do.
THEOREM TypeCorrect == Spec => []TypeOK
<1>1. TypeInv => TypeOK
  BY DEF TypeInv
<1> QED BY <1>1, InitTypes, StepTypes, PTL DEF Spec

-----------------------------------------------------------------------------
(***************************************************************************)
(* A refusal holds.                                                        *)
(***************************************************************************)
\* What the command of an update tells about the plan it is taken from.
LEMMA Commanded ==
  ASSUME NEW p \in Plans, Indexed(p), NEW braking \in BOOLEAN, Execute(p, braking)
  PROVE  /\ ~Valid(p) => cmd'.kind = "emergency" /\ plan' = p
         /\ Valid(p) => cmd'.kind = IF braking THEN "failsafe" ELSE "intended"
         /\ mode' = IF braking THEN "failsafe" ELSE "nominal"
         /\ cmd'.kind = "failsafe" =>
              /\ braking /\ Valid(p)
              /\ cmd'.k = p.fe /\ (cmd'.last <=> p.fe = Len(p.failsafe))
              /\ plan'.failsafe = p.failsafe /\ plan'.intended = p.intended /\ plan'.ie = p.ie
              /\ plan'.fe = Smaller(p.fe + 1, Len(p.failsafe))
         /\ cmd'.kind = "intended" =>
              /\ ~braking /\ Valid(p)
              /\ cmd'.k = p.ie /\ (cmd'.last <=> p.ie = Len(p.intended))
              /\ (cmd'.moving <=> p.intended[p.ie].moving)
              /\ plan'.intended = p.intended /\ plan'.fe = p.fe
              /\ plan'.ie = Smaller(p.ie + 1, Len(p.intended))
<1>1. CASE ~Valid(p)
  <2>1. cmd'.kind = "emergency" /\ plan' = p /\ mode' = IF braking THEN "failsafe" ELSE "nominal"
    BY <1>1 DEF Execute, EmergencyCommand
  <2> QED BY <1>1, <2>1
<1>2. CASE Valid(p) /\ braking
  <2>1. cmd' = FailsafeCommand(p) /\ plan' = AfterFailsafe(p) /\ mode' = "failsafe"
    BY <1>2 DEF Execute
  <2>2. FailsafeCommand(p).kind = "failsafe" /\ FailsafeCommand(p).k = p.fe
        /\ (FailsafeCommand(p).last <=> p.fe = Len(p.failsafe))
    BY DEF FailsafeCommand
  <2> QED BY <1>2, <2>1, <2>2, FailsafeType
<1>3. CASE Valid(p) /\ ~braking
  <2>1. cmd' = IntendedCommand(p) /\ plan' = AfterIntended(p) /\ mode' = "nominal"
    BY <1>3 DEF Execute
  <2>2. IntendedCommand(p).kind = "intended" /\ IntendedCommand(p).k = p.ie
        /\ (IntendedCommand(p).last <=> p.ie = Len(p.intended))
        /\ IntendedCommand(p).moving = p.intended[p.ie].moving
    BY DEF IntendedCommand
  <2> QED BY <1>3, <2>1, <2>2, IntendedType
<1> QED BY <1>1, <1>2, <1>3

\* While the arm brakes the plan is not resumed: the decision says so, unless the plan is
\* a new one.
BrakeHolds ==
  cmd.kind = "failsafe" => /\ mode = "failsafe" /\ Valid(plan)
                           /\ plan.ie = 1 \/ dec.failsafe \/ dec.trigger

AnswersOK == Answered(output) /\ (worker.pc = "store" => Answered(worker.answer))

RefusalInv == TypeInv /\ BrakeHolds /\ AnswersOK

LEMMA InitRefusal == Init => RefusalInv
  BY InitTypes DEF Init, RefusalInv, BrakeHolds, AnswersOK, Answered, StartCommand, NoOutput,
                   NoWorker

\* The monitor, in one of its two outcomes.
LEMMA ComputeCases ==
  ASSUME TypeInv, ComputeShieldDecision
  PROVE  \E b \in Refilled(buffer, Larger(clock, pathTime), cmd.pos) :
           /\ b \in Seq(Sample)
           /\ \/ /\ buffer' = b /\ Execute(plan, TRUE) /\ dec'.failsafe /\ dec'.valid
                 /\ plan \in Plans /\ Indexed(plan)
              \/ /\ b # <<>> /\ buffer' = Remainder(b) /\ ~dec'.failsafe /\ dec'.valid
                 /\ \E c \in Plans :
                      /\ Execute(c, FALSE) /\ Indexed(c) /\ Valid(c)
                      /\ c.intended = Segment(b) /\ c.ie = 1 /\ c.fe = 1
<1> HIDE DEF Sample, Positions
<1>1. /\ cmd.pos \in Positions /\ Larger(clock, pathTime) \in Positions /\ buffer \in Seq(Sample)
      /\ plan \in Plans /\ Indexed(plan) /\ epoch \in Nat /\ param.enabled \in BOOLEAN
  BY LargerType DEF TypeInv, TypeOK, Commands
<1>2. PICK b \in Refilled(buffer, Larger(clock, pathTime), cmd.pos) :
           \/ /\ buffer' = b /\ Execute(plan, TRUE) /\ dec'.failsafe /\ dec'.valid
           \/ /\ b # <<>> /\ buffer' = Remainder(b)
              /\ \E trigger \in BOOLEAN :
                   /\ Execute(Candidate(Segment(b), trigger, epoch), FALSE)
                   /\ dec' = [valid |-> TRUE, failsafe |-> FALSE, trigger |-> trigger]
  BY ComputeSplit DEF TypeInv
<1>3. b \in Seq(Sample)
  BY <1>1, RefilledType
<1>4. ASSUME b # <<>>, buffer' = Remainder(b), NEW trigger \in BOOLEAN,
             Execute(Candidate(Segment(b), trigger, epoch), FALSE),
             dec' = [valid |-> TRUE, failsafe |-> FALSE, trigger |-> trigger]
      PROVE  /\ ~dec'.failsafe /\ dec'.valid
             /\ \E c \in Plans : /\ Execute(c, FALSE) /\ Indexed(c) /\ Valid(c)
                                 /\ c.intended = Segment(b) /\ c.ie = 1 /\ c.fe = 1
  <2> DEFINE c == Candidate(Segment(b), trigger, epoch)
  <2>1. Segment(b) \in Seq(Sample) /\ Segment(b) # <<>>
    <3>1. Segment(b) \in Seq(Sample) /\ Len(Segment(b)) \in 1 .. Len(b)
      BY <1>3, <1>4, SegmentType
    <3> QED BY <3>1
  <2>2. c \in Plans /\ Indexed(c)
    BY <1>1, <2>1, CandidateType
  <2>3. c.intended = Segment(b) /\ c.ie = 1 /\ c.fe = 1 /\ Valid(c)
    BY <2>1 DEF Candidate, Valid
  <2>4. ~dec'.failsafe /\ dec'.valid
    BY <1>4
  <2>5. Execute(c, FALSE)
    BY <1>4
  <2> HIDE DEF c
  <2> QED BY <2>2, <2>3, <2>4, <2>5
<1>5. CASE buffer' = b /\ Execute(plan, TRUE) /\ dec'.failsafe /\ dec'.valid
  BY <1>1, <1>3, <1>5
<1>6. CASE /\ b # <<>> /\ buffer' = Remainder(b)
           /\ \E trigger \in BOOLEAN :
                /\ Execute(Candidate(Segment(b), trigger, epoch), FALSE)
                /\ dec' = [valid |-> TRUE, failsafe |-> FALSE, trigger |-> trigger]
  BY <1>3, <1>4, <1>6
<1> QED BY <1>2, <1>5, <1>6

\* A command that is not the first of its plan does not follow a brake.
Resumes == cmd.kind = "failsafe" /\ cmd'.kind = "intended" /\ cmd'.k # 1

LEMMA CommandRefusal ==
  ASSUME RefusalInv, UpdateSync \/ DecideFresh \/ Bootstrap \/ DecideStale
  PROVE  BrakeHolds' /\ ~Resumes
<1> USE DEF RefusalInv
<1> HIDE DEF Plans, Sample
<1>1. plan \in Plans /\ Indexed(plan) /\ dec \in [valid : BOOLEAN, failsafe : BOOLEAN, trigger : BOOLEAN]
  BY DEF TypeInv, TypeOK
<1>2. ASSUME NEW braking \in BOOLEAN, Execute(plan, braking),
             braking => dec'.failsafe \/ dec'.trigger,
             ~braking => cmd.kind # "failsafe" \/ plan.ie = 1
      PROVE  BrakeHolds' /\ ~Resumes
  BY <1>1, <1>2, Commanded DEF BrakeHolds, Resumes, Valid
<1>3. CASE RepeatDecision
  <2> DEFINE braking == mode = "failsafe" \/ dec.failsafe
  <2>1. braking \in BOOLEAN /\ Execute(plan, braking) /\ dec' = [dec EXCEPT !.failsafe = braking]
    BY <1>3 DEF RepeatDecision
  <2>2. ~braking => cmd.kind # "failsafe"
    BY DEF BrakeHolds
  <2> HIDE DEF braking
  <2>3. dec'.failsafe = braking
    BY <1>1, <2>1
  <2> QED BY <1>2, <2>1, <2>2, <2>3
<1>4. CASE DecideStale
  <2> DEFINE braking == mode = "failsafe" \/ dec.failsafe \/ dec.trigger
  <2>1. braking \in BOOLEAN /\ Execute(plan, braking) /\ dec' = [dec EXCEPT !.failsafe = braking]
    BY <1>4 DEF DecideStale
  <2>2. ~braking => cmd.kind # "failsafe"
    BY DEF BrakeHolds
  <2> HIDE DEF braking
  <2>3. dec'.failsafe = braking
    BY <1>1, <2>1
  <2> QED BY <1>2, <2>1, <2>2, <2>3
<1>5. CASE DecideFresh
  <2> DEFINE braking == dec.failsafe \/ dec.trigger
  <2>1. braking \in BOOLEAN /\ Execute(plan, braking) /\ dec' = dec
    BY <1>5 DEF DecideFresh
  <2>2. ~braking => cmd.kind # "failsafe" \/ plan.ie = 1
    BY DEF BrakeHolds
  <2>3. braking => dec'.failsafe \/ dec'.trigger
    BY <2>1
  <2> HIDE DEF braking
  <2> QED BY <1>2, <2>1, <2>2, <2>3
<1>6. CASE ComputeShieldDecision
  <2>1. CASE Execute(plan, TRUE) /\ dec'.failsafe
    BY <1>2, <2>1
  <2>2. ASSUME NEW c \in Plans, Execute(c, FALSE), Indexed(c), Valid(c), c.ie = 1
        PROVE  BrakeHolds' /\ ~Resumes
    <3>1. cmd'.kind = "intended" /\ cmd'.k = 1
      BY <2>2, Commanded
    <3> QED BY <3>1 DEF BrakeHolds, Resumes
  <2> QED BY <1>6, <2>1, <2>2, ComputeCases
<1> QED BY <1>3, <1>4, <1>5, <1>6 DEF UpdateSync, Bootstrap

LEMMA StepRefusal == RefusalInv /\ [Next]_vars => RefusalInv' /\ ~Resumes
<1> SUFFICES ASSUME RefusalInv, [Next]_vars PROVE RefusalInv' /\ ~Resumes
  OBVIOUS
<1> USE DEF RefusalInv
<1> SUFFICES BrakeHolds' /\ AnswersOK' /\ ~Resumes
  BY StepTypes
<1>2. ASSUME UNCHANGED <<cmd, mode, plan, dec, output>>,
             worker'.pc = "store" => worker.pc = "store" /\ worker'.answer = worker.answer
      PROVE  BrakeHolds' /\ AnswersOK' /\ ~Resumes
  BY <1>2 DEF BrakeHolds, AnswersOK, Answered, Resumes, Valid
<1>3. worker \in Workers
  BY DEF TypeInv, TypeOK
<1>4. CASE Activate
  BY <1>4 DEF Activate, StartWorker, StartCommand, NoOutput, NoWorker, BrakeHolds, AnswersOK,
              Answered, Resumes
<1>5. CASE Deactivate \/ NotifyStop \/ Join
  BY <1>2, <1>3, <1>5, WokenTyped
     DEF Deactivate, NotifyStop, Join, Woken, Workers, rtVars, sharedVars
<1>6. CASE UpdateSync \/ DecideFresh \/ Bootstrap \/ DecideStale
  <2>1. UNCHANGED <<output, worker>>
    BY <1>6 DEF UpdateSync, DecideFresh, Bootstrap, DecideStale, sharedVars
  <2> QED BY <1>6, <2>1, CommandRefusal DEF AnswersOK, Answered, Valid
<1>7. CASE Publish
  <2>1. worker' \in {worker, Woken(worker)} /\ UNCHANGED <<cmd, mode, plan, dec, output>>
    BY <1>7 DEF Publish, rtVars
  <2>2. worker'.pc = "store" => worker.pc = "store" /\ worker'.answer = worker.answer
    BY <1>3, <2>1 DEF Woken, Workers
  <2> QED BY <1>2, <2>1, <2>2
<1>8. CASE Take
  <2>1. /\ UNCHANGED <<cmd, mode, output, worker>>
        /\ \/ UNCHANGED <<plan, dec>>
           \/ /\ output.seq > consumed
              /\ dec' = [valid |-> TRUE, failsafe |-> output.failsafe,
                         trigger |-> output.trigger]
              /\ IF output.accepted /\ Valid(output.plan)
                 THEN plan' = output.plan ELSE plan' = plan
    BY <1>8 DEF Take, sharedVars
  <2>2. output.seq > consumed => output.seq # 0
    BY DEF TypeInv, TypeOK, Outputs
  <2>3. BrakeHolds'
    <3>1. CASE UNCHANGED <<plan, dec>>
      BY <2>1, <3>1 DEF BrakeHolds, Valid
    <3>2. CASE /\ output.seq # 0 /\ dec'.failsafe = output.failsafe
               /\ IF output.accepted /\ Valid(output.plan)
                  THEN plan' = output.plan ELSE plan' = plan
      BY <2>1, <3>2 DEF BrakeHolds, AnswersOK, Answered, Valid
    <3> QED BY <2>1, <2>2, <3>1, <3>2
  <2> QED BY <2>1, <2>3 DEF AnswersOK, Answered, Valid, Resumes
<1>9. CASE WorkerCheck \/ WorkerSleep \/ SpuriousWakeup
  <2>1. UNCHANGED <<cmd, mode, plan, dec, output>> /\ worker'.pc # "store"
    <3>1. UNCHANGED <<cmd, mode, plan, dec, output>>
      BY <1>9 DEF WorkerCheck, WorkerSleep, SpuriousWakeup, rtVars, sharedVars
    <3>2. /\ [worker EXCEPT !.pc = "compute", !.input = input].pc = "compute"
          /\ [worker EXCEPT !.pc = "doze"].pc = "doze"
          /\ [worker EXCEPT !.pc = "asleep"].pc = "asleep"
          /\ [worker EXCEPT !.pc = "check"].pc = "check" /\ NoWorker.pc = "off"
      BY <1>3 DEF Workers, NoWorker
    <3>3. worker'.pc # "store"
      BY <1>9, <3>2 DEF WorkerCheck, WorkerSleep, SpuriousWakeup, Woken
    <3> QED BY <3>1, <3>3
  <2> QED BY <1>2, <2>1
<1>10. CASE WorkerCompute
  <2>1. UNCHANGED <<cmd, mode, plan, dec, output>>
    BY <1>10 DEF WorkerCompute, rtVars, sharedVars
  <2>2. PICK rest \in Seq(Sample), answer \in Outputs :
          /\ worker' = [worker EXCEPT !.pc = "store", !.rest = rest, !.answer = answer]
          /\ Answered(answer)
    BY <1>10, WorkerAnswers
  <2>3. worker'.answer = answer
    BY <1>3, <2>2 DEF Workers
  <2> QED BY <2>1, <2>2, <2>3 DEF BrakeHolds, AnswersOK, Answered, Resumes, Valid
<1>11. CASE WorkerStore
  <2>1. UNCHANGED <<cmd, mode, plan, dec>> /\ worker.pc = "store" /\ output' = worker.answer
        /\ worker' = [worker EXCEPT !.pc = "check", !.input = NoInput, !.answer = NoOutput]
    BY <1>11 DEF WorkerStore, rtVars
  <2>2. worker'.pc = "check"
    BY <1>3, <2>1 DEF Workers
  <2> QED BY <2>1, <2>2 DEF BrakeHolds, AnswersOK, Answered, Resumes, Valid
<1>12. CASE UNCHANGED vars
  BY <1>2, <1>12 DEF vars, rtVars, sharedVars
<1> QED BY <1>4, <1>5, <1>6, <1>7, <1>8, <1>9, <1>10, <1>11, <1>12 DEF Next

\* While the arm brakes, no update and no answer of the worker, in whatever order they
\* come, resumes the plan that was braked.
THEOREM RefusalSafe == Spec => RefusalHolds
<1>1. RefusalInv /\ [Next]_vars =>
        [cmd.kind = "failsafe" /\ cmd'.kind = "intended" => cmd'.k = 1]_vars
  BY StepRefusal DEF Resumes
<1>2. RefusalInv /\ [Next]_vars => RefusalInv'
  BY StepRefusal
<1> QED BY <1>1, <1>2, InitRefusal, PTL DEF Spec, RefusalHolds

-----------------------------------------------------------------------------
(***************************************************************************)
(* What runs is what was verified.                                         *)
(***************************************************************************)
\* A buffer is cut into whole prefixes, or comes to rest, or has one sample.
Whole(n) == \E m \in Nat : n = m * Steps
Ended(b) == b # <<>> => Whole(Len(b)) \/ Len(b) = 1 \/ ~b[Len(b)].moving

LEMMA WholeLess ==
  ASSUME NEW n \in Nat, Whole(n), n > 0
  PROVE  n >= Steps /\ Whole(n - Steps)
<1>1. PICK m \in Nat : n = m * Steps
  BY DEF Whole
<1>2. m # 0
  BY <1>1, StepsAssumption
<1>3. PICK k \in Nat : m = k + 1
  <2>1. m - 1 \in Nat /\ m = (m - 1) + 1
    BY <1>2
  <2> QED BY <2>1
<1>4. n = k * Steps + Steps /\ k * Steps \in Nat
  BY <1>1, <1>3, StepsAssumption
<1> QED BY <1>4, StepsAssumption DEF Whole

LEMMA ReplansEnded ==
  ASSUME Whole(Horizon), NEW minimum \in Positions, NEW from \in Positions,
         NEW b \in Replans(minimum, from)
  PROVE  Ended(b)
<1> SUFFICES ASSUME b # <<>> PROVE Whole(Len(b)) \/ Len(b) = 1 \/ ~b[Len(b)].moving
  BY DEF Ended
<1> DEFINE start == NearestPathTime(minimum, from)
<1>1. PICK n \in {Steps, Horizon} : \E t \in Buffers(start, n) : b = Samples(t, from)
  BY DEF Replans
<1>2. PICK t \in Buffers(start, n) : b = Samples(t, from)
  BY <1>1
<1>3. start \in Positions /\ n \in Nat \ {0}
  BY NearestType, StepsAssumption, HorizonAssumption
<1>4. Whole(n)
  <2>1. Steps = 1 * Steps
    BY StepsAssumption
  <2> QED BY <2>1 DEF Whole
<1> HIDE DEF start
<1>5. PICK m \in 1 .. n : /\ t \in [1 .. m -> Positions]
                          /\ m = n \/ t[m] = IF m = 1 THEN start ELSE t[m - 1]
  BY <1>2, <1>3, BufferType
<1>6. Len(b) = m /\ (b[m].moving <=> t[m] # IF m = 1 THEN from ELSE t[m - 1])
  BY <1>2, <1>3, <1>5, SamplesType
<1> QED BY <1>4, <1>5, <1>6

LEMMA SegmentEnded ==
  ASSUME NEW b \in Seq(Sample), b # <<>>, Ended(b)
  PROVE  /\ Ended(Remainder(b)) /\ Len(Segment(b)) \in 1 .. Steps
         /\ Len(Segment(b)) < Steps =>
              Len(Segment(b)) = 1 \/ ~Segment(b)[Len(Segment(b))].moving
<1> HIDE DEF Sample
<1>1. /\ Remainder(b) \in Seq(Sample) /\ Len(b) \in Nat \ {0}
      /\ Len(Segment(b)) = Smaller(Steps, Len(b)) /\ Len(Segment(b)) \in 1 .. Len(b)
      /\ Len(Remainder(b)) = Len(b) - Len(Segment(b))
      /\ \A i \in 1 .. Len(Segment(b)) : Segment(b)[i] = b[i]
      /\ \A i \in 1 .. Len(Remainder(b)) : Remainder(b)[i] = b[Len(Segment(b)) + i]
  <2>1. Len(b) \in Nat \ {0}
    OBVIOUS
  <2> QED BY <2>1, SegmentType
<1>2. Len(Segment(b)) \in 1 .. Steps
  BY <1>1, StepsAssumption DEF Smaller
<1>3. CASE Len(b) <= Steps
  <2>1. Len(Segment(b)) = Len(b) /\ Remainder(b) = <<>>
    <3>1. Len(Segment(b)) = Len(b)
      BY <1>1, <1>3, StepsAssumption DEF Smaller
    <3>2. Len(Remainder(b)) = 0
      BY <1>1, <3>1
    <3> QED BY <1>1, <3>1, <3>2
  <2>2. Whole(Len(b)) => Len(b) >= Steps
    BY <1>1, WholeLess
  <2>3. Segment(b)[Len(Segment(b))] = b[Len(b)]
    BY <1>1, <2>1
  <2> QED BY <1>1, <1>2, <1>3, <2>1, <2>2, <2>3, StepsAssumption DEF Ended
<1>4. CASE Len(b) > Steps
  <2>1. Len(Segment(b)) = Steps /\ Len(Remainder(b)) = Len(b) - Steps
        /\ Len(Remainder(b)) \in Nat \ {0}
    BY <1>1, <1>4, StepsAssumption DEF Smaller
  <2>2. Remainder(b)[Len(Remainder(b))] = b[Len(b)]
    BY <1>1, <2>1, StepsAssumption
  <2>3. Len(b) # 1
    <3>1. Len(b) \in Nat /\ Steps \in Nat /\ Steps >= 1
      BY <1>1, StepsAssumption
    <3>2. \A n \in Nat : n > Steps => n # 1
      BY <3>1
    <3> QED BY <1>4, <3>1, <3>2
  <2>4. Whole(Len(b)) => Whole(Len(b) - Steps)
    BY <1>1, WholeLess
  <2> QED BY <1>2, <2>1, <2>2, <2>3, <2>4, StepsAssumption DEF Ended
<1> QED BY <1>1, <1>3, <1>4, StepsAssumption

\* Where a command from a plan stands in it; without the worker the update has commanded
\* as many samples of a prefix as it has counted since the monitor ran.
AtIntended ==
  /\ mode = "nominal" /\ dec.valid /\ ~dec.failsafe
  /\ cmd.k \in 1 .. Len(plan.intended) /\ Len(plan.intended) <= Steps
  /\ plan.fe = 1 /\ plan.ie = Smaller(cmd.k + 1, Len(plan.intended))
  /\ cmd.last <=> cmd.k = Len(plan.intended)
  /\ cmd.moving <=> plan.intended[cmd.k].moving
  /\ counter # 0 => cmd.k = Smaller(counter, Len(plan.intended))
  /\ Len(plan.intended) < Steps =>
       Len(plan.intended) = 1 \/ ~plan.intended[Len(plan.intended)].moving

AtFailsafe ==
  /\ mode = "failsafe" /\ cmd.k \in 1 .. Len(plan.failsafe)
  /\ plan.fe = Smaller(cmd.k + 1, Len(plan.failsafe))
  /\ cmd.last <=> cmd.k = Len(plan.failsafe)

InStep ==
  ~param.async =>
    /\ pc \notin {"take", "decide"}
    /\ Valid(plan) => cmd.kind \in {"intended", "failsafe"}
    /\ cmd.kind = "intended" => AtIntended
    /\ cmd.kind = "failsafe" => AtFailsafe
    /\ ~dec.valid => counter = 0
    /\ Ended(buffer)

FollowInv == TypeInv /\ InStep

LEMMA InitFollow == Init => FollowInv
  BY InitTypes DEF Init, FollowInv, InStep, StartCommand, NoPlan, Valid, Ended

\* The two parts of PlanFollowed.
BrakeInOrder ==
  counter # 0 /\ cmd'.kind = "failsafe" =>
    \/ cmd.kind = "intended" /\ cmd.last /\ cmd'.k = 1
    \/ cmd.kind = "failsafe" /\ cmd'.k = cmd.k + 1
    \/ cmd.kind = "failsafe" /\ cmd.last /\ cmd'.k = cmd.k

NoRepeat ==
  cmd.kind = "intended" /\ cmd.moving /\ cmd'.kind = "intended" =>
    cmd'.k = 1 \/ cmd'.k = cmd.k + 1

LEMMA RepeatFollows ==
  ASSUME FollowInv, ~param.async, RepeatDecision, CountUpdate
  PROVE  /\ BrakeInOrder /\ NoRepeat
         /\ Valid(plan') => cmd'.kind \in {"intended", "failsafe"}
         /\ cmd'.kind = "intended" => AtIntended'
         /\ cmd'.kind = "failsafe" => AtFailsafe'
         /\ ~dec'.valid => counter' = 0
         /\ Ended(buffer')
<1> DEFINE braking == mode = "failsafe" \/ dec.failsafe
<1>1. /\ plan \in Plans /\ Indexed(plan) /\ counter \in 0 .. Steps
      /\ dec \in [valid : BOOLEAN, failsafe : BOOLEAN, trigger : BOOLEAN]
      /\ Len(plan.intended) \in Nat /\ Len(plan.failsafe) \in Nat
      /\ plan.ie \in Nat \ {0} /\ plan.fe \in Nat \ {0}
  <2> HIDE DEF Sample
  <2> QED BY DEF FollowInv, TypeInv, TypeOK, Plans
<1>2. /\ braking \in BOOLEAN /\ Execute(plan, braking) /\ dec' = [dec EXCEPT !.failsafe = braking]
      /\ dec.valid /\ counter \in 1 .. Steps - 1 /\ counter' = counter + 1
      /\ UNCHANGED <<buffer, pathTime>>
  BY <1>1, StepsAssumption DEF RepeatDecision, MonitorDue, CountUpdate
<1>3. dec'.valid /\ dec'.failsafe = braking
  BY <1>1, <1>2
<1>4. InStep
  BY DEF FollowInv
<1> HIDE DEF braking
<1>5. CASE ~Valid(plan)
  <2>1. cmd'.kind = "emergency" /\ plan' = plan
    BY <1>1, <1>2, <1>5, Commanded
  <2> QED BY <1>2, <1>3, <1>4, <1>5, <2>1 DEF InStep, BrakeInOrder, NoRepeat, Valid
<1>6. CASE Valid(plan) /\ cmd.kind = "intended"
  <2>1. ~braking /\ AtIntended
    BY <1>4, <1>6 DEF braking, InStep, AtIntended
  <2>2. /\ cmd'.kind = "intended" /\ mode' = "nominal" /\ cmd'.k = plan.ie
        /\ (cmd'.last <=> plan.ie = Len(plan.intended))
        /\ (cmd'.moving <=> plan.intended[plan.ie].moving)
        /\ plan'.intended = plan.intended /\ plan'.fe = plan.fe
        /\ plan'.ie = Smaller(plan.ie + 1, Len(plan.intended))
    BY <1>1, <1>2, <1>6, <2>1, Commanded
  <2>3. plan.ie = Smaller(counter', Len(plan.intended)) /\ plan.ie \in 1 .. Len(plan.intended)
    BY <1>1, <1>2, <2>1 DEF AtIntended, Smaller
  <2>4. NoRepeat
    <3>1. CASE cmd.k < Len(plan.intended)
      <4>1. plan.ie = cmd.k + 1
        BY <1>1, <2>1, <3>1 DEF AtIntended, Smaller
      <4> QED BY <2>2, <4>1 DEF NoRepeat
    <3>2. CASE cmd.k = Len(plan.intended)
      <4>1. Len(plan.intended) < Steps /\ plan.ie = Len(plan.intended)
        BY <1>1, <1>2, <2>1, <3>2, StepsAssumption DEF AtIntended, Smaller
      <4>2. Len(plan.intended) = 1 \/ ~cmd.moving
        BY <2>1, <3>2, <4>1 DEF AtIntended
      <4> QED BY <2>2, <4>1, <4>2 DEF NoRepeat
    <3> QED BY <1>1, <2>1, <3>1, <3>2 DEF AtIntended
  <2>5. AtIntended'
    BY <1>1, <1>2, <1>3, <2>1, <2>2, <2>3 DEF AtIntended
  <2> QED BY <1>2, <1>3, <1>4, <2>2, <2>4, <2>5 DEF InStep, BrakeInOrder
<1>7. CASE Valid(plan) /\ cmd.kind = "failsafe"
  <2>1. braking /\ AtFailsafe
    BY <1>4, <1>7 DEF braking, InStep, AtFailsafe
  <2>2. /\ cmd'.kind = "failsafe" /\ mode' = "failsafe" /\ cmd'.k = plan.fe
        /\ (cmd'.last <=> plan.fe = Len(plan.failsafe))
        /\ plan'.failsafe = plan.failsafe
        /\ plan'.fe = Smaller(plan.fe + 1, Len(plan.failsafe))
    BY <1>1, <1>2, <1>7, <2>1, Commanded
  <2>3. plan.fe = cmd.k + 1 \/ (cmd.last /\ plan.fe = cmd.k)
    BY <1>1, <2>1 DEF AtFailsafe, Smaller
  <2>4. AtFailsafe'
    BY <1>1, <1>7, <2>1, <2>2 DEF AtFailsafe, Indexed
  <2> QED BY <1>2, <1>3, <1>4, <1>7, <2>2, <2>3, <2>4 DEF InStep, BrakeInOrder, NoRepeat
<1> QED BY <1>4, <1>5, <1>6, <1>7 DEF InStep

LEMMA MonitorFollows ==
  ASSUME Whole(Horizon), FollowInv, ~param.async, MonitorDue, ComputeShieldDecision, CountUpdate
  PROVE  /\ BrakeInOrder /\ NoRepeat
         /\ Valid(plan') => cmd'.kind \in {"intended", "failsafe"}
         /\ cmd'.kind = "intended" => AtIntended'
         /\ cmd'.kind = "failsafe" => AtFailsafe'
         /\ ~dec'.valid => counter' = 0
         /\ Ended(buffer')
<1>1. /\ plan \in Plans /\ Indexed(plan) /\ counter \in 0 .. Steps
      /\ Len(plan.intended) \in Nat /\ Len(plan.failsafe) \in Nat
      /\ plan.ie \in Nat \ {0} /\ plan.fe \in Nat \ {0}
      /\ cmd.pos \in Positions /\ Larger(clock, pathTime) \in Positions
      /\ buffer \in Seq(Sample)
  <2> HIDE DEF Sample, Positions
  <2> QED BY LargerType DEF FollowInv, TypeInv, TypeOK, Plans, Commands
<1>2. InStep /\ TypeInv
  BY DEF FollowInv
<1>3. /\ counter \in {0, Steps}
      /\ counter' \in {0, 1} /\ (counter # 0 => counter' = 1) /\ (~dec.valid => counter' = 0)
  BY <1>1, <1>2, StepsAssumption DEF MonitorDue, CountUpdate, InStep
<1>4. PICK b \in Refilled(buffer, Larger(clock, pathTime), cmd.pos) :
        /\ b \in Seq(Sample)
        /\ \/ buffer' = b /\ Execute(plan, TRUE) /\ dec'.failsafe /\ dec'.valid
           \/ /\ b # <<>> /\ buffer' = Remainder(b) /\ ~dec'.failsafe /\ dec'.valid
              /\ \E c \in Plans : /\ Execute(c, FALSE) /\ Indexed(c) /\ Valid(c)
                                  /\ c.intended = Segment(b) /\ c.ie = 1 /\ c.fe = 1
  BY <1>2, ComputeCases
<1>5. Ended(b)
  BY <1>1, <1>2, <1>4, ReplansEnded DEF Refilled, InStep
<1>6. dec'.valid
  BY <1>4
<1>7. CASE buffer' = b /\ Execute(plan, TRUE)
  <2>1. CASE ~Valid(plan)
    <3>1. cmd'.kind = "emergency" /\ plan' = plan
      BY <1>1, <1>7, <2>1, Commanded
    <3> QED BY <1>5, <1>6, <1>7, <2>1, <3>1 DEF BrakeInOrder, NoRepeat, Valid
  <2>2. CASE Valid(plan)
    <3>1. /\ cmd'.kind = "failsafe" /\ mode' = "failsafe" /\ cmd'.k = plan.fe
          /\ (cmd'.last <=> plan.fe = Len(plan.failsafe))
          /\ plan'.failsafe = plan.failsafe
          /\ plan'.fe = Smaller(plan.fe + 1, Len(plan.failsafe))
      BY <1>1, <1>7, <2>2, Commanded
    <3>2. AtFailsafe'
      BY <1>1, <2>2, <3>1 DEF AtFailsafe, Indexed
    <3>3. BrakeInOrder
      <4>1. CASE cmd.kind = "intended"
        <5>1. AtIntended
          BY <1>2, <4>1 DEF InStep
        <5>2. counter # 0 => cmd.k = Len(plan.intended)
          BY <1>1, <1>3, <5>1, StepsAssumption DEF AtIntended, Smaller
        <5>3. (counter # 0 => cmd.last) /\ plan.fe = 1
          BY <5>1, <5>2 DEF AtIntended
        <5> QED BY <3>1, <4>1, <5>3 DEF BrakeInOrder
      <4>2. CASE cmd.kind = "failsafe"
        <5>1. AtFailsafe
          BY <1>2, <4>2 DEF InStep
        <5>2. plan.fe = cmd.k + 1 \/ (cmd.last /\ plan.fe = cmd.k)
          BY <1>1, <5>1 DEF AtFailsafe, Smaller
        <5> QED BY <3>1, <4>2, <5>2 DEF BrakeInOrder
      <4> QED BY <1>2, <2>2, <4>1, <4>2 DEF InStep
    <3> QED BY <1>5, <1>6, <1>7, <3>1, <3>2, <3>3 DEF NoRepeat
  <2> QED BY <2>1, <2>2
<1>8. ASSUME b # <<>>, buffer' = Remainder(b), ~dec'.failsafe, NEW c \in Plans,
             Execute(c, FALSE), Indexed(c), Valid(c), c.intended = Segment(b), c.ie = 1, c.fe = 1
      PROVE  /\ BrakeInOrder /\ NoRepeat /\ cmd'.kind = "intended" /\ AtIntended'
             /\ Ended(buffer')
  <2>1. /\ cmd'.kind = "intended" /\ mode' = "nominal" /\ cmd'.k = 1
        /\ (cmd'.last <=> 1 = Len(c.intended))
        /\ (cmd'.moving <=> c.intended[1].moving)
        /\ plan'.intended = c.intended /\ plan'.fe = 1
        /\ plan'.ie = Smaller(1 + 1, Len(c.intended))
    BY <1>8, Commanded
  <2>2. /\ Ended(Remainder(b)) /\ Len(c.intended) \in 1 .. Steps
        /\ Len(c.intended) < Steps =>
             Len(c.intended) = 1 \/ ~c.intended[Len(c.intended)].moving
    BY <1>4, <1>5, <1>8, SegmentEnded
  <2>3. counter' # 0 => cmd'.k = Smaller(counter', Len(plan'.intended))
    <3>1. Len(plan'.intended) \in Nat /\ Len(plan'.intended) >= 1
      BY <2>1, <2>2, StepsAssumption
    <3>2. Smaller(1, Len(plan'.intended)) = 1
      <4>1. \A n \in Nat : n >= 1 => Smaller(1, n) = 1
        BY DEF Smaller
      <4> QED BY <3>1, <4>1
    <3> QED BY <1>3, <2>1, <3>2
  <2>4. AtIntended'
    BY <1>6, <1>8, <2>1, <2>2, <2>3, StepsAssumption DEF AtIntended
  <2> QED BY <1>8, <2>1, <2>2, <2>4 DEF BrakeInOrder, NoRepeat
<1> QED BY <1>4, <1>6, <1>7, <1>8

LEMMA StepFollow ==
  ASSUME Whole(Horizon)
  PROVE  FollowInv /\ [Next]_vars => FollowInv' /\ (UpdateSync => BrakeInOrder /\ NoRepeat)
<1> SUFFICES ASSUME FollowInv, [Next]_vars
             PROVE  InStep' /\ (UpdateSync => BrakeInOrder /\ NoRepeat)
  BY StepTypes DEF FollowInv
<1>1. CASE UpdateSync
  <2>1. ~param.async /\ CountUpdate /\ UNCHANGED <<param, pc>>
        /\ ((MonitorDue /\ ComputeShieldDecision) \/ RepeatDecision)
    BY <1>1 DEF UpdateSync
  <2>2. pc' \notin {"take", "decide"}
    BY <2>1 DEF FollowInv, InStep
  <2>3. /\ BrakeInOrder /\ NoRepeat
        /\ Valid(plan') => cmd'.kind \in {"intended", "failsafe"}
        /\ cmd'.kind = "intended" => AtIntended'
        /\ cmd'.kind = "failsafe" => AtFailsafe'
        /\ ~dec'.valid => counter' = 0
        /\ Ended(buffer')
    BY <2>1, RepeatFollows, MonitorFollows
  <2> QED BY <2>1, <2>2, <2>3 DEF InStep, Valid, Ended
<1>2. CASE Activate
  <2>1. /\ plan' = NoPlan /\ buffer' = <<>> /\ cmd' = StartCommand /\ counter' = 0
        /\ pc' = "idle"
    BY <1>2 DEF Activate
  <2>2. InStep'
    BY <2>1 DEF InStep, StartCommand, NoPlan, Valid, Ended
  <2> QED BY <1>1, <2>2
<1>3. CASE UNCHANGED <<param, rtVars>> /\ (~param.async => pc' \notin {"take", "decide"})
           /\ ~UpdateSync
  BY <1>3 DEF rtVars, FollowInv, InStep, AtIntended, AtFailsafe, Valid, Ended
<1>4. CASE param.async /\ UNCHANGED param /\ ~UpdateSync
  BY <1>4 DEF InStep
<1>5. CASE Deactivate \/ NotifyStop \/ Join \/ WorkerCheck \/ WorkerSleep \/ SpuriousWakeup
           \/ WorkerCompute \/ WorkerStore \/ UNCHANGED vars
  <2>1. UNCHANGED <<param, rtVars>> /\ (~param.async => pc' \notin {"take", "decide"})
    BY <1>5 DEF Deactivate, NotifyStop, Join, WorkerCheck, WorkerSleep, SpuriousWakeup,
                WorkerCompute, WorkerStore, vars, FollowInv, InStep
  <2> QED BY <1>1, <1>3, <2>1
<1>6. CASE Publish \/ Take \/ DecideFresh \/ Bootstrap \/ DecideStale
  <2>1. param.async /\ UNCHANGED param
    BY <1>6 DEF Publish, Take, DecideFresh, Bootstrap, DecideStale, FollowInv, InStep
  <2> QED BY <1>1, <1>4, <2>1
<1> QED BY <1>1, <1>2, <1>5, <1>6 DEF Next

\* A brake is entered only after the whole prefix it was verified to follow and then
\* executed in order, and no moving sample is repeated, if the horizon is a whole number
\* of prefixes, as it is configured: the remainder of a fallback would be repeated too.
THEOREM PlanFollowedSafe == ASSUME Whole(Horizon) PROVE Spec => PlanFollowed
<1>1. FollowInv /\ [Next]_vars =>
        [UpdateSync =>
           /\ counter # 0 /\ cmd'.kind = "failsafe" =>
                \/ cmd.kind = "intended" /\ cmd.last /\ cmd'.k = 1
                \/ cmd.kind = "failsafe" /\ cmd'.k = cmd.k + 1
                \/ cmd.kind = "failsafe" /\ cmd.last /\ cmd'.k = cmd.k
           /\ cmd.kind = "intended" /\ cmd.moving /\ cmd'.kind = "intended" =>
                cmd'.k = 1 \/ cmd'.k = cmd.k + 1]_vars
  BY StepFollow DEF BrakeInOrder, NoRepeat
<1>2. FollowInv /\ [Next]_vars => FollowInv'
  BY StepFollow
<1> QED BY <1>1, <1>2, InitFollow, PTL DEF Spec, PlanFollowed

-----------------------------------------------------------------------------
(***************************************************************************)
(* The update, the worker and what passes between them implement the       *)
(* abstract shield.                                                        *)
(***************************************************************************)
Fitted == /\ Fit(output.plan)
          /\ worker.pc = "store" => Fit(worker.answer.plan)
          /\ pc \in {"take", "decide"} => param.async

MotionInv == ShieldInv /\ RefusalInv /\ Fitted

LEMMA InitMotion == Init => MotionInv
<1> SUFFICES ASSUME Init PROVE Fitted
  BY InitShield, InitRefusal DEF MotionInv
<1>1. output.plan = NoPlan /\ worker.pc = "off" /\ pc = "inactive"
  BY DEF Init, NoOutput, NoWorker
<1> QED BY <1>1 DEF Fitted, Fit, NoPlan, Valid

LEMMA StepMotion == MotionInv /\ [Next]_vars => MotionInv'
<1> SUFFICES ASSUME MotionInv, [Next]_vars PROVE Fitted'
  BY StepShield, StepRefusal DEF MotionInv
<1> USE DEF MotionInv
<1>1. worker \in Workers
  BY DEF RefusalInv, TypeInv, TypeOK
<1>2. ASSUME output' = output,
             worker'.pc = "store" => worker.pc = "store" /\ worker'.answer = worker.answer
      PROVE  /\ Fit(output.plan)'
             /\ worker'.pc = "store" => Fit(worker.answer.plan)'
  BY <1>2 DEF Fitted, Fit, Valid
<1>3. CASE Activate
  <2>1. output' = NoOutput /\ pc' = "idle"
        /\ (worker' = worker \/ worker' = [NoWorker EXCEPT !.pc = "check"])
        /\ (~param.async => worker' = worker) /\ pc = "inactive"
    BY <1>3 DEF Activate, StartWorker
  <2>2. worker'.pc # "store"
    BY <2>1 DEF ShieldInv, NoWorkerLeft, NoWorker
  <2>3. output'.plan = NoPlan
    BY <2>1 DEF NoOutput
  <2> QED BY <2>1, <2>2, <2>3 DEF Fitted, Fit, NoPlan, Valid
<1>4. CASE Deactivate \/ NotifyStop \/ Join
  <2>1. UNCHANGED <<param, output>> /\ pc' \notin {"take", "decide"}
        /\ (worker' = worker \/ worker' = Woken(worker))
    BY <1>4 DEF Deactivate, NotifyStop, Join, sharedVars
  <2>2. worker'.pc = "store" => worker.pc = "store" /\ worker'.answer = worker.answer
    BY <1>1, <2>1 DEF Woken, Workers
  <2> QED BY <1>2, <2>1, <2>2 DEF Fitted
<1>5. CASE UpdateSync \/ DecideFresh \/ Bootstrap \/ DecideStale
  <2>1. UNCHANGED <<param, output, worker>> /\ pc' = "idle"
    BY <1>5 DEF UpdateSync, DecideFresh, Bootstrap, DecideStale, sharedVars
  <2> QED BY <1>2, <2>1 DEF Fitted
<1>6. CASE Publish \/ Take
  <2>1. UNCHANGED <<param, output>> /\ param.async
        /\ (worker' = worker \/ worker' = Woken(worker))
    BY <1>6 DEF Publish, Take, sharedVars, Fitted
  <2>2. worker'.pc = "store" => worker.pc = "store" /\ worker'.answer = worker.answer
    BY <1>1, <2>1 DEF Woken, Workers
  <2> QED BY <1>2, <2>1, <2>2 DEF Fitted
<1>7. CASE WorkerCheck \/ WorkerSleep \/ SpuriousWakeup
  <2>1. UNCHANGED <<param, pc, output>>
    BY <1>7 DEF WorkerCheck, WorkerSleep, SpuriousWakeup, sharedVars
  <2>2. /\ [worker EXCEPT !.pc = "compute", !.input = input].pc = "compute"
        /\ [worker EXCEPT !.pc = "doze"].pc = "doze"
        /\ [worker EXCEPT !.pc = "asleep"].pc = "asleep"
        /\ [worker EXCEPT !.pc = "check"].pc = "check" /\ NoWorker.pc = "off"
    BY <1>1 DEF Workers, NoWorker
  <2>3. worker'.pc # "store"
    BY <1>7, <2>2 DEF WorkerCheck, WorkerSleep, SpuriousWakeup, Woken
  <2> QED BY <1>2, <2>1, <2>3 DEF Fitted
<1>8. CASE WorkerCompute
  <2>1. UNCHANGED <<param, pc, output>>
    BY <1>8 DEF WorkerCompute, sharedVars
  <2>2. PICK rest \in Seq(Sample), answer \in Outputs :
          /\ worker' = [worker EXCEPT !.pc = "store", !.rest = rest, !.answer = answer]
          /\ Fit(answer.plan)
    BY <1>8, WorkerAnswers DEF RefusalInv
  <2>3. worker'.answer = answer
    BY <1>1, <2>2 DEF Workers
  <2> QED BY <2>1, <2>2, <2>3 DEF Fitted, Fit, Valid
<1>9. CASE WorkerStore
  <2>1. UNCHANGED <<param, pc>> /\ worker.pc = "store" /\ output' = worker.answer
        /\ worker' = [worker EXCEPT !.pc = "check", !.input = NoInput, !.answer = NoOutput]
    BY <1>9 DEF WorkerStore
  <2>2. worker'.pc = "check"
    BY <1>1, <2>1 DEF Workers
  <2> QED BY <2>1, <2>2 DEF Fitted, Fit, Valid
<1>10. CASE UNCHANGED vars
  BY <1>2, <1>10 DEF vars, sharedVars, Fitted
<1> QED BY <1>3, <1>4, <1>5, <1>6, <1>7, <1>8, <1>9, <1>10 DEF Next

\* A plan without the places reached in it.
Parts(p) == [intended |-> p.intended, failsafe |-> p.failsafe,
             epoch |-> p.epoch, refused |-> p.refused]

LEMMA FitApproved ==
  ASSUME NEW p, Valid(p), Good(p), Fit(p)
  PROVE  Motion!Approved(Parts(p))
<1>1. /\ Parts(p).intended = p.intended /\ Parts(p).failsafe = p.failsafe
      /\ Parts(p).epoch = p.epoch /\ Parts(p).refused = p.refused
  BY DEF Parts
<1> QED BY <1>1 DEF Motion!Approved, Motion!Empty, Valid, Good, Fit

\* What an update commands, in the words of the abstract shield.
LEMMA Sent ==
  ASSUME NEW p \in Plans, Indexed(p), NEW braking \in BOOLEAN, Execute(p, braking)
  PROVE  /\ ~Valid(p) => /\ plan' = p
                         /\ cmd' = [kind |-> "emergency", pos |-> cmd.pos, moving |-> FALSE,
                                    k |-> 1, last |-> TRUE]
         /\ Valid(p) => PlanInForce' = Parts(p)
         /\ Valid(p) /\ braking =>
              /\ cmd' = Motion!Commanded("failsafe", p.failsafe, p.fe)
              /\ plan'.fe = Motion!After(p.fe, p.failsafe) /\ plan'.ie = p.ie
         /\ Valid(p) /\ ~braking =>
              /\ cmd' = Motion!Commanded("intended", p.intended, p.ie)
              /\ plan'.ie = Motion!After(p.ie, p.intended) /\ plan'.fe = p.fe
<1> HIDE DEF Sample
<1>1. /\ p.ie \in Nat \ {0} /\ p.fe \in Nat \ {0}
      /\ Len(p.intended) \in Nat /\ Len(p.failsafe) \in Nat
      /\ p = [intended |-> p.intended, failsafe |-> p.failsafe, ie |-> p.ie, fe |-> p.fe,
              epoch |-> p.epoch, refused |-> p.refused]
  BY DEF Plans
<1>2. CASE ~Valid(p)
  BY <1>2 DEF Execute, EmergencyCommand
<1>3. CASE Valid(p) /\ braking
  <2>1. cmd' = FailsafeCommand(p) /\ plan' = [p EXCEPT !.fe = Smaller(p.fe + 1, Len(p.failsafe))]
    BY <1>3 DEF Execute, AfterFailsafe
  <2>2. Smaller(p.fe + 1, Len(p.failsafe)) = Motion!After(p.fe, p.failsafe)
    BY <1>1, <1>3 DEF Smaller, Motion!After, Indexed
  <2>3. PlanInForce' = Parts(p) /\ plan'.ie = p.ie
        /\ plan'.fe = Smaller(p.fe + 1, Len(p.failsafe))
    BY <1>1, <2>1 DEF PlanInForce, Parts
  <2>4. FailsafeCommand(p) = Motion!Commanded("failsafe", p.failsafe, p.fe)
    BY Zenon DEF FailsafeCommand, Motion!Commanded
  <2> QED BY <1>3, <2>1, <2>2, <2>3, <2>4
<1>4. CASE Valid(p) /\ ~braking
  <2>1. cmd' = IntendedCommand(p) /\ plan' = [p EXCEPT !.ie = Smaller(p.ie + 1, Len(p.intended))]
    BY <1>4 DEF Execute, AfterIntended
  <2>2. Smaller(p.ie + 1, Len(p.intended)) = Motion!After(p.ie, p.intended)
    BY <1>1, <1>4 DEF Smaller, Motion!After, Indexed
  <2>3. PlanInForce' = Parts(p) /\ plan'.fe = p.fe
        /\ plan'.ie = Smaller(p.ie + 1, Len(p.intended))
    BY <1>1, <2>1 DEF PlanInForce, Parts
  <2>4. IntendedCommand(p) = Motion!Commanded("intended", p.intended, p.ie)
    BY Zenon DEF IntendedCommand, Motion!Commanded
  <2> QED BY <1>4, <2>1, <2>2, <2>3, <2>4
<1> QED BY <1>2, <1>3, <1>4

\* A command out of the plan in force, under a verdict that agrees with it.
LEMMA ExecuteMaps ==
  ASSUME plan \in Plans, Indexed(plan), NEW braking \in BOOLEAN, Execute(plan, braking),
         UNCHANGED epoch, ToBrake' \in BOOLEAN,
         braking => ToBrake', ~braking => ~ToBrake /\ ~ToBrake'
  PROVE  Motion!Next
<1> HIDE DEF Plans
<1>1. /\ PlanInForce = Parts(plan) /\ (Motion!Empty(PlanInForce) <=> ~Valid(plan))
      /\ PlanInForce.intended = plan.intended /\ PlanInForce.failsafe = plan.failsafe
  BY DEF PlanInForce, Parts, Motion!Empty, Valid
<1>2. ToBrake \in BOOLEAN
  BY DEF ToBrake
<1> HIDE DEF ToBrake
<1>3. CASE ~Valid(plan)
  <2>1. UNCHANGED <<PlanInForce, plan.ie, plan.fe>>
    BY <1>3, Sent DEF PlanInForce
  <2> HIDE DEF PlanInForce
  <2>2. Motion!Hold
    BY <1>1, <1>3, <2>1, Sent DEF Motion!Hold
  <2> QED BY <2>2 DEF Motion!Next
<1>4. CASE Valid(plan) /\ braking
  <2>1. ToBrake' = TRUE
    BY <1>4
  <2> HIDE DEF PlanInForce
  <2>2. Motion!Brake
    BY <1>1, <1>4, <2>1, Sent DEF Motion!Brake
  <2> QED BY <2>2 DEF Motion!Next
<1>5. CASE Valid(plan) /\ ~braking
  <2>1. ToBrake' = ToBrake /\ ~ToBrake
    BY <1>2, <1>5
  <2> HIDE DEF PlanInForce
  <2>2. Motion!GoOn
    BY <1>1, <1>5, <2>1, Sent DEF Motion!GoOn
  <2> QED BY <2>2 DEF Motion!Next
<1> QED BY <1>3, <1>4, <1>5

\* A candidate that is accepted comes into force with its first sample.
LEMMA BeginMaps ==
  ASSUME NEW c \in Plans, Indexed(c), Valid(c), Good(c), Fit(c), Execute(c, FALSE),
         UNCHANGED epoch, ToBrake' \in BOOLEAN
  PROVE  Motion!Next
<1> HIDE DEF Plans, ToBrake, PlanInForce
<1>1. FALSE \in BOOLEAN /\ c.ie = 1 /\ c.fe = 1
  BY DEF Fit
<1>2. /\ PlanInForce' = Parts(c) /\ cmd' = Motion!Commanded("intended", c.intended, 1)
      /\ plan'.ie = Motion!After(1, c.intended) /\ plan'.fe = 1
  BY <1>1, Sent
<1>3. Motion!Approved(Parts(c)) /\ Parts(c).intended = c.intended
  BY FitApproved DEF Parts
<1>4. Motion!Begin
  BY <1>2, <1>3 DEF Motion!Begin
<1> QED BY <1>4 DEF Motion!Next

LEMMA ComputeMaps ==
  ASSUME MotionInv, ComputeShieldDecision, UNCHANGED <<epoch, param>>
  PROVE  Motion!Next
<1> HIDE DEF Sample, Positions, Plans
<1>1. /\ cmd.pos \in Positions /\ Larger(clock, pathTime) \in Positions /\ buffer \in Seq(Sample)
      /\ plan \in Plans /\ Indexed(plan) /\ epoch \in Nat /\ param.enabled \in BOOLEAN
  BY LargerType DEF MotionInv, RefusalInv, TypeInv, TypeOK, Commands
<1> DEFINE Bs == Refilled(buffer, Larger(clock, pathTime), cmd.pos)
<1> HIDE DEF Bs
<1>2. PICK b \in Bs, trigger \in BOOLEAN :
        \/ Execute(plan, TRUE) /\ \E t \in BOOLEAN : dec' = [valid |-> TRUE, failsafe |-> TRUE, trigger |-> t]
        \/ /\ b # <<>> /\ Accepted(trigger)
           /\ Execute(Candidate(Segment(b), trigger, epoch), FALSE)
           /\ dec' = [valid |-> TRUE, failsafe |-> FALSE, trigger |-> trigger]
  <2>1. PICK b \in Bs, trigger \in BOOLEAN :
          IF b = <<>>
          THEN Execute(plan, TRUE) /\ dec' = [valid |-> TRUE, failsafe |-> TRUE, trigger |-> FALSE]
          ELSE IF Accepted(trigger)
          THEN /\ Execute(Candidate(Segment(b), trigger, epoch), FALSE)
               /\ dec' = [valid |-> TRUE, failsafe |-> FALSE, trigger |-> trigger]
          ELSE Execute(plan, TRUE) /\ dec' = [valid |-> TRUE, failsafe |-> TRUE, trigger |-> trigger]
    BY Zenon DEF ComputeShieldDecision, Bs, Verdicts
  <2>2. FALSE \in BOOLEAN
    OBVIOUS
  <2> QED BY <2>1, <2>2, Zenon
<1>3. CASE Execute(plan, TRUE) /\ \E t \in BOOLEAN : dec' = [valid |-> TRUE, failsafe |-> TRUE, trigger |-> t]
  <2>1. dec'.failsafe
    BY <1>3
  <2>2. ToBrake' /\ ToBrake' \in BOOLEAN /\ TRUE \in BOOLEAN
    BY <2>1 DEF ToBrake
  <2> HIDE DEF ToBrake
  <2> QED BY <1>1, <1>3, <2>2, ExecuteMaps
<1>4. CASE /\ b # <<>> /\ Accepted(trigger)
           /\ Execute(Candidate(Segment(b), trigger, epoch), FALSE)
           /\ dec' = [valid |-> TRUE, failsafe |-> FALSE, trigger |-> trigger]
  <2> DEFINE c == Candidate(Segment(b), trigger, epoch)
  <2>1. Segment(b) \in Seq(Sample) /\ Segment(b) # <<>>
    <3>1. b \in Seq(Sample)
      BY <1>1, RefilledType DEF Bs
    <3>2. Segment(b) \in Seq(Sample) /\ Len(Segment(b)) \in 1 .. Len(b)
      BY <1>4, <3>1, SegmentType
    <3> QED BY <3>2
  <2>2. c \in Plans /\ Indexed(c) /\ Fit(c) /\ Good(c)
    BY <1>1, <1>4, <2>1, CandidateType, CandidateFit, CandidateGood
  <2>3. Valid(c)
    BY <2>1 DEF Candidate, Valid
  <2>4. ToBrake' \in BOOLEAN
    <3>1. dec'.failsafe = FALSE /\ dec'.trigger = trigger
      BY <1>4
    <3> QED BY <3>1 DEF ToBrake
  <2>5. Execute(c, FALSE)
    BY <1>4
  <2> HIDE DEF c, ToBrake
  <2> QED BY <2>2, <2>3, <2>4, <2>5, BeginMaps
<1> QED BY <1>2, <1>3, <1>4

LEMMA CommandMaps ==
  ASSUME MotionInv, UpdateSync \/ DecideFresh \/ Bootstrap \/ DecideStale
  PROVE  Motion!Next
<1> HIDE DEF Plans
<1>1. /\ plan \in Plans /\ Indexed(plan)
      /\ dec \in [valid : BOOLEAN, failsafe : BOOLEAN, trigger : BOOLEAN]
      /\ param.async \in BOOLEAN /\ (pc = "decide" => param.async)
  BY DEF MotionInv, RefusalInv, TypeInv, TypeOK, Fitted
<1>2. UNCHANGED <<epoch, param>>
  BY DEF UpdateSync, DecideFresh, Bootstrap, DecideStale
<1>3. CASE ComputeShieldDecision
  BY <1>2, <1>3, ComputeMaps
<1>4. ASSUME NEW braking \in BOOLEAN, Execute(plan, braking),
             dec' = [dec EXCEPT !.failsafe = braking],
             ~braking => ~dec.failsafe /\ (param.async => ~dec.trigger)
      PROVE  Motion!Next
  <2>1. dec'.failsafe = braking /\ dec'.trigger = dec.trigger
    BY <1>1, <1>4
  <2>2. /\ ToBrake' \in BOOLEAN /\ (braking => ToBrake')
        /\ (~braking => ~ToBrake /\ ~ToBrake')
    BY <1>1, <1>2, <1>4, <2>1 DEF ToBrake
  <2> HIDE DEF ToBrake
  <2> QED BY <1>1, <1>2, <1>4, <2>2, ExecuteMaps
<1>5. CASE UpdateSync /\ RepeatDecision
  <2> DEFINE braking == mode = "failsafe" \/ dec.failsafe
  <2>1. /\ braking \in BOOLEAN /\ Execute(plan, braking) /\ ~param.async
        /\ dec' = [dec EXCEPT !.failsafe = braking] /\ (~braking => ~dec.failsafe)
    BY <1>5 DEF RepeatDecision, UpdateSync
  <2> HIDE DEF braking
  <2> QED BY <1>4, <2>1
<1>6. CASE DecideStale
  <2> DEFINE braking == mode = "failsafe" \/ dec.failsafe \/ dec.trigger
  <2>1. /\ braking \in BOOLEAN /\ Execute(plan, braking)
        /\ dec' = [dec EXCEPT !.failsafe = braking]
        /\ (~braking => ~dec.failsafe /\ ~dec.trigger)
    BY <1>6 DEF DecideStale
  <2> HIDE DEF braking
  <2> QED BY <1>4, <2>1
<1>7. CASE DecideFresh
  <2> DEFINE braking == dec.failsafe \/ dec.trigger
  <2>1. braking \in BOOLEAN /\ Execute(plan, braking) /\ dec' = dec /\ param.async
    BY <1>1, <1>7 DEF DecideFresh
  <2>2. (ToBrake <=> braking) /\ (ToBrake' <=> braking) /\ ToBrake' \in BOOLEAN
    BY <1>2, <2>1 DEF ToBrake
  <2> HIDE DEF braking, ToBrake
  <2> QED BY <1>1, <1>2, <2>1, <2>2, ExecuteMaps
<1> QED BY <1>3, <1>5, <1>6, <1>7 DEF UpdateSync, Bootstrap

LEMMA TakeMaps ==
  ASSUME MotionInv, Take
  PROVE  Motion!Next \/ UNCHANGED <<epoch, PlanInForce, plan.ie, plan.fe, ToBrake, cmd>>
<1> HIDE DEF Plans, Outputs
<1>1. /\ UNCHANGED <<epoch, param, cmd>> /\ param.async
      /\ dec \in [valid : BOOLEAN, failsafe : BOOLEAN, trigger : BOOLEAN]
      /\ output \in Outputs
  BY DEF Take, MotionInv, Fitted, RefusalInv, TypeInv, TypeOK
<1>2. output.failsafe \in BOOLEAN /\ output.trigger \in BOOLEAN /\ output.seq \in Nat
  BY <1>1 DEF Outputs
<1>3. CASE UNCHANGED <<dec, plan>>
  BY <1>1, <1>3 DEF PlanInForce, ToBrake
<1>4. ASSUME output.seq > consumed,
             dec' = [valid |-> TRUE, failsafe |-> output.failsafe, trigger |-> output.trigger],
             output.accepted /\ Valid(output.plan), plan' = output.plan
      PROVE  Motion!Next
  <2>1. ToBrake' \in BOOLEAN
    BY <1>1, <1>2, <1>4 DEF ToBrake
  <2>2. PlanInForce' = Parts(output.plan)
    BY <1>4 DEF PlanInForce, Parts
  <2>3. plan'.ie = 1 /\ plan'.fe = 1
    BY <1>4 DEF MotionInv, Fitted, Fit
  <2>4. Motion!Approved(Parts(output.plan))
    BY <1>4, FitApproved DEF MotionInv, Fitted, ShieldInv, InFlight
  <2> HIDE DEF PlanInForce, ToBrake
  <2>5. Motion!Adopt
    BY <1>1, <2>1, <2>2, <2>3, <2>4 DEF Motion!Adopt
  <2> QED BY <2>5 DEF Motion!Next
<1>5. ASSUME output.seq > consumed,
             dec' = [valid |-> TRUE, failsafe |-> output.failsafe, trigger |-> output.trigger],
             ~(output.accepted /\ Valid(output.plan)), plan' = plan
      PROVE  Motion!Next
  <2>1. output.seq # 0
    BY <1>2, <1>5 DEF MotionInv, RefusalInv, TypeInv, TypeOK
  <2>2. dec'.failsafe
    BY <1>5, <2>1 DEF MotionInv, RefusalInv, AnswersOK, Answered
  <2>3. ToBrake' = TRUE
    BY <2>2, Zenon DEF ToBrake
  <2>4. UNCHANGED <<PlanInForce, plan.ie, plan.fe>>
    BY <1>5 DEF PlanInForce
  <2> HIDE DEF PlanInForce, ToBrake
  <2>5. Motion!Refuse
    BY <1>1, <2>3, <2>4 DEF Motion!Refuse
  <2> QED BY <2>5 DEF Motion!Next
<1> QED BY <1>3, <1>4, <1>5 DEF Take

LEMMA MotionMaps == MotionInv /\ [Next]_vars => [Motion!Next]_(Motion!vars)
<1> DEFINE Same == UNCHANGED <<epoch, PlanInForce, plan.ie, plan.fe, ToBrake, cmd>>
<1> SUFFICES ASSUME MotionInv, [Next]_vars PROVE Motion!Next \/ Same
  BY DEF Motion!vars
<1>1. CASE Activate
  <2>1. /\ plan' = NoPlan /\ cmd' = StartCommand /\ epoch' = epoch + 1
        /\ dec' = NoDecision
    BY <1>1 DEF Activate
  <2>2. plan'.ie = 1 /\ plan'.fe = 1 /\ Motion!Empty(PlanInForce')
    BY <2>1 DEF PlanInForce, NoPlan, Motion!Empty
  <2>3. ~ToBrake'
    BY <2>1 DEF ToBrake, NoDecision
  <2>4. cmd'.kind = "start" /\ ~cmd'.moving
    BY <2>1 DEF StartCommand
  <2>5. Motion!Activate
    BY <2>1, <2>2, <2>3, <2>4 DEF Motion!Activate, Motion!Idle
  <2> QED BY <2>5 DEF Motion!Next
<1>2. CASE UpdateSync \/ DecideFresh \/ Bootstrap \/ DecideStale
  BY <1>2, CommandMaps
<1>3. CASE Take
  BY <1>3, TakeMaps
<1>4. CASE Deactivate \/ NotifyStop \/ Join \/ Publish \/ WorkerCheck \/ WorkerSleep
           \/ SpuriousWakeup \/ WorkerCompute \/ WorkerStore \/ UNCHANGED vars
  <2>1. UNCHANGED <<param, epoch, plan, cmd, dec>>
    BY <1>4 DEF Deactivate, NotifyStop, Join, Publish, WorkerCheck, WorkerSleep,
                SpuriousWakeup, WorkerCompute, WorkerStore, vars, rtVars
  <2> QED BY <2>1 DEF PlanInForce, ToBrake
<1> QED BY <1>1, <1>2, <1>3, <1>4 DEF Next

LEMMA MotionStarts == Init => Motion!Init
<1> SUFFICES ASSUME Init PROVE Motion!Init
  OBVIOUS
<1>1. plan.ie = 1 /\ plan.fe = 1 /\ Motion!Empty(PlanInForce)
  BY DEF Init, PlanInForce, NoPlan, Motion!Empty
<1>2. ~ToBrake
  BY DEF Init, ToBrake, NoDecision
<1>3. cmd.kind = "start" /\ ~cmd.moving
  BY DEF Init, StartCommand
<1> QED BY <1>1, <1>2, <1>3 DEF Init, Motion!Init, Motion!Idle

\* The shield implements its promise for every path, prefix, horizon and brake, with the
\* worker or without it: every sample commanded is the next one of the plan in force, a
\* plan comes into force only when the monitor of this activation found nothing against
\* it and its brake goes on from where its prefix ends, and once a brake is decided only
\* another plan ends it.
THEOREM VerifiedMotionImplemented == Spec => ImplementsVerifiedMotion
  BY InitMotion, StepMotion, MotionMaps, MotionStarts, PTL
     DEF Spec, ImplementsVerifiedMotion, Motion!Spec
=============================================================================
