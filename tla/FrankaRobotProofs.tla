-------------------------- MODULE FrankaRobotProofs --------------------------
(***************************************************************************)
(* What FrankaRobot guarantees for every set of control loops and every    *)
(* bound: its types; that finish_ is owned by a thread inside stopRobot,   *)
(* unless robot_->stop() threw in a recovery; that stopped_ is set only    *)
(* when the control thread has been joined, in a build with assertions or  *)
(* in any build whose recovery service is not used; that it takes a        *)
(* recovery to make the threads collide; and that in a calm environment    *)
(* they do not collide at all, and the arm is the abstract one of Arm.     *)
(***************************************************************************)
EXTENDS FrankaRobot, TLAPS

InitLabels == {"init", "spawn"}
ReadLabels == {"readCheck", "readOnce", "reading", "readRecheck"}
StopJobs   == {"read", "switch", "deactivate", "recover"}
InitJobs   == {"switch", "activate", "recover"}

\* A thread inside stopRobot or initialize... runs an operation that calls it,
\* and loops are started only while the component is active.
JobOK ==
  /\ job["rec"] = "recover" /\ job["rt"] # "recover"
  /\ job["rt"] \in {"switch", "activate"} \/ pc["rt"] = "update" => active
  /\ pc["rt"] \in ReadLabels => job["rt"] = "read"
  /\ \A t \in Threads :
       /\ pc[t] \in StopLabels => job[t] \in StopJobs
       /\ pc[t] \in InitLabels => job[t] \in InitJobs

TypeInv == TypeOK /\ JobOK

\* Where stopRobot and initialize... return to.
LEMMA ReturnAddress ==
  /\ \A j \in StopJobs : /\ AfterStop[j] \in {"readUnlock", "init", "idle", "params"}
                         /\ AfterStop[j] = "init" <=> j = "switch"
  /\ \A j \in InitJobs : AfterSpawn[j] \in {"write", "idle", "recUnlock"}
  BY DEF AfterStop, AfterSpawn, StopJobs, InitJobs

LEMMA InitType == Init => TypeInv
<1> SUFFICES ASSUME Init PROVE TypeInv
  OBVIOUS
<1>1. pc["rt"] = "idle" /\ pc["rec"] = "recIdle"
  BY DEF Init, Threads
<1>2. JobOK
  BY <1>1 DEF Init, JobOK, Threads, StopLabels, InitLabels, ReadLabels
<1>3. hasError \in BOOLEAN /\ paramsSet \in BOOLEAN /\ asserts \in BOOLEAN
  BY SettingsAssumption DEF Init
<1>4. pc \in [Threads -> Labels]
  BY DEF Init, Threads, Labels
<1>5. job \in [Threads -> {"read", "switch", "activate", "deactivate", "recover"}]
  BY DEF Init, Threads
<1>6. stopped \in BOOLEAN /\ finish \in BOOLEAN /\ reflex \in BOOLEAN /\ active \in BOOLEAN
      /\ gaveUp \in BOOLEAN
  BY Zenon DEF Init
<1>7. TypeOK
  BY <1>3, <1>4, <1>5, <1>6, BoundsAssumption DEF Init, TypeOK, Modes, LoopStates
<1> QED BY <1>2, <1>7 DEF TypeInv

LEMMA CallType ==
  ASSUME TypeInv, NEW t \in Threads, Call(t)
  PROVE  TypeInv'
<1> USE ReturnAddress
    DEF TypeInv, TypeOK, JobOK, Threads, Labels, LoopStates,
        StopLabels, InitLabels, ReadLabels, StopJobs, InitJobs, Goto, Die, flags, locks, counts, noted
<1>1. CASE StopCheck(t)
  <2>1. pc[t] = "stop" /\ job[t] \in StopJobs
    BY <1>1 DEF StopCheck
  <2>2. CASE stopped
    BY <1>1, <2>1, <2>2 DEF StopCheck
  <2>3. CASE ~stopped
    BY <1>1, <2>1, <2>3 DEF StopCheck
  <2> QED BY <2>2, <2>3
<1>2. CASE StopSetFinish(t)   BY <1>2 DEF StopSetFinish
<1>3. CASE StopJoin(t)        BY <1>3 DEF StopJoin
<1>4. CASE StopJoined(t)      BY <1>4 DEF StopJoined
<1>5. CASE StopClearFinish(t)
  <2>1. finish' \in BOOLEAN
    BY <1>5, Zenon DEF StopClearFinish
  <2> QED BY <1>5, <2>1 DEF StopClearFinish
<1>6. CASE StopMark(t)
  <2>1. pc[t] = "cleared" /\ job[t] \in StopJobs
    BY <1>6 DEF StopMark
  <2>2. AfterStop[job[t]] \in {"readUnlock", "idle", "params"} \/ job[t] = "switch"
    BY <2>1
  <2> QED BY <1>6, <2>1, <2>2 DEF StopMark
<1>7. CASE InitializeLoop(t)
  <2>1. CASE fault' = "assert" /\ UNCHANGED <<pc, stopped>>
    BY <1>7, <2>1 DEF InitializeLoop
  <2>2. CASE stopped' = FALSE /\ Goto(t, "spawn") /\ UNCHANGED fault
    <3>1. stopped' \in BOOLEAN
      BY <2>2, Zenon
    <3> QED BY <1>7, <2>2, <3>1 DEF InitializeLoop
  <2> QED BY <1>7, <2>1, <2>2 DEF InitializeLoop
<1>8. CASE SpawnLoop(t)       BY <1>8 DEF SpawnLoop
<1>9. CASE StopThrows(t)
  <2>1. gaveUp' \in BOOLEAN
    <3>1. gaveUp' = TRUE \/ gaveUp' = gaveUp
      BY <1>9, Zenon DEF StopThrows
    <3> QED BY <3>1
  <2> QED BY <1>9, <2>1 DEF StopThrows
<1> QED BY <1>1, <1>2, <1>3, <1>4, <1>5, <1>6, <1>7, <1>8, <1>9 DEF Call, StopRobot

LEMMA LoopType ==
  ASSUME TypeInv, Loop
  PROVE  TypeInv'
<1> USE DEF TypeInv, TypeOK, JobOK, LoopStates, LoopMove, Die, flags, counts, noted
<1>1. CASE LoopEnter       BY <1>1 DEF LoopEnter
<1>2. CASE LoopPacket      BY <1>2 DEF LoopPacket
<1>3. CASE LoopStoreState  BY <1>3 DEF LoopStoreState, locks
<1>4. CASE LoopCommand     BY <1>4 DEF LoopCommand
<1>5. CASE LoopCheckFinish BY <1>5 DEF LoopCheckFinish
<1>6. CASE LoopSeeReflex   BY <1>6 DEF LoopSeeReflex, locks
<1>7. CASE LoopUnwind      BY <1>7 DEF LoopUnwind
<1>8. CASE LoopFail        BY <1>8 DEF LoopFail, locks
<1> QED BY <1>1, <1>2, <1>3, <1>4, <1>5, <1>6, <1>7, <1>8 DEF Loop

LEMMA RtType ==
  ASSUME TypeInv, Read \/ NoSwitch \/ Write
  PROVE  TypeInv'
<1> USE DEF TypeInv, TypeOK, JobOK, Threads, Labels, StopLabels, InitLabels,
        ReadLabels, StopJobs, InitJobs, Goto, Die, flags, locks, counts, noted
<1>1. CASE ReadLock      BY <1>1 DEF ReadLock
<1>2. CASE ReadCheck     BY <1>2 DEF ReadCheck
<1>3. CASE ReadOnceBegin BY <1>3 DEF ReadOnceBegin
<1>4. CASE ReadOnceEnd   BY <1>4 DEF ReadOnceEnd
<1>5. CASE ReadRecheck
  <2>1. Goto("rt", "stop") \/ Goto("rt", "readUnlock")
    BY <1>5 DEF ReadRecheck
  <2>2. job["rt"] = "read"
    BY <1>5 DEF ReadRecheck
  <2> QED BY <1>5, <2>1, <2>2 DEF ReadRecheck
<1>6. CASE ReadUnlock    BY <1>6 DEF ReadUnlock
<1>7. CASE NoSwitch      BY <1>7 DEF NoSwitch
<1>8. CASE Write         BY <1>8 DEF Write
<1> QED BY <1>1, <1>2, <1>3, <1>4, <1>5, <1>6, <1>7, <1>8 DEF Read

LEMMA RecoveryType ==
  ASSUME TypeInv, Recovery
  PROVE  TypeInv'
<1> USE DEF TypeInv, TypeOK, JobOK, Threads, Modes, Labels, StopLabels,
        InitLabels, ReadLabels, StopJobs, InitJobs, Goto, Die, flags, locks, counts, noted
<1>1. CASE RecoverCommand
  <2>1. reflex' \in BOOLEAN
    <3>1. reflex' = FALSE \/ reflex' = reflex
      BY <1>1, Zenon DEF RecoverCommand
    <3> QED BY <3>1
  <2> QED BY <1>1, <2>1 DEF RecoverCommand
<1>2. CASE RecoverClearError
  <2>1. hasError' \in BOOLEAN
    BY <1>2, Zenon DEF RecoverClearError
  <2> QED BY <1>2, <2>1 DEF RecoverClearError
<1>3. CASE RecoverParams     BY <1>3 DEF RecoverParams
<1>4. CASE RecoverLock       BY <1>4 DEF RecoverLock
<1>5. CASE RecoverUnlock     BY <1>5 DEF RecoverUnlock
<1>6. CASE RecoverParamsThrow BY <1>6 DEF RecoverParamsThrow
<1> QED BY <1>1, <1>2, <1>3, <1>4, <1>5, <1>6 DEF Recovery

LEMMA RequestType ==
  ASSUME TypeInv, Requests \/ ParamEnd
  PROVE  TypeInv'
<1> USE BoundsAssumption
    DEF TypeInv, TypeOK, JobOK, Threads, Modes, Labels, StopLabels, InitLabels,
        ReadLabels, StopJobs, InitJobs, Goto, flags, locks, counts, noted
<1>1. ASSUME NEW m \in Modes, PerformSwitch(m) PROVE TypeInv'
  BY <1>1 DEF PerformSwitch
<1>2. CASE Activate       BY <1>2 DEF Activate
<1>3. CASE Deactivate
  <2>1. active' \in BOOLEAN
    BY <1>3, Zenon DEF Deactivate
  <2> QED BY <1>3, <2>1 DEF Deactivate
<1>4. CASE RecoverRequest BY <1>4 DEF RecoverRequest
<1>5. CASE ParamBegin     BY <1>5 DEF ParamBegin
<1>6. CASE Reflex         BY <1>6 DEF Reflex
<1>7. CASE ParamEnd       BY <1>7 DEF ParamEnd
<1> QED BY <1>1, <1>2, <1>3, <1>4, <1>5, <1>6, <1>7 DEF Requests

LEMMA StepType == TypeInv /\ [Next]_vars => TypeInv'
<1> SUFFICES ASSUME TypeInv, [Next]_vars PROVE TypeInv'
  OBVIOUS
<1>1. CASE RtThread
  BY <1>1, RtType, CallType DEF RtThread, Threads
<1>2. CASE RecThread
  BY <1>2, RecoveryType, CallType DEF RecThread, Threads
<1>3. CASE Loop
  BY <1>3, LoopType
<1>4. CASE Requests \/ ParamEnd
  BY <1>4, RequestType
<1>5. CASE UNCHANGED vars
  BY <1>5 DEF vars, flags, locks, counts, noted, TypeInv, TypeOK, JobOK, Threads, Labels,
              LoopStates
<1> QED BY <1>1, <1>2, <1>3, <1>4, <1>5 DEF Next, Over

\* Every variable keeps its type, whatever the threads interleave.
THEOREM TypeCorrect == Spec => []TypeOK
<1>1. TypeInv => TypeOK
  BY DEF TypeInv
<1> QED BY <1>1, InitType, StepType, PTL DEF Spec

-----------------------------------------------------------------------------
OwnInv == TypeInv /\ LoopOwnership /\ SoleCaller

\* Ownership holds until an unguarded recovery; from then on only types do.
StopInv == TypeInv /\ (Guarded => LoopOwnership /\ SoleCaller)

LEMMA InitStop == Init => StopInv
<1> SUFFICES ASSUME Init PROVE StopInv
  OBVIOUS
<1>1. pc["rt"] = "idle" /\ pc["rec"] = "recIdle" /\ loop = "none" /\ stopped
  BY DEF Init, Threads
<1> QED
  BY <1>1, InitType DEF StopInv, LoopOwnership, StoppedMeansNoLoop, SoleCaller, Threads

\* The steps of stopRobot and initialize..., where ownership changes hands.
LEMMA CallStop ==
  ASSUME OwnInv, Guarded, NEW t \in Threads, Call(t)
  PROVE  LoopOwnership' /\ SoleCaller'
<1> USE ReturnAddress
    DEF OwnInv, LoopOwnership, StoppedMeansNoLoop, SoleCaller, Threads, StopLabels,
        TypeInv, TypeOK, JobOK, InitLabels, StopJobs, InitJobs, Goto, Die, flags, counts, noted
<1>1. CASE StopCheck(t)
  BY <1>1 DEF StopCheck
<1>2. CASE StopSetFinish(t)
  BY <1>2 DEF StopSetFinish
<1>3. CASE StopJoin(t)
  BY <1>3 DEF StopJoin
<1>4. CASE StopJoined(t)
  BY <1>4 DEF StopJoined
<1>5. CASE StopClearFinish(t)
  BY <1>5 DEF StopClearFinish
<1>6. CASE StopMark(t)
  <2>1. pc[t] = "cleared" /\ stopped' /\ loop' = "none" /\ loop = "none"
    BY <1>6 DEF StopMark
  <2>2. \A u \in Threads : pc'[u] \notin {"joined", "cleared", "joining", "spawn"}
    BY <1>6, <2>1 DEF StopMark
  <2>3. LoopOwnership'
    BY <2>1, <2>2
  <2>4. SoleCaller'
    BY <1>6, <2>1 DEF StopMark
  <2> QED BY <2>3, <2>4
<1>7. CASE InitializeLoop(t)
  <2>1. pc[t] = "init" /\ UNCHANGED <<loop, job, active, recoveries>>
    BY <1>7 DEF InitializeLoop
  <2>2. CASE UNCHANGED <<pc, stopped>>
    BY <2>1, <2>2
  <2>3. CASE (stopped \/ ~asserts) /\ ~stopped' /\ Goto(t, "spawn")
    <3>1. stopped /\ loop = "none"
      BY <2>1, <2>3 DEF Guarded
    <3>2. pc'[t] = "spawn" /\ \A u \in Threads \ {t} : pc'[u] = pc[u]
      BY <2>3
    <3>3. \A u \in Threads \ {t} : pc[u] \notin {"joined", "cleared", "joining", "spawn"}
      BY <3>1
    <3>4. LoopOwnership'
      BY <2>1, <2>3, <3>1, <3>2, <3>3
    <3>5. SoleCaller'
      BY <2>1, <2>3, <3>1
    <3> QED BY <3>4, <3>5
  <2> QED BY <1>7, <2>2, <2>3 DEF InitializeLoop
<1>8. CASE SpawnLoop(t)
  BY <1>8 DEF SpawnLoop
<1>9. CASE StopThrows(t)
  BY <1>9 DEF StopThrows
<1> QED BY <1>1, <1>2, <1>3, <1>4, <1>5, <1>6, <1>7, <1>8, <1>9 DEF Call, StopRobot

\* A step of the control thread neither frees a joinable thread nor moves a caller.
LEMMA LoopStop ==
  ASSUME OwnInv, Loop
  PROVE  LoopOwnership' /\ SoleCaller'
<1>1. loop # "none" /\ loop' # "none" /\ UNCHANGED <<pc, job, stopped, active, recoveries>>
  BY DEF Loop, LoopEnter, LoopPacket, LoopStoreState, LoopCommand, LoopCheckFinish,
         LoopSeeReflex, LoopUnwind, LoopFail, LoopMove, Die, flags, counts, noted
<1> QED
  BY <1>1 DEF OwnInv, LoopOwnership, StoppedMeansNoLoop, SoleCaller

OwnerLabels == {"joining", "joined", "cleared", "spawn"}

\* Every other step leaves the loop and stopped_ alone and enters none of the
\* labels LoopOwnership speaks of.
LEMMA FrameStop ==
  ASSUME OwnInv, UNCHANGED <<loop, stopped>>,
         \A u \in Threads : pc'[u] # pc[u] => pc'[u] \notin OwnerLabels
  PROVE  LoopOwnership'
  BY DEF OwnInv, LoopOwnership, StoppedMeansNoLoop, OwnerLabels

LEMMA RtStop ==
  ASSUME OwnInv, Read \/ NoSwitch \/ Write
  PROVE  LoopOwnership' /\ SoleCaller'
<1> USE DEF OwnInv, TypeInv, TypeOK, Threads, Goto, flags, counts, noted
<1>1. UNCHANGED <<loop, stopped, active, recoveries>> /\ pc'["rec"] = pc["rec"]
  BY DEF Read, ReadLock, ReadCheck, ReadOnceBegin, ReadOnceEnd, ReadRecheck,
         ReadUnlock, NoSwitch, Write
<1>2. pc'["rt"] \notin OwnerLabels \cup {"init"}
  BY DEF Read, ReadLock, ReadCheck, ReadOnceBegin, ReadOnceEnd, ReadRecheck,
         ReadUnlock, NoSwitch, Write, OwnerLabels
<1>3. pc["rt"] \notin StopLabels
  BY DEF Read, ReadLock, ReadCheck, ReadOnceBegin, ReadOnceEnd, ReadRecheck,
         ReadUnlock, NoSwitch, Write, StopLabels
<1>4. LoopOwnership'
  BY <1>1, <1>2, FrameStop
<1>5. SoleCaller'
  BY <1>1, <1>2, <1>3 DEF SoleCaller
<1> QED BY <1>4, <1>5

LEMMA RecoveryStop ==
  ASSUME OwnInv, Recovery
  PROVE  LoopOwnership' /\ SoleCaller'
<1> USE DEF OwnInv, TypeInv, TypeOK, Threads, Goto, Die, flags, counts, noted
<1>1. UNCHANGED <<loop, stopped, active, job, recoveries>> /\ pc'["rt"] = pc["rt"]
  BY DEF Recovery, RecoverCommand, RecoverClearError, RecoverParamsThrow, RecoverParams,
          RecoverLock,
         RecoverUnlock
<1>2. pc'["rec"] # pc["rec"] => pc'["rec"] \notin OwnerLabels
  BY DEF Recovery, RecoverCommand, RecoverClearError, RecoverParamsThrow, RecoverParams,
          RecoverLock,
         RecoverUnlock, OwnerLabels
<1>3. pc["rec"] # "recIdle"
  BY DEF Recovery, RecoverCommand, RecoverClearError, RecoverParamsThrow, RecoverParams,
          RecoverLock,
         RecoverUnlock
<1>4. LoopOwnership'
  BY <1>1, <1>2, FrameStop
<1> QED BY <1>1, <1>3, <1>4 DEF SoleCaller

LEMMA RequestStop ==
  ASSUME OwnInv, Requests \/ ParamEnd
  PROVE  LoopOwnership' /\ SoleCaller'
<1> USE DEF OwnInv, TypeInv, TypeOK, Threads, Goto, flags, counts, noted
<1>1. ASSUME NEW m \in Modes, PerformSwitch(m) PROVE LoopOwnership' /\ SoleCaller'
  <2>1. UNCHANGED <<loop, stopped, active, recoveries>> /\ pc'["rec"] = pc["rec"]
        /\ pc["rt"] = "update" /\ pc'["rt"] = "stop"
    BY <1>1 DEF PerformSwitch
  <2>2. LoopOwnership'
    BY <2>1, FrameStop DEF OwnerLabels
  <2> QED BY <2>1, <2>2 DEF SoleCaller, StopLabels
<1>2. CASE Activate
  <2>1. UNCHANGED <<loop, stopped, recoveries>> /\ pc'["rec"] = pc["rec"] /\ ~active /\ active'
        /\ pc["rt"] = "idle" /\ pc'["rt"] = "init"
    BY <1>2 DEF Activate
  <2>2. LoopOwnership'
    BY <2>1, FrameStop DEF OwnerLabels
  <2> QED BY <2>1, <2>2 DEF SoleCaller, StopLabels
<1>3. CASE Deactivate
  <2>1. UNCHANGED <<loop, stopped, recoveries>> /\ pc'["rec"] = pc["rec"]
        /\ job'["rt"] = "deactivate" /\ pc'["rt"] = "stop"
    BY <1>3 DEF Deactivate
  <2>2. LoopOwnership'
    BY <2>1, FrameStop DEF OwnerLabels
  <2> QED BY <2>1, <2>2 DEF SoleCaller, StopLabels
<1>4. CASE RecoverRequest
  <2>1. UNCHANGED <<loop, stopped>> /\ pc'["rt"] = pc["rt"]
        /\ pc'["rec"] \in {"recovering", "recIdle"}
    BY <1>4 DEF RecoverRequest
  <2>2. LoopOwnership'
    BY <2>1, FrameStop DEF OwnerLabels
  <2>3. recoveries' # 0
    BY <1>4, BoundsAssumption DEF RecoverRequest
  <2> QED BY <2>2, <2>3 DEF SoleCaller
<1>5. CASE ParamBegin \/ Reflex \/ ParamEnd
  <2>1. UNCHANGED <<loop, stopped, active, job, pc, recoveries>>
    BY <1>5 DEF ParamBegin, Reflex, ParamEnd
  <2> QED BY <2>1 DEF LoopOwnership, StoppedMeansNoLoop, SoleCaller
<1> QED BY <1>1, <1>2, <1>3, <1>4, <1>5 DEF Requests

\* recoveries only grows: a state that is guarded was guarded before.
LEMMA GuardedBefore ==
  ASSUME TypeInv, [Next]_vars, Guarded' PROVE Guarded
<1> USE DEF Guarded
<1>1. CASE RecoverRequest
  BY <1>1, BoundsAssumption DEF RecoverRequest, noted, TypeInv, TypeOK
<1>2. CASE UNCHANGED <<recoveries, asserts>>
  BY <1>2
<1>3. RecoverRequest \/ UNCHANGED <<recoveries, asserts>>
  BY DEF Next, RtThread, RecThread, Read, ReadLock, ReadCheck, ReadOnceBegin,
         ReadOnceEnd, ReadRecheck, ReadUnlock, NoSwitch, Write, Call, StopRobot,
         StopCheck, StopSetFinish, StopJoin, StopJoined, StopThrows, StopClearFinish, StopMark,
         InitializeLoop, SpawnLoop, Recovery, RecoverCommand, RecoverClearError,
         RecoverParamsThrow, RecoverParams, RecoverLock, RecoverUnlock, Over, Loop, LoopEnter, LoopPacket,
         LoopStoreState, LoopCommand, LoopCheckFinish, LoopSeeReflex, LoopUnwind,
         LoopFail, Requests, PerformSwitch, Activate, Deactivate, ParamBegin, Reflex,
         ParamEnd, vars, counts, noted
<1> QED BY <1>1, <1>2, <1>3

LEMMA StepStop == StopInv /\ [Next]_vars => StopInv'
<1> SUFFICES ASSUME StopInv, [Next]_vars PROVE StopInv'
  OBVIOUS
<1>1. TypeInv'
  BY StepType DEF StopInv
<1>2. ASSUME Guarded' PROVE LoopOwnership' /\ SoleCaller'
  <2>1. OwnInv /\ Guarded
    BY <1>2, GuardedBefore DEF StopInv, OwnInv
  <2>2. CASE RtThread
    BY <2>1, <2>2, RtStop, CallStop DEF RtThread, Threads
  <2>3. CASE RecThread
    BY <2>1, <2>3, RecoveryStop, CallStop DEF RecThread, Threads
  <2>4. CASE Loop
    BY <2>1, <2>4, LoopStop
  <2>5. CASE Requests \/ ParamEnd
    BY <2>1, <2>5, RequestStop
  <2>6. CASE UNCHANGED vars
    BY <2>1, <2>6 DEF vars, flags, counts, noted, OwnInv, LoopOwnership, StoppedMeansNoLoop,
                      SoleCaller
  <2> QED BY <2>2, <2>3, <2>4, <2>5, <2>6 DEF Next, Over
<1> QED BY <1>1, <1>2 DEF StopInv

\* isStopped() is never TRUE while a control or reading loop may still run, up to
\* the first recovery, or for ever in a build with assertions.
THEOREM StoppedSafe == Spec => []StoppedUnlessRecovered
<1>1. StopInv => StoppedUnlessRecovered
  BY DEF StopInv, LoopOwnership, StoppedUnlessRecovered
<1> QED BY <1>1, InitStop, StepStop, PTL DEF Spec

-----------------------------------------------------------------------------
\* finish_ is set only between stopRobot's request and its reset, so no loop is
\* started with the request to end already pending, unless a stop is under way
\* or a recovery was thrown out of one.
THEOREM FinishSafe == Spec => []FinishOwned
<1>1. Init => FinishOwned
  <2> SUFFICES ASSUME Init PROVE finish = FALSE
    BY DEF FinishOwned
  <2> QED BY DEF Init
<1>2. TypeOK /\ FinishOwned /\ [Next]_vars => FinishOwned'
  <2> SUFFICES ASSUME TypeOK, FinishOwned, [Next]_vars PROVE FinishOwned'
    OBVIOUS
  <2> USE DEF FinishOwned, TypeOK, Threads, Goto, Die, flags, counts, noted
  <2>1. ASSUME NEW t \in Threads, Call(t) PROVE FinishOwned'
    <3>1. CASE StopCheck(t)       BY <3>1 DEF StopCheck
    <3>2. CASE StopSetFinish(t)   BY <3>2 DEF StopSetFinish
    <3>3. CASE StopJoin(t)        BY <3>3 DEF StopJoin
    <3>4. CASE StopJoined(t)      BY <3>4 DEF StopJoined
    <3>5. CASE StopClearFinish(t) BY <3>5 DEF StopClearFinish
    <3>6. CASE StopMark(t)        BY <3>6 DEF StopMark
    <3>7. CASE InitializeLoop(t)  BY <3>7 DEF InitializeLoop
    <3>8. CASE SpawnLoop(t)       BY <3>8 DEF SpawnLoop
    <3>9. CASE StopThrows(t)      BY <3>9 DEF StopThrows
    <3> QED BY <2>1, <3>1, <3>2, <3>3, <3>4, <3>5, <3>6, <3>7, <3>8, <3>9
            DEF Call, StopRobot
  <2>2. CASE Read \/ NoSwitch \/ Write
    BY <2>2 DEF Read, ReadLock, ReadCheck, ReadOnceBegin, ReadOnceEnd,
                ReadRecheck, ReadUnlock, NoSwitch, Write
  <2>3. CASE Recovery
    BY <2>3 DEF Recovery, RecoverCommand, RecoverClearError, RecoverParamsThrow, RecoverParams,
                RecoverLock, RecoverUnlock
  <2>4. CASE Loop
    BY <2>4 DEF Loop, LoopEnter, LoopPacket, LoopStoreState, LoopCommand,
                LoopCheckFinish, LoopSeeReflex, LoopUnwind, LoopFail
  <2>5. CASE Requests \/ ParamEnd
    BY <2>5 DEF Requests, PerformSwitch, Activate, Deactivate, RecoverRequest,
                ParamBegin, Reflex, ParamEnd
  <2>6. CASE UNCHANGED vars
    BY <2>6 DEF vars
  <2> QED BY <2>1, <2>2, <2>3, <2>4, <2>5, <2>6 DEF Next, Over, RtThread, RecThread
<1> QED BY <1>1, <1>2, TypeCorrect, PTL DEF Spec

-----------------------------------------------------------------------------
Joined  == {"joined", "cleared", "spawn"}
Joining == {"setFinish", "join", "joining"}

\* Without recoveries the update thread is the only one that starts and joins
\* loops: whenever it does not find stopped_ set there is a loop to join.
Unshared ==
  recoveries = 0 =>
    /\ fault \notin Collisions
    /\ pc["rt"] \in Joining => ~stopped
    /\ ~stopped /\ loop = "none" => pc["rt"] \in Joined

ShareInv == StopInv /\ Unshared

LEMMA RtShare ==
  ASSUME ShareInv, recoveries = 0, RtThread
  PROVE  Unshared'
<1>1. OwnInv /\ Guarded /\ LoopOwnership /\ SoleCaller
  BY DEF ShareInv, StopInv, OwnInv, Guarded
<1>2. pc["rec"] = "recIdle" /\ (pc["rt"] = "init" => stopped)
  BY <1>1 DEF SoleCaller
<1> USE ReturnAddress
    DEF ShareInv, Unshared, OwnInv, TypeInv, TypeOK, JobOK, LoopOwnership, StoppedMeansNoLoop,
        Threads, Joined, Joining, Collisions, StopLabels, InitLabels, StopJobs, InitJobs,
        Goto, Die, flags, counts, noted
<1>3. CASE Read \/ NoSwitch \/ Write
  <2>1. UNCHANGED <<loop, stopped, recoveries>> /\ fault' \in {fault, "exception"}
    BY <1>3 DEF Read, ReadLock, ReadCheck, ReadOnceBegin, ReadOnceEnd, ReadRecheck,
                ReadUnlock, NoSwitch, Write
  <2>2. pc["rt"] \notin Joined /\ pc'["rt"] \notin Joining
    BY <1>1, <1>3 DEF Read, ReadLock, ReadCheck, ReadOnceBegin, ReadOnceEnd, ReadRecheck,
                      ReadUnlock, NoSwitch, Write
  <2> QED BY <2>1, <2>2
<1>4. CASE StopCheck("rt")
  BY <1>1, <1>4 DEF StopCheck
<1>5. CASE StopSetFinish("rt")
  BY <1>1, <1>5 DEF StopSetFinish
<1>6. CASE StopJoin("rt")
  BY <1>1, <1>2, <1>6 DEF StopJoin
<1>7. CASE StopJoined("rt")
  BY <1>1, <1>7 DEF StopJoined
<1>8. CASE StopThrows("rt")
  BY <1>1, <1>8 DEF StopThrows
<1>9. CASE StopClearFinish("rt")
  BY <1>1, <1>9 DEF StopClearFinish
<1>10. CASE StopMark("rt")
  BY <1>1, <1>10 DEF StopMark
<1>11. CASE InitializeLoop("rt")
  BY <1>1, <1>2, <1>11 DEF InitializeLoop
<1>12. CASE SpawnLoop("rt")
  BY <1>1, <1>12 DEF SpawnLoop
<1> QED BY <1>3, <1>4, <1>5, <1>6, <1>7, <1>8, <1>9, <1>10, <1>11, <1>12
        DEF RtThread, Call, StopRobot

LEMMA StepShare == ShareInv /\ [Next]_vars => ShareInv'
<1> SUFFICES ASSUME ShareInv, [Next]_vars PROVE ShareInv'
  OBVIOUS
<1>1. StopInv'
  BY StepStop DEF ShareInv
<1>2. ASSUME recoveries' = 0 PROVE Unshared'
  <2>1. CASE RecoverRequest
    BY <1>2, <2>1, BoundsAssumption DEF RecoverRequest, ShareInv, StopInv, TypeInv, TypeOK
  <2>2. CASE ~RecoverRequest
    <3>1. TypeInv /\ UNCHANGED recoveries
      BY <2>2 DEF ShareInv, StopInv, Next, RtThread, RecThread, Read, ReadLock, ReadCheck,
         ReadOnceBegin, ReadOnceEnd, ReadRecheck, ReadUnlock, NoSwitch, Write, Call, StopRobot,
         StopCheck, StopSetFinish, StopJoin, StopJoined, StopThrows, StopClearFinish, StopMark,
         InitializeLoop, SpawnLoop, Recovery, RecoverCommand, RecoverClearError,
         RecoverParamsThrow, RecoverParams, RecoverLock, RecoverUnlock, Over, Loop, LoopEnter,
         LoopPacket, LoopStoreState, LoopCommand, LoopCheckFinish, LoopSeeReflex, LoopUnwind,
         LoopFail, Requests, PerformSwitch, Activate, Deactivate, ParamBegin, Reflex,
         ParamEnd, vars, counts, noted
    <3>2. recoveries = 0
      BY <1>2, <3>1
    <3>3. pc["rec"] = "recIdle" /\ Unshared
      BY <3>2 DEF ShareInv, StopInv, Guarded, SoleCaller
    <3>4. CASE RtThread
      BY <3>2, <3>4, RtShare
    <3>5. CASE RecThread
      BY <3>3, <3>5 DEF RecThread, Recovery, RecoverCommand, RecoverClearError,
         RecoverParamsThrow, RecoverParams, RecoverLock, RecoverUnlock, Call, StopRobot,
         StopCheck, StopSetFinish, StopJoin, StopJoined, StopThrows, StopClearFinish, StopMark,
         InitializeLoop, SpawnLoop
    <3>6. CASE Loop
      <4>1. loop' # "none" /\ UNCHANGED <<pc, stopped>> /\ loop # "none"
            /\ fault' \in {fault, "exception", "invalidOperation"}
        BY <3>6 DEF Loop, LoopEnter, LoopPacket, LoopStoreState, LoopCommand, LoopCheckFinish,
                    LoopSeeReflex, LoopUnwind, LoopFail, LoopMove, Die, flags
      <4> QED BY <3>2, <3>3, <4>1 DEF Unshared, Collisions
    <3>7. CASE Requests \/ ParamEnd
      <4>1. UNCHANGED <<loop, stopped, fault>>
        BY <3>7 DEF Requests, PerformSwitch, Activate, Deactivate, RecoverRequest, ParamBegin,
                    Reflex, ParamEnd, flags
      <4>2. pc'["rt"] = pc["rt"] \/ (pc["rt"] \in {"idle", "update"} /\ pc'["rt"] \in {"stop", "init"})
        BY <3>1, <3>7 DEF Requests, PerformSwitch, Activate, Deactivate, RecoverRequest,
                    ParamBegin, Reflex, ParamEnd, Goto, TypeInv, TypeOK, Threads
      <4> QED BY <3>2, <3>3, <4>1, <4>2 DEF Unshared, Joined, Joining
    <3>8. CASE UNCHANGED vars
      BY <3>3, <3>8 DEF vars, flags, counts, noted, Unshared
    <3> QED BY <3>4, <3>5, <3>6, <3>7, <3>8 DEF Next, Over
  <2> QED BY <2>1, <2>2
<1>3. Unshared'
  BY <1>2 DEF Unshared
<1> QED BY <1>1, <1>3 DEF ShareInv

\* As long as no recovery was requested, the update thread, the loop and the
\* parameter services never collide - no second join, no failed assertion, no
\* joinable thread replaced - whenever the arm fails and whatever libfranka throws.
THEOREM CollisionsNeedRecovery == Spec => []FaultsNeedRecovery
<1>1. Init => ShareInv
  <2> SUFFICES ASSUME Init PROVE ShareInv
    OBVIOUS
  <2>1. pc["rt"] = "idle" /\ stopped /\ fault = "none"
    BY DEF Init, Threads
  <2> QED BY <2>1, InitStop DEF ShareInv, Unshared, Joining, Collisions
<1>2. ShareInv => FaultsNeedRecovery
  BY DEF ShareInv, Unshared, FaultsNeedRecovery
<1> QED BY <1>1, <1>2, StepShare, PTL DEF Spec

-----------------------------------------------------------------------------
\* In a calm environment - a request arrives only while the arm is quiescent -
\* the recovery and the update thread do not meet in stopRobot, in libfranka or
\* under read_mutex_, whether the arm starts in error or not.
Inside  == {"entered", "wantRead", "wantWrite", "checkFinish", "sawReflex", "unwind"}
Owned   == {"switch", "activate", "deactivate"}
Restart == {"stop", "params", "recLock", "init", "spawn"}

RtReads == pc["rt"] \in ReadLabels \cup {"readUnlock"}
             \/ (pc["rt"] \in StopLabels /\ job["rt"] = "read")

\* Who holds read_mutex_, and who is inside libfranka.
Holders ==
  /\ readMutex = "rt" <=> RtReads
  /\ readMutex = "rec" <=> pc["rec"] \in {"init", "spawn", "recUnlock"}
  /\ lib = "rt" <=> pc["rt"] = "reading"
  /\ lib = "loop" <=> loop \in Inside

\* stopped_ and control_thread_ disagree only where a thread is about to mend it;
\* only on_activate starts a loop without having stopped the one before.
Joinable ==
  /\ stopped => loop = "none"
  /\ ~stopped /\ loop = "none" => pc["rec"] = "spawn" \/ pc["rt"] \in Joined
  /\ pc["rt"] \in {"joined", "cleared"} => ~stopped /\ loop = "none"
  /\ pc["rt"] \in Joining => ~stopped /\ loop # "none"
  /\ pc["rt"] = "init" => stopped \/ job["rt"] = "activate"
  /\ pc["rt"] = "spawn" => ~stopped /\ (loop = "none" \/ job["rt"] = "activate")

\* The recovery finds the loop stopped, leaves it to read to join one, and has
\* the arm to itself until it has restarted the loop.
RecoveryAlone ==
  /\ pc["rec"] \notin {"setFinish", "join", "joining", "joined", "cleared"}
  /\ pc["rec"] # "recIdle" => job["rt"] = "read"
  /\ pc["rec"] \in {"recovering", "clearError", "stop", "params", "recLock", "init"} => stopped
  /\ pc["rec"] = "spawn" => ~stopped /\ loop = "none"
  /\ pc["rec"] \in Restart => ~hasError

\* No error while the update thread switches or changes the lifecycle, or before
\* a new loop has entered libfranka.
NoErrorYet ==
  /\ job["rt"] \in Owned =>
       /\ ~hasError /\ ~reflex /\ loop \notin {"failed", "unwind", "sawReflex"}
       /\ pc["rec"] = "recIdle"
  /\ loop = "spawned" => ~hasError /\ pc["rt"] \notin {"readOnce", "reading"}

Peace   == Holders /\ Joinable /\ RecoveryAlone /\ NoErrorYet
CalmInv == TypeInv /\ Peace

LEMMA InitCalm == Init => CalmInv
<1> SUFFICES ASSUME Init PROVE CalmInv
  OBVIOUS
<1>1. pc["rt"] = "idle" /\ pc["rec"] = "recIdle" /\ job["rt"] = "read"
  BY DEF Init, Threads
<1>2. stopped /\ loop = "none" /\ readMutex = "free" /\ lib = "free"
  BY DEF Init
<1>3. Peace
  BY <1>1, <1>2
     DEF Peace, Holders, Joinable, RecoveryAlone, NoErrorYet, RtReads, Inside, Owned,
         Joined, Joining, Restart, ReadLabels, StopLabels
<1> QED BY <1>3, InitType DEF CalmInv

LEMMA CallCalm ==
  ASSUME CalmInv, NEW t \in Threads, Call(t)
  PROVE  Peace'
<1> USE ReturnAddress
    DEF CalmInv, Peace, Holders, Joinable, RecoveryAlone, NoErrorYet, RtReads,
        Inside, Owned, Joined, Joining, Restart, ReadLabels, StopLabels, Threads,
        TypeInv, TypeOK, JobOK, InitLabels, StopJobs, InitJobs, Goto, Die, flags,
        locks, counts, noted
<1>1. CASE StopCheck(t)
  <2>1. pc[t] = "stop" /\ UNCHANGED <<job, loop, hasError, stopped, readMutex, lib, reflex, active, fault>>
    BY <1>1 DEF StopCheck
  <2>2. CASE t = "rec"
    <3>1. stopped /\ job["rec"] = "recover" /\ AfterStop["recover"] = "params"
      BY <2>1, <2>2 DEF AfterStop
    <3>2. pc' = [pc EXCEPT !["rec"] = "params"]
      BY <1>1, <2>2, <3>1 DEF StopCheck
    <3> QED BY <2>1, <2>2, <3>1, <3>2
  <2>3. CASE t = "rt"
    <3>1. job["rt"] \in {"read", "switch", "deactivate"}
      BY <2>1, <2>3
    <3>2. CASE stopped
      <4>1. pc' = [pc EXCEPT !["rt"] = AfterStop[job["rt"]]]
        BY <1>1, <2>3, <3>2 DEF StopCheck
      <4>2. CASE job["rt"] = "read"
        <5>1. pc'["rt"] = "readUnlock" /\ pc'["rec"] = pc["rec"]
          BY <4>1, <4>2 DEF AfterStop
        <5> QED BY <2>1, <2>3, <3>2, <4>2, <5>1
      <4>3. CASE job["rt"] = "switch"
        <5>1. pc'["rt"] = "init" /\ pc'["rec"] = pc["rec"]
          BY <4>1, <4>3 DEF AfterStop
        <5> QED BY <2>1, <2>3, <3>2, <4>3, <5>1
      <4>4. CASE job["rt"] = "deactivate"
        <5>1. pc'["rt"] = "idle" /\ pc'["rec"] = pc["rec"]
          BY <4>1, <4>4 DEF AfterStop
        <5> QED BY <2>1, <2>3, <3>2, <4>4, <5>1
      <4> QED BY <3>1, <4>2, <4>3, <4>4
    <3>3. CASE ~stopped
      <4>1. pc'["rt"] = "setFinish" /\ pc'["rec"] = pc["rec"]
        BY <1>1, <2>3, <3>3 DEF StopCheck
      <4> QED BY <2>1, <2>3, <3>1, <3>3, <4>1
    <3> QED BY <3>2, <3>3
  <2> QED BY <2>2, <2>3
<1>2. CASE StopSetFinish(t)
  BY <1>2 DEF StopSetFinish
<1>3. CASE StopJoin(t)
  BY <1>3 DEF StopJoin
<1>4. CASE StopJoined(t)
  BY <1>4 DEF StopJoined
<1>5. CASE StopClearFinish(t)
  BY <1>5 DEF StopClearFinish
<1>6. CASE StopMark(t)
  <2>1. pc[t] = "cleared" /\ stopped'
        /\ UNCHANGED <<job, loop, hasError, readMutex, lib, reflex, active, fault>>
    BY <1>6 DEF StopMark
  <2>2. t = "rt" /\ job["rt"] \in {"read", "switch", "deactivate"}
    BY <2>1
  <2>3. pc["rec"] # "spawn"
    BY <2>1, <2>2
  <2>4. pc' = [pc EXCEPT !["rt"] = AfterStop[job["rt"]]]
    BY <1>6, <2>2 DEF StopMark
  <2>5. CASE job["rt"] = "read"
    <3>1. pc'["rt"] = "readUnlock" /\ pc'["rec"] = pc["rec"]
      BY <2>4, <2>5 DEF AfterStop
    <3> QED BY <2>1, <2>2, <2>3, <2>5, <3>1
  <2>6. CASE job["rt"] = "switch"
    <3>1. pc'["rt"] = "init" /\ pc'["rec"] = pc["rec"]
      BY <2>4, <2>6 DEF AfterStop
    <3> QED BY <2>1, <2>2, <2>3, <2>6, <3>1
  <2>7. CASE job["rt"] = "deactivate"
    <3>1. pc'["rt"] = "idle" /\ pc'["rec"] = pc["rec"]
      BY <2>4, <2>7 DEF AfterStop
    <3> QED BY <2>1, <2>2, <2>3, <2>7, <3>1
  <2> QED BY <2>2, <2>5, <2>6, <2>7
<1>7. CASE InitializeLoop(t)
  BY <1>7 DEF InitializeLoop
<1>8. CASE SpawnLoop(t) /\ loop # "none"
  BY <1>8 DEF SpawnLoop
<1>9. CASE SpawnLoop(t) /\ loop = "none"
  <2>1. pc[t] = "spawn" /\ loop = "none" /\ loop' = "spawned"
        /\ UNCHANGED <<job, hasError, stopped, readMutex, lib, reflex, active, fault>>
    BY <1>9 DEF SpawnLoop
  <2>2. pc' = [pc EXCEPT ![t] = AfterSpawn[job[t]]]
    BY <1>9, <2>1 DEF SpawnLoop
  <2>3. CASE t = "rec"
    <3>1. pc'["rec"] = "recUnlock" /\ pc'["rt"] = pc["rt"]
      BY <2>2, <2>3 DEF AfterSpawn
    <3> QED BY <2>1, <2>3, <3>1
  <2>4. CASE t = "rt"
    <3>1. job["rt"] \in {"switch", "activate"}
      BY <2>1, <2>4
    <3>2. pc'["rt"] \in {"write", "idle"} /\ pc'["rec"] = pc["rec"]
      BY <2>2, <2>4, <3>1 DEF AfterSpawn
    <3> QED BY <2>1, <2>4, <3>1, <3>2
  <2> QED BY <2>3, <2>4
<1>10. CASE StopThrows(t)
  BY <1>10 DEF StopThrows
<1> QED BY <1>1, <1>2, <1>3, <1>4, <1>5, <1>6, <1>7, <1>8, <1>9, <1>10
        DEF Call, StopRobot

LEMMA LoopCalm ==
  ASSUME CalmInv, Loop
  PROVE  Peace'
<1> USE DEF CalmInv, Peace, Holders, Joinable, RecoveryAlone, NoErrorYet, RtReads,
        Inside, Owned, Joined, Joining, Restart, ReadLabels, StopLabels, Threads,
        TypeInv, TypeOK, LoopStates, LoopMove, Die, flags, counts, noted
<1>1. CASE LoopEnter       BY <1>1 DEF LoopEnter
<1>2. CASE LoopPacket      BY <1>2 DEF LoopPacket
<1>3. CASE LoopStoreState  BY <1>3 DEF LoopStoreState, locks
<1>4. CASE LoopCommand     BY <1>4 DEF LoopCommand
<1>5. CASE LoopCheckFinish BY <1>5 DEF LoopCheckFinish
<1>6. CASE LoopSeeReflex   BY <1>6 DEF LoopSeeReflex, locks
<1>7. CASE LoopUnwind      BY <1>7 DEF LoopUnwind
<1>8. CASE LoopFail        BY <1>8 DEF LoopFail, locks
<1> QED BY <1>1, <1>2, <1>3, <1>4, <1>5, <1>6, <1>7, <1>8 DEF Loop

LEMMA RtCalm ==
  ASSUME CalmInv, Read \/ NoSwitch \/ Write
  PROVE  Peace'
<1> USE DEF CalmInv, Peace, Holders, Joinable, RecoveryAlone, NoErrorYet, RtReads,
        Inside, Owned, Joined, Joining, Restart, ReadLabels, StopLabels, Threads,
        TypeInv, TypeOK, JobOK, Goto, Die, flags, locks, counts, noted
<1>1. CASE ReadLock      BY <1>1 DEF ReadLock
<1>2. CASE ReadCheck     BY <1>2 DEF ReadCheck
<1>3. CASE ReadOnceBegin BY <1>3 DEF ReadOnceBegin
<1>4. CASE ReadOnceEnd   BY <1>4 DEF ReadOnceEnd
<1>5. CASE ReadRecheck   BY <1>5 DEF ReadRecheck
<1>6. CASE ReadUnlock    BY <1>6 DEF ReadUnlock
<1>7. CASE NoSwitch      BY <1>7 DEF NoSwitch
<1>8. CASE Write         BY <1>8 DEF Write
<1> QED BY <1>1, <1>2, <1>3, <1>4, <1>5, <1>6, <1>7, <1>8 DEF Read

LEMMA RecoveryCalm ==
  ASSUME Calm, CalmInv, Recovery
  PROVE  Peace'
<1> USE DEF CalmInv, Peace, Holders, Joinable, RecoveryAlone, NoErrorYet, RtReads,
        Inside, Owned, Joined, Joining, Restart, ReadLabels, StopLabels, Threads,
        TypeInv, TypeOK, JobOK, Goto, Die, flags, locks, counts, noted
<1>1. CASE RecoverCommand    BY <1>1 DEF RecoverCommand
<1>2. CASE RecoverClearError BY <1>2 DEF RecoverClearError
<1>3. CASE RecoverParams     BY <1>3 DEF RecoverParams
<1>4. CASE RecoverLock       BY <1>4 DEF RecoverLock
<1>5. CASE RecoverUnlock     BY <1>5 DEF RecoverUnlock
<1>6. CASE RecoverParamsThrow BY <1>6 DEF RecoverParamsThrow
<1> QED BY <1>1, <1>2, <1>3, <1>4, <1>5, <1>6 DEF Recovery

LEMMA RequestCalm ==
  ASSUME Calm, CalmInv, Requests \/ ParamEnd
  PROVE  Peace'
<1> USE DEF CalmInv, Peace, Holders, Joinable, RecoveryAlone, NoErrorYet, RtReads,
        Inside, Owned, Joined, Joining, Restart, ReadLabels, StopLabels, Threads,
        TypeInv, TypeOK, JobOK, Goto, flags, locks, counts, noted, Quiet, Settled
<1>1. ASSUME NEW m \in Modes, PerformSwitch(m) PROVE Peace'
  BY <1>1 DEF PerformSwitch
<1>2. CASE Activate       BY <1>2 DEF Activate
<1>3. CASE Deactivate     BY <1>3 DEF Deactivate
<1>4. CASE RecoverRequest BY <1>4 DEF RecoverRequest
<1>5. CASE ParamBegin     BY <1>5 DEF ParamBegin
<1>6. CASE Reflex         BY <1>6 DEF Reflex
<1>7. CASE ParamEnd       BY <1>7 DEF ParamEnd
<1> QED BY <1>1, <1>2, <1>3, <1>4, <1>5, <1>6, <1>7 DEF Requests

LEMMA StepCalm == ASSUME Calm PROVE CalmInv /\ [Next]_vars => CalmInv'
<1> SUFFICES ASSUME CalmInv, [Next]_vars PROVE CalmInv'
  OBVIOUS
<1>1. TypeInv'
  BY StepType DEF CalmInv
<1>2. Peace'
  <2>1. CASE RtThread
    BY <2>1, RtCalm, CallCalm DEF RtThread, Threads
  <2>2. CASE RecThread
    BY <2>2, RecoveryCalm, CallCalm DEF RecThread, Threads
  <2>3. CASE Loop
    BY <2>3, LoopCalm
  <2>4. CASE Requests \/ ParamEnd
    BY <2>4, RequestCalm
  <2>5. CASE UNCHANGED vars
    BY <2>5 DEF vars, flags, locks, counts, noted, CalmInv, Peace, Holders, Joinable,
                RecoveryAlone, NoErrorYet, RtReads
  <2> QED BY <2>1, <2>2, <2>3, <2>4, <2>5 DEF Next, Over
<1> QED BY <1>1, <1>2 DEF CalmInv

\* How the process may die in a calm environment.
CleanInv == CalmInv /\ NoFault

LEMMA CallClean ==
  ASSUME CleanInv, NEW t \in Threads, Call(t)
  PROVE  NoFault'
<1> USE DEF CleanInv, NoFault, CalmInv, Peace, Joinable, RecoveryAlone, NoErrorYet, Owned,
        Joined, Joining, StopLabels, Threads, TypeInv, TypeOK, JobOK, InitLabels, StopJobs,
        InitJobs, Die
<1>1. CASE StopCheck(t) \/ StopSetFinish(t) \/ StopJoined(t) \/ StopClearFinish(t) \/ StopMark(t)
  BY <1>1 DEF StopCheck, StopSetFinish, StopJoined, StopClearFinish, StopMark
<1>2. CASE StopJoin(t)
  BY <1>2 DEF StopJoin
<1>3. CASE StopThrows(t)
  BY <1>3 DEF StopThrows
<1>4. CASE InitializeLoop(t)
  BY <1>4 DEF InitializeLoop
<1>5. CASE SpawnLoop(t)
  BY <1>5 DEF SpawnLoop
<1> QED BY <1>1, <1>2, <1>3, <1>4, <1>5 DEF Call, StopRobot

LEMMA OtherClean ==
  ASSUME CleanInv, Alive, Loop \/ Read \/ NoSwitch \/ Write \/ Recovery \/ Requests \/ ParamEnd
  PROVE  NoFault'
<1> USE DEF CleanInv, NoFault, Alive, CalmInv, Peace, Holders, Joinable, NoErrorYet, Inside,
        Threads, TypeInv, TypeOK, Die
<1>1. CASE Loop
  BY <1>1 DEF Loop, LoopEnter, LoopPacket, LoopStoreState, LoopCommand, LoopCheckFinish,
              LoopSeeReflex, LoopUnwind, LoopFail
<1>2. CASE Read \/ NoSwitch \/ Write
  BY <1>2 DEF Read, ReadLock, ReadCheck, ReadOnceBegin, ReadOnceEnd, ReadRecheck, ReadUnlock,
              NoSwitch, Write
<1>3. CASE Recovery
  BY <1>3 DEF Recovery, RecoverCommand, RecoverClearError, RecoverParams, RecoverParamsThrow,
              RecoverLock, RecoverUnlock
<1>4. CASE Requests \/ ParamEnd
  BY <1>4 DEF Requests, PerformSwitch, Activate, Deactivate, RecoverRequest, ParamBegin,
              Reflex, ParamEnd
<1> QED BY <1>1, <1>2, <1>3, <1>4

LEMMA StepClean == ASSUME Calm PROVE CleanInv /\ [Next]_vars => CleanInv'
<1> SUFFICES ASSUME CleanInv, [Next]_vars PROVE CleanInv'
  OBVIOUS
<1>1. CalmInv'
  BY StepCalm DEF CleanInv
<1>2. CASE UNCHANGED vars
  BY <1>1, <1>2 DEF vars, CleanInv, NoFault
<1>3. ASSUME NEW t \in Threads, Call(t) PROVE NoFault'
  BY <1>3, CallClean
<1>4. ASSUME Alive, Loop \/ Read \/ NoSwitch \/ Write \/ Recovery \/ Requests \/ ParamEnd
      PROVE  NoFault'
  BY <1>4, OtherClean
<1> QED
  BY <1>1, <1>2, <1>3, <1>4 DEF CleanInv, Next, Over, RtThread, RecThread, Threads

\* In a calm environment, whether the arm starts in error or not and in either
\* build, the process dies of an exception of libfranka that its caller does not
\* catch, or in an activation that finds the loop a recovery started before it, or
\* not at all: no loop is joined twice or by two, none begins beside a readOnce, and
\* no switch and no recovery replaces one that runs.
THEOREM NoFaultSafe ==
  ASSUME Calm PROVE Spec => []NoFault
<1>1. Init => CleanInv
  BY InitCalm DEF CleanInv, NoFault, Init
<1>2. CleanInv => NoFault
  BY DEF CleanInv
<1> QED BY <1>1, <1>2, StepClean, PTL DEF Spec

-----------------------------------------------------------------------------
\* Towards the abstract arm: what both a calm environment and one without
\* recoveries keep, and the theorem below needs.  A recovery has the arm to
\* itself, and stopRobot leaves no loop behind.
Joins == {"setFinish", "join", "joining", "joined", "cleared"}

Orderly ==
  /\ stopped => loop = "none"
  /\ pc["rt"] \in {"joined", "cleared"} => loop = "none"
  /\ pc["rec"] \notin Joins
  /\ pc["rec"] = "clearError" => stopped /\ pc["rt"] \notin Joins
  /\ pc["rec"] = "init" => pc["rt"] \notin StopLabels
  /\ pc["rec"] \in Restart => ~hasError /\ loop = "none" /\ job["rt"] = "read"

\* Why the update thread is in stopRobot.
Purpose ==
  /\ job["rt"] = "deactivate" => ~active
  /\ job["rt"] = "read" =>
       /\ pc["rt"] \in Joins => hasError
       /\ pc["rt"] = "stop" /\ ~stopped => hasError
  /\ finish => pc["rt"] \in {"join", "joining", "joined"}
  /\ pc["rec"] \in {"recovering", "clearError"} => hasError

ArmInv == TypeInv /\ Orderly /\ Purpose

LEMMA CalmOrderly == CalmInv => Orderly
  BY DEF CalmInv, Peace, Holders, Joinable, RecoveryAlone, NoErrorYet, RtReads, Joined,
         Joining, Joins, Restart, Orderly, ReadLabels, StopLabels, TypeInv, JobOK, Threads

\* Without recoveries the update thread owns the loop.
Unrecovered == StopInv /\ recoveries = 0

LEMMA UnrecoveredOrderly == Unrecovered => Orderly
<1> SUFFICES ASSUME Unrecovered PROVE Orderly
  OBVIOUS
<1>1. LoopOwnership /\ SoleCaller /\ pc["rec"] = "recIdle"
  BY DEF Unrecovered, StopInv, Guarded, SoleCaller
<1> QED
  BY <1>1 DEF LoopOwnership, StoppedMeansNoLoop, Orderly, Joined, Joins, Restart, Threads

LEMMA StepUnrecovered ==
  ASSUME MaxRecoveries = 0 PROVE Unrecovered /\ [Next]_vars => Unrecovered'
<1> SUFFICES ASSUME Unrecovered, [Next]_vars PROVE Unrecovered'
  OBVIOUS
<1>1. StopInv'
  BY StepStop DEF Unrecovered
<1>2. recoveries' \in 0..MaxRecoveries
  BY <1>1 DEF StopInv, TypeInv, TypeOK
<1> QED BY <1>1, <1>2 DEF Unrecovered

LEMMA InitPurpose == Init => Purpose
<1> SUFFICES ASSUME Init PROVE Purpose
  OBVIOUS
<1>1. pc["rt"] = "idle" /\ pc["rec"] = "recIdle" /\ job["rt"] = "read"
  BY DEF Init, Threads
<1>2. ~finish
  BY DEF Init
<1> QED BY <1>1, <1>2 DEF Purpose, Joins

LEMMA CallPurpose ==
  ASSUME ArmInv, NEW t \in Threads, Call(t)
  PROVE  Purpose'
<1> USE DEF ArmInv, Orderly, Purpose, Joins, Joined, Restart, Threads, StopLabels,
        InitLabels, StopJobs, InitJobs, TypeInv, TypeOK, JobOK, Goto, Die, flags
<1>1. CASE StopCheck(t)
  <2>1. pc[t] = "stop" /\ UNCHANGED <<job, goal, active, hasError, stopped, finish, controlMode>>
    BY <1>1 DEF StopCheck
  <2>2. CASE t = "rec"
    <3>1. job["rec"] = "recover" /\ AfterStop["recover"] = "params"
      BY DEF AfterStop
    <3>2. pc'["rt"] = pc["rt"] /\ pc'["rec"] \in {"params", "setFinish"}
      BY <1>1, <2>1, <2>2, <3>1 DEF StopCheck
    <3> QED BY <2>1, <3>2
  <2>3. CASE t = "rt"
    <3>1. pc'["rec"] = pc["rec"] /\ (stopped => pc'["rt"] \in {"readUnlock", "init", "idle"})
      <4>1. job["rt"] \in {"read", "switch", "deactivate"}
        BY <2>1, <2>3
      <4>2. AfterStop[job["rt"]] \in {"readUnlock", "init", "idle"}
        BY <4>1 DEF AfterStop
      <4> QED BY <1>1, <2>3, <4>2 DEF StopCheck
    <3>2. ~stopped => pc'["rt"] = "setFinish"
      BY <1>1, <2>3 DEF StopCheck
    <3>3. ~finish
      BY <2>1, <2>3
    <3> QED BY <2>1, <2>3, <3>1, <3>2, <3>3
  <2> QED BY <2>2, <2>3
<1>2. CASE StopSetFinish(t)
  BY <1>2 DEF StopSetFinish
<1>3. CASE StopJoin(t)
  BY <1>3 DEF StopJoin
<1>4. CASE StopJoined(t)
  BY <1>4 DEF StopJoined
<1>5. CASE StopClearFinish(t)
  <2>1. t = "rt" /\ ~finish' /\ pc'["rt"] = "cleared" /\ pc["rt"] = "joined"
        /\ pc'["rec"] = pc["rec"] /\ UNCHANGED <<job, goal, active, hasError, stopped, controlMode>>
    BY <1>5 DEF StopClearFinish
  <2> QED BY <2>1
<1>6. CASE StopMark(t)
  <2>1. t = "rt" /\ job["rt"] \in {"read", "switch", "deactivate"}
        /\ pc["rt"] = "cleared" /\ UNCHANGED <<job, goal, active, hasError, finish, controlMode>>
    BY <1>6 DEF StopMark
  <2>2. AfterStop[job["rt"]] \in {"readUnlock", "init", "idle"}
    BY <2>1 DEF AfterStop
  <2>3. pc'["rt"] \in {"readUnlock", "init", "idle"} /\ pc'["rec"] = pc["rec"]
    BY <1>6, <2>1, <2>2 DEF StopMark
  <2> QED BY <2>1, <2>3
<1>7. CASE InitializeLoop(t)
  <2>1. pc[t] = "init" /\ UNCHANGED <<job, goal, active, hasError, finish, controlMode>>
    BY <1>7 DEF InitializeLoop
  <2>2. CASE UNCHANGED <<pc, stopped>>
    BY <2>1, <2>2
  <2>3. CASE ~stopped' /\ Goto(t, "spawn")
    BY <2>1, <2>3
  <2> QED BY <1>7, <2>2, <2>3 DEF InitializeLoop
<1>8. CASE SpawnLoop(t)
  <2>1. pc[t] = "spawn" /\ UNCHANGED <<job, goal, active, hasError, stopped, finish, controlMode>>
    BY <1>8 DEF SpawnLoop
  <2>2. CASE UNCHANGED pc
    BY <2>1, <2>2
  <2>3. CASE Goto(t, AfterSpawn[job[t]])
    <3>1. AfterSpawn[job[t]] \in {"write", "idle", "recUnlock"}
      BY <2>1, ReturnAddress
    <3> QED BY <2>1, <2>3, <3>1
  <2> QED BY <1>8, <2>2, <2>3 DEF SpawnLoop
<1>9. CASE StopThrows(t)
  BY <1>9 DEF StopThrows
<1> QED BY <1>1, <1>2, <1>3, <1>4, <1>5, <1>6, <1>7, <1>8, <1>9 DEF Call, StopRobot

LEMMA RtPurpose ==
  ASSUME ArmInv, Read \/ NoSwitch \/ Write
  PROVE  Purpose'
<1> USE DEF ArmInv, Orderly, Purpose, Joins, Threads, StopLabels, ReadLabels, TypeInv, TypeOK,
        JobOK, Goto, Die, flags
<1>1. CASE ReadLock      BY <1>1 DEF ReadLock
<1>2. CASE ReadCheck     BY <1>2 DEF ReadCheck
<1>3. CASE ReadOnceBegin BY <1>3 DEF ReadOnceBegin
<1>4. CASE ReadOnceEnd   BY <1>4 DEF ReadOnceEnd
<1>5. CASE ReadRecheck   BY <1>5 DEF ReadRecheck
<1>6. CASE ReadUnlock    BY <1>6 DEF ReadUnlock
<1>7. CASE NoSwitch      BY <1>7 DEF NoSwitch
<1>8. CASE Write         BY <1>8 DEF Write
<1> QED BY <1>1, <1>2, <1>3, <1>4, <1>5, <1>6, <1>7, <1>8 DEF Read

LEMMA OtherPurpose ==
  ASSUME ArmInv, Orderly', Recovery \/ Loop \/ Requests \/ ParamEnd
  PROVE  Purpose'
<1> USE DEF ArmInv, Orderly, Purpose, Joins, Restart, Threads, StopLabels, TypeInv, TypeOK,
        JobOK, Modes, Goto, Die, flags, counts, noted
<1>1. CASE RecoverCommand    BY <1>1 DEF RecoverCommand
<1>2. CASE RecoverClearError BY <1>2 DEF RecoverClearError
<1>3. CASE RecoverParams     BY <1>3 DEF RecoverParams
<1>4. CASE RecoverLock       BY <1>4 DEF RecoverLock
<1>5. CASE RecoverUnlock     BY <1>5 DEF RecoverUnlock
<1>6. CASE Loop
  <2>1. UNCHANGED <<pc, job, goal, active, stopped, finish, controlMode>> /\ (hasError => hasError')
    BY <1>6 DEF Loop, LoopEnter, LoopPacket, LoopStoreState, LoopCommand,
       LoopCheckFinish, LoopSeeReflex, LoopUnwind, LoopFail
  <2> QED BY <2>1
<1>7. ASSUME NEW m \in Modes, PerformSwitch(m) PROVE Purpose'
  BY <1>7 DEF PerformSwitch
<1>8. CASE Activate          BY <1>8 DEF Activate
<1>9. CASE Deactivate        BY <1>9 DEF Deactivate
<1>10. CASE RecoverRequest   BY <1>10 DEF RecoverRequest
<1>11. CASE ParamBegin       BY <1>11 DEF ParamBegin
<1>12. CASE Reflex           BY <1>12 DEF Reflex
<1>13. CASE ParamEnd         BY <1>13 DEF ParamEnd
<1>14. CASE RecoverParamsThrow BY <1>14 DEF RecoverParamsThrow
<1> QED BY <1>1, <1>2, <1>3, <1>4, <1>5, <1>6, <1>7, <1>8, <1>9, <1>10, <1>11, <1>12, <1>13, <1>14
        DEF Recovery, Requests

LEMMA StepPurpose ==
  ArmInv /\ Orderly' /\ [Next]_vars => Purpose'
<1> SUFFICES ASSUME ArmInv, Orderly', [Next]_vars PROVE Purpose'
  OBVIOUS
<1>1. CASE RtThread
  BY <1>1, RtPurpose, CallPurpose DEF RtThread, Threads
<1>2. CASE RecThread
  BY <1>2, OtherPurpose, CallPurpose DEF RecThread, Threads
<1>3. CASE Loop \/ Requests \/ ParamEnd
  BY <1>3, OtherPurpose
<1>4. CASE UNCHANGED vars
  BY <1>4 DEF vars, flags, ArmInv, Purpose
<1> QED BY <1>1, <1>2, <1>3, <1>4 DEF Next, Over

-----------------------------------------------------------------------------
\* Every step of the arm's threads is a step of the abstract arm, or a stutter.
ViewInv == ArmInv /\ Orderly'
Stutter == UNCHANGED <<Asked, Effective, InError>>
Step    == ArmView!Next \/ Stutter

LEMMA StopMaps ==
  ASSUME ViewInv, NEW t \in Threads, StopRobot(t)
  PROVE  Stutter
<1> USE DEF ViewInv, ArmInv, Orderly, Purpose, Joins, Joined, Restart, Threads, StopLabels,
        StopJobs, TypeInv, TypeOK, JobOK, Goto, Die, flags,
        Stutter, Asked, Effective, InError, Changing, Running, Restarting
<1>1. UNCHANGED <<goal, job, active, hasError, controlMode>>
  BY DEF StopRobot, StopCheck, StopSetFinish, StopJoin, StopJoined, StopThrows, StopClearFinish,
          StopMark
<1>2. CASE t = "rec"
  <2>1. StopCheck("rec") /\ pc["rec"] = "stop"
    BY <1>2 DEF StopRobot, StopCheck, StopSetFinish, StopJoin, StopJoined, StopThrows,
            StopClearFinish,
                StopMark
  <2>2. pc'["rec"] = "params" /\ pc'["rt"] = pc["rt"] /\ UNCHANGED <<loop, loopMode>>
    BY <2>1 DEF StopCheck, AfterStop
  <2> QED BY <1>1, <2>1, <2>2
<1>3. CASE t = "rt"
  <2>1. pc["rt"] \in StopLabels /\ pc'["rec"] = pc["rec"]
        /\ job["rt"] \in {"read", "switch", "deactivate"}
    BY <1>3 DEF StopRobot, StopCheck, StopSetFinish, StopJoin, StopJoined, StopThrows,
            StopClearFinish,
                StopMark
  <2>2. UNCHANGED Running
    BY <1>3 DEF StopRobot, StopCheck, StopSetFinish, StopJoin, StopJoined, StopThrows,
            StopClearFinish,
                StopMark
  <2>3. CASE pc'["rt"] \in StopLabels
    BY <1>1, <2>1, <2>2, <2>3
  <2>4. CASE pc'["rt"] \notin StopLabels
    <3>1. loop' = "none" /\ pc'["rt"] = AfterStop[job["rt"]]
      BY <1>3, <2>4 DEF StopRobot, StopCheck, StopSetFinish, StopJoin, StopJoined,
                        StopThrows, StopClearFinish, StopMark
    <3>2. CASE job["rt"] = "read"
      <4>1. pc'["rt"] = "readUnlock"
        BY <3>1, <3>2 DEF AfterStop
      <4> QED BY <1>1, <2>1, <2>2, <3>2, <4>1
    <3>3. CASE job["rt"] = "switch"
      <4>1. pc'["rt"] = "init"
        BY <3>1, <3>3 DEF AfterStop
      <4> QED BY <1>1, <2>1, <3>3, <4>1
    <3>4. CASE job["rt"] = "deactivate"
      <4>1. pc'["rt"] = "idle"
        BY <3>1, <3>4 DEF AfterStop
      <4> QED BY <1>1, <2>1, <3>1, <3>4, <4>1
    <3> QED BY <2>1, <3>2, <3>3, <3>4
  <2> QED BY <2>3, <2>4
<1> QED BY <1>2, <1>3

\* The update thread's loop was announced when it was asked for; the loop a
\* recovery starts is what ends the error.
LEMMA StartMaps ==
  ASSUME ViewInv, NEW t \in Threads, InitializeLoop(t) \/ SpawnLoop(t)
  PROVE  Step
<1> USE DEF ViewInv, ArmInv, Orderly, Purpose, Joins, Joined, Restart, Threads, StopLabels,
        InitLabels, InitJobs, TypeInv, TypeOK, JobOK, Modes, Goto, Die, flags,
        Asked, Effective, InError, Changing, Running, Restarting
<1>1. UNCHANGED <<goal, job, active, hasError, controlMode>>
  BY DEF InitializeLoop, SpawnLoop
<1>2. CASE InitializeLoop(t)
  <2>1. pc[t] = "init" /\ (pc'[t] \in {"init", "spawn"})
        /\ (\A u \in Threads \ {t} : pc'[u] = pc[u]) /\ UNCHANGED <<loop, loopMode>>
    BY <1>2 DEF InitializeLoop
  <2> QED BY <1>1, <2>1 DEF Step, Stutter
<1>3. CASE SpawnLoop(t) /\ loop # "none"
  BY <1>1, <1>3 DEF SpawnLoop, Step, Stutter
<1>4. CASE SpawnLoop(t) /\ loop = "none"
  <2>1. pc[t] = "spawn" /\ loop = "none"
    BY <1>4 DEF SpawnLoop
  <2>2. loop' = "spawned" /\ loopMode' = goal[t] /\ Goto(t, AfterSpawn[job[t]])
    BY <1>4, <2>1 DEF SpawnLoop
  <2>3. CASE t = "rt"
    <3>1. job["rt"] \in {"switch", "activate"} /\ active
      BY <2>1, <2>3
    <3>2. AfterSpawn[job["rt"]] \in {"write", "idle"}
      BY <3>1 DEF AfterSpawn
    <3>3. pc'["rt"] \in {"write", "idle"} /\ pc'["rec"] = pc["rec"]
      BY <2>2, <2>3, <3>2
    <3> QED BY <1>1, <2>1, <2>2, <2>3, <3>1, <3>3 DEF Step, Stutter
  <2>4. CASE t = "rec"
    <3>1. pc'["rec"] = "recUnlock" /\ pc'["rt"] = pc["rt"] /\ job["rt"] = "read"
      BY <2>1, <2>2, <2>4 DEF AfterSpawn
    <3>2. goal["rec"] \in Modes /\ ~hasError
      BY <2>1, <2>4
    <3>3. InError /\ Effective = NoLoop
      BY <2>1, <2>4, <3>1
    <3>4. InError' = FALSE /\ Effective' \in Modes \cup {NoLoop} /\ UNCHANGED Asked
      <4>1. Effective' \in Modes \cup {NoLoop}
        BY <1>1, <2>2, <2>4, <3>1, <3>2
      <4>2. UNCHANGED Asked
        BY <1>1
      <4>3. ~hasError' /\ ~Restarting'
        BY <1>1, <3>1, <3>2
      <4> QED BY <4>1, <4>2, <4>3, Zenon DEF InError
    <3> HIDE DEF Asked, Effective, InError
    <3> QED BY <3>3, <3>4 DEF Step, ArmView!Next, ArmView!Recover
  <2> QED BY <2>3, <2>4
<1> QED BY <1>2, <1>3, <1>4 DEF SpawnLoop

\* The control thread ends because stopRobot asked it to, in a change that was
\* announced or in an error, or because it fails.
LEMMA LoopMaps ==
  ASSUME ViewInv, Loop
  PROVE  Step
<1> USE DEF ViewInv, ArmInv, Orderly, Purpose, Joins, Joined, Restart, Threads, StopLabels,
        TypeInv, TypeOK, JobOK, Goto, Die, LoopMove, flags
<1> DEFINE Same == UNCHANGED <<Asked, Changing, Restarting>>
<1>1. Same /\ loop # "none" /\ UNCHANGED <<pc, job, loopMode>> /\ loop # "done"
  BY DEF Loop, LoopEnter, LoopPacket, LoopStoreState, LoopCommand, LoopCheckFinish,
         LoopSeeReflex, LoopUnwind, LoopFail, Asked, Changing, Restarting, counts, noted
<1>2. ~Restarting
  BY <1>1 DEF Restarting
<1>3. Effective' = Effective \/ Effective' = NoLoop
  BY <1>1 DEF Effective, Running
<1>4. CASE LoopFail \/ LoopSeeReflex
  <2>1. hasError'
    BY <1>4 DEF LoopFail, LoopSeeReflex
  <2>2. InError' = TRUE
    BY <2>1, Zenon DEF InError
  <2>3. CASE InError
    <3>1. InError = TRUE
      BY <2>3, Zenon DEF InError
    <3> QED BY <1>1, <1>3, <2>2, <2>3, <3>1 DEF Step, Stutter, ArmView!Next, ArmView!GiveUp
  <2>4. CASE ~InError
    BY <1>1, <1>3, <2>2, <2>4 DEF Step, ArmView!Next, ArmView!Fail
  <2> QED BY <2>3, <2>4
<1>5. CASE ~(LoopFail \/ LoopSeeReflex)
  <2>1. UNCHANGED hasError /\ (loop' = "done" => finish)
    BY <1>5 DEF Loop, LoopEnter, LoopPacket, LoopStoreState, LoopCommand, LoopCheckFinish,
                LoopUnwind
  <2>2. InError' = InError
    BY <1>1, <2>1 DEF InError
  <2>3. CASE loop' # "done"
    <3>1. loop' # "none"
      BY <1>1 DEF Loop, LoopEnter, LoopPacket, LoopStoreState, LoopCommand,
         LoopCheckFinish, LoopUnwind, LoopSeeReflex, LoopFail
    <3>2. Effective' = Effective
      BY <1>1, <2>3, <3>1 DEF Effective, Running
    <3> QED BY <1>1, <2>2, <3>2 DEF Step, Stutter
  <2>4. CASE loop' = "done" /\ job["rt"] = "read"
    <3>1. hasError
      BY <2>1, <2>4
    <3>2. InError
      BY <3>1 DEF InError
    <3> QED BY <1>1, <1>3, <2>2, <3>2 DEF Step, Stutter, ArmView!Next, ArmView!GiveUp
  <2>5. CASE loop' = "done" /\ job["rt"] # "read"
    <3>1. Changing
      BY <2>1, <2>5 DEF Changing
    <3>2. Effective' = Effective
      BY <1>1, <3>1 DEF Effective
    <3> QED BY <1>1, <2>2, <3>2 DEF Step, Stutter
  <2> QED BY <2>3, <2>4, <2>5
<1> QED BY <1>4, <1>5

LEMMA RtMaps ==
  ASSUME ViewInv, Read \/ NoSwitch \/ Write
  PROVE  Stutter
<1> USE DEF ViewInv, ArmInv, TypeInv, TypeOK, JobOK, Threads, ReadLabels, StopLabels, Goto,
        flags, Changing
<1>1. UNCHANGED <<goal, loop, loopMode, hasError, active, controlMode>>
      /\ pc'["rec"] = pc["rec"]
  BY DEF Read, ReadLock, ReadCheck, ReadOnceBegin, ReadOnceEnd, ReadRecheck, ReadUnlock,
         NoSwitch, Write
<1>2. ~Changing
  BY DEF Read, ReadLock, ReadCheck, ReadOnceBegin, ReadOnceEnd, ReadRecheck, ReadUnlock,
         NoSwitch, Write
<1>3. ~Changing'
  BY DEF Read, ReadLock, ReadCheck, ReadOnceBegin, ReadOnceEnd, ReadRecheck, ReadUnlock,
         NoSwitch, Write
<1> QED BY <1>1, <1>2, <1>3
        DEF Stutter, Asked, Effective, InError, Running, Restarting

LEMMA RecoveryMaps ==
  ASSUME ViewInv, Recovery
  PROVE  Step
<1> USE DEF ViewInv, ArmInv, Orderly, Purpose, Restart, Threads, TypeInv, TypeOK, Goto, Die,
        flags
<1>1. UNCHANGED <<job, loop, loopMode, active, Changing, Running>>
      /\ pc'["rt"] = pc["rt"] /\ goal'["rt"] = goal["rt"]
  BY DEF Recovery, RecoverCommand, RecoverClearError, RecoverParamsThrow, RecoverParams,
          RecoverLock,
         RecoverUnlock, Changing, Running
<1>2. UNCHANGED <<Asked, Effective>>
  BY <1>1 DEF Asked, Effective
<1>3. CASE RecoverCommand \/ RecoverUnlock \/ RecoverParams
  BY <1>2, <1>3
     DEF RecoverCommand, RecoverUnlock, RecoverParams, Step, Stutter, InError, Restarting
<1>4. CASE RecoverClearError
  <2>1. hasError /\ pc'["rec"] = "stop"
    BY <1>4 DEF RecoverClearError
  <2>2. InError /\ InError'
    BY <2>1 DEF InError, Restarting
  <2>3. InError = InError'
    BY <2>2, Zenon DEF InError
  <2> QED BY <1>2, <2>3 DEF Step, Stutter
<1>5. CASE RecoverLock /\ controlMode # Garbage
  BY <1>2, <1>5 DEF RecoverLock, Step, Stutter, InError, Restarting
<1>6. CASE RecoverLock /\ controlMode = Garbage
  <2>1. pc["rec"] = "recLock" /\ pc'["rec"] = "recUnlock" /\ UNCHANGED hasError
    BY <1>6 DEF RecoverLock
  <2>2. ~hasError /\ loop = "none" /\ job["rt"] = "read"
    BY <2>1
  <2>3. InError
    BY <2>1 DEF InError, Restarting
  <2>4. ~hasError' /\ ~Restarting'
    BY <2>1, <2>2 DEF Restarting
  <2>5. InError' = FALSE
    BY <2>4, Zenon DEF InError
  <2>6. Effective = NoLoop
    BY <1>6, <2>2 DEF Effective, Changing, Running
  <2> QED BY <1>2, <2>3, <2>5, <2>6 DEF Step, ArmView!Next, ArmView!Recover
<1>7. CASE RecoverParamsThrow
  <2>1. CASE fault' = "exception" /\ UNCHANGED pc
    BY <1>2, <1>7, <2>1 DEF RecoverParamsThrow, Step, Stutter, InError, Restarting
  <2>2. CASE Goto("rec", "recIdle")
    <3>1. pc["rec"] = "params" /\ pc'["rec"] = "recIdle" /\ UNCHANGED hasError
      BY <1>7, <2>2 DEF RecoverParamsThrow
    <3>2. ~hasError /\ loop = "none" /\ job["rt"] = "read"
      BY <3>1
    <3>3. InError
      BY <3>1 DEF InError, Restarting
    <3>4. ~hasError' /\ ~Restarting'
      BY <3>1, <3>2 DEF Restarting
    <3>5. InError' = FALSE
      BY <3>4, Zenon DEF InError
    <3>6. Effective = NoLoop
      BY <3>2 DEF Effective, Changing, Running
    <3> QED BY <1>2, <3>3, <3>5, <3>6 DEF Step, ArmView!Next, ArmView!Recover
  <2> QED BY <1>7, <2>1, <2>2 DEF RecoverParamsThrow
<1> QED BY <1>3, <1>4, <1>5, <1>6, <1>7 DEF Recovery

LEMMA RequestMaps ==
  ASSUME ViewInv, Requests \/ ParamEnd
  PROVE  Step
<1> USE ModesAssumption
    DEF ViewInv, ArmInv, Purpose, Threads, StopLabels, TypeInv, TypeOK, JobOK, Modes, Goto,
        flags, counts, noted
<1>1. UNCHANGED <<loop, loopMode, hasError>>
  BY DEF Requests, PerformSwitch, Activate, Deactivate, RecoverRequest, ParamBegin, Reflex,
         ParamEnd
<1>2. ASSUME NEW m \in Modes, PerformSwitch(m) PROVE Step
  <2>1. active /\ pc'["rt"] = "stop" /\ pc'["rec"] = pc["rec"]
        /\ job'["rt"] = "switch" /\ goal'["rt"] = m /\ UNCHANGED active
    BY <1>2 DEF PerformSwitch
  <2>2. Asked' = m /\ Effective' = m /\ UNCHANGED InError
    BY <1>1, <2>1 DEF Asked, Effective, Changing, InError, Restarting
  <2> QED BY <1>1, <2>2 DEF Step, ArmView!Next, ArmView!Ask
<1>3. CASE Activate
  <2>1. active' /\ pc'["rt"] = "init" /\ pc'["rec"] = pc["rec"]
        /\ job'["rt"] = "activate" /\ goal'["rt"] = None
    BY <1>3 DEF Activate
  <2>2. Asked' = None /\ Effective' = None /\ UNCHANGED InError
    BY <1>1, <2>1 DEF Asked, Effective, Changing, InError, Restarting
  <2> QED BY <1>1, <2>2 DEF Step, ArmView!Next, ArmView!Ask
<1>4. CASE Deactivate
  <2>1. ~active' /\ pc'["rt"] = "stop" /\ pc'["rec"] = pc["rec"]
        /\ job'["rt"] = "deactivate"
    BY <1>4 DEF Deactivate
  <2>2. Asked' = NoLoop /\ Effective' = NoLoop /\ UNCHANGED InError
    BY <1>1, <2>1 DEF Asked, Effective, Changing, InError, Restarting
  <2> QED BY <1>1, <2>2 DEF Step, ArmView!Next, ArmView!Ask
<1>5. CASE RecoverRequest
  <2>1. pc'["rt"] = pc["rt"] /\ pc["rec"] = "recIdle"
        /\ pc'["rec"] \in {"recIdle", "recovering"} /\ UNCHANGED <<job, goal, active>>
    BY <1>5 DEF RecoverRequest
  <2> QED BY <1>1, <2>1
          DEF Step, Stutter, Asked, Effective, Changing, Running, InError, Restarting
<1>6. CASE ParamBegin \/ Reflex \/ ParamEnd
  <2>1. UNCHANGED <<pc, job, goal, active>>
    BY <1>6 DEF ParamBegin, Reflex, ParamEnd
  <2> QED BY <1>1, <2>1
          DEF Step, Stutter, Asked, Effective, Changing, Running, InError, Restarting
<1> QED BY <1>2, <1>3, <1>4, <1>5, <1>6 DEF Requests

LEMMA StepMaps ==
  ArmInv /\ Orderly' /\ [Next]_vars => [ArmView!Next]_(ArmView!vars)
<1> SUFFICES ASSUME ViewInv, [Next]_vars PROVE Step
  BY DEF ViewInv, Step, Stutter, ArmView!vars
<1>1. ASSUME NEW t \in Threads, Call(t) PROVE Step
  BY <1>1, StopMaps, StartMaps DEF Call, Step
<1>2. CASE Read \/ NoSwitch \/ Write
  BY <1>2, RtMaps DEF Step
<1>3. CASE Recovery
  BY <1>3, RecoveryMaps
<1>4. CASE Loop
  BY <1>4, LoopMaps
<1>5. CASE Requests \/ ParamEnd
  BY <1>5, RequestMaps
<1>6. CASE UNCHANGED vars
  BY <1>6 DEF vars, flags, Step, Stutter, Asked, Effective, Changing, Running, InError,
              Restarting
<1> QED BY <1>1, <1>2, <1>3, <1>4, <1>5, <1>6 DEF Next, Over, RtThread, RecThread, Threads

LEMMA InitMaps == Init => ArmView!Init
<1> SUFFICES ASSUME Init PROVE ArmView!Init
  OBVIOUS
<1>1. pc["rt"] = "idle" /\ pc["rec"] = "recIdle" /\ ~active /\ loop = "none"
  BY DEF Init, Threads
<1>2. hasError \in BOOLEAN
  BY SettingsAssumption DEF Init
<1>3. Asked = NoLoop /\ Effective = NoLoop /\ InError \in BOOLEAN
  BY <1>1 DEF Asked, Effective, Changing, Running, InError, StopLabels
<1> QED BY <1>2, <1>3 DEF ArmView!Init

\* The arm runs the loop that was asked for last and stops unasked only in an
\* error, which only a recovery ends: in a calm environment, and in any in which
\* recovery is not used, whether the arm starts in error or not, whether
\* assertions are compiled in or not, and whatever libfranka throws.
THEOREM ArmImplemented ==
  ASSUME Calm \/ MaxRecoveries = 0
  PROVE  Spec => ImplementsArm
<1>1. Spec => []Orderly
  <2>1. CASE Calm
    BY <2>1, InitCalm, StepCalm, CalmOrderly, PTL DEF Spec
  <2>2. CASE MaxRecoveries = 0
    <3>1. Init => Unrecovered
      BY InitStop DEF Unrecovered, Init
    <3>2. Unrecovered /\ [Next]_vars => Unrecovered'
      BY <2>2, StepUnrecovered
    <3> QED BY <3>1, <3>2, UnrecoveredOrderly, PTL DEF Spec
  <2> QED BY <2>1, <2>2
<1>2. ArmInv <=> TypeInv /\ Orderly /\ Purpose
  BY DEF ArmInv
<1> QED
  BY <1>1, <1>2, InitType, StepType, InitPurpose, StepPurpose, InitMaps, StepMaps, PTL
     DEF Spec, ImplementsArm, ArmView!Spec
=============================================================================
