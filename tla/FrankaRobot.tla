----------------------------- MODULE FrankaRobot -----------------------------
(***************************************************************************)
(* One real arm: the franka_hardware::Robot object, the libfranka loop it  *)
(* runs in control_thread_, and the three threads that call into it:       *)
(*                                                                         *)
(*   "rt"   the ros2_control update thread (and, serialised with it, the   *)
(*          lifecycle callbacks): read, perform_command_mode_switch,       *)
(*          write, on_activate, on_deactivate;                             *)
(*   "rec"  the executor thread that serves ~/error_recovery;              *)
(*   the parameter services, which only matter through write_mutex_.       *)
(*                                                                         *)
(* Every step is one access to state another thread can see.  stopped_ is  *)
(* a plain bool shared without a lock; its reads and writes interleave.    *)
(***************************************************************************)
EXTENDS Naturals

CONSTANTS
  ControlLoops,    \* the modes that run franka::Robot::control
  None,            \* ControlMode::None, the continuous reading loop
  Garbage,         \* a value of control_mode_ that is no enumerator
  NoLoop,          \* there is no joinable control_thread_
  Builds,          \* BOOLEAN: TRUE if assert() is compiled in, FALSE if Release
  ErrorAtStart,    \* BOOLEAN values has_error_ may have after the constructor
  Calm,            \* TRUE: requests arrive only while the arm is quiescent
  MaxReflexes, MaxSwitches, MaxRecoveries, MaxLifecycle   \* bounds of the model

ASSUME ModesAssumption ==
  /\ None \notin ControlLoops
  /\ NoLoop \notin ControlLoops \cup {None}
  /\ Garbage \notin ControlLoops \cup {None, NoLoop}

ASSUME SettingsAssumption ==
  /\ Builds \subseteq BOOLEAN
  /\ Calm \in BOOLEAN
  /\ ErrorAtStart \subseteq BOOLEAN

ASSUME BoundsAssumption ==
  /\ MaxReflexes \in Nat
  /\ MaxSwitches \in Nat
  /\ MaxRecoveries \in Nat
  /\ MaxLifecycle \in Nat

Threads == {"rt", "rec"}
Modes   == ControlLoops \cup {None}

VARIABLES
  pc, job,        \* where each thread is, and the operation it executes
  goal,           \* the mode each thread is about to start
  loop, loopMode, \* control_thread_: its progress and what it runs
  hasError, stopped, finish,
  paramsSet,      \* init_params_set
  controlMode,    \* Robot::control_mode_, which nothing ever assigns
  readMutex, writeMutex,
  lib,            \* which thread is inside control/read/readOnce of libfranka
  reflex,         \* the arm is in RobotMode::kReflex
  active,         \* lifecycle state of the hardware component
  fault,          \* how the process died, "none" while it lives
  reflexes, switches, recoveries, lifecycle,
  asserts,        \* the build that runs: are its assertions compiled in?
  gaveUp          \* history: a recovery ended inside stopRobot, see StopThrows

flags  == <<hasError, stopped, finish, paramsSet, controlMode>>
locks  == <<readMutex, writeMutex, lib>>
noted  == <<asserts, gaveUp>>
counts == <<reflexes, switches, recoveries, lifecycle, noted>>
vars   == <<pc, job, goal, loop, loopMode, flags, locks, reflex, active, fault, counts>>

-----------------------------------------------------------------------------
\* Return addresses: where the caller of stopRobot / initialize... goes on.
AfterStop  == [read |-> "readUnlock", switch |-> "init",
               deactivate |-> "idle", recover |-> "params"]
AfterSpawn == [switch |-> "write", activate |-> "idle", recover |-> "recUnlock"]

Goto(t, label) == pc' = [pc EXCEPT ![t] = label]
Die(how)       == fault' = how
Alive          == fault = "none"

\* The two conditions a calm environment waits for.
Quiet   == ~hasError /\ ~reflex /\ loop \notin {"failed", "unwind", "sawReflex"}
                     /\ pc["rec"] = "recIdle"
Settled == job["rt"] \notin {"switch", "activate", "deactivate"}
             /\ loop \notin {"spawned", "entered"}

Init ==
  /\ pc = [t \in Threads |-> IF t = "rt" THEN "idle" ELSE "recIdle"]
  /\ job = [t \in Threads |-> IF t = "rt" THEN "read" ELSE "recover"]
  /\ goal = [t \in Threads |-> None]
  /\ loop = "none" /\ loopMode = NoLoop
  /\ hasError \in ErrorAtStart
  /\ paramsSet = ~hasError
  /\ reflex \in BOOLEAN /\ (reflex => hasError)
  /\ stopped = TRUE /\ finish = FALSE
  /\ controlMode \in Modes \cup {Garbage}
  /\ readMutex = "free" /\ writeMutex = "free" /\ lib = "free"
  /\ active = FALSE
  /\ fault = "none"
  /\ reflexes = 0 /\ switches = 0 /\ recoveries = 0 /\ lifecycle = 0
  /\ asserts \in Builds /\ gaveUp = FALSE

-----------------------------------------------------------------------------
\* Robot::stopRobot, run by thread t.
\* Mutant: no if (!stopped_).
StopAlways(t) ==
  /\ pc[t] = "stop"
  /\ Goto(t, "setFinish")
  /\ UNCHANGED <<job, goal, loop, loopMode, flags, locks, reflex, active, fault,
                 counts>>

StopCheck(t) ==
  /\ pc[t] = "stop"
  /\ Goto(t, IF stopped THEN AfterStop[job[t]] ELSE "setFinish")
  /\ UNCHANGED <<job, goal, loop, loopMode, flags, locks, reflex, active, fault,
                 counts>>

\* Mutant: stopped_ set before the join.
StopSetFinishAndStopped(t) ==
  /\ pc[t] = "setFinish"
  /\ finish' = TRUE /\ stopped' = TRUE
  /\ Goto(t, "join")
  /\ UNCHANGED <<job, goal, loop, loopMode, hasError, paramsSet,
                 controlMode, locks, reflex, active, fault, counts>>

StopSetFinish(t) ==
  /\ pc[t] = "setFinish"
  /\ finish' = TRUE
  /\ Goto(t, "join")
  /\ UNCHANGED <<job, goal, loop, loopMode, hasError, stopped, paramsSet,
                 controlMode, locks, reflex, active, fault, counts>>

\* join() on a thread that was joined, or that another thread is joining,
\* throws std::system_error, which nobody catches.
StopJoin(t) ==
  /\ pc[t] = "join"
  /\ \/ /\ loop # "none" /\ \A u \in Threads : pc[u] # "joining"
        /\ Goto(t, "joining") /\ UNCHANGED fault
     \/ /\ loop = "none" \/ \E u \in Threads : pc[u] = "joining"
        /\ Die("join") /\ UNCHANGED pc
  /\ UNCHANGED <<job, goal, loop, loopMode, flags, locks, reflex, active, counts>>

StopJoined(t) ==
  /\ pc[t] = "joining"
  /\ loop = "done"
  /\ loop' = "none" /\ loopMode' = NoLoop
  /\ Goto(t, "joined")
  /\ UNCHANGED <<job, goal, flags, locks, reflex, active, fault,
                 counts>>

\* robot_->stop() throws, a CommandException or a NetworkException, and the lines
\* behind it are not run: finish_ stays set, stopped_ stays clear.  Only the
\* recovery handler catches a NetworkException; it answers and goes on.
StopThrows(t) ==
  /\ pc[t] = "joined"
  /\ \/ Die("exception") /\ UNCHANGED <<pc, gaveUp>>
     \/ /\ t = "rec"
        /\ Goto(t, "recIdle") /\ gaveUp' = TRUE /\ UNCHANGED fault
  /\ UNCHANGED <<job, goal, loop, loopMode, flags, locks, reflex, active, reflexes,
                 switches, recoveries, lifecycle, asserts>>

\* Mutant: finish_ is not reset.
StopKeepFinish(t) ==
  /\ pc[t] = "joined"
  /\ Goto(t, "cleared")
  /\ UNCHANGED <<job, goal, loop, loopMode, flags, locks, reflex, active, fault,
                 counts>>

\* robot_->stop() returns.
StopClearFinish(t) ==
  /\ pc[t] = "joined"
  /\ finish' = FALSE
  /\ Goto(t, "cleared")
  /\ UNCHANGED <<job, goal, loop, loopMode, hasError, stopped, paramsSet,
                 controlMode, locks, reflex, active, fault, counts>>

\* Mutant: stopped_ = true is missing.
StopForgets(t) ==
  /\ pc[t] = "cleared"
  /\ Goto(t, AfterStop[job[t]])
  /\ UNCHANGED <<job, goal, loop, loopMode, flags, locks, reflex, active, fault,
                 counts>>

StopMark(t) ==
  /\ pc[t] = "cleared"
  /\ stopped' = TRUE
  /\ Goto(t, AfterStop[job[t]])
  /\ UNCHANGED <<job, goal, loop, loopMode, hasError, finish, paramsSet,
                 controlMode, locks, reflex, active, fault, counts>>

StopRobot(t) ==
  \/ StopCheck(t) \/ StopSetFinish(t) \/ StopJoin(t)
  \/ StopJoined(t) \/ StopThrows(t) \/ StopClearFinish(t) \/ StopMark(t)

-----------------------------------------------------------------------------
\* initialize...Control / initializeContinuousReading, run by thread t.
InitializeLoop(t) ==
  /\ pc[t] = "init"
  /\ \/ /\ asserts /\ ~stopped
        /\ Die("assert") /\ UNCHANGED <<pc, stopped>>
     \/ /\ stopped \/ ~asserts
        /\ stopped' = FALSE
        /\ Goto(t, "spawn") /\ UNCHANGED fault
  /\ UNCHANGED <<job, goal, loop, loopMode, hasError, finish, paramsSet,
                 controlMode, locks, reflex, active, counts>>

\* control_thread_ = make_unique<thread>: replacing a joinable thread calls
\* std::terminate.
SpawnLoop(t) ==
  /\ pc[t] = "spawn"
  /\ \/ /\ loop # "none"
        /\ Die("overwrite") /\ UNCHANGED <<pc, loop, loopMode>>
     \/ /\ loop = "none"
        /\ loop' = "spawned" /\ loopMode' = goal[t]
        /\ Goto(t, AfterSpawn[job[t]]) /\ UNCHANGED fault
  /\ UNCHANGED <<job, goal, flags, locks, reflex, active, counts>>

-----------------------------------------------------------------------------
\* The loop in control_thread_.
LoopMove(label) == loop' = label /\ UNCHANGED loopMode

\* libfranka runs one operation at a time.  The reading loop catches the
\* InvalidOperationException, the control loops let it escape the thread.
LoopEnter ==
  /\ loop = "spawned"
  /\ \/ /\ lib = "free"
        /\ lib' = "loop" /\ LoopMove("entered") /\ UNCHANGED fault
     \/ /\ lib # "free" /\ loopMode = None
        /\ LoopMove("failed") /\ UNCHANGED <<lib, fault>>
     \/ /\ lib # "free" /\ loopMode # None
        /\ Die("invalidOperation") /\ UNCHANGED <<loop, loopMode, lib>>
  /\ UNCHANGED <<pc, job, goal, flags, readMutex, writeMutex, reflex, active, counts>>

\* The next state packet: control() throws ControlException in a reflex,
\* read() hands every packet to its callback.  No packet at all is a
\* NetworkException, which no loop catches.
LoopPacket ==
  /\ loop = "entered"
  /\ \/ /\ reflex /\ loopMode # None
        /\ LoopMove("failed") /\ lib' = "free" /\ UNCHANGED fault
     \/ /\ ~reflex \/ loopMode = None
        /\ LoopMove("wantRead") /\ UNCHANGED <<lib, fault>>
     \/ Die("exception") /\ UNCHANGED <<loop, loopMode, lib>>
  /\ UNCHANGED <<pc, job, goal, flags, readMutex, writeMutex, reflex, active, counts>>

LoopStoreState ==
  /\ loop = "wantRead"
  /\ readMutex = "free"
  /\ LoopMove(IF loopMode # None THEN "wantWrite"
              ELSE IF reflex THEN "sawReflex" ELSE "checkFinish")
  /\ UNCHANGED <<pc, job, goal, flags, locks, reflex, active,
                 fault, counts>>

\* Control callback: take write_mutex_, copy the command, motion_finished = finish_.
LoopCommand ==
  /\ loop = "wantWrite"
  /\ writeMutex = "free"
  /\ LoopMove(IF finish THEN "done" ELSE "entered")
  /\ lib' = IF finish THEN "free" ELSE lib
  /\ UNCHANGED <<pc, job, goal, flags, readMutex, writeMutex, reflex, active,
                 fault, counts>>

\* Reading callback: return !finish_.
LoopCheckFinish ==
  /\ loop = "checkFinish"
  /\ LoopMove(IF finish THEN "done" ELSE "entered")
  /\ lib' = IF finish THEN "free" ELSE lib
  /\ UNCHANGED <<pc, job, goal, flags, readMutex, writeMutex, reflex, active,
                 fault, counts>>

\* Reading callback in a reflex: has_error_ = true, then throw.
LoopSeeReflex ==
  /\ loop = "sawReflex"
  /\ hasError' = TRUE
  /\ LoopMove("unwind")
  /\ UNCHANGED <<pc, job, goal, stopped, finish, paramsSet, controlMode, locks,
                 reflex, active, fault, counts>>

LoopUnwind ==
  /\ loop = "unwind"
  /\ lib' = "free"
  /\ LoopMove("failed")
  /\ UNCHANGED <<pc, job, goal, flags, readMutex, writeMutex, reflex, active,
                 fault, counts>>

\* The catch clause at the end of the thread.
LoopFail ==
  /\ loop = "failed"
  /\ hasError' = TRUE
  /\ LoopMove("done")
  /\ UNCHANGED <<pc, job, goal, stopped, finish, paramsSet, controlMode, locks,
                 reflex, active, fault, counts>>

Loop ==
  \/ LoopEnter \/ LoopPacket \/ LoopStoreState \/ LoopCommand
  \/ LoopCheckFinish \/ LoopSeeReflex \/ LoopUnwind \/ LoopFail

-----------------------------------------------------------------------------
\* Robot::read, which holds read_mutex_ from the first line to the last.
ReadLock ==
  /\ pc["rt"] = "idle"
  /\ readMutex = "free"
  /\ readMutex' = "rt"
  /\ job' = [job EXCEPT !["rt"] = "read"]
  /\ Goto("rt", "readCheck")
  /\ UNCHANGED <<goal, loop, loopMode, flags, writeMutex, lib, reflex, active,
                 fault, counts>>

ReadCheck ==
  /\ pc["rt"] = "readCheck"
  /\ Goto("rt", IF hasError \/ stopped THEN "readOnce" ELSE "readUnlock")
  /\ UNCHANGED <<job, goal, loop, loopMode, flags, locks, reflex, active, fault,
                 counts>>

\* readOnce: InvalidOperationException, caught by read, while a loop runs.
ReadOnceBegin ==
  /\ pc["rt"] = "readOnce"
  /\ IF lib = "free"
       THEN lib' = "rt" /\ Goto("rt", "reading")
       ELSE Goto("rt", "readUnlock") /\ UNCHANGED lib
  /\ UNCHANGED <<job, goal, loop, loopMode, flags, readMutex, writeMutex,
                 reflex, active, fault, counts>>

\* readOnce returns a state, or throws a NetworkException, which read does not
\* catch.
ReadOnceEnd ==
  /\ pc["rt"] = "reading"
  /\ \/ lib' = "free" /\ Goto("rt", "readRecheck") /\ UNCHANGED fault
     \/ Die("exception") /\ UNCHANGED <<lib, pc>>
  /\ UNCHANGED <<job, goal, loop, loopMode, flags, readMutex, writeMutex,
                 reflex, active, counts>>

\* Mutant: read does not stop the loop of an arm in error.
ReadNoRecheck ==
  /\ pc["rt"] = "readRecheck"
  /\ Goto("rt", "readUnlock")
  /\ UNCHANGED <<job, goal, loop, loopMode, flags, locks, reflex, active, fault,
                 counts>>

ReadRecheck ==
  /\ pc["rt"] = "readRecheck"
  /\ Goto("rt", IF hasError THEN "stop" ELSE "readUnlock")
  /\ UNCHANGED <<job, goal, loop, loopMode, flags, locks, reflex, active, fault,
                 counts>>

\* The component is updated and written to only while it is active.
ReadUnlock ==
  /\ pc["rt"] = "readUnlock"
  /\ readMutex' = "free"
  /\ Goto("rt", IF active THEN "update" ELSE "idle")
  /\ UNCHANGED <<job, goal, loop, loopMode, flags, writeMutex, lib, reflex,
                 active, fault, counts>>

Read == ReadLock \/ ReadCheck \/ ReadOnceBegin \/ ReadOnceEnd \/ ReadRecheck
          \/ ReadUnlock

\* The update of the controllers, with a mode switch when one is pending:
\* perform_command_mode_switch calls stopRobot, then initialize... .
NoSwitch ==
  /\ pc["rt"] = "update"
  /\ Goto("rt", "write")
  /\ UNCHANGED <<job, goal, loop, loopMode, flags, locks, reflex, active, fault,
                 counts>>

PerformSwitch(m) ==
  /\ pc["rt"] = "update"
  /\ switches < MaxSwitches
  /\ Calm => Quiet
  /\ switches' = switches + 1
  /\ job' = [job EXCEPT !["rt"] = "switch"]
  /\ goal' = [goal EXCEPT !["rt"] = m]
  /\ Goto("rt", "stop")
  /\ UNCHANGED <<loop, loopMode, flags, locks, reflex, active,
                 fault, reflexes, recoveries, lifecycle, noted>>

\* write: nothing in an error, else the commands are copied under write_mutex_.
Write ==
  /\ pc["rt"] = "write"
  /\ hasError \/ writeMutex = "free"
  /\ Goto("rt", "idle")
  /\ UNCHANGED <<job, goal, loop, loopMode, flags, locks, reflex, active, fault,
                 counts>>

Activate ==
  /\ pc["rt"] = "idle" /\ ~active
  /\ lifecycle < MaxLifecycle
  /\ Calm => Quiet
  /\ lifecycle' = lifecycle + 1
  /\ active' = TRUE
  /\ job' = [job EXCEPT !["rt"] = "activate"]
  /\ goal' = [goal EXCEPT !["rt"] = None]
  /\ Goto("rt", "init")
  /\ UNCHANGED <<loop, loopMode, flags, locks, reflex, fault,
                 reflexes, switches, recoveries, noted>>

Deactivate ==
  /\ pc["rt"] = "idle" /\ active
  /\ lifecycle < MaxLifecycle
  /\ Calm => Quiet
  /\ lifecycle' = lifecycle + 1
  /\ active' = FALSE
  /\ job' = [job EXCEPT !["rt"] = "deactivate"]
  /\ Goto("rt", "stop")
  /\ UNCHANGED <<goal, loop, loopMode, flags, locks, reflex,
                 fault, reflexes, switches, recoveries, noted>>

-----------------------------------------------------------------------------
\* triggerAutomaticRecovery.  Without an error it answers "No errors".
RecoverRequest ==
  /\ pc["rec"] = "recIdle"
  /\ recoveries < MaxRecoveries
  /\ Calm => stopped /\ Settled
  /\ recoveries' = recoveries + 1
  /\ Goto("rec", IF hasError THEN "recovering" ELSE "recIdle")
  /\ UNCHANGED <<job, goal, loop, loopMode, flags, locks, reflex, active, fault,
                 reflexes, switches, lifecycle, noted>>

\* doAutomaticErrorRecovery succeeds, or throws what the handler catches
\* (ControlException, NetworkException), or a CommandException it does not.
RecoverCommand ==
  /\ pc["rec"] = "recovering"
  /\ \/ reflex' = FALSE /\ Goto("rec", "clearError") /\ UNCHANGED fault
     \/ Goto("rec", "recIdle") /\ UNCHANGED <<reflex, fault>>
     \/ Die("exception") /\ UNCHANGED <<reflex, pc>>
  /\ UNCHANGED <<job, goal, loop, loopMode, flags, locks, active,
                 counts>>

RecoverClearError ==
  /\ pc["rec"] = "clearError"
  /\ hasError' = FALSE
  /\ Goto("rec", "stop")
  /\ UNCHANGED <<job, goal, loop, loopMode, stopped, finish, paramsSet,
                 controlMode, locks, reflex, active, fault, counts>>

\* Mutant: read_mutex_ is locked before the parameters are set, and again after.
RecoverParamsLocked ==
  /\ pc["rec"] = "params"
  /\ readMutex = "free"
  /\ readMutex' = "rec" /\ paramsSet' = TRUE
  /\ Goto("rec", "recLock")
  /\ UNCHANGED <<job, goal, loop, loopMode, hasError, stopped, finish, controlMode,
                 writeMutex, lib, reflex, active, fault, counts>>

\* setDefaultParams throws, which is caught or not as in RecoverCommand: the
\* error is cleared by now and no loop has been started.
RecoverParamsThrow ==
  /\ pc["rec"] = "params" /\ ~paramsSet
  /\ \/ Goto("rec", "recIdle") /\ UNCHANGED fault
     \/ Die("exception") /\ UNCHANGED pc
  /\ UNCHANGED <<job, goal, loop, loopMode, flags, locks, reflex, active, counts>>

\* The parameters have been set before, or setDefaultParams returns.
RecoverParams ==
  /\ pc["rec"] = "params"
  /\ paramsSet' = TRUE
  /\ Goto("rec", "recLock")
  /\ UNCHANGED <<job, goal, loop, loopMode, hasError, stopped, finish,
                 controlMode, locks, reflex, active, fault, counts>>

\* Mutant: an unknown mode is restarted like any other.
RecoverLockAnyMode ==
  /\ pc["rec"] = "recLock"
  /\ readMutex = "free"
  /\ readMutex' = "rec"
  /\ goal' = [goal EXCEPT !["rec"] = controlMode]
  /\ Goto("rec", "init")
  /\ UNCHANGED <<job, loop, loopMode, flags, writeMutex, lib, reflex, active,
                 fault, counts>>

\* Lock read_mutex_ and restart the loop control_mode_ names, if it names one.
RecoverLock ==
  /\ pc["rec"] = "recLock"
  /\ readMutex = "free"
  /\ readMutex' = "rec"
  /\ goal' = [goal EXCEPT !["rec"] = IF controlMode = Garbage THEN @ ELSE controlMode]
  /\ Goto("rec", IF controlMode = Garbage THEN "recUnlock" ELSE "init")
  /\ UNCHANGED <<job, loop, loopMode, flags, writeMutex, lib, reflex, active,
                 fault, counts>>

RecoverUnlock ==
  /\ pc["rec"] = "recUnlock"
  /\ readMutex' = "free"
  /\ Goto("rec", "recIdle")
  /\ UNCHANGED <<job, goal, loop, loopMode, flags, writeMutex, lib, reflex,
                 active, fault, counts>>

Recovery == RecoverCommand \/ RecoverClearError \/ RecoverParamsThrow
              \/ RecoverParams \/ RecoverLock \/ RecoverUnlock

-----------------------------------------------------------------------------
\* A parameter service: write_mutex_ is held during the call to the robot.
ParamBegin ==
  /\ writeMutex = "free"
  /\ writeMutex' = "param"
  /\ UNCHANGED <<pc, job, goal, loop, loopMode, flags, readMutex, lib, reflex,
                 active, fault, counts>>

ParamEnd ==
  /\ writeMutex = "param"
  /\ writeMutex' = "free"
  /\ UNCHANGED <<pc, job, goal, loop, loopMode, flags, readMutex, lib, reflex,
                 active, fault, counts>>

\* The arm enters a reflex.
Reflex ==
  /\ ~reflex /\ reflexes < MaxReflexes
  /\ Calm => Settled /\ pc["rec"] = "recIdle"
  /\ reflex' = TRUE
  /\ reflexes' = reflexes + 1
  /\ UNCHANGED <<pc, job, goal, loop, loopMode, flags, locks, active, fault,
                 switches, recoveries, lifecycle, noted>>

-----------------------------------------------------------------------------
Call(t)   == StopRobot(t) \/ InitializeLoop(t) \/ SpawnLoop(t)
RtThread  == Read \/ NoSwitch \/ Write \/ Call("rt")
RecThread == Recovery \/ Call("rec")
Requests  == (\E m \in Modes : PerformSwitch(m)) \/ Activate \/ Deactivate
               \/ RecoverRequest \/ ParamBegin \/ Reflex

\* The process is dead and stays so.
Over == ~Alive /\ UNCHANGED vars

Next == Over \/ (Alive /\ (RtThread \/ RecThread \/ Loop \/ ParamEnd \/ Requests))

Spec == Init /\ [][Next]_vars

\* The scheduler runs every thread that can run; a mutex is not starved
\* (SF on the steps that wait for one).
Fairness ==
  /\ WF_vars(Alive /\ RtThread) /\ WF_vars(Alive /\ RecThread)
  /\ WF_vars(Alive /\ Loop) /\ WF_vars(Alive /\ ParamEnd)
  /\ SF_vars(Alive /\ LoopStoreState) /\ SF_vars(Alive /\ LoopCommand)
  /\ SF_vars(Alive /\ ReadLock) /\ SF_vars(Alive /\ RecoverLock)
  /\ SF_vars(Alive /\ Write)

FairSpec == Spec /\ Fairness

-----------------------------------------------------------------------------
Labels == {"idle", "readCheck", "readOnce", "reading", "readRecheck",
           "readUnlock", "update", "write", "stop", "setFinish", "join",
           "joining", "joined", "cleared", "init", "spawn", "recIdle",
           "recovering", "clearError", "params", "recLock", "recUnlock"}
StopLabels == {"stop", "setFinish", "join", "joining", "joined", "cleared"}
LoopStates == {"none", "spawned", "entered", "wantRead", "wantWrite",
               "checkFinish", "sawReflex", "unwind", "failed", "done"}

\* Type invariant.
TypeOK ==
  /\ pc \in [Threads -> Labels]
  /\ job \in [Threads -> {"read", "switch", "activate", "deactivate", "recover"}]
  /\ goal \in [Threads -> Modes]
  /\ loop \in LoopStates
  /\ loopMode \in Modes \cup {NoLoop}
  /\ hasError \in BOOLEAN /\ stopped \in BOOLEAN
  /\ finish \in BOOLEAN /\ paramsSet \in BOOLEAN
  /\ controlMode \in Modes \cup {Garbage}
  /\ readMutex \in {"free", "rt", "rec"}
  /\ writeMutex \in {"free", "param"}
  /\ lib \in {"free", "rt", "loop"}
  /\ reflex \in BOOLEAN /\ active \in BOOLEAN
  /\ fault \in {"none", "join", "assert", "overwrite", "invalidOperation", "exception"}
  /\ reflexes \in 0..MaxReflexes /\ switches \in 0..MaxSwitches
  /\ recoveries \in 0..MaxRecoveries /\ lifecycle \in 0..MaxLifecycle
  /\ asserts \in BOOLEAN /\ gaveUp \in BOOLEAN

\* "@return true if there is no control or reading loop running" (isStopped):
\* whenever stopped_ is set, control_thread_ has been joined.
StoppedMeansNoLoop == stopped => loop = "none"

\* The code keeps that promise as long as nothing but the update thread has
\* started or stopped a loop, or an assertion stands in the way.
Guarded == asserts \/ recoveries = 0
StoppedUnlessRecovered == Guarded => StoppedMeansNoLoop

\* Why that holds: between join and stopped_ = true nobody else starts or joins
\* a loop, and the thread that is about to start one is the only one to do so.
LoopOwnership ==
  /\ StoppedMeansNoLoop
  /\ \A t \in Threads : pc[t] \in {"joined", "cleared"} =>
       /\ loop = "none" /\ ~stopped
       /\ \A u \in Threads \ {t} : pc[u] \notin {"joined", "cleared", "spawn"}
  /\ \A t \in Threads : pc[t] = "joining" =>
       loop # "none" /\ \A u \in Threads \ {t} : pc[u] # "joining"
  /\ \A t \in Threads : pc[t] = "spawn" =>
       loop = "none" /\ ~stopped /\ \A u \in Threads \ {t} : pc[u] # "spawn"

\* Without the recovery service the update thread stops a loop before it starts
\* the next one, so the assertion is not needed.
SoleCaller ==
  recoveries = 0 =>
    /\ pc["rec"] = "recIdle"
    /\ pc["rt"] = "init" => stopped
    /\ ~stopped /\ ~active => job["rt"] = "deactivate" /\ pc["rt"] \in StopLabels

\* finish_ is only set while some thread is inside stopRobot: a later loop
\* never starts with the request to end already pending.  The exception is a
\* recovery whose robot_->stop() threw: nobody resets the flag behind it.
FinishOwned ==
  finish => gaveUp \/ \E t \in Threads : pc[t] \in {"join", "joining", "joined"}

\* The ways the process can die of what its own threads do to each other: a
\* second join, a failed assertion, a joinable thread that is replaced.
Collisions == {"join", "assert", "overwrite"}

\* It takes a recovery to make the threads collide: the update thread, the loop
\* and the parameter services alone never do, whenever the arm fails and
\* whatever libfranka throws.
FaultsNeedRecovery == recoveries = 0 => fault \notin Collisions

\* If the process dies, then of an exception of libfranka that its caller does not
\* catch, or in on_activate, which starts a loop without stopping the one that a
\* recovery of the inactive arm has left: no other collision, and no loop that begins
\* beside a readOnce.
NoFault ==
  \/ fault \in {"none", "exception"}
  \/ fault \in {"assert", "overwrite"} /\ job["rt"] = "activate" /\ loop # "none"

\* The update thread always completes its cycle, and a recovery request is
\* answered, unless the process dies.
CallsReturn ==
  /\ []<>(pc["rt"] = "idle" \/ ~Alive)
  /\ []<>(pc["rec"] = "recIdle" \/ ~Alive)

\* An error ends with the loop joined, or is cleared, or the process dies.
ErrorStopsLoop == hasError ~> (stopped \/ ~hasError \/ ~Alive)

\* The arm as its caller sees it: a switch, an activation or a deactivation has
\* its effect when it is requested, a recovery when it has restarted the loop or
\* given up.
Restarting == pc["rec"] \in {"stop", "params", "recLock", "init", "spawn"}
Changing   == pc["rt"] \in StopLabels \cup {"init", "spawn"}
                /\ job["rt"] \in {"switch", "activate", "deactivate"}
Asked      == IF active THEN goal["rt"] ELSE NoLoop
Running    == IF loop \in {"none", "done"} THEN NoLoop ELSE loopMode
Effective  == IF Changing THEN Asked ELSE Running
InError    == hasError \/ Restarting

ArmView == INSTANCE Arm WITH
  Loops <- Modes, Stopped <- NoLoop,
  asked <- Asked, loop <- Effective, error <- InError

\* An arm runs the loop asked for last, and stops it unasked only in an error,
\* which only a recovery ends.
ImplementsArm == ArmView!Spec
=============================================================================
