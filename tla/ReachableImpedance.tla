------------------------ MODULE ReachableImpedance ------------------------
(***************************************************************************)
(* ReachableCartesianImpedanceController without its shield, which is       *)
(* ReachableShield's: the runtime gains, the torque, the contact sensor,    *)
(* the two log files, the statistics and the markers.  Each definition maps *)
(* the members of one controller, a record r, to their next value;          *)
(* CpsControllers runs them among the other controllers.                    *)
(*   gain       K_runtime_, as a level; D_runtime_ goes the same way         *)
(*   tau        tau_cmd_prev_, one joint                                     *)
(*   jacobian   the session J_geo_prev_ is of; 0 while J_geo_prev_valid_ is  *)
(*              false.  jdot: the sessions Jdot_dq_filtered_ is made of      *)
(*   braking    the session prev_Tn_fs_ is of; 0 while it is not valid       *)
(*   window, markers   loop_counter_ and rviz_publish_counter_, and the      *)
(*              sessions they have counted                                   *)
(*   prediction the session whose prediction log is open; 0 for none.        *)
(*              predicted: the session of its last row                       *)
(*   logged     last_logged_mujoco_contact_sequence_; counted is the sum of  *)
(*              the column mujoco_contact_samples_since_last_log             *)
(*   contact    the atomics of handleMujocoContactSensor, on the executor    *)
(***************************************************************************)
EXTENDS Integers

CONSTANTS
  NominalGain, FailsafeGain, GainStep,   \* K_nominal_, K_f_target_, k_rate_limit_ in a cycle
  TorqueLimit, TorqueStep,               \* largest torque asked for; torque_rate_limit_
  MarkerDecimation                       \* rviz_marker_decimation_

ASSUME GainsOrdered == FailsafeGain \in Nat /\ NominalGain \in Nat /\ FailsafeGain <= NominalGain
ASSUME StepsPositive == GainStep \in Nat \ {0} /\ TorqueStep \in Nat \ {0} /\ TorqueLimit \in Nat
ASSUME DecimationPositive == MarkerDecimation \in Nat \ {0}

None == -1

-----------------------------------------------------------------------------
\* A sample of a session is added to the statistics; a full window is printed
\* (or, of the markers, published) and emptied.
Empty == [n |-> 0, from |-> {}]
Sampled(w, sample, period) ==
  IF w.n + 1 >= period THEN Empty ELSE [n |-> w.n + 1, from |-> w.from \cup {sample}]

Clamped(delta, step) == IF delta > step THEN step ELSE IF delta < -step THEN -step ELSE delta

\* applyMatrixRateLimit, updateRuntimeGains: towards the gains of the command.
RateLimited(gain, target, dt) == gain + Clamped(target - gain, GainStep * dt)
Target(soft) == IF soft THEN FailsafeGain ELSE NominalGain

\* The finite difference needs an earlier Jacobian, and goes through the filter.
Differentiated(r, s) ==
  [r EXCEPT !.jdot = IF r.jacobian = 0 THEN @ ELSE @ \cup {r.jacobian, s},
            !.jacobian = s]

\* tau_cmd: the torque asked for, not further than the limit from the last one.
Commanded(r, desired, dt) ==
  [r EXCEPT !.tau = @ + Clamped(desired - @, TorqueStep * dt)]

\* computeImpedanceTorque, for a command with the gains of the failsafe path or of
\* the intended one: whatever the errors and the mass matrix are, and whether it
\* could be inverted, the torque asked for is in range.
Torque(r, s, soft, dt) ==
  LET q == [Differentiated(r, s) EXCEPT !.gain = RateLimited(@, Target(soft), dt)]
  IN {Commanded(q, desired, dt) : desired \in {-TorqueLimit, 0, TorqueLimit}}

\* The change of the energy is estimated from two updates on the failsafe path.
EnergyEstimated(r, s, failsafe) == [r EXCEPT !.braking = IF failsafe THEN s ELSE 0]

\* publishRvizDiagnostics: every MarkerDecimation-th call.
Diagnosed(r, s) == [r EXCEPT !.markers = Sampled(@, s, MarkerDecimation)]

-----------------------------------------------------------------------------
\* The atomics of the contact sensor.  at is where the callback is; begun, from and
\* overlaps are not in the code: the messages of this session, the first of them
\* with contact, and whether one overlapped the resets of on_activate.
NoContact == [at |-> "idle", touch |-> FALSE, value |-> FALSE, stamp |-> None,
              sequence |-> 0, active |-> FALSE, seen |-> FALSE, wall |-> None,
              first |-> None, begun |-> 0, from |-> None, overlaps |-> FALSE]

Received(k, touch) ==
  [k EXCEPT !.at = "value", !.touch = touch, !.begun = @ + 1,
            !.from = IF touch /\ @ = None THEN k.begun + 1 ELSE @]

\* handleMujocoContactSensor, one atomic operation after the other.
Handled(k) ==
  CASE k.at = "value" -> [k EXCEPT !.value = k.touch, !.at = "stamp"]
    [] k.at = "stamp" -> [k EXCEPT !.stamp = k.begun, !.at = "count"]
    [] k.at = "count" -> [k EXCEPT !.sequence = @ + 1, !.at = "flag"]
    [] k.at = "flag" -> [k EXCEPT !.active = k.touch, !.at = IF k.touch THEN "seen" ELSE "idle"]
    [] k.at = "seen" -> [k EXCEPT !.seen = TRUE, !.at = IF k.seen THEN "idle" ELSE "wall"]
    [] k.at = "wall" -> [k EXCEPT !.wall = k.begun, !.at = "first"]
    [] k.at = "first" -> [k EXCEPT !.first = k.begun, !.at = "idle"]

\* on_activate resets every atomic.  The callback may be anywhere: it goes on.
Forgotten(k) ==
  [NoContact EXCEPT !.at = k.at, !.touch = k.touch, !.overlaps = k.at # "idle"]

-----------------------------------------------------------------------------
\* A row of the validation log, with the contact messages since the last row.
LoggedRow(r, open) ==
  LET now == r.contact.sequence
      samples == IF now >= r.logged THEN now - r.logged ELSE 0
  IN IF ~open THEN r ELSE [r EXCEPT !.counted = @ + samples, !.logged = now]

\* logShieldPredictionTrajectory: the samples of the evaluated plan, if there is one.
PredictionLogged(r, evaluated) ==
  IF r.prediction = 0 \/ ~evaluated THEN r ELSE [r EXCEPT !.predicted = r.prediction]

\* Execution times of the update.
Timed(r, s, period) == [r EXCEPT !.window = Sampled(@, s, period)]

\* update, without the shield: after its decision, in the order of the code.
Updated(r, s, open, period) ==
  UNION {{Timed(LoggedRow(Diagnosed(q, s), open), s, period) :
           q \in Torque(EnergyEstimated(PredictionLogged(r, evaluated), s, failsafe), s, soft, dt)} :
         evaluated \in BOOLEAN, failsafe \in BOOLEAN, soft \in BOOLEAN, dt \in {1, 2}}

-----------------------------------------------------------------------------
\* on_init: the members of a new controller.
New == [gain |-> NominalGain, tau |-> 0, jacobian |-> 0, jdot |-> {}, braking |-> 0,
        window |-> Empty, markers |-> Empty, prediction |-> 0,
        predicted |-> 0, logged |-> 0, counted |-> 0, contact |-> NoContact]

\* on_configure: the gains are set here, and only here.
Gained(r) == [r EXCEPT !.gain = NominalGain]

\* on_activate: everything but the gains.
Reset(r) ==
  [r EXCEPT !.tau = 0, !.jacobian = 0, !.jdot = {}, !.braking = 0, !.window = Empty,
            !.markers = Empty, !.logged = 0, !.counted = 0, !.predicted = 0,
            !.contact = Forgotten(@)]

\* The prediction log is opened after the validation log, in the same directory.
PredictionLogOpened(r, s) == [r EXCEPT !.prediction = s]

\* on_deactivate closes the prediction log and forgets the Jacobian.
Closed(r) == [r EXCEPT !.prediction = 0, !.jacobian = 0, !.jdot = {}]

=============================================================================
