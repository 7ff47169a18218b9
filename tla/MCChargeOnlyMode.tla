------------------------- MODULE MCChargeOnlyMode -------------------------
(* The programs that show things to the user and watch for what he does: a   *)
(* behaviour is one of ChargeOnlyMode, with a launch sequence of three keys, *)
(* MotionGestures, CameraWrapper or Lights.                                  *)
EXTENDS ChargeOnlyMode

CONSTANTS DELAY_BETWEEN_DOZES, MaxScreen, Cameras, NULL, Colors

VARIABLES
    part,       \* "charger", "gestures", "camera" or "lights", chosen at the start
    calm, running, display, changes, enabled, listening, mVotes, mGestures,
    mLastFlags, hub, mIsRinging, phone, alarm, mLastFlatUp, mIsStowed,
    mLastStowed, sinceDoze, sincePulse, gap,
    gVendorModule, fixed_set_params, open, vendor, shown, set, together, twice, lost,
    g_notification, g_battery, g_attention, g_lcd_brightness, led, lcd, ledFailed, lcdFailed

gestureVars ==
    <<calm, running, display, changes, enabled, listening, mVotes, mGestures,
      mLastFlags, hub, mIsRinging, phone, alarm, mLastFlatUp, mIsStowed,
      mLastStowed, sinceDoze, sincePulse, gap>>
cameraVars == <<gVendorModule, fixed_set_params, open, vendor, shown, set, together, twice, lost>>
lightVars == <<g_notification, g_battery, g_attention, g_lcd_brightness, led, lcd, ledFailed,
               lcdFailed>>

MCSequence == <<"volume_up", "volume_down", "power_down">>

(* Black, white, and blue and amber so dark that they do not shine.          *)
MCColors == {[red |-> v[1], green |-> v[2], blue |-> v[3]] :
                v \in {<<0, 0, 0>>, <<255, 255, 255>>, <<0, 0, 8>>, <<2, 0, 1>>,
                       <<255, 128, 0>>}}

Motion == INSTANCE MotionGestures WITH screen <- display
Cam == INSTANCE CameraWrapper
Light == INSTANCE Lights

(* A colour has a byte for each component, and NULL is no setting.           *)
ASSUME HandsetAssumption ==
    /\ DELAY_BETWEEN_DOZES \in Nat
    /\ NULL \notin Cam!Setting \cup Cam!Formats
    /\ Colors \subseteq [red : 0..255, green : 0..255, blue : 0..255]

HandsetInit ==
    /\ Init /\ Motion!Init /\ Cam!Init /\ Light!Init
    /\ part \in {"charger", "gestures", "camera", "lights"}
    /\ \/ part = "gestures"
       \/ calm /\ display = "on" /\ hub = [disabled |-> TRUE, config |-> {}]
    /\ part = "charger" \/ (plugged /\ voltageOk)

HandsetNext ==
    /\ UNCHANGED part
    /\ \/ part = "charger" /\ Next /\ UNCHANGED <<gestureVars, cameraVars, lightVars>>
       \/ part = "gestures" /\ Motion!Next /\ UNCHANGED <<vars, cameraVars, lightVars>>
       \/ part = "camera" /\ Cam!Next /\ UNCHANGED <<vars, gestureVars, lightVars>>
       \/ part = "lights" /\ Light!Next /\ UNCHANGED <<vars, gestureVars, cameraVars>>

HandsetSafety ==
    HandsetInit /\ [][HandsetNext]_<<part, vars, gestureVars, cameraVars, lightVars>>

(* Fairness is that of the charger, and leaves behaviours of the charger     *)
(* only: nothing is owed to the others, whose properties need HandsetSafety. *)
HandsetSpec == HandsetSafety /\ Fairness

(* The properties of the other three: see there.                             *)
HandsetServed == CASE part = "gestures" -> Motion!GestureInv
                   [] part = "camera" -> Cam!CameraInv
                   [] part = "lights" -> Light!LightsInv
                   [] OTHER -> TRUE
=============================================================================
