----------------------- MODULE ChargeOnlyMode_proofs -----------------------
(***************************************************************************)
(* The alarms of charge-only mode always agree with its screen, whatever    *)
(* the launch sequence is and however many messages wait; the gestures of   *)
(* MotionGestures are counted, set in the sensor hub and answered as they   *)
(* should be, whatever the delay between pulses; the cameras' parameters    *)
(* and strings and the lights are right, for any cameras and colours; and   *)
(* so in the composition of the four that is model-checked.                 *)
(***************************************************************************)
EXTENDS MCChargeOnlyMode, FiniteSetTheorems, SequenceTheorems, TLAPS

-----------------------------------------------------------------------------
(* ChargeOnlyMode.                                                          *)

(* One half is the program's, ...                                           *)
ScreenHasAlarms ==
    (ended = "no" /\ ~failed) =>
        /\ alarms["alarm1"] = IF brightness = "bright" THEN 1 ELSE 0
        /\ alarms["alarm2"] = IF brightness = "dim" THEN 1 ELSE 0
        /\ alarms["animation"] = IF brightness = "off" THEN 0 ELSE 1
        /\ blank <=> brightness = "off"

(* ... the other the power key's ...                                        *)
KeyHasAlarm ==
    /\ alarms["power_key"] \in {0, 1}
    /\ alarms["power_key"] = 1 => pressed \/ key = "power_up"
    /\ key = "power_down" => pressed /\ alarms["power_key"] = 0

(* ... and the end's.                                                       *)
EndsInOrder ==
    /\ ended = "off" => shutdown
    /\ ended # "no" => mode = ""

Inv ==
    /\ TypeOK /\ pressed \in BOOLEAN
    /\ ScreenHasAlarms /\ KeyHasAlarm /\ EndsInOrder

-----------------------------------------------------------------------------
(* The launch sequence has a length.                                        *)
LEMMA LenIsNat == Len(Sequence) \in Nat
<1>1. ASSUME NEW S, Sequence \in Seq(S) PROVE Len(Sequence) \in Nat
  BY <1>1
<1> QED
  BY <1>1, ChargeAssumption DEF ChargeAssumption

(* A charged alarm is one more, a cancelled one none.                       *)
LEMMA SetOne ==
    ASSUME NEW cb \in [Callbacks -> Nat], NEW to \in Callbacks
    PROVE  /\ Set(cb, to) \in [Callbacks -> Nat]
           /\ Set(cb, to)[to] = cb[to] + 1
           /\ \A f \in Callbacks \ {to} : Set(cb, to)[f] = cb[f]
  BY DEF Set

LEMMA CancelAll ==
    ASSUME NEW cb \in [Callbacks -> Nat], NEW S
    PROVE  /\ Cancel(cb, S) \in [Callbacks -> Nat]
           /\ \A f \in Callbacks : Cancel(cb, S)[f] = IF f \in S THEN 0 ELSE cb[f]
  BY DEF Cancel

LEMMA FiredOne ==
    ASSUME TypeOK, NEW f \in Callbacks, Running(f)
    PROVE  /\ Fired(f) \in [Callbacks -> Nat]
           /\ Fired(f)[f] = alarms[f] - 1
           /\ \A g \in Callbacks \ {f} : Fired(f)[g] = alarms[g]
  BY DEF TypeOK, Fired, Running

(* What a dark screen leaves set, and how the program may end there.        *)
LEMMA Dark ==
    ASSUME NEW cb \in [Callbacks -> Nat], NEW off, DarkOrOff(cb, off),
           cb["alarm1"] = 0, cb["alarm2"] = 0,
           TypeOK, ended = "no", off => shutdown'
    PROVE  /\ alarms' \in [Callbacks -> Nat]
           /\ alarms'["power_key"] = cb["power_key"]
           /\ brightness' = "off" /\ blank' = TRUE
           /\ ended' \in {"no", "off", "outofcharge"}
           /\ alarms'["alarm1"] = 0 /\ alarms'["alarm2"] = 0
           /\ alarms'["animation"] = 0
           /\ EndsInOrder'
<1>1. alarms' = Cancel(cb, {"animation"}) /\ brightness' = "off" /\ blank' = TRUE
  BY DEF DarkOrOff, DarkScreen
<1>2. ended' # "no" => ended' = "off" /\ off /\ mode' = ""
  BY DEF DarkOrOff, Reboot
<1> QED
  BY <1>1, <1>2, CancelAll DEF Callbacks, EndsInOrder

(* main starts with a lit screen and the alarms that belong to it.          *)
THEOREM InitInv == Init => Inv
<1> SUFFICES ASSUME Init PROVE Inv
  OBVIOUS
<1>1. /\ alarms \in [Callbacks -> Nat]
      /\ alarms["alarm1"] = 1 /\ alarms["animation"] = 1
      /\ alarms["alarm2"] = 0 /\ alarms["power_key"] = 0
  BY DEF Init, Callbacks
<1>2. TypeOK
  <2>1. uevents = <<>> /\ <<>> \in Seq({"charger", "other"})
    BY DEF Init
  <2>2. counter = 0
    BY DEF Init
  <2>3. 0 \in 0..Len(Sequence) + 1
    BY LenIsNat
  <2>4. key = "none" /\ brightness = "bright" /\ ended = "no" /\ blank \in BOOLEAN
    BY DEF Init
  <2> QED
    BY <1>1, <2>1, <2>2, <2>3, <2>4 DEF TypeOK
<1>3. ScreenHasAlarms
  BY <1>1 DEF Init, ScreenHasAlarms
<1>4. KeyHasAlarm
  <2>1. key = "none"
    BY DEF Init
  <2> QED
    BY <1>1, <2>1 DEF KeyHasAlarm
<1>5. EndsInOrder
  BY DEF Init, EndsInOrder
<1>6. pressed \in BOOLEAN
  BY DEF Init
<1> QED
  BY <1>2, <1>3, <1>4, <1>5, <1>6 DEF Inv

(* power_event keeps the invariant, if what is set when it is called agrees  *)
(* with the screen.                                                         *)
LEMMA PowerEventKeeps ==
    ASSUME Inv, ended = "no", PowerEvent(alarms),
           counter' \in 0..Len(Sequence) + 1, uevents' \in Seq({"charger", "other"}),
           UNCHANGED <<key, pressed>>
    PROVE  Inv'
<1> DEFINE off == Cancel(alarms, {"alarm1", "alarm2"})
<1>1. CASE ~shutdown /\ ~plugged
  <2>1. shutdown' = TRUE /\ DarkOrOff(off, TRUE)
    BY <1>1 DEF PowerEvent
  <2>2. off \in [Callbacks -> Nat] /\ off["alarm1"] = 0 /\ off["alarm2"] = 0
        /\ off["power_key"] = alarms["power_key"]
    BY CancelAll DEF Inv, TypeOK, Callbacks
  <2> HIDE DEF off
  <2>3. /\ alarms' \in [Callbacks -> Nat]
        /\ alarms'["power_key"] = alarms["power_key"]
        /\ brightness' = "off" /\ blank' = TRUE
        /\ ended' \in {"no", "off", "outofcharge"}
        /\ alarms'["alarm1"] = 0 /\ alarms'["alarm2"] = 0
        /\ alarms'["animation"] = 0
        /\ EndsInOrder'
    BY <2>1, <2>2, Dark DEF Inv
  <2> QED
    BY <2>3 DEF Inv, TypeOK, ScreenHasAlarms, KeyHasAlarm
<1>2. CASE ~(~shutdown /\ ~plugged)
  BY <1>2 DEF PowerEvent, Inv, TypeOK, ScreenHasAlarms, KeyHasAlarm, EndsInOrder,
    screen
<1> QED
  BY <1>1, <1>2

(* The callbacks of alarms: animation draws a frame and sets itself again   *)
LEMMA AnimationAlarmKeeps ==
    ASSUME Inv, AnimationAlarm PROVE Inv'
<1>1. Fired("animation") \in [Callbacks -> Nat]
      /\ Fired("animation")["animation"] = alarms["animation"] - 1
      /\ \A g \in Callbacks \ {"animation"} : Fired("animation")[g] = alarms[g]
  BY FiredOne DEF AnimationAlarm, Callbacks, Inv
<1>2. Set(Fired("animation"), "animation") = alarms
  <2> DEFINE now == Set(Fired("animation"), "animation")
  <2>1. /\ now \in [Callbacks -> Nat]
        /\ now["animation"] = Fired("animation")["animation"] + 1
        /\ \A f \in Callbacks \ {"animation"} : now[f] = Fired("animation")[f]
    BY <1>1, SetOne DEF Callbacks
  <2>2. alarms \in [Callbacks -> Nat] /\ "animation" \in Callbacks
    BY DEF Inv, TypeOK, Callbacks
  <2> HIDE DEF now
  <2>3. \A f \in Callbacks : now[f] = alarms[f]
    BY <1>1, <2>1, <2>2
  <2>4. now = alarms
    BY <2>1, <2>2, <2>3
  <2> QED
    BY <2>4 DEF now
<1> QED
  BY <1>2, PowerEventKeeps DEF AnimationAlarm, Running, device, Inv, TypeOK

(* alarm1 dims the screen and leaves the rest to alarm2, ...                *)
LEMMA Alarm1Keeps ==
    ASSUME Inv, Alarm1 PROVE Inv'
<1>1. /\ Fired("alarm1") \in [Callbacks -> Nat]
      /\ Fired("alarm1")["alarm1"] = alarms["alarm1"] - 1
      /\ \A g \in Callbacks \ {"alarm1"} : Fired("alarm1")[g] = alarms[g]
  BY FiredOne DEF Alarm1, Callbacks, Inv
<1>2. /\ alarms' \in [Callbacks -> Nat]
      /\ alarms'["alarm1"] = alarms["alarm1"] - 1
      /\ alarms'["alarm2"] = alarms["alarm2"] + 1
      /\ alarms'["animation"] = alarms["animation"]
      /\ alarms'["power_key"] = alarms["power_key"]
  BY <1>1, SetOne DEF Alarm1, Callbacks
<1>3. TypeOK'
  BY <1>2 DEF Alarm1, Inv, TypeOK, device, flags
<1>4. ASSUME ended' = "no", ~failed' PROVE ScreenHasAlarms'
  <2>1. /\ alarms["alarm1"] > 0 /\ ended = "no" /\ ~failed
        /\ brightness' = "dim" /\ blank' = blank
    BY <1>4 DEF Alarm1, Running
  <2>2. brightness = "bright" /\ alarms["alarm1"] = 1 /\ alarms["alarm2"] = 0
        /\ alarms["animation"] = 1 /\ ~blank
    BY <2>1 DEF Inv, ScreenHasAlarms
  <2>3. alarms'["alarm1"] = 0 /\ alarms'["alarm2"] = 1 /\ alarms'["animation"] = 1
    BY <1>2, <2>2 DEF Callbacks
  <2>4. blank' <=> brightness' = "off"
    BY <2>1, <2>2
  <2> QED
    BY <2>1, <2>3, <2>4, Zenon DEF ScreenHasAlarms
<1>5. KeyHasAlarm' /\ EndsInOrder' /\ pressed' \in BOOLEAN
  BY <1>2 DEF Alarm1, Inv, KeyHasAlarm, EndsInOrder, device, flags
<1> QED
  BY <1>3, <1>4, <1>5 DEF Inv, ScreenHasAlarms

(* alarm2 blanks it, or ends the program if it is shutting down, ...        *)
LEMMA Alarm2Keeps ==
    ASSUME Inv, Alarm2 PROVE Inv'
<1>1. /\ Fired("alarm2") \in [Callbacks -> Nat]
      /\ Fired("alarm2")["alarm2"] = alarms["alarm2"] - 1
      /\ \A g \in Callbacks \ {"alarm2"} : Fired("alarm2")[g] = alarms[g]
  BY FiredOne DEF Alarm2, Callbacks, Inv
<1>2. /\ alarms' = Cancel(Fired("alarm2"), {"animation"})
      /\ brightness' = "off" /\ blank' = TRUE
      /\ ended' # "no" => ended' = "off" /\ shutdown /\ mode' = ""
      /\ ended' \in {"no", "off", "outofcharge"}
      /\ ended' = "no" /\ ~failed' => ~failed
      /\ ended = "no"
  BY DEF Alarm2, DarkOrOff, DarkScreen, Reboot, Running, Inv, TypeOK
<1>3. /\ alarms' \in [Callbacks -> Nat]
      /\ alarms'["alarm1"] = alarms["alarm1"]
      /\ alarms'["alarm2"] = alarms["alarm2"] - 1
      /\ alarms'["animation"] = 0
      /\ alarms'["power_key"] = alarms["power_key"]
  BY <1>1, <1>2, CancelAll DEF Callbacks
<1>4. TypeOK'
  BY <1>2, <1>3 DEF Alarm2, Inv, TypeOK, device
<1>5. ASSUME ended' = "no", ~failed' PROVE ScreenHasAlarms'
  <2>1. alarms["alarm2"] > 0 /\ ended = "no" /\ ~failed
    BY <1>2, <1>5 DEF Alarm2, Running
  <2>2. brightness = "dim" /\ alarms["alarm1"] = 0 /\ alarms["alarm2"] = 1
    BY <2>1 DEF Inv, ScreenHasAlarms
  <2>3. alarms'["alarm1"] = 0 /\ alarms'["alarm2"] = 0 /\ alarms'["animation"] = 0
    BY <1>3, <2>2 DEF Callbacks
  <2>4. brightness' = "off" /\ blank'
    BY <1>2
  <2> QED
    BY <2>3, <2>4, Zenon DEF ScreenHasAlarms
<1>6. KeyHasAlarm' /\ EndsInOrder' /\ pressed' \in BOOLEAN
  BY <1>2, <1>3 DEF Alarm2, Inv, KeyHasAlarm, EndsInOrder, device
<1> QED
  BY <1>4, <1>5, <1>6 DEF Inv, ScreenHasAlarms

(* and that of a long press boots the device.                               *)
LEMMA PowerKeyAlarmKeeps ==
    ASSUME Inv, PowerKeyAlarm PROVE Inv'
<1>1. /\ Fired("power_key") \in [Callbacks -> Nat]
      /\ Fired("power_key")["power_key"] = alarms["power_key"] - 1
  BY FiredOne DEF PowerKeyAlarm, Callbacks, Inv
<1>2. /\ alarms' \in [Callbacks -> Nat]
      /\ alarms'["power_key"] = alarms["power_key"] - 1
  BY <1>1, CancelAll DEF PowerKeyAlarm, Callbacks
<1>3. /\ ended' # "no" => ended' = "outofcharge" /\ mode' = ""
      /\ ended' \in {"no", "off", "outofcharge"}
      /\ ended' # "no" \/ failed'
  BY DEF PowerKeyAlarm, Reboot, Running, Inv, TypeOK
<1>4. TypeOK'
  BY <1>2, <1>3 DEF PowerKeyAlarm, Inv, TypeOK, device, screen
<1>5. ScreenHasAlarms'
  BY <1>3 DEF ScreenHasAlarms
<1>6. KeyHasAlarm'
  <2>1. alarms["power_key"] > 0 /\ pressed' = pressed /\ key' = key
    BY DEF PowerKeyAlarm, Running, device
  <2>2. alarms["power_key"] = 1 /\ key # "power_down"
    BY <2>1 DEF Inv, KeyHasAlarm
  <2>3. alarms'["power_key"] = 0
    BY <1>2, <2>2
  <2> QED
    BY <2>1, <2>2, <2>3 DEF KeyHasAlarm
<1>7. EndsInOrder' /\ pressed' \in BOOLEAN
  BY <1>3 DEF PowerKeyAlarm, Inv, EndsInOrder, device
<1> QED
  BY <1>4, <1>5, <1>6, <1>7 DEF Inv

(* A key that starts the animation, or blanks a bright screen.              *)
LEMMA StartKeeps ==
    ASSUME Inv, ended = "no", NEW cb \in [Callbacks -> Nat],
           StartAnimation(cb), cb["alarm1"] = 0, cb["alarm2"] = 0,
           cb["animation"] = 0
    PROVE  /\ alarms' \in [Callbacks -> Nat]
           /\ alarms'["power_key"] = cb["power_key"]
           /\ brightness' = "bright" /\ blank' = FALSE
           /\ alarms'["alarm1"] = 1 /\ alarms'["alarm2"] = 0
           /\ alarms'["animation"] = 1
           /\ UNCHANGED <<mode, ended, failed>>
<1> DEFINE one == Set(cb, "alarm1")
<1>1. /\ one \in [Callbacks -> Nat]
      /\ one["alarm1"] = cb["alarm1"] + 1
      /\ \A f \in Callbacks \ {"alarm1"} : one[f] = cb[f]
  BY SetOne DEF Callbacks
<1>2. /\ alarms' = Set(one, "animation")
      /\ brightness' = "bright" /\ blank' = FALSE
      /\ UNCHANGED <<mode, ended, failed>>
  BY DEF StartAnimation
<1> HIDE DEF one
<1>3. /\ alarms' \in [Callbacks -> Nat]
      /\ alarms'["animation"] = one["animation"] + 1
      /\ \A f \in Callbacks \ {"animation"} : alarms'[f] = one[f]
  BY <1>1, <1>2, SetOne DEF Callbacks
<1> QED
  BY <1>1, <1>2, <1>3 DEF Callbacks

(* The key sequence is compared no further than one past its end.           *)
LEMMA CounterStays ==
    ASSUME Inv, NEW k, LaunchSequence(k)
    PROVE  counter' \in 0..Len(Sequence) + 1
  BY LenIsNat DEF Inv, TypeOK, LaunchSequence

(* What a key leaves of the invariant, once the alarms are known.           *)
LEMMA KeyEventKeeps ==
    ASSUME Inv, KeyEvent PROVE Inv'
<1>1. /\ counter' \in 0..Len(Sequence) + 1 /\ ended = "no"
      /\ key' = "none" /\ UNCHANGED <<uevents, pressed, powerup, shutdown>>
  BY CounterStays DEF KeyEvent
<1>2. CASE key = "power_down"
  <2>1. /\ alarms' = IF powerup THEN Set(alarms, "power_key") ELSE alarms
        /\ UNCHANGED <<screen, mode, ended, failed>>
    BY <1>2 DEF KeyEvent
  <2>2. pressed /\ alarms["power_key"] = 0
    BY <1>2 DEF Inv, KeyHasAlarm
  <2>3. /\ alarms' \in [Callbacks -> Nat]
        /\ alarms'["power_key"] \in {0, 1}
        /\ \A f \in Callbacks \ {"power_key"} : alarms'[f] = alarms[f]
    <3>1. alarms \in [Callbacks -> Nat]
      BY DEF Inv, TypeOK
    <3>2. /\ Set(alarms, "power_key") \in [Callbacks -> Nat]
          /\ Set(alarms, "power_key")["power_key"] = alarms["power_key"] + 1
          /\ \A f \in Callbacks \ {"power_key"} : Set(alarms,
                "power_key")[f] = alarms[f]
      BY <3>1, SetOne DEF Callbacks
    <3>3. CASE powerup
      BY <2>1, <2>2, <3>2, <3>3
    <3>4. CASE ~powerup
      BY <2>1, <2>2, <3>1, <3>4
    <3> QED
      BY <3>3, <3>4
  <2>4. TypeOK'
    BY <1>1, <2>1, <2>3 DEF Inv, TypeOK, screen
  <2>5. ScreenHasAlarms'
    BY <2>1, <2>3 DEF Inv, ScreenHasAlarms, screen, Callbacks
  <2>6. KeyHasAlarm' /\ EndsInOrder' /\ pressed' \in BOOLEAN
    BY <1>1, <2>1, <2>2, <2>3 DEF Inv, KeyHasAlarm, EndsInOrder
  <2> QED
    BY <2>4, <2>5, <2>6 DEF Inv
<1>3. ASSUME alarms' \in [Callbacks -> Nat],
             alarms'["power_key"] = 0 \/ alarms'["power_key"] = alarms["power_key"],
             key # "power_up" \/ alarms'["power_key"] = 0,
             blank' \in BOOLEAN, brightness' \in {"bright", "dim", "off"},
             ended' \in {"no", "off", "outofcharge"},
             ScreenHasAlarms', EndsInOrder'
      PROVE  Inv'
  <2>1. TypeOK'
    BY <1>1, <1>3 DEF Inv, TypeOK
  <2>2. KeyHasAlarm'
    <3>1. alarms'["power_key"] \in {0, 1}
      BY <1>3 DEF Inv, KeyHasAlarm
    <3>2. alarms'["power_key"] = 1 => pressed
      BY <1>3 DEF Inv, KeyHasAlarm
    <3> QED
      BY <1>1, <3>1, <3>2 DEF KeyHasAlarm
  <2> QED
    BY <1>1, <1>3, <2>1, <2>2 DEF Inv
<1>4. CASE key # "power_down"
  <2>1. PICK cb \in [Callbacks -> Nat] :
              /\ cb["alarm1"] = 0 /\ cb["alarm2"] = 0 /\ cb["animation"] = 0
              /\ cb["power_key"] = 0 \/ cb["power_key"] = alarms["power_key"]
              /\ key # "power_up" \/ cb["power_key"] = 0
              /\ DarkOrOff(cb, shutdown) \/ StartAnimation(cb)
    <3> DEFINE up == Cancel(alarms, {"power_key"})
               S == {"alarm1", "alarm2", "animation"}
    <3>1. alarms \in [Callbacks -> Nat]
      BY DEF Inv, TypeOK
    <3>2. CASE key = "power_up"
      <4>1. WakeupKey(up)
        BY <3>2 DEF KeyEvent
      <4>2. up \in [Callbacks -> Nat] /\ up["power_key"] = 0
        BY <3>1, CancelAll DEF Callbacks
      <4> HIDE DEF up
      <4>3. /\ Cancel(up, S) \in [Callbacks -> Nat]
            /\ \A f \in S : Cancel(up, S)[f] = 0
            /\ Cancel(up, S)["power_key"] = 0
        BY <4>2, CancelAll DEF Callbacks
      <4>4. DarkOrOff(Cancel(up, S), shutdown) \/ StartAnimation(Cancel(up, S))
        BY <4>1 DEF WakeupKey
      <4> QED
        BY <4>3, <4>4
    <3>3. CASE key # "power_up"
      <4>1. WakeupKey2(alarms)
        BY <1>4, <3>3 DEF KeyEvent
      <4>2. /\ Cancel(alarms, S) \in [Callbacks -> Nat]
            /\ \A f \in S : Cancel(alarms, S)[f] = 0
            /\ Cancel(alarms, S)["power_key"] = alarms["power_key"]
        BY <3>1, CancelAll DEF Callbacks
      <4>3. StartAnimation(Cancel(alarms, S))
        BY <4>1 DEF WakeupKey2
      <4> QED
        BY <3>3, <4>2, <4>3
    <3> QED
      BY <3>2, <3>3
  <2>2. CASE DarkOrOff(cb, shutdown)
    <3>1. shutdown => shutdown'
      BY <1>1
    <3>2. /\ alarms' \in [Callbacks -> Nat]
          /\ alarms'["power_key"] = cb["power_key"]
          /\ brightness' = "off" /\ blank' = TRUE
          /\ ended' \in {"no", "off", "outofcharge"}
          /\ alarms'["alarm1"] = 0 /\ alarms'["alarm2"] = 0
          /\ alarms'["animation"] = 0
          /\ EndsInOrder'
      BY <1>1, <2>1, <2>2, <3>1, Dark DEF Inv
    <3>3. ScreenHasAlarms'
      BY <3>2 DEF ScreenHasAlarms
    <3> QED
      BY <1>3, <2>1, <3>2, <3>3
  <2>3. CASE StartAnimation(cb)
    <3>1. /\ alarms' \in [Callbacks -> Nat]
          /\ alarms'["power_key"] = cb["power_key"]
          /\ brightness' = "bright" /\ blank' = FALSE
          /\ alarms'["alarm1"] = 1 /\ alarms'["alarm2"] = 0
          /\ alarms'["animation"] = 1
          /\ UNCHANGED <<mode, ended, failed>>
      BY <1>1, <2>1, <2>3, StartKeeps
    <3>2. ScreenHasAlarms' /\ ended' \in {"no", "off", "outofcharge"} /\ EndsInOrder'
      BY <1>1, <3>1 DEF ScreenHasAlarms, Inv, TypeOK, EndsInOrder
    <3> QED
      BY <1>3, <2>1, <3>1, <3>2
  <2> QED
    BY <2>1, <2>2, <2>3
<1> QED
  BY <1>2, <1>4

(* A message of the charger is a power event or is ignored.                 *)
LEMMA UeventKeeps ==
    ASSUME Inv, Uevent PROVE Inv'
<1>1. /\ uevents' \in Seq({"charger", "other"}) /\ ended = "no"
      /\ counter' \in 0..Len(Sequence) + 1 /\ UNCHANGED <<key, pressed>>
  BY DEF Uevent, Inv, TypeOK
<1>2. CASE PowerEvent(alarms)
  BY <1>1, <1>2, PowerEventKeeps
<1>3. CASE UNCHANGED <<alarms, screen, powerup, shutdown, mode, ended, failed>>
  BY <1>1, <1>3 DEF Inv, TypeOK, ScreenHasAlarms, KeyHasAlarm, EndsInOrder, screen
<1> QED
  BY <1>2, <1>3 DEF Uevent

(* The environment touches the power key and the messages only.             *)
LEMMA EnvironmentKeeps ==
    ASSUME Inv, Environment PROVE Inv'
<1>1. ASSUME NEW k \in Keys, Press(k) PROVE Inv'
  <2>1. /\ key = "none" /\ key' = k /\ UNCHANGED <<uevents, program>>
        /\ pressed' = IF k = "power_down" THEN TRUE
                      ELSE IF k = "power_up" THEN FALSE ELSE pressed
        /\ k = "power_down" => ~pressed
    BY <1>1 DEF Press
  <2>2. alarms["power_key"] \in {0, 1} /\ (alarms["power_key"] = 1 => pressed)
    BY <2>1 DEF Inv, KeyHasAlarm
  <2>3. TypeOK'
    BY <2>1 DEF Inv, TypeOK, program, screen, flags
  <2>4. ScreenHasAlarms' /\ EndsInOrder'
    BY <2>1 DEF Inv, ScreenHasAlarms, EndsInOrder, program, screen, flags
  <2>5. KeyHasAlarm' /\ pressed' \in BOOLEAN
    <3>1. alarms' = alarms
      BY <2>1 DEF program
    <3>2. CASE k = "power_down"
      BY <2>1, <2>2, <3>1, <3>2 DEF KeyHasAlarm
    <3>3. CASE k = "power_up"
      BY <2>1, <2>2, <3>1, <3>3 DEF KeyHasAlarm
    <3>4. CASE k \notin {"power_down", "power_up"}
      BY <2>1, <2>2, <3>1, <3>4 DEF KeyHasAlarm, Inv
    <3> QED
      BY <3>2, <3>3, <3>4
  <2> QED
    BY <2>3, <2>4, <2>5 DEF Inv
<1>2. ASSUME UNCHANGED <<key, pressed, program>>, uevents' \in Seq({"charger",
               "other"})
      PROVE  Inv'
  BY <1>2 DEF Inv, TypeOK, ScreenHasAlarms, KeyHasAlarm, EndsInOrder, program,
              screen, flags
<1>3. CASE Plug \/ OtherUevent \/ Voltage
  <2>1. UNCHANGED <<key, pressed, program>>
    BY <1>3 DEF Plug, OtherUevent, Voltage
  <2>2. uevents' \in Seq({"charger", "other"})
    <3>1. ASSUME NEW S, NEW e \in S, uevents \in Seq(S) PROVE Append(uevents,
                   e) \in Seq(S)
      BY <3>1
    <3>2. /\ uevents \in Seq({"charger", "other"})
          /\ "charger" \in {"charger", "other"} /\ "other" \in {"charger", "other"}
      BY DEF Inv, TypeOK
    <3> QED
      BY <1>3, <3>1, <3>2 DEF Plug, OtherUevent, Voltage
  <2> QED
    BY <1>2, <2>1, <2>2
<1> QED
  BY <1>1, <1>3 DEF Environment

-----------------------------------------------------------------------------
(* A step of the specification keeps the invariant.                         *)
THEOREM NextKeeps == Inv /\ [Next]_vars => Inv'
<1> SUFFICES ASSUME Inv, [Next]_vars PROVE Inv'
  OBVIOUS
<1>1. CASE Alarm
  BY <1>1, AnimationAlarmKeeps, Alarm1Keeps, Alarm2Keeps, PowerKeyAlarmKeeps DEF Alarm
<1>2. CASE KeyEvent \/ Uevent \/ Environment
  BY <1>2, KeyEventKeeps, UeventKeeps, EnvironmentKeeps
<1>3. CASE UNCHANGED vars
  BY <1>3 DEF vars, device, screen, flags, Inv, TypeOK, ScreenHasAlarms, KeyHasAlarm,
              EndsInOrder
<1> QED
  BY <1>1, <1>2, <1>3 DEF Next

(* Whatever the launch sequence, the number of messages that wait and the   *)
(* order of keys, alarms and messages: a lit screen has the alarms that     *)
(* dim and blank it, a dark one has none, and a long press has one.         *)
THEOREM AlarmsCorrect == Spec => []AlarmsMatchScreen
<1>1. Inv => AlarmsMatchScreen
  BY DEF Inv, AlarmsMatchScreen, ScreenHasAlarms, KeyHasAlarm, EndsInOrder
<1> QED
  BY <1>1, InitInv, NextKeeps, PTL DEF Spec

-----------------------------------------------------------------------------
(* MotionGestures, whatever the delay between two pulses.                   *)

(* Whose last votes are for gesture g.                                      *)
MotionVotes(g) ==
    Motion!OneIf(g \in mLastFlags["IrGestureSensor"]) + Motion!OneIf(g \in mLastFlags["IrSilencer"])
        + Motion!OneIf(g \in mLastFlags["AlarmSilencer"])

MotionVoting ==
    /\ \A g \in Motion!Gestures : mVotes[g] = MotionVotes(g)
    /\ \A v \in Motion!Voters : mLastFlags[v] = IF v \in listening THEN Motion!Wanted(v) ELSE {}
    /\ mGestures = {g \in Motion!Gestures : mVotes[g] > 0}

(* The hub h does what the gestures gs ask for.                             *)
MotionDoes(h, gs) == (h.disabled <=> gs = {}) /\ (gs # {} => h.config = gs)

MotionHubInv == running /\ calm => MotionDoes(hub, mGestures)

(* What is not there listens to nothing.                                    *)
MotionResting == ~running => listening = {} /\ changes = <<>> /\ ~mIsRinging

(* The last broadcast of the screen says what it is, and what is for the    *)
(* dark is registered when it says off.                                     *)
MotionTold ==
    /\ changes # <<>> => changes[Len(changes)] = display
    /\ display = "on" /\ changes = <<>> => listening \cap Motion!ForDark = {}

MotionSilencing ==
    /\ mIsRinging <=> "IrSilencer" \in listening
    /\ mIsRinging => phone = "ringing"
    /\ "AlarmSilencer" \in listening => alarm

(* A gesture that may ask for a pulse is listened to from a time that       *)
(* mLastDoze knows of, or after the last pulse.                             *)
MotionPulsing ==
    /\ listening \cap Motion!ForDark # {} => sinceDoze <= sincePulse
    /\ gap > DELAY_BETWEEN_DOZES

MotionIInv ==
    Motion!TypeOK /\ MotionVoting /\ MotionHubInv /\ MotionResting /\ MotionTold
      /\ MotionSilencing /\ MotionPulsing

MotionHubs == [disabled : BOOLEAN, config : SUBSET Motion!Gestures]

(* Its type invariant, by the parts that a handler changes.                             *)
MotionTyped ==
    /\ calm \in BOOLEAN /\ running \in BOOLEAN
    /\ display \in {"on", "off"} /\ changes \in Seq({"on", "off"})
    /\ enabled \in SUBSET Motion!Keys /\ listening \in SUBSET Motion!Listeners
    /\ mIsRinging \in BOOLEAN /\ alarm \in BOOLEAN
    /\ phone \in {"idle", "ringing", "offhook"}

MotionIrTyped ==
    /\ mVotes \in [Motion!Gestures -> Int] /\ mGestures \in SUBSET Motion!Gestures
    /\ mLastFlags \in [Motion!Voters -> SUBSET Motion!Gestures] /\ hub \in MotionHubs

MotionPostureTyped == mLastFlatUp \in BOOLEAN /\ mIsStowed \in BOOLEAN
  /\ mLastStowed \in BOOLEAN

MotionTimesTyped == sinceDoze \in Motion!Times /\ sincePulse \in Motion!Times
  /\ gap \in Motion!Times

LEMMA MotionTypeParts == Motion!TypeOK <=> MotionTyped /\ MotionIrTyped
  /\ MotionPostureTyped /\ MotionTimesTyped
<1>1. Motion!posture \in BOOLEAN \X BOOLEAN \X BOOLEAN <=> MotionPostureTyped
  BY DEF Motion!posture, MotionPostureTyped
<1>2. Motion!times \in Motion!Times \X Motion!Times \X Motion!Times <=> MotionTimesTyped
  BY DEF Motion!times, MotionTimesTyped
<1> QED
  BY <1>1, <1>2, Zenon DEF Motion!TypeOK, MotionTyped, MotionIrTyped, MotionHubs

LEMMA MotionTypePartsNext == Motion!TypeOK' <=> MotionTyped' /\ MotionIrTyped'
  /\ MotionPostureTyped' /\ MotionTimesTyped'
<1>1. (Motion!posture \in BOOLEAN \X BOOLEAN \X BOOLEAN)' <=> MotionPostureTyped'
  BY DEF Motion!posture, MotionPostureTyped
<1>2. (Motion!times \in Motion!Times \X Motion!Times \X Motion!Times)' <=> MotionTimesTyped'
  BY DEF Motion!times, MotionTimesTyped
<1> QED
  BY <1>1, <1>2, Zenon DEF Motion!TypeOK, MotionTyped, MotionIrTyped, MotionHubs

-----------------------------------------------------------------------------
(* Listeners, voters and gestures.                                          *)
LEMMA MotionNames ==
    /\ Motion!ForDark = {"IrGestureSensor", "mFlatUpListener", "mStowListener",
          "StowSensor"}
    /\ Motion!Voters = {"IrGestureSensor", "IrSilencer", "AlarmSilencer"}
    /\ Motion!Listeners = Motion!ForDark \cup {"IrSilencer", "AlarmSilencer"}
    /\ Motion!WhenDark \subseteq Motion!ForDark
          /\ Motion!ForDark \subseteq Motion!Listeners
                /\ Motion!Voters \subseteq Motion!Listeners
    /\ "IrGestureSensor" \in Motion!WhenDark <=> "gesture_ir" \in enabled
    /\ Motion!Gestures = {"swipe", "approach"}
          /\ Motion!VoteWhenDark \in SUBSET Motion!Gestures
    /\ \A v \in Motion!Voters : Motion!Wanted(v) \in SUBSET Motion!Gestures
    /\ Motion!Wanted("IrGestureSensor") = {Motion!APPROACH}
          /\ Motion!Wanted("IrSilencer") = {Motion!SWIPE}
    /\ Motion!Wanted("AlarmSilencer") = {Motion!SWIPE}
BY DEF Motion!ForDark, Motion!Listeners, Motion!Voters, Motion!FlatUp,
  Motion!WhenDark, Motion!Gestures, Motion!SWIPE, Motion!APPROACH, Motion!Wanted,
       Motion!VoteWhenDark

LEMMA MotionTogether ==
    ASSUME NEW A, NEW B, IsFiniteSet(A), IsFiniteSet(B), A \cap B = {}
    PROVE  IsFiniteSet(A \cup B)
             /\ Cardinality(A \cup B) = Cardinality(A) + Cardinality(B)
<1>1. Cardinality(A) \in Nat /\ Cardinality(B) \in Nat /\ Cardinality({}) = 0
  BY FS_CardinalityType, FS_EmptySet
<1>2. /\ IsFiniteSet(A \cup B)
      /\ Cardinality(A \cup B) = Cardinality(A) + Cardinality(B) - Cardinality(A \cap B)
  BY FS_Union
<1>3. Cardinality(A \cap B) = 0
  BY <1>1, Zenon
<1> QED
  BY <1>1, <1>2, <1>3

(* As many as there are in the set.                                         *)
LEMMA MotionCountIs ==
    ASSUME NEW V \in SUBSET Motion!Voters
    PROVE  Cardinality(V) = Motion!OneIf("IrGestureSensor" \in V) + Motion!OneIf("IrSilencer" \in V)
                               + Motion!OneIf("AlarmSilencer" \in V)
<1> DEFINE a == V \cap {"IrGestureSensor"}
           b == V \cap {"IrSilencer"}
           c == V \cap {"AlarmSilencer"}
<1>1. V = (a \cup b) \cup c /\ a \cap b = {} /\ (a \cup b) \cap c = {}
  BY MotionNames
<1>2. ASSUME NEW x PROVE IsFiniteSet(V \cap {x})
               /\ Cardinality(V \cap {x}) = Motion!OneIf(x \in V)
  <2>1. CASE x \in V
    <3>1. V \cap {x} = {x}
      BY <2>1
    <3> QED
      BY <2>1, <3>1, FS_Singleton DEF Motion!OneIf
  <2>2. CASE x \notin V
    <3>1. V \cap {x} = {}
      BY <2>2
    <3> QED
      BY <2>2, <3>1, FS_EmptySet DEF Motion!OneIf
  <2> QED
    BY <2>1, <2>2
<1>3. /\ IsFiniteSet(a) /\ Cardinality(a) = Motion!OneIf("IrGestureSensor" \in V)
      /\ IsFiniteSet(b) /\ Cardinality(b) = Motion!OneIf("IrSilencer" \in V)
      /\ IsFiniteSet(c) /\ Cardinality(c) = Motion!OneIf("AlarmSilencer" \in V)
  BY <1>2
<1> HIDE DEF a, b, c
<1>4. IsFiniteSet(a \cup b) /\ Cardinality(a \cup b) = Cardinality(a) + Cardinality(b)
  BY <1>1, <1>3, MotionTogether
<1>5. Cardinality(V) = Cardinality(a \cup b) + Cardinality(c)
  BY <1>1, <1>3, <1>4, MotionTogether
<1> QED
  BY <1>3, <1>4, <1>5

-----------------------------------------------------------------------------
(* The hub.                                                                 *)
LEMMA MotionHubSet ==
    ASSUME NEW gs \in SUBSET Motion!Gestures, hub \in MotionHubs, Motion!SetHub(gs)
    PROVE  hub' \in MotionHubs /\ (calm => MotionDoes(hub', gs))
<1>1. hub' \in [disabled : {gs = {}} \cup (IF calm THEN {} ELSE {hub.disabled}),
                config : {gs} \cup (IF calm THEN {} ELSE {hub.config})]
  BY DEF Motion!SetHub
<1>2. (gs = {}) \in BOOLEAN /\ hub.disabled \in BOOLEAN
        /\ hub.config \in SUBSET Motion!Gestures
  BY DEF MotionHubs
<1>3. hub' \in MotionHubs
  BY <1>1, <1>2 DEF MotionHubs
<1>4. ASSUME calm PROVE MotionDoes(hub', gs)
  <2>1. hub' \in [disabled : {gs = {}}, config : {gs}]
    BY <1>1, <1>4
  <2>2. hub'.disabled = (gs = {}) /\ hub'.config = gs
    BY <2>1
  <2> QED
    BY <2>2 DEF MotionDoes
<1> QED
  BY <1>3, <1>4

(* A vote.                                                                  *)
LEMMA MotionVoted ==
    ASSUME Motion!TypeOK, MotionVoting, MotionHubInv, NEW v \in Motion!Voters,
             NEW wanted, Motion!VoteForSensors(v, wanted),
           \A u \in Motion!Voters : u # v => (u \in listening' <=> u \in listening),
           wanted = IF v \in listening' THEN Motion!Wanted(v) ELSE {}
    PROVE  MotionVoting' /\ MotionIrTyped' /\ (running /\ calm => MotionDoes(hub',
             mGestures'))
<1>1. MotionIrTyped
  BY MotionTypeParts
<1>2. /\ wanted \in SUBSET Motion!Gestures
      /\ mLastFlags' = [mLastFlags EXCEPT ![v] = wanted]
      /\ mVotes' = [g \in Motion!Gestures |->
                       mVotes[g] - Motion!OneIf(g \in mLastFlags[v]) + Motion!OneIf(g \in wanted)]
  BY MotionNames DEF Motion!VoteForSensors, Motion!VoteDelta
<1>3. /\ mLastFlags' \in [Motion!Voters -> SUBSET Motion!Gestures]
            /\ mVotes' \in [Motion!Gestures -> Int]
      /\ mLastFlags'[v] = wanted
      /\ \A u \in Motion!Voters : u # v => mLastFlags'[u] = mLastFlags[u]
  <2>1. mLastFlags \in [Motion!Voters -> SUBSET Motion!Gestures]
          /\ mVotes \in [Motion!Gestures -> Int]
    BY <1>1 DEF MotionIrTyped
  <2>2. \A g \in Motion!Gestures :
           mVotes[g] - Motion!OneIf(g \in mLastFlags[v]) + Motion!OneIf(g \in wanted) \in Int
    BY <2>1 DEF Motion!OneIf
  <2> QED
    BY <1>2, <2>1, <2>2
<1>4. ASSUME NEW g \in Motion!Gestures PROVE mVotes'[g] = MotionVotes(g)'
  <2>1. mVotes'[g] = MotionVotes(g) - Motion!OneIf(g \in mLastFlags[v]) + Motion!OneIf(g \in wanted)
    BY <1>2 DEF MotionVoting
  <2>2. CASE v = "IrGestureSensor"
    BY <1>3, <2>1, <2>2, MotionNames DEF MotionVotes, Motion!OneIf
  <2>3. CASE v = "IrSilencer"
    BY <1>3, <2>1, <2>3, MotionNames DEF MotionVotes, Motion!OneIf
  <2>4. CASE v = "AlarmSilencer"
    BY <1>3, <2>1, <2>4, MotionNames DEF MotionVotes, Motion!OneIf
  <2> QED
    BY <2>2, <2>3, <2>4, MotionNames
<1>5. \A u \in Motion!Voters : mLastFlags'[u] = IF u \in listening' THEN Motion!Wanted(u) ELSE {}
  BY <1>3 DEF MotionVoting
<1>6. mGestures' = {g \in Motion!Gestures : mVotes'[g] > 0}
      /\ IF mGestures' = mGestures THEN UNCHANGED hub ELSE Motion!SetHub(mGestures')
  BY DEF Motion!VoteForSensors, Motion!UpdateSensorConfig
<1>7. MotionVoting'
  BY <1>4, <1>5, <1>6 DEF MotionVoting
<1>8. mGestures' \in SUBSET Motion!Gestures /\ hub \in MotionHubs
  BY <1>1, <1>6 DEF MotionIrTyped
<1>9. CASE mGestures' = mGestures /\ UNCHANGED hub
  <2>1. MotionIrTyped'
    BY <1>3, <1>8, <1>9 DEF MotionIrTyped
  <2> QED
    BY <1>7, <1>9, <2>1 DEF MotionHubInv
<1>10. CASE Motion!SetHub(mGestures')
  <2>1. hub' \in MotionHubs /\ (calm => MotionDoes(hub', mGestures'))
    BY <1>8, <1>10, MotionHubSet
  <2>2. MotionIrTyped'
    BY <1>3, <1>8, <2>1 DEF MotionIrTyped
  <2> QED
    BY <1>7, <2>1, <2>2
<1> QED
  BY <1>6, <1>9, <1>10

-----------------------------------------------------------------------------
(* The process ends.                                                        *)
LEMMA MotionThrowInv ==
    ASSUME MotionIInv, Motion!Throw, hub' \in MotionHubs
    PROVE  MotionIInv'
<1>1. /\ running' = FALSE /\ listening' = {} /\ changes' = <<>>
      /\ mVotes' = [g \in Motion!Gestures |-> 0] /\ mGestures' = {}
      /\ mLastFlags' = [v \in Motion!Voters |-> {}]
      /\ mIsRinging' = FALSE /\ phone' = "idle" /\ alarm' = FALSE
      /\ mLastFlatUp' = FALSE /\ mIsStowed' = FALSE /\ mLastStowed' = FALSE
      /\ sinceDoze' = Motion!LongAgo
      /\ UNCHANGED <<calm, enabled, display, sincePulse, gap>>
  BY DEF Motion!Throw, Motion!prefs
<1>2. MotionTyped /\ MotionTimesTyped
  BY MotionTypeParts DEF MotionIInv
<1>3. Motion!LongAgo \in Motion!Times
  BY HandsetAssumption DEF Motion!LongAgo, Motion!Times
<1>4. Motion!TypeOK'
  <2>1. MotionTyped'
    BY <1>1, <1>2, EmptySeq DEF MotionTyped
  <2>2. MotionIrTyped'
    BY <1>1 DEF MotionIrTyped
  <2>3. MotionPostureTyped' /\ MotionTimesTyped'
    BY <1>1, <1>2, <1>3 DEF MotionPostureTyped, MotionTimesTyped
  <2> QED
    BY <2>1, <2>2, <2>3, MotionTypePartsNext
<1>5. MotionVoting'
  <2>1. \A v \in Motion!Voters : mLastFlags'[v] = {}
    BY <1>1
  <2>2. /\ \A g \in Motion!Gestures : mVotes'[g] = 0
        /\ \A g \in Motion!Gestures : MotionVotes(g)' = 0
    BY <1>1, <2>1, MotionNames DEF MotionVotes, Motion!OneIf
  <2> QED
    BY <1>1, <2>1, <2>2 DEF MotionVoting
<1> QED
  BY <1>1, <1>4, <1>5
    DEF MotionIInv, MotionHubInv, MotionResting, MotionTold, MotionSilencing,
      MotionPulsing

(* What a step that changes neither votes nor listeners keeps.              *)
LEMMA MotionVotingKept ==
    ASSUME MotionVoting, UNCHANGED <<Motion!ir, listening>>
    PROVE  MotionVoting'
<1>1. UNCHANGED <<mVotes, mGestures, mLastFlags, hub, listening>>
  BY DEF Motion!ir
<1> QED
  BY <1>1 DEF MotionVoting, MotionVotes

(* The queue of broadcasts.                                                 *)
LEMMA MotionBroadcast ==
    ASSUME NEW q \in Seq({"on", "off"}), q # <<>>
    PROVE  /\ Tail(q) \in Seq({"on", "off"}) /\ Head(q) = q[1]
           /\ Tail(q) = <<>> => Head(q) = q[Len(q)]
           /\ Tail(q) # <<>> => Tail(q)[Len(Tail(q))] = q[Len(q)]
<1> DEFINE S == {"on", "off"}
<1> HIDE DEF S
<1>0. q \in Seq(S)
  BY DEF S
<1>1. /\ Tail(q) \in Seq(S) /\ Head(q) = q[1] /\ Len(q) \in Nat /\ Len(q) >= 1
      /\ Len(Tail(q)) = Len(q) - 1 /\ \A i \in 1..Len(Tail(q)) : Tail(q)[i] = q[i + 1]
  <2>1. Head(q) = q[1]
    BY <1>0
  <2>2. Len(q) \in Nat /\ Len(q) # 0
    BY <1>0, EmptySeq
  <2> QED
    BY <1>0, <2>1, <2>2, HeadTailProperties
<1>11. Tail(q) \in Seq({"on", "off"})
  BY <1>1 DEF S
<1>2. Tail(q) = <<>> => Len(q) = 1
  BY <1>1, EmptySeq
<1>3. Tail(q) # <<>> => Len(Tail(q)) >= 1
  BY <1>1, EmptySeq
<1> QED
  BY <1>1, <1>11, <1>2, <1>3

LEMMA MotionTurnScreenInv ==
    ASSUME MotionIInv, Motion!TurnScreen
    PROVE  MotionIInv'
<1>1. /\ display' = IF display = "on" THEN "off" ELSE "on"
      /\ changes' = IF running THEN Append(changes, display') ELSE changes
      /\ UNCHANGED <<Motion!prefs, running, listening, Motion!ir, Motion!ringing,
            Motion!posture, Motion!times>>
  BY DEF Motion!TurnScreen
<1>2. MotionTyped /\ MotionIrTyped /\ MotionPostureTyped /\ MotionTimesTyped
  BY MotionTypeParts DEF MotionIInv
<1>3. display' \in {"on", "off"} /\ changes \in Seq({"on", "off"})
  BY <1>1, <1>2 DEF MotionTyped
<1>4. changes' \in Seq({"on", "off"})
  BY <1>1, <1>3, AppendProperties
<1>5. UNCHANGED <<calm, enabled, running, listening, mVotes, mGestures, mLastFlags,
        hub,
                  mIsRinging, phone, alarm, mLastFlatUp, mIsStowed, mLastStowed,
                    sinceDoze,
                  sincePulse, gap>>
  BY <1>1 DEF Motion!prefs, Motion!ir, Motion!ringing, Motion!posture, Motion!times
<1>6. Motion!TypeOK'
  <2>1. MotionTyped'
    BY <1>2, <1>3, <1>4, <1>5 DEF MotionTyped
  <2>2. MotionIrTyped' /\ MotionPostureTyped' /\ MotionTimesTyped'
    BY <1>2, <1>5 DEF MotionIrTyped, MotionPostureTyped, MotionTimesTyped
  <2> QED
    BY <2>1, <2>2, MotionTypePartsNext
<1>7. MotionTold'
  <2>1. CASE running
    <3>1. changes' # <<>> /\ changes'[Len(changes')] = display'
      BY <1>1, <1>3, <2>1, AppendProperties
    <3> QED
      BY <3>1 DEF MotionTold
  <2>2. CASE ~running
    <3>1. changes' = <<>> /\ listening' = {}
      BY <1>1, <1>5, <2>2 DEF MotionIInv, MotionResting
    <3> QED
      BY <3>1 DEF MotionTold
  <2> QED
    BY <2>1, <2>2
<1>8. MotionResting'
  BY <1>1, <1>5 DEF MotionIInv, MotionResting
<1> QED
  BY <1>1, <1>5, <1>6, <1>7, <1>8, MotionVotingKept
  DEF MotionIInv, MotionHubInv, MotionSilencing, MotionPulsing

(* The sensors for a dark screen come and go, and one of them votes.        *)
LEMMA MotionScreenTurnedInv ==
    ASSUME MotionIInv, running, changes # <<>>, changes' = Tail(changes),
           NEW dark \in SUBSET Motion!ForDark,
             listening' = (listening \ Motion!ForDark) \cup dark,
           NEW vote, vote = IF "IrGestureSensor" \in dark THEN {Motion!APPROACH} ELSE {},
           Motion!VoteForSensors("IrGestureSensor", vote),
           Head(changes) = "on" => dark = {},
           UNCHANGED <<Motion!prefs, running, display, Motion!ringing,
             Motion!posture, sincePulse, gap>>,
           sinceDoze' = 0 \/ (dark = {} /\ sinceDoze' = sinceDoze)
    PROVE  MotionIInv'
<1>1. MotionTyped /\ MotionIrTyped /\ MotionPostureTyped /\ MotionTimesTyped
  BY MotionTypeParts DEF MotionIInv
<1>2. UNCHANGED <<calm, enabled, running, display, mIsRinging, phone, alarm,
        mLastFlatUp,
                  mIsStowed, mLastStowed, sincePulse, gap>>
  BY DEF Motion!prefs, Motion!ringing, Motion!posture
<1>3. changes \in Seq({"on", "off"})
  BY <1>1 DEF MotionTyped
<1>4. /\ changes' \in Seq({"on", "off"})
      /\ changes' = <<>> => Head(changes) = display
      /\ changes' # <<>> => changes'[Len(changes')] = display
  BY <1>3, MotionBroadcast DEF MotionIInv, MotionTold
<1>5. /\ MotionVoting' /\ MotionIrTyped' /\ (running /\ calm => MotionDoes(hub',
            mGestures'))
  <2>1. /\ "IrGestureSensor" \in Motion!Voters
        /\ \A u \in Motion!Voters : u # "IrGestureSensor"
              => (u \in listening' <=> u \in listening)
        /\ vote = IF "IrGestureSensor" \in listening' THEN Motion!Wanted("IrGestureSensor") ELSE {}
    BY MotionNames
  <2> QED
    BY <2>1, MotionVoted DEF MotionIInv
<1>6. Motion!TypeOK'
  <2>1. listening' \in SUBSET Motion!Listeners
    BY <1>1, MotionNames DEF MotionTyped
  <2>2. MotionTyped'
    BY <1>1, <1>2, <1>4, <2>1 DEF MotionTyped
  <2>3. MotionPostureTyped' /\ MotionTimesTyped'
    BY <1>1, <1>2, HandsetAssumption
      DEF MotionPostureTyped, MotionTimesTyped, Motion!Times
  <2> QED
    BY <1>5, <2>2, <2>3, MotionTypePartsNext
<1>7. listening' \cap Motion!ForDark = dark
  OBVIOUS
<1>8. MotionTold'
  BY <1>2, <1>4, <1>7 DEF MotionTold
<1>9. MotionSilencing'
  BY <1>2, MotionNames DEF MotionIInv, MotionSilencing
<1>10. MotionPulsing'
  <2>1. sincePulse \in Nat
    BY <1>1, HandsetAssumption DEF MotionTimesTyped, Motion!Times
  <2>2. dark # {} => sinceDoze' = 0
    OBVIOUS
  <2> QED
    BY <1>2, <1>7, <2>1, <2>2 DEF MotionIInv, MotionPulsing
<1>11. MotionHubInv' /\ MotionResting'
  BY <1>2, <1>5 DEF MotionHubInv, MotionResting
<1> QED
  BY <1>5, <1>6, <1>8, <1>9, <1>10, <1>11 DEF MotionIInv

LEMMA MotionScreenTurnedOnInv ==
    ASSUME MotionIInv, Motion!ScreenTurnedOn
    PROVE  MotionIInv'
<1>1. /\ running /\ changes # <<>> /\ Head(changes) = "on" /\ changes' = Tail(changes)
      /\ listening' = (listening \ Motion!ForDark) \cup {}
      /\ Motion!VoteForSensors("IrGestureSensor", {})
      /\ UNCHANGED <<Motion!prefs, running, display, Motion!ringing, Motion!posture,
            sincePulse, gap>>
      /\ sinceDoze' = sinceDoze
  BY DEF Motion!ScreenTurnedOn, Motion!times
<1>2. {} \in SUBSET Motion!ForDark
        /\ {} = IF "IrGestureSensor" \in {} THEN {Motion!APPROACH} ELSE {}
  OBVIOUS
<1> QED
  BY <1>1, <1>2, MotionScreenTurnedInv

LEMMA MotionScreenTurnedOffInv ==
    ASSUME MotionIInv, Motion!ScreenTurnedOff
    PROVE  MotionIInv'
<1>1. /\ running /\ changes # <<>> /\ Head(changes) = "off"
            /\ changes' = Tail(changes)
      /\ listening' = (listening \ Motion!ForDark) \cup Motion!WhenDark
      /\ Motion!VoteForSensors("IrGestureSensor", Motion!VoteWhenDark)
      /\ UNCHANGED <<Motion!prefs, running, display, Motion!ringing, Motion!posture,
            sincePulse, gap>>
      /\ sinceDoze' = 0
  BY DEF Motion!ScreenTurnedOff
<1>2. /\ Motion!WhenDark \in SUBSET Motion!ForDark
      /\ Motion!VoteWhenDark = IF "IrGestureSensor" \in Motion!WhenDark THEN {Motion!APPROACH} ELSE {}
  BY MotionNames DEF Motion!VoteWhenDark
<1> QED
  BY <1>1, <1>2, MotionScreenTurnedInv

LEMMA MotionRefusedInv ==
    ASSUME MotionIInv, Motion!DarkRefused \/ Motion!CallRefused \/ Motion!AlarmRefused
    PROVE  MotionIInv'
<1>1. hub \in MotionHubs /\ mGestures \in SUBSET Motion!Gestures
  BY MotionTypeParts DEF MotionIInv, MotionIrTyped
<1>2. Motion!Throw /\ (UNCHANGED hub
        \/ Motion!SetHub((mGestures \ {Motion!APPROACH}) \cup Motion!VoteWhenDark))
  BY DEF Motion!DarkRefused, Motion!CallRefused, Motion!AlarmRefused
<1>3. (mGestures \ {Motion!APPROACH}) \cup Motion!VoteWhenDark \in SUBSET Motion!Gestures
  BY <1>1, MotionNames
<1>4. hub' \in MotionHubs
  BY <1>1, <1>2, <1>3, MotionHubSet
<1> QED
  BY <1>2, <1>4, MotionThrowInv

-----------------------------------------------------------------------------
(* Calls and alarms: a silencer comes or goes.                              *)
LEMMA MotionSilencerInv ==
    ASSUME MotionIInv, running, NEW v \in {"IrSilencer", "AlarmSilencer"},
           listening' = listening \cup {v} \/ listening' = listening \ {v},
           Motion!VoteForSensors(v, IF v \in listening' THEN {Motion!SWIPE} ELSE {}),
           UNCHANGED <<Motion!prefs, running, display, changes, Motion!posture,
             Motion!times>>,
           mIsRinging' \in BOOLEAN, alarm' \in BOOLEAN,
           phone' \in {"idle", "ringing", "offhook"}, MotionSilencing'
    PROVE  MotionIInv'
<1>1. MotionTyped /\ MotionPostureTyped /\ MotionTimesTyped
  BY MotionTypeParts DEF MotionIInv
<1>2. UNCHANGED <<calm, enabled, running, display, changes, mLastFlatUp, mIsStowed,
        mLastStowed,
                  sinceDoze, sincePulse, gap>>
  BY DEF Motion!prefs, Motion!posture, Motion!times
<1>3. v \in Motion!Voters /\ v \in Motion!Listeners /\ v \notin Motion!ForDark
        /\ Motion!Wanted(v) = {Motion!SWIPE}
  BY MotionNames
<1>4. MotionVoting' /\ MotionIrTyped' /\ (running /\ calm => MotionDoes(hub',
        mGestures'))
  <2> DEFINE wanted == IF v \in listening' THEN {Motion!SWIPE} ELSE {}
  <2>1. /\ \A u \in Motion!Voters : u # v => (u \in listening' <=> u \in listening)
        /\ wanted = IF v \in listening' THEN Motion!Wanted(v) ELSE {}
        /\ Motion!VoteForSensors(v, wanted)
    BY <1>3
  <2> HIDE DEF wanted
  <2> QED
    BY <1>3, <2>1, MotionVoted DEF MotionIInv
<1>5. Motion!TypeOK'
  <2>1. listening' \in SUBSET Motion!Listeners
    BY <1>1, <1>3 DEF MotionTyped
  <2>2. MotionTyped'
    BY <1>1, <1>2, <2>1 DEF MotionTyped
  <2>3. MotionPostureTyped' /\ MotionTimesTyped'
    BY <1>1, <1>2 DEF MotionPostureTyped, MotionTimesTyped
  <2> QED
    BY <1>4, <2>2, <2>3, MotionTypePartsNext
<1>6. listening' \cap Motion!ForDark = listening \cap Motion!ForDark
  BY <1>3
<1>7. MotionTold' /\ MotionPulsing'
  BY <1>2, <1>6 DEF MotionIInv, MotionTold, MotionPulsing
<1>8. MotionHubInv' /\ MotionResting'
  BY <1>2, <1>4 DEF MotionHubInv, MotionResting
<1> QED
  BY <1>4, <1>5, <1>7, <1>8 DEF MotionIInv

LEMMA MotionCallStateChangedInv ==
    ASSUME MotionIInv, Motion!CallStateChanged
    PROVE  MotionIInv'
<1>1. MotionTyped /\ MotionIrTyped /\ MotionPostureTyped /\ MotionTimesTyped
  BY MotionTypeParts DEF MotionIInv
<1>2. /\ running /\ phone' \in {"idle", "ringing", "offhook"}
      /\ UNCHANGED <<Motion!prefs, running, display, changes, alarm, Motion!posture,
            Motion!times>>
      /\ mIsRinging \in BOOLEAN /\ alarm \in BOOLEAN
  BY <1>1 DEF Motion!CallStateChanged, MotionTyped
<1>3. CASE /\ phone' = "ringing" /\ ~mIsRinging
           /\ listening' = listening \cup {"IrSilencer"}
           /\ Motion!VoteForSensors("IrSilencer", {Motion!SWIPE})
                 /\ mIsRinging' = TRUE
  <2>1. MotionSilencing'
    BY <1>2, <1>3 DEF MotionIInv, MotionSilencing
  <2>2. Motion!VoteForSensors("IrSilencer",
          IF "IrSilencer" \in listening' THEN {Motion!SWIPE} ELSE {})
    BY <1>3
  <2> QED
    BY <1>2, <1>3, <2>1, <2>2, MotionSilencerInv
<1>4. CASE /\ phone' # "ringing" /\ mIsRinging
           /\ listening' = listening \ {"IrSilencer"}
           /\ Motion!VoteForSensors("IrSilencer", {}) /\ mIsRinging' = FALSE
  <2>1. MotionSilencing'
    BY <1>2, <1>4 DEF MotionIInv, MotionSilencing
  <2>2. Motion!VoteForSensors("IrSilencer",
          IF "IrSilencer" \in listening' THEN {Motion!SWIPE} ELSE {})
    BY <1>4
  <2> QED
    BY <1>2, <1>4, <2>1, <2>2, MotionSilencerInv
<1>5. CASE /\ IF phone' = "ringing" THEN mIsRinging
                 \/ "gesture_ir_silence" \notin enabled
                                    ELSE ~mIsRinging
           /\ UNCHANGED <<listening, Motion!ir, mIsRinging>>
  <2>1. UNCHANGED <<calm, enabled, running, display, changes, listening, mVotes,
          mGestures,
                    mLastFlags, hub, mIsRinging, alarm, mLastFlatUp, mIsStowed,
                      mLastStowed,
                    sinceDoze, sincePulse, gap>>
    BY <1>2, <1>5 DEF Motion!prefs, Motion!ir, Motion!posture, Motion!times
  <2>2. MotionTyped' /\ MotionIrTyped' /\ MotionPostureTyped' /\ MotionTimesTyped'
    BY <1>1, <1>2, <2>1
      DEF MotionTyped, MotionIrTyped, MotionPostureTyped, MotionTimesTyped
  <2>3. MotionSilencing'
    BY <1>5, <2>1 DEF MotionIInv, MotionSilencing
  <2>4. MotionVoting'
    BY <1>5, MotionVotingKept DEF MotionIInv
  <2> QED
    BY <2>1, <2>2, <2>3, <2>4, MotionTypePartsNext
      DEF MotionIInv, MotionHubInv, MotionResting, MotionTold, MotionPulsing
<1> QED
  BY <1>3, <1>4, <1>5 DEF Motion!CallStateChanged

LEMMA MotionAlarmStateInv ==
    ASSUME MotionIInv, Motion!AlarmStateOn \/ Motion!AlarmStateOff \/ Motion!Swipe
    PROVE  MotionIInv'
<1>1. MotionTyped
  BY MotionTypeParts DEF MotionIInv
<1>2. /\ running /\ alarm' \in BOOLEAN
      /\ UNCHANGED <<Motion!prefs, running, display, changes, mIsRinging, phone,
            Motion!posture, Motion!times>>
      /\ \/ /\ listening' = listening \cup {"AlarmSilencer"} /\ alarm'
            /\ Motion!VoteForSensors("AlarmSilencer", {Motion!SWIPE})
         \/ /\ listening' = listening \ {"AlarmSilencer"}
            /\ Motion!VoteForSensors("AlarmSilencer", {})
  BY DEF Motion!AlarmStateOn, Motion!AlarmStateOff, Motion!Swipe
<1>3. mIsRinging' \in BOOLEAN /\ phone' \in {"idle", "ringing", "offhook"}
  BY <1>1, <1>2 DEF MotionTyped
<1>4. CASE /\ listening' = listening \cup {"AlarmSilencer"} /\ alarm'
           /\ Motion!VoteForSensors("AlarmSilencer", {Motion!SWIPE})
  <2>1. MotionSilencing'
    BY <1>2, <1>4 DEF MotionIInv, MotionSilencing
  <2>2. Motion!VoteForSensors("AlarmSilencer",
          IF "AlarmSilencer" \in listening' THEN {Motion!SWIPE} ELSE {})
    BY <1>4
  <2> QED
    BY <1>2, <1>3, <1>4, <2>1, <2>2, MotionSilencerInv
<1>5. CASE /\ listening' = listening \ {"AlarmSilencer"}
           /\ Motion!VoteForSensors("AlarmSilencer", {})
  <2>1. MotionSilencing'
    BY <1>2, <1>5 DEF MotionIInv, MotionSilencing
  <2>2. Motion!VoteForSensors("AlarmSilencer",
          IF "AlarmSilencer" \in listening' THEN {Motion!SWIPE} ELSE {})
    BY <1>5
  <2> QED
    BY <1>2, <1>3, <1>5, <2>1, <2>2, MotionSilencerInv
<1> QED
  BY <1>2, <1>4, <1>5

-----------------------------------------------------------------------------
(* A gesture that may ask for a pulse.                                      *)
LEMMA MotionDozeInv ==
    ASSUME MotionIInv, NEW b, Motion!ActionIf(b), MotionPostureTyped',
             listening \cap Motion!ForDark # {}
    PROVE  MotionIInv'
<1>1. MotionTyped /\ MotionIrTyped /\ MotionTimesTyped
  BY MotionTypeParts DEF MotionIInv
<1>2. UNCHANGED <<calm, enabled, running, display, changes, listening, mVotes,
        mGestures,
                  mLastFlags, hub, mIsRinging, phone, alarm>>
  BY DEF Motion!ActionIf, Motion!prefs, Motion!ir, Motion!ringing
<1>3. MotionTimesTyped' /\ MotionPulsing'
  <2>1. /\ sinceDoze \in Int /\ sincePulse \in Int /\ DELAY_BETWEEN_DOZES \in Nat
        /\ sinceDoze <= sincePulse /\ gap > DELAY_BETWEEN_DOZES /\ 0 \in Motion!Times
    BY <1>1, HandsetAssumption
      DEF MotionTimesTyped, Motion!Times, MotionIInv, MotionPulsing
  <2>2. CASE UNCHANGED <<sinceDoze, sincePulse, gap>>
    BY <1>1, <1>2, <2>1, <2>2 DEF MotionTimesTyped, MotionPulsing
  <2>3. CASE /\ sinceDoze > DELAY_BETWEEN_DOZES
             /\ sincePulse' = 0 /\ gap' = sincePulse /\ sinceDoze' = 0
    <3>1. MotionTimesTyped'
      BY <1>1, <2>1, <2>3 DEF MotionTimesTyped
    <3>2. sinceDoze' <= sincePulse' /\ gap' > DELAY_BETWEEN_DOZES
      BY <2>1, <2>3
    <3> QED
      BY <3>1, <3>2 DEF MotionPulsing
  <2> QED
    BY <2>2, <2>3 DEF Motion!ActionIf, Motion!MayDoze, Motion!Pulse, Motion!times
<1>4. MotionTyped' /\ MotionIrTyped'
  BY <1>1, <1>2 DEF MotionTyped, MotionIrTyped
<1>5. MotionVoting'
  BY <1>2, MotionVotingKept DEF MotionIInv, Motion!ir
<1> QED
  BY <1>2, <1>3, <1>4, <1>5, MotionTypePartsNext
    DEF MotionIInv, MotionHubInv, MotionResting, MotionTold, MotionSilencing

LEMMA MotionGestureStepInv ==
    ASSUME MotionIInv, Motion!Approach \/ Motion!FlatUpChanged \/ Motion!StowChanged
    PROVE  MotionIInv'
<1>1. MotionPostureTyped
  BY MotionTypeParts DEF MotionIInv
<1>2. CASE Motion!Approach
  <2>1. MotionPostureTyped' /\ listening \cap Motion!ForDark # {}
    BY <1>1, <1>2, MotionNames DEF Motion!Approach, MotionPostureTyped, Motion!posture
  <2> QED
    BY <1>2, <2>1, MotionDozeInv DEF Motion!Approach
<1>3. CASE Motion!FlatUpChanged
  <2>1. MotionPostureTyped' /\ listening \cap Motion!ForDark # {}
    BY <1>1, <1>3, MotionNames DEF Motion!FlatUpChanged, MotionPostureTyped
  <2>2. PICK b : Motion!ActionIf(b)
    BY <1>3 DEF Motion!FlatUpChanged
  <2> QED
    BY <2>1, <2>2, MotionDozeInv
<1>4. CASE Motion!StowChanged
  <2>1. MotionPostureTyped' /\ listening \cap Motion!ForDark # {}
    BY <1>1, <1>4, MotionNames DEF Motion!StowChanged, MotionPostureTyped
  <2>2. PICK b : Motion!ActionIf(b)
    BY <1>4 DEF Motion!StowChanged
  <2> QED
    BY <2>1, <2>2, MotionDozeInv
<1> QED
  BY <1>2, <1>3, <1>4

-----------------------------------------------------------------------------
(* Preferences, time, and the life of the service.                          *)
LEMMA MotionPreferenceChangedInv ==
    ASSUME MotionIInv, Motion!PreferenceChanged
    PROVE  MotionIInv'
<1>1. MotionTyped /\ MotionIrTyped /\ MotionPostureTyped /\ MotionTimesTyped
  BY MotionTypeParts DEF MotionIInv
<1>2. UNCHANGED <<calm, running, display, changes, listening, mVotes, mGestures,
        mLastFlags,
                  hub, mIsRinging, phone, alarm, mLastFlatUp, mIsStowed, mLastStowed,
                  sinceDoze, sincePulse, gap>>
  BY DEF Motion!PreferenceChanged, Motion!ir, Motion!ringing, Motion!posture,
    Motion!times
<1>3. enabled' \in SUBSET Motion!Keys
  BY <1>1 DEF Motion!PreferenceChanged, MotionTyped
<1>4. MotionTyped' /\ MotionIrTyped' /\ MotionPostureTyped' /\ MotionTimesTyped'
  BY <1>1, <1>2, <1>3
    DEF MotionTyped, MotionIrTyped, MotionPostureTyped, MotionTimesTyped
<1>5. MotionVoting'
  BY <1>2, MotionVotingKept DEF MotionIInv, Motion!ir
<1> QED
  BY <1>2, <1>4, <1>5, MotionTypePartsNext
    DEF MotionIInv, MotionHubInv, MotionResting, MotionTold, MotionSilencing,
      MotionPulsing

LEMMA MotionTickInv ==
    ASSUME MotionIInv, Motion!Tick
    PROVE  MotionIInv'
<1>1. MotionTyped /\ MotionIrTyped /\ MotionPostureTyped /\ MotionTimesTyped
  BY MotionTypeParts DEF MotionIInv
<1>2. UNCHANGED <<calm, enabled, running, display, changes, listening, mVotes,
        mGestures,
                  mLastFlags, hub, mIsRinging, phone, alarm, mLastFlatUp, mIsStowed,
                  mLastStowed, gap>>
  BY DEF Motion!Tick, Motion!prefs, Motion!ir, Motion!ringing, Motion!posture
<1>3. MotionTimesTyped' /\ (sinceDoze <= sincePulse => sinceDoze' <= sincePulse')
  <2>1. sinceDoze' = Motion!Later(sinceDoze) /\ sincePulse' = Motion!Later(sincePulse)
    BY DEF Motion!Tick
  <2> QED
    BY <1>1, <1>2, <2>1, HandsetAssumption
      DEF MotionTimesTyped, Motion!Times, Motion!Later, Motion!LongAgo
<1>4. MotionTyped' /\ MotionIrTyped' /\ MotionPostureTyped'
  BY <1>1, <1>2 DEF MotionTyped, MotionIrTyped, MotionPostureTyped
<1>5. MotionVoting'
  BY <1>2, MotionVotingKept DEF MotionIInv, Motion!ir
<1> QED
  BY <1>2, <1>3, <1>4, <1>5, MotionTypePartsNext
  DEF MotionIInv, MotionHubInv, MotionResting, MotionTold, MotionSilencing,
    MotionPulsing

LEMMA MotionStartInv ==
    ASSUME MotionIInv, Motion!Start
    PROVE  MotionIInv'
<1>1. MotionTyped /\ MotionIrTyped /\ MotionPostureTyped /\ MotionTimesTyped
  BY MotionTypeParts DEF MotionIInv
<1> DEFINE dark0 == display = "off"
           vote0 == IF dark0 THEN Motion!VoteWhenDark ELSE {}
           heard0 == IF dark0 THEN Motion!WhenDark ELSE {}
<1> DEFINE Begun(vote, heard) ==
         /\ listening' = heard
         /\ mVotes' = [g \in Motion!Gestures |-> Motion!OneIf(g \in vote)]
         /\ mGestures' = vote
         /\ mLastFlags' = [mLastFlags EXCEPT !["IrGestureSensor"] = vote]
         /\ hub' \in [disabled : {vote = {}} \cup (IF calm THEN {} ELSE BOOLEAN),
                      config : {IF vote = {} THEN hub.config ELSE vote}
                               \cup (IF calm THEN {} ELSE {hub.config})]
         /\ sinceDoze' = IF dark0 THEN 0 ELSE Motion!LongAgo
<1>20. Begun(vote0, heard0)
  BY Zenon DEF Motion!Start
<1> HIDE DEF Begun
<1>21. PICK vote, heard : vote = vote0 /\ heard = heard0 /\ Begun(vote, heard)
  BY <1>20, Zenon
<1>2. /\ listening' = heard
      /\ mVotes' = [g \in Motion!Gestures |-> Motion!OneIf(g \in vote)]
      /\ mGestures' = vote
      /\ mLastFlags' = [mLastFlags EXCEPT !["IrGestureSensor"] = vote]
      /\ hub' \in [disabled : {vote = {}} \cup (IF calm THEN {} ELSE BOOLEAN),
                   config : {IF vote = {} THEN hub.config ELSE vote}
                            \cup (IF calm THEN {} ELSE {hub.config})]
      /\ sinceDoze' = IF dark0 THEN 0 ELSE Motion!LongAgo
  BY <1>21, Zenon DEF Begun
<1>3. /\ ~running /\ running' = TRUE /\ changes' \in {<<>>, <<display>>}
      /\ UNCHANGED <<calm, enabled, display, mIsRinging, phone, alarm, mLastFlatUp,
            mIsStowed,
                     mLastStowed, sincePulse, gap>>
  BY DEF Motion!Start, Motion!prefs, Motion!ringing, Motion!posture
<1>4. /\ vote \in SUBSET Motion!Gestures /\ heard \in SUBSET Motion!ForDark
      /\ vote = IF "IrGestureSensor" \in heard THEN {Motion!APPROACH} ELSE {}
      /\ display = "on" => heard = {}
      /\ heard # {} => sinceDoze' = 0
  BY <1>2, <1>21, MotionNames DEF Motion!VoteWhenDark
<1> HIDE DEF dark0, vote0, heard0
<1>5. /\ mLastFlags \in [Motion!Voters -> SUBSET Motion!Gestures]
            /\ mVotes' \in [Motion!Gestures -> Int]
      /\ \A v \in Motion!Voters : mLastFlags[v] = {}
  BY <1>1, <1>2, <1>3
    DEF MotionIrTyped, MotionIInv, MotionResting, MotionVoting, Motion!OneIf
<1>6. /\ mLastFlags' \in [Motion!Voters -> SUBSET Motion!Gestures]
      /\ mLastFlags'["IrGestureSensor"] = vote /\ mLastFlags'["IrSilencer"] = {}
      /\ mLastFlags'["AlarmSilencer"] = {}
  BY <1>2, <1>4, <1>5, MotionNames
<1>7. MotionVoting'
  <2>1. ASSUME NEW g \in Motion!Gestures PROVE mVotes'[g] = MotionVotes(g)'
                 /\ (mVotes'[g] > 0 <=> g \in vote)
    BY <1>2, <1>6 DEF MotionVotes, Motion!OneIf
  <2>2. \A v \in Motion!Voters : mLastFlags'[v] = IF v \in listening' THEN Motion!Wanted(v) ELSE {}
    BY <1>2, <1>4, <1>6, MotionNames
  <2>3. mGestures' = {g \in Motion!Gestures : mVotes'[g] > 0}
    BY <1>2, <1>4, <2>1
  <2> QED
    BY <2>1, <2>2, <2>3 DEF MotionVoting
<1>8. hub.config \in SUBSET Motion!Gestures /\ (vote = {}) \in BOOLEAN
  BY <1>1 DEF MotionIrTyped, MotionHubs
<1>9. hub' \in MotionHubs
  BY <1>2, <1>4, <1>8 DEF MotionHubs
<1>10. ASSUME calm PROVE MotionDoes(hub', vote)
  <2>1. hub' \in [disabled : {vote = {}},
          config : {IF vote = {} THEN hub.config ELSE vote}]
    BY <1>2, <1>10
  <2>2. hub'.disabled = (vote = {})
          /\ hub'.config = IF vote = {} THEN hub.config ELSE vote
    BY <2>1
  <2> QED
    BY <2>2 DEF MotionDoes
<1>11. sinceDoze' \in Motion!Times
  BY <1>2, HandsetAssumption DEF Motion!Times, Motion!LongAgo
<1>12. changes' \in Seq({"on", "off"}) /\ (changes' # <<>>
         => changes'[Len(changes')] = display)
  <2>1. display \in {"on", "off"}
    BY <1>1 DEF MotionTyped
  <2>2. CASE changes' = <<>>
    BY <2>2, EmptySeq
  <2>3. CASE changes' = <<display>>
    <3>1. changes' \in Seq({"on", "off"}) /\ Len(changes') = 1
            /\ changes'[1] = display
      BY <2>1, <2>3
    <3> QED
      BY <3>1, Zenon
  <2> QED
    BY <1>3, <2>2, <2>3
<1>13. Motion!TypeOK'
  <2>1. listening' \in SUBSET Motion!Listeners
    BY <1>2, <1>4, MotionNames
  <2>2. MotionTyped'
    BY <1>1, <1>3, <1>12, <2>1 DEF MotionTyped
  <2>3. MotionIrTyped'
    BY <1>2, <1>4, <1>5, <1>6, <1>9 DEF MotionIrTyped
  <2>4. MotionPostureTyped' /\ MotionTimesTyped'
    BY <1>1, <1>3, <1>11 DEF MotionPostureTyped, MotionTimesTyped
  <2> QED
    BY <2>2, <2>3, <2>4, MotionTypePartsNext
<1>14. MotionHubInv' /\ MotionResting'
  BY <1>2, <1>3, <1>10 DEF MotionHubInv, MotionResting
<1>15. MotionTold'
  BY <1>2, <1>3, <1>4, <1>12 DEF MotionTold
<1>16. MotionSilencing'
  BY <1>2, <1>3, <1>4, MotionNames DEF MotionIInv, MotionResting, MotionSilencing
<1>17. MotionPulsing'
  <2>1. sincePulse \in Int /\ sincePulse >= 0
    BY <1>1, HandsetAssumption DEF MotionTimesTyped, Motion!Times
  <2> QED
    BY <1>2, <1>3, <1>4, <2>1 DEF MotionIInv, MotionPulsing
<1> QED
  BY <1>7, <1>13, <1>14, <1>15, <1>16, <1>17 DEF MotionIInv

LEMMA MotionStart ==
    ASSUME Motion!Init
    PROVE  MotionIInv
<1>1. Motion!LongAgo \in Motion!Times /\ Motion!LongAgo \in Int
        /\ Motion!LongAgo > DELAY_BETWEEN_DOZES
  BY HandsetAssumption DEF Motion!LongAgo, Motion!Times
<1>2. MotionTyped /\ MotionPostureTyped /\ MotionTimesTyped
  BY <1>1, EmptySeq DEF Motion!Init, MotionTyped, MotionPostureTyped, MotionTimesTyped
<1>3. MotionIrTyped
  BY DEF Motion!Init, MotionIrTyped, MotionHubs
<1>4. MotionVoting
  <2>1. \A v \in Motion!Voters : mLastFlags[v] = {}
    BY DEF Motion!Init
  <2>2. \A g \in Motion!Gestures : mVotes[g] = 0 /\ MotionVotes(g) = 0
    BY <2>1, MotionNames DEF Motion!Init, MotionVotes, Motion!OneIf
  <2> QED
    BY <2>1, <2>2 DEF Motion!Init, MotionVoting
<1> QED
  BY <1>1, <1>2, <1>3, <1>4, MotionTypeParts
  DEF Motion!Init, MotionIInv, MotionHubInv, MotionResting, MotionTold,
    MotionSilencing, MotionPulsing

LEMMA MotionNext ==
    ASSUME MotionIInv, [Motion!Next]_(Motion!vars)
    PROVE  MotionIInv'
<1>1. CASE UNCHANGED Motion!vars
  <2>1. UNCHANGED <<calm, enabled, running, display, changes, listening, mVotes,
          mGestures,
                    mLastFlags, hub, mIsRinging, phone, alarm, mLastFlatUp, mIsStowed,
                    mLastStowed, sinceDoze, sincePulse, gap>>
    BY <1>1 DEF Motion!vars, Motion!prefs, Motion!ir, Motion!ringing,
      Motion!posture, Motion!times
  <2>2. Motion!TypeOK'
    BY <2>1, MotionTypeParts, MotionTypePartsNext
      DEF MotionIInv, MotionTyped, MotionIrTyped, MotionPostureTyped, MotionTimesTyped
  <2>3. MotionVoting'
    BY <2>1, MotionVotingKept DEF MotionIInv, Motion!ir
  <2> QED
    BY <2>1, <2>2, <2>3
      DEF MotionIInv, MotionHubInv, MotionResting, MotionTold, MotionSilencing,
        MotionPulsing
<1>2. CASE Motion!Next
  BY <1>2, MotionTurnScreenInv, MotionScreenTurnedOnInv, MotionScreenTurnedOffInv,
    MotionRefusedInv,
     MotionCallStateChangedInv, MotionAlarmStateInv, MotionGestureStepInv,
       MotionPreferenceChangedInv, MotionTickInv, MotionStartInv
  DEF Motion!Next
<1> QED
  BY <1>1, <1>2

LEMMA MotionServes ==
    ASSUME MotionIInv
    PROVE  Motion!GestureInv
<1>1. MotionIrTyped /\ MotionTyped
  BY MotionTypeParts DEF MotionIInv
<1>2. Motion!VotesCounted
  <2>1. ASSUME NEW g \in Motion!Gestures
        PROVE  mVotes[g] = Cardinality({v \in Motion!Voters : g \in mLastFlags[v]})
    <3> DEFINE V == {v \in Motion!Voters : g \in mLastFlags[v]}
    <3>1. V \in SUBSET Motion!Voters
      OBVIOUS
    <3>2. Cardinality(V) = Motion!OneIf("IrGestureSensor" \in V) + Motion!OneIf("IrSilencer" \in V)
                               + Motion!OneIf("AlarmSilencer" \in V)
      BY <3>1, MotionCountIs
    <3>3. /\ "IrGestureSensor" \in V <=> g \in mLastFlags["IrGestureSensor"]
          /\ "IrSilencer" \in V <=> g \in mLastFlags["IrSilencer"]
          /\ "AlarmSilencer" \in V <=> g \in mLastFlags["AlarmSilencer"]
      BY MotionNames
    <3>4. Cardinality(V) = MotionVotes(g)
      BY <3>2, <3>3 DEF MotionVotes, Motion!OneIf
    <3> QED
      BY <3>4 DEF MotionIInv, MotionVoting
  <2>2. ASSUME NEW A PROVE Motion!Cardinality(A) = Cardinality(A)
    BY Zenon DEF Motion!Cardinality, Cardinality, Motion!IsFiniteSet, IsFiniteSet
  <2> QED
    BY <2>1, <2>2 DEF MotionIInv, MotionVoting, Motion!VotesCounted
<1>3. Motion!HubAgrees
  BY DEF MotionIInv, MotionVoting, MotionHubInv, MotionDoes, Motion!HubAgrees
<1>4. Motion!Quiet
  <2>1. ASSUME running, display = "on", changes = <<>>, phone # "ringing", ~alarm
        PROVE  listening = {}
    BY <1>1, <2>1, MotionNames
      DEF MotionIInv, MotionTold, MotionSilencing, MotionTyped
  <2>2. ASSUME listening = {} PROVE mGestures = {}
    <3>1. \A v \in Motion!Voters : mLastFlags[v] = {}
      BY <2>2 DEF MotionIInv, MotionVoting
    <3>2. \A g \in Motion!Gestures : mVotes[g] = 0
      BY <3>1, MotionNames DEF MotionIInv, MotionVoting, MotionVotes, Motion!OneIf
    <3> QED
      BY <3>2 DEF MotionIInv, MotionVoting
  <2> QED
    BY <2>1, <2>2 DEF Motion!Quiet
<1> QED
  BY <1>2, <1>3, <1>4
    DEF MotionIInv, Motion!GestureInv, MotionPulsing, Motion!PulsesApart

-----------------------------------------------------------------------------
(* Lights: the battery is never lit, so that the LED is the notification's. *)
LightIInv ==
    /\ g_battery = Light!Black
    /\ g_notification \in [red : 0..255, green : 0..255, blue : 0..255]
    /\ led \in 0..255 /\ lcd \in 0..255 /\ g_attention \in 0..1
    /\ lcdFailed \/ g_lcd_brightness \in {Light!Unset, lcd}
    /\ ledFailed \/ led = Light!rgb_to_brightness(g_notification)

(* A brightness fits into the files.                                        *)
LEMMA BrightnessFits ==
    ASSUME NEW color \in [red : 0..255, green : 0..255, blue : 0..255]
    PROVE  Light!rgb_to_brightness(color) \in 0..255
<1>1. PICK r \in 0..255, g \in 0..255, b \in 0..255 :
          color.red = r /\ color.green = g /\ color.blue = b
  OBVIOUS
<1>2. PICK n \in Nat : n = 77 * r + 150 * g + 29 * b /\ n <= 65280
  OBVIOUS
<1>3. n \div 256 \in 0..255
  BY <1>2
<1> QED
  BY <1>1, <1>2, <1>3 DEF Light!rgb_to_brightness

LEMMA LightStart == Light!Init => LightIInv
<1> SUFFICES ASSUME Light!Init PROVE LightIInv
  OBVIOUS
<1>1. Light!Black \in [red : 0..255, green : 0..255, blue : 0..255]
  BY DEF Light!Black
<1>2. Light!rgb_to_brightness(Light!Black) = 0
  BY DEF Light!Black, Light!rgb_to_brightness
<1> QED
  BY <1>1, <1>2 DEF Light!Init, LightIInv

(* The LED is written for the notification it is given.                     *)
LEMMA LedShows ==
    ASSUME LightIInv,
           NEW color \in [red : 0..255, green : 0..255, blue : 0..255],
           Light!handle_speaker_battery_locked(color)
    PROVE  led' \in 0..255 /\ (ledFailed' \/ led' = Light!rgb_to_brightness(color))
<1>1. ~Light!is_lit(g_battery)
  BY DEF LightIInv, Light!is_lit
<1> QED
  BY <1>1, BrightnessFits DEF LightIInv, Light!handle_speaker_battery_locked

LEMMA LightNext == LightIInv /\ [Light!Next]_(Light!vars) => LightIInv'
<1> SUFFICES ASSUME LightIInv, [Light!Next]_(Light!vars) PROVE LightIInv'
  OBVIOUS
<1> DEFINE Rgb == [red : 0..255, green : 0..255, blue : 0..255]
<1> USE HandsetAssumption DEF HandsetAssumption
<1>1. ASSUME NEW color \in Colors, Light!set_light_backlight(color) PROVE LightIInv'
  <2>1. Light!rgb_to_brightness(color) \in 0..255
    BY BrightnessFits
  <2> QED
    BY <1>1, <2>1 DEF LightIInv, Light!set_light_backlight
<1>2. ASSUME NEW color \in Colors, Light!set_light_notifications(color) PROVE LightIInv'
  <2>1. led' \in 0..255 /\ (ledFailed' \/ led' = Light!rgb_to_brightness(color))
    BY <1>2, LedShows DEF Light!set_light_notifications
  <2> QED
    BY <1>2, <2>1 DEF LightIInv, Light!set_light_notifications
<1>3. ASSUME NEW flash \in Light!Flashes, NEW on \in 0..1,
             Light!set_light_attention(flash, on)
      PROVE  LightIInv'
  <2>1. /\ led' \in 0..255
        /\ ledFailed' \/ led' = Light!rgb_to_brightness(g_notification)
    BY <1>3, LedShows DEF LightIInv, Light!set_light_attention
  <2>2. g_attention' \in 0..1
    BY <1>3 DEF LightIInv, Light!set_light_attention
  <2> QED
    BY <1>3, <2>1, <2>2 DEF LightIInv, Light!set_light_attention
<1>4. ASSUME UNCHANGED Light!vars PROVE LightIInv'
  BY <1>4 DEF LightIInv, Light!vars, Light!rgb_to_brightness
<1> QED
  BY <1>1, <1>2, <1>3, <1>4 DEF Light!Next

-----------------------------------------------------------------------------
(* CameraWrapper: while one camera is opened at a time, the strings that    *)
(* are live are those of open cameras, and nobody meets a freed one.        *)
CamStrings ==
    ~together =>
        /\ ~twice /\ ~lost
        /\ \A c, d \in open : c = d
        /\ open # {} => \A c \in Cameras : fixed_set_params[c] # "freed"
        /\ \A c \in Cameras : fixed_set_params[c] = "live" => c \in open

CamIInv ==
    /\ Cam!TypeOK
    /\ set \in [Cameras -> Cam!Setting \cup {NULL}]
    /\ together \in BOOLEAN /\ twice \in BOOLEAN /\ lost \in BOOLEAN
    /\ \A c \in open : vendor[c].params =
          IF set[c] = NULL THEN NULL ELSE [set[c] EXCEPT !.video_stabilization = FALSE]
    /\ \A c \in Cameras : shown[c] # "nv12-venus" /\ (c \in open <=> vendor[c].open)
    /\ CamStrings

LEMMA CamStart == Cam!Init => CamIInv
<1> SUFFICES ASSUME Cam!Init PROVE CamIInv
  OBVIOUS
<1>1. Cam!TypeOK
  BY DEF Cam!Init, Cam!TypeOK, Cam!Closed
<1>2. CamStrings
  BY DEF Cam!Init, CamStrings
<1>3. \A c \in Cameras : shown[c] # "nv12-venus" /\ (c \in open <=> vendor[c].open)
  <2>1. NULL # "nv12-venus"
    BY HandsetAssumption DEF Cam!Formats
  <2> QED
    BY <2>1 DEF Cam!Init, Cam!Closed
<1> QED
  BY <1>1, <1>2, <1>3 DEF Cam!Init, CamIInv

LEMMA CamOpened ==
    LET new == [Cam!Closed EXCEPT !.open = TRUE]
    IN  /\ new \in [open : BOOLEAN, params : Cam!Setting \cup {NULL},
                    preview : BOOLEAN, recording : BOOLEAN]
        /\ new.open /\ new.params = NULL
<1>1. Cam!Closed \in [open : BOOLEAN, params : Cam!Setting \cup {NULL},
                     preview : BOOLEAN, recording : BOOLEAN]
  BY DEF Cam!Closed
<1>2. Cam!Closed.params = NULL
  BY DEF Cam!Closed
<1> QED
  BY <1>1, <1>2

(* An opened camera has no settings yet, and all strings are new.           *)
LEMMA CamOpen ==
    ASSUME CamIInv, NEW c \in Cameras, Cam!camera_device_open(c)
    PROVE  CamIInv'
<1> USE DEF CamIInv, Cam!TypeOK
<1>1. gVendorModule' \in BOOLEAN
  BY DEF Cam!camera_device_open, Cam!check_vendor_module
<1>2. c \notin open /\ set' = [set EXCEPT ![c] = NULL] /\ shown' = shown
  BY DEF Cam!camera_device_open
<1>3. CASE ~gVendorModule'
  <2>1. UNCHANGED <<fixed_set_params, twice, lost, open, vendor, together>>
    BY <1>3 DEF Cam!camera_device_open, Cam!heap
  <2> QED
    BY <1>1, <1>2, <2>1 DEF CamStrings
<1>4. CASE gVendorModule'
  <2>1. /\ fixed_set_params' = [d \in Cameras |-> "null"]
        /\ lost' = (lost \/ \E d \in Cameras : fixed_set_params[d] = "live")
        /\ twice' = twice
        /\ together' = (together \/ open # {})
    BY <1>4 DEF Cam!camera_device_open, Cam!NewArray
  <2>2. \/ open' = open \cup {c} /\ vendor' = [vendor EXCEPT ![c] = [Cam!Closed EXCEPT !.open = TRUE]]
        \/ open' = open /\ vendor' = vendor
    BY <1>4 DEF Cam!camera_device_open
  <2>3. CamStrings'
    BY <2>1, <2>2 DEF CamStrings
  <2>4. lost' \in BOOLEAN /\ together' \in BOOLEAN /\ twice' \in BOOLEAN
    BY <2>1
  <2>5. CASE open' = open /\ vendor' = vendor
    <3>1. fixed_set_params' \in [Cameras -> {"null", "live", "freed"}]
      BY <2>1
    <3>2. /\ set' \in [Cameras -> Cam!Setting \cup {NULL}]
          /\ \A d \in open : set'[d] = set[d]
      BY <1>2
    <3>3. \A d \in open' : vendor'[d].params =
             IF set'[d] = NULL THEN NULL ELSE [set'[d] EXCEPT !.video_stabilization = FALSE]
      BY <2>5, <3>2
    <3>4. Cam!TypeOK'
      BY <1>1, <1>2, <2>5, <3>1
    <3>5. \A d \in Cameras : shown'[d] # "nv12-venus" /\ (d \in open' <=> vendor'[d].open)
      BY <1>2, <2>5
    <3> QED
      BY <2>3, <2>4, <3>2, <3>3, <3>4, <3>5
  <2>6. CASE /\ open' = open \cup {c}
             /\ vendor' = [vendor EXCEPT ![c] = [Cam!Closed EXCEPT !.open = TRUE]]
    <3>1. PICK new \in [open : BOOLEAN, params : Cam!Setting \cup {NULL},
                        preview : BOOLEAN, recording : BOOLEAN] :
              vendor' = [vendor EXCEPT ![c] = new] /\ new.open /\ new.params = NULL
      BY <2>6, CamOpened
    <3>2. /\ vendor' \in [Cameras -> [open : BOOLEAN, params : Cam!Setting \cup {NULL},
                                      preview : BOOLEAN, recording : BOOLEAN]]
          /\ \A d \in Cameras : vendor'[d] = IF d = c THEN new ELSE vendor[d]
      BY <3>1
    <3>3. /\ set' \in [Cameras -> Cam!Setting \cup {NULL}]
          /\ \A d \in Cameras : set'[d] = IF d = c THEN NULL ELSE set[d]
      BY <1>2
    <3>4. \A d \in open' : vendor'[d].params =
             IF set'[d] = NULL THEN NULL ELSE [set'[d] EXCEPT !.video_stabilization = FALSE]
      BY <2>6, <3>1, <3>2, <3>3
    <3>5. \A d \in Cameras : d \in open' <=> vendor'[d].open
      BY <2>6, <3>1, <3>2
    <3> QED
      BY <1>1, <1>2, <2>1, <2>3, <2>4, <2>6, <3>2, <3>3, <3>4, <3>5
  <2> QED
    BY <2>2, <2>5, <2>6
<1> QED
  BY <1>3, <1>4

LEMMA CamClose ==
    ASSUME CamIInv, NEW c \in Cameras, Cam!camera_device_close(c)
    PROVE  CamIInv'
<1> USE DEF CamIInv, Cam!TypeOK
<1>1. /\ c \in open /\ open' = open \ {c}
      /\ twice' = (twice \/ \E d \in Cameras : fixed_set_params[d] = "freed")
      /\ fixed_set_params' = [d \in Cameras |->
             IF fixed_set_params[d] = "null" THEN "null" ELSE "freed"]
      /\ vendor' = [vendor EXCEPT ![c] = Cam!Closed]
      /\ UNCHANGED <<gVendorModule, shown, set, together, lost>>
  BY DEF Cam!camera_device_close
<1>2. CamStrings'
  BY <1>1 DEF CamStrings
<1>3. /\ vendor' \in [Cameras -> [open : BOOLEAN, params : Cam!Setting \cup {NULL},
                                  preview : BOOLEAN, recording : BOOLEAN]]
      /\ \A d \in Cameras : vendor'[d].open <=> d # c /\ vendor[d].open
      /\ \A d \in Cameras \ {c} : vendor'[d] = vendor[d]
  BY <1>1 DEF Cam!Closed
<1>4. twice' \in BOOLEAN /\ fixed_set_params' \in [Cameras -> {"null", "live", "freed"}]
  BY <1>1
<1> QED
  BY <1>1, <1>2, <1>3, <1>4

(* What is set goes on without stabilisation.                               *)
LEMMA CamSet ==
    ASSUME CamIInv, NEW c \in Cameras, NEW settings \in Cam!Setting,
           Cam!camera_set_parameters(c, settings)
    PROVE  CamIInv'
<1> USE DEF CamIInv, Cam!TypeOK
<1> DEFINE fixed == [settings EXCEPT !.video_stabilization = FALSE]
<1>1. /\ c \in open /\ open' = open
      /\ twice' = (twice \/ fixed_set_params[c] = "freed")
      /\ fixed_set_params' = [fixed_set_params EXCEPT ![c] = "live"]
      /\ vendor' = [vendor EXCEPT ![c].params = fixed]
      /\ set' = [set EXCEPT ![c] = settings]
      /\ UNCHANGED <<gVendorModule, shown, together, lost>>
  BY DEF Cam!camera_set_parameters, Cam!camera_fixup_setparams
<1>2. CamStrings'
  BY <1>1 DEF CamStrings
<1>3. fixed \in Cam!Setting /\ settings # NULL
  BY HandsetAssumption DEF Cam!Setting
<1> HIDE DEF fixed
<1>4. /\ vendor' \in [Cameras -> [open : BOOLEAN, params : Cam!Setting \cup {NULL},
                                  preview : BOOLEAN, recording : BOOLEAN]]
      /\ vendor'[c].params = fixed /\ (vendor'[c].open <=> vendor[c].open)
      /\ \A d \in Cameras \ {c} : vendor'[d] = vendor[d]
  BY <1>1, <1>3
<1>5. /\ set' \in [Cameras -> Cam!Setting \cup {NULL}]
      /\ \A d \in Cameras : set'[d] = IF d = c THEN settings ELSE set[d]
  BY <1>1
<1>6. \A d \in open' : vendor'[d].params =
          IF set'[d] = NULL THEN NULL ELSE [set'[d] EXCEPT !.video_stabilization = FALSE]
  BY <1>1, <1>3, <1>4, <1>5 DEF fixed
<1>7. twice' \in BOOLEAN /\ fixed_set_params' \in [Cameras -> {"null", "live", "freed"}]
  BY <1>1
<1>8. \A d \in Cameras : shown'[d] # "nv12-venus" /\ (d \in open' <=> vendor'[d].open)
  BY <1>1, <1>4
<1> QED
  BY <1>1, <1>2, <1>4, <1>5, <1>6, <1>7, <1>8

(* What is shown has a format the service knows.                            *)
LEMMA CamShow ==
    ASSUME CamIInv, NEW c \in Cameras,
           Cam!camera_get_parameters(c) \/ Cam!camera_put_parameters(c)
    PROVE  CamIInv'
<1> USE HandsetAssumption DEF CamIInv, Cam!TypeOK
<1>1. UNCHANGED <<gVendorModule, fixed_set_params, twice, lost, open, vendor, set, together>>
  BY DEF Cam!camera_get_parameters, Cam!camera_put_parameters, Cam!heap
<1>2. PICK format \in (Cam!Formats \ {"nv12-venus"}) \cup {NULL} :
          shown' = [shown EXCEPT ![c] = format]
  <2>1. CASE Cam!camera_put_parameters(c)
    BY <2>1 DEF Cam!camera_put_parameters
  <2>2. CASE Cam!camera_get_parameters(c)
    <3>1. PICK own \in Cam!Formats :
              shown' = [shown EXCEPT ![c] = Cam!camera_fixup_getparams(
                           IF vendor[c].params = NULL THEN own
                           ELSE vendor[c].params.preview_format)]
      BY <2>2 DEF Cam!camera_get_parameters
    <3>2. \A f \in Cam!Formats : Cam!camera_fixup_getparams(f) \in Cam!Formats \ {"nv12-venus"}
      BY DEF Cam!camera_fixup_getparams, Cam!Formats
    <3>3. (IF vendor[c].params = NULL THEN own ELSE vendor[c].params.preview_format)
             \in Cam!Formats
      BY DEF Cam!Setting
    <3> QED
      BY <3>1, <3>2, <3>3
  <2> QED
    BY <2>1, <2>2
<1>3. NULL # "nv12-venus"
  BY DEF Cam!Formats
<1>4. /\ shown' \in [Cameras -> Cam!Formats \cup {NULL}]
      /\ \A d \in Cameras : shown'[d] # "nv12-venus"
  BY <1>2, <1>3
<1> QED
  BY <1>1, <1>4 DEF CamStrings

(* The vendor's calls touch neither its settings nor what is open.          *)
LEMMA CamVendor ==
    ASSUME CamIInv, NEW c \in Cameras, NEW new, Cam!VendorCall(c, new),
           new \in [open : BOOLEAN, params : Cam!Setting \cup {NULL},
                    preview : BOOLEAN, recording : BOOLEAN],
           new.params = vendor[c].params, new.open = vendor[c].open
    PROVE  CamIInv'
<1> USE DEF CamIInv, Cam!TypeOK
<1>1. /\ vendor' = [vendor EXCEPT ![c] = new]
      /\ UNCHANGED <<gVendorModule, fixed_set_params, twice, lost, open, shown, set, together>>
  BY DEF Cam!VendorCall, Cam!heap
<1>2. /\ vendor' \in [Cameras -> [open : BOOLEAN, params : Cam!Setting \cup {NULL},
                                  preview : BOOLEAN, recording : BOOLEAN]]
      /\ \A d \in Cameras : /\ vendor'[d].params = vendor[d].params
                            /\ vendor'[d].open = vendor[d].open
  BY <1>1
<1> QED
  BY <1>1, <1>2 DEF CamStrings

LEMMA CamNext == CamIInv /\ [Cam!Next]_(Cam!vars) => CamIInv'
<1> SUFFICES ASSUME CamIInv, [Cam!Next]_(Cam!vars) PROVE CamIInv'
  OBVIOUS
<1>1. ASSUME Cam!camera_get_info PROVE CamIInv'
  BY <1>1 DEF CamIInv, CamStrings, Cam!TypeOK, Cam!camera_get_info, Cam!check_vendor_module,
              Cam!heap
<1>2. ASSUME UNCHANGED Cam!vars PROVE CamIInv'
  BY <1>2 DEF CamIInv, CamStrings, Cam!TypeOK, Cam!vars
<1>3. ASSUME NEW c \in Cameras,
             \/ Cam!PreviewCall(c) \/ Cam!RecordingCall(c)
             \/ Cam!PictureCall(c) \/ Cam!CommandCall(c)
      PROVE  CamIInv'
  <2>1. vendor[c] \in [open : BOOLEAN, params : Cam!Setting \cup {NULL},
                       preview : BOOLEAN, recording : BOOLEAN]
    BY DEF CamIInv, Cam!TypeOK
  <2>2. ASSUME NEW on \in BOOLEAN, Cam!VendorCall(c, [vendor[c] EXCEPT !.preview = on])
        PROVE  CamIInv'
    BY <2>1, <2>2, CamVendor
  <2>3. ASSUME NEW on \in BOOLEAN, Cam!VendorCall(c, [vendor[c] EXCEPT !.recording = on])
        PROVE  CamIInv'
    BY <2>1, <2>3, CamVendor
  <2>4. ASSUME Cam!VendorCall(c, vendor[c]) PROVE CamIInv'
    BY <2>1, <2>4, CamVendor
  <2>5. ASSUME Cam!VendorCall(c, [vendor[c] EXCEPT !.preview = FALSE, !.recording = FALSE])
        PROVE  CamIInv'
    BY <2>1, <2>5, CamVendor
  <2> QED
    BY <1>3, <2>2, <2>3, <2>4, <2>5
       DEF Cam!PreviewCall, Cam!RecordingCall, Cam!PictureCall, Cam!CommandCall
<1> QED
  BY <1>1, <1>2, <1>3, CamOpen, CamClose, CamSet, CamShow DEF Cam!Next

-----------------------------------------------------------------------------
(* The composition: a step is one program's, and the others stay as they    *)
(* are.                                                                     *)
HandsetKept ==
    /\ part = "gestures" => MotionIInv
    /\ part = "camera" => CamIInv
    /\ part = "lights" => LightIInv

LEMMA HandsetInv == HandsetSafety => []HandsetKept
<1>1. HandsetInit => HandsetKept
  BY MotionStart, CamStart, LightStart DEF HandsetInit, HandsetKept
<1>2. HandsetKept /\ [HandsetNext]_<<part, vars, gestureVars, cameraVars, lightVars>>
         => HandsetKept'
  <2> SUFFICES ASSUME HandsetKept,
                      [HandsetNext]_<<part, vars, gestureVars, cameraVars, lightVars>>
               PROVE  HandsetKept'
    OBVIOUS
  <2>1. part' = part
    BY DEF HandsetNext
  <2>2. CASE part = "gestures"
    <3>1. [Motion!Next]_(Motion!vars)
      BY <2>2 DEF HandsetNext, gestureVars, Motion!vars, Motion!prefs, Motion!ir,
         Motion!ringing, Motion!posture, Motion!times
    <3> QED
      BY <2>1, <2>2, <3>1, MotionNext DEF HandsetKept
  <2>3. CASE part = "camera"
    <3>1. [Cam!Next]_(Cam!vars)
      BY <2>3 DEF HandsetNext, cameraVars, Cam!vars
    <3> QED
      BY <2>1, <2>3, <3>1, CamNext DEF HandsetKept
  <2>4. CASE part = "lights"
    <3>1. [Light!Next]_(Light!vars)
      BY <2>4 DEF HandsetNext, lightVars, Light!vars
    <3> QED
      BY <2>1, <2>4, <3>1, LightNext DEF HandsetKept
  <2>5. CASE part \notin {"gestures", "camera", "lights"}
    BY <2>1, <2>5 DEF HandsetKept
  <2> QED
    BY <2>2, <2>3, <2>4, <2>5
<1> QED
  BY <1>1, <1>2, PTL DEF HandsetSafety

(* However the screen, calls, alarms, preferences, refusals of the sensors  *)
(* and restarts of the service follow each other: each gesture has the      *)
(* votes of those who listen for it, the hub has what is voted for unless   *)
(* it refused, nothing is listened to while the screen is on and nothing    *)
(* rings, and two pulses are further apart than the delay.  Whatever        *)
(* cameras are opened, refused, set and closed: the vendor has what was     *)
(* asked for last, and each string is freed once unless two cameras were    *)
(* to be open.  Whatever lights are asked for and however writes fail:      *)
(* screen and LED are as bright as was asked for last, or the write failed. *)
THEOREM HandsetIsServed == HandsetSafety => []HandsetServed
<1>1. CamIInv => Cam!CameraInv
  BY DEF CamIInv, CamStrings, Cam!CameraInv
<1>2. LightIInv => Light!LightsInv
  BY DEF LightIInv, Light!LightsInv
<1>3. HandsetKept => HandsetServed
  BY <1>1, <1>2, MotionServes DEF HandsetKept, HandsetServed
<1> QED
  BY <1>3, HandsetInv, PTL
=============================================================================
