--------------------------- MODULE ChargeOnlyMode ---------------------------
(* charge_only_mode: what runs when a charger is plugged into a phone that  *)
(* is off.  One thread fires the alarms that are due (alarm.c) and takes    *)
(* one event at a time (events.c); its callbacks (main.c) dim and blank the *)
(* screen, watch the battery, power off when the charger is gone and reboot *)
(* on a long press of the power key.  Time is left out: an alarm that is    *)
(* set may fire at any later moment.  Drawing, LEDs and the battery's level *)
(* are left out.                                                            *)
EXTENDS Naturals, Sequences

CONSTANTS Sequence,     \* the keys of launch_sequence, the last is "power_down"
          RebootMayFail,
          MaxUevents    \* what waits in the netlink socket, for TLC

ASSUME ChargeAssumption ==
    /\ Sequence \in Seq({"volume_up", "volume_down", "power_down"})
    /\ RebootMayFail \in BOOLEAN /\ MaxUevents \in Nat

VARIABLES
    (* The device. *)
    plugged, voltageOk,
    uevents,        \* "charger" or "other", oldest first
    key,            \* the key event that waits in the input device, if any
    pressed,        \* the power key is down
    (* The program. *)
    alarms,         \* how many alarms are set for each callback
    powerup, shutdown, launched, counter,
    blank, brightness,
    mode,           \* what /data/chargeonlymode says
    ended,          \* "no", "off" or "outofcharge"
    (* History. *)
    missed,         \* a message of the charger was read and not looked at
    failed          \* a reboot has failed

device == <<plugged, voltageOk, uevents, key, pressed>>
screen == <<blank, brightness>>
flags  == <<powerup, shutdown, launched, counter, mode>>
vars   == <<device, alarms, screen, flags, ended, missed, failed>>

Callbacks == {"animation", "alarm1", "alarm2", "power_key"}
Keys == {"power_down", "power_up", "volume_up", "volume_down", "camera"}

Set(cb, to)   == [cb EXCEPT ![to] = @ + 1]
Cancel(cb, S) == [f \in Callbacks |-> IF f \in S THEN 0 ELSE cb[f]]

TypeOK ==
    /\ uevents \in Seq({"charger", "other"}) /\ key \in Keys \cup {"none"}
    /\ alarms \in [Callbacks -> Nat]
    /\ brightness \in {"bright", "dim", "off"} /\ blank \in BOOLEAN
    /\ ended \in {"no", "off", "outofcharge"}
    /\ counter \in 0..Len(Sequence) + 1

(* main, up to its loop; a message that came by then has been thrown away   *)
(* by uev_get.                                                              *)
Init ==
    /\ plugged \in BOOLEAN /\ voltageOk \in BOOLEAN
    /\ uevents = <<>> /\ key = "none" /\ pressed = FALSE
    /\ alarms = [f \in Callbacks |-> IF f \in {"alarm1", "animation"} THEN 1 ELSE 0]
    /\ blank = FALSE /\ brightness = "bright"
    /\ powerup = FALSE /\ shutdown = FALSE /\ launched = FALSE /\ counter = 0
    /\ mode = "charging" /\ ended = "no"
    /\ missed = ~plugged /\ failed = FALSE

-----------------------------------------------------------------------------
(* The callbacks: cb is what is set when they are called.                   *)

(* reboot() comes back only when it fails.                                  *)
Reboot(how) ==
    /\ mode' = ""
    /\ \/ ended' = how /\ UNCHANGED failed
       \/ RebootMayFail /\ failed' = TRUE /\ UNCHANGED ended

(* screen_brightness_animation_alarm2.                                      *)
DarkScreen(cb) ==
    /\ brightness' = "off"
    /\ blank' = TRUE
    /\ alarms' = Cancel(cb, {"animation"})

(* It is the only place that powers off.                                    *)
DarkOrOff(cb, off) ==
    /\ DarkScreen(cb)
    /\ IF off THEN Reboot("off") ELSE UNCHANGED <<mode, ended, failed>>

(* screen_brightness_animation_start.                                       *)
StartAnimation(cb) ==
    /\ blank' = FALSE
    /\ brightness' = "bright"
    /\ alarms' = Set(Set(cb, "alarm1"), "animation")
    /\ UNCHANGED <<mode, ended, failed>>

PowerEventPowered(cb) ==
    /\ powerup' = voltageOk
    /\ IF ~shutdown /\ ~plugged /\ voltageOk
       THEN /\ shutdown' = TRUE
            /\ DarkOrOff(Cancel(cb, {"alarm1", "alarm2"}), TRUE)
       ELSE /\ alarms' = cb
            /\ UNCHANGED <<shutdown, screen, mode, ended, failed>>

(* power_event: the first time the charger is found gone, the device shuts  *)
(* down.                                                                    *)
PowerEvent(cb) ==
    /\ powerup' = voltageOk
    /\ IF ~shutdown /\ ~plugged
       THEN /\ shutdown' = TRUE
            /\ DarkOrOff(Cancel(cb, {"alarm1", "alarm2"}), TRUE)
       ELSE /\ alarms' = cb
            /\ UNCHANGED <<shutdown, screen, mode, ended, failed>>

Fired(f) == [alarms EXCEPT ![f] = @ - 1]
Running(f) == ended = "no" /\ alarms[f] > 0

AnimationAlarm ==
    /\ Running("animation")
    /\ PowerEvent(Set(Fired("animation"), "animation"))
    /\ UNCHANGED <<device, launched, counter, missed>>

Alarm1 ==
    /\ Running("alarm1")
    /\ brightness' = "dim"
    /\ alarms' = Set(Fired("alarm1"), "alarm2")
    /\ UNCHANGED <<device, blank, flags, ended, missed, failed>>

Alarm2 ==
    /\ Running("alarm2")
    /\ DarkOrOff(Fired("alarm2"), shutdown)
    /\ UNCHANGED <<device, powerup, shutdown, launched, counter, missed>>

PowerKeyAlarm ==
    /\ Running("power_key")
    /\ alarms' = Cancel(Fired("power_key"), {"alarm1", "alarm2", "animation"})
    /\ Reboot("outofcharge")
    /\ UNCHANGED <<device, screen, powerup, shutdown, launched, counter, missed>>

-----------------------------------------------------------------------------
(* The events.                                                              *)

(* launch_sequence keeps its counter when the sequence is complete, and the *)
(* next key is compared with what lies behind it.                           *)
LaunchSequence(k) ==
    /\ IF k \notin {"volume_up", "volume_down", "power_down"}
       THEN UNCHANGED counter
       ELSE IF counter < Len(Sequence)
            THEN counter' = IF Sequence[counter + 1] = k THEN counter + 1 ELSE 0
            ELSE counter' \in {0, Len(Sequence) + 1}
    /\ launched' = (launched \/ (counter' = Len(Sequence) /\ counter' # counter))

(* update_screen_on_wakeup_key: a bright screen goes dark, any other one    *)
(* starts again.                                                            *)
WakeupKey(cb) ==
    IF cb["alarm1"] > 0
    THEN DarkOrOff(Cancel(cb, {"alarm1", "alarm2", "animation"}), shutdown)
    ELSE StartAnimation(Cancel(cb, {"alarm1", "alarm2", "animation"}))

WakeupKey2Over(cb) == StartAnimation(Cancel(cb, {"alarm2"}))

(* update_screen_on_wakeup_key2.                                            *)
WakeupKey2(cb) == StartAnimation(Cancel(cb, {"alarm1", "alarm2", "animation"}))

KeyEvent ==
    /\ ended = "no" /\ key # "none"
    /\ key' = "none"
    /\ LaunchSequence(key)
    /\ CASE key = "power_down" ->
              /\ alarms' = IF powerup THEN Set(alarms, "power_key") ELSE alarms
              /\ UNCHANGED <<screen, mode, ended, failed>>
         [] key = "power_up" -> WakeupKey(Cancel(alarms, {"power_key"}))
         [] OTHER            -> WakeupKey2(alarms)
    /\ UNCHANGED <<plugged, voltageOk, uevents, pressed, powerup, shutdown, missed>>

(* ev_get takes keys first.  It reads every message of the socket into one  *)
(* buffer and looks at the last.                                            *)
Seen(queue) == queue[Len(queue)] = "charger"

Uevent ==
    /\ ended = "no" /\ key = "none" /\ uevents # <<>>
    /\ uevents' = <<>>
    /\ IF Seen(uevents)
       THEN PowerEvent(alarms) /\ UNCHANGED missed
       ELSE /\ missed' = (missed \/ \E k \in DOMAIN uevents : uevents[k] = "charger")
            /\ UNCHANGED <<alarms, screen, powerup, shutdown, mode, ended, failed>>
    /\ UNCHANGED <<plugged, voltageOk, key, pressed, launched, counter>>

-----------------------------------------------------------------------------
(* The user, the charger and the kernel.                                    *)

program == <<alarms, screen, flags, ended, missed, failed>>

Press(k) ==
    /\ key = "none"
    /\ k = "power_down" => ~pressed
    /\ k = "power_up" => pressed
    /\ key' = k
    /\ pressed' = IF k = "power_down" THEN TRUE ELSE IF k = "power_up" THEN FALSE ELSE pressed
    /\ UNCHANGED <<plugged, voltageOk, uevents, program>>

Plug ==
    /\ Len(uevents) < MaxUevents
    /\ plugged' = ~plugged
    /\ uevents' = Append(uevents, "charger")
    /\ UNCHANGED <<voltageOk, key, pressed, program>>

OtherUevent ==
    /\ Len(uevents) < MaxUevents
    /\ uevents' = Append(uevents, "other")
    /\ UNCHANGED <<plugged, voltageOk, key, pressed, program>>

Voltage ==
    /\ voltageOk' = ~voltageOk
    /\ UNCHANGED <<plugged, uevents, key, pressed, program>>

Environment ==
    /\ ended = "no"
    /\ Plug \/ OtherUevent \/ Voltage \/ \E k \in Keys : Press(k)

Alarm == AnimationAlarm \/ Alarm1 \/ Alarm2 \/ PowerKeyAlarm

Next == Alarm \/ KeyEvent \/ Uevent \/ Environment

(* The loop goes on: an alarm that stays set fires, an event that waits is  *)
(* taken, and the loop is faster than fingers: a message that waits is      *)
(* taken between two keys.  Nothing makes anybody plug, press or report.    *)
Fairness ==
    /\ WF_vars(AnimationAlarm) /\ WF_vars(Alarm1) /\ WF_vars(Alarm2)
    /\ WF_vars(PowerKeyAlarm) /\ WF_vars(KeyEvent) /\ SF_vars(Uevent)

Spec == Init /\ [][Next]_vars /\ Fairness

-----------------------------------------------------------------------------
(* Properties.                                                              *)

(* Over every order of keys, alarms and messages, the alarms agree with the *)
(* screen: a lit screen has one alarm that will dim or blank it and one     *)
(* animation, a dark one has neither, and a long press has one alarm, set   *)
(* only while the key is down or its release still waits.  (A reboot that   *)
(* fails has cancelled the alarms of a screen that stays lit.)              *)
AlarmsMatchScreen ==
    /\ TypeOK
    /\ (ended = "no" /\ ~failed) =>
          /\ alarms["alarm1"] = IF brightness = "bright" THEN 1 ELSE 0
          /\ alarms["alarm2"] = IF brightness = "dim" THEN 1 ELSE 0
          /\ alarms["animation"] = IF brightness = "off" THEN 0 ELSE 1
          /\ blank <=> brightness = "off"
    /\ alarms["power_key"] \in {0, 1}
    /\ alarms["power_key"] = 1 => pressed \/ key = "power_up"
    /\ key = "power_down" => pressed /\ alarms["power_key"] = 0
    /\ ended = "off" => shutdown
    /\ ended # "no" => mode = ""

(* "When the charger is unplugged the device shall shutdown at once": a     *)
(* charger that stays away ends the program, lit or dark, unless its        *)
(* message was overlooked or the reboot failed; and the screen of a device  *)
(* nobody touches goes dark.                                                *)
ShutsDown ==
    /\ (~plugged) ~> (ended # "no" \/ plugged \/ missed \/ failed)
    /\ <>[](key = "none") => []<>(ended # "no" \/ brightness = "off" \/ failed)
=============================================================================
