------------------------------- MODULE Lights -------------------------------
(* liblight: the backlight of the screen, and the charging LED, which shows *)
(* a notification, or the state of the battery if there is one.  Each call  *)
(* runs under one lock.  A write to a file in /sys may fail.                *)
EXTENDS Naturals

CONSTANTS Colors        \* [red, green, blue], each in 0..255

VARIABLES
    g_notification, g_battery, g_attention,
    g_lcd_brightness,           \* -1 is here 256: none yet
    led, lcd,                   \* the files
    ledFailed, lcdFailed        \* history: the last write failed

vars == <<g_notification, g_battery, g_attention, g_lcd_brightness, led, lcd,
          ledFailed, lcdFailed>>

Black == [red |-> 0, green |-> 0, blue |-> 0]
Unset == 256
Flashes == {"LIGHT_FLASH_HARDWARE", "LIGHT_FLASH_NONE", "LIGHT_FLASH_TIMED"}

is_lit(color) == color # Black
rgb_to_brightness(color) == (77 * color.red + 150 * color.green + 29 * color.blue) \div 256

Init ==
    /\ g_notification = Black /\ g_battery = Black /\ g_attention = 0
    /\ g_lcd_brightness = Unset
    /\ led = 0 /\ lcd = 0 /\ ledFailed = FALSE /\ lcdFailed = FALSE

(* set_light_backlight: what the screen is believed to have is not written  *)
(* again; what could not be written is believed too.                        *)
set_light_backlight(color) ==
    LET brightness == rgb_to_brightness(color)
    IN  /\ g_lcd_brightness' = brightness
        /\ \/ /\ g_lcd_brightness # brightness
              /\ \/ lcd' = brightness /\ lcdFailed' = FALSE
                 \/ lcdFailed' = TRUE /\ UNCHANGED lcd
           \/ g_lcd_brightness = brightness /\ UNCHANGED <<lcd, lcdFailed>>
        /\ UNCHANGED <<g_notification, g_battery, g_attention, led, ledFailed>>

(* handle_speaker_battery_locked, set_speaker_light_locked.                 *)
handle_speaker_battery_locked(notification) ==
    LET shown == IF is_lit(g_battery) THEN g_battery ELSE notification
    IN  \/ led' = rgb_to_brightness(shown) /\ ledFailed' = FALSE
        \/ ledFailed' = TRUE /\ UNCHANGED led

(* A mutant: the LED is written before the notification is kept.            *)
set_light_notificationsLate(color) ==
    /\ g_notification' = color
    /\ handle_speaker_battery_locked(g_notification)
    /\ UNCHANGED <<g_battery, g_attention, g_lcd_brightness, lcd, lcdFailed>>

set_light_notifications(color) ==
    /\ g_notification' = color
    /\ handle_speaker_battery_locked(color)
    /\ UNCHANGED <<g_battery, g_attention, g_lcd_brightness, lcd, lcdFailed>>

(* set_light_attention keeps a duration that nobody looks at, and has the   *)
(* LED written again.                                                       *)
set_light_attention(flash, on) ==
    /\ g_attention' = CASE flash = "LIGHT_FLASH_HARDWARE" -> on
                        [] flash = "LIGHT_FLASH_NONE" -> 0
                        [] OTHER -> g_attention
    /\ handle_speaker_battery_locked(g_notification)
    /\ UNCHANGED <<g_notification, g_battery, g_lcd_brightness, lcd, lcdFailed>>

(* The lights that open_lights knows; that of buttons does nothing, and     *)
(* that of the battery, which would set g_battery, is not among them.       *)
Next ==
    \/ \E c \in Colors : set_light_backlight(c) \/ set_light_notifications(c)
    \/ \E f \in Flashes, on \in 0..1 : set_light_attention(f, on)

Spec == Init /\ [][Next]_vars

-----------------------------------------------------------------------------
(* Properties.                                                              *)

(* Whatever the order of calls and of failures, screen and LED are as       *)
(* bright as was asked for last, unless the write for it failed; no colour  *)
(* is brighter than the files take.                                         *)
LightsInv ==
    /\ {led, lcd} \subseteq 0..255 /\ g_attention \in 0..1
    /\ lcdFailed \/ g_lcd_brightness \in {Unset, lcd}
    /\ ledFailed \/ led = rgb_to_brightness(g_notification)
=============================================================================
