--------------------------- MODULE MotionGestures ---------------------------
(***************************************************************************)
(* NXActions, the service that turns motion and infrared gestures into     *)
(* pulses of a dark screen, and silences a call or an alarm at a swipe.     *)
(* Its handlers run on the main thread: each is one step.  The infrared     *)
(* gestures the sensor hub wakes for are voted on, since a call and an      *)
(* alarm want the same one.                                                 *)
(*                                                                         *)
(* Time is counted in fractions of the delay between pulses, and no further *)
(* than it reaches.  Left out: that a call is silenced half a second after  *)
(* it began at the earliest, and the camera and flashlight gestures, whose  *)
(* listeners stay registered.                                               *)
(***************************************************************************)
EXTENDS Integers, Sequences, FiniteSets

CONSTANTS
    DELAY_BETWEEN_DOZES,    \* in steps of time
    MaxScreen               \* bound: changes of the screen not yet handled

SWIPE == "swipe"
APPROACH == "approach"
Gestures == {SWIPE, APPROACH}

(* Who votes, and for what; all listeners. *)
Voters == {"IrGestureSensor", "IrSilencer", "AlarmSilencer"}
Wanted(v) == IF v = "IrGestureSensor" THEN {APPROACH} ELSE {SWIPE}
FlatUp == {"mFlatUpListener", "mStowListener"}
Listeners == Voters \cup FlatUp \cup {"StowSensor"}
Keys == {"gesture_ir", "gesture_ir_silence", "pick_up"}

VARIABLES
    calm,           \* chosen at the start: the sensors refuse nothing
    running,        \* the service is there
    screen, changes,    \* "on" or "off", and the broadcasts not yet handled
    enabled,        \* preferences, as each object last loaded them
    listening,      \* registered listeners
    mVotes, mGestures,  \* IrGestureManager
    mLastFlags,     \* of each IrGestureVote
    hub,            \* the sensor hub: IR disabled, gestures it wakes for
    mIsRinging, phone, alarm,   \* of IrSilencer; what was last heard of both
    mLastFlatUp, mIsStowed, mLastStowed,
    sinceDoze,              \* time since mLastDoze
    sincePulse, gap         \* history: time since the last pulse, and between
                            \* the last two

Times == 0..(DELAY_BETWEEN_DOZES + 1)
LongAgo == DELAY_BETWEEN_DOZES + 1

prefs == <<calm, enabled>>
ir == <<mVotes, mGestures, mLastFlags, hub>>
ringing == <<mIsRinging, phone, alarm>>
posture == <<mLastFlatUp, mIsStowed, mLastStowed>>
times == <<sinceDoze, sincePulse, gap>>
vars == <<prefs, running, screen, changes, listening, ir, ringing, posture, times>>

TypeOK ==
    /\ calm \in BOOLEAN /\ running \in BOOLEAN
    /\ screen \in {"on", "off"} /\ changes \in Seq({"on", "off"})
    /\ enabled \in SUBSET Keys
    /\ listening \in SUBSET Listeners
    /\ mVotes \in [Gestures -> Int] /\ mGestures \in SUBSET Gestures
    /\ mLastFlags \in [Voters -> SUBSET Gestures]
    /\ hub \in [disabled : BOOLEAN, config : SUBSET Gestures]
    /\ mIsRinging \in BOOLEAN /\ alarm \in BOOLEAN
    /\ phone \in {"idle", "ringing", "offhook"}
    /\ posture \in BOOLEAN \X BOOLEAN \X BOOLEAN
    /\ times \in Times \X Times \X Times

Init ==
    /\ calm \in BOOLEAN /\ running = FALSE
    /\ screen \in {"on", "off"} /\ changes = <<>>
    /\ enabled = Keys
    /\ listening = {}
    /\ mVotes = [g \in Gestures |-> 0] /\ mGestures = {}
    /\ mLastFlags = [v \in Voters |-> {}]
    /\ hub \in [disabled : BOOLEAN, config : {{}, Gestures}]
    /\ mIsRinging = FALSE /\ phone = "idle" /\ alarm = FALSE
    /\ mLastFlatUp = FALSE /\ mIsStowed = FALSE /\ mLastStowed = FALSE
    /\ sinceDoze = LongAgo /\ sincePulse = LongAgo /\ gap = LongAgo

-----------------------------------------------------------------------------
(* IrGestureManager.  A native call that fails is logged, and mGestures     *)
(* says what it should have been.                                           *)

OneIf(b) == IF b THEN 1 ELSE 0

VoteDeltaOnlyUp(old, new) ==
    [g \in Gestures |-> mVotes[g] + OneIf(g \in new)]

VoteDelta(old, new) ==
    [g \in Gestures |-> mVotes[g] - OneIf(g \in old) + OneIf(g \in new)]

SetHub(gestures) ==
    hub' \in [disabled : {gestures = {}} \cup (IF calm THEN {} ELSE {hub.disabled}),
              config : {gestures} \cup (IF calm THEN {} ELSE {hub.config})]

UpdateSensorConfig(gestures) ==
    /\ mGestures' = gestures
    /\ IF gestures = mGestures THEN UNCHANGED hub ELSE SetHub(gestures)

VoteForSensors(v, flags) ==
    /\ mVotes' = VoteDelta(mLastFlags[v], flags)
    /\ mLastFlags' = [mLastFlags EXCEPT ![v] = flags]
    /\ UpdateSensorConfig({g \in Gestures : mVotes'[g] > 0})

(* SensorHelper.registerListener throws if the sensor manager refuses, as   *)
(* it may because the listener is there already.  Nobody catches that: the  *)
(* process ends, and the hub stays as it is.                                *)
Refused(ls) == ls # {} /\ (~calm \/ ls \cap listening # {})

Throw ==
    /\ running' = FALSE
    /\ listening' = {} /\ changes' = <<>>
    /\ mVotes' = [g \in Gestures |-> 0] /\ mGestures' = {}
    /\ mLastFlags' = [v \in Voters |-> {}]
    /\ mIsRinging' = FALSE /\ phone' = "idle" /\ alarm' = FALSE
    /\ mLastFlatUp' = FALSE /\ mIsStowed' = FALSE /\ mLastStowed' = FALSE
    /\ sinceDoze' = LongAgo
    /\ UNCHANGED <<prefs, screen, sincePulse, gap>>

-----------------------------------------------------------------------------
(* The screen.                                                              *)

TurnScreen ==
    /\ Len(changes) < MaxScreen
    /\ screen' = IF screen = "on" THEN "off" ELSE "on"
    /\ changes' = IF running THEN Append(changes, screen') ELSE changes
    /\ UNCHANGED <<prefs, running, listening, ir, ringing, posture, times>>

(* What the sensors register when the screen goes off. *)
WhenDark ==
    (IF "pick_up" \in enabled THEN FlatUp \cup {"StowSensor"} ELSE {})
    \cup (IF "gesture_ir" \in enabled THEN {"IrGestureSensor"} ELSE {})
ForDark == Listeners \ {"IrSilencer", "AlarmSilencer"}
VoteWhenDark == IF "gesture_ir" \in enabled THEN {APPROACH} ELSE {}

ScreenTurnedOnKeepsVote ==
    /\ running /\ changes # <<>> /\ Head(changes) = "on"
    /\ changes' = Tail(changes)
    /\ listening' = listening \ ForDark
    /\ UNCHANGED <<prefs, running, screen, ir, ringing, posture, times>>

ScreenTurnedOn ==
    /\ running /\ changes # <<>> /\ Head(changes) = "on"
    /\ changes' = Tail(changes)
    /\ listening' = listening \ ForDark
    /\ VoteForSensors("IrGestureSensor", {})
    /\ UNCHANGED <<prefs, running, screen, ringing, posture, times>>

ScreenTurnedOff ==
    /\ running /\ changes # <<>> /\ Head(changes) = "off"
    /\ changes' = Tail(changes)
    /\ listening' = (listening \ ForDark) \cup WhenDark
    /\ VoteForSensors("IrGestureSensor", VoteWhenDark)
    /\ sinceDoze' = 0
    /\ UNCHANGED <<prefs, running, screen, ringing, posture, sincePulse, gap>>

(* The infrared sensor may have voted by then. *)
DarkRefused ==
    /\ running /\ changes # <<>> /\ Head(changes) = "off"
    /\ Refused(WhenDark)
    /\ Throw
    /\ UNCHANGED hub \/ SetHub((mGestures \ {APPROACH}) \cup VoteWhenDark)

-----------------------------------------------------------------------------
(* Calls and alarms.                                                        *)

CallStateChanged ==
    /\ running
    /\ phone' \in {"idle", "ringing", "offhook"} \ {phone}
    /\ \/ /\ phone' = "ringing" /\ ~mIsRinging /\ "gesture_ir_silence" \in enabled
          /\ listening' = listening \cup {"IrSilencer"}
          /\ VoteForSensors("IrSilencer", {SWIPE})
          /\ mIsRinging' = TRUE
       \/ /\ phone' # "ringing" /\ mIsRinging
          /\ listening' = listening \ {"IrSilencer"}
          /\ VoteForSensors("IrSilencer", {})
          /\ mIsRinging' = FALSE
       \/ /\ IF phone' = "ringing" THEN mIsRinging \/ "gesture_ir_silence" \notin enabled
                                   ELSE ~mIsRinging
          /\ UNCHANGED <<listening, ir, mIsRinging>>
    /\ UNCHANGED <<prefs, running, screen, changes, alarm, posture, times>>

CallRefused ==
    /\ running /\ phone # "ringing" /\ ~mIsRinging /\ "gesture_ir_silence" \in enabled
    /\ Refused({"IrSilencer"})
    /\ Throw /\ UNCHANGED hub

AlarmStateOn ==
    /\ running
    /\ alarm' = TRUE
    /\ \/ /\ "gesture_ir_silence" \in enabled
          /\ listening' = listening \cup {"AlarmSilencer"}
          /\ VoteForSensors("AlarmSilencer", {SWIPE})
       \/ /\ "gesture_ir_silence" \notin enabled
          /\ listening' = listening \ {"AlarmSilencer"}
          /\ VoteForSensors("AlarmSilencer", {})
    /\ UNCHANGED <<prefs, running, screen, changes, mIsRinging, phone, posture, times>>

AlarmRefused ==
    /\ running /\ "gesture_ir_silence" \in enabled
    /\ Refused({"AlarmSilencer"})
    /\ Throw /\ UNCHANGED hub

AlarmStateOff ==
    /\ running
    /\ alarm' = FALSE
    /\ listening' = listening \ {"AlarmSilencer"}
    /\ VoteForSensors("AlarmSilencer", {})
    /\ UNCHANGED <<prefs, running, screen, changes, mIsRinging, phone, posture, times>>

(* A swipe has the alarm application snooze; this service hears that        *)
(* broadcast too, as the end of the alarm.                                  *)
Swipe ==
    /\ running /\ "AlarmSilencer" \in listening
    /\ SWIPE \in hub.config /\ ~hub.disabled
    /\ "gesture_ir_silence" \in enabled
    /\ AlarmStateOff

-----------------------------------------------------------------------------
(* Gestures that ask for a pulse.                                           *)

Pulse == sincePulse' = 0 /\ gap' = sincePulse

MayDozeUntold ==
    IF sinceDoze > DELAY_BETWEEN_DOZES THEN Pulse /\ UNCHANGED sinceDoze
    ELSE UNCHANGED times

MayDoze ==
    IF sinceDoze > DELAY_BETWEEN_DOZES THEN Pulse /\ sinceDoze' = 0
    ELSE UNCHANGED times

ActionIf(b) ==
    /\ IF b THEN MayDoze ELSE UNCHANGED times
    /\ UNCHANGED <<prefs, running, screen, changes, listening, ir, ringing>>

Approach ==
    /\ running /\ "IrGestureSensor" \in listening
    /\ APPROACH \in hub.config /\ ~hub.disabled
    /\ ActionIf("gesture_ir" \in enabled)
    /\ UNCHANGED posture

FlatUpChanged ==
    /\ running /\ "mFlatUpListener" \in listening
    /\ mLastFlatUp' \in BOOLEAN
    /\ ActionIf(mLastFlatUp /\ ~mLastFlatUp' /\ ~mIsStowed /\ "pick_up" \in enabled)
    /\ UNCHANGED <<mIsStowed, mLastStowed>>

(* Two listeners for the same sensor. *)
StowChanged ==
    /\ running /\ FlatUp \cup {"StowSensor"} \subseteq listening
    /\ \E stowed \in BOOLEAN :
          /\ mIsStowed' = stowed /\ mLastStowed' = stowed
          /\ ActionIf(mLastStowed /\ ~stowed /\ "pick_up" \in enabled)
    /\ UNCHANGED mLastFlatUp

-----------------------------------------------------------------------------
(* Preferences, time, and the life of the service.                          *)

PreferenceChanged ==
    /\ \E key \in Keys :
          enabled' = IF key \in enabled THEN enabled \ {key} ELSE enabled \cup {key}
    /\ UNCHANGED <<calm, running, screen, changes, listening, ir, ringing, posture, times>>

Later(t) == IF t < LongAgo THEN t + 1 ELSE t

Tick ==
    /\ sinceDoze' = Later(sinceDoze) /\ sincePulse' = Later(sincePulse)
    /\ UNCHANGED <<prefs, running, screen, changes, listening, ir, ringing, posture, gap>>

(* CMActionsService.  The broadcast of the screen's last change may have    *)
(* come after the receiver was registered and before the screen is looked   *)
(* at, and is handled again later.  The hub keeps the gestures of the       *)
(* service before this one.                                                 *)
Start ==
    /\ ~running
    /\ running' = TRUE
    /\ changes' \in {<<>>, <<screen>>}
    /\ LET dark == screen = "off"
           vote == IF dark THEN VoteWhenDark ELSE {}
       IN /\ listening' = IF dark THEN WhenDark ELSE {}
          /\ mVotes' = [g \in Gestures |-> OneIf(g \in vote)]
          /\ mGestures' = vote
          /\ mLastFlags' = [mLastFlags EXCEPT !["IrGestureSensor"] = vote]
          /\ hub' \in [disabled : {vote = {}} \cup (IF calm THEN {} ELSE BOOLEAN),
                       config : {IF vote = {} THEN hub.config ELSE vote}
                                \cup (IF calm THEN {} ELSE {hub.config})]
          /\ sinceDoze' = IF dark THEN 0 ELSE LongAgo
    /\ UNCHANGED <<prefs, screen, ringing, posture, sincePulse, gap>>

Next ==
    \/ TurnScreen \/ ScreenTurnedOn \/ ScreenTurnedOff \/ DarkRefused
    \/ CallStateChanged \/ CallRefused
    \/ AlarmStateOn \/ AlarmRefused \/ AlarmStateOff \/ Swipe
    \/ Approach \/ FlatUpChanged \/ StowChanged
    \/ PreferenceChanged \/ Tick \/ Start

Spec == Init /\ [][Next]_vars
-----------------------------------------------------------------------------
(* Properties.                                                              *)

(* Each gesture has as many votes as there are voters whose last vote was   *)
(* for it, and a voter votes exactly while it listens: the end of an alarm  *)
(* does not take the swipe away from a call (updateState, voteDelta).       *)
VotesCounted ==
    /\ \A g \in Gestures : mVotes[g] = Cardinality({v \in Voters : g \in mLastFlags[v]})
    /\ \A v \in Voters : mLastFlags[v] = IF v \in listening THEN Wanted(v) ELSE {}

(* The hub has infrared sensing on while somebody votes, and wakes for what *)
(* is voted for, unless it refused (updateSensorConfig, jni_NXActions.c).   *)
HubAgrees ==
    running /\ calm =>
        LET voted == {g \in Gestures : mVotes[g] > 0}
        IN  /\ hub.disabled <=> voted = {}
            /\ voted # {} => hub.config = voted

(* With the screen on and nothing ringing no sensor is listened to, however *)
(* the preferences changed meanwhile.                                       *)
Quiet ==
    running /\ screen = "on" /\ changes = <<>> /\ phone # "ringing" /\ ~alarm =>
        listening = {} /\ mGestures = {}

(* DELAY_BETWEEN_DOZES_IN_MS: two pulses are further apart, whichever       *)
(* sensors ask for them, and even if the service ended between them.        *)
PulsesApart == gap > DELAY_BETWEEN_DOZES

GestureInv == TypeOK /\ VotesCounted /\ HubAgrees /\ Quiet /\ PulsesApart
=============================================================================
