---------------------------- MODULE LocEngSession ---------------------------
(***************************************************************************)
(* A positioning session, from the framework to the modem: the session     *)
(* part of loc_eng.cpp and LocEngAdapter, and of LocApiV02 below them.     *)
(*                                                                         *)
(* The framework's calls become messages; one MsgTask thread processes     *)
(* them in order.  The modem's events and its restart come on a callback   *)
(* thread, which posts messages of its own to the same queue.  What the    *)
(* modem reports depends on the event mask that is registered with it.     *)
(***************************************************************************)
EXTENDS Naturals, Sequences, SequencesExt

CONSTANTS
    Modes,          \* the operation modes the framework asks for
    Recurrences,    \* a session is "PERIODIC" or "SINGLE"
    AidingBits,     \* the bits of a GpsAidingData
    IntermediateFix,    \* INTERMEDIATE_POS of gps.conf
    StartOutcomes,  \* of startFix: "ok", "refused" (the mode only), "failed"
    StopOutcomes,   \* of stopFix: "ok", "failed"
    RegisterOutcomes,   \* of registerEventMask: "ok", "failed"
    OpenOutcomes,   \* of open after a restart: "open", "invalid"
    MaxCalls,       \* bound: calls of the framework
    MaxReports,     \* bound: position reports
    MaxMutes,       \* bound: NI requests that override privacy
    MaxCrashes      \* bound: restarts of the modem

ASSUME OutcomesAssumption ==
    /\ StartOutcomes \subseteq {"ok", "refused", "failed"}
    /\ StopOutcomes \subseteq {"ok", "failed"}
    /\ RegisterOutcomes \subseteq {"ok", "failed"} /\ RegisterOutcomes # {}
    /\ OpenOutcomes \subseteq {"open", "invalid"} /\ OpenOutcomes # {}
ASSUME CriteriaAssumption ==
    /\ Modes \subseteq {"STANDALONE", "MS_BASED", "MS_ASSISTED"}
    /\ Recurrences \subseteq {"PERIODIC", "SINGLE"}
ASSUME BoundsAssumption ==
    {MaxCalls, MaxReports, MaxMutes, MaxCrashes} \subseteq Nat

VARIABLES
    fw,             \* the framework: does it navigate, and by what criteria
    told,           \* the last session status the framework was told
    owed,           \* the aiding data it wants deleted and that is not yet
    msgq,           \* messages to MsgTask, oldest first
    callback,       \* messages the callback thread has yet to post
    mNavigating,
    mFixCriteria,
    engine_status,
    mute_session_state,
    aiding_data_for_deletion,
    api,            \* LocApiV02: handle, mInSession, mEngineOn, event mask;
                    \* and, remembered by the model only, was the last
                    \* registration of a mask refused
    session,        \* the session the modem runs
    engine,         \* is the modem's GPS engine on
    calls, reports, mutes, crashes      \* so far

framework == <<fw, owed, calls>>
queues    == <<msgq, callback>>
adapter   == <<mNavigating, mFixCriteria>>
status    == <<engine_status, mute_session_state, told>>
modem     == <<session, engine, reports, mutes, crashes>>
vars      == <<framework, queues, adapter, status, aiding_data_for_deletion,
               api, modem>>

Criteria   == [mode : Modes, recurrence : Recurrences]
NoCriteria == [mode |-> "INVALID", recurrence |-> "PERIODIC"]
NoSession  == [mode |-> "none", recurrence |-> "none"]

(* A report is shown if it passes the filter of LocEngReportPosition: a     *)
(* failure always, a fix by its technology or its accuracy.                 *)
Reports ==
    [status : {"FAILURE"}, shown : {TRUE}]
        \cup [status : {"SUCCESS"}, shown : BOOLEAN]
        \cup [status : {"INTERMEDIATE"}, shown : {FALSE, IntermediateFix}]

Statuses == {"SESSION_BEGIN", "SESSION_END", "ENGINE_ON", "ENGINE_OFF"}

Msg(kind, arg) == [kind |-> kind, arg |-> arg]

Messages ==
    [kind : {"Start", "Stop", "Down", "Ssr", "Up", "Mute"}, arg : {"none"}]
        \cup [kind : {"PositionMode"}, arg : Criteria]
        \cup [kind : {"DelAidData"}, arg : SUBSET AidingBits]
        \cup [kind : {"Position"}, arg : Reports]
        \cup [kind : {"Status"}, arg : Statuses]
        \cup [kind : {"UpdateEngineState"}, arg : BOOLEAN]

TypeOK ==
    /\ fw \in [navigating : BOOLEAN, criteria : Criteria \cup {NoCriteria}]
    /\ told \in {"SESSION_BEGIN", "SESSION_END"}
    /\ owed \subseteq AidingBits
    /\ msgq \in Seq(Messages) /\ callback \in Seq(Messages)
    /\ mNavigating \in BOOLEAN
    /\ mFixCriteria \in [mode : Modes \cup {"INVALID"},
                         recurrence : {"PERIODIC"} \cup Recurrences]
    /\ engine_status \in {"NONE", "ENGINE_ON", "ENGINE_OFF"}
    /\ mute_session_state \in {"NONE", "WAIT", "IN_SESSION"}
    /\ aiding_data_for_deletion \subseteq AidingBits
    /\ api \in [handle : {"open", "stale", "invalid"}, mInSession : BOOLEAN,
                mEngineOn : BOOLEAN, mask : {"none", "idle", "session"},
                refused : BOOLEAN]
    /\ session \in [mode : Modes \cup {"STANDALONE"},
                    recurrence : {"PERIODIC"} \cup Recurrences]
                     \cup {NoSession}
    /\ engine \in BOOLEAN
    /\ calls \in 0..MaxCalls /\ reports \in 0..MaxReports
    /\ mutes \in 0..MaxMutes /\ crashes \in 0..MaxCrashes

(* After loc_eng_init and the LocOpenMsg of addAdapter.                     *)
Init ==
    /\ fw = [navigating |-> FALSE, criteria |-> NoCriteria]
    /\ told = "SESSION_END"
    /\ owed = {}
    /\ msgq = <<>> /\ callback = <<>>
    /\ mNavigating = FALSE
    /\ mFixCriteria = NoCriteria
    /\ engine_status = "NONE"
    /\ mute_session_state = "NONE"
    /\ aiding_data_for_deletion = {}
    /\ api = [handle |-> "open", mInSession |-> FALSE, mEngineOn |-> FALSE,
              mask |-> "idle", refused |-> FALSE]
    /\ session = NoSession
    /\ engine = FALSE
    /\ calls = 0 /\ reports = 0 /\ mutes = 0 /\ crashes = 0

-----------------------------------------------------------------------------
(* The framework's calls.  UlpProxyBase declines each of them, which makes  *)
(* it a message to MsgTask.                                                 *)

Call(kind, arg) ==
    /\ calls < MaxCalls
    /\ calls' = calls + 1
    /\ msgq' = Append(msgq, Msg(kind, arg))
    /\ UNCHANGED <<callback, adapter, status, aiding_data_for_deletion, api,
                   modem>>

(* loc_eng_set_position_mode. *)
SetPositionMode ==
    \E c \in Criteria \ {fw.criteria} :
        /\ fw' = [fw EXCEPT !.criteria = c]
        /\ Call("PositionMode", c)
        /\ UNCHANGED owed

(* loc_eng_start: the framework sets the position mode of a session first.  *)
StartFix ==
    /\ ~fw.navigating /\ fw.criteria # NoCriteria
    /\ fw' = [fw EXCEPT !.navigating = TRUE]
    /\ Call("Start", "none")
    /\ UNCHANGED owed

(* loc_eng_stop. *)
StopFix ==
    /\ fw.navigating
    /\ fw' = [navigating |-> FALSE, criteria |-> NoCriteria]
    /\ Call("Stop", "none")
    /\ UNCHANGED owed

(* loc_eng_delete_aiding_data. *)
DeleteAidingData ==
    \E f \in SUBSET AidingBits \ {{}} :
        /\ owed' = owed \cup f
        /\ Call("DelAidData", f)
        /\ UNCHANGED fw

-----------------------------------------------------------------------------
(* LocApiV02, on the MsgTask thread.                                        *)

(* registerEventMask with adjustMaskForNoSession: without a session there   *)
(* are no position reports and no engine states.                            *)
EventMask(a) == IF a.mInSession THEN "session" ELSE "idle"

(* The modem may refuse a mask; then it keeps the one it has, and neither   *)
(* startFix nor stopFix nor the engine's off looks at the result.           *)
Register(a, result) ==
    [a EXCEPT !.mask = IF result = "ok" THEN EventMask(a) ELSE @,
              !.refused = (result = "failed")]

Registered(a) ==
    {Register(a, result) :
        result \in IF a.handle = "open" THEN RegisterOutcomes ELSE {"failed"}}

StartResults == IF api.handle = "open" THEN StartOutcomes ELSE {"failed"}
StopResults  == IF api.handle = "open" THEN StopOutcomes ELSE {"failed"}

StartedApis == Registered([api EXCEPT !.mInSession = TRUE])

(* The operation mode startFix sets first: the switch's default is          *)
(* standalone.  If the modem refuses the mode, the start request is not     *)
(* sent, and startFix still returns success.                                *)
Started(crit, result) ==
    IF result = "ok"
    THEN [crit EXCEPT !.mode = IF @ = "INVALID" THEN "STANDALONE" ELSE @]
    ELSE session

StoppedApisWait(eng) == {[api EXCEPT !.mInSession = FALSE]}

(* stopFix: if the engine never was on, the events are dropped at once.     *)
StoppedApis(eng) ==
    LET a == [api EXCEPT !.mInSession = FALSE]
    IN  IF eng THEN {a} ELSE Registered(a)

Stopped(result) == IF result = "ok" THEN NoSession ELSE session

-----------------------------------------------------------------------------
(* Messages processed by the MsgTask thread.                                *)

Take(kind) ==
    /\ msgq # <<>>
    /\ Head(msgq).kind = kind
    /\ msgq' = Tail(msgq)
    /\ UNCHANGED <<fw, calls, callback, engine, reports, mutes, crashes>>

Arg == Head(msgq).arg

(* The criteria after setInSession(false). *)
ModeDropped == [mFixCriteria EXCEPT !.mode = "INVALID"]

(* LocEngAdapter::setPositionMode: a session in progress is restarted.      *)
ProcPositionMode ==
    /\ Take("PositionMode")
    /\ mFixCriteria' = Arg
    /\ \/ /\ ~mNavigating
          /\ UNCHANGED <<api, session>>
       \/ /\ mNavigating
          /\ api' \in StartedApis
          /\ \E result \in StartResults : session' = Started(Arg, result)
    /\ UNCHANGED <<owed, mNavigating, status, aiding_data_for_deletion>>

(* loc_eng_start_handler. *)
ProcStart ==
    /\ Take("Start")
    /\ \/ /\ mNavigating
          /\ UNCHANGED <<mNavigating, told, api, session>>
       \/ /\ ~mNavigating
          /\ api' \in StartedApis
          /\ \E result \in StartResults :
                /\ session' = Started(mFixCriteria, result)
                /\ mNavigating' = (result # "failed")
                /\ told' = IF result # "failed" THEN "SESSION_BEGIN" ELSE told
    /\ UNCHANGED <<owed, mFixCriteria, engine_status, mute_session_state,
                   aiding_data_for_deletion>>

ProcStopLeavesModem ==
    /\ Take("Stop")
    /\ mNavigating' = FALSE
    /\ mFixCriteria' = IF mNavigating THEN ModeDropped ELSE mFixCriteria
    /\ told' = IF mNavigating THEN "SESSION_END" ELSE told
    /\ UNCHANGED <<owed, engine_status, mute_session_state, api, session,
                   aiding_data_for_deletion>>

(* loc_eng_stop_handler. *)
ProcStop ==
    /\ Take("Stop")
    /\ \/ /\ ~mNavigating
          /\ UNCHANGED <<adapter, told, api, session>>
       \/ /\ mNavigating
          /\ mNavigating' = FALSE
          /\ mFixCriteria' = ModeDropped
          /\ api' \in StoppedApis(api.mEngineOn)
          /\ \E result \in StopResults :
                /\ session' = Stopped(result)
                /\ told' = IF result = "ok" THEN "SESSION_END" ELSE told
    /\ UNCHANGED <<owed, engine_status, mute_session_state,
                   aiding_data_for_deletion>>

(* LocEngReportPosition::proc.  Once a single fix is reported the session   *)
(* is over; the modem is stopped if it may still work for a final fix.      *)
ProcPosition ==
    /\ Take("Position")
    /\ \/ /\ \/ mute_session_state = "IN_SESSION"
             \/ ~Arg.shown
             \/ mFixCriteria.recurrence # "SINGLE"
          /\ UNCHANGED <<adapter, api, session>>
       \/ /\ mute_session_state # "IN_SESSION"
          /\ Arg.shown
          /\ mFixCriteria.recurrence = "SINGLE"
          /\ mNavigating' = FALSE
          /\ mFixCriteria' = ModeDropped
          /\ \/ /\ Arg.status = "INTERMEDIATE"
                /\ api' \in StoppedApis(api.mEngineOn)
                /\ \E result \in StopResults : session' = Stopped(result)
             \/ /\ Arg.status # "INTERMEDIATE"
                /\ UNCHANGED <<api, session>>
    /\ UNCHANGED <<owed, status, aiding_data_for_deletion>>

(* loc_eng_report_status: whether one session is muted, ...                 *)
MuteEndless(mute, s) ==
    IF mute = "WAIT" /\ s \in {"SESSION_BEGIN", "ENGINE_ON"}
    THEN "IN_SESSION" ELSE mute

Mute(mute, s) ==
    CASE mute = "WAIT" /\ s \in {"SESSION_BEGIN", "ENGINE_ON"} -> "IN_SESSION"
      [] mute = "IN_SESSION" /\ s \in {"SESSION_END", "ENGINE_OFF"} -> "NONE"
      [] OTHER -> mute

ShownAlways(s) == TRUE

(* ... which session statuses the framework is told, ...                    *)
Shown(s) ==
    /\ s = "SESSION_END" => ~mNavigating
    /\ s = "SESSION_BEGIN" => mNavigating

ReportStatus(s) ==
    /\ mute_session_state' = Mute(mute_session_state, s)
    /\ told' = IF /\ s \in {"SESSION_BEGIN", "SESSION_END"}
                  /\ Shown(s)
                  /\ mute_session_state' # "IN_SESSION"
               THEN s ELSE told
    /\ engine_status' =
          IF s \in {"ENGINE_ON", "ENGINE_OFF"} THEN s ELSE engine_status

(* update_aiding_data_for_deletion, with the engine's status as it is now.  *)
UpdateAiding(pending, now) ==
    \/ /\ now # "ENGINE_ON"
       /\ aiding_data_for_deletion' = {}
       /\ owed' = owed \ pending
    \/ /\ now = "ENGINE_ON"
       /\ aiding_data_for_deletion' = pending
       /\ UNCHANGED owed

(* LocEngReportStatus::proc. *)
ProcStatus ==
    /\ Take("Status")
    /\ ReportStatus(Arg)
    /\ UpdateAiding(aiding_data_for_deletion, engine_status')
    /\ UNCHANGED <<adapter, api, session>>

ProcUpdateEngineStateBlind ==
    /\ Take("UpdateEngineState")
    /\ LET a == IF api.mEngineOn /\ ~Arg
                THEN [api EXCEPT !.mask = "idle"] ELSE api
       IN  api' = [a EXCEPT !.mEngineOn = Arg]
    /\ UNCHANGED <<owed, adapter, status, aiding_data_for_deletion, session>>

(* MsgUpdateEngineState::proc. *)
ProcUpdateEngineState ==
    /\ Take("UpdateEngineState")
    /\ \E a \in IF api.mEngineOn /\ ~api.mInSession /\ ~Arg
                THEN Registered(api) ELSE {api} :
          api' = [a EXCEPT !.mEngineOn = Arg]
    /\ UNCHANGED <<owed, adapter, status, aiding_data_for_deletion, session>>

(* LocEngDelAidData::proc: the mask is assigned, not added to.              *)
ProcDelAidData ==
    /\ Take("DelAidData")
    /\ UpdateAiding(Arg, engine_status)
    /\ UNCHANGED <<adapter, status, api, session>>

(* loc_eng_mute_one_session, called for an NI request that overrides        *)
(* privacy.                                                                 *)
ProcMute ==
    /\ Take("Mute")
    /\ mute_session_state' = "WAIT"
    /\ UNCHANGED <<owed, adapter, engine_status, told, api, session,
                   aiding_data_for_deletion>>

(* loc_eng_handle_engine_down. *)
ProcDown ==
    /\ Take("Down")
    /\ ReportStatus("ENGINE_OFF")
    /\ UNCHANGED <<owed, adapter, aiding_data_for_deletion, api, session>>

(* LocSsrMsg::proc: close, and open again if the service comes in time.     *)
ProcSsr ==
    /\ Take("Ssr")
    /\ \E handle \in OpenOutcomes :
          api' = [api EXCEPT !.handle = handle,
                             !.mask = IF handle = "open" THEN "idle" ELSE "none",
                             !.refused = @ /\ handle # "open"]
    /\ UNCHANGED <<owed, adapter, status, aiding_data_for_deletion, session>>

ProcUpForgets ==
    /\ Take("Up")
    /\ ReportStatus("ENGINE_ON")
    /\ UNCHANGED <<adapter, api, session, owed, aiding_data_for_deletion>>

(* loc_eng_handle_engine_up: a session is started with the criteria in the  *)
(* adapter, and then once more, after setInSession(false).                  *)
ProcUp ==
    /\ Take("Up")
    /\ ReportStatus("ENGINE_ON")
    /\ \/ /\ ~mNavigating
          /\ UNCHANGED <<adapter, api, session>>
       \/ /\ mNavigating
          /\ mFixCriteria' = ModeDropped
          /\ api' \in UNION {Registered(a) : a \in StartedApis}
          /\ \E again, start \in StartResults :
                /\ session' = IF start = "ok" THEN Started(ModeDropped, start)
                              ELSE Started(mFixCriteria, again)
                /\ mNavigating' = (start # "failed")
    /\ UNCHANGED <<owed, aiding_data_for_deletion>>

Proc ==
    \/ ProcPositionMode \/ ProcStart \/ ProcStop \/ ProcPosition
    \/ ProcStatus \/ ProcUpdateEngineState \/ ProcDelAidData \/ ProcMute
    \/ ProcDown \/ ProcSsr \/ ProcUp

-----------------------------------------------------------------------------
(* The modem and the callback thread.                                       *)

(* The callback thread posts its next message. *)
Post ==
    /\ callback # <<>>
    /\ msgq' = Append(msgq, Head(callback))
    /\ callback' = Tail(callback)
    /\ UNCHANGED <<framework, adapter, status, aiding_data_for_deletion, api,
                   modem>>

Raise(messages) ==
    /\ callback' = callback \o messages
    /\ UNCHANGED <<framework, msgq, adapter, status, aiding_data_for_deletion>>

(* LocApiV02::reportEngineState: an engine state, then a session status.    *)
EngineOn ==
    /\ session # NoSession /\ ~engine
    /\ engine' = TRUE
    /\ Raise(IF api.mask = "session"
             THEN <<Msg("UpdateEngineState", TRUE), Msg("Status", "ENGINE_ON"),
                    Msg("Status", "SESSION_BEGIN")>>
             ELSE <<>>)
    /\ UNCHANGED <<api, session, reports, mutes, crashes>>

EngineOff ==
    /\ session = NoSession /\ engine
    /\ engine' = FALSE
    /\ Raise(IF api.mask = "session"
             THEN <<Msg("UpdateEngineState", FALSE),
                    Msg("Status", "SESSION_END"), Msg("Status", "ENGINE_OFF")>>
             ELSE <<>>)
    /\ UNCHANGED <<api, session, reports, mutes, crashes>>

(* LocApiV02::reportPosition; a single session ends with its fix.           *)
ReportPosition ==
    /\ session # NoSession /\ engine /\ api.mask = "session"
    /\ reports < MaxReports
    /\ reports' = reports + 1
    /\ \E report \in Reports :
          /\ Raise(<<Msg("Position", report)>>)
          /\ session' = IF /\ session.recurrence = "SINGLE"
                           /\ report.status # "INTERMEDIATE"
                        THEN NoSession ELSE session
    /\ UNCHANGED <<api, engine, mutes, crashes>>

(* An NI request that overrides privacy. *)
PrivacyOverride ==
    /\ api.handle = "open"
    /\ mutes < MaxMutes
    /\ mutes' = mutes + 1
    /\ Raise(<<Msg("Mute", "none")>>)
    /\ UNCHANGED <<api, session, engine, reports, crashes>>

(* The service goes; LocApiV02::errorCb, LocApiBase::handleEngineUpEvent.   *)
Crash ==
    /\ api.handle = "open"
    /\ crashes < MaxCrashes
    /\ crashes' = crashes + 1
    /\ session' = NoSession /\ engine' = FALSE
    /\ api' = [api EXCEPT !.handle = "stale", !.mask = "none"]
    /\ Raise(<<Msg("Down", "none"), Msg("Ssr", "none"), Msg("Up", "none")>>)
    /\ UNCHANGED <<reports, mutes>>

Framework == SetPositionMode \/ StartFix \/ StopFix \/ DeleteAidingData
Modem == EngineOn \/ EngineOff \/ ReportPosition \/ PrivacyOverride \/ Crash

Next == Framework \/ Proc \/ Post \/ Modem

(* The two threads run; the modem turns its engine on for a session and off *)
(* after it.  Nobody must call, report or crash.                            *)
Fairness == WF_vars(Proc) /\ WF_vars(Post) /\ WF_vars(EngineOn \/ EngineOff)

Spec == Init /\ [][Next]_vars /\ Fairness

-----------------------------------------------------------------------------
(* Properties.                                                              *)

Queued == {msgq[i] : i \in DOMAIN msgq} \cup
          {callback[i] : i \in DOMAIN callback}

Quiet == Queued = {}

Restarting == \/ api.handle # "open"
              \/ \E m \in Queued : m.kind \in {"Down", "Ssr", "Up"}

(* While the adapter navigates, the last session status the framework was   *)
(* told is that a session began: the end of an earlier session, which the   *)
(* modem reports late, is kept from it.                                     *)
NavigatingIsShown == mNavigating => told = "SESSION_BEGIN"

(* While the adapter navigates, the modem has the whole event mask, whatever *)
(* the late engine states of an earlier session undid; otherwise no position *)
(* would ever be reported.  Not if the modem refused the mask: startFix does *)
(* not look, and the session goes on without events until a mask is taken.   *)
EventsRegistered ==
    mNavigating /\ ~Restarting /\ ~api.refused => api.mask = "session"

(* Once all messages are processed, the modem runs a session exactly when    *)
(* the framework wants one, in the mode it asked for last; a restart loses   *)
(* the mode.                                                                 *)
SessionIsWanted ==
    Quiet /\ crashes = 0 =>
             /\ (session # NoSession) = fw.navigating
             /\ fw.navigating => session.mode = fw.criteria.mode

(* Between sessions, with the engine off as far as LocApiV02 knows, the      *)
(* events of a session are not registered, whichever came last of the stop   *)
(* and the engine's off: they would wake the host.  Not if the modem refused *)
(* the smaller mask: nobody asks again before the next session.              *)
IdleWhenUnused ==
    api.handle = "open" /\ ~api.mInSession /\ ~api.mEngineOn /\ ~api.refused
        => api.mask = "idle"

(* What the adapter says of itself holds below and above it: a session it    *)
(* navigates is shown to the framework and known to LocApiV02, and one that  *)
(* is over leaves no events behind, unless the modem refused to drop them;   *)
(* whatever else fails and restarts in between.                              *)
Navigates == mNavigating => told = "SESSION_BEGIN" /\ api.mInSession

SessionInv == TypeOK /\ Navigates /\ IdleWhenUnused

(* A session is muted only while the engine is on as far as the host knows:  *)
(* no mute outlives the session it was meant for, a restart included.        *)
MutedWhileOn == mute_session_state = "IN_SESSION" => engine_status = "ENGINE_ON"

(* A session that the modem's restart interrupts is started again, unless a  *)
(* stop is processed first.  (A start that is processed before the modem is  *)
(* back fails, and is not repeated.)                                        *)
RestartsAfterCrash ==
    (mNavigating /\ api.handle # "open") ~> (session # NoSession \/ ~mNavigating)

(* "This sets the copy in adapter to modem": a session runs in the mode the  *)
(* framework asked for, also after a restart.                                *)
ModeIsKept ==
    Quiet /\ fw.navigating /\ session # NoSession
        => session.mode = fw.criteria.mode

(* "aiding data can only be deleted when GPS engine is off": the modem is    *)
(* asked to delete only while its engine is off.                             *)
DeletesWhenOff == [][owed \ owed' # {} => ~engine]_vars
=============================================================================
