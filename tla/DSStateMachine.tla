--------------------------- MODULE DSStateMachine ---------------------------
(***************************************************************************)
(* The emergency SUPL connection (ds_nif): a DSStateMachine, which asks    *)
(* the data services client (DSI) for a call instead of the framework,     *)
(* retries on a timer thread while DSI is busy, and falls back to an       *)
(* ordinary ATL connection (agnss_nif) when DSI cannot serve it.           *)
(*                                                                         *)
(* The modem asks and releases connection handles; the timer thread and    *)
(* DSI's callback only post messages; the MsgTask thread processes them.   *)
(***************************************************************************)
EXTENDS Naturals, Sequences, FiniteSets, SequencesExt

CONSTANTS
    Handles,         \* connection handles the modem uses for emergency SUPL
    StartOutcomes,   \* what openAndStartDataCall may return
    MaxInFlight,     \* bound: messages and timers on their way at once
    MaxEngineUps     \* bound: modem restarts

ASSUME OutcomesAssumption ==
    StartOutcomes \subseteq {"SUCCESS", "BUSY", "NO_PROFILE", "START_FAILED"}

MAX_START_DATA_CALL_RETRIES == 4

(* DSI says twice that a call is connected: WDS is, and the network is.     *)
ConnectedEvents == 2

VARIABLES
    mState,        \* mStatePtr
    mSubscribers,  \* the subscriber list, newest first
    mInactive,     \* those with mIsInactive
    mRetries,      \* busy answers since the last fallback
    timers,        \* delay timers running
    dsHandle,      \* LocApiV02::dsClientHandle: none, without or with a DSI handle
    call,          \* the data call on dsHandle: where it is at, how often it
                   \* was said to be connected; and, remembered by the model
                   \* only, did a stop of it fail
    agnss,         \* handles on the subscriber list of agnss_nif
    modem,         \* what the modem makes of each handle
    used,          \* handles the modem has asked for
    msgq,          \* the MsgTask queue, oldest first
    engineUps,     \* modem restarts so far
    calm           \* an environment that never fails, reuses nor restarts

machine == <<mState, mSubscribers, mInactive, mRetries>>
dsi     == <<dsHandle, call>>
environment == <<engineUps, calm>>
vars == <<machine, timers, dsi, agnss, modem, used, msgq, environment>>

NoCall  == [at |-> "idle", connects |-> 0, unstopped |-> FALSE]
NewCall == [at |-> "starting", connects |-> 0, unstopped |-> FALSE]

Messages ==
    [type : {"RequestSuplEs", "RequestATL", "ReleaseATL"}, id : Handles]
        \cup [type : {"SuplEsOpened", "SuplEsClosed"}]

TypeOK ==
    /\ mState \in {"Released", "Pending", "Acquired", "Releasing"}
    /\ mSubscribers \in Seq(Handles) /\ IsInjective(mSubscribers)
    /\ mInactive \subseteq ToSet(mSubscribers)
    /\ mRetries \in 0..MAX_START_DATA_CALL_RETRIES
    /\ timers \in Nat
    /\ dsHandle \in {"null", "hollow", "live"}
    /\ call \in [at : {"idle", "starting", "up", "stopping"},
                 connects : 0..ConnectedEvents, unstopped : BOOLEAN]
    /\ agnss \subseteq Handles
    /\ modem \in [Handles -> {"idle", "asked", "open"}]
    /\ used \subseteq Handles
    /\ msgq \in Seq(Messages)
    /\ engineUps \in Nat
    /\ calm \in BOOLEAN

Init ==
    /\ mState = "Released" /\ mSubscribers = <<>> /\ mInactive = {}
    /\ mRetries = 0 /\ timers = 0
    /\ dsHandle = "null" /\ call = NoCall
    /\ agnss = {}
    /\ modem = [h \in Handles |-> "idle"] /\ used = {}
    /\ msgq = <<>> /\ engineUps = 0
    /\ calm \in BOOLEAN

-----------------------------------------------------------------------------
(* In a calm environment DSI starts every call, though the call may fail   *)
(* or end after, and stops every call it is asked to; the modem uses a     *)
(* handle once, and it does not restart.                                   *)
Outcomes == IF calm THEN {"SUCCESS"} ELSE StartOutcomes

(* The modem.  It asks for a handle, and releases it at any time after.    *)

HasRoom == Len(msgq) + timers < MaxInFlight

Msg(t, h) == [type |-> t, id |-> h]

ModemRequest(h) ==
    /\ HasRoom
    /\ modem[h] = "idle"
    /\ calm => h \notin used
    /\ modem' = [modem EXCEPT ![h] = "asked"]
    /\ used' = used \cup {h}
    /\ msgq' = Append(msgq, Msg("RequestSuplEs", h))
    /\ UNCHANGED <<machine, timers, dsi, agnss, environment>>

ModemRelease(h) ==
    /\ HasRoom
    /\ modem[h] # "idle"
    /\ modem' = [modem EXCEPT ![h] = "idle"]
    /\ msgq' = Append(msgq, Msg("ReleaseATL", h))
    /\ UNCHANGED <<machine, timers, dsi, agnss, used, environment>>

(* The modem restarts and forgets its handles.  loc_eng_handle_engine_up   *)
(* empties agnss_nif, but leaves ds_nif as it is.                          *)
EngineUp ==
    /\ ~calm /\ engineUps < MaxEngineUps
    /\ engineUps' = engineUps + 1
    /\ modem' = [h \in Handles |-> "idle"]
    /\ agnss' = {}
    /\ UNCHANGED <<machine, timers, dsi, used, msgq, calm>>

-----------------------------------------------------------------------------
(* DSI: a call comes up, or ends, and says so from a thread of its own.    *)

Connects(to) ==
    /\ call.connects < ConnectedEvents
    /\ call' = [call EXCEPT !.at = to, !.connects = @ + 1]
    /\ msgq' = Append(msgq, [type |-> "SuplEsOpened"])
    /\ UNCHANGED <<machine, timers, dsHandle, agnss, modem, used, environment>>

CallConnected == call.at = "starting" /\ Connects("up")

(* The second of the two events, or either of them too late for a stop.    *)
CallConnectedAgain == call.at \in {"up", "stopping"} /\ Connects(call.at)

CallEnded ==
    /\ call' = NoCall
    /\ msgq' = Append(msgq, [type |-> "SuplEsClosed"])
    /\ UNCHANGED <<machine, timers, dsHandle, agnss, modem, used, environment>>

CallFailed  == call.at = "starting" /\ CallEnded
CallStopped == call.at = "stopping" /\ CallEnded
CallLost    == call.at = "up" /\ CallEnded

-----------------------------------------------------------------------------
Listed == ToSet(mSubscribers)
Active == Listed \ mInactive

(* The first active subscriber a search of the list meets: the newest. *)
FirstActive(list, inactive) ==
    SelectInSeq(list, LAMBDA h : h \notin inactive)

(* The timer thread: the newest active subscriber asks again.  The wait    *)
(* may also wake up early, which loc_timer takes for a cancelled timer.    *)
TimerFires ==
    /\ timers > 0
    /\ timers' = timers - 1
    /\ LET i == FirstActive(mSubscribers, mInactive) IN
         msgq' = IF i = 0 THEN msgq
                 ELSE Append(msgq, Msg("RequestSuplEs", mSubscribers[i]))
    /\ UNCHANGED <<machine, dsi, agnss, modem, used, environment>>

TimerLost ==
    /\ timers > 0
    /\ timers' = timers - 1
    /\ UNCHANGED <<machine, dsi, agnss, modem, used, msgq, environment>>

-----------------------------------------------------------------------------
(* The message thread.                                                     *)

Take(t) == msgq # <<>> /\ Head(msgq).type = t

Rest == Tail(msgq)

(* What the modem makes of open statuses for the handles in who: it only   *)
(* takes them for handles it still wants.                                  *)
ToldOpen(who) ==
    [h \in Handles |-> IF h \in who /\ modem[h] = "asked" THEN "open"
                                                          ELSE modem[h]]

ToldFailed(who) ==
    [h \in Handles |-> IF h \in who THEN "idle" ELSE modem[h]]

(* informStatus(RSRC_DENIED) for each of list: fall back to plain ATL. *)
Fallbacks(list) == [i \in 1..Len(list) |-> Msg("RequestATL", list[i])]

(* openAndStartDataCall, SUCCESS.  Like every open it puts its handle over *)
(* the previous one, whatever that was.                                    *)
RequestSucceeds(q) ==
    /\ "SUCCESS" \in Outcomes
    /\ dsHandle' = "live"
    /\ call' = NewCall
    /\ msgq' = q
    /\ UNCHANGED <<mRetries, timers>>

(* ENGINE_BUSY: a fallback after too many, else a delay timer.  The timer  *)
(* may fail to start, and sendRsrcRequest takes it for an error when it    *)
(* did start: either way the answer is not success.                        *)
RequestBusy(q, conn) ==
    /\ "BUSY" \in Outcomes
    /\ dsHandle' = "hollow"
    /\ call' = NoCall
    /\ IF mRetries + 1 > MAX_START_DATA_CALL_RETRIES
         THEN /\ mRetries' = 0
              /\ msgq' = q \o Fallbacks(<<conn>>)
              /\ UNCHANGED timers
         ELSE /\ mRetries' = mRetries + 1
              /\ msgq' = q
              /\ timers' \in {timers, timers + 1}

(* UNSUPPORTED: no profile, and the handle stays as it was, or the opened  *)
(* call did not start.                                                     *)
RequestRefused(before, q, conn) ==
    /\ \/ /\ "NO_PROFILE" \in Outcomes
          /\ dsHandle' = before
       \/ /\ "START_FAILED" \in Outcomes
          /\ dsHandle' = "live"
    /\ call' = NoCall
    /\ mRetries' = 0
    /\ msgq' = q \o Fallbacks(<<conn>>)
    /\ UNCHANGED timers

(* sendRsrcRequest(GPS_REQUEST_AGPS_DATA_CONN), the ways it does not       *)
(* return success; list and inactive are the subscribers it searches.      *)
RequestFails(before, q, list, inactive) ==
    LET conn == list[FirstActive(list, inactive)] IN
      RequestBusy(q, conn) \/ RequestRefused(before, q, conn)

(* stopDataCall: without a running call on the handle, nothing happens.    *)
(* DSI may refuse; that is only logged, and the call goes on until it ends *)
(* of itself.                                                              *)
StopDataCall ==
    /\ \/ call' = IF call.at \in {"starting", "up"}
                  THEN [call EXCEPT !.at = "stopping"] ELSE call
       \/ /\ ~calm /\ call.at \in {"starting", "up"}
          /\ call' = [call EXCEPT !.unstopped = TRUE]
    /\ UNCHANGED dsHandle

(* addSubscriber: unless an equal one is on the list, active or not. *)
Added(h) == IF h \in Listed THEN mSubscribers ELSE <<h>> \o mSubscribers

-----------------------------------------------------------------------------
(* AgpsReleasedState, RSRC_SUBSCRIBE: only pending once the call was asked *)
(* for with success; otherwise the subscriber stays on the list.           *)
SubscribeReleased(h) ==
    /\ mState = "Released"
    /\ mSubscribers' = Added(h)
    /\ \/ RequestSucceeds(Rest) /\ mState' = "Pending"
       \/ RequestFails(dsHandle, Rest, Added(h), mInactive) /\ UNCHANGED mState
    /\ UNCHANGED <<mInactive, modem>>

(* AgpsPendingState and AgpsReleasingState, RSRC_SUBSCRIBE. *)
SubscribeWaiting(h) ==
    /\ mState \in {"Pending", "Releasing"}
    /\ mSubscribers' = Added(h)
    /\ msgq' = Rest
    /\ UNCHANGED <<mState, mInactive, mRetries, timers, dsi, modem>>

(* AgpsAcquiredState, RSRC_SUBSCRIBE: granted at once. *)
SubscribeAcquired(h) ==
    /\ mState = "Acquired"
    /\ modem' = ToldOpen({h})
    /\ mSubscribers' = Added(h)
    /\ msgq' = Rest
    /\ UNCHANGED <<mState, mInactive, mRetries, timers, dsi>>

ProcRequestSuplEs(h) ==
    /\ Take("RequestSuplEs") /\ Head(msgq).id = h
    /\ \/ SubscribeReleased(h)
       \/ SubscribeWaiting(h)
       \/ SubscribeAcquired(h)
    /\ UNCHANGED <<agnss, used, environment>>

UnsubscribeKeepsCall(h) ==
    /\ mInactive' = IF mState = "Released" THEN mInactive ELSE mInactive \cup {h}
    /\ UNCHANGED <<mState, mSubscribers, mRetries, dsi>>

(* RSRC_UNSUBSCRIBE: AgpsReleasedState only tells the subscriber that it   *)
(* is closed; the others also mark it inactive, and stop the call with the *)
(* last active one.                                                        *)
Unsubscribe(h) ==
    LET inactive == mInactive \cup {h}
        last     == Listed \subseteq inactive /\ mState # "Releasing"
    IN  \/ mState = "Released" /\ UNCHANGED <<machine, dsi>>
        \/ /\ mState # "Released"
           /\ mInactive' = inactive
           /\ mState' = IF last THEN "Releasing" ELSE mState
           /\ IF last THEN StopDataCall ELSE UNCHANGED dsi
           /\ UNCHANGED <<mSubscribers, mRetries>>

(* LocEngReleaseATL: agnss_nif is tried first, and ds_nif only when the    *)
(* handle is not on its list.                                              *)
ProcReleaseATL(h) ==
    /\ Take("ReleaseATL") /\ Head(msgq).id = h
    /\ msgq' = Rest
    /\ \/ h \in agnss /\ agnss' = agnss \ {h} /\ UNCHANGED <<machine, dsi>>
       \/ h \notin agnss /\ h \in Listed /\ Unsubscribe(h) /\ UNCHANGED agnss
       \/ h \notin agnss \cup Listed /\ UNCHANGED <<agnss, machine, dsi>>
    /\ UNCHANGED <<timers, modem, used, environment>>

OpenedAnywhere ==
    mState' = "Acquired" /\ modem' = ToldOpen(Active)

(* RSRC_GRANTED only counts in AgpsPendingState. *)
Opened ==
    \/ mState = "Pending" /\ mState' = "Acquired" /\ modem' = ToldOpen(Active)
    \/ mState # "Pending" /\ UNCHANGED <<mState, modem>>

ProcSuplEsOpened ==
    /\ Take("SuplEsOpened")
    /\ msgq' = Rest
    /\ Opened
    /\ UNCHANGED <<mSubscribers, mInactive, mRetries, timers, dsi, agnss, used,
                   environment>>

(* AgpsAcquiredState, RSRC_RELEASED: every subscriber closes the data call *)
(* and is deleted; the modem is told nothing.                              *)
ForcedRelease ==
    /\ mState = "Acquired"
    /\ mState' = "Released" /\ mSubscribers' = <<>> /\ mInactive' = {}
    /\ dsHandle' = "null" /\ call' = NoCall
    /\ msgq' = Rest
    /\ UNCHANGED <<mRetries, timers>>

(* The subscribers left once the inactive ones are deleted, in their order. *)
Remaining(list, inactive) ==
    LET left[i \in 0..Len(list)] ==
          IF i = 0 THEN <<>>
          ELSE IF list[i] \in inactive THEN left[i - 1]
          ELSE Append(left[i - 1], list[i])
    IN left[Len(list)]

(* AgpsReleasingState, RSRC_RELEASED: the inactive close the data call and *)
(* are deleted; for the active a new call is asked for, and the machine is *)
(* pending whatever the answer.                                            *)
ReleasingDone ==
    /\ mState = "Releasing"
    /\ mInactive' = {}
    /\ LET rest == Remaining(mSubscribers, mInactive) IN
       /\ mSubscribers' = rest
       /\ \/ /\ rest = <<>>
             /\ mState' = "Released"
             /\ dsHandle' = "null" /\ call' = NoCall
             /\ msgq' = Rest
             /\ UNCHANGED <<mRetries, timers>>
          \/ /\ rest # <<>>
             /\ mState' = "Pending"
             /\ \/ RequestSucceeds(Rest)
                \/ RequestFails("null", Rest, rest, {})

DeniedUntold ==
    /\ mState = "Pending"
    /\ mState' = "Released" /\ mSubscribers' = <<>> /\ mInactive' = {}
    /\ mRetries' = 0
    /\ msgq' = Rest
    /\ UNCHANGED <<dsi, timers>>

(* AgpsPendingState: RSRC_RELEASED changes nothing there, so onRsrcEvent   *)
(* turns it into RSRC_DENIED.  Everybody on the list, inactive or not,     *)
(* falls back to plain ATL and is deleted; the handle stays open.          *)
Denied ==
    /\ mState = "Pending"
    /\ mState' = "Released" /\ mSubscribers' = <<>> /\ mInactive' = {}
    /\ mRetries' = 0
    /\ msgq' = Rest \o Fallbacks(mSubscribers)
    /\ UNCHANGED <<dsi, timers>>

ProcSuplEsClosed ==
    /\ Take("SuplEsClosed")
    /\ \/ ForcedRelease
       \/ ReleasingDone
       \/ Denied
       \/ mState = "Released" /\ msgq' = Rest /\ UNCHANGED <<machine, dsi, timers>>
    /\ UNCHANGED <<agnss, modem, used, environment>>

(* LocEngRequestATL, posted by a fallback, and what becomes of it: the     *)
(* handle joins agnss_nif (AgpsStateMachine), which grants or denies it,   *)
(* or loses the connection, for all its handles together.                  *)
ProcRequestATL(h) ==
    /\ Take("RequestATL") /\ Head(msgq).id = h
    /\ agnss' = agnss \cup {h}
    /\ msgq' = Rest
    /\ UNCHANGED <<machine, timers, dsi, modem, used, environment>>

AgnssGrants ==
    /\ agnss # {}
    /\ modem' = ToldOpen(agnss)
    /\ UNCHANGED <<machine, timers, dsi, agnss, used, msgq, environment>>

AgnssEnds ==
    /\ agnss # {}
    /\ modem' = ToldFailed(agnss)
    /\ agnss' = {}
    /\ UNCHANGED <<machine, timers, dsi, used, msgq, environment>>

-----------------------------------------------------------------------------
Modem(h) == ModemRequest(h) \/ ModemRelease(h)

DataServices == CallConnected \/ CallFailed \/ CallStopped

MsgTask ==
    \/ \E h \in Handles :
          ProcRequestSuplEs(h) \/ ProcReleaseATL(h) \/ ProcRequestATL(h)
    \/ ProcSuplEsOpened \/ ProcSuplEsClosed

Next ==
    \/ \E h \in Handles : Modem(h)
    \/ EngineUp \/ DataServices \/ CallConnectedAgain \/ CallLost
    \/ TimerFires \/ TimerLost
    \/ AgnssGrants \/ AgnssEnds \/ MsgTask

(* The message thread never stops, DSI reports the outcome of every call   *)
(* it starts or stops, agnss_nif answers.  A running call need not end.    *)
Spec ==
    /\ Init /\ [][Next]_vars
    /\ WF_vars(MsgTask) /\ WF_vars(DataServices)
    /\ WF_vars(AgnssGrants \/ AgnssEnds)

-----------------------------------------------------------------------------
Posted(t) == \E i \in 1..Len(msgq) : msgq[i].type = t

(* The machine is acquired only while its call is up on a live handle, or  *)
(* the news that it ended is already queued, across every retry, fallback  *)
(* and reuse of the handle.                                                *)
AcquiredMeansCalled ==
    mState = "Acquired" =>
        /\ dsHandle = "live"
        /\ call.at = "up" \/ Posted("SuplEsClosed")

(* No call is left running behind the machine's back, nor opened over by   *)
(* the next one: a starting or running call belongs to somebody who waits  *)
(* for it or has it, and while one is being stopped the machine waits for  *)
(* its end.  Only a call that DSI refused to stop runs on for nobody; the  *)
(* machine waits for the end of that one too, however long it lasts.       *)
CallHasOwner ==
    /\ call.at \in {"starting", "up"} =>
          IF call.unstopped
          THEN ~calm /\ mState = "Releasing"
          ELSE mState \in {"Pending", "Acquired"} /\ Active # {}
    /\ call.at = "stopping" => mState = "Releasing"

(* Where every call is started, nobody is pending without a call being set *)
(* up: later requests only wait for it.                                    *)
PendingHasCall ==
    calm /\ mState = "Pending" =>
        call.at # "idle" \/ Posted("SuplEsOpened") \/ Posted("SuplEsClosed")

(* What the machine says of the call is true. *)
StateMatchesCall == TypeOK /\ AcquiredMeansCalled /\ PendingHasCall

(* In a calm environment, an emergency request is answered: opened by the  *)
(* call, or by the ATL connection it fell back to, or refused.             *)
RequestAnswered ==
    \A h \in Handles : calm /\ modem[h] = "asked" ~> modem[h] # "asked"
=============================================================================
