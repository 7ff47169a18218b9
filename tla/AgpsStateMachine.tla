-------------------------- MODULE AgpsStateMachine --------------------------
(***************************************************************************)
(* One on-demand data connection (NIF) of the GPS HAL: an AgpsStateMachine *)
(* of loc_eng_agps.cpp with the handlers of loc_eng.cpp that drive it.     *)
(*                                                                         *)
(* Clients (modem ATL connection handles, BIT addresses, WIFI sender ids)  *)
(* post request and release messages; the framework is asked for the       *)
(* connection through the agps status callback and answers with            *)
(* agps_open, agps_closed or agps_open_failed, which post messages too;    *)
(* one thread (MsgTask) processes all messages in the order posted.        *)
(***************************************************************************)
EXTENDS Naturals, Sequences, FiniteSets

CONSTANTS
    Clients,        \* the IDs a Subscriber can have on this NIF
    ModemClients,   \* those that live in the modem (ATL) and restart with it
    Type,           \* mType, and with it the class of the subscribers
    MaxInFlight,    \* bound: messages and requests on their way at once
    MaxEngineUps    \* bound: modem restarts

ASSUME TypeAssumption == Type \in {"SUPL", "WWAN_ANY", "WIFI"}
ASSUME ClientsAssumption == ModemClients \subseteq Clients
ASSUME BoundsAssumption == MaxInFlight \in Nat /\ MaxEngineUps \in Nat

(* What differs between the NIFs loc_eng_agps_init builds: only a WIFI     *)
(* subscriber waits for the close to complete, only wifi_nif enforces a    *)
(* single subscriber, and only it is spared when the modem restarts.       *)
WaitForClose        == Type = "WIFI"
EnforceSingle       == Type = "WIFI"
DroppedOnEngineUp   == Type # "WIFI"

VARIABLES
    mState,        \* mStatePtr
    mSubscribers,  \* the subscriber list, by ID
    mInactive,     \* those of the list with mIsInactive
    msgq,          \* the MsgTask queue, oldest first
    requests,      \* status callbacks the framework has not acted on yet
    nif,           \* the connection, as the framework has it
    told,          \* the last thing a client was told since it asked
    overlap,       \* history: a request was sent before the last one settled
    engineUps      \* modem restarts so far

vars == <<mState, mSubscribers, mInactive, msgq, requests, nif, told,
          overlap, engineUps>>

machine == <<mState, mSubscribers, mInactive, told>>

States     == {"Released", "Pending", "Acquired", "Releasing"}
Tidings    == {"none", "GRANTED", "DENIED", "RELEASED", "UNSUBSCRIBE"}
FwMessages == [type : {"AtlOpenSuccess", "AtlClosed", "AtlOpenFailed"}]
Messages   == [type : {"Request", "Release"}, id : Clients]
                \cup FwMessages \cup [type : {"Up"}]

TypeOK ==
    /\ mState \in States
    /\ mSubscribers \subseteq Clients
    /\ mInactive \subseteq mSubscribers
    /\ msgq \in Seq(Messages)
    /\ requests \in Seq({"REQUEST", "RELEASE"})
    /\ nif \in {"down", "opening", "up"}
    /\ told \in [Clients -> Tidings]
    /\ overlap \in BOOLEAN
    /\ engineUps \in Nat

Active == mSubscribers \ mInactive

Init ==
    /\ mState = "Released"
    /\ mSubscribers = {}
    /\ mInactive = {}
    /\ msgq = <<>>
    /\ requests = <<>>
    /\ nif = "down"
    /\ told = [c \in Clients |-> "none"]
    /\ overlap = FALSE
    /\ engineUps = 0

-----------------------------------------------------------------------------
(* Clients and the modem: LocApi and daemon threads that only post.        *)

HasRoom == Len(msgq) + Len(requests) < MaxInFlight

Post(m) == msgq' = Append(msgq, m)

ClientRequest(c) ==
    /\ HasRoom
    /\ Post([type |-> "Request", id |-> c])
    /\ UNCHANGED <<machine, requests, nif, overlap, engineUps>>

ClientRelease(c) ==
    /\ HasRoom
    /\ Post([type |-> "Release", id |-> c])
    /\ UNCHANGED <<machine, requests, nif, overlap, engineUps>>

EngineUp ==
    /\ HasRoom
    /\ engineUps < MaxEngineUps
    /\ engineUps' = engineUps + 1
    /\ Post([type |-> "Up"])
    /\ UNCHANGED <<machine, requests, nif, overlap>>

-----------------------------------------------------------------------------
(* The framework's connectivity service.                                   *)

FwMessage(t) == [type |-> t]

Requested(action) == requests # <<>> /\ Head(requests) = action

(* A request is answered at once while the connection is up; otherwise the *)
(* network is being brought up and an answer follows.                      *)
FwTakeRequest ==
    /\ Requested("REQUEST")
    /\ requests' = Tail(requests)
    /\ IF nif = "up"
         THEN Post(FwMessage("AtlOpenSuccess")) /\ UNCHANGED nif
         ELSE nif' = "opening" /\ UNCHANGED msgq
    /\ UNCHANGED <<machine, overlap, engineUps>>

FwOpen ==
    /\ nif = "opening"
    /\ nif' = "up"
    /\ Post(FwMessage("AtlOpenSuccess"))
    /\ UNCHANGED <<machine, requests, overlap, engineUps>>

FwOpenFailed ==
    /\ nif = "opening"
    /\ nif' = "down"
    /\ Post(FwMessage("AtlOpenFailed"))
    /\ UNCHANGED <<machine, requests, overlap, engineUps>>

(* A release closes what is open or opening; when there is nothing to      *)
(* close, the framework may or may not say so.                             *)
FwTakeRelease ==
    /\ Requested("RELEASE")
    /\ requests' = Tail(requests)
    /\ nif' = "down"
    /\ \/ Post(FwMessage("AtlClosed"))
       \/ nif = "down" /\ UNCHANGED msgq
    /\ UNCHANGED <<machine, overlap, engineUps>>

(* The network goes away by itself. *)
FwLost ==
    /\ nif = "up"
    /\ HasRoom
    /\ nif' = "down"
    /\ Post(FwMessage("AtlClosed"))
    /\ UNCHANGED <<machine, requests, overlap, engineUps>>

-----------------------------------------------------------------------------
(* The message thread.                                                     *)

Take(t) ==
    /\ msgq # <<>>
    /\ Head(msgq).type = t
    /\ msgq' = Tail(msgq)

(* notifySubscribers: what the clients in who have been told afterwards. *)
Notify(who, what) == [c \in Clients |-> IF c \in who THEN what ELSE told[c]]

SendRsrcRequestInverted(action, active) ==
    IF (active = {}) = (action = "REQUEST")
      THEN Append(requests, action) ELSE requests

SendRsrcRequestNeverRelease(action, active) ==
    IF active # {} /\ action = "REQUEST"
      THEN Append(requests, action) ELSE requests

(* sendRsrcRequest: a release is only sent once nobody is active, a        *)
(* request only while somebody is.                                         *)
SendRsrcRequest(action, active) ==
    IF (active = {}) = (action = "RELEASE")
      THEN Append(requests, action) ELSE requests

(* Nothing is on its way to or from the framework, and nothing is open. *)
Settled ==
    /\ requests = <<>>
    /\ nif = "down"
    /\ \A i \in 1..Len(msgq) : msgq[i] \notin FwMessages

(* AgpsReleasedState, RSRC_SUBSCRIBE. *)
SubscribeReleased(c) ==
    /\ mState = "Released"
    /\ mState' = "Pending"
    /\ mSubscribers' = mSubscribers \cup {c}
    /\ told' = Notify({c}, "none")
    /\ requests' = SendRsrcRequest("REQUEST", Active \cup {c})
    /\ overlap' = ~Settled
    /\ UNCHANGED mInactive

(* AgpsPendingState and AgpsReleasingState, RSRC_SUBSCRIBE: join the list  *)
(* and wait.                                                               *)
SubscribeWaiting(c) ==
    /\ mState \in {"Pending", "Releasing"}
    /\ mSubscribers' = mSubscribers \cup {c}
    /\ told' = IF c \in mSubscribers THEN told ELSE Notify({c}, "none")
    /\ UNCHANGED <<mState, mInactive, requests, overlap>>

SubscribeAcquiredUntold(c) ==
    /\ mState = "Acquired"
    /\ mSubscribers' = mSubscribers \cup {c}
    /\ told' = IF c \in mSubscribers THEN told ELSE Notify({c}, "none")
    /\ UNCHANGED <<mState, mInactive, requests, overlap>>

(* AgpsAcquiredState, RSRC_SUBSCRIBE: granted at once. *)
SubscribeAcquired(c) ==
    /\ mState = "Acquired"
    /\ told' = Notify({c}, "GRANTED")
    /\ mSubscribers' = mSubscribers \cup {c}
    /\ UNCHANGED <<mState, mInactive, requests, overlap>>

TurnedAwayNever == FALSE

(* subscribeRsrc: a second subscriber of a single-subscriber NIF is turned *)
(* away, whatever the state, even when it is the one already on the list.  *)
TurnedAway == EnforceSingle /\ mSubscribers # {}

TurnAway(c) ==
    /\ TurnedAway
    /\ told' = Notify({c}, "DENIED")
    /\ UNCHANGED <<mState, mSubscribers, mInactive, requests, overlap>>

ProcRequest(c) ==
    /\ Take("Request")
    /\ Head(msgq).id = c
    /\ \/ TurnAway(c)
       \/ /\ ~TurnedAway
          /\ \/ SubscribeReleased(c)
             \/ SubscribeWaiting(c)
             \/ SubscribeAcquired(c)
    /\ UNCHANGED <<nif, engineUps>>

(* Who is on the list once c unsubscribed: c itself, marked inactive, when *)
(* it must wait for the close; else it is told and deleted.                *)
Remaining(c) == IF WaitForClose THEN mSubscribers ELSE mSubscribers \ {c}

StateOnceLeftStays(rest, active) ==
    IF rest # {} /\ active = {} THEN "Releasing" ELSE mState

StateOnceLeft(rest, active) ==
    CASE rest = {}                 -> "Released"
      [] rest # {} /\ active = {}  -> "Releasing"
      [] OTHER                     -> mState

(* RSRC_UNSUBSCRIBE in AgpsPendingState, AgpsAcquiredState and             *)
(* AgpsReleasingState: the connection is released with the last active     *)
(* subscriber; in AgpsReleasingState that was done before.                 *)
Unsubscribe(c) ==
    LET rest     == Remaining(c)
        inactive == IF WaitForClose THEN mInactive \cup {c} ELSE mInactive \ {c}
        active   == rest \ inactive
    IN  /\ mSubscribers' = rest
        /\ mInactive' = inactive
        /\ told' = IF WaitForClose THEN told ELSE Notify({c}, "UNSUBSCRIBE")
        /\ mState' = StateOnceLeft(rest, active)
        /\ requests' = IF active = {} /\ mState # "Releasing"
                         THEN SendRsrcRequest("RELEASE", active) ELSE requests

(* unsubscribeRsrc: only a subscriber of the list reaches the state.  The  *)
(* list is empty in AgpsReleasedState (ReleasedHasNoSubscribers), so its   *)
(* RSRC_UNSUBSCRIBE branch has no step here.                               *)
ProcRelease(c) ==
    /\ Take("Release")
    /\ Head(msgq).id = c
    /\ \/ c \in mSubscribers /\ Unsubscribe(c)
       \/ c \notin mSubscribers /\ UNCHANGED <<machine, requests>>
    /\ UNCHANGED <<nif, overlap, engineUps>>

(* LocEngAtlOpenSuccess: RSRC_GRANTED only counts in AgpsPendingState. *)
ProcAtlOpenSuccess ==
    /\ Take("AtlOpenSuccess")
    /\ \/ /\ mState = "Pending"
          /\ mState' = "Acquired"
          /\ told' = Notify(Active, "GRANTED")
       \/ mState # "Pending" /\ UNCHANGED <<mState, told>>
    /\ UNCHANGED <<mSubscribers, mInactive, requests, nif, overlap, engineUps>>

TellAllAndKeep(what) ==
    told' = Notify(mSubscribers, what) /\ UNCHANGED <<mSubscribers, mInactive>>

(* Everybody on the list is told what and deleted. *)
TellAllAndDelete(what) ==
    /\ told' = Notify(mSubscribers, what)
    /\ mSubscribers' = {}
    /\ mInactive' = {}

(* AgpsReleasingState, RSRC_RELEASED or RSRC_DENIED: the inactive are told *)
(* and deleted; if somebody active joined meanwhile, ask again.            *)
ReleasingDone(what) ==
    /\ mState = "Releasing"
    /\ told' = Notify(mInactive, what)
    /\ mSubscribers' = Active
    /\ mInactive' = {}
    /\ mState' = IF Active # {} THEN "Pending" ELSE "Released"
    /\ requests' = IF Active # {} THEN SendRsrcRequest("REQUEST", Active)
                                  ELSE requests

ForcedReleaseIgnored ==
    mState = "Acquired" /\ UNCHANGED <<machine, requests>>

(* AgpsAcquiredState, RSRC_RELEASED: a forced release. *)
ForcedRelease ==
    /\ mState = "Acquired"
    /\ TellAllAndDelete("RELEASED")
    /\ mState' = "Released"
    /\ UNCHANGED requests

(* LocEngAtlClosed: ignored in AgpsPendingState. *)
ProcAtlClosed ==
    /\ Take("AtlClosed")
    /\ \/ ForcedRelease
       \/ ReleasingDone("RELEASED")
       \/ mState \in {"Released", "Pending"} /\ UNCHANGED <<machine, requests>>
    /\ UNCHANGED <<nif, overlap, engineUps>>

(* AgpsPendingState, RSRC_DENIED. *)
Denied ==
    /\ mState = "Pending"
    /\ TellAllAndDelete("DENIED")
    /\ mState' = "Released"
    /\ UNCHANGED requests

ProcAtlOpenFailedOnlyPending ==
    /\ Take("AtlOpenFailed")
    /\ \/ Denied
       \/ mState # "Pending" /\ UNCHANGED <<machine, requests>>
    /\ UNCHANGED <<nif, overlap, engineUps>>

(* LocEngAtlOpenFailed: ignored in AgpsAcquiredState; in                   *)
(* AgpsReleasingState the subscriber left before the framework denied.     *)
ProcAtlOpenFailed ==
    /\ Take("AtlOpenFailed")
    /\ \/ Denied
       \/ ReleasingDone("DENIED")
       \/ mState \in {"Released", "Acquired"} /\ UNCHANGED <<machine, requests>>
    /\ UNCHANGED <<nif, overlap, engineUps>>

(* LocEngUp: dropAllSubscribers empties the list and tells nobody; the     *)
(* state stays.  Modem clients restarted and know nothing.                 *)
ProcUp ==
    /\ Take("Up")
    /\ IF DroppedOnEngineUp
         THEN /\ mSubscribers' = {}
              /\ mInactive' = {}
              /\ told' = Notify(ModemClients, "none")
         ELSE UNCHANGED <<mSubscribers, mInactive, told>>
    /\ UNCHANGED <<mState, requests, nif, overlap, engineUps>>

-----------------------------------------------------------------------------
Client(c) == ClientRequest(c) \/ ClientRelease(c)

Framework == FwTakeRequest \/ FwTakeRelease \/ FwOpen \/ FwOpenFailed

MsgTask ==
    \/ \E c \in Clients : ProcRequest(c) \/ ProcRelease(c)
    \/ ProcAtlOpenSuccess \/ ProcAtlClosed \/ ProcAtlOpenFailed \/ ProcUp

Next == (\E c \in Clients : Client(c)) \/ EngineUp
            \/ Framework \/ FwLost \/ MsgTask

(* MsgTask::loopMain never stops taking messages, and the framework acts   *)
(* on every callback.  Clients owe nothing, and a network need not fail.   *)
Spec == Init /\ [][Next]_vars /\ WF_vars(MsgTask) /\ WF_vars(Framework)

-----------------------------------------------------------------------------
(* What the framework still owes the machine. *)
InQueue(types) == \E i \in 1..Len(msgq) : msgq[i].type \in types

RequestOutstanding ==
    \/ requests # <<>> /\ requests[Len(requests)] = "REQUEST"
    \/ requests = <<>> /\ nif = "opening"
    \/ InQueue({"AtlOpenSuccess", "AtlOpenFailed"})

(* The states log "subscriber list not empty" in AgpsReleasedState as an   *)
(* error nobody knows how to recover from: it never happens on this NIF.   *)
ReleasedHasNoSubscribers == mState = "Released" => mSubscribers = {}

(* Nobody waits in AgpsPendingState for an answer that is not coming: a    *)
(* request, the connection being opened or its outcome is on its way, over *)
(* every reuse of the connection and every modem restart.                  *)
PendingIsAwaited == mState = "Pending" => RequestOutstanding

(* The machine takes the connection for acquired only while it is up or    *)
(* the news that it went down is already queued, whatever stale answers of *)
(* an earlier request arrived in between.                                  *)
AcquiredMeansConnected ==
    mState = "Acquired" => nif = "up" \/ InQueue({"AtlClosed"})

(* wifi_nif never has two subscribers, and inactive ones only on their way *)
(* out.                                                                    *)
SingleSubscriber ==
    /\ EnforceSingle => Cardinality(mSubscribers) <= 1
    /\ mInactive # {} => mState = "Releasing"

(* The same without counting, and that only wifi_nif knows inactive ones.  *)
Alone == EnforceSingle => \A a, b \in mSubscribers : a = b

InactiveIsReleasing == mInactive # {} => mState = "Releasing" /\ WaitForClose

ListInv ==
    /\ TypeOK
    /\ ReleasedHasNoSubscribers
    /\ Alone
    /\ InactiveIsReleasing

(* An open connection that was announced is still open, or its loss was    *)
(* announced after it.                                                     *)
OpenStands ==
    \A i \in 1..Len(msgq) : msgq[i].type = "AtlOpenSuccess" =>
        \/ nif = "up"
        \/ \E j \in 1..Len(msgq) : i < j /\ msgq[j].type = "AtlClosed"

(* State, list and framework agree, whatever stale answers, reuses of the  *)
(* connection and modem restarts came before: neither half holds by itself *)
(* from step to step.                                                      *)
AnswerInv ==
    /\ ListInv
    /\ OpenStands
    /\ PendingIsAwaited
    /\ AcquiredMeansConnected

(* A modem client that was told GRANTED and nothing since holds the        *)
(* connection, and while it is acquired everybody active has been told.    *)
GrantBelief ==
    /\ \A c \in ModemClients :
         told[c] = "GRANTED" => c \in mSubscribers /\ mState # "Pending"
    /\ mState = "Acquired" /\ Type # "WIFI" =>
         \A c \in Active : told[c] = "GRANTED"

(* Until the modem restarts, the connection is asked for or held only      *)
(* while somebody active wants it.                                         *)
HeldForSomebody ==
    engineUps = 0 /\ mState \in {"Pending", "Acquired"} => Active # {}

(* "Each state machine tracks resource state of a particular NIF": when    *)
(* everything posted has been acted on, the connection is up exactly when  *)
(* the machine says so.  This only holds as long as no request was sent    *)
(* before the previous one was settled: answers do not say which request   *)
(* they answer.                                                            *)
Quiet == msgq = <<>> /\ requests = <<>> /\ nif # "opening"

TracksNifUnlessOverlapping ==
    ~overlap /\ Quiet => (nif = "up" <=> mState = "Acquired")

(* Whoever is on the list and has heard nothing is granted, denied or      *)
(* taken off the list, and a connection being released gets released.      *)
RequestAnswered ==
    \A c \in Clients :
        c \in mSubscribers /\ told[c] = "none"
            ~> told[c] # "none" \/ c \notin mSubscribers

ReleaseCompletes == mState = "Releasing" ~> mState # "Releasing"

EveryWaitEnds == RequestAnswered /\ ReleaseCompletes

-----------------------------------------------------------------------------
(* What the clients see of the machine. *)
ClientStatus ==
    [c \in Clients |->
        IF c \notin mSubscribers THEN "idle"
        ELSE IF c \in mInactive THEN "closing"
        ELSE IF mState = "Acquired" THEN "granted"
        ELSE "waiting"]

Connection == INSTANCE OnDemandConnection WITH client <- ClientStatus

(* The machine is one shared connection to its clients: nobody is left     *)
(* waiting while another is granted it, all are granted it together, and   *)
(* when it is lost or denied it is over for all of them together.          *)
ImplementsConnection == Connection!Spec
=============================================================================
