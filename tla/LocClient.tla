------------------------------ MODULE LocClient ------------------------------
(***************************************************************************)
(* loc_api_v02_client: one client of the modem's location service, opened, *)
(* used, closed and opened again by LocApiV02 on the MsgTask thread.  The  *)
(* QCCI library calls back on a thread of its own, with indications and    *)
(* with the loss of the service.                                           *)
(*                                                                         *)
(* Every attempt to open allocates callback data, and QCCI gives it a      *)
(* control point.  The attempt passes through the places of pc below; the  *)
(* service may be lost, and QCCI may call back, between any two of them.   *)
(***************************************************************************)
EXTENDS Naturals, FiniteSets

CONSTANTS
    Events,         \* the events of locClientEventIndTable
    RespInds,       \* the response indications of locClientRespIndTable
    Unknown,        \* those of them that locClientHandleIndication does not know
    Wanted,         \* masks LocApiV02 may ask for
    MAX_RETRIES,    \* LOC_CLIENT_MAX_OPEN_RETRIES
    MaxAttempts,    \* bound: attempts to open
    MaxLives        \* bound: times the service starts

(* locClientEventIndTable and locClientRespIndTable, and what of them       *)
(* locClientHandleIndication knows.                                         *)
Listed  == Events \cup RespInds
Handled == Listed \ Unknown

Attempts == 1..MaxAttempts
NoHandle == 0       \* LOC_CLIENT_INVALID_HANDLE_VALUE

VARIABLES
    calm,           \* chosen at the start: QCCI fails only when the service
                    \* is gone, and every answer comes in time
    pc, tries,      \* where the MsgTask thread is, and its retries
    asked,          \* the mask it asks for
    clientHandle,   \* the attempt LocApiV02 has a handle of
    n,              \* the current attempt
    data,           \* callback data of each attempt
    point,          \* its control point in QCCI
    service,        \* is the service up, and in which life
    signalled,      \* the notifier's signal
    ssr,            \* a LocSsrMsg is in the queue
    cb,             \* what QCCI's thread is doing
    deaf,           \* attempts told of a loss before they had a callback
    late            \* callbacks made after their client was closed

caller == <<pc, tries, asked, n>>
memory == <<clientHandle, data, point>>
vars == <<calm, caller, memory, service, signalled, ssr, cb, deaf, late>>

(* Callback data: self stands for pMe and userHandle, filled for the three  *)
(* callbacks and the cookie.                                                *)
NoData  == [mem |-> "none", self |-> FALSE, filled |-> FALSE, eventRegMask |-> {}]
NewData == [NoData EXCEPT !.mem = "allocated"]
Freed   == [NoData EXCEPT !.mem = "freed"]

(* A control point: life is the life of the service it was connected to,    *)
(* errcb whether the error callback is registered, mask what the service    *)
(* sends, loss whether QCCI has yet to report that the service is gone.     *)
NoPoint == [state |-> "none", life |-> 0, errcb |-> FALSE, mask |-> {}, loss |-> FALSE]

NoCall == [step |-> "none", a |-> NoHandle, what |-> "none"]

TypeOK ==
    /\ calm \in BOOLEAN
    /\ pc \in {"idle", "notifier", "lookup", "wait", "init", "error_cb", "register", "undo",
               "fill", "retry", "close", "reopen"}
    /\ tries \in 1..(MAX_RETRIES + 1)
    /\ asked \in Wanted
    /\ clientHandle \in Attempts \cup {NoHandle} /\ n \in Attempts \cup {NoHandle}
    /\ data \in [Attempts -> [mem : {"none", "allocated", "freed"}, self : BOOLEAN,
                              filled : BOOLEAN, eventRegMask : SUBSET Events]]
    /\ point \in [Attempts -> [state : {"none", "live", "released"},
                               life : 0..MaxLives, errcb : BOOLEAN,
                               mask : SUBSET Events, loss : BOOLEAN]]
    /\ service \in [up : BOOLEAN, life : 1..MaxLives]
    /\ signalled \in BOOLEAN /\ ssr \in BOOLEAN
    /\ cb \in [step : {"none", "copy", "call"}, a : Attempts \cup {NoHandle},
               what : Handled \cup {"none", "error"}]
    /\ deaf \subseteq Attempts /\ late \in BOOLEAN

Init ==
    /\ calm \in BOOLEAN
    /\ pc = "idle" /\ tries = 1 /\ n = NoHandle
    /\ asked \in Wanted
    /\ clientHandle = NoHandle
    /\ data = [a \in Attempts |-> NoData]
    /\ point = [a \in Attempts |-> NoPoint]
    /\ service \in [up : BOOLEAN, life : {1}]
    /\ signalled = FALSE /\ ssr = FALSE
    /\ cb = NoCall
    /\ deaf = {} /\ late = FALSE

-----------------------------------------------------------------------------
(* Opening: locClientOpen, locClientOpenInstance, locClientQmiCtrlPointInit.*)

Connected(a) == point[a].state = "live" /\ point[a].life = service.life /\ service.up

Goto(place) == pc' = place /\ UNCHANGED <<tries, asked, n>>

(* A failed attempt frees its callback data; what QCCI has allocated stays. *)
GiveUp == data' = [data EXCEPT ![n] = Freed]

(* Callback data is allocated and a notifier created.                       *)
Allocate(mask) ==
    /\ n < MaxAttempts
    /\ n' = n + 1 /\ asked' = mask
    /\ data' = [data EXCEPT ![n + 1] = NewData]

(* LocApiV02::open for a client that is not open.                           *)
Open ==
    /\ pc = "idle" /\ clientHandle = NoHandle
    /\ \E mask \in Wanted : Allocate(mask)
    /\ pc' = "notifier" /\ tries' = 1 /\ signalled' = FALSE
    /\ UNCHANGED <<calm, clientHandle, point, service, ssr, cb, deaf, late>>

(* qmi_client_notifier_init. *)
Notifier ==
    /\ pc = "notifier"
    /\ \/ Goto("lookup") /\ UNCHANGED data
       \/ ~calm /\ GiveUp /\ Goto("retry")
    /\ UNCHANGED <<calm, clientHandle, point, service, signalled, ssr, cb, deaf, late>>

(* The service is looked up; if it is not there, the thread waits for the   *)
(* notifier and looks again.                                                *)
Lookup ==
    /\ pc = "lookup"
    /\ IF service.up THEN Goto("init") ELSE Goto("wait")
    /\ UNCHANGED <<calm, memory, service, signalled, ssr, cb, deaf, late>>

WakeClearsFirst ==
    /\ pc = "wait" /\ signalled
    /\ Goto("lookup") \/ UNCHANGED caller
    /\ signalled' = FALSE
    /\ UNCHANGED <<calm, memory, service, ssr, cb, deaf, late>>

Wake ==
    /\ pc = "wait" /\ signalled
    /\ Goto("lookup")
    /\ signalled' = FALSE
    /\ UNCHANGED <<calm, memory, service, ssr, cb, deaf, late>>

(* qmi_client_init, with the address that was looked up. *)
ClientInit ==
    /\ pc = "init"
    /\ \/ /\ service.up
          /\ point' = [point EXCEPT ![n] = [NoPoint EXCEPT !.state = "live",
                                                           !.life = service.life]]
          /\ Goto("error_cb")
          /\ UNCHANGED data
       \/ /\ ~calm \/ ~service.up
          /\ GiveUp /\ Goto("retry")
          /\ UNCHANGED point
    /\ UNCHANGED <<calm, clientHandle, service, signalled, ssr, cb, deaf, late>>

RegisterErrorCbNever ==
    /\ pc = "error_cb"
    /\ data' = [data EXCEPT ![n].self = TRUE]
    /\ clientHandle' = n
    /\ Goto("register")
    /\ UNCHANGED <<calm, point, service, signalled, ssr, cb, deaf, late>>

(* qmi_client_register_error_cb, which may report a service that is gone by *)
(* then.  locClientOpenInstance sets pMe and the handle.                    *)
RegisterErrorCb ==
    /\ pc = "error_cb"
    /\ \/ /\ \E loss \in {FALSE, ~Connected(n)} :
                point' = [point EXCEPT ![n].errcb = TRUE, ![n].loss = loss]
          /\ data' = [data EXCEPT ![n].self = TRUE]
          /\ clientHandle' = n
          /\ Goto("register")
       \/ /\ ~calm
          /\ GiveUp /\ Goto("retry")
          /\ UNCHANGED <<point, clientHandle>>
    /\ UNCHANGED <<calm, service, signalled, ssr, cb, deaf, late>>

(* locClientSendReq of a registration: the mask the service took is copied. *)
Acknowledged(a, mask) ==
    /\ Connected(a)
    /\ point' = [point EXCEPT ![a].mask = mask]
    /\ data' = [data EXCEPT ![a].eventRegMask = mask]

(* One that failed is not, and neither is one whose answer did not come in  *)
(* time, which the service may have taken.                                  *)
Unacknowledged(a, mask) ==
    /\ ~calm \/ ~Connected(a)
    /\ \/ UNCHANGED point
       \/ Connected(a) /\ point' = [point EXCEPT ![a].mask = mask]
    /\ UNCHANGED data

Register ==
    /\ pc = "register"
    /\ \/ Acknowledged(n, asked) /\ Goto("fill")
       \/ Unacknowledged(n, asked) /\ Goto("undo")
    /\ UNCHANGED <<calm, clientHandle, service, signalled, ssr, cb, deaf, late>>

FillCallbacksDropped ==
    /\ pc = "fill"
    /\ data' = [data EXCEPT ![n].eventRegMask = asked]
    /\ Goto("idle")
    /\ UNCHANGED <<calm, clientHandle, point, service, signalled, ssr, cb, deaf, late>>

(* The callbacks are filled in after all else. *)
FillCallbacks ==
    /\ pc = "fill"
    /\ data' = [data EXCEPT ![n].filled = TRUE, ![n].eventRegMask = asked]
    /\ Goto("idle")
    /\ UNCHANGED <<calm, clientHandle, point, service, signalled, ssr, cb, deaf, late>>

(* locClientClose: the control point is released and the data cleared and   *)
(* freed; if QCCI refuses, both stay as they are.                           *)
Release(a) ==
    \/ /\ calm => cb.a # a
       /\ point' = [point EXCEPT ![a] = [NoPoint EXCEPT !.state = "released"]]
       /\ data' = [data EXCEPT ![a] = Freed]
    \/ /\ ~calm
       /\ UNCHANGED <<point, data>>

UndoUnreleased ==
    /\ pc = "undo"
    /\ GiveUp
    /\ clientHandle' = NoHandle
    /\ Goto("retry")
    /\ UNCHANGED <<calm, point, service, signalled, ssr, cb, deaf, late>>

(* The client is closed again if registration failed; either way open has   *)
(* failed and leaves no handle.                                             *)
Undo ==
    /\ pc = "undo"
    /\ Release(n)
    /\ clientHandle' = NoHandle
    /\ Goto("retry")
    /\ UNCHANGED <<calm, service, signalled, ssr, cb, deaf, late>>

(* locClientOpen tries again after a second, up to its limit. *)
Retry ==
    /\ pc = "retry"
    /\ \/ /\ tries <= MAX_RETRIES
          /\ Allocate(asked)
          /\ tries' = tries + 1 /\ pc' = "notifier" /\ signalled' = FALSE
       \/ /\ tries > MAX_RETRIES
          /\ Goto("idle")
          /\ UNCHANGED <<data, signalled>>
    /\ UNCHANGED <<calm, clientHandle, point, service, ssr, cb, deaf, late>>

-----------------------------------------------------------------------------
(* Use and end of an open client.                                           *)

(* LocApiV02::registerEventMask. *)
ChangeMask ==
    /\ pc = "idle" /\ clientHandle # NoHandle
    /\ \E mask \in Wanted :
          /\ mask # data[clientHandle].eventRegMask
          /\ Acknowledged(clientHandle, mask) \/ Unacknowledged(clientHandle, mask)
    /\ UNCHANGED <<calm, caller, clientHandle, service, signalled, ssr, cb, deaf, late>>

(* LocApiV02::close forgets the handle whether or not it could be closed.   *)
CloseClient ==
    \/ clientHandle # NoHandle /\ Release(clientHandle) /\ clientHandle' = NoHandle
    \/ clientHandle = NoHandle /\ UNCHANGED memory

(* LocSsrMsg::proc: close, then open. *)
ProcSsr ==
    /\ pc = "idle" /\ ssr
    /\ ssr' = FALSE
    /\ CloseClient
    /\ Goto("reopen")
    /\ UNCHANGED <<calm, service, signalled, cb, deaf, late>>

Reopen ==
    /\ pc = "reopen"
    /\ \E mask \in Wanted : Allocate(mask)
    /\ pc' = "notifier" /\ tries' = 1 /\ signalled' = FALSE
    /\ UNCHANGED <<calm, clientHandle, point, service, ssr, cb, deaf, late>>

(* The last adapter leaves. *)
Close ==
    /\ pc = "idle" /\ clientHandle # NoHandle
    /\ CloseClient
    /\ UNCHANGED <<calm, caller, service, signalled, ssr, cb, deaf, late>>

-----------------------------------------------------------------------------
(* The service and QCCI's thread.                                           *)

ServiceDown ==
    /\ service.up
    /\ service' = [service EXCEPT !.up = FALSE]
    /\ point' = [a \in Attempts |-> IF point[a].errcb /\ Connected(a)
                                    THEN [point[a] EXCEPT !.loss = TRUE] ELSE point[a]]
    /\ UNCHANGED <<calm, caller, clientHandle, data, signalled, ssr, cb, deaf, late>>

(* The notifier signals every arrival of the service. *)
ServiceUp ==
    /\ ~service.up /\ service.life < MaxLives
    /\ service' = [up |-> TRUE, life |-> service.life + 1]
    /\ signalled' = (signalled \/ pc \in {"lookup", "wait"})
    /\ UNCHANGED <<calm, caller, memory, ssr, cb, deaf, late>>

(* isClientRegisteredForEvent, with the callback that must be there, and    *)
(* locClientHandleIndication, which does not know all that is listed.       *)
Accepts(a, ind) ==
    /\ data[a].self
    /\ ind \in Events => data[a].filled /\ ind \in data[a].eventRegMask
    /\ ind \in Handled

(* locClientIndCb: an indication is checked, ...                            *)
IndCb(a, ind) ==
    /\ cb = NoCall
    /\ Connected(a)
    /\ ind \in point[a].mask \cup RespInds
    /\ Accepts(a, ind)
    /\ cb' = [step |-> "copy", a |-> a, what |-> ind]
    /\ UNCHANGED <<calm, caller, memory, service, signalled, ssr, deaf, late>>

(* ... or locClientErrorCb begins, for each loss once.                      *)
ErrorCb(a) ==
    /\ cb = NoCall
    /\ point[a].state = "live" /\ point[a].loss
    /\ point' = [point EXCEPT ![a].loss = FALSE]
    /\ \/ /\ data[a].mem = "allocated" /\ data[a].self /\ data[a].filled
          /\ cb' = [step |-> "copy", a |-> a, what |-> "error"]
          /\ UNCHANGED deaf
       \/ /\ ~(data[a].mem = "allocated" /\ data[a].self /\ data[a].filled)
          /\ deaf' = deaf \cup {a}
          /\ UNCHANGED cb
    /\ UNCHANGED <<calm, caller, clientHandle, data, service, signalled, ssr, late>>

(* The callback is copied and looked at again: data that is freed reads as  *)
(* cleared, or as what has taken its place.                                 *)
CopyCallback ==
    /\ cb.step = "copy"
    /\ \/ /\ data[cb.a].filled \/ data[cb.a].mem = "freed"
          /\ cb' = [cb EXCEPT !.step = "call"]
       \/ /\ ~data[cb.a].filled
          /\ cb' = NoCall
    /\ UNCHANGED <<calm, caller, memory, service, signalled, ssr, deaf, late>>

(* globalEventCb, globalRespCb, globalErrorCb: LocApiV02::errorCb posts a   *)
(* LocSsrMsg.                                                               *)
CallBack ==
    /\ cb.step = "call"
    /\ cb' = NoCall
    /\ late' = (late \/ data[cb.a].mem = "freed")
    /\ ssr' = (ssr \/ cb.what = "error")
    /\ UNCHANGED <<calm, caller, memory, service, signalled, deaf>>

Next ==
    \/ Open \/ Notifier \/ Lookup \/ Wake \/ ClientInit \/ RegisterErrorCb
    \/ Register \/ FillCallbacks \/ Undo \/ Retry
    \/ ChangeMask \/ ProcSsr \/ Reopen \/ Close
    \/ ServiceDown \/ ServiceUp
    \/ \E a \in Attempts : ErrorCb(a) \/ \E ind \in Listed : IndCb(a, ind)
    \/ CopyCallback \/ CallBack

Spec == Init /\ [][Next]_vars

-----------------------------------------------------------------------------
(* Properties.                                                              *)

(* The thread does not wait for a service that is there.                    *)
WaitsForNothing == pc = "wait" /\ service.up => signalled

(* What the service sends an open client is what the client lets through    *)
(* to LocApiV02, if every answer to a registration came in time.            *)
MasksAgree ==
    /\ calm /\ pc = "idle" /\ clientHandle # NoHandle /\ Connected(clientHandle)
    => /\ data[clientHandle].filled
       /\ data[clientHandle].eventRegMask = point[clientHandle].mask

(* A client whose service was lost is going to be replaced, whenever the    *)
(* loss came, unless it came before the callbacks were filled in.           *)
LossIsTold ==
    pc = "idle" /\ clientHandle # NoHandle /\ ~Connected(clientHandle)
        => \/ point[clientHandle].loss \/ ssr \/ clientHandle \in deaf
           \/ cb.a = clientHandle /\ cb.what = "error"

(* A control point that is live is the one of the handle, or of the attempt *)
(* under way, if QCCI refuses nothing; and no callback reaches LocApiV02    *)
(* from a client that was closed, if QCCI waits for its callbacks.          *)
NothingLeft ==
    calm => /\ ~late
            /\ \A a \in Attempts :
                  point[a].state = "live" => a = clientHandle \/ (a = n /\ pc # "idle")

(* All of it: the life of a client, from any attempt to the next.           *)
ClientInv == TypeOK /\ WaitsForNothing /\ MasksAgree /\ LossIsTold /\ NothingLeft
=============================================================================
