------------------------------- MODULE LocApi -------------------------------
(***************************************************************************)
(* LocApiBase: the adapters of one context, the events they ask the modem  *)
(* for, and the delivery of what the modem reports.                        *)
(*                                                                         *)
(* Adapters are built and destroyed by their owners' thread, which edits   *)
(* the array mLocAdapters.  The MsgTask thread opens and closes the        *)
(* modem's client.  The callback thread walks the array for every event of *)
(* the modem.  No lock protects the array, so its writes are steps of      *)
(* their own, and so are the two reads of each slot by such a walk.  The   *)
(* walk of getEvtMask, which calls nothing that could wait, is one step.   *)
(***************************************************************************)
EXTENDS Naturals, Sequences, FiniteSets

CONSTANTS
    Adapters,       \* objects derived from LocAdapterBase
    Events,         \* the bits of an event mask
    EvtMask,        \* the events each adapter is constructed with
    Handling,       \* the adapters that handle a request of the modem
    Excluded,       \* mExcludedMask of the context
    MAX_ADAPTERS,
    NULL,
    MaxWalks        \* bound: events the callback thread delivers

ASSUME AdaptersAssumption ==
    /\ NULL \notin Adapters
    /\ EvtMask \in [Adapters -> SUBSET Events]
    /\ Handling \subseteq Adapters
    /\ Excluded \subseteq Events
ASSUME BoundsAssumption == MAX_ADAPTERS \in Nat \ {0} /\ MaxWalks \in Nat

VARIABLES
    calm,           \* chosen at the start: nothing fails, and no adapter
                    \* leaves while an event is being delivered
    mLocAdapters,
    phase,          \* of each adapter's life
    removal,        \* how far removeAdapter has come, and where
    msgq,           \* LocOpenMsg and LocSsrMsg for the MsgTask thread
    api,            \* handle of the client, mMask, mask the modem knows
    modem,          \* is the service up, is its loss or return unreported
    lost,           \* open failed and no restart has made up for it
    walk,           \* the event the callback thread is delivering
    walks           \* deliveries so far

list == <<mLocAdapters, phase, removal>>
vars == <<calm, list, msgq, api, modem, lost, walk, walks>>

Slots == 1..MAX_ADAPTERS

Idle == [event |-> "none", i |-> 1, tested |-> FALSE, p |-> NULL, due |-> {},
         called |-> {}]
NoRemoval == [step |-> "none", adapter |-> NULL, j |-> 1, i |-> 1]

Listed == {mLocAdapters[k] : k \in Slots} \ {NULL}

(* Where a walk over the array ends: its first empty slot.                  *)
End(array) == CHOOSE n \in 1..(MAX_ADAPTERS + 1) :
                 /\ \A k \in 1..(n - 1) : array[k] # NULL
                 /\ n \in Slots => array[n] = NULL

(* LocApiBase::getEvtMask. *)
getEvtMask(array) ==
    (UNION {EvtMask[array[k]] : k \in 1..(End(array) - 1)}) \ Excluded

Opened(mask) == [handle |-> "open", mMask |-> mask, registered |-> mask]
Closed       == [handle |-> "invalid", mMask |-> {}, registered |-> {}]

Open(mask) == [kind |-> "Open", mask |-> mask]
Ssr        == [kind |-> "Ssr", mask |-> {}]

TypeOK ==
    /\ calm \in BOOLEAN
    /\ mLocAdapters \in [Slots -> Adapters \cup {NULL}]
    /\ phase \in [Adapters -> {"none", "building", "ready", "outside", "leaving",
                           "gone"}]
    /\ removal \in [step : {"none", "fill", "cut"},
                    adapter : Adapters \cup {NULL}, j : Slots, i : Slots]
    /\ msgq \in Seq([kind : {"Open", "Ssr"}, mask : SUBSET Events])
    /\ api \in [handle : {"invalid", "open", "stale"}, mMask : SUBSET Events,
                registered : SUBSET Events]
    /\ modem \in {"up", "crashed", "down", "restarted"}
    /\ lost \in BOOLEAN
    /\ walk \in [event : {"none", "report", "request", "Down", "Up", "fault"},
                 i : 1..(MAX_ADAPTERS + 1), tested : BOOLEAN,
                 p : Adapters \cup {NULL},
                 due : SUBSET Adapters, called : SUBSET Adapters]
    /\ walks \in 0..MaxWalks

Init ==
    /\ calm \in BOOLEAN
    /\ mLocAdapters = [k \in Slots |-> NULL]
    /\ phase = [a \in Adapters |-> "none"]
    /\ removal = NoRemoval
    /\ msgq = <<>>
    /\ api = Closed
    /\ modem = "up"
    /\ lost = FALSE
    /\ walk = Idle /\ walks = 0

-----------------------------------------------------------------------------
(* The owners' thread, which is done with one adapter before it takes the   *)
(* next.                                                                    *)

Free == removal.step = "none" /\ \A a \in Adapters : phase[a] # "building"

(* The constructor of LocAdapterBase calls addAdapter; until the derived    *)
(* class is built, calls reach the base class, which ignores them.  A full  *)
(* array leaves the adapter out.                                            *)
Join(a) ==
    /\ Free
    /\ phase[a] = "none"
    /\ LET n == End(mLocAdapters)
       IN  \/ /\ n \in Slots
              /\ mLocAdapters' = [mLocAdapters EXCEPT ![n] = a]
              /\ msgq' = Append(msgq, Open(EvtMask[a]))
              /\ phase' = [phase EXCEPT ![a] = "building"]
           \/ /\ n \notin Slots
              /\ phase' = [phase EXCEPT ![a] = "outside"]
              /\ UNCHANGED <<mLocAdapters, msgq>>
    /\ UNCHANGED <<calm, removal, api, modem, lost, walk, walks>>

Built(a) ==
    /\ phase[a] = "building"
    /\ phase' = [phase EXCEPT ![a] = "ready"]
    /\ UNCHANGED <<calm, mLocAdapters, removal, msgq, api, modem, lost, walk, walks>>

(* The destructor of LocAdapterBase calls removeAdapter: the adapter's slot *)
(* is emptied, ...                                                          *)
Leave(a) ==
    /\ Free
    /\ calm => walk = Idle
    /\ \/ \E j \in Slots :
             /\ phase[a] = "ready" /\ mLocAdapters[j] = a
             /\ mLocAdapters' = [mLocAdapters EXCEPT ![j] = NULL]
             /\ removal' = [step |-> "fill", adapter |-> a, j |-> j,
                            i |-> End(mLocAdapters) - 1]
             /\ phase' = [phase EXCEPT ![a] = "leaving"]
       \/ /\ phase[a] = "outside"
          /\ phase' = [phase EXCEPT ![a] = "gone"]
          /\ UNCHANGED <<mLocAdapters, removal>>
    /\ UNCHANGED <<calm, msgq, api, modem, lost, walk, walks>>

LeaveShiftsNothing ==
    /\ removal.step = "fill"
    /\ removal' = [removal EXCEPT !.step = "cut", !.i = removal.j]
    /\ UNCHANGED <<calm, mLocAdapters, phase, msgq, api, modem, lost, walk, walks>>

(* ... the last adapter moves into it, ...                                  *)
LeaveFill ==
    /\ removal.step = "fill"
    /\ mLocAdapters' =
          [mLocAdapters EXCEPT ![removal.j] = mLocAdapters[removal.i]]
    /\ removal' = [removal EXCEPT !.step = "cut"]
    /\ UNCHANGED <<calm, phase, msgq, api, modem, lost, walk, walks>>

(* ... and the last slot is emptied.  The client is closed if the array is  *)
(* empty, and otherwise asked for what is left.                             *)
LeaveCut ==
    LET left == [mLocAdapters EXCEPT ![removal.i] = NULL]
    IN  /\ removal.step = "cut"
        /\ mLocAdapters' = left
        /\ phase' = [phase EXCEPT ![removal.adapter] = "gone"]
        /\ removal' = NoRemoval
        /\ \/ /\ removal.i = 1
              /\ api' = Closed
              /\ UNCHANGED msgq
           \/ /\ removal.i # 1
              /\ msgq' = Append(msgq, Open(getEvtMask(left)))
              /\ UNCHANGED api
        /\ UNCHANGED <<calm, modem, lost, walk, walks>>

-----------------------------------------------------------------------------
(* The MsgTask thread: LocApiV02::open and close.                           *)

(* open and registration fail while the service is away, for a handle of    *)
(* before it went, and at any time if not calm.                             *)
MayFail == ~calm \/ modem \in {"crashed", "down"} \/ api.handle = "stale"

(* A client that cannot be opened keeps no mask. *)
Connect(mask) ==
    \/ /\ modem \in {"up", "restarted"}
       /\ api' = Opened(mask)
    \/ /\ MayFail
       /\ api' = Closed

RegisterReplaces(mask) ==
    /\ api.handle = "open"
    /\ api' = Opened(mask)

(* One that is open asks for what it has and what is new, unless that is    *)
(* nothing; it keeps its mask if registration fails.                        *)
Register(mask) ==
    LET newMask == api.mMask \cup mask
    IN  \/ /\ newMask = api.mMask \/ MayFail
           /\ UNCHANGED api
        \/ /\ newMask # api.mMask /\ api.handle = "open"
           /\ api' = Opened(newMask)

Missing(mask) == ~(api'.handle = "open" /\ mask \subseteq api'.registered)

(* LocOpenMsg::proc. *)
ProcOpen ==
    /\ msgq # <<>> /\ Head(msgq).kind = "Open"
    /\ msgq' = Tail(msgq)
    /\ LET mask == Head(msgq).mask \ Excluded
       IN  /\ \/ /\ api.handle = "invalid"
                 /\ Connect(mask)
              \/ /\ api.handle # "invalid"
                 /\ Register(mask)
           /\ lost' = (lost \/ Missing(mask))
    /\ UNCHANGED <<calm, list, modem, walk, walks>>

(* LocSsrMsg::proc: close, then open for all adapters.                      *)
ProcSsr ==
    /\ msgq # <<>> /\ Head(msgq).kind = "Ssr"
    /\ msgq' = Tail(msgq)
    /\ Connect(getEvtMask(mLocAdapters))
    /\ lost' = Missing(getEvtMask(mLocAdapters))
    /\ UNCHANGED <<calm, list, modem, walk, walks>>

-----------------------------------------------------------------------------
(* The modem and the callback thread.                                       *)

Crash ==
    /\ modem = "up"
    /\ modem' = "crashed"
    /\ api' = IF api.handle = "open"
              THEN [api EXCEPT !.handle = "stale", !.registered = {}] ELSE api
    /\ UNCHANGED <<calm, list, msgq, lost, walk, walks>>

Restart ==
    /\ modem = "down"
    /\ modem' = "restarted"
    /\ UNCHANGED <<calm, list, msgq, api, lost, walk, walks>>

(* The adapters an event is meant for: those that can take it now.  due and *)
(* called are histories, kept while calm.                                   *)
Due == {a \in Listed : phase[a] = "ready"}

Begin(event) ==
    /\ walk = Idle /\ walks < MaxWalks
    /\ calm => removal.step = "none"
    /\ walks' = walks + 1
    /\ walk' = [Idle EXCEPT !.event = event, !.due = IF calm THEN Due ELSE {}]
    /\ UNCHANGED <<calm, list, api, lost>>

(* The report*() and request*() functions of LocApiBase. *)
Report ==
    /\ api.registered # {}
    /\ \/ Begin("report") \/ Begin("request")
    /\ UNCHANGED <<modem, msgq>>

(* handleEngineDownEvent, and handleEngineUpEvent, which first posts the    *)
(* message that reopens the client.                                         *)
EngineDown ==
    /\ modem = "crashed"
    /\ modem' = "down"
    /\ Begin("Down")
    /\ UNCHANGED msgq

EngineUp ==
    /\ modem = "restarted"
    /\ modem' = "up"
    /\ Begin("Up")
    /\ msgq' = Append(msgq, Ssr)

Delivering == walk.event \notin {"none", "fault"}

(* TO_ALL_ADAPTERS, TO_1ST_HANDLING_ADAPTER: the slot is tested, ...        *)
WalkTest ==
    /\ Delivering /\ ~walk.tested /\ walk.p = NULL
    /\ walk.i \in Slots /\ mLocAdapters[walk.i] # NULL
    /\ walk' = [walk EXCEPT !.tested = TRUE]
    /\ UNCHANGED <<calm, list, msgq, api, modem, lost, walks>>

(* ... and read again, when it may have been emptied: the call through a    *)
(* null pointer is the end of the process.  ...                             *)
WalkRead ==
    LET p == mLocAdapters[walk.i]
    IN  /\ Delivering /\ walk.tested
        /\ \/ /\ p # NULL
              /\ walk' = [walk EXCEPT !.tested = FALSE, !.p = p]
           \/ /\ p = NULL
              /\ walk' = [Idle EXCEPT !.event = "fault"]
        /\ UNCHANGED <<calm, list, msgq, api, modem, lost, walks>>

WalkCallStops ==
    LET p == walk.p
    IN  /\ p # NULL
        /\ walk' = [walk EXCEPT !.p = NULL,
                                !.i = IF p \in Handling THEN MAX_ADAPTERS + 1
                                      ELSE @ + 1,
                                !.called = @ \cup ({p} \cap walk.due)]
        /\ UNCHANGED <<calm, list, msgq, api, modem, lost, walks>>

(* Its adapter is called; a request stops at the first that handles it.     *)
WalkCall ==
    LET p       == walk.p
        reached == phase[p] = "ready"
        stops   == walk.event = "request" /\ reached /\ p \in Handling
    IN  /\ p # NULL
        /\ walk' = [walk EXCEPT !.p = NULL,
                                !.i = IF stops THEN MAX_ADAPTERS + 1 ELSE @ + 1,
                                !.called = IF calm /\ reached THEN @ \cup {p} ELSE @]
        /\ UNCHANGED <<calm, list, msgq, api, modem, lost, walks>>

(* The walk has come to the first empty slot. *)
AtEnd ==
    /\ Delivering /\ ~walk.tested /\ walk.p = NULL
    /\ walk.i \in Slots => mLocAdapters[walk.i] = NULL

WalkEnd ==
    /\ AtEnd
    /\ walk' = Idle
    /\ UNCHANGED <<calm, list, msgq, api, modem, lost, walks>>

Next ==
    /\ walk.event # "fault"
    /\ \/ \E a \in Adapters : Join(a) \/ Built(a) \/ Leave(a)
       \/ LeaveFill \/ LeaveCut
       \/ ProcOpen \/ ProcSsr
       \/ Crash \/ Restart \/ Report \/ EngineDown \/ EngineUp
       \/ WalkTest \/ WalkRead \/ WalkCall \/ WalkEnd

Spec == Init /\ [][Next]_vars

-----------------------------------------------------------------------------
(* Properties.                                                              *)

(* The array has no holes and no adapter twice, and holds every adapter     *)
(* that joined and has not left, unless it was full: otherwise a walk, or   *)
(* the search for a free slot, would stop too early.                        *)
Compact ==
    /\ TypeOK
    /\ removal.step = "none" =>
          LET n == End(mLocAdapters) - 1
          IN  /\ \A k \in Slots : mLocAdapters[k] # NULL <=> k <= n
              /\ \A k, l \in 1..n : k # l => mLocAdapters[k] # mLocAdapters[l]
              /\ Listed = {a \in Adapters : phase[a] \in {"building", "ready"}}

(* Once its messages are processed, an open client has asked the modem for  *)
(* every event that a listed adapter was constructed with and the context   *)
(* does not exclude, whoever joined, left or opened it, and after restarts. *)
MaskCovers ==
    (api.handle = "open" /\ msgq = <<>> /\ removal.step = "none" /\ ~lost)
        => /\ getEvtMask(mLocAdapters) \subseteq api.registered
           /\ api.registered \cap Excluded = {}

(* An adapter that joined is on the list and its events come. *)
AdaptersServed == Compact /\ MaskCovers

(* The adapters that were there all along and have not been called.  A      *)
(* request has been taken care of if a handling adapter was called.         *)
PassedOver ==
    {a \in walk.due : phase[a] = "ready" /\ a \notin walk.called
                      /\ (walk.event = "request" =>
                             a \in Handling /\ walk.called \cap Handling = {})}

(* When a walk ends, its event has been delivered to all adapters that were *)
(* there throughout, and a request to one that handles it, and no walk      *)
(* calls through an emptied slot, provided that none left meanwhile.        *)
DeliveredWhenCalm ==
    calm => walk.event # "fault" /\ (AtEnd => PassedOver = {})
=============================================================================
