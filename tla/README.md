# TLA+ models of the Victara device tree

The repository is an Android device tree for the Motorola Victara (Moto X, 2nd
generation). Most of it configures a build. Three programs in it have logic of
their own, besides two small wrappers of camera and lights: the GPS hardware
abstraction layer in `src/gps` (several threads, a message queue, state
machines, timers, a modem that restarts, and a framework that answers when it
likes), the program that runs while a phone that is off is being charged
(`src/charge_only_mode`), and the service for motion and infrared gestures
(`src/nxactions`). These modules model them; the table of components says what
is left out.

- [The system](#the-system)
- [Modules](#modules)
- [Runs](#runs)
- [Fairness](#fairness)
- [Where the code and its text disagree](#where-the-code-and-its-text-disagree)
- [Proofs](#proofs)
- [Not modelled](#not-modelled)
- [Plan](#plan)

Run everything from this directory: `tlc -config MCAgpsNif.cfg
MCAgpsStateMachine.tla`, `tlapm AgpsStateMachine_proofs.tla`. `PROJECT.json`
lists the runs, the code every definition stands for, the mutation by which each
property was seen to fail, the hazards and the theorems.

## The system

```
        framework (binder threads, one callback thread per status)
   start, stop, mode, aiding data │ agps_open/closed/failed │ ni_respond
                                  ▼                         │
   loc.cpp ─ loc_eng.cpp ─── messages ──► MsgTask ◄── msgs ─┤
                 ▲                          │ proc()        │
   daemons ──────┘ (pipe, dmn_conn)         ▼               ▼
                        loc_eng_data, AgpsStateMachines   NI thread
                                            │
                 LocEngAdapter ─ LocApiBase ─ LocApiV02 ── sync requests
                        ▲                        │              │
                        └── report*() ── QMI callback thread ◄──┘ modem
                                                 │
                                     ds_client (data calls) ── DSI
```

| component | state it keeps | operations | what is hard | module |
|---|---|---|---|---|
| Data connection state machines (`loc_eng_agps`) | state, subscriber list | subscribe, unsubscribe, granted, released, denied, drop all | answers of the framework carry no request they answer; requests overlap; the modem restarts | AgpsStateMachine |
| Emergency SUPL data call (`DSStateMachine`, `LocApiV02`) | as above, retry count, DSI handle | the same, retry on a timer | busy DSI, timers, handles used again, a call that fails, ends or is stopped at any time | DSStateMachine |
| Data services client (`ds_client`) | one handle, a WDS client | open, start, stop, close | fails in many steps, each of which holds something | DsClient |
| Message thread (`MsgTask`, `msg_q`) | list, mutex, condition, unblocked flag | send, receive, delete | wake-ups, deletion while others send | MsgTask |
| Linked list (`linked_list`) | head, tail, elements | add, remove, search, flush | unlinking from the middle and both ends | LinkedList |
| Synchronous requests (`loc_api_sync_req`) | slots | allocate, select, wait, process indication, free | early, late, lost and shared indications; time-outs | SyncReq |
| Network-initiated requests (`loc_eng_ni`, `LocApiV02`) | session, its thread, the raw request | request, respond, time out, reset | half of the session is accessed outside its lock; the answer repeats parts of the request | NiSession, NiMessages |
| Positioning session (`loc_eng`, `LocEngAdapter`, `LocApiV02`) | navigating, criteria, engine status, mute, pending deletions, event mask | start, stop, set mode, delete aiding data, status, position, SSR | the status of the engine lags by two queues; the modem reports only what it is asked to | LocEngSession |
| Initialisation (`loc.cpp`, `loc_eng`) | `loc_eng_data`, callbacks, server buffer | get the interface, init, AGPS init, set server, data availability, reinit, clean up | calls in any order, settings a restarted modem forgot, a clean-up with a start still queued | LocEngInit, Hal |
| Configuration and target (`loc_cfg`, `loc_target`) | `gps_conf`, `sap_conf`, `gTarget` | read the files, detect the target | two files over one table; a target that is asked for before it is known | Configuration, Hal |
| `LocApiBase`, adapters, contexts | adapter array, event masks | add, remove, open, report | adapters come and go while the callback thread reports | LocApi, Hal |
| QMI client (`loc_api_v02_client`) | callback data, masks, control point | open, register, close, indications, loss | the service comes and goes between any two calls; tables kept by hand | LocClient, MessageTables |
| Daemon connection (`loc_eng_dmn_conn*`) | thread helper, pipes | launch, read, answer | start-up hand-shake; full and misaligned pipes; several daemons and one connection | DmnConn |
| NMEA generation (`loc_eng_nmea`) | mask of used satellites | satellite report, position report | pages cut by counting some entries and walking all; a mask that outlives its report | NmeaSentences |
| XTRA (`loc_eng_xtra`, `LocApiV02`) | the file, counters | inject | counters narrower than the file | XtraInjection |
| Conversions of `LocApiV02` | event mask, certificates | requests, events, answers; deletion masks, NI forms | functions share a message, fields count only if marked valid, two constellations share one list | ModemRequests, ModemReports, LocationService, AidingDeletion, NiMessages, NmeaSentences |
| QMI tables (`location_service_v02.c`) | none | encode, decode | tables and structures are separate | MessageEncoding |
| Charge-only mode | alarms, screen, launch sequence | keys, alarms, charger messages | which alarms are set after any order of events | ChargeOnlyMode |
| Motion gestures (`nxactions`) | votes, registered listeners, time of the last pulse | screen on and off, call, alarm, gesture, preference | votes of several users for the same gesture; a service that ends | MotionGestures |
| `loc_timer` | one record per timer | start, stop | a stop that races the expiry | — |
| ULP and LBS proxies | none here | virtual calls | overridden by libraries that are not in the repository | LocEngSession, Hal (what they decline) |
| Camera wrapper | parameter strings | open, close, set and get parameters, vendor's calls | one array of strings for all cameras | CameraWrapper |
| Lights | three light states | backlight, notification, attention | writes fail; two lights share an LED | Lights |
| Logging, power, hardware settings | none | write a line or a file | — | — |
| Device configuration | none | — | build files, overlays, policies | — |

How they interact. The framework's calls check for an initialised instance and
post a message. One thread, MsgTask, processes messages in the order posted, and
is the only one to touch the state machines and the session. The modem's
callback thread turns indications into messages, and completes synchronous
requests directly: a caller, usually MsgTask, blocks until it does. A data
connection is asked for by a status callback to the framework and answered by a
later call. Each NI request has a thread that waits for the user. Timers have
threads that only post. A modem restart is reported on the callback thread as
*down* and *up* messages; *up* reopens the modem's client, drops subscribers and
starts an interrupted session again. Daemons ask for connections through named
pipes, read by a thread of its own. Charge-only mode is one thread, which fires
alarms and takes events; the gestures' handlers share the main thread of their
process.

What makes each component correct is stated by the properties in
[Runs](#runs); the hazards they were written for are in `PROJECT.json`, each at
its line.

## Modules

An abstract specification is named with the module that implements it. Every
module's header says who acts in it; `map` in `PROJECT.json` gives the lines of
each definition. Definitions such as `TurnedAwayNever` or `UnsubscribeKeepsCall`,
placed before the definition they vary, are the plausible errors used to see each
property fail (`mutants` in `PROJECT.json`); no action uses them.

**AgpsStateMachine** — one on-demand connection (NIF), for any set of clients
and any of the three types `loc_eng_agps_init` builds. `mState`, `mSubscribers`
and `mInactive` are the fields of `AgpsStateMachine`; `msgq` is the MsgTask
queue restricted to this NIF; `requests` are status callbacks the framework has
yet to act on; `nif` is the connection as the framework has it; `told` is what
each client last heard. Actions: `ClientRequest` and `ClientRelease` post;
`ProcRequest`, `ProcRelease`, `ProcAtlOpenSuccess`, `ProcAtlClosed`,
`ProcAtlOpenFailed` and `ProcUp` are a whole `proc()` each: the dispatch, the
state's `onRsrcEvent`, notifications, the deletion of subscribers and the request
that follows. The framework is an environment that takes requests in order,
opens, fails, closes, or loses the connection at any time. IDs identify
subscribers, as `Subscriber::equals` does; APN, bearer and addresses are left
out. It refines **OnDemandConnection**, which has no list and no queue: one
state, what each client was told, and the rule that a connection is held for
somebody who was granted it.

**DSStateMachine** — the emergency connection. The list is a sequence, newest
first, because a retry is made for the first active subscriber and the fall-back
to plain ATL goes through the list in order. `mRetries` and `timers` are the
retry counter and the delay timers running; `dsHandle` and `call` are
`LocApiV02::dsClientHandle` and the call behind it. `RequestSucceeds`,
`RequestBusy`, `RequestRefused` and `RequestFails` are the outcomes of
`DSStateMachine::sendRsrcRequest`. `StopDataCall` may be refused by DSI, which
is only logged: `call.unstopped` marks a call that runs on although the machine
is releasing it. DSI reports a connection by two events
(`DSI_EVT_NET_IS_CONN`, `DSI_EVT_WDS_CONNECTED`) and the callback posts a message
for each (`CallConnected`, `CallConnectedAgain`).

**DsClient** — how those four outcomes come about: `openAndStartDataCall` from
the search for the modem's WDS service through the list of profiles to the
handle of DSI, each call of a library a step that may fail. `notifier`, `wds`
and `dsi` are what is held, `left` what nobody holds any more.

**MsgTask**, refining **Mailbox** — `msg_q_snd`, `msg_q_rcv`, `msg_q_unblock`
and `loopMain`, one step per stretch of code between mutex operations; a
condition wait may wake for no reason. `accepted`, `processed`, `flushed` and
`refused` are histories.

**LinkedList**, refining **ItemList** — the pointers of `linked_list.c`; every
operation is one step, since lists are used by one thread at a time.

**SyncReq** — slots, callers that step through `loc_sync_send_req`, and the
callback thread, whose search through the slots is one step (the header says why
it may be). The payload of an indication is always copied: the branch that does not
copy it (`loc_api_sync_req.c:197`) is for an indication of unknown size or
without payload and for a caller without a buffer, but the client passes on only
indications whose size it found in the same table, in memory it has allocated
(`loc_api_v02_client.c:1406`), and every caller gives the address of a buffer.

**NiSession** — the variables of `loc_eng_ni_session_s` read and written in the
steps the code does them, locked or not, by MsgTask, the framework's thread, the
threads of the requests and the restart. **NiMessages** — what is told to the
framework of a request, and what is repeated to the modem with the answer.

**LocEngSession** — the session from framework to modem. `callback` holds the
messages the callback thread has decided on and not yet posted; `api` is the part
of `LocApiV02` and `LocApiBase` that matters (open or not, `mInSession`,
`mEngineOn`, the event mask the modem has, and `refused`, whether it refused the
last one: start, stop and the engine's *off* ignore the result of
`registerEventMask`, so that the old mask stays); `session` and `engine` are the
modem. `fw` and `owed` say what the framework wants, for the properties only. The
ULP proxy declines every call, as its base class does, and `CAPABILITIES` are
those under which positions come through MsgTask.

**LocEngInit** — `loc_init` and what the framework may call before, between and
after its parts. `modem` is what the modem knows in its present life; `initq` (in
the run) the queue of settings, `enabled` what `LocApiBase::enableData` was last
given. **LocApi** — the array `mLocAdapters`, written by one thread one slot at a
time and walked by another. The walk reads a slot twice, as the macros do
(`LocApiBase.h:47`): `WalkTest` for the test against `NULL`, `WalkRead` for the
call. If the slot was emptied in between, the call goes through a null pointer,
which is the end of the process (`walk.event = "fault"`). `api` is the modem's
client with the events it registered. **AidingDeletion** — the bits of
`GpsAidingData` to the lists and masks of one request.

**Hal** — `loc.cpp`, with what `loc_eng` makes of a call before it posts a
message. `passed` is what the last step handed on, so that the properties can say
what a call becomes; `conf`, `gTarget` and `phone` are the configuration, the
target and the phone they are read from, `user`, `late` and `unstopped` are
histories. It EXTENDS **Configuration**, which has no state: `loc_parameter_table`
and its defaults, `loc_read_conf`, and the target of a board.

**ModemRequests** — the functions of `LocApiV02` that set something in the modem,
`startFix` and the certificates. `modem` is what the modem keeps, `asked` the last
request of each function that took effect. **ModemReports** — the event mask, the
events, and the requests whose answer is read; `registered` is what the service
was asked for. Both build their messages from **LocationService** (which fields a
message has), send and read them by **MessageEncoding** (by which types QCCI does)
and, if **MessageTables** let them through, as the client's tables do. The three
tables are translated from three files and checked against each other by every
request and report.

**LocClient** — `loc_api_v02_client.c` with QCCI as its environment: `pc` is
where `locClientOpen` is, `data` the callback data of each attempt, `qmi` the
service and what it knows of the client. A second function, the wait for the
service, is part of the same module because its race with the notifier is the
hard part.

**DmnConn** — the thread helper's hand-shake, the pipe of requests and the
response pipes, the messages they become and the answers. `agnss` and `wifi` are
one OnDemandConnection each, by `INSTANCE`: that AgpsStateMachine implements it
is checked and proved, so the list of subscribers need not be repeated here.

**NmeaSentences** and **XtraInjection** — `loc_eng_nmea_generate_sv` and
`_pos` over lists of satellites; `setXtraData` with counters of the code's
widths as constants, so that small files wrap them.

**ChargeOnlyMode** — `main.c` with its callbacks; `alarms` counts what is set
for each callback, since `set_alarm` does not look whether it is set already.
Time is left out: an alarm that is set may fire at any later moment.

**MotionGestures** — `IrGestureManager`'s votes, the sensors, the silencers and
`DozePulseAction`; `hub` is the sensor hub behind `jni_NXActions.c`, which
outlives the service.

**CameraWrapper** — the wrapper's devices and its array of strings, with the
vendor's module as environment. **Lights** — `g_notification`, `g_battery`,
`g_lcd_brightness` and the two files in `/sys`, to which a write may fail.

`MC*.tla` declare model values and symmetry, `MC*.cfg` the instances (NiSession
needs no model values, and `MCNi*.cfg` are instances of it);
`*_proofs.tla` hold the proofs. An MC module may hold several components that do
not touch each other's state: `MCLocApi` (LocApi, LocEngInit, LocClient,
DmnConn), `MCSyncReq` (SyncReq, XtraInjection, AidingDeletion, NiMessages),
`MCChargeOnlyMode` (ChargeOnlyMode, MotionGestures, CameraWrapper, Lights),
`MCData` (NmeaSentences, ModemRequests, ModemReports, Hal), `MCDSStateMachine`
(DSStateMachine, DsClient) and `MCMsgTask` (MsgTask, LinkedList);
`MCAgpsStateMachine` holds two connections. A variable chosen in the initial
state and constant (`subject`, `part`, `shared`) says which of them the behaviour
is of. The others keep their initial values. Each component's properties are
stated for the behaviours that are its own, and are the ones of its module. What
the components that are brought in by `INSTANCE` assume of their constants is
assumed there, by name (`BringUpAssumption`, `CallAssumption`, `XtraAssumption`,
`DeletionAssumption`, `HandsetAssumption`, `ListAssumption`), so that TLC evaluates it
for the instances and the proofs use it for all others.

## Runs

State counts are distinct states. In all runs but `agps_nif` the bounds on
calls, handles that are used once, or deletion let the system stop, and deadlock
is not looked for.

| run | instance | what it shows |
|---|---|---|
| `agps_nif` | `agnss_nif`: 2 clients (1 in the modem); `wifi_nif`: 2 daemons; 3 messages and requests in flight, 1 restart; 217,796 | pending and acquired agree with what the framework owes and has (`PendingIsAwaited`, `AcquiredMeansConnected`); one WIFI subscriber at a time, and a client told it is granted is on the list of a machine that has the connection (`NifHolders`); nothing is asked for or held for nobody (`HeldForSomebody`); the state follows the connection unless requests overlap; every request and every awaited close is answered (`EveryWaitEnds`); refinement of `OnDemandConnection` |
| `ds_call` | DSStateMachine: 2 handles used again, every outcome of DSI, 2 messages in flight, 1 restart. DsClient: lists of up to 2 profiles, 2 calls. 621,090 | acquired means there is a call, and, calm, pending that one is being set up (`StateMatchesCall`); no call is left without an owner, and of one that DSI refused to stop the machine awaits the end (`CallHasOwner`); calm: every request is answered, by the call or by plain ATL; the first emergency profile with its own settings, four outcomes, nothing left behind if WDS is there (`CallOpened`) |
| `msg_task` | MsgTask: 2 senders and the loop, 6 messages. LinkedList: 3 elements, 2 data. 53,158 | no lost wake-up; once and in order; an accepted message is processed or the task is gone; refinement of `Mailbox`; the links of the list mirror each other and it is a sequence (`LinksMirror`, `ImplementsItems`) |
| `sync_req` | SyncReq: 3 callers, 2 indications, 2 slots, 3 requests. XtraInjection: parts of 2, counters of 3 bits, files of 0 to 15. AidingDeletion: every set of bits that matters, constellations of 3 and 2. NiMessages: every set of payloads. 252,089 | a slot has one owner and a free one is clean; no write into the buffer of a call that returned; every call returns; calm: each call returns its own answer; a file arrives whole and in order, a deletion and an NI answer mean what was meant (`SentAsMeant`) |
| `ni_restart` | 2 requests, 1 restart at any step; 68,001 | a session has a thread on watch; at most one answer, and each raw request freed once (before a restart) (`EndsOnce`); every session is cleared |
| `session_calm` | 4 calls, 2 modes, 1 position, 1 mute, 1 crash, registrations that may be refused, no other failure; 450,584 | once all is processed, the modem runs the session that is wanted, in its mode (before a crash); an interrupted session is started again; no mute outlives the engine |
| `session_fail` | 4 calls, periodic and single sessions, all outcomes of starts, stops, reopening and registrations, 1 crash; 1,025,857 | what the framework sees is right, and so are the registered events and idleness until the modem refuses a registration (`SessionInv`, `EventsRegistered`) |
| `bring_up` | LocApi: 3 adapters, 2 slots, 2 walks. LocEngInit: 2 servers, 4 calls, 2 restarts. LocClient: 1 retry, 2 attempts, 2 lives of the service. DmnConn: 2 daemons and GPSONE, 5 records, pipes of 1, 1 restart. 2,123,845 | the array has no holes and an open client asks for every event of every adapter (`AdaptersServed`); no event passes an adapter over, or is called through an emptied slot, unless one leaves; every setting that `LocApiV02` takes is in the modem's present life; the QMI client never sleeps on a service that is there, its masks agree with the modem's, it hears of a loss or is marked deaf, and leaves nothing (`ClientInv`); the launch is a hand-shake, no daemon reads an answer it did not ask for, and once all is read each, in a calm behaviour, knows what it has, GPSONE until the modem restarts (`DaemonsServed`) |
| `data` | NmeaSentences: 3 reports of up to 5 satellites, 4 of which count, pages of 2. ModemRequests: 2 calls, or an installation in 3 slots and a call. ModemReports: each field valid, missing or alone. Hal: 17 phones, 2 users, 4 calls on one phone and 2 on the others. 190,182 | each satellite once, in order, and a used one claimed once (`SentencesTrue`). `MeaningKept`: the modem keeps what was asked of it last, in messages that can be sent and answered; what is reported is what was marked valid, to those who asked; the configuration is that of the files and the target, and reports and sessions end with their user |
| `charge_only` | ChargeOnlyMode: a sequence of 3 keys, 2 waiting messages, reboots that fail. MotionGestures: 1 screen change on its way, 3 votes. CameraWrapper: 2 cameras. Lights: 5 colours. 482,957 | the alarms agree with screen and keys; an unplugged device ends unless a message was missed, and one nobody touches goes dark (`ShutsDown`); votes are counted, the hub agrees with them, nothing listens without a reason, pulses keep apart, the vendor's camera has the parameters that were asked for and each string is freed once, screen and LED show what was asked for last (`HandsetServed`) |

The runs that find a violation are under [Where the code and its text
disagree](#where-the-code-and-its-text-disagree).

Bounds and why they suffice. `MaxInFlight` bounds messages and unanswered requests
together; with 3, two of a request, a release, a second request and a modem
restart overlap an answer of the framework, which is every pair of stages a
request can be in. Two clients are enough for "the last one leaves" and "another
one stays", and two emergency handles for an order of the list and a handle used
again. The message task needs one message in each place (sender, list, loop) and a
wake-up while another sender is between adding and signalling; six messages pass
each place more than twice. Three list elements give head, tail and one in the
middle. Two slots give a search that passes one and takes the next; the third
caller finds none. NI races need the end of one session and the start of the next.
Sessions need start, stop, start, and a change of mode or a deletion between.
Three adapters in two slots give one that leaves before another and one that finds
no room. A client needs an attempt that is repeated and a service that comes back.
Pipes of one answer are full when two are due. Files stand on both sides of a full
part, of the last part number and of the width of the byte counter. Five
satellites are one more than count, over two pages and a half. A key sequence
needs a first, a middle and a last key. Two profiles show whether one's settings
reach the next. The phones differ from one in board, files, libraries or a
property; four calls give an initialisation, a start, a clean-up and an
initialisation by another.

`DSStateMachine`, `SyncReq`, `LocApi`, `LocClient`, `DmnConn`, `DsClient` and
`MotionGestures` have a variable `calm`, chosen in the initial state and constant.
In a calm behaviour the environment is kind: DSI starts every call, and stops it
when it is asked to, and handles are fresh; no two callers wait for the same
indication and nothing is late, lost or woken for nothing; no adapter leaves
during a walk; QCCI fails only when the service goes, and waits for its callbacks;
pipes open, no record is cut short, and no wait of the launch ends for nothing;
WDS comes in time and refuses nothing; sensors refuse nothing for no reason. Both
kinds are explored in one run. A property says `calm` where the code does not keep
it otherwise, and the next section says how it then fails. In the same way
`SessionIsWanted` speaks of the time before a crash, `EventsRegistered` and
`IdleWhenUnused` of a mask that was not refused, `EndsOnce`, as far as freeing
goes, of the time before a restart, and the history variables `missed`, `failed`,
`deaf`, `late`, `unstopped` and `together` name the situations in which a promise
is not kept.

## Fairness

- A thread that can take a step in the middle of a function takes it (MsgTask's
  loop, senders, callers of synchronous requests, NI threads): threads are
  scheduled, and no step waits for a lock another holds for ever.
- MsgTask processes its queue: `loopMain` has no other exit than deletion.
- A wait with a time limit ends (`Expire`): `pthread_cond_timedwait`.
- The framework acts on a status callback, by opening, failing or closing, and
  DSI reports the outcome of a call it accepted. This is what the interface asks
  of them (`hardware/gps.h`, `ds_client.h`), not something the code enforces; it
  is used only by `RequestAnswered` and `EveryWaitEnds`.
- The modem turns its engine on for a session and off without one.
- Charge-only mode goes round its loop: an alarm that stays set fires and a key
  that waits is taken. Messages of the charger are strongly fair, since a key may
  be looked at first: the loop is faster than fingers.

Where a run holds several components, the fairness is that of one of them
(DSStateMachine, MsgTask, SyncReq, ChargeOnlyMode), for its liveness property. In
`CallSpec` and `RequestsSpec` it asks nothing of the other parts, in which that
component is idle. `QueueSpec` and `HandsetSpec` leave behaviours of MsgTask and of
ChargeOnlyMode only, because these would be owed their first step; TLC looks at
invariants and steps in every reachable state all the same, and what is proved of
the other parts is proved from `QueueSafety` and `HandsetSafety`, the same
specifications without fairness.

Nothing obliges a client to ask or release, the modem to report, a user to
answer, a modem to restart, a lost connection to be lost, or anybody to plug,
press or wave.

## Where the code and its text disagree

Each of these runs checks one property, which TLC finds violated; `findings` in
`PROJECT.json` quotes the text.

| run | what the code does |
|---|---|
| `ni_stale` | A response is checked before the lock: one for the session that just ended answers the next. |
| `session_mode` | After a restart the session is started again in standalone mode. |

Three more properties are stated in their modules and broken by the code, so no
passing run holds them: `DeletesWhenOff` (LocEngSession), aiding data is deleted
while the engine is on, because its status is still queued (`loc_eng.cpp:192`
against `loc_eng.h:110`); `BufferedServerReachesModem` (LocEngInit), a server
named before `loc_eng_init` is kept in a buffer that `loc_eng_init` clears
(`loc_eng.cpp:1500` against the comment at 2333); `ChunksInPlace`
(XtraInjection), after a part the modem refuses, the parts that follow are
numbered as if it had been taken.

The models have further behaviour that differs from what the code's comments
lead one to expect. Properties were written around it (the guards below), and it
has no run of its own.

| where | what the code does | stated around it by |
|---|---|---|
| `loc_eng_agps.cpp:750` | A client that asks, leaves and asks again gets the answer to its first request; the close that follows is ignored or taken for a loss, and state and connection differ for good. | `TracksNifUnlessOverlapping` |
| `loc_eng_agps.cpp:274` | The released state adds the subscriber, the data call cannot be asked for, the state stays released: its list is not empty, although line 288 says it should be. | `StateMatchesCall` (calm) |
| `loc_eng_agps.cpp:561` | The releasing state becomes pending whatever the request returned; if the retry timer does not start, nothing is on its way. | `StateMatchesCall` (calm) |
| `loc_eng_agps.cpp:526` | A handle used again while its inactive predecessor is on the list is not added. | `RequestAnswered` (calm) |
| `loc_eng_agps.cpp:882` | When a call is not started, for the newest active subscriber alone is plain ATL asked for; whoever else is on the list hears nothing. The retry of line 842 is made for the newest as well. | `RequestAnswered` (calm) |
| `LocApiV02.cpp:2597` | That DSI refuses to stop a call (`ds_client.c:693`) is only logged. The machine waits in Releasing for the end of a call that nobody asks to end any more, and a request that comes meanwhile waits with it. | `CallHasOwner` (`unstopped`), `RequestAnswered` (calm) |
| `loc_api_sync_req.c:188` | Indications are matched by ID only: two callers swap answers, or a late answer ends the next request. | `AnswerIsOwn` (calm) |
| `loc_api_sync_req.c:500` | With no free slot nothing is sent, and the call returns success. | `AnswerIsOwn` (calls with a slot) |
| `loc_api_sync_req.c:453` | The condition wait is not in a loop: a spurious wake-up is a success without an answer. | `AnswerIsOwn` (calm) |
| `loc_eng_ni.cpp:242` | ID and time left are reset after the session was given up: the next request gets an ID that is never valid, or no time at all. | — |
| `loc_eng_ni.cpp:266` | The restart frees the raw request without the lock, while its thread has taken it. | `EndsOnce` (before a restart) |
| `loc_eng.cpp:1246` | A second deletion request replaces the pending bits instead of adding to them. | — |
| `LocApiV02.cpp:328`, 464, 2079 | Whether the modem took an event mask is not looked at when a session starts, stops or the engine goes off. If it did not, a session runs without its events, so that no position comes, or events of a session that is over stay registered, until the next registration is taken. | `EventsRegistered`, `SessionInv` (`refused`) |
| `LocApiV02.cpp:463` | A stop processed before the engine's *on* drops the engine events: the *off* is never heard and deletions wait for ever. | `SessionInv` |
| `loc_eng.cpp:752` | A position of an earlier session ends a single session on the host only; it goes on in the modem. | `SessionIsWanted` (periodic) |
| `LocApiV02.cpp:432` | If the operation mode is refused, the start request is not sent and success is returned. | `SessionIsWanted` (no refusals) |
| `LocApiV02.cpp:340` | A start processed between the modem's crash and its reopening fails on the stale handle and is not repeated. | `RestartsAfterCrash` |
| `loc_eng_agps.cpp:885` | `loc_timer_start` returns the record it has freed when the thread cannot be created (`loc_timer.c:165`): the retry counts as set and never comes. | `RequestAnswered` (calm) |
| `LocApiBase.cpp:347` | `enableData`, `setAPN` and `setSensorControlConfig(int)` reach `LocApiBase`'s defaults, which succeed and do nothing: `LocApiV02` has none of the first two, and of the third one with another parameter (`LocApiV02.h:167`). The modem learns neither the state of data calls nor the use of sensors, although `LocApiBase.h:121` has adapters define them. | `SettingsReachModem` (`Overridden`) |
| `loc_eng.cpp:1500` | A server named after initialisation is not sent again when the modem restarts, unless it comes from `gps.conf`. | `SettingsReachModem` (the settings that are sent again) |
| `loc_eng.cpp:752` | A single-shot fix in standalone mode is labelled as differential; of a GLONASS-only fix no satellite is listed as used; the RMC sentence is always valid. | `SentencesTrue` (periodic sessions) |
| `loc_eng_nmea.cpp:791` | The mask of used satellites is cleared by a GSA sentence only; one that is not written leaves it for the next fix. | `SentencesTrue` (the last report that used any) |
| `LocApiV02.cpp:1109` | `part` and `len_injected` wrap: a file of 255 parts is sent for ever, one of 65,536 bytes from the start again. | `SentAsMeant` (shorter files) |
| `LocApiV02.cpp:654` | `GPS_DELETE_SVSTEER` and its like are not translated at all; what the modem answers to a deletion, an injection or an NI response is not looked at. | `SentAsMeant` (the other bits) |
| `LocApiV02.cpp:2174` | An NI request with none of the three known payloads is told to nobody, and not answered; a time-out answers "no response", never the default of the request. | `SentAsMeant` (known payloads) |
| `LocApiBase.cpp:143` | An adapter that leaves during a walk moves the last one into its place, which the walk may have passed or meets twice; if it was the last, the slot may be emptied between the test of its pointer and the call through it (`LocApiBase.h:47`), which ends the process. A full array leaves an adapter out silently; masks only grow. | `DeliveredWhenCalm`, `AdaptersServed` |
| `loc_api_v02_client.c:2191` | A loss of the service before the callbacks are filled in is told to nobody. | `ClientInv` (`deaf`) |
| `loc_api_v02_client.c:2028` | A callback may run after the client was closed, although the comment says it is avoided; a control point whose error callback could not be registered, or whose release is refused, is left behind; `notifier` is read uninitialised when its initialisation failed. | `ClientInv` (`late`) |
| `loc_api_v02_client.c` | Six answers of the size table (low power mode, NMEA types, operation mode, SBAS, server, XTRA-T) are unknown to `locClientHandleIndication`, so a request for them times out; the request for the server is sent without its payload. | `ClientInv` (`Unknown`), `MeaningKept` |
| `LocApiV02.cpp` (`convertMask`) | Ten events are tested by the number of their bit instead of the bit: masks that share a bit with the number register them too, and `eventCb` drops them. `FIX_SESSION_STATE` is handled and never registered. One name it uses (batched breaches) is not defined anywhere. | `MeaningKept` (events that adapters can ask for) |
| `LocApiV02.cpp` (setters) | They return success when the modem refuses, since only the transport's status is looked at. | `MeaningKept` (requests that took effect) |
| `LocApiV02.cpp` (`installAGpsCert`) | An empty certificate ends the installation: those after it are not sent. | `MeaningKept` (up to it) |
| `LocApiV02.cpp` (`reportPosition`) | The technology mask and the list of servers are read without their flags: what a buffer held before is told. | `MeaningKept` (the other fields) |
| `LocApiV02.cpp` (`getBestAvailableZppFix`) | It returns success without a position if the modem refuses, and `loc_eng_get_zpp_handler` reports a failed fix too; `getWwanZppFix` accepts a fix of GNSS and cells although its log says GNSS is not allowed. | `MeaningKept` |
| `loc_cfg.cpp:236` | Each file clears all flags before it is read: random walks given in `gps.conf` lose theirs if there is a `sap.conf`, and are not sent to the modem. A hex text gives a parameter of type double 0, and `X=` reads as 0. | `MeaningKept` (`FlaggedBy`) |
| `loc_target.cpp:193` | On a board of Qualcomm's without `/dev/mdm` no target is set: each call detects anew and may find another. `GNSS_AUTO`, which `loc_api_v02_client.c:2275` names, is not defined. | `MeaningKept` (a target that was found) |
| `loc.cpp:280` | `mCPIEnabled` is set if the LBS library does *not* know coarse positions, and they are injected only if it is *not* set. | `MeaningKept` |
| `loc.cpp:277` | A second `loc_init` tells no capabilities and leaves the callbacks for status and NMEA with the first user. | `MeaningKept` (positions and satellites) |
| `loc_eng.cpp:1635` | The clean-up looks for a session before a queued start is processed: the session outlives it. | `MeaningKept` (`unstopped`) |
| `loc.cpp:892` | The callback is tested and called without a lock: a report may reach a user that has gone, or nobody at all. | `MeaningKept` (`late`) |
| `CameraWrapper.cpp:494` | Every open replaces the one array of strings, and every close frees all of them and leaves the pointers: with two cameras strings are lost, or freed twice. A refused open does it too. `cameraid > num_cameras` lets one ID too many pass. | `HandsetServed` (`together`) |
| `lights.c:92` | A brightness that could not be written is not written again. No caller can set the battery's light (`open_lights` does not know it), and `g_attention` is never read. | `HandsetServed` (`lcdFailed`) |
| `loc_eng_dmn_conn_glue_msg.c:163` | A read that is interrupted between the two parts of a record misaligns the pipe for good; a full response pipe blocks MsgTask. | `DaemonsServed` (calm) |
| `loc_eng_dmn_conn_thread_helper.c` | The launch returns on a spurious wake-up, before the pipes exist. | `DaemonsServed` |
| `loc_eng.cpp:2522` | The GPSONE daemon is not told that a modem restart took its connection; its release is then not answered. | `DaemonsServed` (`engineUps`) |
| `ds_client.c:174` | The notifier is released only after the client was made, and the client only after the profiles were read: every failure before that leaves them. | `CallOpened` (calm) |
| `ds_client.c:639` | A client that cannot be released makes the call fail although its handle was taken, and kept. | `CallOpened` |
| `LocApiV02.cpp:2558` | With DSI busy a session without a handle is kept, and replaced by the next attempt without being freed. | `CallOpened` |
| `events.c:178` | All waiting messages of the kernel are read into one buffer and the last is looked at: an unplugged charger may be overlooked, although "When the charger is unplugged the device shall shutdown at once" (`main.c:175`); a message from before the loop is thrown away. | `ShutsDown` (`missed`) |
| `main.c:184` | The place in the key sequence is not reset at its end, and the key after it is compared with what lies behind the array; a reboot that fails leaves a lit screen without alarms. | `AlarmsMatchScreen` (`failed`) |
| `IrGestureManager.java:78` | `mGestures` is set before the hub is: a hub that refuses is not asked again until the votes change. | `HandsetServed` (calm) |
| `CMActionsService.java:54` | The screen's receiver is registered before the screen is looked at: its change may be handled twice, and a listener that is registered twice may be refused, which ends the process. A second alarm before the first ended does the same. | `HandsetServed` (`Throw`) |

Seen while reading, and not in any model: `mAgpsEnabled` is set after the
initialisation that reads it (`loc.cpp:279`); two threads may build
`LocDualContext` twice; `sendMsg` ignores a refused message (`MsgTask.cpp:90`);
a timer that is stopped while its thread frees it (`loc_timer.c:175`, which
nothing calls); `pthread_create` fails and the NI session stays busy
(`loc_eng_ni.cpp:163`); charge-only mode never updates its LEDs.

## Proofs

TLC checks the instances above; the theorems hold for every value of the
constants that meets the modules' named assumptions (types of NIF, bounds that
are natural numbers, the loop not being one of the senders, and so on). No
assumption is made on the size of the sets of clients, senders or modes.

**AgpsStateMachine_proofs.** `TypeCorrect` is proved action by action.
`ReleasedIsEmpty` and `SingleSubscriberCorrect` rest on

    ListInv == TypeOK /\ ReleasedHasNoSubscribers /\ Alone /\ InactiveIsReleasing

since that a released machine is empty is kept by `Unsubscribe` only if the
subscribers that are left when none is active are those a releasing machine
waits for. `PendingIsAnswered` and `AcquiredIsConnected` rest on

    AnswerInv == ListInv /\ OpenStands /\ PendingIsAwaited /\ AcquiredMeansConnected

neither half of which is inductive without the other: an acquired machine's
connection is up because the success it processed still stands, which it does
because no release was sent while the machine was pending. `OpenStands` says
that of the messages on their way. `Implementation` proves that every step of
the machine is a step of `OnDemandConnection`, or none, under
`ClientStatus`; its liveness is not part of the abstract specification.

`SharedByAll`: clients that hold the connection hold the same one, and none waits
for what another has. DmnConn uses OnDemandConnection on the strength of
`Implementation`.

`TracksConnection` needs what is on its way in each state, not only when nothing
is:

    TrackInv == AnswerInv /\ ReleasingIsLeft /\ OneRequest /\ GivenUp

While somebody has or awaits the connection, at most the request for it is on its
way and a connection that is reported closed is down (`OneRequest`); once it is
given up, its release is the last thing sent or it is down (`GivenUp`). Both hold
until a request is sent before the one before it was settled, which `overlap`
records. `GrantsAreBelieved` strengthens `GrantBelief` by the one state in which
a client that was granted the connection is on the list of a machine that no
longer has it: it left, and waits for the close (`BeliefInv`). `HeldIsWanted`
adds to `ListInv` that the news of a modem restart is in the queue only after
one (`HeldInv`).

`NifHoldersCorrect` is about the composition of `agnss_nif` and `wifi_nif`: the
first keeps `BeliefInv`, the second the list of one subscriber.

**DSStateMachine_proofs.** `StateTrue` and `CallOwned`, for any handles, bounds
and any of the outcomes of a start:

    Inv == TypeOK /\ Ordered(msgq) /\ Phase /\ HandleKept /\ Waiters

What the machine says of its call is true up to the reports of DSI it has not
read. `Phase` lists, for each state, how far they may lag; `Ordered` says that the
reports in the queue are of one call, up before ended; `HandleKept` that the
handle is replaced only when nothing is owed to it any more. While the machine is
releasing, its call is being stopped, its end is in the queue, or DSI refused to
stop it (`RunsOn`). A call that DSI did not start fits no state (`Starved`), which
is why `StateMatchesCall` says `calm` of a pending machine. `Waiters` gives each
call its owner.

`CallIsOpened` is about DsClient, for any lists of profiles, any wait for WDS and
any number of calls. Its invariant adds to the three parts of `CallInv` that the
search has passed no profile for emergency calls and left no settings of one it
passed (`ClientSearch`), that each call leaves one notifier and one client behind
at most (`ClientLefts`), and that the handle is what it was until DSI is asked
for one (`ClientHandles`). `CallRunsMachine` takes what is proved of
DSStateMachine into the composition.

**MsgTask_proofs.** `IInv` joins typing, mutual exclusion, what each thread has
in hand at each step, and what the loop has seen. `WakeupCorrect`: the loop
sleeps only while the queue is empty or a sender has yet to signal.
`OrderCorrect`: what was accepted is what was processed, is in hand, is queued or
was flushed, in this order. `EndCorrect` and `Implementation` follow.

The list that the queue is made of has an invariant with a quantifier in front:

    LinksInv == LinkFields /\ \E s \in Seq(Elements) : Chain(s)

There is a sequence, without repetitions, of exactly the allocated elements, whose
neighbours are each other's `next` and `prev` and whose ends are head and tail. Each
operation is shown to leave one: additions at either end, removals from the
middle and both ends, a search that removes. That the walk of the model follows
the chain is a property of a recursive function, for which the provers have no
induction; it is proved by the least index at which the two would differ, with
the library's well-foundedness of the natural numbers. `ListMirrors` then says
that a walk from the tail meets what one from the head meets, and nothing that is
freed, and `ListImplements` that each operation is that of `ItemList` on the
items along the chain. `ListAssumption`: memory is finite and `NULL` no element.

**LocEngSession_proofs.** `SessionCorrect`, for every set of modes, outcomes and
bounds: `SessionInv == TypeOK /\ Navigates /\ IdleWhenUnused` is inductive. The
framework has been told of every session that navigates, and `LocApiV02` that is
not in a session and has not heard of an engine keeps no session events, unless
the modem refused the smaller mask. No assumption is made on which registrations
it refuses: `refused` tells of the last one only, so that each registration that
is taken sets the mask right again.

The other invariants are about the order of messages in the two queues, that of
MsgTask and that of the modem's callbacks; `Appended`, `Shortened` and
`Concatenated` say how a step changes a statement on all messages before or after
a given one.

    MuteInv    == TypeOK /\ MutedWhileOn /\ BeginsWhenOn
    RestartInv == SessionInv /\ EventsRegistered /\ LossesReturn
    CalmInv    == NothingFails /\ TypeOK /\ (crashes = 0 => WishInv)

`MuteCorrect`: a session that begins does so with the engine on, as the statuses
before it in the queue will have said by then (`BeginsWhenOn`). `EventsCorrect`:
whenever a message that loses the registered events is in a queue, the one that
returns them is behind it (`LossesReturn`), so that once no restart is under way
nothing is lost but what the modem refused. `WishCorrect` is proved under
`NothingFails`, which says of the constants what the run `session_calm` gives
them: starts and stops are accepted and sessions are periodic. The list of what
the code does otherwise says why it is needed. Before a crash, what the queue
still holds turns the adapter's session and criteria into those of the framework
(`NavigatesAtEnd`, `SetAtEnd`), and the modem's session is that of the adapter.

**ChargeOnlyMode_proofs.** `AlarmsCorrect`, for every launch sequence and any
number of waiting messages. The invariant is

    Inv == TypeOK /\ pressed \in BOOLEAN /\ ScreenHasAlarms /\ KeyHasAlarm /\ EndsInOrder

Each key and each alarm cancels and sets alarms by what is set, so that the
alarms of the screen are kept only together with its brightness, the alarm of
the power key only together with the key.

`HandsetIsServed` is about the three programs beside it. For gestures, with any
delay between pulses,

    MotionIInv == Motion!TypeOK /\ MotionVoting /\ MotionHubInv /\ MotionResting
                                /\ MotionTold /\ MotionSilencing /\ MotionPulsing

The counts are the votes that those who listen cast last (`MotionVoting`), and in a
calm behaviour the hub does what the counts say (`MotionHubInv`). That nothing
which is for the dark listens with the screen on needs the broadcasts on their
way: the last says what the screen is (`MotionTold`). That pulses keep apart needs
to know that whoever may ask for one began to listen after the time the code
compares with, or after the last pulse (`MotionPulsing`).

For the cameras, any number of them: while one is opened at a time, live strings
are those of open cameras and none that is used was freed (`CamStrings`). For the
lights, any colours: no caller lights the battery, so that the LED is the
notification's (`LightIInv`), and a brightness made of three bytes is one.

**SyncReq_proofs.** `SlotsCorrect` and `NoLateWriteCorrect`, for any number of
callers, slots and requests, from

    Inv == SlotsOwned /\ CallsKnown

`SlotsOwned` alone does not say whose answer a slot takes: `CallsKnown` adds that
a call outside has no slot and that what a slot waits for is what its caller
asked for. Then the caller that `loc_sync_process_ind` finds in a matching slot
is in its call. That a free slot is found (`FirstFreeIsFree`) is the library's
well-foundedness of the natural numbers. `AnswersAreOwn` rests on

    CalmInv == calm => CallsDistinct /\ AnswersAwaited /\ AnsweredWell

In a calm behaviour no two calls share an indication, each answer under way is
awaited by one call that has not been answered, and who has been answered has its
own in its buffer, even one that came before the call went to sleep.

`SentAsItWasMeant` is about what such calls send. The file: `len_injected` is at most
the length; of a file whose parts can be numbered, `part` is one more than the
parts sent; and while none is refused and the byte counter can hold the length, each
part begins where the one before it ended (`XtraIInv`). It
assumes of the widths what the code's have, that the parts of the longest file
the byte counter can hold can be numbered (`XtraAssumption`; 2^16 <= 1024 * 254).
The deletion, for constellations of any size: the names of the bits are apart, so
that a request has as many satellites of a constellation as the bits for it ask
for, and GPS and GLONASS, one behind the other in one list, do not cover each
other (`DeletedTogether`). The NI answer: what was told of a request is kept with
it (`NiIInv`).
`RequestsRunCalls` takes the theorems about slots into the composition.

**MCLocApi_proofs** has a part for each of four components. The first is LocApi:
`TypeCorrect`, `AdaptersAreServed` and `CalmDelivery`, for any adapters, events,
masks and sizes of the array, from

    Inv == ListInv /\ MaskInv /\ WalkInv

`ListInv` has the shape of the array in the middle of a removal too: a hole that
the last adapter will fill, then a last slot that is to be cut. `MaskInv` says of
a client that is not open yet that what its adapters want will be asked for by a
message in the queue. `WalkInv`: while nobody leaves, whoever a walk has still to
call is at or behind the slot it has come to, and a slot whose pointer was tested
still has it, so that no call goes through a null pointer. That the mask of the
array is the union of those in it (`getEvtMask`) is used only as that union.

The second is LocClient: `ClientServed`, for any events and masks, any number of
retries, attempts and lives of the service. The masks wanted are sets of events,
`"error"` and `"none"` are no indications, and the bounds are numbers
(`BringUpAssumption`). The invariant, the conjuncts named `Client...` in the
module, is

    ClientIInv == TypeOK /\ WaitsForNothing /\ HandleFits /\ Fresh /\ MasksFit
                         /\ LossTold /\ CallFits /\ Left

`HandleFits` says where in an open `LocApiV02` has a handle, and that what it has
a handle of has an error callback. `LossTold` extends `LossIsTold` to the moment
before the callbacks are filled in, because a loss reported then is what marks a
client deaf. `CallFits` keeps an error that is being told from being dropped:
the callback was filled in when it began, and is cleared only with the data.
`Left` adds that a call under way keeps its control point, which is what makes
no callback late while QCCI waits for its callbacks.

The third is LocEngInit: `SettingsReach`, for any servers, calls and restarts:

    EngIInv == TypeOK /\ EngSendingFits /\ EngClientComing /\ EngSettingsComing
                      /\ EngEnableComing

with a typed queue. While the modem is up, the client is open or a message will
open it (`EngClientComing`), and every setting the modem lacks in its present life
is sent by a message behind that one (`EngSettingsComing`): the order of the two
is what a restart between any two calls could break. For the state of data calls
the last message that tells it tells the last value the framework gave, unless an
update bypassed it (`EngEnableComing`).

The fourth is DmnConn: `DaemonsAreServed`, for any number of daemons, sizes of the
pipe and modem restarts. `DmnTales` says, for each of the four things a daemon may
believe (nothing, asked, has, releasing), which of its records are on their way,
what the connection's state is for it and which answer waits in its pipe;
`DmnSureTales` the same where nothing can be lost. On the way a daemon has at most
one release and one request, in this order (`DmnOnce`, `DmnInOrder`). One WIFI
daemon at a time has the connection (`DmnOneWifi`), and the hand-shake of the
launch is in step with the loop that answers need (`DmnLaunching`, `DmnLooping`).

A step of the composition is a step of one of them and leaves the others alone
(`BringUpKept`).

**NiSession_proofs.** `SessionWatched` and `EndsOnceCorrect`, for any replies,
requests and restarts:

    NiInv   == Typed /\ Watched /\ Alone /\ AnsweredOnce
    FreeInv == NiInv /\ Replied /\ (downs = 0 => OwnSessions)

`Typed` counts the threads that are past their session, which bounds the IDs.
`Alone` is `tLock`: while a thread takes the request in session no other is about
to clear one that it has answered, so that no request is answered twice even
when a thread, after a restart, ends another's session. Without a restart each
thread ends its own (`OwnSessions`), and each request is with exactly one of
session, thread, queue and modem, unless it was to be ignored.

Only model-checked. `SentencesTrue` (NmeaSentences) is about sequences that are
filtered, cut into pages and joined again, with page starts computed by
recursion, and `MeaningKept` (ModemRequests, ModemReports, Hal) about values that
folds over messages, tables and files produce: what a fold or a recursive
definition yields for every input is an induction over data, which the provers
cannot do here. Liveness under fairness (`EveryWaitEnds`, `RequestAnswered`,
`SentIsProcessed`, `CallReturns`, `StatusCleared`, `RestartsAfterCrash`,
`ShutsDown`) and `ENABLED` are beyond them as well. Conversely `ReleasedIsEmpty`,
`SharedByAll` and `EndCorrect` are proved and no run checks them by themselves.

## Not modelled

- `location_service_v02.h` and `.c`, 18,500 of the 48,000 lines of the
  implementation, are generated. The messages that `LocApiV02` sends and reads
  are in LocationService and MessageEncoding; the others (geofences, batching,
  WLAN, sensors, vehicles) have no user in the repository. The encoding of each
  type is QCCI's. `loc_api_v02_client.h`, the other headers, `loc_api_v02_log.c`,
  `loc_log.cpp`, `loc_core_log.cpp` and the `log()` functions of messages are
  declarations and names for output; the images under
  `src/charge_only_mode/assets` are data.
- The sizes in the tables of `loc_api_v02_client.c`: that of one indication is
  its request's (`SET_PREMIUM_SERVICES_CONFIG`), which nobody sends.
- `LocApiV02`'s guards against parameters that no caller can give
  (`LocApiV02.cpp:990`, 1254, 1630). Three of its functions are modelled without
  a caller in `src`: `installAGpsCert`, `setXtraVersionCheck`, `getWwanZppFix`.
  The file was written for a later `libloc_core` than the one beside it (a base
  constructor of three parameters, `LOC_GPS_LOCK_MASK`); the models take its
  meaning.
- APN names, bearers, addresses, SSIDs: passed through. The search of a release
  through three NIFs is not composed, each NIF is on its own.
- `msg_q_flush`, which nothing calls; `malloc` failures, except where the code's
  behaviour under them is a branch of the model (timers, DSI start).
- NI thread creation always succeeds; its failure leaves the session busy.
- Positions, DOP, times and coordinates as numbers: ModemRequests and
  ModemReports keep which field goes where. The logger with its two parameters,
  which are bytes written through an `int *`; parameters of type string, which
  no table has.
- `loc_timer`: a timer that fires, early, late or never, is in DSStateMachine;
  `loc_timer_stop` has no caller.
- ULP and LBS proxies decline every call here; who overrides them is not in the
  repository.
- Libraries outside the repository: QCCI, DSI, the kernel, the sensor manager,
  the framework, as environments with the outcomes the code handles.
- Failed allocations of the camera wrapper (one leaves the vendor's device open).
- Power (one string per hint), hardware settings (read and write a file).
- Build files, overlays, init scripts, policies: nothing to model.

## Plan

Done, in this order: AgpsStateMachine with OnDemandConnection and proofs;
DSStateMachine; MsgTask with Mailbox and proofs; LinkedList with ItemList;
SyncReq and proofs; NiSession and proofs; LocEngSession and proofs; LocApi and
its proofs; LocEngInit; XtraInjection, NmeaSentences, AidingDeletion and
NiMessages; ChargeOnlyMode and its proof; LocClient and its proof; DmnConn over
OnDemandConnection; DsClient; MotionGestures; LocationService, MessageEncoding and
MessageTables under ModemRequests and ModemReports; Configuration and Hal;
CameraWrapper and Lights. Then the proofs of DSStateMachine, LocEngInit, DmnConn,
MotionGestures, XtraInjection, DsClient, LinkedList, AidingDeletion, NiMessages,
CameraWrapper and Lights.

Left:

| what | why |
|---|---|
| the three NIFs with their ATL handles composed | each release is answered once, from the NIF that holds it |
| LocClient under LocApi, SyncReq under LocEngSession | a loss of the service at each step of a session |
| `loc_timer` | a stop that races the expiry, once something calls it |

Theorems next: of `MeaningKept`, that a message `LocApiV02` sends passes the three
tables (a finite fact for each message, without folds), and that reports end with
their user (Hal); of `SentencesTrue`, that pages do not overlap. The composition of
the three NIFs would need `TrackInv` for each of them at once.
