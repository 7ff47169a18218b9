------------------------ MODULE LocEngSession_proofs ------------------------
(* Theorems about LocEngSession, for every value of its constants.          *)
EXTENDS LocEngSession, SequenceTheorems, TLAPS

(* What a message carries, by its kind. *)
LEMMA Arguments ==
    ASSUME NEW m \in Messages
    PROVE  /\ m.kind = "PositionMode" => m.arg \in Criteria
           /\ m.kind = "DelAidData" => m.arg \subseteq AidingBits
           /\ m.kind = "Position" => m.arg \in Reports
           /\ m.kind = "Status" => m.arg \in Statuses
           /\ m.kind = "UpdateEngineState" => m.arg \in BOOLEAN
BY DEF Messages

(* Taking a message leaves the queue typed, and gives a typed message. *)
LEMMA TakeType ==
    ASSUME TypeOK, NEW kind, Take(kind)
    PROVE  /\ Head(msgq) \in Messages
           /\ Head(msgq).kind = kind
           /\ msgq' \in Seq(Messages) /\ callback' \in Seq(Messages)
           /\ fw' = fw /\ calls' = calls /\ engine' = engine
           /\ reports' = reports /\ mutes' = mutes /\ crashes' = crashes
BY HeadTailProperties DEF TypeOK, Take

(* A framework's call posts a typed message and touches no other state. *)
LEMMA CallType ==
    ASSUME TypeOK, NEW kind, NEW arg, Call(kind, arg),
           Msg(kind, arg) \in Messages
    PROVE  /\ msgq' \in Seq(Messages) /\ callback' = callback
           /\ calls' \in 0..MaxCalls
           /\ UNCHANGED <<adapter, status, aiding_data_for_deletion, api, modem>>
BY BoundsAssumption, AppendProperties DEF TypeOK, Call

(* An event of the modem adds typed messages to the callback thread's. *)
LEMMA RaiseType ==
    ASSUME TypeOK, NEW messages \in Seq(Messages), Raise(messages)
    PROVE  /\ callback' \in Seq(Messages)
           /\ UNCHANGED <<framework, msgq, adapter, status,
                          aiding_data_for_deletion>>
BY ConcatProperties DEF TypeOK, Raise

ApiType == [handle : {"open", "stale", "invalid"}, mInSession : BOOLEAN,
            mEngineOn : BOOLEAN, mask : {"none", "idle", "session"},
            refused : BOOLEAN]

SessionType == [mode : Modes \cup {"STANDALONE"},
                recurrence : {"PERIODIC"} \cup Recurrences] \cup {NoSession}

CriteriaType == [mode : Modes \cup {"INVALID"},
                 recurrence : {"PERIODIC"} \cup Recurrences]

(* Registering an event mask keeps everything but the mask, and gives the   *)
(* mask unless the modem refuses.                                           *)
LEMMA RegisterType ==
    ASSUME NEW a \in ApiType, NEW r \in Registered(a)
    PROVE  /\ r \in ApiType
           /\ r.mInSession = a.mInSession
           /\ r.mEngineOn = a.mEngineOn
           /\ r.handle = a.handle
           /\ ~r.refused => r.mask = EventMask(a)
<1>1. PICK result \in {"ok", "failed"} : r = Register(a, result)
  BY OutcomesAssumption DEF Registered
<1> QED BY <1>1 DEF ApiType, Register, EventMask

(* startFix has the whole mask registered unless the modem refuses, once or *)
(* twice, and runs a session or leaves it.                                  *)
StartsFix(r) ==
    /\ r \in ApiType /\ r.mInSession = TRUE /\ r.handle = api.handle
    /\ ~r.refused => r.mask = "session"

LEMMA StartType ==
    ASSUME TypeOK
    PROVE  /\ \A r \in StartedApis : StartsFix(r)
           /\ \A r \in UNION {Registered(a) : a \in StartedApis} : StartsFix(r)
           /\ \A crit \in CriteriaType, result \in StartResults :
                 Started(crit, result) \in SessionType
<1> DEFINE a == [api EXCEPT !.mInSession = TRUE]
<1>1. a \in ApiType /\ a.mInSession = TRUE /\ a.handle = api.handle
  BY DEF TypeOK, ApiType
<1>2. StartedApis = Registered(a)
  BY DEF StartedApis
<1> HIDE DEF a
<1>3. ASSUME NEW c \in ApiType, c.mInSession = TRUE, c.handle = api.handle,
             NEW r \in Registered(c)
      PROVE  StartsFix(r)
  <2>1. EventMask(c) = "session"
    BY <1>3 DEF EventMask
  <2> QED BY <1>3, <2>1, RegisterType DEF StartsFix
<1>4. \A r \in StartedApis : StartsFix(r)
  BY <1>1, <1>2, <1>3
<1>5. \A r \in UNION {Registered(c) : c \in StartedApis} : StartsFix(r)
  BY <1>3, <1>4 DEF StartsFix
<1>6. ASSUME NEW crit \in CriteriaType, NEW result \in StartResults
      PROVE  Started(crit, result) \in SessionType
  BY DEF Started, CriteriaType, SessionType, TypeOK
<1> QED BY <1>4, <1>5, <1>6

(* stopFix drops the events unless the engine is on or the modem refuses.   *)
StopsFix(r) ==
    /\ r \in ApiType /\ r.mInSession = FALSE
    /\ r.mEngineOn = api.mEngineOn /\ r.handle = api.handle
    /\ ~api.mEngineOn /\ ~r.refused => r.mask = "idle"

LEMMA StopType ==
    ASSUME TypeOK
    PROVE  /\ \A r \in StoppedApis(api.mEngineOn) : StopsFix(r)
           /\ \A result \in StopResults : Stopped(result) \in SessionType
<1> DEFINE a == [api EXCEPT !.mInSession = FALSE]
<1>1. a \in ApiType /\ a.mInSession = FALSE
      /\ a.mEngineOn = api.mEngineOn /\ a.handle = api.handle
  BY DEF TypeOK, ApiType
<1>2. StoppedApis(api.mEngineOn) = IF api.mEngineOn THEN {a} ELSE Registered(a)
  BY DEF StoppedApis
<1>3. EventMask(a) = "idle"
  BY <1>1 DEF EventMask
<1>4. \A result \in StopResults : Stopped(result) \in SessionType
  BY DEF Stopped, SessionType, TypeOK
<1> HIDE DEF a
<1>5. ASSUME NEW r \in StoppedApis(api.mEngineOn)
      PROVE  StopsFix(r)
  <2>1. CASE api.mEngineOn
    BY <1>1, <1>2, <2>1 DEF StopsFix
  <2>2. CASE ~api.mEngineOn
    <3>1. r \in Registered(a)
      BY <1>2, <2>2
    <3> QED BY <1>1, <1>3, <3>1, RegisterType DEF StopsFix
  <2> QED BY <2>1, <2>2
<1> QED BY <1>4, <1>5

(* A session that is stopped leaves no events behind, nor one that is left. *)
LEMMA IdleKept ==
    ASSUME SessionInv, StopsFix(api') \/ api' = api
    PROVE  IdleWhenUnused'
<1>1. CASE StopsFix(api')
  BY <1>1, Zenon DEF StopsFix, IdleWhenUnused
<1>2. CASE api' = api
  BY <1>2 DEF SessionInv, IdleWhenUnused
<1> QED BY <1>1, <1>2

(* The engine is told off with no session: the events are dropped, unless   *)
(* the modem refuses.                                                       *)
LEMMA EngineStateType ==
    ASSUME TypeOK, ProcUpdateEngineState, Arg \in BOOLEAN
    PROVE  /\ api' \in ApiType
           /\ api'.mInSession = api.mInSession /\ api'.handle = api.handle
           /\ api'.mEngineOn = Arg
           /\ IF api.mEngineOn /\ ~api.mInSession /\ ~Arg
              THEN ~api'.refused => api'.mask = "idle"
              ELSE api'.mask = api.mask /\ api'.refused = api.refused
<1>1. api \in ApiType
  BY DEF TypeOK, ApiType
<1>2. PICK a \in IF api.mEngineOn /\ ~api.mInSession /\ ~Arg
                 THEN Registered(api) ELSE {api} :
          api' = [a EXCEPT !.mEngineOn = Arg]
  BY DEF ProcUpdateEngineState
<1>3. /\ a \in ApiType /\ a.mInSession = api.mInSession /\ a.handle = api.handle
      /\ IF api.mEngineOn /\ ~api.mInSession /\ ~Arg
         THEN ~a.refused => a.mask = "idle" ELSE a = api
  <2>1. CASE api.mEngineOn /\ ~api.mInSession /\ ~Arg
    BY <1>1, <1>2, <2>1, RegisterType DEF EventMask
  <2>2. CASE ~(api.mEngineOn /\ ~api.mInSession /\ ~Arg)
    BY <1>1, <1>2, <2>2
  <2> QED BY <2>1, <2>2
<1>4. /\ api' \in ApiType /\ api'.mInSession = a.mInSession
      /\ api'.handle = a.handle /\ api'.mEngineOn = Arg
      /\ api'.mask = a.mask /\ api'.refused = a.refused
  BY <1>2, <1>3 DEF ApiType
<1> QED BY <1>3, <1>4

(* The criteria keep their type when the mode is dropped. *)
LEMMA ModeDroppedType ==
    ASSUME TypeOK
    PROVE  ModeDropped \in CriteriaType
BY DEF TypeOK, ModeDropped, CriteriaType

(* What reporting a status leaves behind. *)
LEMMA ReportType ==
    ASSUME TypeOK, NEW s \in Statuses, ReportStatus(s)
    PROVE  /\ mute_session_state' \in {"NONE", "WAIT", "IN_SESSION"}
           /\ told' \in {"SESSION_BEGIN", "SESSION_END"}
           /\ engine_status' \in {"NONE", "ENGINE_ON", "ENGINE_OFF"}
           /\ mNavigating /\ told = "SESSION_BEGIN" => told' = "SESSION_BEGIN"
BY DEF TypeOK, ReportStatus, Mute, Shown, Statuses

-----------------------------------------------------------------------------
(* The initial states. *)
LEMMA InitInv == Init => SessionInv
<1> SUFFICES ASSUME Init PROVE SessionInv
  OBVIOUS
<1>1. msgq \in Seq(Messages) /\ callback \in Seq(Messages)
  BY EmptySeq DEF Init
<1>2. /\ calls \in 0..MaxCalls /\ reports \in 0..MaxReports
      /\ mutes \in 0..MaxMutes /\ crashes \in 0..MaxCrashes
  BY BoundsAssumption DEF Init
<1>3. /\ fw \in [navigating : BOOLEAN, criteria : Criteria \cup {NoCriteria}]
      /\ session = NoSession
      /\ mFixCriteria \in CriteriaType
      /\ api \in ApiType
  BY DEF Init, NoCriteria, CriteriaType, ApiType
<1>4. TypeOK
  BY <1>1, <1>2, <1>3 DEF Init, TypeOK, CriteriaType, ApiType
<1> QED BY <1>4 DEF Init, SessionInv, Navigates, IdleWhenUnused

(* The framework's calls change nothing but the queue. *)
LEMMA FrameworkInv == SessionInv /\ Framework => SessionInv'
<1> SUFFICES ASSUME SessionInv, Framework PROVE SessionInv'
  OBVIOUS
<1> USE DEF SessionInv
<1>1. CASE SetPositionMode
  <2> PICK c \in Criteria : /\ fw' = [fw EXCEPT !.criteria = c]
                            /\ Call("PositionMode", c)
                            /\ UNCHANGED owed
    BY <1>1 DEF SetPositionMode
  <2>1. Msg("PositionMode", c) \in Messages
    BY DEF Msg, Messages
  <2> QED BY <2>1, CallType
    DEF TypeOK, Navigates, IdleWhenUnused, adapter, status, modem
<1>2. CASE StartFix
  <2>1. Msg("Start", "none") \in Messages
    BY DEF Msg, Messages
  <2> QED BY <1>2, <2>1, CallType
    DEF StartFix, TypeOK, Navigates, IdleWhenUnused, adapter, status, modem
<1>3. CASE StopFix
  <2>1. Msg("Stop", "none") \in Messages
    BY DEF Msg, Messages
  <2> QED BY <1>3, <2>1, CallType
    DEF StopFix, TypeOK, Navigates, IdleWhenUnused, adapter, status, modem
<1>4. CASE DeleteAidingData
  <2> PICK f \in SUBSET AidingBits : /\ owed' = owed \cup f
                                     /\ Call("DelAidData", f)
                                     /\ UNCHANGED fw
    BY <1>4 DEF DeleteAidingData
  <2>1. Msg("DelAidData", f) \in Messages
    BY DEF Msg, Messages
  <2> QED BY <2>1, CallType
    DEF TypeOK, Navigates, IdleWhenUnused, adapter, status, modem
<1> QED BY <1>1, <1>2, <1>3, <1>4 DEF Framework

(* Each message processed keeps the invariant. *)
LEMMA ProcInv == SessionInv /\ Proc => SessionInv'
<1> SUFFICES ASSUME SessionInv, Proc PROVE SessionInv'
  OBVIOUS
<1> USE DEF SessionInv
<1>1. CASE ProcPositionMode
  <2>1. /\ Arg \in Criteria /\ Arg \in CriteriaType
    BY <1>1, TakeType, Arguments
    DEF ProcPositionMode, Arg, Criteria, CriteriaType
  <2>2. api' \in ApiType /\ session' \in SessionType
    <3>1. CASE UNCHANGED <<api, session>>
      BY <3>1 DEF TypeOK, ApiType, SessionType
    <3>2. CASE /\ api' \in StartedApis
               /\ \E result \in StartResults : session' = Started(Arg, result)
      BY <3>2, <2>1, StartType DEF StartsFix
    <3> QED BY <1>1, <3>1, <3>2 DEF ProcPositionMode
  <2>3. TypeOK'
    BY <1>1, <2>1, <2>2, TakeType
    DEF ProcPositionMode, TypeOK, status, ApiType, SessionType, CriteriaType
  <2>4. \/ api' = api
        \/ api'.mInSession = TRUE
    BY <1>1, StartType DEF ProcPositionMode, StartsFix
  <2>5. told' = told /\ mNavigating' = mNavigating
    BY <1>1 DEF ProcPositionMode, status
  <2>6. Navigates' /\ IdleWhenUnused'
    BY <2>4, <2>5 DEF Navigates, IdleWhenUnused
  <2> QED BY <2>3, <2>6
<1>2. CASE ProcStart
  <2>1. api' \in ApiType /\ session' \in SessionType /\ mNavigating' \in BOOLEAN
    <3>1. mFixCriteria \in CriteriaType
      BY DEF TypeOK, CriteriaType
    <3>2. CASE mNavigating
      BY <1>2, <3>2 DEF ProcStart, TypeOK, ApiType, SessionType
    <3>3. CASE ~mNavigating
      <4> PICK result \in StartResults :
            /\ session' = Started(mFixCriteria, result)
            /\ mNavigating' = (result # "failed")
        BY <1>2, <3>3 DEF ProcStart
      <4>1. mNavigating' \in BOOLEAN
        BY Zenon
      <4> QED BY <1>2, <3>1, <3>3, <4>1, StartType DEF ProcStart, StartsFix
    <3> QED BY <3>2, <3>3
  <2>2. TypeOK'
    BY <1>2, <2>1, TakeType DEF ProcStart, TypeOK, ApiType, SessionType
  <2>3. Navigates' /\ IdleWhenUnused'
    BY <1>2, <2>1, StartType DEF ProcStart, Navigates, IdleWhenUnused, StartsFix
  <2> QED BY <2>2, <2>3
<1>3. CASE ProcStop
  <2>1. api' \in ApiType /\ session' \in SessionType /\ mFixCriteria' \in CriteriaType
    BY <1>3, StopType, ModeDroppedType
    DEF ProcStop, TypeOK, ApiType, SessionType, CriteriaType, adapter, StopsFix
  <2>2. TypeOK'
    BY <1>3, <2>1, TakeType
    DEF ProcStop, TypeOK, ApiType, SessionType, CriteriaType, adapter
  <2>3. Navigates' /\ IdleWhenUnused'
    <3>1. \/ ~mNavigating' /\ StopsFix(api')
          \/ UNCHANGED <<mNavigating, told, api>>
      BY <1>3, StopType DEF ProcStop, adapter
    <3> QED BY <3>1, IdleKept DEF Navigates
  <2> QED BY <2>2, <2>3
<1>4. CASE ProcPosition
  <2>1. api' \in ApiType /\ session' \in SessionType /\ mFixCriteria' \in CriteriaType
        /\ mNavigating' \in BOOLEAN
    BY <1>4, StopType, ModeDroppedType
    DEF ProcPosition, TypeOK, ApiType, SessionType, CriteriaType, adapter, StopsFix
  <2>2. TypeOK'
    BY <1>4, <2>1, TakeType
    DEF ProcPosition, TypeOK, ApiType, SessionType, CriteriaType, status
  <2>3. Navigates' /\ IdleWhenUnused'
    <3>1. \/ ~mNavigating' /\ (StopsFix(api') \/ api' = api)
          \/ UNCHANGED <<mNavigating, told, api>>
      BY <1>4, StopType DEF ProcPosition, adapter, status
    <3> QED BY <3>1, IdleKept DEF Navigates
  <2> QED BY <2>2, <2>3
<1>5. CASE ProcStatus
  <2>1. Arg \in Statuses
    BY <1>5, TakeType, Arguments DEF ProcStatus, Arg
  <2>2. owed' \subseteq AidingBits /\ aiding_data_for_deletion' \subseteq AidingBits
    BY <1>5 DEF ProcStatus, UpdateAiding, TypeOK
  <2>3. TypeOK'
    BY <1>5, <2>1, <2>2, TakeType, ReportType DEF ProcStatus, TypeOK, adapter
  <2>4. Navigates' /\ IdleWhenUnused'
    BY <1>5, <2>1, ReportType DEF ProcStatus, Navigates, IdleWhenUnused, adapter
  <2> QED BY <2>3, <2>4
<1>6. CASE ProcUpdateEngineState
  <2>1. Arg \in BOOLEAN
    BY <1>6, TakeType, Arguments DEF ProcUpdateEngineState, Arg
  <2>2. TypeOK'
    <3>1. /\ Take("UpdateEngineState")
          /\ UNCHANGED <<owed, adapter, status, aiding_data_for_deletion, session>>
      BY <1>6 DEF ProcUpdateEngineState
    <3>2. api' \in ApiType
      BY <1>6, <2>1, EngineStateType
    <3> QED BY <3>1, <3>2, TakeType DEF TypeOK, ApiType, adapter, status
  <2>3. UNCHANGED <<mNavigating, told>>
    BY <1>6 DEF ProcUpdateEngineState, adapter, status
  <2>4. Navigates'
    BY <1>6, <2>1, <2>3, EngineStateType DEF Navigates
  <2>5. IdleWhenUnused'
    <3>1. /\ api.mEngineOn \in BOOLEAN /\ api.mInSession \in BOOLEAN
          /\ api'.mInSession = api.mInSession /\ api'.mEngineOn = Arg
          /\ api'.handle = api.handle
      BY <1>6, <2>1, EngineStateType DEF TypeOK
    <3>2. CASE api.mEngineOn /\ ~api.mInSession /\ ~Arg
      BY <1>6, <2>1, <3>2, EngineStateType DEF IdleWhenUnused
    <3>3. CASE ~(api.mEngineOn /\ ~api.mInSession /\ ~Arg)
      <4>1. api'.mask = api.mask /\ api'.refused = api.refused
        BY <1>6, <2>1, <3>3, EngineStateType
      <4> QED BY <2>1, <3>1, <3>3, <4>1 DEF IdleWhenUnused
    <3> QED BY <3>2, <3>3
  <2> QED BY <2>2, <2>4, <2>5
<1>7. CASE ProcDelAidData
  <2>1. Arg \subseteq AidingBits
    BY <1>7, TakeType, Arguments DEF ProcDelAidData, Arg
  <2>2. owed' \subseteq AidingBits /\ aiding_data_for_deletion' \subseteq AidingBits
    BY <1>7, <2>1 DEF ProcDelAidData, UpdateAiding, TypeOK
  <2>3. TypeOK'
    BY <1>7, <2>2, TakeType DEF ProcDelAidData, TypeOK, adapter, status
  <2>4. Navigates' /\ IdleWhenUnused'
    BY <1>7 DEF ProcDelAidData, Navigates, IdleWhenUnused, adapter, status
  <2> QED BY <2>3, <2>4
<1>8. CASE ProcMute
  <2>1. TypeOK'
    BY <1>8, TakeType DEF ProcMute, TypeOK, adapter
  <2>2. Navigates' /\ IdleWhenUnused'
    BY <1>8 DEF ProcMute, Navigates, IdleWhenUnused, adapter
  <2> QED BY <2>1, <2>2
<1>9. CASE ProcDown
  <2>1. "ENGINE_OFF" \in Statuses
    BY DEF Statuses
  <2>2. TypeOK'
    BY <1>9, <2>1, TakeType, ReportType DEF ProcDown, TypeOK, adapter
  <2>3. Navigates' /\ IdleWhenUnused'
    BY <1>9, <2>1, ReportType DEF ProcDown, Navigates, IdleWhenUnused, adapter
  <2> QED BY <2>2, <2>3
<1>10. CASE ProcSsr
  <2> PICK handle \in OpenOutcomes :
        api' = [api EXCEPT !.handle = handle,
                   !.mask = IF handle = "open" THEN "idle" ELSE "none",
                   !.refused = @ /\ handle # "open"]
    BY <1>10 DEF ProcSsr
  <2>1. /\ api' \in ApiType /\ api'.mInSession = api.mInSession
        /\ api'.handle = "open" => api'.mask = "idle"
    BY OutcomesAssumption DEF TypeOK, ApiType
  <2>2. TypeOK'
    BY <1>10, <2>1, TakeType DEF ProcSsr, TypeOK, ApiType, adapter, status
  <2>3. Navigates' /\ IdleWhenUnused'
    BY <1>10, <2>1 DEF ProcSsr, Navigates, IdleWhenUnused, adapter, status
  <2> QED BY <2>2, <2>3
<1>11. CASE ProcUp
  <2>1. "ENGINE_ON" \in Statuses
    BY DEF Statuses
  <2>2. api' \in ApiType /\ session' \in SessionType
        /\ mNavigating' \in BOOLEAN /\ mFixCriteria' \in CriteriaType
    <3>1. CASE ~mNavigating
      BY <1>11, <3>1 DEF ProcUp, adapter, TypeOK, ApiType, SessionType, CriteriaType
    <3>2. CASE mNavigating
      <4> PICK again \in StartResults, start \in StartResults :
            /\ session' = IF start = "ok" THEN Started(ModeDropped, start)
                          ELSE Started(mFixCriteria, again)
            /\ mNavigating' = (start # "failed")
        BY <1>11, <3>2 DEF ProcUp
      <4>1. mFixCriteria \in CriteriaType
        BY DEF TypeOK, CriteriaType
      <4>2. session' \in SessionType
        BY <4>1, StartType, ModeDroppedType
      <4>3. mNavigating' \in BOOLEAN
        BY Zenon
      <4>4. api' \in ApiType /\ mFixCriteria' = ModeDropped
        BY <1>11, <3>2, StartType DEF ProcUp, StartsFix
      <4> QED BY <4>2, <4>3, <4>4, StartType, ModeDroppedType
    <3> QED BY <3>1, <3>2
  <2>3. TypeOK'
    BY <1>11, <2>1, <2>2, TakeType, ReportType
    DEF ProcUp, TypeOK, ApiType, SessionType, CriteriaType
  <2>4. CASE ~mNavigating
    BY <1>11, <2>3, <2>4 DEF ProcUp, Navigates, IdleWhenUnused, adapter
  <2>5. CASE mNavigating
    <3>1. told' = "SESSION_BEGIN"
      BY <1>11, <2>1, <2>5, ReportType DEF ProcUp, Navigates
    <3>2. api'.mInSession = TRUE
      BY <1>11, <2>5, StartType DEF ProcUp, StartsFix
    <3> QED BY <2>3, <3>1, <3>2 DEF Navigates, IdleWhenUnused
  <2> QED BY <2>4, <2>5
<1> QED
  BY <1>1, <1>2, <1>3, <1>4, <1>5, <1>6, <1>7, <1>8, <1>9, <1>10, <1>11 DEF Proc

(* The bounds are numbers. *)
LEMMA Bounds ==
    MaxReports \in Nat /\ MaxMutes \in Nat /\ MaxCrashes \in Nat
BY BoundsAssumption

(* An event of the modem keeps the invariant if it leaves LocApiV02 as it   *)
(* is, or its handle stale.                                                 *)
LEMMA RaiseInv ==
    ASSUME SessionInv, NEW messages \in Seq(Messages), Raise(messages),
           api' \in ApiType, api'.mInSession = api.mInSession,
           api' = api \/ api'.handle = "stale",
           session' \in SessionType, engine' \in BOOLEAN,
           reports' \in 0..MaxReports, mutes' \in 0..MaxMutes,
           crashes' \in 0..MaxCrashes
    PROVE  SessionInv'
<1>1. TypeOK
  BY DEF SessionInv
<1>2. /\ callback' \in Seq(Messages)
      /\ UNCHANGED <<framework, msgq, adapter, status, aiding_data_for_deletion>>
  BY <1>1, RaiseType
<1>3. TypeOK'
  BY <1>1, <1>2 DEF TypeOK, framework, adapter, status, ApiType, SessionType
<1>4. Navigates' /\ IdleWhenUnused'
  BY <1>2 DEF SessionInv, Navigates, IdleWhenUnused, adapter, status
<1> QED BY <1>3, <1>4 DEF SessionInv

(* The callback thread and the modem keep the invariant. *)
LEMMA ModemInv == SessionInv /\ (Post \/ Modem) => SessionInv'
<1> SUFFICES ASSUME SessionInv, Post \/ Modem PROVE SessionInv'
  OBVIOUS
<1> USE DEF SessionInv
<1>1. CASE Post
  <2>1. /\ Head(callback) \in Messages /\ callback' \in Seq(Messages)
        /\ msgq' = Append(msgq, Head(callback))
    BY <1>1, HeadTailProperties DEF Post, TypeOK
  <2>2. msgq' \in Seq(Messages)
    BY <2>1, AppendProperties DEF TypeOK
  <2> QED BY <1>1, <2>1, <2>2
      DEF Post, TypeOK, Navigates, IdleWhenUnused, framework, adapter, status, modem
<1>2. CASE EngineOn \/ EngineOff
  <2>1. \A b \in BOOLEAN, s \in Statuses, t \in Statuses :
          <<Msg("UpdateEngineState", b), Msg("Status", s), Msg("Status", t)>>
            \in Seq(Messages)
    BY DEF Msg, Messages
  <2>2. PICK messages \in Seq(Messages) : Raise(messages)
    BY <1>2, <2>1, EmptySeq DEF EngineOn, EngineOff, Statuses
  <2>3. UNCHANGED <<api, session, reports, mutes, crashes>> /\ engine' \in BOOLEAN
    BY <1>2 DEF EngineOn, EngineOff
  <2> QED BY <2>2, <2>3, RaiseType
      DEF TypeOK, Navigates, IdleWhenUnused, framework, adapter, status
<1>3. CASE ReportPosition
  <2> PICK report \in Reports : Raise(<<Msg("Position", report)>>)
    BY <1>3 DEF ReportPosition
  <2>1. <<Msg("Position", report)>> \in Seq(Messages)
    BY DEF Msg, Messages
  <2>2. reports' \in 0..MaxReports
    BY <1>3, Bounds DEF ReportPosition, TypeOK
  <2>3. UNCHANGED <<api, engine, mutes, crashes>> /\ session' \in SessionType
    BY <1>3 DEF ReportPosition, TypeOK, SessionType
  <2> QED BY <2>1, <2>2, <2>3, RaiseInv DEF TypeOK, ApiType
<1>4. CASE PrivacyOverride
  <2>1. <<Msg("Mute", "none")>> \in Seq(Messages)
    BY DEF Msg, Messages
  <2>2. mutes' \in 0..MaxMutes
    BY <1>4, Bounds DEF PrivacyOverride, TypeOK
  <2>3. /\ UNCHANGED <<api, session, engine, reports, crashes>>
        /\ Raise(<<Msg("Mute", "none")>>)
    BY <1>4 DEF PrivacyOverride
  <2> QED BY <2>1, <2>2, <2>3, RaiseInv DEF TypeOK, ApiType, SessionType
<1>5. CASE Crash
  <2>1. <<Msg("Down", "none"), Msg("Ssr", "none"), Msg("Up", "none")>>
          \in Seq(Messages)
    BY DEF Msg, Messages
  <2>2. /\ api' \in ApiType /\ api'.handle = "stale"
        /\ api'.mInSession = api.mInSession
    BY <1>5 DEF Crash, TypeOK, ApiType
  <2>3. crashes' \in 0..MaxCrashes
    BY <1>5, Bounds DEF Crash, TypeOK
  <2>4. session' \in SessionType /\ engine' \in BOOLEAN
    BY <1>5 DEF Crash, SessionType
  <2>5. /\ UNCHANGED <<reports, mutes>>
        /\ Raise(<<Msg("Down", "none"), Msg("Ssr", "none"), Msg("Up", "none")>>)
    BY <1>5 DEF Crash
  <2> QED BY <2>1, <2>2, <2>3, <2>4, <2>5, RaiseInv DEF TypeOK
<1> QED BY <1>1, <1>2, <1>3, <1>4, <1>5 DEF Modem

(* A stuttering step keeps the invariant. *)
LEMMA StutterInv == SessionInv /\ UNCHANGED vars => SessionInv'
BY DEF SessionInv, TypeOK, Navigates, IdleWhenUnused, vars, framework, queues,
       adapter, status, modem

(* The invariant holds in every reachable state. *)
THEOREM SessionCorrect == Spec => []SessionInv
<1>1. SessionInv /\ [Next]_vars => SessionInv'
  BY FrameworkInv, ProcInv, ModemInv, StutterInv DEF Next
<1> QED BY InitInv, <1>1, PTL DEF Spec

(* Every variable keeps its type, whatever fails. *)
THEOREM TypeCorrect == Spec => []TypeOK
<1>1. SessionInv => TypeOK
  BY DEF SessionInv
<1> QED BY SessionCorrect, <1>1, PTL

(* While the adapter navigates, the framework was told last that a session  *)
(* began, however late the modem reports the end of an earlier one.         *)
THEOREM ShownCorrect == Spec => []NavigatingIsShown
<1>1. SessionInv => NavigatingIsShown
  BY DEF SessionInv, Navigates, NavigatingIsShown
<1> QED BY SessionCorrect, <1>1, PTL

(* Between sessions, with the engine off as LocApiV02 knows it, the events  *)
(* of a session are not registered, unless the modem refused to drop them.  *)
THEOREM IdleCorrect == Spec => []IdleWhenUnused
<1>1. SessionInv => IdleWhenUnused
  BY DEF SessionInv
<1> QED BY SessionCorrect, <1>1, PTL

-----------------------------------------------------------------------------
(* How the steps move messages: the framework appends to the queue, MsgTask *)
(* takes its first, the callback thread moves its own first there, and an   *)
(* event of the modem adds to the callback thread's.                        *)

(* A call of the framework appends one message and touches nothing below.   *)
LEMMA FrameworkMoves ==
    ASSUME TypeOK, Framework
    PROVE  \E m \in Messages :
              /\ m.kind \in {"PositionMode", "Start", "Stop", "DelAidData"}
              /\ msgq' = Append(msgq, m)
              /\ UNCHANGED <<callback, adapter, status, api, modem>>
<1>1. CASE SetPositionMode
  <2> PICK c \in Criteria : Call("PositionMode", c)
    BY <1>1 DEF SetPositionMode
  <2>1. Msg("PositionMode", c) \in Messages
    BY DEF Msg, Messages
  <2> QED BY <2>1 DEF Call, Msg
<1>2. CASE StartFix
  <2>1. Msg("Start", "none") \in Messages
    BY DEF Msg, Messages
  <2> QED BY <1>2, <2>1 DEF StartFix, Call, Msg
<1>3. CASE StopFix
  <2>1. Msg("Stop", "none") \in Messages
    BY DEF Msg, Messages
  <2> QED BY <1>3, <2>1 DEF StopFix, Call, Msg
<1>4. CASE DeleteAidingData
  <2> PICK f \in SUBSET AidingBits : Call("DelAidData", f)
    BY <1>4 DEF DeleteAidingData
  <2>1. Msg("DelAidData", f) \in Messages
    BY DEF Msg, Messages
  <2> QED BY <2>1 DEF Call, Msg
<1> QED BY <1>1, <1>2, <1>3, <1>4 DEF Framework

(* Processing takes the first message and raises nothing. *)
LEMMA ProcMoves ==
    ASSUME TypeOK, Proc
    PROVE  /\ msgq # <<>> /\ Head(msgq) \in Messages
           /\ msgq' = Tail(msgq) /\ callback' = callback
           /\ fw' = fw /\ crashes' = crashes
<1>1. \E kind : Take(kind)
  BY DEF Proc, ProcPositionMode, ProcStart, ProcStop, ProcPosition, ProcStatus,
         ProcUpdateEngineState, ProcDelAidData, ProcMute, ProcDown, ProcSsr, ProcUp
<1> QED BY <1>1, HeadTailProperties DEF Take, TypeOK

(* The callback thread posts its first message and touches nothing else. *)
LEMMA PostMoves ==
    ASSUME TypeOK, Post
    PROVE  /\ callback # <<>> /\ Head(callback) \in Messages
           /\ msgq' = Append(msgq, Head(callback))
           /\ callback' = Tail(callback)
           /\ UNCHANGED <<framework, adapter, status, api, modem>>
BY HeadTailProperties DEF Post, TypeOK

(* A sequence is the longer by what is added to it, and keeps what it was. *)
LEMMA Concatenated ==
    ASSUME NEW q \in Seq(Messages), NEW s \in Seq(Messages)
    PROVE  /\ q \o s \in Seq(Messages)
           /\ Len(q \o s) = Len(q) + Len(s)
           /\ \A i \in 1..Len(q) : (q \o s)[i] = q[i]
           /\ \A i \in 1..Len(s) : (q \o s)[Len(q) + i] = s[i]
           /\ \A i \in 1..Len(q \o s) :
                 i \in 1..Len(q) \/ \E d \in 1..Len(s) : i = Len(q) + d
<1>1. ASSUME NEW i \in 1..(Len(q) + Len(s)), i \notin 1..Len(q)
      PROVE  i - Len(q) \in 1..Len(s) /\ i = Len(q) + (i - Len(q))
  BY <1>1, LenProperties
<1> QED BY <1>1, ConcatProperties

(* The same for one message. *)
LEMMA Appended ==
    ASSUME NEW q \in Seq(Messages), NEW m \in Messages
    PROVE  /\ Append(q, m) \in Seq(Messages)
           /\ Len(Append(q, m)) = Len(q) + 1
           /\ \A i \in 1..Len(q) : Append(q, m)[i] = q[i]
           /\ Append(q, m)[Len(q) + 1] = m
           /\ \A i \in 1..Len(Append(q, m)) : i \in 1..Len(q) \/ i = Len(q) + 1
BY AppendProperties

(* The first message is taken: the others move up by one. *)
LEMMA Shortened ==
    ASSUME NEW q \in Seq(Messages), q # <<>>
    PROVE  /\ Tail(q) \in Seq(Messages)
           /\ Len(q) >= 1 /\ q[1] = Head(q)
           /\ Len(Tail(q)) = Len(q) - 1
           /\ \A i \in 1..Len(Tail(q)) : Tail(q)[i] = q[i + 1] /\ i + 1 \in 1..Len(q)
BY HeadTailProperties, EmptySeq

-----------------------------------------------------------------------------
(* The engine's status: what the queued messages will have made of it by    *)
(* the time a message is processed.                                         *)

TurnsOn(m) == m.kind = "Up" \/ (m.kind = "Status" /\ m.arg = "ENGINE_ON")
TurnsOff(m) == m.kind = "Down" \/ (m.kind = "Status" /\ m.arg = "ENGINE_OFF")
Begins(m) == m.kind = "Status" /\ m.arg = "SESSION_BEGIN"

(* The engine is on before message i of q, if it is `on' before the first.  *)
OnBefore(q, i, on) ==
    \/ on /\ \A k \in 1..(i - 1) : ~TurnsOff(q[k])
    \/ \E j \in 1..(i - 1) :
          /\ TurnsOn(q[j])
          /\ \A k \in (j + 1)..(i - 1) : ~TurnsOff(q[k])

IsOn == engine_status = "ENGINE_ON"
OnAtEnd == OnBefore(msgq, Len(msgq) + 1, IsOn)

BeginsWhenOn ==
    /\ \A i \in 1..Len(msgq) : Begins(msgq[i]) => OnBefore(msgq, i, IsOn)
    /\ \A i \in 1..Len(callback) :
          Begins(callback[i]) => OnBefore(callback, i, OnAtEnd)

MuteInv == TypeOK /\ MutedWhileOn /\ BeginsWhenOn

(* What is before a message does not change when the queue grows behind it. *)
LEMMA OnBeforeGrows ==
    ASSUME NEW q \in Seq(Messages), NEW r \in Seq(Messages), NEW on \in BOOLEAN,
           NEW i \in 1..(Len(q) + 1), \A k \in 1..Len(q) : r[k] = q[k],
           OnBefore(q, i, on)
    PROVE  OnBefore(r, i, on)
<1>1. \A k \in 1..(i - 1) : r[k] = q[k]
  OBVIOUS
<1>2. CASE on /\ \A k \in 1..(i - 1) : ~TurnsOff(q[k])
  BY <1>1, <1>2 DEF OnBefore
<1>3. ASSUME NEW j \in 1..(i - 1), TurnsOn(q[j]),
             \A k \in (j + 1)..(i - 1) : ~TurnsOff(q[k])
      PROVE  OnBefore(r, i, on)
  <2>1. TurnsOn(r[j])
    BY <1>1, <1>3
  <2>2. \A k \in (j + 1)..(i - 1) : ~TurnsOff(r[k])
    BY <1>1, <1>3
  <2> QED BY <2>1, <2>2 DEF OnBefore
<1> QED BY <1>2, <1>3 DEF OnBefore

(* What the first message makes of the engine. *)
OnAfter(m, on) == TurnsOn(m) \/ (on /\ ~TurnsOff(m))

(* The first message is processed: what it made of the engine is how the    *)
(* rest of the queue finds it.                                              *)
LEMMA OnBeforeTail ==
    ASSUME NEW q \in Seq(Messages), q # <<>>, NEW on \in BOOLEAN,
           NEW i \in 1..Len(q), OnBefore(q, i + 1, on)
    PROVE  OnBefore(Tail(q), i, OnAfter(Head(q), on))
<1>1. \A k \in 1..(i - 1) : Tail(q)[k] = q[k + 1]
  BY Shortened
<1>2. q[1] = Head(q)
  BY Shortened
<1>3. CASE on /\ \A k \in 1..i : ~TurnsOff(q[k])
  <2>1. ~TurnsOff(Head(q)) /\ \A k \in 1..(i - 1) : ~TurnsOff(Tail(q)[k])
    BY <1>1, <1>2, <1>3
  <2> QED BY <1>3, <2>1 DEF OnBefore, OnAfter
<1>4. ASSUME NEW j \in 1..i, TurnsOn(q[j]),
             \A k \in (j + 1)..i : ~TurnsOff(q[k])
      PROVE  OnBefore(Tail(q), i, OnAfter(Head(q), on))
  <2>1. CASE j = 1
    <3>1. \A k \in 1..(i - 1) : ~TurnsOff(Tail(q)[k])
      BY <1>1, <1>4, <2>1
    <3> QED BY <1>2, <1>4, <2>1, <3>1 DEF OnBefore, OnAfter
  <2>2. CASE j # 1
    <3> DEFINE l == j - 1
    <3>1. l \in 1..(i - 1) /\ TurnsOn(Tail(q)[l])
      BY <1>1, <1>4, <2>2
    <3>2. \A k \in (l + 1)..(i - 1) : ~TurnsOff(Tail(q)[k])
      BY <1>1, <1>4, <2>2
    <3> HIDE DEF l
    <3> QED BY <3>1, <3>2 DEF OnBefore
  <2> QED BY <2>1, <2>2
<1>5. (i + 1) - 1 = i
  OBVIOUS
<1>6. \/ on /\ \A k \in 1..i : ~TurnsOff(q[k])
      \/ \E j \in 1..i : TurnsOn(q[j]) /\ \A k \in (j + 1)..i : ~TurnsOff(q[k])
  BY <1>5 DEF OnBefore
<1> QED BY <1>3, <1>4, <1>6

(* The last message posted decides, unless it leaves the engine alone. *)
LEMMA OnAtEndAppend ==
    ASSUME NEW q \in Seq(Messages), NEW m \in Messages, NEW on \in BOOLEAN,
           NEW before \in BOOLEAN, before => OnBefore(q, Len(q) + 1, on),
           OnAfter(m, before)
    PROVE  OnBefore(Append(q, m), Len(Append(q, m)) + 1, on)
<1> DEFINE r == Append(q, m)
           n == Len(q) + 1
<1>1. r \in Seq(Messages) /\ Len(r) = n /\ r[n] = m /\ n \in Nat
      /\ (n + 1) - 1 = n /\ \A k \in 1..Len(q) : r[k] = q[k]
  BY Appended
<1>2. CASE TurnsOn(m)
  <2>1. TurnsOn(r[n]) /\ n \in 1..n /\ \A k \in (n + 1)..n : ~TurnsOff(r[k])
    BY <1>1, <1>2
  <2> HIDE DEF r, n
  <2> QED BY <1>1, <2>1 DEF OnBefore
<1>3. CASE before /\ ~TurnsOff(m)
  <2>1. OnBefore(r, n, on)
    <3>1. OnBefore(q, n, on) /\ n \in 1..(Len(q) + 1)
      BY <1>3, LenProperties
    <3> HIDE DEF r, n
    <3> QED BY <1>1, <3>1, OnBeforeGrows
  <2>2. n - 1 \in Nat
    BY LenProperties
  <2> HIDE DEF r, n
  <2>3. CASE on /\ \A k \in 1..(n - 1) : ~TurnsOff(r[k])
    <3>1. \A k \in 1..n : k = n \/ k \in 1..(n - 1)
      BY <1>1, <2>2
    <3>2. \A k \in 1..n : ~TurnsOff(r[k])
      BY <1>1, <1>3, <2>3, <3>1
    <3> QED BY <1>1, <2>3, <3>2 DEF OnBefore, r
  <2>4. ASSUME NEW j \in 1..(n - 1), TurnsOn(r[j]),
               \A k \in (j + 1)..(n - 1) : ~TurnsOff(r[k])
        PROVE  OnBefore(r, n + 1, on)
    <3>1. \A k \in (j + 1)..n : k = n \/ k \in (j + 1)..(n - 1)
      BY <1>1, <2>2
    <3>2. \A k \in (j + 1)..n : ~TurnsOff(r[k])
      BY <1>1, <1>3, <2>4, <3>1
    <3>3. j \in 1..n
      BY <1>1, <2>2
    <3> QED BY <1>1, <2>4, <3>2, <3>3 DEF OnBefore
  <2> QED BY <1>1, <2>1, <2>3, <2>4 DEF OnBefore, r
<1> QED BY <1>2, <1>3 DEF OnAfter

(* What a message's status is, it takes the engine's status to. *)
LEMMA ProcTurns ==
    ASSUME TypeOK, Proc
    PROVE  /\ IsOn' = OnAfter(Head(msgq), IsOn)
           /\ TurnsOff(Head(msgq)) => mute_session_state' # "IN_SESSION"
           /\ mute_session_state' = "IN_SESSION" =>
                 \/ mute_session_state = "IN_SESSION"
                 \/ TurnsOn(Head(msgq)) \/ Begins(Head(msgq))
<1> DEFINE m == Head(msgq)
<1>1. m \in Messages
  BY ProcMoves
<1>2. CASE ProcStatus
  <2>1. /\ m.kind = "Status" /\ m.arg \in Statuses
        /\ ReportStatus(m.arg)
    BY <1>1, <1>2, Arguments DEF ProcStatus, Take, Arg
  <2> HIDE DEF m
  <2>2. /\ TurnsOn(m) = (m.arg = "ENGINE_ON")
        /\ TurnsOff(m) = (m.arg = "ENGINE_OFF")
        /\ Begins(m) = (m.arg = "SESSION_BEGIN")
    BY <2>1 DEF TurnsOn, TurnsOff, Begins
  <2>3. engine_status' = IF m.arg \in {"ENGINE_ON", "ENGINE_OFF"} THEN m.arg
                         ELSE engine_status
    BY <2>1 DEF ReportStatus
  <2>4. mute_session_state' = Mute(mute_session_state, m.arg)
    BY <2>1 DEF ReportStatus
  <2>5. IsOn' = OnAfter(m, IsOn)
    BY <2>2, <2>3 DEF IsOn, OnAfter
  <2>6. /\ TurnsOff(m) => mute_session_state' # "IN_SESSION"
        /\ mute_session_state' = "IN_SESSION" =>
              mute_session_state = "IN_SESSION" \/ TurnsOn(m) \/ Begins(m)
    BY <2>1, <2>2, <2>4 DEF Mute, TypeOK
  <2> QED BY <2>5, <2>6 DEF m
<1>3. CASE ProcDown
  <2>1. m.kind = "Down" /\ ReportStatus("ENGINE_OFF")
    BY <1>3 DEF ProcDown, Take
  <2>2. engine_status' = "ENGINE_OFF"
        /\ mute_session_state' = Mute(mute_session_state, "ENGINE_OFF")
    BY <2>1 DEF ReportStatus
  <2>3. TurnsOff(m) /\ ~TurnsOn(m)
    BY <2>1 DEF TurnsOff, TurnsOn
  <2>4. mute_session_state' # "IN_SESSION"
    BY <2>2 DEF Mute, TypeOK
  <2> QED BY <2>2, <2>3, <2>4 DEF IsOn, OnAfter
<1>4. CASE ProcUp
  <2>1. m.kind = "Up" /\ ReportStatus("ENGINE_ON")
    BY <1>4 DEF ProcUp, Take
  <2>2. engine_status' = "ENGINE_ON"
    BY <2>1 DEF ReportStatus
  <2>3. TurnsOn(m) /\ ~TurnsOff(m)
    BY <2>1 DEF TurnsOff, TurnsOn
  <2> QED BY <2>2, <2>3 DEF IsOn, OnAfter
<1>5. CASE ProcMute
  <2>1. ~TurnsOn(m) /\ ~TurnsOff(m)
    BY <1>5 DEF ProcMute, Take, TurnsOff, TurnsOn
  <2> QED BY <1>5, <2>1 DEF ProcMute, IsOn, OnAfter
<1>6. CASE /\ m.kind \notin {"Status", "Down", "Up"}
           /\ UNCHANGED <<engine_status, mute_session_state>>
  BY <1>6 DEF TurnsOn, TurnsOff, IsOn, OnAfter
<1>7. CASE \/ ProcPositionMode \/ ProcStart \/ ProcStop \/ ProcPosition
           \/ ProcUpdateEngineState \/ ProcDelAidData \/ ProcSsr
  BY <1>6, <1>7
  DEF ProcPositionMode, ProcStart, ProcStop, ProcPosition, ProcUpdateEngineState,
      ProcDelAidData, ProcSsr, Take, status
<1> QED BY <1>2, <1>3, <1>4, <1>5, <1>7 DEF Proc

(* Whoever raises the begin of a session raises an engine that is on first. *)
LEMMA ModemBegins ==
    ASSUME TypeOK, Modem
    PROVE  \E messages \in Seq(Messages) :
              /\ Raise(messages)
              /\ \A i \in 1..Len(messages) :
                    Begins(messages[i]) =>
                       i # 1 /\ i - 1 \in 1..Len(messages)
                             /\ TurnsOn(messages[i - 1])
<1> DEFINE Fine(messages) ==
              \A i \in 1..Len(messages) :
                 Begins(messages[i]) =>
                    i # 1 /\ i - 1 \in 1..Len(messages)
                          /\ TurnsOn(messages[i - 1])
<1>0. <<>> \in Seq(Messages) /\ Fine(<<>>)
  BY EmptySeq
<1>1. CASE EngineOn
  <2> DEFINE s == <<Msg("UpdateEngineState", TRUE), Msg("Status", "ENGINE_ON"),
                    Msg("Status", "SESSION_BEGIN")>>
  <2>1. s \in Seq(Messages)
    BY DEF Msg, Messages, Statuses
  <2>2. Fine(s)
    BY DEF Msg, Begins, TurnsOn
  <2>3. Raise(s) \/ Raise(<<>>)
    BY <1>1 DEF EngineOn
  <2> HIDE DEF s, Fine
  <2> QED BY <1>0, <2>1, <2>2, <2>3 DEF Fine
<1>2. CASE EngineOff
  <2> DEFINE s == <<Msg("UpdateEngineState", FALSE),
                    Msg("Status", "SESSION_END"), Msg("Status", "ENGINE_OFF")>>
  <2>1. s \in Seq(Messages)
    BY DEF Msg, Messages, Statuses
  <2>2. Fine(s)
    BY DEF Msg, Begins, TurnsOn
  <2>3. Raise(s) \/ Raise(<<>>)
    BY <1>2 DEF EngineOff
  <2> HIDE DEF s, Fine
  <2> QED BY <1>0, <2>1, <2>2, <2>3 DEF Fine
<1>3. CASE ReportPosition
  <2> PICK report \in Reports : Raise(<<Msg("Position", report)>>)
    BY <1>3 DEF ReportPosition
  <2>1. <<Msg("Position", report)>> \in Seq(Messages)
    BY DEF Msg, Messages
  <2>2. Fine(<<Msg("Position", report)>>)
    BY DEF Msg, Begins
  <2> HIDE DEF Fine
  <2> QED BY <2>1, <2>2 DEF Fine
<1>4. CASE PrivacyOverride
  <2>1. <<Msg("Mute", "none")>> \in Seq(Messages)
    BY DEF Msg, Messages
  <2>2. Fine(<<Msg("Mute", "none")>>)
    BY DEF Msg, Begins
  <2>3. Raise(<<Msg("Mute", "none")>>)
    BY <1>4 DEF PrivacyOverride
  <2> HIDE DEF Fine
  <2> QED BY <2>1, <2>2, <2>3 DEF Fine
<1>5. CASE Crash
  <2> DEFINE s == <<Msg("Down", "none"), Msg("Ssr", "none"), Msg("Up", "none")>>
  <2>1. s \in Seq(Messages)
    BY DEF Msg, Messages
  <2>2. Fine(s)
    BY DEF Msg, Begins
  <2>3. Raise(s)
    BY <1>5 DEF Crash
  <2> HIDE DEF s, Fine
  <2> QED BY <2>1, <2>2, <2>3 DEF Fine
<1> QED BY <1>1, <1>2, <1>3, <1>4, <1>5 DEF Modem

(* It depends on nothing else whether the engine is on. *)
LEMMA OnIsBoolean ==
    /\ IsOn \in BOOLEAN
    /\ OnAtEnd \in BOOLEAN
    /\ \A m, on : OnAfter(m, on) \in BOOLEAN
<1>1. IsOn \in BOOLEAN
  BY DEF IsOn
<1>2. OnAtEnd \in BOOLEAN
  BY DEF OnAtEnd, OnBefore
<1>3. \A m, on : OnAfter(m, on) \in BOOLEAN
  BY Zenon DEF OnAfter
<1> QED BY <1>1, <1>2, <1>3

(* More is known at the start of a queue, so no less behind it. *)
LEMMA OnBeforeImplied ==
    ASSUME NEW q, NEW i, NEW on \in BOOLEAN, NEW more \in BOOLEAN,
           on => more, OnBefore(q, i, on)
    PROVE  OnBefore(q, i, more)
BY Zenon DEF OnBefore

(* A call of the framework does not touch the engine's status. *)
LEMMA MuteFramework == MuteInv /\ Framework => MutedWhileOn' /\ BeginsWhenOn'
<1> SUFFICES ASSUME MuteInv, Framework PROVE MutedWhileOn' /\ BeginsWhenOn'
  OBVIOUS
<1> USE DEF MuteInv
<1>1. PICK m \in Messages :
          /\ m.kind \in {"PositionMode", "Start", "Stop", "DelAidData"}
          /\ msgq' = Append(msgq, m)
          /\ UNCHANGED <<callback, adapter, status, api, modem>>
  BY FrameworkMoves
<1>2. msgq \in Seq(Messages) /\ callback \in Seq(Messages)
  BY DEF TypeOK
<1>3. IsOn' = IsOn /\ callback' = callback
  BY <1>1 DEF status, IsOn
<1>4. ~TurnsOn(m) /\ ~TurnsOff(m) /\ ~Begins(m)
  BY <1>1 DEF TurnsOn, TurnsOff, Begins
<1>5. \A i \in 1..Len(msgq') : Begins(msgq'[i]) => OnBefore(msgq', i, IsOn)
  <2> TAKE i \in 1..Len(msgq')
  <2> HAVE Begins(msgq'[i])
  <2>1. i \in 1..Len(msgq) /\ Begins(msgq[i])
    BY <1>1, <1>2, <1>4, Appended
  <2>2. OnBefore(msgq, i, IsOn)
    BY <2>1 DEF BeginsWhenOn
  <2>3. /\ msgq' \in Seq(Messages) /\ i \in 1..(Len(msgq) + 1)
        /\ \A k \in 1..Len(msgq) : msgq'[k] = msgq[k]
    BY <1>1, <1>2, <2>1, Appended, LenProperties
  <2> QED BY <1>2, <2>2, <2>3, OnIsBoolean, OnBeforeGrows
<1>6. OnAtEnd => OnAtEnd'
  <2> SUFFICES ASSUME OnAtEnd PROVE OnBefore(msgq', Len(msgq') + 1, IsOn)
    BY <1>3 DEF OnAtEnd
  <2>1. OnAfter(m, OnAtEnd)
    BY <1>4 DEF OnAfter
  <2>2. OnBefore(msgq, Len(msgq) + 1, IsOn)
    BY DEF OnAtEnd
  <2> QED BY <1>1, <1>2, <2>1, <2>2, OnIsBoolean, OnAtEndAppend
<1>7. OnAtEnd' \in BOOLEAN
  BY DEF OnAtEnd, OnBefore
<1>8. \A i \in 1..Len(callback) : Begins(callback[i]) => OnBefore(callback, i, OnAtEnd')
  BY <1>6, <1>7, OnIsBoolean, OnBeforeImplied DEF BeginsWhenOn
<1>9. MutedWhileOn'
  BY <1>1 DEF status, MutedWhileOn
<1> QED BY <1>3, <1>5, <1>8, <1>9 DEF BeginsWhenOn

(* A processed message leaves to the rest what it made of the engine. *)
LEMMA MuteProc == MuteInv /\ Proc => MutedWhileOn' /\ BeginsWhenOn'
<1> SUFFICES ASSUME MuteInv, Proc PROVE MutedWhileOn' /\ BeginsWhenOn'
  OBVIOUS
<1> USE DEF MuteInv
<1>1. /\ msgq # <<>> /\ Head(msgq) \in Messages
      /\ msgq' = Tail(msgq) /\ callback' = callback
  BY ProcMoves
<1>2. msgq \in Seq(Messages) /\ callback \in Seq(Messages)
  BY DEF TypeOK
<1>3. IsOn' = OnAfter(Head(msgq), IsOn)
  BY ProcTurns
<1>4. \A i \in 1..Len(msgq') : Begins(msgq'[i]) => OnBefore(msgq', i, IsOn')
  <2> TAKE i \in 1..Len(msgq')
  <2> HAVE Begins(msgq'[i])
  <2>1. i \in 1..Len(msgq) /\ i + 1 \in 1..Len(msgq) /\ Begins(msgq[i + 1])
    BY <1>1, <1>2, Shortened
  <2>2. OnBefore(msgq, i + 1, IsOn)
    BY <2>1 DEF BeginsWhenOn
  <2> QED BY <1>1, <1>2, <1>3, <2>1, <2>2, OnIsBoolean, OnBeforeTail
<1>5. OnAtEnd => OnAtEnd'
  <2> SUFFICES ASSUME OnAtEnd PROVE OnBefore(msgq', Len(msgq') + 1, IsOn')
    BY DEF OnAtEnd
  <2>1. Len(msgq) \in 1..Len(msgq) /\ Len(msgq') + 1 = Len(msgq)
    BY <1>1, <1>2, Shortened, LenProperties
  <2>2. OnBefore(msgq, Len(msgq) + 1, IsOn)
    BY DEF OnAtEnd
  <2> QED BY <1>1, <1>2, <1>3, <2>1, <2>2, OnIsBoolean, OnBeforeTail
<1>6. OnAtEnd' \in BOOLEAN
  BY DEF OnAtEnd, OnBefore
<1>7. \A i \in 1..Len(callback) : Begins(callback[i]) => OnBefore(callback, i, OnAtEnd')
  BY <1>5, <1>6, OnIsBoolean, OnBeforeImplied DEF BeginsWhenOn
<1>8. Begins(Head(msgq)) => IsOn
  <2>1. 1 \in 1..Len(msgq) /\ msgq[1] = Head(msgq)
    BY <1>1, <1>2, Shortened, LenProperties
  <2>2. OnBefore(msgq, 1, IsOn) => IsOn
    BY DEF OnBefore
  <2> QED BY <2>1, <2>2 DEF BeginsWhenOn
<1>9. MutedWhileOn'
  <2> SUFFICES ASSUME mute_session_state' = "IN_SESSION" PROVE IsOn'
    BY DEF MutedWhileOn, IsOn
  <2>1. ~TurnsOff(Head(msgq))
    BY ProcTurns
  <2>2. TurnsOn(Head(msgq)) \/ IsOn
    BY <1>8, ProcTurns DEF MutedWhileOn, IsOn
  <2> QED BY <1>3, <2>1, <2>2 DEF OnAfter
<1> QED BY <1>1, <1>4, <1>7, <1>9 DEF BeginsWhenOn

(* Posting a message moves it from the one queue to the other. *)
LEMMA MutePost == MuteInv /\ Post => MutedWhileOn' /\ BeginsWhenOn'
<1> SUFFICES ASSUME MuteInv, Post PROVE MutedWhileOn' /\ BeginsWhenOn'
  OBVIOUS
<1> USE DEF MuteInv
<1>0. PICK m \in Messages : m = Head(callback)
  BY PostMoves
<1>1. /\ callback # <<>>
      /\ msgq' = Append(msgq, m) /\ callback' = Tail(callback)
      /\ UNCHANGED status
  BY <1>0, PostMoves
<1>2. msgq \in Seq(Messages) /\ callback \in Seq(Messages)
  BY DEF TypeOK
<1>3. IsOn' = IsOn
  BY <1>1 DEF status, IsOn
<1>4. \A i \in 1..Len(msgq') : Begins(msgq'[i]) => OnBefore(msgq', i, IsOn)
  <2> TAKE i \in 1..Len(msgq')
  <2> HAVE Begins(msgq'[i])
  <2>1. CASE i \in 1..Len(msgq)
    <3>1. OnBefore(msgq, i, IsOn)
      BY <1>1, <1>2, <2>1, Appended DEF BeginsWhenOn
    <3>2. /\ msgq' \in Seq(Messages) /\ i \in 1..(Len(msgq) + 1)
          /\ \A k \in 1..Len(msgq) : msgq'[k] = msgq[k]
      BY <1>1, <1>2, <2>1, Appended, LenProperties
    <3> QED BY <1>2, <3>1, <3>2, OnIsBoolean, OnBeforeGrows
  <2>2. CASE i = Len(msgq) + 1
    <3>1. Begins(m)
      BY <1>1, <1>2, <2>2, Appended
    <3>2. 1 \in 1..Len(callback) /\ callback[1] = m
      BY <1>0, <1>1, <1>2, Shortened, LenProperties
    <3>3. OnBefore(callback, 1, OnAtEnd)
      BY <3>1, <3>2 DEF BeginsWhenOn
    <3>4. OnBefore(msgq, i, IsOn)
      BY <2>2, <3>3 DEF OnBefore, OnAtEnd
    <3>5. /\ msgq' \in Seq(Messages) /\ i \in 1..(Len(msgq) + 1)
          /\ \A k \in 1..Len(msgq) : msgq'[k] = msgq[k]
      BY <1>1, <1>2, <2>2, Appended, LenProperties
    <3> QED BY <1>2, <3>4, <3>5, OnIsBoolean, OnBeforeGrows
  <2> QED BY <1>1, <1>2, <2>1, <2>2, Appended
<1>5. OnAfter(m, OnAtEnd) => OnAtEnd'
  <2> SUFFICES ASSUME OnAfter(m, OnAtEnd)
               PROVE  OnBefore(msgq', Len(msgq') + 1, IsOn)
    BY <1>3 DEF OnAtEnd
  <2>1. OnAtEnd => OnBefore(msgq, Len(msgq) + 1, IsOn)
    BY DEF OnAtEnd
  <2> QED BY <1>1, <1>2, <2>1, OnIsBoolean, OnAtEndAppend
<1>6. OnAtEnd' \in BOOLEAN
  BY DEF OnAtEnd, OnBefore
<1>7. ASSUME NEW i \in 1..Len(callback'), Begins(callback'[i])
      PROVE  OnBefore(callback', i, OnAtEnd')
  <2>1. i \in 1..Len(callback) /\ i + 1 \in 1..Len(callback) /\ Begins(callback[i + 1])
    BY <1>1, <1>2, <1>7, Shortened
  <2>2. OnBefore(callback, i + 1, OnAtEnd)
    BY <2>1 DEF BeginsWhenOn
  <2>3. OnBefore(callback', i, OnAfter(m, OnAtEnd))
    BY <1>0, <1>1, <1>2, <2>1, <2>2, OnIsBoolean, OnBeforeTail
  <2> QED BY <1>5, <1>6, <2>3, OnIsBoolean, OnBeforeImplied
<1>8. MutedWhileOn'
  BY <1>1 DEF status, MutedWhileOn
<1> QED BY <1>3, <1>4, <1>7, <1>8 DEF BeginsWhenOn

(* What the modem raises comes after all the callback thread still has. *)
LEMMA MuteModem == MuteInv /\ Modem => MutedWhileOn' /\ BeginsWhenOn'
<1> SUFFICES ASSUME MuteInv, Modem PROVE MutedWhileOn' /\ BeginsWhenOn'
  OBVIOUS
<1> USE DEF MuteInv
<1>1. PICK messages \in Seq(Messages) :
         /\ Raise(messages)
         /\ \A i \in 1..Len(messages) :
               Begins(messages[i]) =>
                  i # 1 /\ i - 1 \in 1..Len(messages) /\ TurnsOn(messages[i - 1])
  BY ModemBegins
<1>2. /\ callback' = callback \o messages
      /\ UNCHANGED <<msgq, status>>
  BY <1>1 DEF Raise
<1>3. msgq \in Seq(Messages) /\ callback \in Seq(Messages)
  BY DEF TypeOK
<1>4. IsOn' = IsOn /\ OnAtEnd' = OnAtEnd
  BY <1>2 DEF status, IsOn, OnAtEnd
<1>5. ASSUME NEW i \in 1..Len(callback'), Begins(callback'[i])
      PROVE  OnBefore(callback', i, OnAtEnd)
  <2>0. /\ callback' \in Seq(Messages)
        /\ \A k \in 1..Len(callback) : callback'[k] = callback[k]
    BY <1>2, <1>3, Concatenated
  <2>1. CASE i \in 1..Len(callback)
    <3>1. OnBefore(callback, i, OnAtEnd) /\ i \in 1..(Len(callback) + 1)
      BY <1>5, <2>0, <2>1, <1>3, LenProperties DEF BeginsWhenOn
    <3> QED BY <1>3, <2>0, <3>1, OnIsBoolean, OnBeforeGrows
  <2>2. CASE \E d \in 1..Len(messages) : i = Len(callback) + d
    <3>1. PICK d \in 1..Len(messages) : i = Len(callback) + d
      BY <2>2
    <3>2. Begins(messages[d])
      BY <1>2, <1>3, <1>5, <3>1, Concatenated
    <3>3. d - 1 \in 1..Len(messages) /\ TurnsOn(messages[d - 1])
      BY <1>1, <3>2
    <3>4. callback'[Len(callback) + (d - 1)] = messages[d - 1]
      BY <1>2, <1>3, <3>3, Concatenated
    <3>5. Len(callback) + (d - 1) = i - 1 /\ i - 1 \in 1..(i - 1)
      BY <1>3, <3>1, <3>3, LenProperties
    <3>6. TurnsOn(callback'[i - 1]) /\ \A k \in ((i - 1) + 1)..(i - 1) : FALSE
      BY <3>3, <3>4, <3>5
    <3> QED BY <3>5, <3>6 DEF OnBefore
  <2> QED BY <1>2, <1>3, <2>1, <2>2, Concatenated
<1>6. MutedWhileOn'
  BY <1>2 DEF status, MutedWhileOn
<1> QED BY <1>2, <1>4, <1>5, <1>6 DEF BeginsWhenOn

(* A session is muted only while the engine is on as the host knows it.     *)
THEOREM MuteCorrect == Spec => []MutedWhileOn
<1>1. Init => MuteInv
  <2> SUFFICES ASSUME Init PROVE MutedWhileOn /\ BeginsWhenOn
    BY InitInv DEF MuteInv, SessionInv
  <2>1. Len(msgq) = 0 /\ Len(callback) = 0
    BY DEF Init
  <2> QED BY <2>1 DEF Init, MutedWhileOn, BeginsWhenOn
<1>2. TypeOK' /\ MuteInv /\ [Next]_vars => MuteInv'
  <2> SUFFICES ASSUME TypeOK', MuteInv, [Next]_vars PROVE MutedWhileOn' /\ BeginsWhenOn'
    BY DEF MuteInv
  <2>1. CASE UNCHANGED vars
    BY <2>1 DEF MuteInv, MutedWhileOn, BeginsWhenOn, OnAtEnd, IsOn, OnBefore,
                vars, queues, status
  <2> QED BY <2>1, MuteFramework, MuteProc, MutePost, MuteModem DEF Next
<1>3. MuteInv => MutedWhileOn
  BY DEF MuteInv
<1> QED BY TypeCorrect, <1>1, <1>2, <1>3, PTL DEF Spec

-----------------------------------------------------------------------------
(* The restart of the modem: as long as its loss or its return is queued,   *)
(* the message that restarts the session is queued behind it.               *)

Loses(m) == m.kind \in {"Down", "Ssr"}
Returns(q) == \E i \in 1..Len(q) : q[i].kind = "Up"
ReturnsAfter(q, i) == \E j \in 1..Len(q) : j > i /\ q[j].kind = "Up"

LossesReturn ==
    /\ \A i \in 1..Len(callback) :
          Loses(callback[i]) => ReturnsAfter(callback, i)
    /\ \A i \in 1..Len(msgq) :
          Loses(msgq[i]) => ReturnsAfter(msgq, i) \/ Returns(callback)

RestartInv == SessionInv /\ EventsRegistered /\ LossesReturn

(* Who raises a loss of the modem raises its return behind it. *)
LEMMA ModemReturns ==
    ASSUME TypeOK, Modem
    PROVE  \E messages \in Seq(Messages) :
              /\ Raise(messages)
              /\ \A i \in 1..Len(messages) :
                    Loses(messages[i]) => ReturnsAfter(messages, i)
<1> DEFINE Fine(messages) ==
              \A i \in 1..Len(messages) :
                 Loses(messages[i]) => ReturnsAfter(messages, i)
<1>1. CASE Crash
  <2> DEFINE s == <<Msg("Down", "none"), Msg("Ssr", "none"), Msg("Up", "none")>>
  <2>1. s \in Seq(Messages)
    BY DEF Msg, Messages
  <2>2. Fine(s)
    BY DEF Msg, Loses, ReturnsAfter
  <2>3. Raise(s)
    BY <1>1 DEF Crash
  <2> HIDE DEF s, Fine
  <2> QED BY <2>1, <2>2, <2>3 DEF Fine
<1>2. ASSUME NEW s \in Seq(Messages), \A i \in 1..Len(s) : ~Loses(s[i]), Raise(s)
      PROVE  \E messages \in Seq(Messages) : Raise(messages) /\ Fine(messages)
  BY <1>2
<1>3. CASE EngineOn \/ EngineOff
  <2>1. \A b \in BOOLEAN, s \in Statuses, t \in Statuses :
          LET q == <<Msg("UpdateEngineState", b), Msg("Status", s), Msg("Status", t)>>
          IN  q \in Seq(Messages) /\ \A i \in 1..Len(q) : ~Loses(q[i])
    BY DEF Msg, Messages, Loses
  <2>2. <<>> \in Seq(Messages) /\ \A i \in 1..Len(<<>>) : ~Loses(<<>>[i])
    BY EmptySeq
  <2>3. PICK q \in Seq(Messages) :
            (\A i \in 1..Len(q) : ~Loses(q[i])) /\ Raise(q)
    BY <1>3, <2>1, <2>2 DEF EngineOn, EngineOff, Statuses
  <2> HIDE DEF Fine
  <2> QED BY <1>2, <2>3 DEF Fine
<1>4. CASE ReportPosition
  <2> PICK report \in Reports : Raise(<<Msg("Position", report)>>)
    BY <1>4 DEF ReportPosition
  <2>1. <<Msg("Position", report)>> \in Seq(Messages)
    BY DEF Msg, Messages
  <2>2. \A i \in 1..Len(<<Msg("Position", report)>>) :
           ~Loses(<<Msg("Position", report)>>[i])
    BY DEF Msg, Loses
  <2> HIDE DEF Fine
  <2> QED BY <1>2, <2>1, <2>2 DEF Fine
<1>5. CASE PrivacyOverride
  <2>1. <<Msg("Mute", "none")>> \in Seq(Messages)
    BY DEF Msg, Messages
  <2>2. \A i \in 1..Len(<<Msg("Mute", "none")>>) : ~Loses(<<Msg("Mute", "none")>>[i])
    BY DEF Msg, Loses
  <2>3. Raise(<<Msg("Mute", "none")>>)
    BY <1>5 DEF PrivacyOverride
  <2> HIDE DEF Fine
  <2> QED BY <1>2, <2>1, <2>2, <2>3 DEF Fine
<1> QED BY <1>1, <1>3, <1>4, <1>5 DEF Modem

(* Every loss that is queued keeps a return queued behind it. *)
LEMMA LossesStep == TypeOK /\ LossesReturn /\ [Next]_vars => LossesReturn'
<1> SUFFICES ASSUME TypeOK, LossesReturn, [Next]_vars PROVE LossesReturn'
  OBVIOUS
<1>1. msgq \in Seq(Messages) /\ callback \in Seq(Messages)
  BY DEF TypeOK
<1>2. CASE UNCHANGED vars
  BY <1>2 DEF LossesReturn, ReturnsAfter, Returns, vars, queues
<1>3. CASE Framework
  <2> PICK m \in Messages :
          /\ m.kind \in {"PositionMode", "Start", "Stop", "DelAidData"}
          /\ msgq' = Append(msgq, m) /\ callback' = callback
    BY <1>3, FrameworkMoves
  <2>1. ~Loses(m)
    BY DEF Loses
  <2>2. ASSUME NEW i \in 1..Len(msgq'), Loses(msgq'[i])
        PROVE  ReturnsAfter(msgq', i) \/ Returns(callback)
    <3>1. i \in 1..Len(msgq) /\ Loses(msgq[i])
      BY <1>1, <2>1, <2>2, Appended
    <3>2. ReturnsAfter(msgq, i) => ReturnsAfter(msgq', i)
      BY <1>1, Appended DEF ReturnsAfter
    <3> QED BY <3>1, <3>2 DEF LossesReturn
  <2> QED BY <2>2 DEF LossesReturn
<1>4. CASE Proc
  <2>1. msgq # <<>> /\ msgq' = Tail(msgq) /\ callback' = callback
    BY <1>4, ProcMoves
  <2>2. ASSUME NEW i \in 1..Len(msgq'), Loses(msgq'[i])
        PROVE  ReturnsAfter(msgq', i) \/ Returns(callback)
    <3>1. i + 1 \in 1..Len(msgq) /\ Loses(msgq[i + 1])
      BY <1>1, <2>1, <2>2, Shortened
    <3>2. ASSUME NEW j \in 1..Len(msgq), j > i + 1, msgq[j].kind = "Up"
          PROVE  ReturnsAfter(msgq', i)
      <4>1. PICK d \in 1..Len(msgq') : d = j - 1
        BY <1>1, <2>1, <3>2, Shortened, LenProperties
      <4>2. d > i /\ msgq'[d] = msgq[j]
        BY <1>1, <2>1, <3>2, <4>1, Shortened
      <4> QED BY <3>2, <4>2 DEF ReturnsAfter
    <3> QED BY <3>1, <3>2 DEF LossesReturn, ReturnsAfter
  <2> QED BY <2>1, <2>2 DEF LossesReturn
<1>5. CASE Post
  <2>0. PICK m \in Messages : m = Head(callback)
    BY <1>5, PostMoves
  <2>1. callback # <<>> /\ msgq' = Append(msgq, m) /\ callback' = Tail(callback)
    BY <1>5, <2>0, PostMoves
  <2>2. 1 \in 1..Len(callback) /\ callback[1] = m
    BY <1>1, <2>0, <2>1, Shortened, LenProperties
  <2>3. ASSUME NEW i \in 1..Len(callback), ReturnsAfter(callback, i)
        PROVE  /\ i = 1 => Returns(callback')
               /\ \A l \in 1..Len(callback') : l + 1 = i => ReturnsAfter(callback', l)
    <3>1. PICK j \in 1..Len(callback) : j > i /\ callback[j].kind = "Up"
      BY <2>3 DEF ReturnsAfter
    <3>2. PICK d \in 1..Len(callback') : d = j - 1
      BY <1>1, <2>1, <3>1, Shortened, LenProperties
    <3>3. callback'[d] = callback[j] /\ \A l \in 1..Len(callback') : l + 1 = i => d > l
      BY <1>1, <2>1, <3>1, <3>2, Shortened
    <3> QED BY <3>1, <3>3 DEF Returns, ReturnsAfter
  <2>4. ASSUME NEW i \in 1..Len(callback'), Loses(callback'[i])
        PROVE  ReturnsAfter(callback', i)
    <3>1. i + 1 \in 1..Len(callback) /\ Loses(callback[i + 1])
      BY <1>1, <2>1, <2>4, Shortened
    <3> QED BY <2>3, <3>1 DEF LossesReturn
  <2>5. ASSUME NEW i \in 1..Len(msgq'), Loses(msgq'[i])
        PROVE  ReturnsAfter(msgq', i) \/ Returns(callback')
    <3>1. CASE i = Len(msgq) + 1
      <4>1. Loses(callback[1])
        BY <1>1, <2>1, <2>2, <2>5, <3>1, Appended
      <4> QED BY <2>2, <2>3, <4>1 DEF LossesReturn
    <3>2. CASE i \in 1..Len(msgq)
      <4>1. Loses(msgq[i])
        BY <1>1, <2>1, <2>5, <3>2, Appended
      <4>2. ReturnsAfter(msgq, i) => ReturnsAfter(msgq', i)
        BY <1>1, <2>1, Appended DEF ReturnsAfter
      <4>3. ASSUME NEW j \in 1..Len(callback), callback[j].kind = "Up"
            PROVE  ReturnsAfter(msgq', i) \/ Returns(callback')
        <5>1. CASE j = 1
          <6>1. Len(msgq) + 1 \in 1..Len(msgq') /\ Len(msgq) + 1 > i
                /\ msgq'[Len(msgq) + 1] = m
            BY <1>1, <2>1, <3>2, Appended, LenProperties
          <6> QED BY <2>2, <4>3, <5>1, <6>1 DEF ReturnsAfter
        <5>2. CASE j # 1
          <6>1. PICK d \in 1..Len(callback') : d = j - 1
            BY <1>1, <2>1, <5>2, Shortened, LenProperties
          <6>2. callback'[d] = callback[j]
            BY <1>1, <2>1, <6>1, Shortened
          <6> QED BY <4>3, <6>2 DEF Returns
        <5> QED BY <5>1, <5>2
      <4> QED BY <3>2, <4>1, <4>2, <4>3 DEF LossesReturn, Returns
    <3> QED BY <1>1, <2>1, <3>1, <3>2, Appended
  <2> QED BY <2>4, <2>5 DEF LossesReturn
<1>6. CASE Modem
  <2> PICK messages \in Seq(Messages) :
              /\ Raise(messages)
              /\ \A i \in 1..Len(messages) :
                    Loses(messages[i]) => ReturnsAfter(messages, i)
    BY <1>6, ModemReturns
  <2>1. callback' = callback \o messages /\ msgq' = msgq
    BY DEF Raise
  <2>2. ASSUME NEW i \in 1..Len(callback'), Loses(callback'[i])
        PROVE  ReturnsAfter(callback', i)
    <3>1. CASE i \in 1..Len(callback)
      <4>1. PICK j \in 1..Len(callback) : j > i /\ callback[j].kind = "Up"
        BY <1>1, <2>1, <2>2, <3>1, Concatenated DEF LossesReturn, ReturnsAfter
      <4>2. j \in 1..Len(callback') /\ callback'[j] = callback[j]
        BY <1>1, <2>1, Concatenated, LenProperties
      <4> QED BY <4>1, <4>2 DEF ReturnsAfter
    <3>2. ASSUME NEW d \in 1..Len(messages), i = Len(callback) + d
          PROVE  ReturnsAfter(callback', i)
      <4>1. PICK j \in 1..Len(messages) : j > d /\ messages[j].kind = "Up"
        BY <1>1, <2>1, <2>2, <3>2, Concatenated DEF ReturnsAfter
      <4>2. /\ Len(callback) + j \in 1..Len(callback')
            /\ Len(callback) + j > i
            /\ callback'[Len(callback) + j] = messages[j]
        BY <1>1, <2>1, <3>2, <4>1, Concatenated, LenProperties
      <4> QED BY <4>1, <4>2 DEF ReturnsAfter
    <3> QED BY <1>1, <2>1, <3>1, <3>2, Concatenated
  <2>3. Returns(callback) => Returns(callback')
    <3> SUFFICES ASSUME NEW j \in 1..Len(callback), callback[j].kind = "Up"
                 PROVE  Returns(callback')
      BY DEF Returns
    <3>1. j \in 1..Len(callback') /\ callback'[j] = callback[j]
      BY <1>1, <2>1, Concatenated, LenProperties
    <3> QED BY <3>1 DEF Returns
  <2> QED BY <2>1, <2>2, <2>3 DEF LossesReturn
<1> QED BY <1>2, <1>3, <1>4, <1>5, <1>6 DEF Next

(* What keeps the session waiting for the modem: a message of its restart.  *)
Awaits(q) == \E i \in 1..Len(q) : q[i].kind \in {"Down", "Ssr", "Up"}

(* Restarting, said of the two queues by their indices. *)
LEMMA RestartingIs ==
    ASSUME TypeOK
    PROVE  /\ ~Restarting => /\ api.handle = "open"
                             /\ ~Awaits(msgq) /\ ~Awaits(callback)
           /\ api.handle = "open" /\ ~Awaits(msgq) /\ ~Awaits(callback)
                => ~Restarting
<1>1. DOMAIN msgq = 1..Len(msgq) /\ DOMAIN callback = 1..Len(callback)
  BY DEF TypeOK
<1>2. Queued = {msgq[i] : i \in 1..Len(msgq)} \cup
               {callback[i] : i \in 1..Len(callback)}
  BY <1>1 DEF Queued
<1> QED BY <1>2 DEF Restarting, Awaits

(* The same of the next state. *)
LEMMA RestartingPrime ==
    ASSUME TypeOK'
    PROVE  ~Restarting' => api'.handle = "open" /\ ~Awaits(msgq')
                           /\ ~Awaits(callback')
<1>1. DOMAIN msgq' = 1..Len(msgq') /\ DOMAIN callback' = 1..Len(callback')
  BY DEF TypeOK
<1>2. Queued' = {msgq'[i] : i \in 1..Len(msgq')} \cup
                {callback'[i] : i \in 1..Len(callback')}
  BY <1>1 DEF Queued
<1> QED BY <1>2 DEF Restarting, Awaits

(* The messages of a restart that are queued stay queued, unless the first  *)
(* of them is processed.                                                    *)
LEMMA AwaitsMoves ==
    ASSUME TypeOK
    PROVE  /\ Framework \/ Modem \/ Post =>
                (Awaits(msgq) \/ Awaits(callback) => Awaits(msgq') \/ Awaits(callback'))
           /\ Proc => callback' = callback
                      /\ (Awaits(msgq) =>
                            \/ Head(msgq).kind \in {"Down", "Ssr", "Up"}
                            \/ Awaits(msgq'))
           /\ Proc /\ LossesReturn /\ Head(msgq).kind \in {"Down", "Ssr"} =>
                Awaits(msgq') \/ Awaits(callback)
<1>1. msgq \in Seq(Messages) /\ callback \in Seq(Messages)
  BY DEF TypeOK
<1>2. ASSUME Framework
      PROVE  Awaits(msgq) \/ Awaits(callback) => Awaits(msgq') \/ Awaits(callback')
  <2> PICK m \in Messages : msgq' = Append(msgq, m) /\ callback' = callback
    BY <1>2, FrameworkMoves
  <2>1. \A i \in 1..Len(msgq) : i \in 1..Len(msgq') /\ msgq'[i] = msgq[i]
    BY <1>1, Appended, LenProperties
  <2> QED BY <2>1 DEF Awaits
<1>3. ASSUME Modem
      PROVE  Awaits(msgq) \/ Awaits(callback) => Awaits(msgq') \/ Awaits(callback')
  <2> PICK messages \in Seq(Messages) : Raise(messages)
    BY <1>3, ModemReturns
  <2>1. callback' = callback \o messages /\ msgq' = msgq
    BY DEF Raise
  <2>2. \A i \in 1..Len(callback) : i \in 1..Len(callback') /\ callback'[i] = callback[i]
    BY <1>1, <2>1, Concatenated, LenProperties
  <2> QED BY <2>1, <2>2 DEF Awaits
<1>4. ASSUME Post
      PROVE  Awaits(msgq) \/ Awaits(callback) => Awaits(msgq') \/ Awaits(callback')
  <2>1. PICK m \in Messages : m = Head(callback)
    BY <1>4, PostMoves
  <2>2. callback # <<>> /\ msgq' = Append(msgq, m) /\ callback' = Tail(callback)
    BY <1>4, <2>1, PostMoves
  <2>3. \A i \in 1..Len(msgq) : i \in 1..Len(msgq') /\ msgq'[i] = msgq[i]
    BY <1>1, <2>2, Appended, LenProperties
  <2>4. Len(msgq) + 1 \in 1..Len(msgq') /\ msgq'[Len(msgq) + 1] = callback[1]
    BY <1>1, <2>1, <2>2, Appended, Shortened, LenProperties
  <2>5. ASSUME NEW i \in 1..Len(callback), i # 1
        PROVE  \E d \in 1..Len(callback') : callback'[d] = callback[i]
    <3>1. PICK d \in 1..Len(callback') : i = d + 1
      BY <1>1, <2>2, <2>5, Shortened, LenProperties
    <3> QED BY <1>1, <2>2, <3>1, Shortened
  <2>6. Awaits(msgq) => Awaits(msgq')
    BY <2>3 DEF Awaits
  <2>7. Awaits(callback) => Awaits(msgq') \/ Awaits(callback')
    BY <2>4, <2>5 DEF Awaits
  <2> QED BY <2>6, <2>7
<1>5. ASSUME Proc
      PROVE  /\ callback' = callback
             /\ Awaits(msgq) => \/ Head(msgq).kind \in {"Down", "Ssr", "Up"}
                                \/ Awaits(msgq')
             /\ LossesReturn /\ Head(msgq).kind \in {"Down", "Ssr"} =>
                  Awaits(msgq') \/ Awaits(callback)
  <2>1. msgq # <<>> /\ msgq' = Tail(msgq) /\ callback' = callback
    BY <1>5, ProcMoves
  <2>2. 1 \in 1..Len(msgq) /\ msgq[1] = Head(msgq)
    BY <1>1, <2>1, Shortened, LenProperties
  <2>3. ASSUME NEW i \in 1..Len(msgq), i # 1
        PROVE  \E d \in 1..Len(msgq') : msgq'[d] = msgq[i]
    <3>1. PICK d \in 1..Len(msgq') : i = d + 1
      BY <1>1, <2>1, <2>3, Shortened, LenProperties
    <3> QED BY <1>1, <2>1, <3>1, Shortened
  <2>4. Awaits(msgq) => Head(msgq).kind \in {"Down", "Ssr", "Up"} \/ Awaits(msgq')
    BY <2>2, <2>3 DEF Awaits
  <2>5. ASSUME LossesReturn, Head(msgq).kind \in {"Down", "Ssr"}
        PROVE  Awaits(msgq') \/ Awaits(callback)
    <3>1. ReturnsAfter(msgq, 1) \/ Returns(callback)
      BY <2>2, <2>5 DEF LossesReturn, Loses
    <3>2. ReturnsAfter(msgq, 1) => Awaits(msgq')
      BY <2>3 DEF ReturnsAfter, Awaits
    <3> QED BY <3>1, <3>2 DEF Returns, Awaits
  <2> QED BY <2>1, <2>4, <2>5
<1> QED BY <1>2, <1>3, <1>4, <1>5

(* A step that processes no message of a restart, and leaves the mask or     *)
(* registers the whole one, keeps the events registered.                    *)
LEMMA EventsKept ==
    ASSUME TypeOK, TypeOK', EventsRegistered,
           Awaits(msgq) \/ Awaits(callback) => Awaits(msgq') \/ Awaits(callback'),
           mNavigating' => \/ /\ mNavigating /\ api'.mask = api.mask
                              /\ api'.refused = api.refused
                           \/ ~api'.refused => api'.mask = "session",
           api'.handle = api.handle
    PROVE  EventsRegistered'
<1> SUFFICES ASSUME mNavigating', ~Restarting', ~api'.refused
             PROVE  api'.mask = "session"
  BY DEF EventsRegistered
<1>1. api'.handle = "open" /\ ~Awaits(msgq') /\ ~Awaits(callback')
  <2>1. TypeOK' => (~Restarting' => api'.handle = "open" /\ ~Awaits(msgq')
                                    /\ ~Awaits(callback'))
    BY RestartingPrime
  <2> QED BY <2>1
<1>2. ~Awaits(msgq) /\ ~Awaits(callback) /\ api.handle = "open"
  BY <1>1, Zenon
<1>3. ~Restarting
  BY <1>2, RestartingIs
<1> QED BY <1>1, <1>3 DEF EventsRegistered

(* Whatever is processed, the adapter navigates only with the whole mask,   *)
(* unless the modem refused it.                                             *)
LEMMA EventsProc ==
    ASSUME RestartInv, SessionInv', Proc
    PROVE  EventsRegistered'
<1> USE DEF RestartInv, SessionInv
<1>1. CASE ProcPositionMode
  <2>1. Head(msgq).kind = "PositionMode" /\ mNavigating' = mNavigating
        /\ (api' = api \/ StartsFix(api'))
    BY <1>1, StartType DEF ProcPositionMode, Take
  <2> QED BY <2>1, AwaitsMoves, EventsKept DEF StartsFix
<1>2. CASE ProcStart
  <2>1. /\ Head(msgq).kind = "Start"
        /\ (mNavigating /\ api' = api) \/ StartsFix(api')
    BY <1>2, StartType DEF ProcStart, Take
  <2> QED BY <2>1, AwaitsMoves, EventsKept DEF StartsFix
<1>3. CASE ProcStop \/ ProcPosition
  <2>1. Head(msgq).kind \in {"Stop", "Position"}
    BY <1>3 DEF ProcStop, ProcPosition, Take
  <2>2. ~mNavigating' \/ (mNavigating' = mNavigating /\ api' = api)
    BY <1>3 DEF ProcStop, ProcPosition, adapter
  <2>3. api'.handle = api.handle
    BY <1>3, StopType DEF ProcStop, ProcPosition, StopsFix
  <2> QED BY <2>1, <2>2, <2>3, AwaitsMoves, EventsKept
<1>4. CASE ProcUpdateEngineState
  <2>1. Head(msgq).kind = "UpdateEngineState" /\ mNavigating' = mNavigating
    BY <1>4 DEF ProcUpdateEngineState, Take, adapter
  <2>2. Arg \in BOOLEAN
    BY <1>4, TakeType, Arguments DEF ProcUpdateEngineState, Arg
  <2>3. mNavigating => api.mInSession
    BY DEF Navigates
  <2> QED BY <1>4, <2>1, <2>2, <2>3, EngineStateType, AwaitsMoves, EventsKept
<1>5. CASE ProcStatus \/ ProcDelAidData \/ ProcMute
  <2>1. Head(msgq).kind \in {"Status", "DelAidData", "Mute"}
        /\ mNavigating' = mNavigating /\ api' = api
    BY <1>5 DEF ProcStatus, ProcDelAidData, ProcMute, Take, adapter
  <2> QED BY <2>1, AwaitsMoves, EventsKept
<1>6. CASE ProcDown \/ ProcSsr
  <2>1. Head(msgq).kind \in {"Down", "Ssr"}
    BY <1>6 DEF ProcDown, ProcSsr, Take
  <2>2. Awaits(msgq') \/ Awaits(callback')
    BY <2>1, AwaitsMoves
  <2> QED BY <2>2, RestartingPrime DEF EventsRegistered
<1>7. CASE ProcUp
  <2>1. mNavigating' => mNavigating
    BY <1>7 DEF ProcUp, adapter
  <2>2. mNavigating => StartsFix(api')
    BY <1>7, StartType DEF ProcUp
  <2>3. mNavigating' /\ ~api'.refused => api'.mask = "session"
    BY <2>1, <2>2 DEF StartsFix
  <2> QED BY <2>3 DEF EventsRegistered
<1> QED BY <1>1, <1>2, <1>3, <1>4, <1>5, <1>6, <1>7 DEF Proc

(* While the adapter navigates and no restart is under way, the whole event *)
(* mask is registered with the modem, unless the modem refused it.          *)
THEOREM EventsCorrect == Spec => []EventsRegistered
<1>1. Init => RestartInv
  <2> SUFFICES ASSUME Init PROVE EventsRegistered /\ LossesReturn
    BY InitInv DEF RestartInv
  <2>1. Len(msgq) = 0 /\ Len(callback) = 0 /\ ~mNavigating
    BY DEF Init
  <2> QED BY <2>1 DEF EventsRegistered, LossesReturn
<1>2. SessionInv' /\ RestartInv /\ [Next]_vars => RestartInv'
  <2> SUFFICES ASSUME SessionInv', RestartInv, [Next]_vars
               PROVE  EventsRegistered' /\ LossesReturn'
    BY DEF RestartInv
  <2> USE DEF RestartInv, SessionInv
  <2>1. LossesReturn'
    BY LossesStep
  <2>2. EventsRegistered'
    <3>1. CASE Proc
      BY <3>1, EventsProc
    <3>2. CASE Framework \/ Post
      <4>1. api' = api /\ mNavigating' = mNavigating
        BY <3>2, FrameworkMoves, PostMoves DEF adapter
      <4> QED BY <3>2, <4>1, AwaitsMoves, EventsKept
    <3>3. CASE Crash
      <4>1. api'.handle = "stale"
        BY <3>3 DEF Crash, TypeOK
      <4> QED BY <4>1, RestartingPrime DEF EventsRegistered
    <3>4. CASE Modem /\ ~Crash
      <4>1. api' = api /\ mNavigating' = mNavigating
        BY <3>4 DEF Modem, EngineOn, EngineOff, ReportPosition, PrivacyOverride,
                    Raise, adapter
      <4> QED BY <3>4, <4>1, AwaitsMoves, EventsKept
    <3>5. CASE UNCHANGED vars
      BY <3>5 DEF EventsRegistered, Restarting, Queued, vars, queues, adapter
    <3> QED BY <3>1, <3>2, <3>3, <3>4, <3>5 DEF Next
  <2> QED BY <2>1, <2>2
<1>3. RestartInv => EventsRegistered
  BY DEF RestartInv
<1> QED BY SessionCorrect, <1>1, <1>2, <1>3, PTL DEF Spec

-----------------------------------------------------------------------------
(* The framework's wishes: what the queued messages will have made of the   *)
(* adapter once they are processed, as long as nothing fails.  The last     *)
(* message that starts or stops decides whether it navigates, the last one  *)
(* that sets or drops the criteria by which.                                *)

NoneOf(q, kinds) == \A k \in 1..Len(q) : q[k].kind \notin kinds
LastOf(q, i, kinds) ==
    /\ i \in 1..Len(q) /\ q[i].kind \in kinds
    /\ \A k \in (i + 1)..Len(q) : q[k].kind \notin kinds

Navigation == {"Start", "Stop"}
Setting    == {"PositionMode", "Stop"}
Restart    == {"Down", "Ssr", "Up"}
Raised     == {"Mute", "Position", "Status", "UpdateEngineState"}

NavigatesAtEnd ==
    \/ NoneOf(msgq, Navigation) /\ mNavigating = fw.navigating
    \/ \E i \in 1..Len(msgq) : /\ LastOf(msgq, i, Navigation)
                               /\ (msgq[i].kind = "Start") = fw.navigating

SetAtEnd ==
    fw.criteria # NoCriteria =>
       \/ NoneOf(msgq, Setting) /\ mFixCriteria = fw.criteria
       \/ \E i \in 1..Len(msgq) : /\ LastOf(msgq, i, Setting)
                                  /\ msgq[i] = Msg("PositionMode", fw.criteria)

WishInv ==
    /\ api.handle = "open"
    /\ NoneOf(msgq, Restart)
    /\ \A i \in 1..Len(callback) : callback[i].kind \in Raised
    /\ session = IF mNavigating THEN Started(mFixCriteria, "ok") ELSE NoSession
    /\ fw.navigating => fw.criteria # NoCriteria
    /\ NavigatesAtEnd
    /\ SetAtEnd

(* Every start and stop succeeds, and no session ends by itself. *)
NothingFails ==
    /\ StartOutcomes = {"ok"} /\ StopOutcomes = {"ok"}
    /\ Recurrences = {"PERIODIC"}

CalmInv == NothingFails /\ TypeOK /\ (crashes = 0 => WishInv)

(* A message of another kind is appended: the last of these kinds stays. *)
LEMMA LastStays ==
    ASSUME NEW q \in Seq(Messages), NEW m \in Messages, NEW kinds,
           m.kind \notin kinds
    PROVE  /\ NoneOf(q, kinds) => NoneOf(Append(q, m), kinds)
           /\ \A i \in 1..Len(q) :
                 LastOf(q, i, kinds) => /\ i \in 1..Len(Append(q, m))
                                      /\ LastOf(Append(q, m), i, kinds)
                                      /\ Append(q, m)[i] = q[i]
<1>1. NoneOf(q, kinds) => NoneOf(Append(q, m), kinds)
  BY Appended DEF NoneOf
<1>2. ASSUME NEW i \in 1..Len(q), LastOf(q, i, kinds)
      PROVE  /\ i \in 1..Len(Append(q, m))
             /\ LastOf(Append(q, m), i, kinds)
             /\ Append(q, m)[i] = q[i]
  <2>1. i \in 1..Len(Append(q, m)) /\ Append(q, m)[i] = q[i]
    BY Appended, LenProperties
  <2>2. ASSUME NEW k \in (i + 1)..Len(Append(q, m))
        PROVE  Append(q, m)[k].kind \notin kinds
    <3>1. k = Len(q) + 1 \/ (k \in 1..Len(q) /\ k \in (i + 1)..Len(q))
      BY Appended, LenProperties
    <3> QED BY <1>2, <3>1, Appended DEF LastOf
  <2> QED BY <1>2, <2>1, <2>2 DEF LastOf
<1> QED BY <1>1, <1>2

(* A message of these kinds is appended: it is the last. *)
LEMMA LastAppended ==
    ASSUME NEW q \in Seq(Messages), NEW m \in Messages, NEW kinds, m.kind \in kinds
    PROVE  \E i \in 1..Len(Append(q, m)) :
              LastOf(Append(q, m), i, kinds) /\ Append(q, m)[i] = m
<1>1. /\ Len(q) + 1 \in 1..Len(Append(q, m))
      /\ Append(q, m)[Len(q) + 1] = m
      /\ \A k \in ((Len(q) + 1) + 1)..Len(Append(q, m)) : FALSE
  BY Appended, LenProperties
<1> QED BY <1>1 DEF LastOf

(* The first message is taken: it was the last, or the last stays. *)
LEMMA LastTaken ==
    ASSUME NEW q \in Seq(Messages), q # <<>>, NEW kinds
    PROVE  /\ NoneOf(q, kinds) => NoneOf(Tail(q), kinds) /\ Head(q).kind \notin kinds
           /\ \A i \in 1..Len(q) :
                 LastOf(q, i, kinds) =>
                    \/ q[i] = Head(q) /\ NoneOf(Tail(q), kinds)
                    \/ \E d \in 1..Len(Tail(q)) :
                          LastOf(Tail(q), d, kinds) /\ Tail(q)[d] = q[i]
<1>1. NoneOf(q, kinds) => NoneOf(Tail(q), kinds) /\ Head(q).kind \notin kinds
  <2>1. 1 \in 1..Len(q) /\ q[1] = Head(q)
    BY Shortened, LenProperties
  <2> QED BY <2>1, Shortened DEF NoneOf
<1>2. ASSUME NEW i \in 1..Len(q), LastOf(q, i, kinds), i = 1
      PROVE  q[i] = Head(q) /\ NoneOf(Tail(q), kinds)
  <2>1. \A k \in 1..Len(Tail(q)) : k + 1 \in (i + 1)..Len(q) /\ Tail(q)[k] = q[k + 1]
    BY <1>2, Shortened, LenProperties
  <2> QED BY <1>2, <2>1, Shortened DEF NoneOf, LastOf
<1>3. ASSUME NEW i \in 1..Len(q), LastOf(q, i, kinds), i # 1
      PROVE  \E d \in 1..Len(Tail(q)) :
                LastOf(Tail(q), d, kinds) /\ Tail(q)[d] = q[i]
  <2>1. PICK d \in 1..Len(Tail(q)) : i = d + 1
    BY <1>3, Shortened, LenProperties
  <2>2. \A k \in (d + 1)..Len(Tail(q)) :
           k + 1 \in (i + 1)..Len(q) /\ Tail(q)[k] = q[k + 1]
    BY <2>1, Shortened, LenProperties
  <2>3. Tail(q)[d] = q[i]
    BY <2>1, Shortened
  <2> QED BY <1>3, <2>2, <2>3 DEF LastOf
<1> QED BY <1>1, <1>2, <1>3

(* The first message is taken and done: the rest still leads to the wish. *)
LEMMA NavigatesTaken ==
    ASSUME TypeOK, NavigatesAtEnd, msgq # <<>>, msgq' = Tail(msgq), fw' = fw,
           Head(msgq).kind \notin Navigation => mNavigating' = mNavigating,
           Head(msgq).kind \in Navigation =>
              mNavigating' = (Head(msgq).kind = "Start")
    PROVE  NavigatesAtEnd'
<1>1. msgq \in Seq(Messages)
  BY DEF TypeOK
<1>2. CASE NoneOf(msgq, Navigation) /\ mNavigating = fw.navigating
  <2>1. NoneOf(msgq', Navigation) /\ Head(msgq).kind \notin Navigation
    BY <1>1, <1>2, LastTaken
  <2> QED BY <1>2, <2>1 DEF NavigatesAtEnd
<1>3. ASSUME NEW i \in 1..Len(msgq), LastOf(msgq, i, Navigation),
             (msgq[i].kind = "Start") = fw.navigating
      PROVE  NavigatesAtEnd'
  <2>1. CASE msgq[i] = Head(msgq) /\ NoneOf(msgq', Navigation)
    <3>1. Head(msgq).kind \in Navigation
      BY <1>3, <2>1 DEF LastOf
    <3>2. mNavigating' = fw'.navigating
      BY <1>3, <2>1, <3>1
    <3> QED BY <2>1, <3>2 DEF NavigatesAtEnd
  <2>2. ASSUME NEW d \in 1..Len(msgq'), LastOf(msgq', d, Navigation),
               msgq'[d] = msgq[i]
        PROVE  NavigatesAtEnd'
    <3>1. (msgq'[d].kind = "Start") = fw'.navigating
      BY <1>3, <2>2
    <3> QED BY <2>2, <3>1 DEF NavigatesAtEnd
  <2> QED BY <1>1, <1>3, <2>1, <2>2, LastTaken
<1> QED BY <1>2, <1>3 DEF NavigatesAtEnd

(* The same of the criteria. *)
LEMMA SetTaken ==
    ASSUME TypeOK, SetAtEnd, msgq # <<>>, msgq' = Tail(msgq), fw' = fw,
           Head(msgq).kind \notin Setting => mFixCriteria' = mFixCriteria,
           Head(msgq).kind = "PositionMode" => mFixCriteria' = Head(msgq).arg
    PROVE  SetAtEnd'
<1> SUFFICES ASSUME fw.criteria # NoCriteria PROVE SetAtEnd'
  BY DEF SetAtEnd
<1>1. msgq \in Seq(Messages)
  BY DEF TypeOK
<1>2. CASE NoneOf(msgq, Setting) /\ mFixCriteria = fw.criteria
  <2>1. NoneOf(msgq', Setting) /\ Head(msgq).kind \notin Setting
    BY <1>1, <1>2, LastTaken
  <2> QED BY <1>2, <2>1 DEF SetAtEnd
<1>3. ASSUME NEW i \in 1..Len(msgq), LastOf(msgq, i, Setting),
             msgq[i] = Msg("PositionMode", fw.criteria)
      PROVE  SetAtEnd'
  <2>1. CASE msgq[i] = Head(msgq) /\ NoneOf(msgq', Setting)
    <3>1. mFixCriteria' = fw'.criteria
      BY <1>3, <2>1 DEF Msg
    <3> QED BY <2>1, <3>1 DEF SetAtEnd
  <2>2. ASSUME NEW d \in 1..Len(msgq'), LastOf(msgq', d, Setting),
               msgq'[d] = msgq[i]
        PROVE  SetAtEnd'
    <3>1. msgq'[d] = Msg("PositionMode", fw'.criteria)
      BY <1>3, <2>2
    <3> QED BY <2>2, <3>1 DEF SetAtEnd
  <2> QED BY <1>1, <1>3, <2>1, <2>2, LastTaken
<1> QED BY <1>2, <1>3 DEF SetAtEnd

(* A message of another kind is appended: it changes no wish. *)
LEMMA WishesStay ==
    ASSUME TypeOK, NEW m \in Messages, msgq' = Append(msgq, m),
           UNCHANGED <<mNavigating, mFixCriteria>>
    PROVE  /\ /\ m.kind \notin Navigation /\ fw'.navigating = fw.navigating
              /\ NavigatesAtEnd
              => NavigatesAtEnd'
           /\ /\ m.kind \notin Setting /\ fw'.criteria = fw.criteria /\ SetAtEnd
              => SetAtEnd'
<1>1. msgq \in Seq(Messages)
  BY DEF TypeOK
<1>2. ASSUME m.kind \notin Navigation, fw'.navigating = fw.navigating, NavigatesAtEnd
      PROVE  NavigatesAtEnd'
  <2>1. CASE NoneOf(msgq, Navigation) /\ mNavigating = fw.navigating
    BY <1>1, <1>2, <2>1, LastStays DEF NavigatesAtEnd
  <2>2. ASSUME NEW i \in 1..Len(msgq), LastOf(msgq, i, Navigation),
               (msgq[i].kind = "Start") = fw.navigating
        PROVE  NavigatesAtEnd'
    <3>1. /\ i \in 1..Len(msgq') /\ LastOf(msgq', i, Navigation)
          /\ msgq'[i] = msgq[i]
      BY <1>1, <1>2, <2>2, LastStays
    <3>2. (msgq'[i].kind = "Start") = fw'.navigating
      BY <1>2, <2>2, <3>1
    <3> QED BY <3>1, <3>2 DEF NavigatesAtEnd
  <2> QED BY <1>2, <2>1, <2>2 DEF NavigatesAtEnd
<1>3. ASSUME m.kind \notin Setting, fw'.criteria = fw.criteria, SetAtEnd
      PROVE  SetAtEnd'
  <2>1. CASE NoneOf(msgq, Setting) /\ mFixCriteria = fw.criteria
    BY <1>1, <1>3, <2>1, LastStays DEF SetAtEnd
  <2>2. ASSUME NEW i \in 1..Len(msgq), LastOf(msgq, i, Setting),
               msgq[i] = Msg("PositionMode", fw.criteria)
        PROVE  SetAtEnd'
    <3>1. /\ i \in 1..Len(msgq') /\ LastOf(msgq', i, Setting)
          /\ msgq'[i] = msgq[i]
      BY <1>1, <1>3, <2>2, LastStays
    <3>2. msgq'[i] = Msg("PositionMode", fw'.criteria)
      BY <1>3, <2>2, <3>1
    <3> QED BY <3>1, <3>2 DEF SetAtEnd
  <2> QED BY <1>3, <2>1, <2>2 DEF SetAtEnd
<1> QED BY <1>2, <1>3

(* A message that starts or stops, or sets the criteria, is appended: it is *)
(* the wish.                                                                *)
LEMMA WishesAppended ==
    ASSUME TypeOK, NEW m \in Messages, msgq' = Append(msgq, m)
    PROVE  /\ m.kind \in Navigation /\ (m.kind = "Start") = fw'.navigating
                => NavigatesAtEnd'
           /\ m = Msg("PositionMode", fw'.criteria) => SetAtEnd'
<1>1. msgq \in Seq(Messages)
  BY DEF TypeOK
<1>2. ASSUME m.kind \in Navigation, (m.kind = "Start") = fw'.navigating
      PROVE  NavigatesAtEnd'
  <2>1. PICK i \in 1..Len(msgq') : LastOf(msgq', i, Navigation) /\ msgq'[i] = m
    BY <1>1, <1>2, LastAppended
  <2>2. (msgq'[i].kind = "Start") = fw'.navigating
    BY <1>2, <2>1
  <2> QED BY <2>1, <2>2 DEF NavigatesAtEnd
<1>3. ASSUME m = Msg("PositionMode", fw'.criteria)
      PROVE  SetAtEnd'
  <2>1. m.kind \in Setting
    BY <1>3 DEF Msg, Setting
  <2>2. PICK i \in 1..Len(msgq') : LastOf(msgq', i, Setting) /\ msgq'[i] = m
    BY <1>1, <2>1, LastAppended
  <2> QED BY <1>3, <2>2 DEF SetAtEnd
<1> QED BY <1>2, <1>3

(* Started by criteria, the modem runs a session, in their mode. *)
LEMMA StartedRuns ==
    ASSUME NEW crit \in CriteriaType
    PROVE  /\ Started(crit, "ok") # NoSession
           /\ crit.mode \in Modes => Started(crit, "ok").mode = crit.mode
BY CriteriaAssumption DEF CriteriaType, Started, NoSession

(* A call of the framework: its message is what is wanted at the end. *)
LEMMA WishFramework == TypeOK /\ WishInv /\ Framework => WishInv'
<1> SUFFICES ASSUME TypeOK, WishInv, Framework PROVE WishInv'
  OBVIOUS
<1>1. msgq \in Seq(Messages)
  BY DEF TypeOK
<1>2. PICK m \in Messages :
          /\ m.kind \in {"PositionMode", "Start", "Stop", "DelAidData"}
          /\ msgq' = Append(msgq, m)
          /\ UNCHANGED <<callback, adapter, status, api, modem>>
  BY FrameworkMoves
<1>3. /\ UNCHANGED <<callback, mNavigating, mFixCriteria, api, session>>
      /\ m.kind \notin Restart
  BY <1>2 DEF adapter, modem, Restart
<1>4. /\ api'.handle = "open"
      /\ NoneOf(msgq', Restart)
      /\ \A i \in 1..Len(callback') : callback'[i].kind \in Raised
      /\ session' = IF mNavigating' THEN Started(mFixCriteria', "ok") ELSE NoSession
  BY <1>1, <1>2, <1>3, LastStays DEF WishInv, Started
<1>6. CASE SetPositionMode
  <2> PICK c \in Criteria : /\ fw' = [fw EXCEPT !.criteria = c]
                            /\ Call("PositionMode", c)
    BY <1>6 DEF SetPositionMode
  <2>1. /\ fw'.navigating = fw.navigating /\ fw'.criteria = c /\ c # NoCriteria
    BY CriteriaAssumption DEF TypeOK, Criteria, NoCriteria
  <2>2. Msg("PositionMode", c) \in Messages
    BY DEF Msg, Messages
  <2>3. /\ msgq' = Append(msgq, Msg("PositionMode", c))
        /\ Msg("PositionMode", c).kind \in Setting
        /\ Msg("PositionMode", c).kind \notin Navigation
    BY DEF Call, Msg, Setting, Navigation
  <2>4. SetAtEnd'
    BY <2>1, <2>2, <2>3, WishesAppended
  <2>5. NavigatesAtEnd'
    BY <1>3, <2>1, <2>2, <2>3, WishesStay DEF WishInv
  <2> QED BY <1>4, <2>1, <2>4, <2>5 DEF WishInv, Started
<1>7. CASE StartFix
  <2>1. /\ fw'.navigating = TRUE /\ fw'.criteria = fw.criteria
        /\ fw.criteria # NoCriteria
        /\ Call("Start", "none")
    BY <1>7 DEF StartFix, TypeOK
  <2>2. Msg("Start", "none") \in Messages
    BY DEF Msg, Messages
  <2>3. /\ msgq' = Append(msgq, Msg("Start", "none"))
        /\ Msg("Start", "none").kind = "Start"
        /\ Msg("Start", "none").kind \notin Setting
        /\ Msg("Start", "none").kind \in Navigation
    BY <2>1 DEF Call, Msg, Setting, Navigation
  <2>4. SetAtEnd'
    BY <1>3, <2>1, <2>2, <2>3, WishesStay DEF WishInv
  <2>5. NavigatesAtEnd'
    BY <2>1, <2>2, <2>3, WishesAppended
  <2> QED BY <1>4, <2>1, <2>4, <2>5 DEF WishInv, Started
<1>8. CASE StopFix
  <2>1. /\ fw'.navigating = FALSE /\ fw'.criteria = NoCriteria
        /\ Call("Stop", "none")
    BY <1>8 DEF StopFix
  <2>2. Msg("Stop", "none") \in Messages
    BY DEF Msg, Messages
  <2>3. /\ msgq' = Append(msgq, Msg("Stop", "none"))
        /\ Msg("Stop", "none").kind = "Stop"
        /\ Msg("Stop", "none").kind \in Navigation
    BY <2>1 DEF Call, Msg, Navigation
  <2>4. SetAtEnd'
    BY <2>1 DEF SetAtEnd
  <2>5. NavigatesAtEnd'
    BY <2>1, <2>2, <2>3, WishesAppended
  <2> QED BY <1>4, <2>1, <2>4, <2>5 DEF WishInv, Started
<1>9. CASE DeleteAidingData
  <2> PICK f \in SUBSET AidingBits : Call("DelAidData", f) /\ fw' = fw
    BY <1>9 DEF DeleteAidingData
  <2>2. Msg("DelAidData", f) \in Messages
    BY DEF Msg, Messages
  <2>3. /\ msgq' = Append(msgq, Msg("DelAidData", f))
        /\ Msg("DelAidData", f).kind \notin Setting
        /\ Msg("DelAidData", f).kind \notin Navigation
    BY DEF Call, Msg, Setting, Navigation
  <2>4. SetAtEnd'
    BY <1>3, <2>2, <2>3, WishesStay DEF WishInv
  <2>5. NavigatesAtEnd'
    BY <1>3, <2>2, <2>3, WishesStay DEF WishInv
  <2> QED BY <1>4, <2>4, <2>5 DEF WishInv, Started
<1> QED BY <1>6, <1>7, <1>8, <1>9 DEF Framework

(* A processed message has done what it was the last to ask for. *)
LEMMA WishProc ==
    ASSUME NothingFails, TypeOK, WishInv, Proc
    PROVE  WishInv'
<1> DEFINE m == Head(msgq)
<1>1. msgq \in Seq(Messages) /\ mFixCriteria \in CriteriaType
  BY DEF TypeOK, CriteriaType
<1>2. /\ msgq # <<>> /\ m \in Messages
      /\ msgq' = Tail(msgq) /\ callback' = callback /\ fw' = fw
  BY ProcMoves
<1>3. m.kind \notin Restart /\ NoneOf(msgq', Restart)
  BY <1>1, <1>2, LastTaken DEF WishInv
<1>4. StartResults = {"ok"} /\ StopResults = {"ok"}
  BY DEF NothingFails, WishInv, StartResults, StopResults
<1>5. mFixCriteria.recurrence # "SINGLE"
  BY DEF NothingFails, TypeOK
<1>6. /\ \A i \in 1..Len(callback') : callback'[i].kind \in Raised
      /\ fw'.navigating => fw'.criteria # NoCriteria
  BY <1>2 DEF WishInv
<1>7. ASSUME m.kind \notin Navigation => mNavigating' = mNavigating,
             m.kind \in Navigation => mNavigating' = (m.kind = "Start")
      PROVE  NavigatesAtEnd'
  BY <1>2, <1>7, NavigatesTaken DEF WishInv
<1>8. ASSUME m.kind \notin Setting => mFixCriteria' = mFixCriteria,
             m.kind = "PositionMode" => mFixCriteria' = m.arg
      PROVE  SetAtEnd'
  BY <1>2, <1>8, SetTaken DEF WishInv
<1>9. CASE ProcPositionMode
  <2>1. /\ m.kind = "PositionMode" /\ mFixCriteria' = Arg
        /\ mNavigating' = mNavigating
    BY <1>9 DEF ProcPositionMode, Take
  <2>2. api'.handle = "open"
    BY <1>9, StartType DEF ProcPositionMode, WishInv, StartsFix
  <2>3. session' = IF mNavigating' THEN Started(mFixCriteria', "ok") ELSE NoSession
    BY <1>4, <1>9, <2>1 DEF ProcPositionMode, WishInv, Started
  <2>4. NavigatesAtEnd'
    BY <1>7, <2>1 DEF Navigation
  <2>5. SetAtEnd'
    BY <1>8, <2>1 DEF Arg, Setting
  <2> QED BY <1>3, <1>6, <2>2, <2>3, <2>4, <2>5 DEF WishInv, Started
<1>10. CASE ProcStart
  <2>1. m.kind = "Start" /\ mFixCriteria' = mFixCriteria
    BY <1>10 DEF ProcStart, Take
  <2>2. api'.handle = "open"
    BY <1>10, StartType DEF ProcStart, WishInv, StartsFix
  <2>3. mNavigating' = TRUE
    BY <1>4, <1>10 DEF ProcStart
  <2>4. session' = Started(mFixCriteria', "ok")
    BY <1>4, <1>10, <2>1 DEF ProcStart, WishInv, Started
  <2>5. SetAtEnd'
    BY <1>8, <2>1 DEF Setting
  <2>6. NavigatesAtEnd'
    BY <1>7, <2>1, <2>3 DEF Navigation
  <2> QED BY <1>3, <1>6, <2>2, <2>3, <2>4, <2>5, <2>6 DEF WishInv, Started
<1>11. CASE ProcStop
  <2>1. m.kind = "Stop"
    BY <1>11 DEF ProcStop, Take
  <2>2. api'.handle = "open"
    BY <1>11, StopType DEF ProcStop, WishInv, StopsFix
  <2>3. mNavigating' = FALSE
    BY <1>11 DEF ProcStop, adapter
  <2>4. session' = NoSession
    BY <1>4, <1>11 DEF ProcStop, WishInv, Stopped
  <2>5. SetAtEnd'
    BY <1>8, <2>1 DEF Setting
  <2>6. NavigatesAtEnd'
    BY <1>7, <2>1, <2>3 DEF Navigation
  <2> QED BY <1>3, <1>6, <2>2, <2>3, <2>4, <2>5, <2>6 DEF WishInv, Started
<1>12. ASSUME m.kind \notin Navigation \cup Setting,
              UNCHANGED <<mNavigating, mFixCriteria, session>>,
              api'.handle = api.handle
       PROVE  WishInv'
  <2>1. NavigatesAtEnd' /\ SetAtEnd'
    BY <1>7, <1>8, <1>12 DEF Navigation, Setting
  <2> QED BY <1>3, <1>6, <1>12, <2>1 DEF WishInv, Started
<1>13. CASE ProcPosition
  <2>1. m.kind = "Position" /\ UNCHANGED <<mNavigating, mFixCriteria, session, api>>
    BY <1>5, <1>13 DEF ProcPosition, Take, adapter
  <2> QED BY <1>12, <2>1 DEF Navigation, Setting
<1>14. CASE ProcUpdateEngineState
  <2>1. m.kind = "UpdateEngineState" /\ UNCHANGED <<mNavigating, mFixCriteria, session>>
    BY <1>14 DEF ProcUpdateEngineState, Take, adapter
  <2>2. api'.handle = api.handle
    <3>1. Arg \in BOOLEAN
      BY <1>14, TakeType, Arguments DEF ProcUpdateEngineState, Arg
    <3> QED BY <1>14, <3>1, EngineStateType
  <2> QED BY <1>12, <2>1, <2>2 DEF Navigation, Setting
<1>15. CASE ProcStatus \/ ProcDelAidData \/ ProcMute
  <2>1. m.kind \in {"Status", "DelAidData", "Mute"}
        /\ UNCHANGED <<mNavigating, mFixCriteria, session, api>>
    BY <1>15 DEF ProcStatus, ProcDelAidData, ProcMute, Take, adapter
  <2> QED BY <1>12, <2>1 DEF Navigation, Setting
<1>16. CASE ProcDown \/ ProcSsr \/ ProcUp
  BY <1>3, <1>16 DEF ProcDown, ProcSsr, ProcUp, Take, Restart
<1> QED BY <1>9, <1>10, <1>11, <1>13, <1>14, <1>15, <1>16 DEF Proc

(* A posted message asks for nothing. *)
LEMMA WishPost == TypeOK /\ WishInv /\ Post => WishInv'
<1> SUFFICES ASSUME TypeOK, WishInv, Post PROVE WishInv'
  OBVIOUS
<1>1. msgq \in Seq(Messages) /\ callback \in Seq(Messages)
  BY DEF TypeOK
<1>2. PICK m \in Messages : m = Head(callback)
  BY PostMoves
<1>3. /\ callback # <<>> /\ msgq' = Append(msgq, m) /\ callback' = Tail(callback)
      /\ UNCHANGED <<fw, mNavigating, mFixCriteria, api, session>>
  BY <1>2, PostMoves DEF framework, adapter, modem
<1>4. m.kind \in Raised
  <2>1. 1 \in 1..Len(callback) /\ callback[1] = m
    BY <1>1, <1>2, <1>3, Shortened, LenProperties
  <2> QED BY <2>1 DEF WishInv
<1>5. m.kind \notin Navigation /\ m.kind \notin Setting /\ m.kind \notin Restart
  BY <1>4 DEF Raised, Navigation, Setting, Restart
<1>6. NoneOf(msgq', Restart) /\ NavigatesAtEnd' /\ SetAtEnd'
  BY <1>1, <1>3, <1>5, LastStays, WishesStay DEF WishInv
<1>7. \A i \in 1..Len(callback') : callback'[i].kind \in Raised
  BY <1>1, <1>3, Shortened DEF WishInv
<1> QED BY <1>3, <1>6, <1>7 DEF WishInv, Started

(* The modem ends no periodic session by itself. *)
LEMMA WishModem ==
    ASSUME NothingFails, TypeOK, WishInv, Modem, ~Crash
    PROVE  WishInv'
<1>1. callback \in Seq(Messages)
  BY DEF TypeOK
<1>2. \A i \in 1..Len(callback) : callback[i].kind \in Raised
  BY DEF WishInv
<1>3. ASSUME NEW s \in Seq(Messages), \A i \in 1..Len(s) : s[i].kind \in Raised,
             Raise(s), UNCHANGED <<api, session>>
      PROVE  WishInv'
  <2>1. \A i \in 1..Len(callback') : callback'[i].kind \in Raised
    BY <1>1, <1>2, <1>3, Concatenated DEF Raise
  <2>2. UNCHANGED <<fw, msgq, mNavigating, mFixCriteria, api, session>>
    BY <1>3 DEF Raise, framework, adapter
  <2> QED BY <2>1, <2>2
      DEF WishInv, NavigatesAtEnd, SetAtEnd, Started
<1>4. CASE EngineOn \/ EngineOff
  <2>1. \A b \in BOOLEAN, s \in Statuses, t \in Statuses :
          LET q == <<Msg("UpdateEngineState", b), Msg("Status", s), Msg("Status", t)>>
          IN  q \in Seq(Messages) /\ \A i \in 1..Len(q) : q[i].kind \in Raised
    BY DEF Msg, Messages, Raised
  <2>2. <<>> \in Seq(Messages) /\ \A i \in 1..Len(<<>>) : <<>>[i].kind \in Raised
    BY EmptySeq
  <2>3. PICK q \in Seq(Messages) : (\A i \in 1..Len(q) : q[i].kind \in Raised) /\ Raise(q)
    BY <1>4, <2>1, <2>2 DEF EngineOn, EngineOff, Statuses
  <2>4. UNCHANGED <<api, session>>
    BY <1>4 DEF EngineOn, EngineOff
  <2> QED BY <1>3, <2>3, <2>4
<1>5. CASE ReportPosition
  <2> PICK report \in Reports :
         /\ Raise(<<Msg("Position", report)>>)
         /\ session' = IF /\ session.recurrence = "SINGLE"
                          /\ report.status # "INTERMEDIATE"
                       THEN NoSession ELSE session
    BY <1>5 DEF ReportPosition
  <2>1. <<Msg("Position", report)>> \in Seq(Messages)
    BY DEF Msg, Messages
  <2>2. \A i \in 1..Len(<<Msg("Position", report)>>) :
           <<Msg("Position", report)>>[i].kind \in Raised
    BY DEF Msg, Raised
  <2>3. session.recurrence # "SINGLE"
    BY DEF NothingFails, TypeOK, NoSession
  <2>4. UNCHANGED <<api, session>>
    BY <1>5, <2>3 DEF ReportPosition
  <2> QED BY <1>3, <2>1, <2>2, <2>4
<1>6. CASE PrivacyOverride
  <2>1. <<Msg("Mute", "none")>> \in Seq(Messages)
    BY DEF Msg, Messages
  <2>2. \A i \in 1..Len(<<Msg("Mute", "none")>>) : <<Msg("Mute", "none")>>[i].kind \in Raised
    BY DEF Msg, Raised
  <2>3. Raise(<<Msg("Mute", "none")>>) /\ UNCHANGED <<api, session>>
    BY <1>6 DEF PrivacyOverride
  <2> QED BY <1>3, <2>1, <2>2, <2>3
<1> QED BY <1>4, <1>5, <1>6 DEF Modem

(* As long as nothing fails and no session ends by itself, the modem runs a *)
(* session exactly when the framework wants one, in the mode it asked for   *)
(* last, once every message is processed.                                   *)
THEOREM WishCorrect == NothingFails /\ Spec => []SessionIsWanted
<1>1. NothingFails /\ Init => CalmInv
  <2> SUFFICES ASSUME Init PROVE WishInv
    BY InitInv DEF CalmInv, SessionInv
  <2>1. Len(msgq) = 0 /\ Len(callback) = 0
    BY DEF Init
  <2>2. /\ mNavigating = FALSE /\ fw.navigating = FALSE
        /\ fw.criteria = NoCriteria /\ session = NoSession
        /\ api.handle = "open"
    BY DEF Init
  <2>3. \A kinds : NoneOf(msgq, kinds)
    BY <2>1 DEF NoneOf
  <2>4. NavigatesAtEnd /\ SetAtEnd
    BY <2>2, <2>3 DEF NavigatesAtEnd, SetAtEnd
  <2> QED BY <2>1, <2>2, <2>3, <2>4 DEF WishInv
<1>2. TypeOK' /\ CalmInv /\ [Next]_vars => CalmInv'
  <2> SUFFICES ASSUME TypeOK', NothingFails, TypeOK, crashes = 0 => WishInv,
                      [Next]_vars, crashes' = 0
               PROVE  WishInv'
    BY DEF CalmInv, NothingFails
  <2>1. CASE UNCHANGED vars
    BY <2>1 DEF WishInv, NoneOf, NavigatesAtEnd, SetAtEnd, Started, vars, queues,
                framework, adapter, modem, LastOf
  <2>2. CASE Framework
    BY <2>2, FrameworkMoves, WishFramework DEF modem
  <2>3. CASE Proc
    BY <2>3, ProcMoves, WishProc
  <2>4. CASE Post
    BY <2>4, PostMoves, WishPost DEF modem
  <2>5. CASE Modem
    <3>1. ~Crash
      BY DEF Crash, TypeOK
    <3>2. crashes = 0
      BY <2>5, <3>1 DEF Modem, EngineOn, EngineOff, ReportPosition, PrivacyOverride
    <3> QED BY <2>5, <3>1, <3>2, WishModem
  <2> QED BY <2>1, <2>2, <2>3, <2>4, <2>5 DEF Next
<1>3. CalmInv => SessionIsWanted
  <2> SUFFICES ASSUME TypeOK, WishInv, Quiet
               PROVE  /\ (session # NoSession) = fw.navigating
                      /\ fw.navigating => session.mode = fw.criteria.mode
    BY DEF CalmInv, SessionIsWanted
  <2>1. msgq = <<>>
    <3>1. DOMAIN msgq = 1..Len(msgq) /\ Len(msgq) \in Nat
      BY LenProperties DEF TypeOK
    <3>2. Len(msgq) = 0
      BY <3>1 DEF Quiet, Queued
    <3> QED BY <3>2, EmptySeq DEF TypeOK
  <2>2. \A i \in 1..Len(msgq) : FALSE
    BY <2>1
  <2>3. mNavigating = fw.navigating
    BY <2>2 DEF WishInv, NavigatesAtEnd
  <2>4. fw.navigating => mFixCriteria = fw.criteria /\ fw.criteria \in Criteria
    BY <2>2 DEF WishInv, SetAtEnd, TypeOK
  <2>5. mFixCriteria \in CriteriaType
    BY DEF TypeOK, CriteriaType
  <2>6. fw.navigating \in BOOLEAN
    BY DEF TypeOK
  <2>7. session = IF mNavigating THEN Started(mFixCriteria, "ok") ELSE NoSession
    BY DEF WishInv
  <2>8. fw.navigating => mFixCriteria.mode \in Modes
    BY <2>4 DEF Criteria
  <2> QED BY <2>3, <2>4, <2>5, <2>6, <2>7, <2>8, StartedRuns
<1> QED BY TypeCorrect, <1>1, <1>2, <1>3, PTL DEF Spec

=============================================================================
