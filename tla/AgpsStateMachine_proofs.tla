----------------------- MODULE AgpsStateMachine_proofs -----------------------
(***************************************************************************)
(* Proofs about AgpsStateMachine, for every set of clients, type of        *)
(* connection and bound; and about the two connections that are            *)
(* model-checked together.                                                 *)
(***************************************************************************)
EXTENDS MCAgpsStateMachine, FiniteSetTheorems, TLAPS

-----------------------------------------------------------------------------
(* What a step may do to the message queue: it posts one message, takes    *)
(* the oldest, or leaves the queue alone.                                  *)

(* Posting a message keeps the queue typed. *)
LEMMA PostType ==
    ASSUME TypeOK, NEW m \in Messages, Post(m)
    PROVE  msgq' \in Seq(Messages)
BY DEF TypeOK, Post

(* Taking the oldest message keeps the queue typed, and it is a message. *)
LEMMA TakeType ==
    ASSUME TypeOK, NEW t, Take(t)
    PROVE  /\ msgq' \in Seq(Messages)
           /\ Head(msgq) \in Messages
BY DEF TypeOK, Take

(* sendRsrcRequest adds the action it is given, or nothing. *)
LEMMA SendType ==
    ASSUME TypeOK, NEW action \in {"REQUEST", "RELEASE"}, NEW active
    PROVE  SendRsrcRequest(action, active) \in Seq({"REQUEST", "RELEASE"})
BY DEF TypeOK, SendRsrcRequest

(* Whoever is notified has heard something a client can hear. *)
LEMMA NotifyType ==
    ASSUME TypeOK, NEW who, NEW what \in Tidings
    PROVE  Notify(who, what) \in [Clients -> Tidings]
BY DEF TypeOK, Notify

(* Every message that is posted is one of Messages. *)
LEMMA MessageTypes ==
    /\ \A t \in {"AtlOpenSuccess", "AtlClosed", "AtlOpenFailed"} :
           FwMessage(t) \in Messages
    /\ \A c \in Clients, t \in {"Request", "Release"} :
           [type |-> t, id |-> c] \in Messages
    /\ [type |-> "Up"] \in Messages
BY DEF FwMessage, Messages, FwMessages

-----------------------------------------------------------------------------
(* The steps of the clients, the modem and the framework, and the step     *)
(* that handles each message, keep every variable in its type.             *)

(* Clients, the modem and the framework keep the type. *)
LEMMA EnvironmentType ==
    ASSUME TypeOK,
           (\E c \in Clients : Client(c)) \/ EngineUp \/ Framework \/ FwLost
    PROVE  TypeOK'
<1> USE MessageTypes
<1>1. ASSUME NEW c \in Clients, Client(c) PROVE TypeOK'
  BY <1>1, PostType
     DEF TypeOK, Client, ClientRequest, ClientRelease, machine
<1>2. CASE EngineUp
  BY <1>2, PostType DEF TypeOK, EngineUp, machine
<1>3. CASE FwTakeRequest
  BY <1>3, PostType DEF TypeOK, FwTakeRequest, Requested, machine
<1>4. CASE FwOpen
  BY <1>4, PostType DEF TypeOK, FwOpen, machine
<1>5. CASE FwOpenFailed
  BY <1>5, PostType DEF TypeOK, FwOpenFailed, machine
<1>6. CASE FwTakeRelease
  BY <1>6, PostType DEF TypeOK, FwTakeRelease, Requested, machine
<1>7. CASE FwLost
  BY <1>7, PostType DEF TypeOK, FwLost, machine
<1> QED BY <1>1, <1>2, <1>3, <1>4, <1>5, <1>6, <1>7 DEF Framework

(* A subscription keeps the type in every state. *)
LEMMA SubscribeType ==
    ASSUME TypeOK, NEW c \in Clients, ProcRequest(c)
    PROVE  TypeOK'
<1>1. msgq' \in Seq(Messages)
  BY TakeType DEF ProcRequest
<1>2. CASE TurnAway(c)
  BY <1>1, <1>2, NotifyType DEF TypeOK, ProcRequest, TurnAway, Tidings
<1>3. CASE SubscribeReleased(c)
  BY <1>1, <1>3, NotifyType, SendType
     DEF TypeOK, ProcRequest, SubscribeReleased, Tidings, States
<1>4. CASE SubscribeWaiting(c)
  BY <1>1, <1>4, NotifyType
     DEF TypeOK, ProcRequest, SubscribeWaiting, Tidings
<1>5. CASE SubscribeAcquired(c)
  BY <1>1, <1>5, NotifyType
     DEF TypeOK, ProcRequest, SubscribeAcquired, Tidings
<1> QED BY <1>2, <1>3, <1>4, <1>5 DEF ProcRequest

(* So does an unsubscription. *)
LEMMA UnsubscribeType ==
    ASSUME TypeOK, NEW c \in Clients, ProcRelease(c)
    PROVE  TypeOK'
<1>1. msgq' \in Seq(Messages)
  BY TakeType DEF ProcRelease
<1>2. CASE c \in mSubscribers /\ Unsubscribe(c)
  <2>1. /\ mSubscribers' \subseteq Clients
        /\ mInactive' \subseteq mSubscribers'
    BY <1>2 DEF TypeOK, Unsubscribe, Remaining
  <2>2. mState' \in States
    BY <1>2 DEF TypeOK, Unsubscribe, StateOnceLeft, States
  <2>3. requests' \in Seq({"REQUEST", "RELEASE"})
    BY <1>2, SendType DEF Unsubscribe, TypeOK
  <2>4. told' \in [Clients -> Tidings]
    BY <1>2, NotifyType DEF Unsubscribe, TypeOK, Tidings
  <2> QED BY <1>1, <2>1, <2>2, <2>3, <2>4 DEF TypeOK, ProcRelease
<1>3. CASE UNCHANGED <<machine, requests>>
  BY <1>1, <1>3 DEF TypeOK, ProcRelease, machine
<1> QED BY <1>2, <1>3 DEF ProcRelease

(* So does the end of a release. *)
LEMMA ReleasingDoneType ==
    ASSUME TypeOK, NEW what \in Tidings, ReleasingDone(what)
    PROVE  /\ mState' \in States
           /\ mSubscribers' \subseteq Clients
           /\ mInactive' \subseteq mSubscribers'
           /\ told' \in [Clients -> Tidings]
           /\ requests' \in Seq({"REQUEST", "RELEASE"})
<1>1. requests' \in Seq({"REQUEST", "RELEASE"})
  BY SendType DEF ReleasingDone, TypeOK
<1> QED BY <1>1, NotifyType DEF TypeOK, ReleasingDone, States, Active

(* So does whatever the framework answers. *)
LEMMA AnswerType ==
    ASSUME TypeOK, ProcAtlOpenSuccess \/ ProcAtlClosed \/ ProcAtlOpenFailed
    PROVE  TypeOK'
<1>1. msgq' \in Seq(Messages)
  BY TakeType DEF ProcAtlOpenSuccess, ProcAtlClosed, ProcAtlOpenFailed
<1>2. CASE ProcAtlOpenSuccess
  BY <1>1, <1>2, NotifyType DEF TypeOK, ProcAtlOpenSuccess, States, Tidings
<1>3. CASE ProcAtlClosed
  BY <1>1, <1>3, NotifyType, ReleasingDoneType
     DEF TypeOK, ProcAtlClosed, ForcedRelease, TellAllAndDelete, States,
         Tidings, machine
<1>4. CASE ProcAtlOpenFailed
  BY <1>1, <1>4, NotifyType, ReleasingDoneType
     DEF TypeOK, ProcAtlOpenFailed, Denied, TellAllAndDelete, States,
         Tidings, machine
<1> QED BY <1>2, <1>3, <1>4

(* So does the restart of the modem. *)
LEMMA UpType ==
    ASSUME TypeOK, ProcUp
    PROVE  TypeOK'
<1>1. msgq' \in Seq(Messages)
  BY TakeType DEF ProcUp
<1> QED BY <1>1, NotifyType DEF TypeOK, ProcUp, Tidings

(* The initial states are typed. *)
LEMMA TypeInit == Init => TypeOK
<1> SUFFICES ASSUME Init PROVE TypeOK OBVIOUS
<1>1. msgq \in Seq(Messages) /\ requests \in Seq({"REQUEST", "RELEASE"})
  BY DEF Init
<1>2. told \in [Clients -> Tidings]
  BY DEF Init, Tidings
<1> QED BY <1>1, <1>2 DEF Init, TypeOK, States

(* Every step keeps the type. *)
LEMMA TypeStep == TypeOK /\ [Next]_vars => TypeOK'
<1> SUFFICES ASSUME TypeOK, [Next]_vars PROVE TypeOK' OBVIOUS
<1>1. CASE UNCHANGED vars
  BY <1>1 DEF TypeOK, vars
<1>2. CASE Next
  BY <1>2, EnvironmentType, SubscribeType, UnsubscribeType, AnswerType, UpType
     DEF Next, MsgTask
<1> QED BY <1>1, <1>2

(* Every variable keeps its type: in particular nobody is marked inactive  *)
(* who is not on the subscriber list.                                      *)
THEOREM TypeCorrect == Spec => []TypeOK
BY TypeInit, TypeStep, PTL DEF Spec

-----------------------------------------------------------------------------
(* The subscriber list.                                                    *)

(* The list is correct initially. *)
LEMMA ListInit == Init => ListInv
<1> SUFFICES ASSUME Init PROVE ListInv OBVIOUS
<1>1. TypeOK
  BY TypeInit
<1> QED BY <1>1 DEF Init, ListInv, ReleasedHasNoSubscribers, Alone,
              InactiveIsReleasing

(* Every step keeps the list correct. *)
LEMMA ListStep == ListInv /\ [Next]_vars => ListInv'
<1> SUFFICES ASSUME ListInv, [Next]_vars PROVE ListInv' OBVIOUS
<1> USE DEF ListInv, ReleasedHasNoSubscribers, Alone, InactiveIsReleasing
<1>t. TypeOK'
  BY TypeStep
<1>u. CASE UNCHANGED machine
  BY <1>t, <1>u DEF machine
<1>1. CASE UNCHANGED vars
  BY <1>1, <1>u DEF vars, machine
<1>2. ASSUME NEW c \in Clients, Client(c) PROVE ListInv'
  BY <1>2, <1>u DEF Client, ClientRequest, ClientRelease
<1>3. CASE EngineUp \/ Framework \/ FwLost
  BY <1>3, <1>u DEF EngineUp, Framework, FwTakeRequest, FwTakeRelease,
       FwOpen, FwOpenFailed, FwLost
<1>4. ASSUME NEW c \in Clients, ProcRequest(c) PROVE ListInv'
  <2>1. CASE TurnAway(c)
    BY <1>t, <2>1 DEF TurnAway
  <2>2. CASE ~TurnedAway /\ SubscribeReleased(c)
    BY <1>t, <2>2 DEF SubscribeReleased, TurnedAway
  <2>3. CASE ~TurnedAway /\ SubscribeWaiting(c)
    BY <1>t, <2>3 DEF SubscribeWaiting, TurnedAway
  <2>4. CASE ~TurnedAway /\ SubscribeAcquired(c)
    BY <1>t, <2>4 DEF SubscribeAcquired, TurnedAway
  <2> QED BY <1>4, <2>1, <2>2, <2>3, <2>4 DEF ProcRequest
<1>5. ASSUME NEW c \in Clients, ProcRelease(c) PROVE ListInv'
  <2>1. CASE c \in mSubscribers /\ Unsubscribe(c)
    <3>1. CASE WaitForClose
      (* only wifi_nif waits, and c is its only subscriber *)
      <4>1. mSubscribers = {c}
        BY <2>1, <3>1 DEF WaitForClose, EnforceSingle
      <4>2. mSubscribers' = {c} /\ mInactive' = {c} /\ mState' = "Releasing"
        BY <2>1, <3>1, <4>1
           DEF Unsubscribe, Remaining, StateOnceLeft, TypeOK
      <4> QED BY <1>t, <3>1, <4>2
    <3>2. CASE ~WaitForClose
      <4>1. mInactive = {} /\ mInactive' = {} /\ mSubscribers' = mSubscribers \ {c}
        BY <2>1, <3>2 DEF Unsubscribe, Remaining
      <4>2. mState' = IF mSubscribers \ {c} = {} THEN "Released" ELSE mState
        BY <2>1, <3>2, <4>1 DEF Unsubscribe, Remaining, StateOnceLeft
      <4> QED BY <1>t, <4>1, <4>2
    <3> QED BY <3>1, <3>2
  <2>2. CASE UNCHANGED <<machine, requests>>
    BY <2>2, <1>u
  <2> QED BY <1>5, <2>1, <2>2 DEF ProcRelease
<1>6. ASSUME NEW what, ReleasingDone(what)
      PROVE /\ mState' \in {"Released", "Pending"}
            /\ mSubscribers' \subseteq mSubscribers
            /\ mInactive' = {}
            /\ mState' = "Released" => mSubscribers' = {}
  BY <1>6 DEF ReleasingDone, Active
<1>7. CASE ProcAtlOpenSuccess
  BY <1>t, <1>7 DEF ProcAtlOpenSuccess
<1>8. CASE ProcAtlClosed
  <2>1. CASE ForcedRelease
    BY <1>t, <2>1 DEF ForcedRelease, TellAllAndDelete
  <2>2. CASE ReleasingDone("RELEASED")
    BY <1>t, <2>2, <1>6
  <2> QED BY <1>8, <2>1, <2>2, <1>u DEF ProcAtlClosed
<1>9. CASE ProcAtlOpenFailed
  <2>1. CASE Denied
    BY <1>t, <2>1 DEF Denied, TellAllAndDelete
  <2>2. CASE ReleasingDone("DENIED")
    BY <1>t, <2>2, <1>6
  <2> QED BY <1>9, <2>1, <2>2, <1>u DEF ProcAtlOpenFailed
<1>10. CASE ProcUp
  BY <1>t, <1>10 DEF ProcUp
<1> QED BY <1>1, <1>2, <1>3, <1>4, <1>5, <1>7, <1>8, <1>9, <1>10
        DEF Next, MsgTask

(* The subscriber list is correct: typed, empty when released, one at most *)
(* on wifi_nif, and inactive subscribers only while releasing.             *)
THEOREM ListCorrect == Spec => []ListInv
BY ListInit, ListStep, PTL DEF Spec

(* The error AgpsReleasedState logs, subscribers left on the list of a     *)
(* released connection, does not happen on these connections.              *)
THEOREM ReleasedIsEmpty == Spec => []ReleasedHasNoSubscribers
<1>1. ListInv => ReleasedHasNoSubscribers
  BY DEF ListInv
<1> QED BY <1>1, ListCorrect, PTL

(* Where any two subscribers are the same, there is one at most.            *)
LEMMA OneAtMost ==
    ASSUME NEW S, \A a, b \in S : a = b
    PROVE  Cardinality(S) \in {0, 1}
<1>1. CASE S = {}
  BY <1>1, FS_EmptySet
<1>2. CASE S # {}
  <2>1. PICK c \in S : S = {c}
    BY <1>2
  <2> QED BY <2>1, FS_Singleton
<1> QED BY <1>1, <1>2

LEMMA ListIsSingle == ListInv => SingleSubscriber
BY OneAtMost DEF ListInv, Alone, SingleSubscriber, InactiveIsReleasing

(* wifi_nif never has a second subscriber, and a subscriber only waits for *)
(* the close while the connection is being released.                       *)
THEOREM SingleSubscriberCorrect == Spec => []SingleSubscriber
BY ListIsSingle, ListCorrect, PTL

-----------------------------------------------------------------------------
(* What the framework owes the machine.                                    *)

(* A posted message joins those in the queue, which all stay. *)
LEMMA InQueuePost ==
    ASSUME TypeOK, NEW m \in Messages, Post(m), NEW T
    PROVE  /\ InQueue(T) => InQueue(T)'
           /\ m.type \in T => InQueue(T)'
<1> DEFINE q == Append(msgq, m)
<1>1. msgq \in Seq(Messages) /\ msgq' = q
  BY DEF TypeOK, Post
<1>2. /\ Len(q) = Len(msgq) + 1
      /\ \A i \in 1..Len(msgq) : q[i] = msgq[i]
      /\ q[Len(msgq) + 1] = m
  BY <1>1
<1>3. Len(msgq) \in Nat
  BY <1>1
<1> HIDE DEF q
<1> QED BY <1>1, <1>2, <1>3 DEF InQueue

(* Taking a message removes no message of another type. *)
LEMMA InQueueTake ==
    ASSUME TypeOK, NEW t, Take(t), NEW T, t \notin T
    PROVE  InQueue(T) => InQueue(T)'
<1>1. msgq \in Seq(Messages) /\ msgq # <<>> /\ msgq' = Tail(msgq)
  BY DEF TypeOK, Take
<1>2. /\ Len(msgq') = Len(msgq) - 1
      /\ \A i \in 2..Len(msgq) : msgq'[i - 1] = msgq[i]
      /\ Head(msgq) = msgq[1]
      /\ Len(msgq) \in Nat
  BY <1>1
<1>3. ASSUME NEW i \in 1..Len(msgq), msgq[i].type \in T PROVE InQueue(T)'
  <2>1. i # 1
    BY <1>2, <1>3 DEF Take
  <2>2. i - 1 \in 1..Len(msgq') /\ msgq'[i - 1] = msgq[i]
    BY <1>2, <2>1
  <2> QED BY <1>3, <2>2 DEF InQueue
<1> QED BY <1>3 DEF InQueue

(* OpenStands survives a message posted when the connection is up or lost. *)
LEMMA OpenStandsPost ==
    ASSUME TypeOK, OpenStands, NEW m \in Messages, Post(m),
           m.type = "AtlOpenSuccess" => nif' = "up",
           nif = "up" /\ nif' # "up" => m.type = "AtlClosed"
    PROVE  OpenStands'
<1> DEFINE q == Append(msgq, m)
<1>1. msgq \in Seq(Messages) /\ msgq' = q
  BY DEF TypeOK, Post
<1>2. /\ Len(q) = Len(msgq) + 1
      /\ \A i \in 1..Len(msgq) : q[i] = msgq[i]
      /\ q[Len(msgq) + 1] = m
      /\ Len(msgq) \in Nat
  BY <1>1
<1> HIDE DEF q
<1> QED BY <1>1, <1>2 DEF OpenStands

(* Taking a message leaves the later answers standing. *)
LEMMA OpenStandsTake ==
    ASSUME TypeOK, OpenStands, NEW t, Take(t), UNCHANGED nif
    PROVE  OpenStands'
<1>1. msgq \in Seq(Messages) /\ msgq # <<>> /\ msgq' = Tail(msgq)
  BY DEF TypeOK, Take
<1>2. /\ Len(msgq') = Len(msgq) - 1
      /\ \A i \in 1..Len(msgq') : msgq'[i] = msgq[i + 1]
      /\ \A i \in 2..Len(msgq) : msgq'[i - 1] = msgq[i]
      /\ Len(msgq) \in Nat
  BY <1>1
<1> SUFFICES ASSUME NEW i \in 1..Len(msgq'),
                    msgq'[i].type = "AtlOpenSuccess", nif # "up"
             PROVE  \E j \in 1..Len(msgq') : i < j /\ msgq'[j].type = "AtlClosed"
  BY DEF OpenStands
<1>3. i + 1 \in 1..Len(msgq) /\ msgq[i + 1].type = "AtlOpenSuccess"
  BY <1>2
<1>4. PICK j \in 1..Len(msgq) : i + 1 < j /\ msgq[j].type = "AtlClosed"
  BY <1>3 DEF OpenStands
<1>5. j - 1 \in 1..Len(msgq') /\ i < j - 1 /\ msgq'[j - 1] = msgq[j]
  BY <1>2, <1>4
<1> QED BY <1>4, <1>5

(* Every step keeps the last answer true of the connection. *)
LEMMA OpenStandsStep == AnswerInv /\ [Next]_vars => OpenStands'
<1> SUFFICES ASSUME TypeOK, OpenStands, [Next]_vars PROVE OpenStands'
  BY DEF AnswerInv, ListInv
<1> USE MessageTypes
<1>1. CASE UNCHANGED <<msgq, nif>>
  BY <1>1 DEF OpenStands
<1>2. ASSUME NEW c \in Clients, Client(c) PROVE OpenStands'
  <2>1. CASE ClientRequest(c)
    BY <2>1, OpenStandsPost DEF ClientRequest
  <2>2. CASE ClientRelease(c)
    BY <2>2, OpenStandsPost DEF ClientRelease
  <2> QED BY <1>2, <2>1, <2>2 DEF Client
<1>3. CASE EngineUp
  BY <1>3, OpenStandsPost DEF EngineUp
<1>4. CASE FwTakeRequest
  <2>1. CASE nif = "up"
    BY <1>4, <2>1, OpenStandsPost DEF FwTakeRequest, FwMessage
  <2>2. CASE nif # "up"
    BY <1>4, <2>2 DEF FwTakeRequest, OpenStands
  <2> QED BY <2>1, <2>2
<1>5. CASE FwOpen
  BY <1>5, OpenStandsPost DEF FwOpen, FwMessage
<1>6. CASE FwOpenFailed
  BY <1>6, OpenStandsPost DEF FwOpenFailed, FwMessage
<1>7. CASE FwTakeRelease
  <2>1. CASE Post(FwMessage("AtlClosed"))
    BY <1>7, <2>1, OpenStandsPost DEF FwTakeRelease, FwMessage
  <2>2. CASE nif = "down" /\ UNCHANGED msgq
    BY <1>7, <2>2 DEF FwTakeRelease, OpenStands
  <2> QED BY <1>7, <2>1, <2>2 DEF FwTakeRelease
<1>8. CASE FwLost
  BY <1>8, OpenStandsPost DEF FwLost, FwMessage
<1>9. CASE MsgTask
  BY <1>9, OpenStandsTake
     DEF MsgTask, ProcRequest, ProcRelease, ProcAtlOpenSuccess,
         ProcAtlClosed, ProcAtlOpenFailed, ProcUp
<1> QED BY <1>1, <1>2, <1>3, <1>4, <1>5, <1>6, <1>7, <1>8, <1>9
        DEF Next, Framework, vars

(* Every step keeps an acquired connection up, or its loss queued. *)
LEMMA ConnectedStep == AnswerInv /\ [Next]_vars => AcquiredMeansConnected'
<1> SUFFICES ASSUME AnswerInv, [Next]_vars, mState' = "Acquired"
             PROVE  nif' = "up" \/ InQueue({"AtlClosed"})'
  BY DEF AcquiredMeansConnected
<1>t. TypeOK /\ OpenStands /\ AcquiredMeansConnected
  BY DEF AnswerInv, ListInv
<1> USE <1>t, MessageTypes
<1>1. CASE UNCHANGED <<msgq, nif, mState>>
  BY <1>1 DEF AcquiredMeansConnected, InQueue
<1>2. ASSUME NEW c \in Clients, Client(c)
      PROVE  nif' = "up" \/ InQueue({"AtlClosed"})'
  BY <1>2, InQueuePost
     DEF Client, ClientRequest, ClientRelease, machine, AcquiredMeansConnected
<1>3. CASE EngineUp
  BY <1>3, InQueuePost DEF EngineUp, machine, AcquiredMeansConnected
<1>4. CASE FwTakeRequest \/ FwOpen \/ FwOpenFailed
  <2>1. CASE nif = "up"
    BY <1>4, <2>1 DEF FwTakeRequest, FwOpen, FwOpenFailed
  <2>2. CASE nif # "up" /\ UNCHANGED msgq
    BY <1>4, <2>2 DEF FwTakeRequest, FwOpen, FwOpenFailed, machine,
         AcquiredMeansConnected, InQueue
  <2>3. CASE FwOpen \/ FwOpenFailed
    BY <2>3, <2>1, InQueuePost
       DEF FwOpen, FwOpenFailed, machine, AcquiredMeansConnected
  <2> QED BY <1>4, <2>1, <2>2, <2>3 DEF FwTakeRequest
<1>5. CASE FwTakeRelease \/ FwLost
  <2>1. CASE Post(FwMessage("AtlClosed"))
    BY <2>1, InQueuePost DEF FwMessage
  <2>2. CASE nif = "down" /\ UNCHANGED msgq
    BY <1>5, <2>2 DEF FwTakeRelease, FwLost, machine,
         AcquiredMeansConnected, InQueue
  <2> QED BY <1>5, <2>1, <2>2 DEF FwTakeRelease, FwLost
<1>6. CASE ProcAtlOpenSuccess
  <2>1. CASE mState = "Pending"
    (* the taken message was the oldest: what followed it is still queued *)
    <3>1. /\ msgq \in Seq(Messages) /\ msgq # <<>> /\ msgq' = Tail(msgq)
          /\ msgq[1].type = "AtlOpenSuccess" /\ nif' = nif
      BY <1>6 DEF ProcAtlOpenSuccess, Take, TypeOK
    <3>2. /\ Len(msgq') = Len(msgq) - 1
          /\ \A j \in 2..Len(msgq) : msgq'[j - 1] = msgq[j]
          /\ Len(msgq) \in Nat \ {0}
      BY <3>1
    <3>3. nif = "up" \/ \E j \in 2..Len(msgq) : msgq[j].type = "AtlClosed"
      BY <3>1, <3>2 DEF OpenStands
    <3>4. ASSUME NEW j \in 2..Len(msgq), msgq[j].type = "AtlClosed"
          PROVE  InQueue({"AtlClosed"})'
      <4>1. j - 1 \in 1..Len(msgq') /\ msgq'[j - 1].type = "AtlClosed"
        BY <3>2, <3>4
      <4> QED BY <4>1 DEF InQueue
    <3> QED BY <3>1, <3>3, <3>4
  <2>2. CASE mState # "Pending"
    BY <1>6, <2>2, InQueueTake
       DEF ProcAtlOpenSuccess, AcquiredMeansConnected
  <2> QED BY <2>1, <2>2
<1>7. CASE ProcAtlClosed
  BY <1>7 DEF ProcAtlClosed, ForcedRelease, ReleasingDone, machine
<1>8. CASE ProcAtlOpenFailed
  BY <1>8, InQueueTake DEF ProcAtlOpenFailed, Denied, ReleasingDone, machine,
       AcquiredMeansConnected
<1>9. ASSUME NEW c \in Clients, ProcRequest(c)
      PROVE  nif' = "up" \/ InQueue({"AtlClosed"})'
  BY <1>9, InQueueTake DEF ProcRequest, TurnAway, SubscribeReleased,
       SubscribeWaiting, SubscribeAcquired, AcquiredMeansConnected
<1>10. ASSUME NEW c \in Clients, ProcRelease(c)
       PROVE  nif' = "up" \/ InQueue({"AtlClosed"})'
  BY <1>10, InQueueTake DEF ProcRelease, Unsubscribe, StateOnceLeft, machine,
       AcquiredMeansConnected
<1>11. CASE ProcUp
  BY <1>11, InQueueTake DEF ProcUp, AcquiredMeansConnected
<1> QED BY <1>1, <1>2, <1>3, <1>4, <1>5, <1>6, <1>7, <1>8, <1>9, <1>10, <1>11
        DEF Next, Framework, MsgTask, vars

(* Only the end of the requests matters to who waits in AgpsPendingState.  *)
LastIsRequest == requests # <<>> /\ requests[Len(requests)] = "REQUEST"

(* Once the oldest request is taken, the last is still the last, unless it *)
(* was the only one.                                                       *)
LEMMA RequestTaken ==
    ASSUME TypeOK, LastIsRequest, requests' = Tail(requests)
    PROVE  \/ LastIsRequest'
           \/ requests' = <<>> /\ Head(requests) = "REQUEST"
<1>1. requests \in Seq({"REQUEST", "RELEASE"}) /\ requests # <<>>
  BY DEF TypeOK, LastIsRequest
<1>2. /\ Len(requests') = Len(requests) - 1
      /\ \A i \in 1..Len(requests') : requests'[i] = requests[i + 1]
      /\ Head(requests) = requests[1]
      /\ Len(requests) \in Nat \ {0}
      /\ requests' \in Seq({"REQUEST", "RELEASE"})
  BY <1>1
<1> QED BY <1>1, <1>2 DEF LastIsRequest

(* A request that is sent is a request outstanding. *)
LEMMA RequestSent ==
    ASSUME TypeOK, NEW active, active # {},
           requests' = SendRsrcRequest("REQUEST", active)
    PROVE  LastIsRequest'
<1> DEFINE q == Append(requests, "REQUEST")
<1>1. requests \in Seq({"REQUEST", "RELEASE"}) /\ requests' = q
  BY DEF TypeOK, SendRsrcRequest
<1>2. q # <<>> /\ Len(q) = Len(requests) + 1 /\ q[Len(requests) + 1] = "REQUEST"
  BY <1>1
<1> HIDE DEF q
<1> QED BY <1>1, <1>2 DEF LastIsRequest

(* Every step keeps an answer coming for a pending machine. *)
LEMMA AwaitedStep == AnswerInv /\ [Next]_vars => PendingIsAwaited'
<1> SUFFICES ASSUME AnswerInv, [Next]_vars, mState' = "Pending"
             PROVE  RequestOutstanding'
  BY DEF PendingIsAwaited
<1>t. TypeOK /\ ListInv /\ PendingIsAwaited
  BY DEF AnswerInv, ListInv
<1>d. ASSUME LastIsRequest' \/ (requests' = <<>> /\ nif' = "opening")
               \/ InQueue({"AtlOpenSuccess", "AtlOpenFailed"})'
      PROVE  RequestOutstanding'
  BY <1>d DEF RequestOutstanding, LastIsRequest
<1>o. mState = "Pending" =>
        \/ LastIsRequest
        \/ requests = <<>> /\ nif = "opening"
        \/ InQueue({"AtlOpenSuccess", "AtlOpenFailed"})
  BY <1>t DEF PendingIsAwaited, RequestOutstanding, LastIsRequest
<1>k. ASSUME mState = "Pending", UNCHANGED <<requests, nif>>,
             InQueue({"AtlOpenSuccess", "AtlOpenFailed"}) =>
               InQueue({"AtlOpenSuccess", "AtlOpenFailed"})'
      PROVE  RequestOutstanding'
  BY <1>d, <1>o, <1>k DEF LastIsRequest
<1> USE <1>t, MessageTypes
<1>1. CASE UNCHANGED vars
  BY <1>1, <1>k DEF vars, InQueue
<1>2. ASSUME NEW c \in Clients, Client(c) PROVE RequestOutstanding'
  BY <1>2, <1>k, InQueuePost DEF Client, ClientRequest, ClientRelease, machine
<1>3. CASE EngineUp
  BY <1>3, <1>k, InQueuePost DEF EngineUp, machine
<1>4. CASE FwTakeRequest
  <2>0. mState = "Pending"
    BY <1>4 DEF FwTakeRequest, machine
  <2>1. CASE LastIsRequest
    <3>1. LastIsRequest' \/ requests' = <<>>
      BY <1>4, <2>1, RequestTaken DEF FwTakeRequest
    <3>2. nif' = "opening" \/ InQueue({"AtlOpenSuccess", "AtlOpenFailed"})'
      BY <1>4, InQueuePost DEF FwTakeRequest, FwMessage
    <3> QED BY <3>1, <3>2, <1>d
  <2>2. CASE InQueue({"AtlOpenSuccess", "AtlOpenFailed"})
    <3>1. InQueue({"AtlOpenSuccess", "AtlOpenFailed"})'
      BY <1>4, <2>2, InQueuePost DEF FwTakeRequest, InQueue
    <3> QED BY <3>1, <1>d
  <2> QED BY <1>4, <2>0, <2>1, <2>2, <1>o DEF FwTakeRequest, Requested
<1>5. CASE FwOpen \/ FwOpenFailed
  BY <1>5, <1>d, InQueuePost DEF FwOpen, FwOpenFailed, FwMessage
<1>6. CASE FwTakeRelease
  <2>0. mState = "Pending"
    BY <1>6 DEF FwTakeRelease, machine
  <2>1. CASE LastIsRequest
    BY <1>6, <2>1, <1>d, RequestTaken DEF FwTakeRelease, Requested
  <2>2. CASE InQueue({"AtlOpenSuccess", "AtlOpenFailed"})
    <3>1. InQueue({"AtlOpenSuccess", "AtlOpenFailed"})'
      BY <1>6, <2>2, InQueuePost DEF FwTakeRelease, InQueue
    <3> QED BY <3>1, <1>d
  <2> QED BY <1>6, <2>0, <2>1, <2>2, <1>o DEF FwTakeRelease, Requested
<1>7. CASE FwLost
  <2>1. InQueue({"AtlOpenSuccess", "AtlOpenFailed"}) =>
          InQueue({"AtlOpenSuccess", "AtlOpenFailed"})'
    BY <1>7, InQueuePost DEF FwLost
  <2> QED BY <1>7, <2>1, <1>o, <1>d DEF FwLost, machine, LastIsRequest
<1>8. ASSUME NEW c \in Clients, ProcRequest(c) PROVE RequestOutstanding'
  <2>1. InQueue({"AtlOpenSuccess", "AtlOpenFailed"}) =>
          InQueue({"AtlOpenSuccess", "AtlOpenFailed"})'
    BY <1>8, InQueueTake DEF ProcRequest
  <2>2. CASE SubscribeReleased(c)
    <3>1. Active \cup {c} # {}
      OBVIOUS
    <3> QED BY <2>2, <3>1, <1>d, RequestSent DEF SubscribeReleased
  <2>3. CASE TurnAway(c) \/ SubscribeWaiting(c) \/ SubscribeAcquired(c)
    BY <1>8, <2>1, <2>3, <1>k
       DEF ProcRequest, TurnAway, SubscribeWaiting, SubscribeAcquired
  <2> QED BY <1>8, <2>2, <2>3 DEF ProcRequest
<1>9. ASSUME NEW c \in Clients, ProcRelease(c) PROVE RequestOutstanding'
  <2>1. InQueue({"AtlOpenSuccess", "AtlOpenFailed"}) =>
          InQueue({"AtlOpenSuccess", "AtlOpenFailed"})'
    BY <1>9, InQueueTake DEF ProcRelease
  <2>2. mState = "Pending" /\ UNCHANGED <<requests, nif>>
    BY <1>9 DEF ProcRelease, Unsubscribe, StateOnceLeft, machine
  <2> QED BY <2>1, <2>2, <1>k
<1>10. CASE ProcAtlOpenSuccess
  BY <1>10 DEF ProcAtlOpenSuccess
<1>11. CASE ProcAtlClosed
  <2>1. InQueue({"AtlOpenSuccess", "AtlOpenFailed"}) =>
          InQueue({"AtlOpenSuccess", "AtlOpenFailed"})'
    BY <1>11, InQueueTake DEF ProcAtlClosed
  <2>2. CASE ReleasingDone("RELEASED")
    BY <2>2, <1>d, RequestSent DEF ReleasingDone
  <2> QED BY <1>11, <2>1, <2>2, <1>k DEF ProcAtlClosed, ForcedRelease, machine
<1>12. CASE ProcAtlOpenFailed
  <2>1. CASE ReleasingDone("DENIED")
    BY <2>1, <1>d, RequestSent DEF ReleasingDone
  <2> QED BY <1>12, <2>1 DEF ProcAtlOpenFailed, Denied, machine
<1>13. CASE ProcUp
  BY <1>13, <1>k, InQueueTake DEF ProcUp
<1> QED BY <1>1, <1>2, <1>3, <1>4, <1>5, <1>6, <1>7, <1>8, <1>9, <1>10,
           <1>11, <1>12, <1>13 DEF Next, Framework, MsgTask

(* Initially the machine waits for nothing. *)
LEMMA AnswerInit == Init => AnswerInv
<1> SUFFICES ASSUME Init PROVE AnswerInv OBVIOUS
<1>1. ListInv
  BY ListInit
<1>2. Len(msgq) = 0
  BY DEF Init
<1> QED BY <1>1, <1>2 DEF Init, AnswerInv, OpenStands, PendingIsAwaited,
              AcquiredMeansConnected

(* Every step keeps what is known of the answers on their way. *)
LEMMA AnswerStep == AnswerInv /\ [Next]_vars => AnswerInv'
BY ListStep, OpenStandsStep, ConnectedStep, AwaitedStep DEF AnswerInv

(* What the framework has announced or still owes agrees with the state.   *)
THEOREM AnswerCorrect == Spec => []AnswerInv
BY AnswerInit, AnswerStep, PTL DEF Spec

(* While the machine is pending an answer is on its way, over any number   *)
(* of clients, reuses of the connection and modem restarts.                *)
THEOREM PendingIsAnswered == Spec => []PendingIsAwaited
<1>1. AnswerInv => PendingIsAwaited
  BY DEF AnswerInv
<1> QED BY <1>1, AnswerCorrect, PTL

(* While the machine is acquired the connection is up, or the message that *)
(* it went down is already queued.                                         *)
THEOREM AcquiredIsConnected == Spec => []AcquiredMeansConnected
<1>1. AnswerInv => AcquiredMeansConnected
  BY DEF AnswerInv
<1> QED BY <1>1, AnswerCorrect, PTL

-----------------------------------------------------------------------------
(* The machine implements one connection shared by its clients.            *)

(* The status the abstract connection gives each client. *)
LEMMA StatusIs ==
    ASSUME ListInv
    PROVE  /\ ClientStatus \in [Clients -> {"idle", "waiting", "granted", "closing"}]
           /\ Connection!Are("granted") = IF mState = "Acquired" THEN Active ELSE {}
           /\ Connection!Are("waiting") = IF mState = "Acquired" THEN {} ELSE Active
           /\ Connection!Are("closing") = mInactive
BY DEF ListInv, TypeOK, ClientStatus, Connection!Are, Active

(* The initial states are initial states of the abstract connection. *)
LEMMA ConnectionInit == Init => Connection!Init
BY DEF Init, Connection!Init, ClientStatus

(* Every step is a step of the abstract connection, or none. *)
LEMMA ConnectionStep ==
    ListInv /\ ListInv' /\ [Next]_vars => [Connection!Next]_ClientStatus
<1> SUFFICES ASSUME ListInv, ListInv', [Next]_vars
             PROVE  [Connection!Next]_ClientStatus
  OBVIOUS
<1>t. TypeOK /\ TypeOK' /\ ReleasedHasNoSubscribers /\ InactiveIsReleasing
        /\ InactiveIsReleasing'
  BY DEF ListInv
<1>u. CASE UNCHANGED <<mState, mSubscribers, mInactive>>
  BY <1>u DEF ClientStatus
<1>1. CASE UNCHANGED vars
  BY <1>1, <1>u DEF vars
<1>2. ASSUME NEW c \in Clients, Client(c)
      PROVE  [Connection!Next]_ClientStatus
  BY <1>2, <1>u DEF Client, ClientRequest, ClientRelease, machine
<1>3. CASE EngineUp \/ Framework \/ FwLost
  BY <1>3, <1>u DEF EngineUp, Framework, FwTakeRequest, FwTakeRelease,
       FwOpen, FwOpenFailed, FwLost, machine
<1>o. ASSUME mSubscribers' = {} PROVE [Connection!Next]_ClientStatus
  BY <1>o, <1>t DEF TypeOK, ClientStatus, Connection!Next, Connection!Over,
       Connection!Become
<1>4. ASSUME NEW c \in Clients, ProcRequest(c)
      PROVE  [Connection!Next]_ClientStatus
  <2>1. CASE TurnAway(c)
    BY <2>1, <1>u DEF TurnAway
  <2>2. CASE c \in mSubscribers /\ ~TurnAway(c)
    BY <1>4, <2>2, <1>u, <1>t DEF ProcRequest, SubscribeReleased, ReleasedHasNoSubscribers,
         SubscribeWaiting, SubscribeAcquired, TypeOK
  <2>3. CASE c \notin mSubscribers /\ (SubscribeReleased(c) \/ SubscribeWaiting(c))
    <3>1. ClientStatus' = [d \in Clients |-> IF d \in {c} THEN "waiting" ELSE ClientStatus[d]]
      BY <2>3, <1>t DEF SubscribeReleased, SubscribeWaiting, ClientStatus,
           TypeOK, ReleasedHasNoSubscribers
    <3>2. ClientStatus[c] = "idle" /\ Connection!Are("granted") = {}
      BY <2>3, StatusIs DEF SubscribeReleased, SubscribeWaiting, ClientStatus
    <3> QED BY <3>1, <3>2 DEF Connection!Next, Connection!Join, Connection!Become
  <2>4. CASE c \notin mSubscribers /\ SubscribeAcquired(c)
    <3>1. ClientStatus' = [d \in Clients |-> IF d \in {c} THEN "granted" ELSE ClientStatus[d]]
      BY <2>4, <1>t DEF SubscribeAcquired, ClientStatus, TypeOK
    <3>2. ClientStatus[c] = "idle"
            /\ Connection!Are("waiting") \cup Connection!Are("closing") = {}
      BY <2>4, <1>t, StatusIs DEF SubscribeAcquired, ClientStatus, InactiveIsReleasing
    <3> QED BY <3>1, <3>2 DEF Connection!Next, Connection!Join, Connection!Become
  <2> QED BY <1>4, <2>1, <2>2, <2>3, <2>4 DEF ProcRequest
<1>5. ASSUME NEW c \in Clients, ProcRelease(c)
      PROVE  [Connection!Next]_ClientStatus
  <2>1. CASE c \notin mSubscribers
    BY <1>5, <2>1, <1>u DEF ProcRelease, machine
  <2>2. CASE c \in mInactive
    BY <1>5, <2>2, <1>t, <1>u
       DEF ProcRelease, Unsubscribe, Remaining, StateOnceLeft, TypeOK,
           InactiveIsReleasing, machine
  <2>3. CASE c \in Active /\ mSubscribers' # {}
    <3>0. c \in mSubscribers /\ Unsubscribe(c)
      BY <1>5, <2>3 DEF ProcRelease, Active
    <3>1. CASE WaitForClose
      <4>1. mSubscribers' = mSubscribers /\ mInactive' = mInactive \cup {c}
        BY <3>0, <3>1 DEF Unsubscribe, Remaining
      <4>2. mState' \in {mState, "Releasing"}
        BY <3>0, <2>3 DEF Unsubscribe, StateOnceLeft
      <4>3. \A d \in Active : d = c
        BY <2>3, <3>1 DEF ListInv, Alone, EnforceSingle, WaitForClose, Active
      <4>4. ClientStatus' = [d \in Clients |-> IF d \in {c} THEN "closing" ELSE ClientStatus[d]]
        BY <4>1, <4>2, <4>3, <2>3, <1>t DEF ClientStatus, Active, TypeOK
      <4>5. ClientStatus[c] \in {"waiting", "granted"}
        BY <2>3 DEF ClientStatus, Active
      <4> QED BY <4>4, <4>5 DEF Connection!Next, Connection!Leave, Connection!Become
    <3>2. CASE ~WaitForClose
      <4>1. mSubscribers' = mSubscribers \ {c} /\ mInactive' = {} /\ mInactive = {}
        BY <3>0, <3>2, <1>t DEF Unsubscribe, Remaining, InactiveIsReleasing
      <4>2. mState' = mState
        BY <3>0, <3>2, <4>1, <2>3 DEF Unsubscribe, Remaining, StateOnceLeft
      <4>4. ClientStatus' = [d \in Clients |-> IF d \in {c} THEN "idle" ELSE ClientStatus[d]]
        BY <4>1, <4>2, <1>t DEF ClientStatus, TypeOK
      <4>5. ClientStatus[c] \in {"waiting", "granted"}
        BY <2>3 DEF ClientStatus, Active
      <4> QED BY <4>4, <4>5 DEF Connection!Next, Connection!Leave, Connection!Become
    <3> QED BY <3>1, <3>2
  <2> QED BY <1>5, <2>1, <2>2, <2>3, <1>o DEF Active
<1>6. ASSUME NEW what, ReleasingDone(what)
      PROVE  [Connection!Next]_ClientStatus
  <2>1. CASE mInactive # {}
    <3>1. ClientStatus' = [d \in Clients |->
                IF d \in mInactive THEN "idle" ELSE ClientStatus[d]]
      BY <1>6, <1>t DEF ReleasingDone, ClientStatus, Active, TypeOK
    <3> QED BY <1>6, <2>1, <3>1, StatusIs
            DEF ReleasingDone, Connection!Next, Connection!Closed, Connection!Become
  <2>2. CASE mInactive = {}
    BY <1>6, <2>2, <1>t DEF ReleasingDone, ClientStatus, Active, TypeOK
  <2> QED BY <2>1, <2>2
<1>7. CASE ProcAtlOpenSuccess
  <2>1. CASE mState = "Pending" /\ Active # {}
    <3>1. ClientStatus' = [d \in Clients |->
                IF d \in Active THEN "granted" ELSE ClientStatus[d]]
      BY <1>7, <2>1, <1>t
         DEF ProcAtlOpenSuccess, ClientStatus, Active, TypeOK
    <3> QED BY <2>1, <3>1, <1>t, StatusIs
            DEF Connection!Next, Connection!Grant, Connection!Become,
                InactiveIsReleasing
  <2>2. CASE mState = "Pending" /\ Active = {}
    BY <1>7, <2>2, <1>t DEF ProcAtlOpenSuccess, ClientStatus, Active, TypeOK
  <2>3. CASE mState # "Pending"
    BY <1>7, <2>3, <1>u DEF ProcAtlOpenSuccess
  <2> QED BY <2>1, <2>2, <2>3
<1>8. CASE ProcAtlClosed
  BY <1>8, <1>6, <1>o, <1>u
     DEF ProcAtlClosed, ForcedRelease, TellAllAndDelete, machine
<1>9. CASE ProcAtlOpenFailed
  BY <1>9, <1>6, <1>o, <1>u
     DEF ProcAtlOpenFailed, Denied, TellAllAndDelete, machine
<1>10. CASE ProcUp
  BY <1>10, <1>o, <1>u DEF ProcUp
<1> QED BY <1>1, <1>2, <1>3, <1>4, <1>5, <1>7, <1>8, <1>9, <1>10
        DEF Next, MsgTask

(* Every behaviour of the machine is one of the shared connection: its     *)
(* clients are granted and lose it together, and none waits for what       *)
(* another already has.                                                    *)
THEOREM Implementation == Spec => ImplementsConnection
<1>1. ListInv /\ ListInv' /\ [Next]_vars => [Connection!Next]_ClientStatus
  BY ConnectionStep
<1> QED BY <1>1, ConnectionInit, ListCorrect, PTL
        DEF Spec, ImplementsConnection, Connection!Spec

(* One connection is shared by all: no history of requests, releases,      *)
(* losses and restarts has one client granted it while another still waits *)
(* for it.                                                                 *)
THEOREM SharedByAll == Spec => []Connection!OneConnection
<1>1. ListInv => Connection!OneConnection
  BY StatusIs DEF Connection!OneConnection
<1> QED BY <1>1, ListCorrect, PTL

-----------------------------------------------------------------------------
(* The machine tracks the connection.                                      *)

(* Only a connection that waits for its close is ever being released, and  *)
(* then nobody active is on the list: its single subscriber left.          *)
ReleasingIsLeft == mState = "Releasing" => mSubscribers # {} /\ Active = {}

GoesDown == {"AtlClosed", "AtlOpenFailed"}

(* While somebody has or awaits the connection, at most the one request    *)
(* for it is on its way, and a connection that is reported closed or not   *)
(* opened is down.                                                         *)
OneRequest ==
    mState \in {"Pending", "Acquired"} /\ ~overlap =>
        /\ \/ requests = <<>>
           \/ requests = <<"REQUEST">> /\ nif = "down" /\ ~InQueue(GoesDown)
        /\ InQueue(GoesDown) => nif = "down"

LastIsRelease == requests # <<>> /\ requests[Len(requests)] = "RELEASE"

(* Once it is given up, its release is on its way or it is down.           *)
GivenUp ==
    mState \in {"Released", "Releasing"} /\ ~overlap =>
        LastIsRelease \/ (requests = <<>> /\ nif = "down")

TrackInv == AnswerInv /\ ReleasingIsLeft /\ OneRequest /\ GivenUp

-----------------------------------------------------------------------------
(* Who believes what.                                                      *)

(* A modem client that was granted the connection and told nothing since   *)
(* is on the list, and unless it left the machine has the connection.      *)
Believes ==
    \A c \in ModemClients : told[c] = "GRANTED" =>
        c \in mSubscribers /\ (mState = "Acquired" \/ c \in mInactive)

AllAreTold ==
    mState = "Acquired" /\ Type # "WIFI" => \A c \in Active : told[c] = "GRANTED"

BeliefInv == ListInv /\ ReleasingIsLeft /\ Believes /\ AllAreTold

(* Until the modem restarts, nothing empties the list but its last client. *)
NoRestart == engineUps = 0 => ~InQueue({"Up"})

HeldInv == ListInv /\ ReleasingIsLeft /\ NoRestart /\ HeldForSomebody

(* A posted message is the only one that joins the queue. *)
LEMMA InQueuePosted ==
    ASSUME TypeOK, NEW m \in Messages, Post(m), NEW T, m.type \notin T
    PROVE  InQueue(T)' => InQueue(T)
<1> DEFINE q == Append(msgq, m)
<1>1. msgq \in Seq(Messages) /\ msgq' = q
  BY DEF TypeOK, Post
<1>2. /\ Len(q) = Len(msgq) + 1
      /\ \A i \in 1..Len(msgq) : q[i] = msgq[i]
      /\ q[Len(msgq) + 1] = m
      /\ Len(msgq) \in Nat
  BY <1>1
<1> HIDE DEF q
<1>3. ASSUME NEW i \in 1..Len(q), q[i].type \in T
      PROVE  i \in 1..Len(msgq) /\ msgq[i].type \in T
  BY <1>2, <1>3
<1> QED BY <1>1, <1>3 DEF InQueue

(* Taking the oldest message adds none, and it was in the queue. *)
LEMMA InQueueTaken ==
    ASSUME TypeOK, NEW t, Take(t), NEW T
    PROVE  /\ InQueue(T)' => InQueue(T)
           /\ t \in T => InQueue(T)
<1>1. msgq \in Seq(Messages) /\ msgq # <<>> /\ msgq' = Tail(msgq)
        /\ Head(msgq).type = t
  BY DEF TypeOK, Take
<1>2. /\ Len(msgq') = Len(msgq) - 1
      /\ \A i \in 1..Len(msgq') : msgq'[i] = msgq[i + 1]
      /\ Head(msgq) = msgq[1]
      /\ Len(msgq) \in Nat \ {0}
  BY <1>1
<1>3. ASSUME NEW i \in 1..Len(msgq'), msgq'[i].type \in T
      PROVE  i + 1 \in 1..Len(msgq) /\ msgq[i + 1].type \in T
  BY <1>2, <1>3
<1>4. 1 \in 1..Len(msgq) /\ msgq[1].type = t
  BY <1>1, <1>2
<1> QED BY <1>3, <1>4 DEF InQueue

(* Nobody but the last to leave releases the connection: while it is being *)
(* released, nobody active is on the list.                                 *)
LEMMA LeftStep == ListInv /\ ReleasingIsLeft /\ [Next]_vars => ReleasingIsLeft'
<1> SUFFICES ASSUME ListInv, ReleasingIsLeft, [Next]_vars, mState' = "Releasing"
             PROVE  mSubscribers' # {} /\ Active' = {}
  BY DEF ReleasingIsLeft
<1>t. TypeOK
  BY DEF ListInv
<1>u. CASE UNCHANGED <<mState, mSubscribers, mInactive>>
  BY <1>u DEF ReleasingIsLeft, Active
<1>1. CASE UNCHANGED vars
  BY <1>1, <1>u DEF vars
<1>2. ASSUME NEW c \in Clients, Client(c) PROVE mSubscribers' # {} /\ Active' = {}
  BY <1>2, <1>u DEF Client, ClientRequest, ClientRelease, machine
<1>3. CASE EngineUp \/ Framework \/ FwLost
  BY <1>3, <1>u DEF EngineUp, Framework, FwTakeRequest, FwTakeRelease,
       FwOpen, FwOpenFailed, FwLost, machine
<1>w. mState = "Releasing" => WaitForClose /\ mSubscribers # {} /\ Active = {}
  BY DEF ReleasingIsLeft, ListInv, InactiveIsReleasing, Active
<1>4. ASSUME NEW c \in Clients, ProcRequest(c)
      PROVE  mSubscribers' # {} /\ Active' = {}
  BY <1>4, <1>u, <1>w
     DEF ProcRequest, TurnAway, TurnedAway, SubscribeReleased, SubscribeWaiting,
         SubscribeAcquired, WaitForClose, EnforceSingle
<1>5. ASSUME NEW c \in Clients, ProcRelease(c)
      PROVE  mSubscribers' # {} /\ Active' = {}
  <2>1. CASE c \in mSubscribers /\ Unsubscribe(c)
    <3>1. mState' = StateOnceLeft(mSubscribers', mSubscribers' \ mInactive')
      BY <2>1 DEF Unsubscribe
    <3>2. CASE mState # "Releasing"
      BY <3>1, <3>2 DEF StateOnceLeft, Active
    <3>3. CASE mState = "Releasing"
      BY <1>w, <2>1, <3>3 DEF Unsubscribe, Remaining, Active
    <3> QED BY <3>2, <3>3
  <2> QED BY <1>5, <1>u, <2>1 DEF ProcRelease, machine
<1>6. CASE ProcAtlOpenSuccess
  BY <1>6, <1>u DEF ProcAtlOpenSuccess, Active, ReleasingIsLeft
<1>7. CASE ProcAtlClosed \/ ProcAtlOpenFailed
  BY <1>7, <1>u DEF ProcAtlClosed, ProcAtlOpenFailed, ForcedRelease, Denied,
       ReleasingDone, machine
<1>8. CASE ProcUp
  BY <1>8, <1>u, <1>w DEF ProcUp, DroppedOnEngineUp, WaitForClose
<1> QED BY <1>1, <1>2, <1>3, <1>4, <1>5, <1>6, <1>7, <1>8 DEF Next, MsgTask

(* The requests that are sent, by what becomes of the machine. *)
LEMMA ReleaseSent ==
    ASSUME TypeOK, requests' = SendRsrcRequest("RELEASE", {})
    PROVE  LastIsRelease'
<1> DEFINE q == Append(requests, "RELEASE")
<1>1. requests \in Seq({"REQUEST", "RELEASE"}) /\ requests' = q
  BY DEF TypeOK, SendRsrcRequest
<1>2. q # <<>> /\ Len(q) = Len(requests) + 1 /\ q[Len(requests) + 1] = "RELEASE"
  BY <1>1
<1> HIDE DEF q
<1> QED BY <1>1, <1>2 DEF LastIsRelease

(* The oldest request is taken: a release behind it stays the last. *)
LEMMA ReleaseStays ==
    ASSUME TypeOK, LastIsRelease, requests' = Tail(requests)
    PROVE  \/ LastIsRelease'
           \/ requests' = <<>> /\ Head(requests) = "RELEASE"
<1>1. requests \in Seq({"REQUEST", "RELEASE"}) /\ requests # <<>>
  BY DEF TypeOK, LastIsRelease
<1>2. /\ Len(requests') = Len(requests) - 1
      /\ \A i \in 1..Len(requests') : requests'[i] = requests[i + 1]
      /\ Head(requests) = requests[1]
      /\ Len(requests) \in Nat \ {0}
      /\ requests' \in Seq({"REQUEST", "RELEASE"})
  BY <1>1
<1>3. CASE Len(requests) = 1
  BY <1>1, <1>2, <1>3 DEF LastIsRelease
<1>4. CASE Len(requests) # 1
  <2>1. Len(requests') # 0 /\ Len(requests') \in 1..Len(requests')
    BY <1>2, <1>4
  <2>2. requests'[Len(requests')] = requests[Len(requests)] /\ requests' # <<>>
    BY <1>2, <2>1
  <2> QED BY <2>2 DEF LastIsRelease
<1> QED BY <1>3, <1>4

(* A settled connection has no answer on its way. *)
LEMMA SettledIsQuiet ==
    ASSUME TypeOK, Settled
    PROVE  ~InQueue(GoesDown)
<1> SUFFICES ASSUME NEW i \in 1..Len(msgq), msgq[i].type \in GoesDown PROVE FALSE
  BY DEF InQueue
<1>1. msgq[i] \in Messages
  BY DEF TypeOK
<1> QED BY <1>1 DEF Settled, Messages, FwMessages, GoesDown

(* Without overlap the one request is answered once: every step keeps it.  *)
LEMMA OneRequestStep == TrackInv /\ [Next]_vars => OneRequest'
<1> DEFINE Goal == /\ \/ requests' = <<>>
                      \/ /\ requests' = <<"REQUEST">> /\ nif' = "down"
                         /\ ~InQueue(GoesDown)'
                   /\ InQueue(GoesDown)' => nif' = "down"
<1> SUFFICES ASSUME TrackInv, [Next]_vars, mState' \in {"Pending", "Acquired"}, ~overlap'
             PROVE  Goal
  BY DEF OneRequest
<1>t. TypeOK /\ ListInv /\ ReleasingIsLeft
  BY DEF TrackInv, AnswerInv, ListInv
<1>o. ASSUME mState \in {"Pending", "Acquired"}, ~overlap
      PROVE  /\ \/ requests = <<>>
                \/ requests = <<"REQUEST">> /\ nif = "down" /\ ~InQueue(GoesDown)
             /\ InQueue(GoesDown) => nif = "down"
  BY <1>o DEF TrackInv, OneRequest
<1>k. ASSUME mState \in {"Pending", "Acquired"}, ~overlap,
             UNCHANGED <<requests, nif>>, InQueue(GoesDown)' => InQueue(GoesDown)
      PROVE  Goal
  BY <1>o, <1>k
<1> USE <1>t, MessageTypes
<1> HIDE DEF Goal
<1>1. CASE UNCHANGED vars
  BY <1>1, <1>k DEF vars, InQueue
<1>2. ASSUME NEW c \in Clients, Client(c) PROVE Goal
  <2>1. ASSUME NEW m \in Messages, m.type \in {"Request", "Release"}, Post(m),
               UNCHANGED <<machine, requests, nif, overlap>>
        PROVE  Goal
    <3>1. m.type \notin GoesDown
      BY <2>1 DEF GoesDown
    <3> QED BY <1>k, <2>1, <3>1, InQueuePosted DEF machine
  <2> QED BY <1>2, <2>1 DEF Client, ClientRequest, ClientRelease
<1>3. CASE EngineUp
  <2>1. [type |-> "Up"].type \notin GoesDown
    BY DEF GoesDown
  <2> QED BY <1>3, <1>k, <2>1, InQueuePosted DEF EngineUp, machine
<1>4. CASE FwTakeRequest
  <2>1. mState \in {"Pending", "Acquired"} /\ ~overlap
    BY <1>4 DEF FwTakeRequest, machine
  <2>2. requests = <<"REQUEST">> /\ nif = "down" /\ ~InQueue(GoesDown)
    BY <1>4, <1>o, <2>1 DEF FwTakeRequest, Requested
  <2>3. requests' = <<>> /\ msgq' = msgq
    BY <1>4, <2>2 DEF FwTakeRequest
  <2> QED BY <2>2, <2>3 DEF Goal, InQueue
<1>5. CASE FwOpen
  <2>1. mState \in {"Pending", "Acquired"} /\ ~overlap /\ nif = "opening"
        /\ UNCHANGED requests /\ Post(FwMessage("AtlOpenSuccess"))
    BY <1>5 DEF FwOpen, machine
  <2>2. requests = <<>> /\ ~InQueue(GoesDown)
    BY <1>o, <2>1
  <2>3. FwMessage("AtlOpenSuccess").type \notin GoesDown
    BY DEF FwMessage, GoesDown
  <2>4. ~InQueue(GoesDown)'
    BY <2>1, <2>2, <2>3, InQueuePosted
  <2> QED BY <2>1, <2>2, <2>4 DEF Goal
<1>6. CASE FwOpenFailed \/ FwLost
  <2>1. mState \in {"Pending", "Acquired"} /\ ~overlap /\ nif # "down"
        /\ UNCHANGED requests /\ nif' = "down"
    BY <1>6 DEF FwOpenFailed, FwLost, machine
  <2>2. requests = <<>>
    BY <1>o, <2>1
  <2> QED BY <2>1, <2>2 DEF Goal
<1>7. CASE FwTakeRelease
  <2>1. mState \in {"Pending", "Acquired"} /\ ~overlap
        /\ requests # <<>> /\ Head(requests) = "RELEASE"
    BY <1>7 DEF FwTakeRelease, Requested, machine
  <2> QED BY <1>o, <2>1
<1>8. ASSUME NEW c \in Clients, ProcRequest(c) PROVE Goal
  <2>0. Take("Request") /\ UNCHANGED nif
    BY <1>8 DEF ProcRequest
  <2>1. CASE SubscribeReleased(c)
    <3>1. Settled
      BY <2>1 DEF SubscribeReleased
    <3>2. Active \cup {c} # {}
      OBVIOUS
    <3>3. requests' = <<"REQUEST">>
      BY <2>1, <3>1, <3>2 DEF SubscribeReleased, SendRsrcRequest, Settled
    <3>4. ~InQueue(GoesDown)'
      BY <2>0, <3>1, SettledIsQuiet, InQueueTaken
    <3>5. nif' = "down"
      BY <2>0, <3>1 DEF Settled
    <3> QED BY <3>3, <3>4, <3>5 DEF Goal
  <2>2. CASE TurnAway(c) \/ SubscribeWaiting(c) \/ SubscribeAcquired(c)
    BY <1>k, <2>0, <2>2, InQueueTaken
       DEF TurnAway, SubscribeWaiting, SubscribeAcquired
  <2> QED BY <1>8, <2>1, <2>2 DEF ProcRequest
<1>9. ASSUME NEW c \in Clients, ProcRelease(c) PROVE Goal
  <2>0. Take("Release") /\ UNCHANGED <<nif, overlap>>
    BY <1>9 DEF ProcRelease
  <2>1. CASE c \in mSubscribers /\ Unsubscribe(c)
    <3>1. /\ mState' = StateOnceLeft(mSubscribers', mSubscribers' \ mInactive')
          /\ requests' = IF mSubscribers' \ mInactive' = {} /\ mState # "Releasing"
                         THEN SendRsrcRequest("RELEASE", mSubscribers' \ mInactive')
                         ELSE requests
      BY <2>1 DEF Unsubscribe
    <3>2. mState' = mState /\ mSubscribers' \ mInactive' # {}
      BY <3>1 DEF StateOnceLeft
    <3>3. UNCHANGED requests
      BY <3>1, <3>2
    <3> QED BY <1>k, <2>0, <3>2, <3>3, InQueueTaken
  <2>2. CASE UNCHANGED <<machine, requests>>
    BY <1>k, <2>0, <2>2, InQueueTaken DEF machine
  <2> QED BY <1>9, <2>1, <2>2 DEF ProcRelease
<1>10. CASE ProcAtlOpenSuccess
  BY <1>10, <1>k, InQueueTaken DEF ProcAtlOpenSuccess
<1>11. CASE ProcAtlClosed
  <2>1. CASE ReleasingDone("RELEASED")
    BY <2>1 DEF ReleasingDone, ReleasingIsLeft
  <2> QED BY <1>11, <1>k, <2>1, InQueueTaken DEF ProcAtlClosed, ForcedRelease, machine
<1>12. CASE ProcAtlOpenFailed
  <2>1. CASE ReleasingDone("DENIED")
    BY <2>1 DEF ReleasingDone, ReleasingIsLeft
  <2> QED BY <1>12, <1>k, <2>1, InQueueTaken DEF ProcAtlOpenFailed, Denied, machine
<1>13. CASE ProcUp
  BY <1>13, <1>k, InQueueTaken DEF ProcUp
<1> QED BY <1>1, <1>2, <1>3, <1>4, <1>5, <1>6, <1>7, <1>8, <1>9, <1>10,
           <1>11, <1>12, <1>13 DEF Next, Framework, MsgTask

(* Without overlap a connection that is given up goes down. *)
LEMMA GivenUpStep == TrackInv /\ [Next]_vars => GivenUp'
<1> DEFINE Goal == LastIsRelease' \/ (requests' = <<>> /\ nif' = "down")
<1> SUFFICES ASSUME TrackInv, [Next]_vars, mState' \in {"Released", "Releasing"}, ~overlap'
             PROVE  Goal
  BY DEF GivenUp
<1>t. TypeOK /\ ListInv /\ ReleasingIsLeft
  BY DEF TrackInv, AnswerInv, ListInv
<1>o. ASSUME mState \in {"Released", "Releasing"}, ~overlap
      PROVE  LastIsRelease \/ (requests = <<>> /\ nif = "down")
  BY <1>o DEF TrackInv, GivenUp
<1>k. ASSUME mState \in {"Released", "Releasing"}, ~overlap, UNCHANGED <<requests, nif>>
      PROVE  Goal
  BY <1>o, <1>k DEF LastIsRelease
<1>d. ASSUME mState \in {"Pending", "Acquired"}, ~overlap, InQueue(GoesDown),
             UNCHANGED <<requests, nif>>
      PROVE  Goal
  BY <1>d DEF TrackInv, OneRequest
<1> USE <1>t
<1> HIDE DEF Goal
<1>1. CASE UNCHANGED vars
  BY <1>1, <1>k DEF vars
<1>2. ASSUME NEW c \in Clients, Client(c) PROVE Goal
  BY <1>2, <1>k DEF Client, ClientRequest, ClientRelease, machine
<1>3. CASE EngineUp
  BY <1>3, <1>k DEF EngineUp, machine
<1>4. CASE FwTakeRequest
  <2>1. /\ mState \in {"Released", "Releasing"} /\ ~overlap
        /\ requests # <<>> /\ Head(requests) = "REQUEST" /\ requests' = Tail(requests)
    BY <1>4 DEF FwTakeRequest, Requested, machine
  <2> QED BY <1>o, <2>1, ReleaseStays DEF Goal
<1>5. CASE FwTakeRelease
  <2>1. /\ mState \in {"Released", "Releasing"} /\ ~overlap
        /\ requests # <<>> /\ requests' = Tail(requests) /\ nif' = "down"
    BY <1>5 DEF FwTakeRelease, Requested, machine
  <2> QED BY <1>o, <2>1, ReleaseStays DEF Goal
<1>6. CASE FwOpen \/ FwOpenFailed \/ FwLost
  <2>1. /\ mState \in {"Released", "Releasing"} /\ ~overlap
        /\ nif # "down" /\ UNCHANGED requests
    BY <1>6 DEF FwOpen, FwOpenFailed, FwLost, machine
  <2>2. LastIsRelease
    BY <1>o, <2>1
  <2> QED BY <2>1, <2>2 DEF Goal, LastIsRelease
<1>7. ASSUME NEW c \in Clients, ProcRequest(c) PROVE Goal
  BY <1>7, <1>k DEF ProcRequest, TurnAway, SubscribeReleased, SubscribeWaiting,
       SubscribeAcquired
<1>8. ASSUME NEW c \in Clients, ProcRelease(c) PROVE Goal
  <2>0. UNCHANGED <<nif, overlap>>
    BY <1>8 DEF ProcRelease
  <2>1. CASE c \in mSubscribers /\ Unsubscribe(c)
    <3> DEFINE active == mSubscribers' \ mInactive'
    <3>1. /\ mState' = StateOnceLeft(mSubscribers', active)
          /\ requests' = IF active = {} /\ mState # "Releasing"
                         THEN SendRsrcRequest("RELEASE", active) ELSE requests
      BY <2>1 DEF Unsubscribe
    <3>2. CASE mState = "Released"
      BY <2>1, <3>2 DEF ListInv, ReleasedHasNoSubscribers
    <3>3. CASE mState = "Releasing"
      BY <1>k, <2>0, <3>1, <3>3
    <3>4. CASE mState \in {"Pending", "Acquired"}
      <4>1. active = {}
        BY <3>1, <3>4 DEF StateOnceLeft
      <4>2. requests' = SendRsrcRequest("RELEASE", {})
        BY <3>1, <3>4, <4>1
      <4> QED BY <4>2, ReleaseSent DEF Goal
    <3> QED BY <3>2, <3>3, <3>4 DEF TypeOK, States
  <2>2. CASE UNCHANGED <<machine, requests>>
    BY <1>k, <2>0, <2>2 DEF machine
  <2> QED BY <1>8, <2>1, <2>2 DEF ProcRelease
<1>9. CASE ProcAtlOpenSuccess
  BY <1>9, <1>k DEF ProcAtlOpenSuccess, TypeOK, States
<1>10. CASE ProcAtlClosed
  <2>0. Take("AtlClosed") /\ UNCHANGED <<nif, overlap>>
    BY <1>10 DEF ProcAtlClosed
  <2>1. InQueue(GoesDown)
    BY <2>0, InQueueTaken DEF GoesDown
  <2>2. CASE ForcedRelease
    BY <1>d, <2>0, <2>1, <2>2 DEF ForcedRelease
  <2>3. CASE ReleasingDone("RELEASED")
    BY <1>k, <2>0, <2>3 DEF ReleasingDone, ReleasingIsLeft
  <2> QED BY <1>10, <1>k, <2>0, <2>2, <2>3 DEF ProcAtlClosed, machine
<1>11. CASE ProcAtlOpenFailed
  <2>0. Take("AtlOpenFailed") /\ UNCHANGED <<nif, overlap>>
    BY <1>11 DEF ProcAtlOpenFailed
  <2>1. InQueue(GoesDown)
    BY <2>0, InQueueTaken DEF GoesDown
  <2>2. CASE Denied
    BY <1>d, <2>0, <2>1, <2>2 DEF Denied
  <2>3. CASE ReleasingDone("DENIED")
    BY <1>k, <2>0, <2>3 DEF ReleasingDone, ReleasingIsLeft
  <2> QED BY <1>11, <1>k, <2>0, <2>2, <2>3 DEF ProcAtlOpenFailed, machine
<1>12. CASE ProcUp
  BY <1>12, <1>k DEF ProcUp
<1> QED BY <1>1, <1>2, <1>3, <1>4, <1>5, <1>6, <1>7, <1>8, <1>9, <1>10,
           <1>11, <1>12 DEF Next, Framework, MsgTask

(* "Each state machine tracks resource state of a particular NIF": as long *)
(* as no request was sent before the one before it was settled, the        *)
(* connection is up exactly when the machine says so, once all is acted on.*)
THEOREM TracksConnection == Spec => []TracksNifUnlessOverlapping
<1>1. Init => TrackInv
  <2> SUFFICES ASSUME Init PROVE TrackInv OBVIOUS
  <2>1. AnswerInv
    BY AnswerInit
  <2> QED BY <2>1 DEF Init, TrackInv, ReleasingIsLeft, OneRequest, GivenUp
<1>2. TrackInv /\ [Next]_vars => TrackInv'
  BY AnswerStep, LeftStep, OneRequestStep, GivenUpStep DEF TrackInv, AnswerInv
<1>3. TrackInv => TracksNifUnlessOverlapping
  <2> SUFFICES ASSUME TrackInv, ~overlap, Quiet PROVE nif = "up" <=> mState = "Acquired"
    BY DEF TracksNifUnlessOverlapping
  <2>1. requests = <<>> /\ nif # "opening" /\ msgq = <<>>
    BY DEF Quiet
  <2>2. \A T : ~InQueue(T)
    BY <2>1 DEF InQueue
  <2>3. mState # "Pending"
    BY <2>1, <2>2 DEF TrackInv, AnswerInv, PendingIsAwaited, RequestOutstanding
  <2>4. mState = "Acquired" => nif = "up"
    BY <2>2 DEF TrackInv, AnswerInv, AcquiredMeansConnected
  <2>5. mState \in {"Released", "Releasing"} => nif = "down"
    BY <2>1 DEF TrackInv, GivenUp, LastIsRelease
  <2>6. mState \in States
    BY DEF TrackInv, AnswerInv, ListInv, TypeOK
  <2> QED BY <2>3, <2>4, <2>5, <2>6 DEF States
<1> QED BY <1>1, <1>2, <1>3, PTL DEF Spec

(* Whom a tiding is told, and whom not. *)
LEMMA Notified ==
    ASSUME NEW who, NEW what, NEW c \in Clients
    PROVE  Notify(who, what)[c] = IF c \in who THEN what ELSE told[c]
BY DEF Notify

(* Every step leaves a modem client that believes it was granted the        *)
(* connection on its list, and tells everybody active of the grant.         *)
LEMMA BeliefStep ==
    BeliefInv /\ ListInv' /\ [Next]_vars => Believes' /\ AllAreTold'
<1> SUFFICES ASSUME BeliefInv, ListInv', [Next]_vars PROVE Believes' /\ AllAreTold'
  OBVIOUS
<1>t. /\ TypeOK /\ TypeOK' /\ ListInv /\ ReleasingIsLeft /\ Believes /\ AllAreTold
      /\ ModemClients \subseteq Clients
      /\ InactiveIsReleasing /\ InactiveIsReleasing'
  BY ClientsAssumption DEF BeliefInv, ListInv
<1>u. CASE UNCHANGED machine
  BY <1>t, <1>u DEF machine, Believes, AllAreTold, Active
<1>1. CASE UNCHANGED vars
  BY <1>1, <1>u DEF vars, machine
<1>2. ASSUME NEW c \in Clients, Client(c) PROVE Believes' /\ AllAreTold'
  BY <1>2, <1>u DEF Client, ClientRequest, ClientRelease
<1>3. CASE EngineUp \/ Framework \/ FwLost
  BY <1>3, <1>u DEF EngineUp, Framework, FwTakeRequest, FwTakeRelease,
       FwOpen, FwOpenFailed, FwLost
<1>w. mState = "Releasing" => WaitForClose /\ mSubscribers # {} /\ Active = {}
  BY <1>t DEF ReleasingIsLeft, InactiveIsReleasing, Active
<1>4. ASSUME NEW c \in Clients, ProcRequest(c) PROVE Believes' /\ AllAreTold'
  <2>1. CASE TurnAway(c)
    <3>1. Type = "WIFI" /\ UNCHANGED <<mState, mSubscribers, mInactive>>
      BY <2>1 DEF TurnAway, TurnedAway, EnforceSingle
    <3>2. \A d \in Clients : told'[d] = IF d = c THEN "DENIED" ELSE told[d]
      BY <2>1, Notified DEF TurnAway
    <3> QED BY <1>t, <3>1, <3>2 DEF Believes, AllAreTold
  <2>2. CASE SubscribeReleased(c)
    <3>1. mSubscribers = {} /\ mInactive = {} /\ mState = "Released" /\ mState' = "Pending"
      BY <1>t, <2>2 DEF SubscribeReleased, ListInv, ReleasedHasNoSubscribers, TypeOK
    <3>2. \A d \in Clients : told'[d] = IF d = c THEN "none" ELSE told[d]
      BY <2>2, Notified DEF SubscribeReleased
    <3> QED BY <1>t, <3>1, <3>2 DEF Believes, AllAreTold
  <2>3. CASE SubscribeWaiting(c) /\ ~TurnedAway
    <3>1. mState = "Pending" /\ mState' = "Pending"
          /\ mSubscribers' = mSubscribers \cup {c} /\ mInactive' = mInactive
      BY <1>w, <2>3 DEF SubscribeWaiting, TurnedAway, WaitForClose, EnforceSingle
    <3>2. \A d \in Clients : told'[d] # told[d] => told'[d] = "none"
      BY <2>3, Notified DEF SubscribeWaiting
    <3> QED BY <1>t, <3>1, <3>2 DEF Believes, AllAreTold
  <2>4. CASE SubscribeAcquired(c)
    <3>1. mState' = "Acquired" /\ mState = "Acquired"
          /\ mSubscribers' = mSubscribers \cup {c} /\ mInactive' = mInactive
      BY <2>4 DEF SubscribeAcquired
    <3>2. \A d \in Clients : told'[d] = IF d = c THEN "GRANTED" ELSE told[d]
      BY <2>4, Notified DEF SubscribeAcquired
    <3>3. Active' \subseteq Active \cup {c} /\ Active \subseteq Clients
      BY <1>t, <3>1 DEF Active, TypeOK
    <3> QED BY <1>t, <3>1, <3>2, <3>3 DEF Believes, AllAreTold
  <2> QED BY <1>4, <2>1, <2>2, <2>3, <2>4 DEF ProcRequest
<1>5. ASSUME NEW c \in Clients, ProcRelease(c) PROVE Believes' /\ AllAreTold'
  <2>1. CASE c \in mSubscribers /\ Unsubscribe(c)
    <3>1. CASE WaitForClose
      <4>1. mSubscribers = {c} /\ mSubscribers' = {c} /\ c \in mInactive' /\ told' = told
        BY <2>1, <3>1 DEF Unsubscribe, Remaining, ListInv, Alone, WaitForClose,
                          EnforceSingle, BeliefInv
      <4> QED BY <1>t, <3>1, <4>1 DEF Believes, AllAreTold, WaitForClose
    <3>2. CASE ~WaitForClose
      <4>1. mInactive = {} /\ mInactive' = {} /\ mSubscribers' = mSubscribers \ {c}
        BY <1>t, <2>1, <3>2 DEF Unsubscribe, Remaining, InactiveIsReleasing
      <4>2. \A d \in Clients : told'[d] = IF d = c THEN "UNSUBSCRIBE" ELSE told[d]
        BY <2>1, <3>2, Notified DEF Unsubscribe
      <4>3. mState' = mState \/ mSubscribers' = {}
        BY <2>1, <4>1 DEF Unsubscribe, StateOnceLeft
      <4>4. ASSUME NEW d \in ModemClients, told'[d] = "GRANTED"
            PROVE  d \in mSubscribers' /\ mState' = "Acquired"
        <5>1. d # c /\ told[d] = "GRANTED"
          BY <1>t, <4>2, <4>4
        <5>2. d \in mSubscribers /\ mState = "Acquired"
          BY <1>t, <4>1, <4>4, <5>1 DEF Believes
        <5>3. d \in mSubscribers'
          BY <4>1, <5>1, <5>2
        <5> QED BY <4>3, <5>2, <5>3
      <4>5. AllAreTold'
        <5> SUFFICES ASSUME mState' = "Acquired", Type # "WIFI", NEW d \in Active'
                     PROVE  told'[d] = "GRANTED"
          BY DEF AllAreTold
        <5>1. mState = "Acquired"
          BY <2>1 DEF Unsubscribe, StateOnceLeft
        <5>2. d \in Active /\ d # c /\ d \in Clients
          BY <1>t, <4>1 DEF Active, TypeOK
        <5> QED BY <1>t, <4>2, <5>1, <5>2 DEF AllAreTold
      <4> QED BY <4>4, <4>5 DEF Believes
    <3> QED BY <3>1, <3>2
  <2>2. CASE UNCHANGED <<machine, requests>>
    BY <1>u, <2>2
  <2> QED BY <1>5, <2>1, <2>2 DEF ProcRelease
<1>6. CASE ProcAtlOpenSuccess
  <2>1. CASE mState = "Pending"
    <3>1. mState' = "Acquired" /\ UNCHANGED <<mSubscribers, mInactive>>
      BY <1>6, <2>1 DEF ProcAtlOpenSuccess
    <3>2. \A d \in Clients : told'[d] = IF d \in Active THEN "GRANTED" ELSE told[d]
      BY <1>6, <2>1, Notified DEF ProcAtlOpenSuccess
    <3>3. Active' = Active /\ Active \subseteq mSubscribers /\ Active \subseteq Clients
      BY <1>t, <3>1 DEF Active, TypeOK
    <3> QED BY <1>t, <3>1, <3>2, <3>3 DEF Believes, AllAreTold
  <2>2. CASE mState # "Pending"
    BY <1>6, <1>u, <2>2 DEF ProcAtlOpenSuccess, machine
  <2> QED BY <2>1, <2>2
<1>o. ASSUME NEW what \in {"RELEASED", "DENIED"}, mState' = "Released",
             told' = Notify(mSubscribers, what), mSubscribers' = {}, mInactive' = {}
      PROVE  Believes' /\ AllAreTold'
  <2>1. \A d \in Clients : told'[d] = IF d \in mSubscribers THEN what ELSE told[d]
    BY <1>o, Notified
  <2> QED BY <1>t, <1>o, <2>1 DEF Believes, AllAreTold
<1>r. ASSUME NEW what \in {"RELEASED", "DENIED"}, ReleasingDone(what)
      PROVE  Believes' /\ AllAreTold'
  <2>1. Active = {} /\ mInactive = mSubscribers
    BY <1>r, <1>t, <1>w DEF ReleasingDone, Active, TypeOK
  <2> QED BY <1>o, <1>r, <2>1 DEF ReleasingDone
<1>7. CASE ProcAtlClosed
  <2>1. CASE ForcedRelease
    BY <1>o, <2>1 DEF ForcedRelease, TellAllAndDelete
  <2>2. CASE ReleasingDone("RELEASED")
    BY <1>r, <2>2
  <2> QED BY <1>7, <1>u, <2>1, <2>2 DEF ProcAtlClosed
<1>8. CASE ProcAtlOpenFailed
  <2>1. CASE Denied
    BY <1>o, <2>1 DEF Denied, TellAllAndDelete
  <2>2. CASE ReleasingDone("DENIED")
    BY <1>r, <2>2
  <2> QED BY <1>8, <1>u, <2>1, <2>2 DEF ProcAtlOpenFailed
<1>9. CASE ProcUp
  <2>1. CASE DroppedOnEngineUp
    <3>1. mSubscribers' = {} /\ told' = Notify(ModemClients, "none")
      BY <1>9, <2>1 DEF ProcUp
    <3>2. \A d \in ModemClients : told'[d] = "none"
      BY <1>t, <3>1, Notified
    <3> QED BY <3>1, <3>2 DEF Believes, AllAreTold, Active
  <2>2. CASE ~DroppedOnEngineUp
    BY <1>9, <1>u, <2>2 DEF ProcUp, machine
  <2> QED BY <2>1, <2>2
<1> QED BY <1>1, <1>2, <1>3, <1>4, <1>5, <1>6, <1>7, <1>8, <1>9 DEF Next, MsgTask

(* It holds at first, and through every step.                               *)
LEMMA BeliefInit == Init => BeliefInv
<1> SUFFICES ASSUME Init PROVE BeliefInv OBVIOUS
<1>1. ListInv /\ ModemClients \subseteq Clients
  BY ListInit, ClientsAssumption
<1> QED BY <1>1 DEF Init, BeliefInv, ReleasingIsLeft, Believes, AllAreTold

LEMMA BeliefKept == BeliefInv /\ [Next]_vars => BeliefInv'
<1>1. BeliefInv => ListInv
  BY DEF BeliefInv
<1>2. ListInv' /\ BeliefInv /\ [Next]_vars => BeliefInv'
  BY LeftStep, BeliefStep DEF BeliefInv
<1> QED BY <1>1, <1>2, ListStep

LEMMA BeliefIs == BeliefInv => GrantBelief
<1> SUFFICES ASSUME BeliefInv PROVE GrantBelief OBVIOUS
<1>1. ASSUME NEW c \in ModemClients, told[c] = "GRANTED"
      PROVE  c \in mSubscribers /\ mState # "Pending"
  BY <1>1 DEF BeliefInv, Believes, ListInv, InactiveIsReleasing
<1> QED BY <1>1 DEF BeliefInv, AllAreTold, GrantBelief

(* A modem client that was granted the connection and told nothing since    *)
(* holds it, and while it is acquired everybody active was told so, over    *)
(* any interleaving of the clients' requests and releases, the framework's  *)
(* answers and the modem's restarts.                                        *)
THEOREM GrantsAreBelieved == Spec => []GrantBelief
BY BeliefInit, BeliefKept, BeliefIs, PTL DEF Spec

(* Without a restart of the modem the list is emptied only by who leaves or *)
(* with all who are told, and the machine is released with it.              *)
LEMMA HeldStep == HeldInv /\ [Next]_vars => NoRestart' /\ HeldForSomebody'
<1> SUFFICES ASSUME HeldInv, [Next]_vars, engineUps' = 0
             PROVE  /\ ~InQueue({"Up"})'
                    /\ mState' \in {"Pending", "Acquired"} => Active' # {}
  BY DEF NoRestart, HeldForSomebody
<1>t. TypeOK /\ ListInv /\ ReleasingIsLeft /\ engineUps \in Nat
  BY DEF HeldInv, ListInv, TypeOK
<1>e. engineUps = 0
  <2>1. engineUps' = engineUps \/ engineUps' = engineUps + 1
    BY DEF Next, Client, ClientRequest, ClientRelease, EngineUp, Framework,
           FwTakeRequest, FwTakeRelease, FwOpen, FwOpenFailed, FwLost, MsgTask,
           ProcRequest, ProcRelease, ProcAtlOpenSuccess, ProcAtlClosed,
           ProcAtlOpenFailed, ProcUp, vars
  <2> QED BY <1>t, <2>1
<1>h. ~InQueue({"Up"}) /\ (mState \in {"Pending", "Acquired"} => Active # {})
  BY <1>e DEF HeldInv, NoRestart, HeldForSomebody
<1>m. \A m \in Messages : m # [type |-> "Up"] => m.type \notin {"Up"}
  BY DEF Messages, FwMessages
<1>u. ASSUME UNCHANGED <<mState, mSubscribers, mInactive>>
      PROVE  mState' \in {"Pending", "Acquired"} => Active' # {}
  BY <1>h, <1>u DEF Active
<1> USE MessageTypes, <1>t
<1>1. CASE UNCHANGED vars
  BY <1>1, <1>h, <1>u DEF vars, InQueue
<1>p. ASSUME NEW m \in Messages, m.type # "Up", Post(m), UNCHANGED machine
      PROVE  /\ ~InQueue({"Up"})'
             /\ mState' \in {"Pending", "Acquired"} => Active' # {}
  BY <1>h, <1>p, <1>u, InQueuePosted DEF machine
<1>q. ASSUME UNCHANGED <<msgq, machine>>
      PROVE  /\ ~InQueue({"Up"})'
             /\ mState' \in {"Pending", "Acquired"} => Active' # {}
  BY <1>h, <1>q, <1>u DEF machine, InQueue
<1>2. ASSUME NEW c \in Clients, Client(c)
      PROVE  /\ ~InQueue({"Up"})'
             /\ mState' \in {"Pending", "Acquired"} => Active' # {}
  BY <1>2, <1>p DEF Client, ClientRequest, ClientRelease
<1>3. CASE EngineUp
  BY <1>3, <1>e DEF EngineUp
<1>4. CASE Framework \/ FwLost
  <2>1. \A t \in {"AtlOpenSuccess", "AtlClosed", "AtlOpenFailed"} :
           FwMessage(t).type # "Up"
    BY DEF FwMessage
  <2> QED BY <1>4, <1>p, <1>q, <2>1
      DEF Framework, FwTakeRequest, FwTakeRelease, FwOpen, FwOpenFailed, FwLost
<1>k. ASSUME NEW t, Take(t) PROVE t # "Up" /\ ~InQueue({"Up"})'
  BY <1>h, <1>k, InQueueTaken
<1>5. ASSUME NEW c \in Clients, ProcRequest(c)
      PROVE  /\ ~InQueue({"Up"})'
             /\ mState' \in {"Pending", "Acquired"} => Active' # {}
  <2>1. ~InQueue({"Up"})'
    BY <1>5, <1>k DEF ProcRequest
  <2>2. CASE TurnAway(c)
    BY <1>u, <2>1, <2>2 DEF TurnAway
  <2>3. CASE SubscribeReleased(c)
    <3>1. mInactive = {}
      BY <2>3 DEF SubscribeReleased, ListInv, ReleasedHasNoSubscribers, TypeOK
    <3>2. c \in Active'
      BY <2>3, <3>1 DEF SubscribeReleased, Active
    <3> QED BY <2>1, <3>2
  <2>4. CASE SubscribeWaiting(c) \/ SubscribeAcquired(c)
    <3>1. mState' = mState /\ Active \subseteq Active'
      BY <2>4 DEF SubscribeWaiting, SubscribeAcquired, Active
    <3> QED BY <1>h, <2>1, <3>1
  <2> QED BY <1>5, <2>2, <2>3, <2>4 DEF ProcRequest
<1>6. ASSUME NEW c \in Clients, ProcRelease(c)
      PROVE  /\ ~InQueue({"Up"})'
             /\ mState' \in {"Pending", "Acquired"} => Active' # {}
  <2>1. ~InQueue({"Up"})'
    BY <1>6, <1>k DEF ProcRelease
  <2>2. CASE c \in mSubscribers /\ Unsubscribe(c)
    <3>1. mState' = StateOnceLeft(mSubscribers', Active')
      BY <2>2 DEF Unsubscribe, Active
    <3>2. mState' \in {"Pending", "Acquired"} => Active' # {}
      <4> SUFFICES ASSUME Active' = {} PROVE mState' \in {"Released", "Releasing"}
        OBVIOUS
      <4> QED BY <3>1 DEF StateOnceLeft
    <3> QED BY <2>1, <3>2
  <2>3. CASE UNCHANGED <<machine, requests>>
    BY <1>u, <2>1, <2>3 DEF machine
  <2> QED BY <1>6, <2>2, <2>3 DEF ProcRelease
<1>7. CASE ProcAtlOpenSuccess
  <2>1. ~InQueue({"Up"})'
    BY <1>7, <1>k DEF ProcAtlOpenSuccess
  <2>2. Active' = Active /\ (mState' = mState \/ mState = "Pending")
    BY <1>7 DEF ProcAtlOpenSuccess, Active
  <2> QED BY <1>h, <2>1, <2>2
<1>8. CASE ProcAtlClosed \/ ProcAtlOpenFailed
  <2>1. ~InQueue({"Up"})'
    BY <1>8, <1>k DEF ProcAtlClosed, ProcAtlOpenFailed
  <2>2. ASSUME NEW what, ReleasingDone(what) PROVE mState' = "Released"
    BY <2>2 DEF ReleasingDone, ReleasingIsLeft
  <2>3. mState' = "Released" \/ UNCHANGED <<mState, mSubscribers, mInactive>>
    BY <1>8, <2>2 DEF ProcAtlClosed, ProcAtlOpenFailed, ForcedRelease, Denied, machine
  <2> QED BY <1>u, <2>1, <2>3
<1>9. CASE ProcUp
  BY <1>9, <1>k DEF ProcUp
<1> QED BY <1>1, <1>2, <1>3, <1>4, <1>5, <1>6, <1>7, <1>8, <1>9 DEF Next, MsgTask

(* Until the modem restarts, the connection is asked for or held only while *)
(* somebody active wants it.                                                *)
THEOREM HeldIsWanted == Spec => []HeldForSomebody
<1>1. Init => HeldInv
  <2> SUFFICES ASSUME Init PROVE HeldInv OBVIOUS
  <2>1. ListInv
    BY ListInit
  <2>2. Len(msgq) = 0
    BY DEF Init
  <2> QED BY <2>1, <2>2
      DEF Init, HeldInv, ReleasingIsLeft, NoRestart, HeldForSomebody, InQueue
<1>2. HeldInv /\ [Next]_vars => HeldInv'
  BY ListStep, LeftStep, HeldStep DEF HeldInv
<1>3. HeldInv => HeldForSomebody
  BY DEF HeldInv
<1> QED BY <1>1, <1>2, <1>3, PTL DEF Spec

-----------------------------------------------------------------------------
(* wifi_nif, whose type is fixed: who may be on its list.                   *)
WifiList ==
    /\ mState \in States
    /\ mInactive \subseteq mSubscribers
    /\ mState = "Released" => mSubscribers = {}
    /\ \A a, b \in mSubscribers : a = b
    /\ mInactive # {} => mState = "Releasing"

(* A request joins an empty list, and is turned away from another.          *)
LEMMA WifiSubscribe ==
    ASSUME WifiList, NEW c \in Clients, Wifi!ProcRequest(c)
    PROVE  WifiList'
<1> USE DEF WifiList, States
<1>1. CASE Wifi!TurnAway(c)
  BY <1>1 DEF Wifi!TurnAway
<1>2. CASE mSubscribers = {} /\ Wifi!SubscribeReleased(c)
  BY <1>2 DEF Wifi!SubscribeReleased
<1>3. CASE mSubscribers = {} /\ Wifi!SubscribeWaiting(c)
  BY <1>3 DEF Wifi!SubscribeWaiting
<1>4. CASE mSubscribers = {} /\ Wifi!SubscribeAcquired(c)
  BY <1>4 DEF Wifi!SubscribeAcquired
<1> QED BY <1>1, <1>2, <1>3, <1>4
        DEF Wifi!ProcRequest, Wifi!TurnedAway, Wifi!EnforceSingle

(* The one who leaves waits on the list for the close.                      *)
LEMMA WifiUnsubscribe ==
    ASSUME WifiList, NEW c \in Clients, Wifi!ProcRelease(c)
    PROVE  WifiList'
<1> USE DEF WifiList, States
<1>1. CASE c \in mSubscribers /\ Wifi!Unsubscribe(c)
  <2>1. mSubscribers = {c}
    BY <1>1
  <2>2. mSubscribers' = {c} /\ mInactive' = mInactive \cup {c}
        /\ mState' = Wifi!StateOnceLeft({c}, {c} \ (mInactive \cup {c}))
    BY <1>1, <2>1 DEF Wifi!Unsubscribe, Wifi!Remaining, Wifi!WaitForClose
  <2>3. mInactive' = {c} /\ mState' = "Releasing"
    BY <2>1, <2>2 DEF Wifi!StateOnceLeft
  <2> QED BY <2>2, <2>3
<1>2. CASE UNCHANGED machine
  BY <1>2 DEF machine
<1> QED BY <1>1, <1>2 DEF Wifi!ProcRelease, Wifi!machine, machine

LEMMA WifiStep ==
    ASSUME WifiList, [Wifi!Next]_vars
    PROVE  WifiList'
<1> USE DEF WifiList, States
<1>1. CASE UNCHANGED machine
  BY <1>1 DEF machine
<1>2. CASE UNCHANGED vars
  BY <1>1, <1>2 DEF vars, machine
<1>3. CASE (\E c \in Clients : Wifi!Client(c)) \/ Wifi!EngineUp
  BY <1>1, <1>3
     DEF Wifi!Client, Wifi!ClientRequest, Wifi!ClientRelease, Wifi!EngineUp, Wifi!machine,
         machine
<1>4. CASE Wifi!Framework \/ Wifi!FwLost
  BY <1>1, <1>4
     DEF Wifi!Framework, Wifi!FwLost, Wifi!FwTakeRequest, Wifi!FwTakeRelease, Wifi!FwOpen,
         Wifi!FwOpenFailed, Wifi!machine, machine
<1>5. ASSUME NEW what, Wifi!ReleasingDone(what)
      PROVE  WifiList'
  BY <1>5 DEF Wifi!ReleasingDone, Wifi!Active
<1>6. CASE Wifi!ProcAtlOpenSuccess
  BY <1>6 DEF Wifi!ProcAtlOpenSuccess
<1>7. CASE Wifi!ProcAtlClosed
  <2>1. CASE Wifi!ForcedRelease
    BY <2>1 DEF Wifi!ForcedRelease, Wifi!TellAllAndDelete
  <2> QED BY <1>1, <1>5, <1>7, <2>1 DEF Wifi!ProcAtlClosed, Wifi!machine, machine
<1>8. CASE Wifi!ProcAtlOpenFailed
  <2>1. CASE Wifi!Denied
    BY <2>1 DEF Wifi!Denied, Wifi!TellAllAndDelete
  <2> QED BY <1>1, <1>5, <1>8, <2>1 DEF Wifi!ProcAtlOpenFailed, Wifi!machine, machine
<1>9. CASE Wifi!ProcUp
  BY <1>9 DEF Wifi!ProcUp, Wifi!DroppedOnEngineUp
<1> QED BY <1>2, <1>3, <1>4, <1>6, <1>7, <1>8, <1>9, WifiSubscribe, WifiUnsubscribe
        DEF Wifi!Next, Wifi!MsgTask

(* What wifi_nif promises of who holds it; the modem has no client there.   *)
LEMMA WifiHolds == WifiList => Wifi!GrantBelief /\ Wifi!SingleSubscriber
<1> SUFFICES ASSUME WifiList PROVE Wifi!GrantBelief /\ Wifi!SingleSubscriber OBVIOUS
<1>1. \A S : Wifi!Cardinality(S) = Cardinality(S)
  BY Zenon DEF Wifi!Cardinality, Cardinality, Wifi!IsFiniteSet, IsFiniteSet
<1>2. Cardinality(mSubscribers) <= 1
  BY OneAtMost DEF WifiList
<1> QED BY <1>1, <1>2 DEF WifiList, Wifi!GrantBelief, Wifi!SingleSubscriber

-----------------------------------------------------------------------------
(* The two connections together: a behaviour is one of either.              *)
NifKept == IF shared = "agnss_nif" THEN BeliefInv ELSE WifiList

LEMMA NifInv == NifSpec => []NifKept
<1>1. NifInit => NifKept
  BY BeliefInit DEF NifInit, NifKept, Init, WifiList, States
<1>2. NifKept /\ [NifNext]_<<shared, vars>> => NifKept'
  <2> SUFFICES ASSUME NifKept, [NifNext]_<<shared, vars>> PROVE NifKept' OBVIOUS
  <2>1. shared' = shared
    BY DEF NifNext
  <2>2. CASE shared = "agnss_nif"
    BY <2>1, <2>2, BeliefKept DEF NifKept, NifNext
  <2>3. CASE shared # "agnss_nif"
    BY <2>1, <2>3, WifiStep DEF NifKept, NifNext
  <2> QED BY <2>2, <2>3
<1> QED BY <1>1, <1>2, PTL DEF NifSpec

(* Each connection is held by whom it should be: on agnss_nif a modem       *)
(* client that was granted it and everybody active has it, and wifi_nif has *)
(* one subscriber at a time, until its close completes.                     *)
THEOREM NifHoldersCorrect == NifSpec => []NifHolders
<1>1. BeliefInv => SingleSubscriber
  BY ListIsSingle DEF BeliefInv
<1>2. NifKept => NifHolders
  BY <1>1, BeliefIs, WifiHolds DEF NifKept, NifHolders
<1> QED BY <1>2, NifInv, PTL
=============================================================================
