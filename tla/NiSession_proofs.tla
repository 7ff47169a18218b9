-------------------------- MODULE NiSession_proofs --------------------------
(* A request in session is watched by a thread, and the modem is informed   *)
(* at most once about each request, for any replies and any number of       *)
(* requests and of restarts between any two steps.                          *)
EXTENDS NiSession, FiniteSetTheorems, TLAPS

(* The IDs used up are those of the threads that are past their session.    *)
Ended == {r \in Requests : thread[r] \in {"send", "done"}}

Typed ==
    /\ TypeOK
    /\ msg \in [Requests -> Seq(Answers)]
    /\ \A r \in Requests : r > requests => thread[r] = "none"
    /\ reqID = Cardinality(Ended)

Watched == rawRequest # 0 => OnWatch # {}

(* tLock.                                                                   *)
Alone == \A r, s \in Requests :
             thread[r] \in {"take", "clear"} /\ thread[s] \in {"take", "clear"} => r = s

(* The threads that made an answer and have not posted it, and all that     *)
(* were posted.                                                             *)
Made == {r \in Requests : msg[r] # <<>>}
Posted == informed \o msgq

(* What was answered is not in session any more, but for the answer that is *)
(* just being made, and was not answered by another.                        *)
AnsweredOnce ==
    /\ rawRequest <= requests
    /\ \A r \in Made :
          /\ Len(msg[r]) = 1 /\ msg[r][1].request <= requests
          /\ thread[r] \in {"clear", "leave", "bump", "send"}
          /\ msg[r][1].request = rawRequest => thread[r] = "clear"
    /\ \A r, s \in Made : msg[r][1].request = msg[s][1].request => r = s
    /\ \A i \in 1..Len(Posted) :
          /\ Posted[i].request <= requests /\ Posted[i].request # rawRequest
          /\ \A r \in Made : Posted[i].request # msg[r][1].request
          /\ \A j \in 1..Len(Posted) : Posted[i].request = Posted[j].request => i = j

NiInv == Typed /\ Watched /\ Alone /\ AnsweredOnce

-----------------------------------------------------------------------------
(* The threads are finitely many, so there are IDs for all of them.         *)
LEMMA EndedFinite ==
    ASSUME NEW S \in SUBSET Requests
    PROVE  IsFiniteSet(S) /\ Cardinality(S) \in 0..MaxRequests
<1>1. IsFiniteSet(Requests) /\ Cardinality(Requests) = MaxRequests
  <2>1. MaxRequests \in Int /\ 1 \in Int
    BY BoundsAssumption
  <2>2. /\ IsFiniteSet(1..MaxRequests)
        /\ Cardinality(1..MaxRequests) = IF 1 > MaxRequests THEN 0 ELSE MaxRequests - 1 + 1
    BY <2>1, FS_Interval
  <2> QED
    BY <2>2, BoundsAssumption DEF Requests
<1>2. IsFiniteSet(S) /\ Cardinality(S) <= Cardinality(Requests)
  BY <1>1, FS_Subset
<1>3. Cardinality(S) \in Nat
  BY <1>2, FS_CardinalityType
<1> QED
  BY <1>1, <1>2, <1>3, BoundsAssumption

LEMMA BumpInTime ==
    ASSUME Typed, NEW r \in Requests, thread[r] = "bump"
    PROVE  /\ reqID + 1 \in 0..MaxRequests
           /\ reqID + 1 = Cardinality(Ended \cup {r})
<1>1. Ended \in SUBSET Requests /\ Ended \cup {r} \in SUBSET Requests /\ r \notin Ended
  BY DEF Ended
<1>2. IsFiniteSet(Ended)
  BY <1>1, EndedFinite
<1>3. Cardinality(Ended \cup {r}) = Cardinality(Ended) + 1
  BY <1>1, <1>2, FS_AddElement
<1>4. Cardinality(Ended \cup {r}) \in 0..MaxRequests
  BY <1>1, EndedFinite
<1> QED
  BY <1>3, <1>4 DEF Typed

(* Posting one more, and passing one on to the modem.                       *)
LEMMA PassedOn ==
    ASSUME NEW A, NEW p \in Seq(A), NEW q \in Seq(A), q # <<>>
    PROVE  /\ Append(p, Head(q)) \in Seq(A) /\ Tail(q) \in Seq(A) /\ Head(q) \in A
           /\ Append(p, Head(q)) \o Tail(q) = p \o q
  OBVIOUS

LEMMA PostedOne ==
    ASSUME NEW A, NEW p \in Seq(A), NEW q \in Seq(A), NEW m \in A
    PROVE  /\ q \o <<m>> \in Seq(A)
           /\ Len(p \o (q \o <<m>>)) = Len(p \o q) + 1
           /\ \A i \in 1..Len(p \o q) : (p \o (q \o <<m>>))[i] = (p \o q)[i]
           /\ (p \o (q \o <<m>>))[Len(p \o q) + 1] = m
  OBVIOUS

-----------------------------------------------------------------------------
LEMMA InitInv == Init => NiInv
<1> SUFFICES ASSUME Init PROVE NiInv
  OBVIOUS
<1>1. Ended = {} /\ Made = {} /\ Posted = <<>>
  BY DEF Init, Ended, Made, Posted
<1>2. reqID = Cardinality(Ended)
  BY <1>1, FS_EmptySet DEF Init
<1>3. TypeOK /\ msg \in [Requests -> Seq(Answers)]
  <2>1. /\ msg \in [Requests -> Seq(Answers)] /\ \A r \in Requests : msg[r] \in Seq(Answers)
        /\ msgq \in Seq(Answers) /\ informed \in Seq(Answers) /\ responding \in Seq(Replies)
    BY DEF Init
  <2>2. /\ thread \in [Requests -> ThreadSteps] /\ delay \in [Requests -> {0, 1}]
        /\ freed \in [Requests -> Nat] /\ notification \in [Requests -> 0..MaxRequests]
        /\ reply \in [Requests -> Replies \cup {"none"}]
    BY BoundsAssumption DEF Init, ThreadSteps
  <2>3. /\ rawRequest \in 0..MaxRequests /\ reqID \in 0..MaxRequests /\ respTimeLeft \in {0, 1}
        /\ requests \in 0..MaxRequests /\ downs \in 0..MaxDowns
    BY BoundsAssumption DEF Init
  <2>4. /\ respRecvd \in BOOLEAN /\ resp \in Replies \cup {"NORESP", "unset"}
        /\ resetting \in {"no", "clear", "signal"}
    BY Zenon DEF Init
  <2> QED
    BY <2>1, <2>2, <2>3, <2>4, Zenon DEF TypeOK
<1> QED
  BY <1>1, <1>2, <1>3 DEF Init, NiInv, Typed, Watched, Alone, AnsweredOnce

LEMMA AnswersTyped ==
    ASSUME NiInv
    PROVE  /\ \A s \in Made : msg[s][1] \in Answers
           /\ \A i \in 1..Len(Posted) : Posted[i] \in Answers
           /\ \A m \in Answers : m.request \in Nat /\ m.request # 0
<1>1. \A s \in Made : Len(msg[s]) = 1 /\ msg[s] \in Seq(Answers)
  BY DEF Made, NiInv, Typed, AnsweredOnce
<1>2. \A s \in Made : msg[s][1] \in Answers
  BY <1>1
<1>3. Posted \in Seq(Answers)
  BY DEF Posted, NiInv, Typed, TypeOK
<1>4. \A i \in 1..Len(Posted) : Posted[i] \in Answers
  BY <1>3
<1> QED
  BY <1>2, <1>4 DEF Answers, Requests

LEMMA RequestInv ==
    ASSUME NiInv, NEW r \in Requests, Request(r)
    PROVE  NiInv'
<1>1. /\ r = requests + 1 /\ requests' = r /\ requests \in Nat /\ thread[r] = "none"
      /\ UNCHANGED <<respRecvd, resp, reqID, delay, msg, msgq, informed, reply, responding,
                     resetting, downs>>
  BY BoundsAssumption DEF Request, NiInv, Typed, TypeOK, Requests
<1>2. /\ \/ rawRequest # 0 /\ rawRequest' = rawRequest /\ thread' = thread
         \/ rawRequest' = r /\ thread' = [thread EXCEPT ![r] = "start"]
      /\ rawRequest' \in 0..MaxRequests /\ rawRequest' <= requests'
  <2>1. \/ rawRequest # 0 /\ rawRequest' = rawRequest /\ thread' = thread
        \/ rawRequest' = r /\ thread' = [thread EXCEPT ![r] = "start"]
    BY DEF Request, Busy
  <2>2. rawRequest \in 0..MaxRequests /\ rawRequest <= requests
    BY DEF NiInv, Typed, TypeOK, AnsweredOnce
  <2> QED
    BY <1>1, <2>1, <2>2, BoundsAssumption DEF Requests
<1>3. /\ thread \in [Requests -> ThreadSteps] /\ thread' \in [Requests -> ThreadSteps]
      /\ \A s \in Requests \ {r} : thread'[s] = thread[s]
      /\ thread'[r] \in {"none", "start"}
  BY <1>1, <1>2 DEF NiInv, Typed, TypeOK, ThreadSteps
<1>4. Ended' = Ended /\ Made' = Made /\ Posted' = Posted
  BY <1>1, <1>3 DEF Ended, Made, Posted
<1>5. TypeOK'
  <2>1. /\ freed' \in [Requests -> Nat] /\ notification' \in [Requests -> 0..MaxRequests]
        /\ respTimeLeft' \in {0, 1} /\ requests' \in 0..MaxRequests
    <3>1. /\ freed \in [Requests -> Nat] /\ notification \in [Requests -> 0..MaxRequests]
          /\ respTimeLeft \in {0, 1} /\ reqID \in 0..MaxRequests
      BY DEF NiInv, Typed, TypeOK
    <3>2. /\ freed' = freed \/ freed' = [freed EXCEPT ![r] = @ + 1]
          /\ \/ notification' = notification
             \/ notification' = [notification EXCEPT ![r] = reqID]
          /\ respTimeLeft' \in {1, respTimeLeft}
      BY DEF Request
    <3> QED
      BY <1>1, <3>1, <3>2 DEF Requests
  <2> QED
    BY <1>1, <1>2, <1>3, <2>1 DEF NiInv, Typed, TypeOK
<1>6. Typed'
  BY <1>1, <1>3, <1>4, <1>5 DEF NiInv, Typed, Requests
<1>7. Watched'
  BY <1>2, <1>3 DEF NiInv, Watched, OnWatch
<1>8. Alone'
  BY <1>3 DEF NiInv, Alone
<1>9. AnsweredOnce'
  <2>1. \A s \in Made : s # r /\ s \in Requests
    BY <1>1 DEF Made, NiInv, AnsweredOnce
  <2>2. \A s \in Made :
          /\ Len(msg'[s]) = 1 /\ msg'[s][1].request <= requests'
          /\ thread'[s] \in {"clear", "leave", "bump", "send"}
          /\ msg'[s][1].request = rawRequest' => thread'[s] = "clear"
    <3> SUFFICES ASSUME NEW s \in Made
                 PROVE  /\ Len(msg'[s]) = 1 /\ msg'[s][1].request <= requests'
                        /\ thread'[s] \in {"clear", "leave", "bump", "send"}
                        /\ msg'[s][1].request = rawRequest' => thread'[s] = "clear"
      OBVIOUS
    <3>1. /\ Len(msg[s]) = 1 /\ msg[s][1].request <= requests
          /\ thread[s] \in {"clear", "leave", "bump", "send"}
          /\ msg[s][1].request = rawRequest => thread[s] = "clear"
      BY DEF NiInv, AnsweredOnce
    <3>2. msg[s][1].request \in Nat
      BY AnswersTyped
    <3>3. thread'[s] = thread[s] /\ msg'[s] = msg[s]
      BY <1>1, <1>3, <2>1
    <3>4. msg[s][1].request <= requests' /\ msg[s][1].request # r
      BY <1>1, <3>1, <3>2
    <3> QED
      BY <1>2, <3>1, <3>3, <3>4
  <2>3. \A i \in 1..Len(Posted) :
          Posted[i].request <= requests' /\ Posted[i].request # rawRequest'
    BY <1>1, <1>2, AnswersTyped DEF NiInv, AnsweredOnce
  <2> QED
    BY <1>1, <1>2, <1>4, <2>2, <2>3 DEF NiInv, AnsweredOnce
<1> QED
  BY <1>6, <1>7, <1>8, <1>9 DEF NiInv

(* Steps that leave the session's thread, its answers and its request be.   *)
LEMMA OthersInv ==
    ASSUME NiInv,
           \/ Inform \/ ResetFree \/ ResetSignal \/ RespondSignal
           \/ \E r \in Requests, answer \in Replies : RespondCheck(r, answer)
    PROVE  NiInv'
<1>1. /\ UNCHANGED <<rawRequest, reqID, respTimeLeft, thread, delay, msg, notification, requests>>
      /\ Ended' = Ended /\ Made' = Made
  BY DEF Inform, ResetFree, ResetSignal, RespondSignal, RespondCheck, session, ni, framework,
         bounds, Ended, Made
<1>2. /\ informed' \in Seq(Answers) /\ msgq' \in Seq(Answers) /\ Posted' = Posted
      /\ freed' \in [Requests -> Nat]
  <2>1. informed \in Seq(Answers) /\ msgq \in Seq(Answers) /\ freed \in [Requests -> Nat]
    BY DEF NiInv, Typed, TypeOK
  <2>2. CASE Inform
    <3>1. /\ msgq # <<>> /\ msgq' = Tail(msgq) /\ informed' = Append(informed, Head(msgq))
          /\ freed' = [freed EXCEPT ![Head(msgq).request] = @ + 1]
      BY <2>2 DEF Inform
    <3>2. /\ Append(informed, Head(msgq)) \in Seq(Answers) /\ Tail(msgq) \in Seq(Answers)
          /\ Append(informed, Head(msgq)) \o Tail(msgq) = informed \o msgq
      BY <2>1, <3>1, PassedOn, Zenon
    <3>5. Head(msgq) \in Answers
      BY <2>1, <3>1, PassedOn, Zenon
    <3>4. Head(msgq).request \in Requests
      BY <3>5 DEF Answers
    <3>3. freed' \in [Requests -> Nat]
      BY <2>1, <3>1, <3>4
    <3> QED
      BY <3>1, <3>2, <3>3 DEF Posted
  <2>3. CASE ResetFree
    <3>1. /\ freed' = freed \/ freed' = [freed EXCEPT ![rawRequest] = @ + 1]
          /\ UNCHANGED <<msgq, informed>>
      BY <2>3 DEF ResetFree
    <3> QED
      BY <2>1, <3>1 DEF Posted
  <2>4. CASE UNCHANGED memory
    BY <2>1, <2>4 DEF memory, Posted
  <2> QED
    BY <2>2, <2>3, <2>4 DEF ResetSignal, RespondSignal, RespondCheck
<1>3. /\ respRecvd' \in BOOLEAN /\ resp' \in Replies \cup {"NORESP", "unset"}
      /\ resetting' \in {"no", "clear", "signal"} /\ downs' \in 0..MaxDowns
  <2>1. /\ respRecvd \in BOOLEAN /\ resp \in Replies \cup {"NORESP", "unset"}
        /\ resetting \in {"no", "clear", "signal"} /\ downs \in 0..MaxDowns
        /\ responding \in Seq(Replies)
    BY DEF NiInv, Typed, TypeOK
  <2>2. CASE Inform
    BY <2>1, <2>2 DEF Inform, session, bounds
  <2>3. CASE ResetFree
    <3>1. /\ UNCHANGED <<respRecvd, resp>> /\ downs < MaxDowns /\ downs' = downs + 1
          /\ resetting' \in {resetting, "clear"}
      BY <2>3 DEF ResetFree, session
    <3> QED
      BY <2>1, <3>1, BoundsAssumption
  <2>4. CASE ResetSignal
    BY <2>1, <2>4 DEF ResetSignal, bounds
  <2>5. CASE RespondSignal
    <3>1. /\ responding # <<>> /\ resp' = Head(responding) /\ respRecvd' = TRUE
          /\ UNCHANGED <<resetting, downs>>
      BY <2>5 DEF RespondSignal, bounds
    <3>2. Head(responding) \in Replies
      BY <2>1, <3>1
    <3> QED
      BY <2>1, <3>1, <3>2
  <2>6. ASSUME NEW r \in Requests, NEW answer \in Replies, RespondCheck(r, answer)
        PROVE  UNCHANGED <<respRecvd, resp, resetting, downs>>
    BY <2>6 DEF RespondCheck, session, bounds
  <2> QED
    BY <2>1, <2>2, <2>3, <2>4, <2>5, <2>6
<1>4. reply' \in [Requests -> Replies \cup {"none"}] /\ responding' \in Seq(Replies)
  <2>1. reply \in [Requests -> Replies \cup {"none"}] /\ responding \in Seq(Replies)
    BY DEF NiInv, Typed, TypeOK
  <2>2. CASE UNCHANGED framework
    BY <2>1, <2>2 DEF framework
  <2>3. CASE RespondSignal
    BY <2>1, <2>3 DEF RespondSignal
  <2>4. ASSUME NEW r \in Requests, NEW answer \in Replies, RespondCheck(r, answer)
        PROVE  reply' \in [Requests -> Replies \cup {"none"}] /\ responding' \in Seq(Replies)
    <3>2. /\ [reply EXCEPT ![r] = answer] \in [Requests -> Replies \cup {"none"}]
          /\ <<answer>> \in Seq(Replies) /\ <<>> \in Seq(Replies)
      BY <2>1
    <3>1. /\ reply' = [reply EXCEPT ![r] = answer]
          /\ responding' = <<answer>> \/ responding' = <<>>
      BY <2>4 DEF RespondCheck
    <3> QED
      BY <3>1, <3>2
  <2>5. CASE Inform \/ ResetFree \/ ResetSignal
    <3>1. UNCHANGED framework
      BY <2>5 DEF Inform, ResetFree, ResetSignal
    <3> QED
      BY <2>2, <3>1
  <2> QED
    BY <2>2, <2>3, <2>4, <2>5
<1>5. Typed'
  BY <1>1, <1>2, <1>3, <1>4 DEF NiInv, Typed, TypeOK
<1>6. Watched' /\ Alone'
  BY <1>1 DEF NiInv, Watched, Alone, OnWatch
<1>7. AnsweredOnce'
  BY <1>1, <1>2 DEF NiInv, AnsweredOnce
<1> QED
  BY <1>5, <1>6, <1>7 DEF NiInv

LEMMA ResetClearInv == ASSUME NiInv, ResetClear PROVE NiInv'
<1>1. /\ rawRequest' = 0 /\ resetting' = "signal"
      /\ UNCHANGED <<respRecvd, resp, reqID, respTimeLeft, ni, framework, memory, bounds>>
  BY DEF ResetClear
<1>2. Ended' = Ended /\ Made' = Made /\ Posted' = Posted
  BY <1>1 DEF Ended, Made, Posted, ni, memory
<1>3. Typed'
  BY <1>1, <1>2, BoundsAssumption DEF NiInv, Typed, TypeOK, ni, framework, memory, bounds
<1>4. Watched' /\ Alone'
  BY <1>1 DEF NiInv, Watched, Alone, ni
<1>5. AnsweredOnce'
  <2>1. /\ \A s \in Made : msg[s][1].request # 0
        /\ \A i \in 1..Len(Posted) : Posted[i].request # 0
    BY AnswersTyped
  <2>2. requests \in Nat
    BY DEF NiInv, Typed, TypeOK
  <2> QED
    BY <1>1, <1>2, <2>1, <2>2 DEF NiInv, AnsweredOnce, ni, memory, bounds
<1> QED
  BY <1>3, <1>4, <1>5 DEF NiInv

-----------------------------------------------------------------------------
(* A thread goes on, and the others stay where they are.                    *)
LEMMA GoesOn ==
    ASSUME NiInv, NEW r \in Requests, NEW step \in ThreadSteps, GoTo(r, step),
           thread[r] # "none"
    PROVE  /\ thread' \in [Requests -> ThreadSteps]
           /\ thread'[r] = step /\ \A s \in Requests \ {r} : thread'[s] = thread[s]
           /\ \A s \in Requests : s > requests => thread'[s] = "none"
<1>1. /\ thread \in [Requests -> ThreadSteps] /\ thread' = [thread EXCEPT ![r] = step]
      /\ \A s \in Requests : s > requests => thread[s] = "none"
  BY DEF NiInv, Typed, TypeOK, GoTo
<1> QED
  BY <1>1

(* Without an answer, and without tLock for two.                            *)
LEMMA QuietInv ==
    ASSUME NiInv, NEW r \in Requests,
           Start(r) \/ Received(r) \/ Expire(r) \/ Expired(r) \/ Leave(r)
    PROVE  NiInv'
<1>1. PICK s \in {"waiting", "expired", "take", "bump"} :
          /\ GoTo(r, s) /\ thread[r] \in {"start", "waiting", "expired", "leave"}
          /\ s = "bump" <=> thread[r] = "leave"
          /\ s = "take" => Unlocked
  BY DEF Start, Received, Expire, Expired, Leave
<1>2. /\ UNCHANGED <<rawRequest, reqID, msg, msgq, informed, freed, framework, resetting, bounds>>
      /\ respRecvd' \in BOOLEAN /\ resp' \in Replies \cup {"NORESP", "unset"}
      /\ respTimeLeft' \in {0, 1} /\ delay' \in [Requests -> {0, 1}]
  <2>1. /\ respRecvd \in BOOLEAN /\ resp \in Replies \cup {"NORESP", "unset"}
        /\ respTimeLeft \in {0, 1} /\ delay \in [Requests -> {0, 1}]
    BY DEF NiInv, Typed, TypeOK
  <2>2. /\ UNCHANGED <<rawRequest, reqID, msg, msgq, informed, freed, framework, resetting, bounds>>
        /\ respRecvd' = respRecvd \/ respRecvd' = FALSE
        /\ resp' = resp \/ resp' = "NORESP"
        /\ respTimeLeft' = respTimeLeft \/ respTimeLeft' = 0
        /\ delay' = delay \/ delay' = [delay EXCEPT ![r] = respTimeLeft]
    <3>1. CASE Start(r)
      BY <3>1 DEF Start, session, memory
    <3>2. CASE Received(r) \/ Expired(r)
      BY <3>2 DEF Received, Expired, memory
    <3>3. CASE Expire(r)
      BY <3>3 DEF Expire, session, memory
    <3>4. CASE Leave(r)
      BY <3>4 DEF Leave, memory
    <3> QED
      BY <3>1, <3>2, <3>3, <3>4
  <2> QED
    BY <2>1, <2>2
<1>3. /\ thread' \in [Requests -> ThreadSteps]
      /\ thread'[r] = s /\ \A q \in Requests \ {r} : thread'[q] = thread[q]
      /\ \A q \in Requests : q > requests => thread'[q] = "none"
  BY <1>1, GoesOn DEF ThreadSteps
<1>4. Ended' = Ended /\ Made' = Made /\ Posted' = Posted
  BY <1>1, <1>2, <1>3 DEF Ended, Made, Posted
<1>5. Typed'
  BY <1>2, <1>3, <1>4 DEF NiInv, Typed, TypeOK, framework, bounds
<1>6. Watched'
  BY <1>1, <1>2, <1>3 DEF NiInv, Watched, OnWatch
<1>7. Alone'
  BY <1>1, <1>3 DEF NiInv, Alone, Unlocked
<1>8. AnsweredOnce'
  <2>1. \A q \in Made : thread'[q] = thread[q] \/ (thread[q] = "leave" /\ thread'[q] = "bump")
    <3>1. \A q \in Made : q \in Requests /\ thread[q] \in {"clear", "leave", "bump", "send"}
      BY DEF Made, NiInv, AnsweredOnce
    <3>2. r \in Made => thread[r] = "leave" /\ s = "bump"
      BY <1>1, <3>1
    <3> QED
      BY <1>3, <3>1, <3>2
  <2> QED
    BY <1>2, <1>4, <2>1 DEF NiInv, AnsweredOnce, bounds
<1> QED
  BY <1>5, <1>6, <1>7, <1>8 DEF NiInv

(* The request in session was not answered: who answers has tLock.          *)
LEMMA TakeInv ==
    ASSUME NiInv, NEW r \in Requests, Take(r)
    PROVE  NiInv'
<1> DEFINE m == [request |-> rawRequest, resp |-> resp]
<1>1. /\ thread[r] = "take" /\ r \notin Made
      /\ UNCHANGED <<session, delay, framework, memory, resetting, bounds>>
  BY DEF Take, Made, NiInv, AnsweredOnce
<1>2. \/ /\ rawRequest # 0 /\ GoTo(r, "clear")
         /\ msg' = [msg EXCEPT ![r] = <<m>>] \/ msg' = [msg EXCEPT ![r] = <<>>]
      \/ rawRequest = 0 /\ GoTo(r, "leave") /\ msg' = [msg EXCEPT ![r] = <<>>]
  BY DEF Take
<1>3. /\ thread' \in [Requests -> ThreadSteps]
      /\ thread'[r] = (IF rawRequest # 0 THEN "clear" ELSE "leave")
      /\ \A q \in Requests \ {r} : thread'[q] = thread[q]
      /\ \A q \in Requests : q > requests => thread'[q] = "none"
  BY <1>1, <1>2, GoesOn DEF ThreadSteps
<1>4. rawRequest # 0 => m \in Answers
  BY BoundsAssumption DEF NiInv, Typed, TypeOK, Answers, Requests
<1>5. /\ msg \in [Requests -> Seq(Answers)] /\ msg' \in [Requests -> Seq(Answers)]
      /\ \A q \in Requests \ {r} : msg'[q] = msg[q]
      /\ msg'[r] = <<>> \/ (rawRequest # 0 /\ msg'[r] = <<m>>)
  <2>1. msg \in [Requests -> Seq(Answers)]
    BY DEF NiInv, Typed
  <2>2. rawRequest # 0 => <<m>> \in Seq(Answers)
    BY <1>4
  <2>3. <<>> \in Seq(Answers)
    OBVIOUS
  <2> HIDE DEF m
  <2>4. ASSUME NEW a \in Seq(Answers), msg' = [msg EXCEPT ![r] = a]
        PROVE  /\ msg' \in [Requests -> Seq(Answers)] /\ msg'[r] = a
               /\ \A q \in Requests \ {r} : msg'[q] = msg[q]
    BY <2>1, <2>4
  <2>5. CASE rawRequest # 0 /\ msg' = [msg EXCEPT ![r] = <<m>>]
    BY <2>1, <2>2, <2>4, <2>5
  <2>6. CASE msg' = [msg EXCEPT ![r] = <<>>]
    BY <2>1, <2>3, <2>4, <2>6
  <2> QED
    BY <1>2, <2>5, <2>6
<1>6. Ended' = Ended /\ Posted' = Posted
  BY <1>1, <1>3 DEF Ended, Posted, memory
<1>7. Typed'
  BY <1>1, <1>3, <1>5, <1>6 DEF NiInv, Typed, TypeOK, session, framework, memory, bounds
<1>8. Watched' /\ Alone'
  BY <1>1, <1>3 DEF NiInv, Watched, Alone, OnWatch, session
<1>9. AnsweredOnce'
  <2>1. Made' = Made \/ (rawRequest # 0 /\ Made' = Made \cup {r} /\ msg'[r] = <<m>>)
    <3> HIDE DEF m
    <3>1. CASE msg'[r] = <<>>
      BY <1>1, <1>5, <3>1 DEF Made
    <3>2. CASE rawRequest # 0 /\ msg'[r] = <<m>>
      <4>1. <<m>> # <<>>
        OBVIOUS
      <4> QED
        BY <1>1, <1>5, <3>2, <4>1 DEF Made
    <3> QED
      BY <1>5, <3>1, <3>2
  <2>2. rawRequest <= requests /\ rawRequest' = rawRequest /\ requests' = requests
    BY <1>1 DEF NiInv, AnsweredOnce, session, bounds
  <2>3. \A q \in Made : /\ q \in Requests /\ q # r /\ msg'[q] = msg[q] /\ thread'[q] = thread[q]
                        /\ msg[q][1].request # rawRequest
    BY <1>1, <1>3, <1>5 DEF Made, NiInv, AnsweredOnce, Alone
  <2>4. msg'[r] = <<m>> => Len(msg'[r]) = 1 /\ msg'[r][1] = m /\ m.request = rawRequest
    OBVIOUS
  <2>5. \A q \in Made' :
          /\ Len(msg'[q]) = 1 /\ msg'[q][1].request <= requests'
          /\ thread'[q] \in {"clear", "leave", "bump", "send"}
          /\ msg'[q][1].request = rawRequest' => thread'[q] = "clear"
    <3> HIDE DEF m
    <3>1. ASSUME NEW q \in Made
          PROVE  /\ Len(msg'[q]) = 1 /\ msg'[q][1].request <= requests'
                 /\ thread'[q] \in {"clear", "leave", "bump", "send"}
                 /\ msg'[q][1].request # rawRequest'
      BY <2>2, <2>3, <3>1 DEF NiInv, AnsweredOnce
    <3>2. rawRequest # 0 /\ msg'[r] = <<m>> =>
             /\ Len(msg'[r]) = 1 /\ msg'[r][1].request <= requests' /\ thread'[r] = "clear"
      BY <1>3, <2>2, <2>4
    <3> QED
      BY <2>1, <3>1, <3>2
  <2>6. \A q, s \in Made' : msg'[q][1].request = msg'[s][1].request => q = s
    BY <2>1, <2>3, <2>4 DEF NiInv, AnsweredOnce
  <2>7. \A i \in 1..Len(Posted) : \A q \in Made' : Posted[i].request # msg'[q][1].request
    BY <2>1, <2>3, <2>4 DEF NiInv, AnsweredOnce
  <2> QED
    BY <1>6, <2>2, <2>5, <2>6, <2>7 DEF NiInv, AnsweredOnce
<1> QED
  BY <1>7, <1>8, <1>9 DEF NiInv

LEMMA ClearInv ==
    ASSUME NiInv, NEW r \in Requests, Clear(r)
    PROVE  NiInv'
<1>1. /\ thread[r] = "clear" /\ rawRequest' = 0 /\ GoTo(r, "leave")
      /\ UNCHANGED <<respRecvd, resp, reqID, respTimeLeft, delay, msg, framework, memory,
                     resetting, bounds>>
  BY DEF Clear
<1>2. /\ thread' \in [Requests -> ThreadSteps]
      /\ thread'[r] = "leave" /\ \A q \in Requests \ {r} : thread'[q] = thread[q]
      /\ \A q \in Requests : q > requests => thread'[q] = "none"
  BY <1>1, GoesOn DEF ThreadSteps
<1>3. Ended' = Ended /\ Made' = Made /\ Posted' = Posted
  BY <1>1, <1>2 DEF Ended, Made, Posted, memory
<1>4. Typed'
  BY <1>1, <1>2, <1>3, BoundsAssumption DEF NiInv, Typed, TypeOK, framework, memory, bounds
<1>5. Watched' /\ Alone'
  BY <1>1, <1>2 DEF NiInv, Watched, Alone
<1>6. AnsweredOnce'
  <2>1. requests \in Nat /\ requests' = requests
    BY <1>1 DEF NiInv, Typed, TypeOK, bounds
  <2>2. \A q \in Made : thread'[q] \in {"clear", "leave", "bump", "send"}
    BY <1>2 DEF Made, NiInv, AnsweredOnce
  <2> QED
    BY <1>1, <1>3, <2>1, <2>2, AnswersTyped DEF NiInv, AnsweredOnce
<1> QED
  BY <1>4, <1>5, <1>6 DEF NiInv

LEMMA BumpInv ==
    ASSUME NiInv, NEW r \in Requests, Bump(r)
    PROVE  NiInv'
<1>1. /\ thread[r] = "bump" /\ reqID' = reqID + 1 /\ GoTo(r, "send")
      /\ UNCHANGED <<rawRequest, respRecvd, resp, respTimeLeft, delay, msg, framework, memory,
                     resetting, bounds>>
  BY DEF Bump
<1>2. /\ thread' \in [Requests -> ThreadSteps]
      /\ thread'[r] = "send" /\ \A q \in Requests \ {r} : thread'[q] = thread[q]
      /\ \A q \in Requests : q > requests => thread'[q] = "none"
  BY <1>1, GoesOn DEF ThreadSteps
<1>3. Ended' = Ended \cup {r} /\ Made' = Made /\ Posted' = Posted
  BY <1>1, <1>2 DEF Ended, Made, Posted, memory
<1>4. reqID' \in 0..MaxRequests /\ reqID' = Cardinality(Ended')
  BY <1>1, <1>3, BumpInTime DEF NiInv
<1>5. Typed'
  BY <1>1, <1>2, <1>4 DEF NiInv, Typed, TypeOK, framework, memory, bounds
<1>6. Watched' /\ Alone'
  BY <1>1, <1>2 DEF NiInv, Watched, Alone, OnWatch
<1>7. AnsweredOnce'
  BY <1>1, <1>2, <1>3 DEF Made, NiInv, AnsweredOnce, bounds
<1> QED
  BY <1>5, <1>6, <1>7 DEF NiInv

(* What a thread made is what it posts.                                     *)
LEMMA SendInv ==
    ASSUME NiInv, NEW r \in Requests, Send(r)
    PROVE  NiInv'
<1>1. /\ thread[r] = "send" /\ GoTo(r, "done")
      /\ msgq' = msgq \o msg[r] /\ msg' = [msg EXCEPT ![r] = <<>>]
      /\ UNCHANGED <<session, delay, framework, informed, freed, resetting, bounds>>
  BY DEF Send
<1>2. /\ thread' \in [Requests -> ThreadSteps]
      /\ thread'[r] = "done" /\ \A q \in Requests \ {r} : thread'[q] = thread[q]
      /\ \A q \in Requests : q > requests => thread'[q] = "none"
  BY <1>1, GoesOn DEF ThreadSteps
<1>3. /\ msg \in [Requests -> Seq(Answers)] /\ msg' \in [Requests -> Seq(Answers)]
      /\ msg'[r] = <<>> /\ \A q \in Requests \ {r} : msg'[q] = msg[q]
  <2>1. msg \in [Requests -> Seq(Answers)]
    BY DEF NiInv, Typed
  <2> QED
    BY <1>1, <2>1
<1>4. informed \in Seq(Answers) /\ msgq \in Seq(Answers)
  BY DEF NiInv, Typed, TypeOK
<1>5. Ended' = Ended /\ Made' = Made \ {r}
  BY <1>1, <1>2, <1>3 DEF Ended, Made
<1>6. msgq' \in Seq(Answers)
  BY <1>1, <1>3, <1>4
<1>7. Typed'
  BY <1>1, <1>2, <1>3, <1>5, <1>6 DEF NiInv, Typed, TypeOK, session, framework, bounds
<1>8. Watched' /\ Alone'
  BY <1>1, <1>2 DEF NiInv, Watched, Alone, OnWatch, session
<1>9. AnsweredOnce'
  <2>1. /\ rawRequest' = rawRequest /\ requests' = requests
        /\ \A q \in Made' : q \in Made /\ q # r /\ msg'[q] = msg[q] /\ thread'[q] = thread[q]
    BY <1>1, <1>2, <1>3, <1>5 DEF Made, session, bounds
  <2>2. CASE r \notin Made
    <3>1. msgq' = msgq
      BY <1>1, <1>4, <2>2 DEF Made
    <3>2. Posted' = Posted
      BY <1>1, <3>1 DEF Posted
    <3> QED
      BY <2>1, <3>2 DEF NiInv, AnsweredOnce
  <2>3. CASE r \in Made
    <3> DEFINE m == msg[r][1]
               n == Len(Posted)
    <3>1. /\ Len(msg[r]) = 1 /\ m \in Answers /\ m.request <= requests /\ m.request # rawRequest
          /\ \A q \in Made : q # r => m.request # msg[q][1].request
          /\ \A i \in 1..n : Posted[i].request # m.request
      BY <1>1, <2>3, AnswersTyped DEF NiInv, AnsweredOnce
    <3>2. msg[r] = <<m>>
      BY <1>3, <3>1
    <3> HIDE DEF m
    <3>3. /\ Len(Posted') = n + 1 /\ Posted'[n + 1] = m
          /\ \A i \in 1..n : Posted'[i] = Posted[i]
      <4>1. Posted' = informed \o (msgq \o <<m>>)
        BY <1>1, <3>2 DEF Posted
      <4>2. /\ Len(informed \o (msgq \o <<m>>)) = Len(informed \o msgq) + 1
            /\ \A i \in 1..Len(informed \o msgq) :
                  (informed \o (msgq \o <<m>>))[i] = (informed \o msgq)[i]
            /\ (informed \o (msgq \o <<m>>))[Len(informed \o msgq) + 1] = m
        BY <1>4, <3>1, PostedOne
      <4> QED
        BY <4>1, <4>2 DEF Posted
    <3>4. n \in Nat
      BY <1>4 DEF Posted
    <3> HIDE DEF n
    <3>5. \A i \in 1..(n + 1) : i \in 1..n \/ i = n + 1
      BY <3>4
    <3>6. ASSUME NEW i \in 1..(n + 1)
          PROVE  /\ Posted'[i].request <= requests /\ Posted'[i].request # rawRequest
                 /\ \A q \in Made' : Posted'[i].request # msg'[q][1].request
      BY <2>1, <3>1, <3>3, <3>5 DEF n, NiInv, AnsweredOnce
    <3>7. ASSUME NEW i \in 1..(n + 1), NEW j \in 1..(n + 1),
                 Posted'[i].request = Posted'[j].request
          PROVE  i = j
      BY <3>1, <3>3, <3>5, <3>7 DEF n, NiInv, AnsweredOnce
    <3> QED
      BY <2>1, <3>3, <3>6, <3>7 DEF NiInv, AnsweredOnce
  <2> QED
    BY <2>2, <2>3
<1> QED
  BY <1>7, <1>8, <1>9 DEF NiInv

LEMMA NextInv == NiInv /\ [Next]_vars => NiInv'
<1> SUFFICES ASSUME NiInv, [Next]_vars PROVE NiInv'
  OBVIOUS
<1>1. ASSUME NEW r \in Requests, NiThread(r) PROVE NiInv'
  BY <1>1, QuietInv, TakeInv, ClearInv, BumpInv, SendInv DEF NiThread
<1>2. CASE UNCHANGED vars
  <2>1. UNCHANGED <<session, ni, framework, memory, resetting, bounds>>
    BY <1>2 DEF vars
  <2>2. Made' = Made /\ Posted' = Posted /\ Ended' = Ended /\ OnWatch' = OnWatch
    BY <2>1 DEF session, ni, memory, Made, Posted, Ended, OnWatch
  <2>3. Typed'
    BY <2>1, <2>2 DEF session, ni, framework, memory, bounds, NiInv, Typed, TypeOK
  <2>4. Watched' /\ Alone'
    BY <2>1, <2>2 DEF session, ni, NiInv, Watched, Alone
  <2>5. AnsweredOnce'
    BY <2>1, <2>2 DEF session, ni, bounds, NiInv, AnsweredOnce
  <2> QED
    BY <2>3, <2>4, <2>5 DEF NiInv
<1> QED
  BY <1>1, <1>2, RequestInv, OthersInv, ResetClearInv DEF Next, Reset

(* A request in session has a thread that will end it.                      *)
THEOREM SessionWatched == Spec => []SessionHasThread
<1>1. NiInv => SessionHasThread
  BY DEF NiInv, Typed, Watched, SessionHasThread
<1> QED
  BY InitInv, NextInv, <1>1, PTL DEF Spec

(* The modem is informed, and is to be informed, at most once of a request. *)
THEOREM OneAnswerCorrect == Spec => []OneAnswer
<1>1. NiInv => OneAnswer
  BY DEF NiInv, AnsweredOnce, Posted, OneAnswer
<1> QED
  BY InitInv, NextInv, <1>1, PTL DEF Spec

-----------------------------------------------------------------------------
(* Who frees a request, while the modem does not restart: each thread ends  *)
(* the session it was spawned for and answers its own request, which is     *)
(* with one of session, thread, queue and modem, or was to be ignored.      *)
InQueue(q) == \E i \in 1..Len(msgq) : msgq[i].request = q

Ignored == \E i \in Requests : reply[i] = "IGNORE"

Replied ==
    /\ resp \in Replies => \E i \in Requests : reply[i] = resp
    /\ responding # <<>> => \E i \in Requests : reply[i] = Head(responding)

OwnSessions ==
    /\ resetting = "no"
    /\ \A r \in OnWatch : r = rawRequest
    /\ \A r \in Made : msg[r][1].request = r
    /\ \A q \in Requests :
          /\ freed[q] \in {0, 1} /\ (q > requests => freed[q] = 0)
          /\ freed[q] = 1 => q \notin Made /\ ~InQueue(q) /\ rawRequest # q
          /\ q <= requests =>
               \/ freed[q] = 1 \/ q \in Made \/ InQueue(q) \/ Ignored
               \/ rawRequest = q /\ thread[q] # "clear"

FreeInv == NiInv /\ Replied /\ (downs = 0 => OwnSessions)

LEMMA QueueOnce ==
    ASSUME NiInv
    PROVE  /\ \A i, j \in 1..Len(msgq) : msgq[i].request = msgq[j].request => i = j
           /\ \A i \in 1..Len(msgq) :
                 /\ msgq[i] \in Answers
                 /\ msgq[i].request <= requests /\ msgq[i].request # rawRequest
                 /\ \A r \in Made : msgq[i].request # msg[r][1].request
<1> DEFINE k == Len(informed)
<1>1. informed \in Seq(Answers) /\ msgq \in Seq(Answers)
  BY DEF NiInv, Typed, TypeOK
<1>2. k \in Nat
  BY <1>1
<1>3. \A i \in 1..Len(msgq) : k + i \in 1..Len(Posted) /\ Posted[k + i] = msgq[i]
  BY <1>1 DEF Posted
<1>4. \A i \in 1..Len(msgq) : msgq[i] \in Answers
  BY <1>1
<1> HIDE DEF k
<1>5. ASSUME NEW i \in 1..Len(msgq), NEW j \in 1..Len(msgq), msgq[i].request = msgq[j].request
      PROVE  i = j
  <2>1. k + i = k + j
    BY <1>3, <1>5 DEF NiInv, AnsweredOnce
  <2>2. i \in Int /\ j \in Int
    BY <1>1
  <2> QED
    BY <1>2, <2>1, <2>2
<1> QED
  BY <1>3, <1>4, <1>5 DEF NiInv, AnsweredOnce

LEMMA InitFree == Init => FreeInv
<1> SUFFICES ASSUME Init PROVE FreeInv
  OBVIOUS
<1>1. Replied
  BY RepliesAssumption DEF Init, Replied
<1>2. OnWatch = {} /\ Made = {}
  BY DEF Init, OnWatch, Made
<1>3. /\ resetting = "no" /\ requests = 0
      /\ \A q \in Requests : freed[q] = 0 /\ ~(q <= 0)
  BY BoundsAssumption DEF Init, Requests
<1>4. OwnSessions
  BY <1>2, <1>3 DEF OwnSessions
<1> QED
  BY <1>1, <1>4, InitInv DEF FreeInv

LEMMA RequestFree ==
    ASSUME FreeInv, NEW r \in Requests, Request(r)
    PROVE  Replied' /\ (downs' = 0 => OwnSessions')
<1>1. /\ r = requests + 1 /\ requests' = r /\ requests \in Nat /\ thread[r] = "none"
      /\ UNCHANGED <<resp, msg, msgq, reply, responding, resetting, downs>>
      /\ thread \in [Requests -> ThreadSteps] /\ freed \in [Requests -> Nat]
  <2>1. /\ thread \in [Requests -> ThreadSteps] /\ freed \in [Requests -> Nat]
        /\ requests \in Nat /\ \A q \in Requests : q > requests => thread[q] = "none"
    BY DEF FreeInv, NiInv, Typed, TypeOK
  <2>2. /\ r = requests + 1 /\ requests' = r
        /\ UNCHANGED <<resp, msg, msgq, reply, responding, resetting, downs>>
    BY DEF Request
  <2> QED
    BY <2>1, <2>2
<1>2. Replied'
  BY <1>1 DEF FreeInv, Replied
<1>3. ASSUME downs = 0 PROVE OwnSessions'
  <2>1. OwnSessions /\ NiInv
    BY <1>3 DEF FreeInv
  <2>2. /\ Made' = Made /\ r \notin Made /\ Ignored' = Ignored
        /\ \A q \in Requests : InQueue(q)' = InQueue(q)
    BY <1>1, <2>1 DEF Made, Ignored, InQueue, NiInv, AnsweredOnce
  <2>3. ~InQueue(r) /\ rawRequest # r /\ freed[r] = 0
    <3>1. \A i \in 1..Len(msgq) : msgq[i].request <= requests /\ msgq[i].request \in Nat
      BY <2>1, QueueOnce, AnswersTyped
    <3>2. rawRequest \in Nat /\ rawRequest <= requests
      BY <2>1 DEF NiInv, Typed, TypeOK, AnsweredOnce
    <3>3. freed[r] = 0
      BY <1>1, <2>1 DEF OwnSessions
    <3> QED
      BY <1>1, <3>1, <3>2, <3>3 DEF InQueue
  <2>4. CASE /\ rawRequest # 0 /\ freed' = [freed EXCEPT ![r] = @ + 1]
             /\ UNCHANGED <<rawRequest, thread>>
    <3>1. freed'[r] = 1 /\ \A q \in Requests \ {r} : freed'[q] = freed[q]
      BY <1>1, <2>3, <2>4
    <3>2. OnWatch' = OnWatch
      BY <2>4 DEF OnWatch
    <3>3. ASSUME NEW q \in Requests \ {r}
          PROVE  (q > requests' => q > requests) /\ (q <= requests' => q <= requests)
      BY <1>1 DEF Requests
    <3>4. ASSUME NEW q \in Requests
          PROVE  /\ freed'[q] \in {0, 1} /\ (q > requests' => freed'[q] = 0)
                 /\ freed'[q] = 1 => q \notin Made' /\ ~InQueue(q)' /\ rawRequest' # q
                 /\ q <= requests' =>
                      \/ freed'[q] = 1 \/ q \in Made' \/ InQueue(q)' \/ Ignored'
                      \/ rawRequest' = q /\ thread'[q] # "clear"
      <4>1. CASE q = r
        BY <1>1, <2>2, <2>3, <2>4, <3>1, <4>1 DEF Requests
      <4>2. CASE q # r
        BY <2>1, <2>2, <2>4, <3>1, <3>3, <4>2 DEF OwnSessions
      <4> QED
        BY <4>1, <4>2
    <3> QED
      BY <1>1, <2>1, <2>2, <2>4, <3>2, <3>4 DEF OwnSessions
  <2>5. CASE /\ rawRequest = 0 /\ rawRequest' = r /\ thread' = [thread EXCEPT ![r] = "start"]
             /\ UNCHANGED freed
    <3>1. OnWatch = {}
      BY <2>1, <2>5 DEF OwnSessions, OnWatch, Requests
    <3>2. thread'[r] = "start" /\ \A q \in Requests \ {r} : thread'[q] = thread[q]
      BY <1>1, <2>5
    <3>3. OnWatch' \subseteq {r}
      BY <3>1, <3>2 DEF OnWatch
    <3>4. ASSUME NEW q \in Requests \ {r}
          PROVE  /\ q > requests' => q > requests
                 /\ q <= requests' => q <= requests
                 /\ rawRequest # q
      BY <1>1, <2>5 DEF Requests
    <3>5. ASSUME NEW q \in Requests
          PROVE  /\ freed'[q] \in {0, 1} /\ (q > requests' => freed'[q] = 0)
                 /\ freed'[q] = 1 => q \notin Made' /\ ~InQueue(q)' /\ rawRequest' # q
                 /\ q <= requests' =>
                      \/ freed'[q] = 1 \/ q \in Made' \/ InQueue(q)' \/ Ignored'
                      \/ rawRequest' = q /\ thread'[q] # "clear"
      <4>1. CASE q = r
        BY <2>3, <2>5, <3>2, <4>1
      <4>2. CASE q # r
        BY <2>1, <2>2, <2>5, <3>4, <4>2 DEF OwnSessions
      <4> QED
        BY <4>1, <4>2
    <3> QED
      BY <1>1, <2>1, <2>2, <2>5, <3>3, <3>5 DEF OwnSessions
  <2> QED
    BY <2>4, <2>5 DEF Request, Busy
<1> QED
  BY <1>1, <1>2, <1>3

LEMMA InformFree ==
    ASSUME FreeInv, Inform
    PROVE  Replied' /\ (downs' = 0 => OwnSessions')
<1>0. msgq # <<>> /\ msgq \in Seq(Answers)
  BY DEF Inform, FreeInv, NiInv, Typed, TypeOK
<1> PICK h \in Answers : h = Head(msgq)
  BY <1>0, PassedOn, Zenon
<1>1. /\ msgq' = Tail(msgq) /\ freed' = [freed EXCEPT ![h.request] = @ + 1]
      /\ freed \in [Requests -> Nat]
      /\ UNCHANGED <<rawRequest, resp, thread, msg, reply, responding, resetting, requests, downs>>
  BY DEF Inform, session, ni, framework, bounds, FreeInv, NiInv, Typed, TypeOK
<1>2. Replied'
  BY <1>1 DEF FreeInv, Replied
<1>3. ASSUME downs = 0 PROVE OwnSessions'
  <2>1. OwnSessions /\ NiInv
    BY <1>3 DEF FreeInv
  <2>2. Made' = Made /\ Ignored' = Ignored /\ OnWatch' = OnWatch
    BY <1>1 DEF Made, Ignored, OnWatch
  <2>3. /\ h = msgq[1] /\ 1 \in 1..Len(msgq) /\ h.request \in Requests
        /\ Len(msgq') = Len(msgq) - 1 /\ \A i \in 1..Len(msgq') : msgq'[i] = msgq[i + 1]
        /\ Len(msgq) \in Nat
    <3>1. h.request \in Requests
      BY DEF Answers
    <3> QED
      BY <1>0, <1>1, <3>1
  <2>4. InQueue(h.request) /\ ~InQueue(h.request)'
    <3>1. InQueue(h.request)
      BY <2>3 DEF InQueue
    <3>2. ASSUME NEW i \in 1..Len(msgq'), msgq'[i].request = h.request PROVE FALSE
      <4>1. i + 1 \in 1..Len(msgq) /\ i + 1 # 1
        BY <2>3
      <4> QED
        BY <2>1, <2>3, <3>2, <4>1, QueueOnce
    <3> QED
      BY <3>1, <3>2 DEF InQueue
  <2>5. ASSUME NEW q \in Requests, q # h.request PROVE InQueue(q)' <=> InQueue(q)
    <3>1. ASSUME NEW i \in 1..Len(msgq), msgq[i].request = q PROVE InQueue(q)'
      <4>1. i # 1
        BY <2>3, <2>5, <3>1
      <4>2. i - 1 \in 1..Len(msgq') /\ msgq'[i - 1] = msgq[i]
        BY <2>3, <4>1
      <4> QED
        BY <3>1, <4>2 DEF InQueue
    <3>2. ASSUME NEW i \in 1..Len(msgq'), msgq'[i].request = q PROVE InQueue(q)
      <4>1. i + 1 \in 1..Len(msgq) /\ msgq[i + 1].request = q
        BY <2>3, <3>2
      <4> QED
        BY <4>1 DEF InQueue
    <3> QED
      BY <3>1, <3>2 DEF InQueue
  <2>6. /\ h.request \notin Made /\ rawRequest # h.request /\ h.request <= requests
    BY <2>1, <2>3, QueueOnce DEF OwnSessions
  <2>7. freed[h.request] = 0
    BY <2>1, <2>3, <2>4 DEF OwnSessions
  <2>8. freed'[h.request] = 1 /\ \A q \in Requests \ {h.request} : freed'[q] = freed[q]
    BY <1>1, <2>3, <2>7
  <2>9. requests \in Nat /\ h.request \in Nat
    BY <2>1, <2>3 DEF NiInv, Typed, TypeOK, Requests
  <2>10. ASSUME NEW q \in Requests
         PROVE  /\ freed'[q] \in {0, 1} /\ (q > requests' => freed'[q] = 0)
                /\ freed'[q] = 1 => q \notin Made' /\ ~InQueue(q)' /\ rawRequest' # q
                /\ q <= requests' =>
                     \/ freed'[q] = 1 \/ q \in Made' \/ InQueue(q)' \/ Ignored'
                     \/ rawRequest' = q /\ thread'[q] # "clear"
    <3>1. CASE q = h.request
      BY <1>1, <2>2, <2>4, <2>6, <2>8, <2>9, <3>1
    <3>2. CASE q # h.request
      BY <1>1, <2>1, <2>2, <2>5, <2>8, <3>2 DEF OwnSessions
    <3> QED
      BY <3>1, <3>2
  <2> QED
    BY <1>1, <2>1, <2>2, <2>10 DEF OwnSessions
<1> QED
  BY <1>1, <1>2, <1>3

LEMMA ResetFrees ==
    ASSUME FreeInv, Reset
    PROVE  Replied' /\ (downs' = 0 => OwnSessions')
<1>1. UNCHANGED <<resp, reply, responding>>
  BY DEF Reset, ResetFree, ResetClear, ResetSignal, session, framework
<1>2. Replied'
  BY <1>1 DEF FreeInv, Replied
<1>3. downs \in Nat
  BY DEF FreeInv, NiInv, Typed, TypeOK
<1>4. downs' # 0
  BY <1>3 DEF Reset, ResetFree, ResetClear, ResetSignal, bounds, FreeInv, OwnSessions
<1> QED
  BY <1>2, <1>4

LEMMA RespondFree ==
    ASSUME FreeInv,
           RespondSignal \/ \E r \in Requests, answer \in Replies : RespondCheck(r, answer)
    PROVE  Replied' /\ (downs' = 0 => OwnSessions')
<1>1. UNCHANGED <<rawRequest, thread, msg, msgq, freed, resetting, requests, downs>>
  BY DEF RespondSignal, RespondCheck, session, ni, memory, bounds
<1>2. reply \in [Requests -> Replies \cup {"none"}] /\ "none" \notin Replies
  BY RepliesAssumption DEF FreeInv, NiInv, Typed, TypeOK
<1>3. Replied' /\ (Ignored => Ignored')
  <2>1. CASE RespondSignal
    <3>1. responding # <<>> /\ resp' = Head(responding) /\ responding' = <<>> /\ reply' = reply
      BY <2>1 DEF RespondSignal
    <3> QED
      BY <3>1 DEF FreeInv, Replied, Ignored
  <2>2. ASSUME NEW r \in Requests, NEW answer \in Replies, RespondCheck(r, answer)
        PROVE  Replied' /\ (Ignored => Ignored')
    <3>1. /\ reply[r] = "none" /\ reply' = [reply EXCEPT ![r] = answer] /\ resp' = resp
          /\ responding' = <<answer>> \/ responding' = <<>>
      BY <2>2 DEF RespondCheck, session
    <3>2. reply'[r] = answer /\ \A i \in Requests : reply[i] # "none" => reply'[i] = reply[i]
      BY <1>2, <3>1
    <3>3. Head(<<answer>>) = answer
      OBVIOUS
    <3>4. resp' \in Replies => \E i \in Requests : reply'[i] = resp'
      BY <1>2, <3>1, <3>2 DEF FreeInv, Replied
    <3> QED
      BY <3>1, <3>2, <3>3, <3>4 DEF Replied, Ignored
  <2> QED
    BY <2>1, <2>2
<1>4. ASSUME downs = 0 PROVE OwnSessions'
  <2>1. Made' = Made /\ OnWatch' = OnWatch /\ \A q \in Requests : InQueue(q)' = InQueue(q)
    BY <1>1 DEF Made, OnWatch, InQueue
  <2> QED
    BY <1>1, <1>3, <1>4, <2>1 DEF FreeInv, OwnSessions
<1> QED
  BY <1>1, <1>3, <1>4

LEMMA QuietFree ==
    ASSUME FreeInv, NEW r \in Requests,
           Start(r) \/ Received(r) \/ Expire(r) \/ Expired(r) \/ Leave(r) \/ Bump(r)
    PROVE  Replied' /\ (downs' = 0 => OwnSessions')
<1>1. /\ UNCHANGED <<rawRequest, msg, msgq, freed, reply, responding, resetting, requests, downs>>
      /\ resp' = resp \/ resp' = "NORESP"
      /\ thread[r] \in {"start", "waiting", "expired", "leave", "bump"}
  BY DEF Start, Received, Expire, Expired, Leave, Bump, session, framework, memory, bounds
<1>2. /\ \A q \in Requests \ {r} : thread'[q] = thread[q]
      /\ thread'[r] # "clear"
      /\ thread'[r] \in {"waiting", "expired", "take"} => r \in OnWatch
      /\ thread'[r] \in {"waiting", "expired", "take", "bump", "send"}
  <2>1. PICK s \in {"waiting", "expired", "take", "bump", "send"} :
            GoTo(r, s) /\ (s \in {"waiting", "expired", "take"} => r \in OnWatch)
    BY DEF Start, Received, Expire, Expired, Leave, Bump, OnWatch
  <2>2. thread'[r] = s /\ \A q \in Requests \ {r} : thread'[q] = thread[q]
    BY <2>1 DEF GoTo, FreeInv, NiInv, Typed, TypeOK
  <2> QED
    BY <2>1, <2>2
<1>3. Replied'
  BY <1>1, RepliesAssumption DEF FreeInv, Replied
<1>4. ASSUME downs = 0 PROVE OwnSessions'
  <2>1. OwnSessions
    BY <1>4 DEF FreeInv
  <2>2. /\ Made' = Made /\ Ignored' = Ignored /\ OnWatch' \subseteq OnWatch
        /\ \A q \in Requests : InQueue(q)' = InQueue(q)
    BY <1>1, <1>2 DEF Made, Ignored, OnWatch, InQueue
  <2>3. \A q \in Requests : thread[q] # "clear" => thread'[q] # "clear"
    BY <1>2
  <2> QED
    BY <1>1, <2>1, <2>2, <2>3 DEF OwnSessions
<1> QED
  BY <1>1, <1>3, <1>4

LEMMA TakeFree ==
    ASSUME FreeInv, NEW r \in Requests, Take(r)
    PROVE  Replied' /\ (downs' = 0 => OwnSessions')
<1> DEFINE m == [request |-> rawRequest, resp |-> resp]
<1>1. /\ thread[r] = "take" /\ r \notin Made
      /\ UNCHANGED <<rawRequest, resp, msgq, freed, reply, responding, resetting, requests, downs>>
  BY DEF Take, Made, session, framework, memory, bounds, FreeInv, NiInv, AnsweredOnce
<1>2. /\ \A q \in Requests \ {r} : thread'[q] = thread[q] /\ msg'[q] = msg[q]
      /\ rawRequest # 0 => thread'[r] = "clear"
      /\ rawRequest # 0 /\ resp # "IGNORE" => msg'[r] = <<m>>
      /\ rawRequest # 0 /\ resp = "IGNORE" => msg'[r] = <<>>
  <2>1. msg \in [Requests -> Seq(Answers)] /\ thread \in [Requests -> ThreadSteps]
    BY DEF FreeInv, NiInv, Typed, TypeOK
  <2>2. /\ rawRequest # 0 => GoTo(r, "clear") /\ \E s \in {"clear", "leave"} : GoTo(r, s)
        /\ rawRequest = 0 => GoTo(r, "leave")
        /\ \E a : msg' = [msg EXCEPT ![r] = a]
        /\ rawRequest # 0 /\ resp # "IGNORE" => msg' = [msg EXCEPT ![r] = <<m>>]
        /\ rawRequest # 0 /\ resp = "IGNORE" => msg' = [msg EXCEPT ![r] = <<>>]
    BY DEF Take
  <2> HIDE DEF m
  <2> QED
    BY <2>1, <2>2 DEF GoTo
<1>3. Replied'
  BY <1>1 DEF FreeInv, Replied
<1>4. ASSUME downs = 0 PROVE OwnSessions'
  <2>1. OwnSessions
    BY <1>4 DEF FreeInv
  <2>2. r = rawRequest /\ rawRequest # 0
    BY <1>1, <2>1 DEF OwnSessions, OnWatch, Requests
  <2>3. Ignored' = Ignored /\ \A q \in Requests : InQueue(q)' = InQueue(q)
    BY <1>1 DEF Ignored, InQueue
  <2>4. OnWatch' = OnWatch
    BY <1>1, <1>2, <2>2 DEF OnWatch
  <2>5. CASE resp # "IGNORE"
    <3>1. msg'[r] # <<>> /\ msg'[r][1].request = r
      BY <1>2, <2>2, <2>5
    <3>2. Made' = Made \cup {r}
      BY <1>2, <3>1 DEF Made
    <3>3. freed[r] # 1
      BY <2>1, <2>2 DEF OwnSessions
    <3>4. \A q \in Made' : msg'[q][1].request = q
      BY <1>2, <2>1, <3>1, <3>2 DEF OwnSessions, Made
    <3> QED
      BY <1>1, <1>2, <2>1, <2>2, <2>3, <2>4, <3>2, <3>3, <3>4 DEF OwnSessions
  <2>6. CASE resp = "IGNORE"
    <3>1. Made' = Made
      BY <1>1, <1>2, <2>2, <2>6 DEF Made
    <3>2. Ignored
      BY <2>6, RepliesAssumption DEF Ignored, Replied, FreeInv, NiInv, Typed, TypeOK
    <3>3. \A q \in Made' : msg'[q] = msg[q]
      BY <1>1, <1>2, <3>1 DEF Made
    <3> QED
      BY <1>1, <1>2, <2>1, <2>2, <2>3, <2>4, <3>1, <3>2, <3>3 DEF OwnSessions
  <2> QED
    BY <2>5, <2>6
<1> QED
  BY <1>1, <1>3, <1>4

LEMMA ClearFree ==
    ASSUME FreeInv, NEW r \in Requests, Clear(r)
    PROVE  Replied' /\ (downs' = 0 => OwnSessions')
<1>1. /\ thread[r] = "clear" /\ rawRequest' = 0 /\ thread' = [thread EXCEPT ![r] = "leave"]
      /\ UNCHANGED <<resp, msg, msgq, freed, reply, responding, resetting, requests, downs>>
  BY DEF Clear, GoTo, framework, memory, bounds
<1>2. thread'[r] = "leave" /\ \A q \in Requests \ {r} : thread'[q] = thread[q]
  BY <1>1 DEF FreeInv, NiInv, Typed, TypeOK
<1>3. Replied'
  BY <1>1 DEF FreeInv, Replied
<1>4. ASSUME downs = 0 PROVE OwnSessions'
  <2>1. OwnSessions
    BY <1>4 DEF FreeInv
  <2>2. r = rawRequest
    BY <1>1, <2>1 DEF OwnSessions, OnWatch
  <2>3. Made' = Made /\ Ignored' = Ignored /\ \A q \in Requests : InQueue(q)' = InQueue(q)
    BY <1>1 DEF Made, Ignored, InQueue
  <2>4. OnWatch' = {}
    BY <1>2, <2>1, <2>2 DEF OnWatch, OwnSessions
  <2>5. \A q \in Requests : q # 0
    BY DEF Requests
  <2> QED
    BY <1>1, <1>2, <2>1, <2>2, <2>3, <2>4, <2>5 DEF OwnSessions
<1> QED
  BY <1>1, <1>3, <1>4

LEMMA SendFree ==
    ASSUME FreeInv, NEW r \in Requests, Send(r)
    PROVE  Replied' /\ (downs' = 0 => OwnSessions')
<1>1. /\ thread[r] = "send" /\ thread' = [thread EXCEPT ![r] = "done"]
      /\ msgq' = msgq \o msg[r] /\ msg' = [msg EXCEPT ![r] = <<>>]
      /\ UNCHANGED <<rawRequest, resp, freed, reply, responding, resetting, requests, downs>>
  BY DEF Send, GoTo, session, framework, bounds
<1>2. /\ msg \in [Requests -> Seq(Answers)] /\ thread \in [Requests -> ThreadSteps]
      /\ msgq \in Seq(Answers)
  BY DEF FreeInv, NiInv, Typed, TypeOK
<1>3. /\ thread'[r] = "done" /\ msg'[r] = <<>>
      /\ \A q \in Requests \ {r} : thread'[q] = thread[q] /\ msg'[q] = msg[q]
  BY <1>1, <1>2
<1>4. Replied'
  BY <1>1 DEF FreeInv, Replied
<1>5. ASSUME downs = 0 PROVE OwnSessions'
  <2>1. OwnSessions
    BY <1>5 DEF FreeInv
  <2>2. /\ Made' = Made \ {r} /\ Ignored' = Ignored /\ OnWatch' = OnWatch
        /\ \A q \in Made' : msg'[q] = msg[q]
    BY <1>1, <1>3 DEF Made, Ignored, OnWatch
  <2>3. CASE r \notin Made
    <3>1. msgq' = msgq
      BY <1>1, <1>2, <2>3 DEF Made
    <3>2. \A q \in Requests : InQueue(q)' = InQueue(q)
      BY <3>1 DEF InQueue
    <3> QED
      BY <1>1, <1>3, <2>1, <2>2, <2>3, <3>2 DEF OwnSessions
  <2>4. CASE r \in Made
    <3> PICK m \in Answers : msg[r] = <<m>> /\ m.request = r
      <4>1. Len(msg[r]) = 1 /\ msg[r][1] \in Answers /\ msg[r][1].request = r
        BY <2>1, <2>4, AnswersTyped DEF FreeInv, NiInv, AnsweredOnce, OwnSessions
      <4>2. msg[r] = <<msg[r][1]>>
        BY <1>2, <4>1
      <4> QED
        BY <4>1, <4>2
    <3>1. /\ Len(msgq') = Len(msgq) + 1 /\ msgq'[Len(msgq) + 1] = m /\ Len(msgq) \in Nat
          /\ \A i \in 1..Len(msgq) : msgq'[i] = msgq[i]
      BY <1>1, <1>2
    <3>2. ASSUME NEW q \in Requests PROVE InQueue(q)' <=> InQueue(q) \/ q = r
      <4>1. ASSUME NEW i \in 1..Len(msgq), msgq[i].request = q PROVE InQueue(q)'
        <5>1. i \in 1..Len(msgq') /\ msgq'[i].request = q
          BY <3>1, <4>1
        <5> QED
          BY <5>1 DEF InQueue
      <4>2. InQueue(r)'
        <5>1. Len(msgq) + 1 \in 1..Len(msgq') /\ msgq'[Len(msgq) + 1].request = r
          BY <3>1
        <5> QED
          BY <5>1 DEF InQueue
      <4>3. ASSUME NEW i \in 1..Len(msgq'), msgq'[i].request = q PROVE InQueue(q) \/ q = r
        <5>1. i \in 1..Len(msgq) \/ i = Len(msgq) + 1
          BY <3>1
        <5> QED
          BY <3>1, <4>3, <5>1 DEF InQueue
      <4> QED
        BY <4>1, <4>2, <4>3 DEF InQueue
    <3>3. freed[r] # 1 /\ rawRequest # r
      <4>1. freed[r] # 1
        BY <2>1, <2>4 DEF OwnSessions
      <4>2. rawRequest # r
        BY <1>1, <2>1, <2>4 DEF FreeInv, NiInv, AnsweredOnce, OwnSessions
      <4> QED
        BY <4>1, <4>2
    <3> QED
      BY <1>1, <1>3, <2>1, <2>2, <3>2, <3>3 DEF OwnSessions
  <2> QED
    BY <2>3, <2>4
<1> QED
  BY <1>1, <1>4, <1>5

LEMMA NextFree == FreeInv /\ [Next]_vars => FreeInv'
<1> SUFFICES ASSUME FreeInv, [Next]_vars PROVE FreeInv'
  OBVIOUS
<1>1. NiInv'
  BY NextInv DEF FreeInv
<1>2. ASSUME NEW r \in Requests, NiThread(r) PROVE Replied' /\ (downs' = 0 => OwnSessions')
  BY <1>2, QuietFree, TakeFree, ClearFree, SendFree DEF NiThread
<1>3. ASSUME UNCHANGED vars PROVE Replied' /\ (downs' = 0 => OwnSessions')
  BY <1>3 DEF vars, session, ni, framework, memory, bounds, FreeInv, Replied, OwnSessions, Made,
              OnWatch, InQueue, Ignored
<1>4. Replied' /\ (downs' = 0 => OwnSessions')
  BY <1>2, <1>3, RequestFree, InformFree, ResetFrees, RespondFree DEF Next
<1> QED
  BY <1>1, <1>4 DEF FreeInv

(* A request is held at most once, and by nobody if it has been freed.      *)
LEMMA HeldOnce ==
    ASSUME FreeInv, downs = 0, NEW q \in Requests
    PROVE  LET H == {m \in Holding : m.request = q} IN
             /\ Cardinality(H) \in {0, 1}
             /\ Cardinality(H) = 1 => q \in Made \/ InQueue(q)
             /\ H = {} => q \notin Made /\ ~InQueue(q)
<1> DEFINE H == {m \in Holding : m.request = q}
<1>1. NiInv /\ OwnSessions
  BY DEF FreeInv
<1>2. \A r \in Requests, m \in Answers : msg[r] = <<m>> => r \in Made /\ msg[r][1] = m
  BY DEF Made
<1>3. \A m \in H : /\ m \in Answers /\ m.request = q
                  /\ \/ \E i \in 1..Len(msgq) : msgq[i] = m
                     \/ q \in Made /\ msg[q][1] = m
  BY <1>1, <1>2 DEF Holding, OwnSessions
<1>4. \A m, n \in H : m = n
  BY <1>1, <1>3, QueueOnce
<1>5. \A m \in H : q \in Made \/ InQueue(q)
  BY <1>3 DEF InQueue
<1>6. q \in Made => H # {}
  <2> SUFFICES ASSUME q \in Made PROVE msg[q][1] \in H
    OBVIOUS
  <2>1. /\ Len(msg[q]) = 1 /\ msg[q] \in Seq(Answers) /\ q \in Requests
        /\ msg[q][1] \in Answers /\ msg[q][1].request = q
    BY <1>1, AnswersTyped DEF OwnSessions, Made, NiInv, Typed, AnsweredOnce
  <2>2. msg[q] = <<msg[q][1]>>
    BY <2>1
  <2> QED
    BY <2>1, <2>2 DEF Holding
<1>7. InQueue(q) => H # {}
  BY <1>1, QueueOnce DEF InQueue, Holding
<1>8. H = {} \/ \E m : H = {m}
  BY <1>4
<1>9. /\ H = {} => Cardinality(H) = 0
      /\ H # {} => Cardinality(H) = 1
  BY <1>8, FS_EmptySet, FS_Singleton
<1> QED
  BY <1>5, <1>6, <1>7, <1>9

(* One request, one answer, and while the modem runs one release.           *)
THEOREM EndsOnceCorrect == Spec => []EndsOnce
<1>1. FreeInv => OneAnswer
  BY DEF FreeInv, NiInv, AnsweredOnce, Posted, OneAnswer
<1>2. FreeInv => FreedOnce
  <2> SUFFICES ASSUME FreeInv, downs = 0, NEW q \in 1..requests
               PROVE  /\ freed[q] + Cardinality({m \in Holding : m.request = q})
                             + (IF rawRequest = q /\ thread[q] # "clear" THEN 1 ELSE 0) <= 1
                      /\ freed[q] = 0 /\ rawRequest # q /\ (\A m \in Holding : m.request # q)
                            => \E i \in Requests : reply[i] = "IGNORE"
    BY DEF FreedOnce
  <2> DEFINE H == {m \in Holding : m.request = q}
  <2>1. q \in Requests /\ q <= requests
    BY BoundsAssumption DEF Requests, FreeInv, NiInv, Typed, TypeOK
  <2>2. OwnSessions
    BY DEF FreeInv
  <2>3. /\ Cardinality(H) \in {0, 1} /\ (Cardinality(H) = 1 => q \in Made \/ InQueue(q))
        /\ H = {} => q \notin Made /\ ~InQueue(q)
    BY <2>1, HeldOnce
  <2>4. /\ freed[q] \in {0, 1}
        /\ freed[q] = 1 => q \notin Made /\ ~InQueue(q) /\ rawRequest # q
        /\ freed[q] = 1 \/ q \in Made \/ InQueue(q) \/ Ignored \/ rawRequest = q
    BY <2>1, <2>2 DEF OwnSessions
  <2>5. rawRequest = q /\ thread[q] # "clear" => q \notin Made /\ ~InQueue(q)
    BY <2>2, QueueOnce DEF FreeInv, NiInv, AnsweredOnce, OwnSessions, InQueue
  <2>6. (\A m \in Holding : m.request # q) => H = {}
    OBVIOUS
  <2> HIDE DEF H
  <2>7. freed[q] + Cardinality(H) + (IF rawRequest = q /\ thread[q] # "clear" THEN 1 ELSE 0) <= 1
    BY <2>3, <2>4, <2>5
  <2>8. freed[q] = 0 /\ rawRequest # q /\ (\A m \in Holding : m.request # q) => Ignored
    BY <2>3, <2>4, <2>6
  <2> QED
    BY <2>7, <2>8 DEF H, Ignored
<1> QED
  BY InitFree, NextFree, <1>1, <1>2, PTL DEF Spec, EndsOnce
=============================================================================
