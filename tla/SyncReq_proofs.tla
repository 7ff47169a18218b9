--------------------------- MODULE SyncReq_proofs ---------------------------
(* Each slot has one caller, and nothing is written for a call that has     *)
(* returned, for any number of callers, slots and requests; and what is     *)
(* sent by such calls means what was meant: a file in parts, for any        *)
(* lengths and widths of the counters that hold it, a deletion of aiding    *)
(* data, for any sizes of the constellations, and the answer to a           *)
(* network-initiated request.                                               *)
EXTENDS MCSyncReq, SequenceTheorems, FiniteSetTheorems, WellFoundedInduction, TLAPS

(* What a call knows of itself, and its slot of it: nobody else selects an  *)
(* indication in it.                                                        *)
CallsKnown ==
    \A c \in Callers :
        /\ c \notin InCall => select_id[c] = 0
        /\ pc[c] # "idle" => ind[c] \in Inds /\ request[c] \in Requests
        /\ c \in InCall => recv_ind_id[select_id[c]] \in {NoInd, ind[c]}

Inv == SlotsOwned /\ CallsKnown

-----------------------------------------------------------------------------
(* loc_alloc_slot finds a free slot if there is one.                        *)
Less == {ss \in Nat \X Nat : ss[1] < ss[2]}

LEMMA LessWellFounded == IsWellFoundedOn(Less, Nat)
  BY NatLessThanWellFounded, Zenon DEF OpToRel, Less

LEMMA Least ==
    ASSUME NEW S \in SUBSET Nat, S # {}
    PROVE  \E i \in S : \A j \in S : i <= j
<1>1. PICK i \in S : \A j \in S : ~(<<j, i>> \in Less)
  BY LessWellFounded, WFMin
<1>2. \A j \in S : ~(j < i)
  BY <1>1 DEF Less
<1> QED
  BY <1>2

LEMMA FirstFreeIsFree ==
    ASSUME FreeSlots # {}
    PROVE  FirstFree \in FreeSlots
<1>1. FreeSlots \in SUBSET Nat
  BY SizeAssumption DEF FreeSlots, Slots
<1>2. \E i \in FreeSlots : \A j \in FreeSlots : i <= j
  BY <1>1, Least
<1> QED
  BY <1>2 DEF FirstFree

(* The slot of a call is its own, and a matching slot has a call.           *)
LEMMA OwnerCalls ==
    ASSUME Inv, NEW i \in Slots, slot_in_use[i]
    PROVE  Owner(i) \in InCall /\ select_id[Owner(i)] = i
<1>1. PICK c \in InCall : select_id[c] = i
  BY DEF Inv, SlotsOwned
<1>2. c \in Callers
  BY DEF InCall
<1>3. Owner(i) \in Callers /\ select_id[Owner(i)] = i
  BY <1>1, <1>2 DEF Owner
<1>4. Owner(i) \in InCall
  BY <1>3, SizeAssumption DEF Inv, CallsKnown, Slots
<1> QED
  BY <1>3, <1>4

-----------------------------------------------------------------------------
LEMMA InitInv == Init => Inv
<1> SUFFICES ASSUME Init PROVE Inv
  OBVIOUS
<1>1. answers \in Seq([id : Inds, to : Requests])
  BY DEF Init
<1>2. TypeOK
  <2>1. /\ pc \in [Callers -> Steps] /\ status \in [Callers -> Statuses]
        /\ ind \in [Callers -> Inds \cup {NoInd}]
        /\ recv_ind_id \in [Slots -> Inds \cup {NoInd}]
    BY DEF Init, Steps, Statuses
  <2>2. /\ select_id \in [Callers -> 0..BUFFER_SIZE]
        /\ request \in [Callers -> 0..MaxRequests]
        /\ buffer \in [Callers -> 0..MaxRequests]
        /\ calls \in 0..MaxRequests
    BY SizeAssumption, BoundAssumption DEF Init
  <2>3. /\ in_use \in BOOLEAN /\ calm \in BOOLEAN
        /\ slot_in_use \in [Slots -> BOOLEAN]
        /\ waiting \in [Slots -> BOOLEAN]
        /\ arrived \in [Slots -> BOOLEAN]
        /\ \A i \in Slots : ~slot_in_use[i] => recv_ind_id[i] = NoInd
              /\ ~waiting[i] /\ ~arrived[i]
    BY Zenon DEF Init
  <2> QED
    BY <1>1, <2>1, <2>2, <2>3 DEF TypeOK
<1>3. InCall = {} /\ \A i \in Slots : ~slot_in_use[i]
  BY DEF Init, InCall
<1>4. CallsKnown
  BY <1>3 DEF Init, CallsKnown
<1> QED
  BY <1>2, <1>3, <1>4 DEF Inv, SlotsOwned

USE SizeAssumption, BoundAssumption

LEMMA CallInv ==
    ASSUME Inv, NEW c \in Callers, NEW id \in Inds, Call(c, id)
    PROVE  Inv'
<1> USE DEF Inv, SlotsOwned, CallsKnown, TypeOK, InCall
<1>0. /\ calls' \in 0..MaxRequests /\ calls' # 0
      /\ request' \in [Callers -> 0..MaxRequests] /\ request'[c] \in Requests
      /\ ind' \in [Callers -> Inds \cup {NoInd}] /\ ind'[c] = id
  BY DEF Call, Requests
<1>1. CASE FreeSlots # {}
  <2> DEFINE i == FirstFree
  <2>1. i \in Slots /\ ~slot_in_use[i]
    BY <1>1, FirstFreeIsFree DEF FreeSlots
  <2>2. /\ select_id' = [select_id EXCEPT ![c] = i]
        /\ slot_in_use' = [slot_in_use EXCEPT ![i] = TRUE]
        /\ in_use' = TRUE
        /\ pc' = [pc EXCEPT ![c] = "select"]
        /\ UNCHANGED <<status, recv_ind_id, waiting, arrived, answers, buffer, calm>>
    BY <1>1 DEF Call, GoTo
  <2> HIDE DEF i
  <2>3. TypeOK'
    BY <1>0, <2>1, <2>2 DEF Slots, Steps
  <2>4. SlotsOwned'
    BY <2>1, <2>2, <2>3 DEF Call
  <2>5. CallsKnown'
    BY <1>0, <2>1, <2>2 DEF Call, Requests
  <2> QED
    BY <2>4, <2>5
<1>2. CASE FreeSlots = {}
  <2>1. /\ pc' = [pc EXCEPT ![c] = "return"]
        /\ status' = [status EXCEPT ![c] = "SUCCESS"]
        /\ UNCHANGED <<select_id, slot_in_use, in_use, recv_ind_id, waiting, arrived,
                       answers, buffer, calm>>
    BY <1>2 DEF Call, GoTo
  <2>2. TypeOK'
    BY <1>0, <2>1 DEF Steps, Statuses
  <2>3. SlotsOwned' /\ CallsKnown'
    BY <1>0, <2>1, <2>2 DEF Call, Requests
  <2> QED
    BY <2>3
<1> QED
  BY <1>1, <1>2

LEMMA SelectInv ==
    ASSUME Inv, NEW c \in Callers, Select(c)
    PROVE  Inv'
<1> USE DEF Inv, SlotsOwned, CallsKnown, TypeOK, InCall
<1> DEFINE i == select_id[c]
<1>1. c \in InCall /\ i \in Slots /\ slot_in_use[i]
  BY DEF Select
<1>2. TypeOK'
  BY <1>1 DEF Select, GoTo, call, environment, Steps
<1>3. InCall' = InCall
  BY DEF Select, GoTo, call, environment, Steps
<1>4. SlotsOwned'
  BY <1>1, <1>2, <1>3 DEF Select, call
<1>5. CallsKnown'
  BY <1>1, <1>3 DEF Select, GoTo, call
<1> QED
  BY <1>4, <1>5

LEMMA SendInv ==
    ASSUME Inv, NEW c \in Callers, Send(c)
    PROVE  Inv'
<1> USE DEF Inv, SlotsOwned, CallsKnown, TypeOK, InCall
<1>1. ind[c] \in Inds /\ request[c] \in Requests
  BY DEF Send
<1> DEFINE a == [id |-> ind[c], to |-> request[c]]
           A == [id : Inds, to : Requests]
<1>2. answers' \in Seq(A)
  <2>1. a \in A
    BY <1>1
  <2>2. answers \in Seq(A)
    OBVIOUS
  <2>3. answers' = answers \/ answers' = Append(answers, a)
    BY DEF Send
  <2> HIDE DEF a, A, Inv
  <2> QED
    BY <2>1, <2>2, <2>3
<1>4. TypeOK'
  <2>1. pc' \in [Callers -> Steps] /\ status' \in [Callers -> Statuses]
    <3>1. /\ pc \in [Callers -> Steps] /\ status \in [Callers -> Statuses]
          /\ \E step \in Steps : pc' = [pc EXCEPT ![c] = step]
          /\ status' = status \/ status' = [status EXCEPT ![c] = "FAILURE"]
      BY DEF Send, GoTo, Steps
    <3> HIDE DEF Inv
    <3> QED
      BY <3>1 DEF Statuses
  <2>2. UNCHANGED <<slots, select_id, request, ind, buffer, environment>>
    BY DEF Send
  <2> QED
    BY <1>2, <2>1, <2>2 DEF slots, environment
<1>3. InCall' = InCall
  BY DEF Send, GoTo
<1> QED
  BY <1>4, <1>3 DEF Send, GoTo, slots

LEMMA WaitInv ==
    ASSUME Inv, NEW c \in Callers, Wait(c) \/ WaitOver(c) \/ Expire(c)
             \/ SpuriousWake(c)
    PROVE  Inv'
<1> USE DEF Inv, SlotsOwned, CallsKnown, TypeOK, InCall
<1>1. c \in InCall /\ select_id[c] \in Slots /\ slot_in_use[select_id[c]]
  BY DEF Wait, WaitOver, Expire, SpuriousWake
<1>2. TypeOK'
  <2>1. /\ pc' \in [Callers -> Steps]
        /\ status' \in [Callers -> Statuses]
    <3>1. pc \in [Callers -> Steps] /\ status \in [Callers -> Statuses]
      OBVIOUS
    <3>2. \E step \in Steps : pc' = [pc EXCEPT ![c] = step]
      BY DEF Wait, WaitOver, Expire, SpuriousWake, GoTo, Steps
    <3>3. \/ status' = status
          \/ \E s \in Statuses : status' = [status EXCEPT ![c] = s]
      BY DEF Wait, WaitOver, Expire, SpuriousWake, call, Statuses
    <3> HIDE DEF Inv
    <3> QED
      BY <3>1, <3>2, <3>3
  <2>2. /\ waiting' \in [Slots -> BOOLEAN]
        /\ \A i \in Slots : ~slot_in_use[i] => ~waiting'[i]
    <3>1. CASE waiting' = waiting
      BY <3>1
    <3>2. ASSUME NEW b \in BOOLEAN, waiting' = [waiting EXCEPT ![select_id[c]] = b]
          PROVE  /\ waiting' \in [Slots -> BOOLEAN]
                 /\ \A i \in Slots : ~slot_in_use[i] => ~waiting'[i]
      BY <1>1, <3>2
    <3>3. \/ waiting' = waiting
          \/ \E b \in BOOLEAN : waiting' = [waiting EXCEPT ![select_id[c]] = b]
      BY DEF Wait, WaitOver, Expire, SpuriousWake, slots
    <3> QED
      BY <3>1, <3>2, <3>3
  <2>3. UNCHANGED <<in_use, slot_in_use, recv_ind_id, arrived, answers, select_id,
                    request, ind, buffer, environment>>
    BY DEF Wait, WaitOver, Expire, SpuriousWake, slots, call
  <2> QED
    BY <2>1, <2>2, <2>3 DEF environment
<1>3. InCall' = InCall
  BY DEF Wait, WaitOver, Expire, SpuriousWake, GoTo
<1>4. /\ UNCHANGED <<select_id, slot_in_use, recv_ind_id, ind, request>>
      /\ \A d \in Callers : pc'[d] = "idle" <=> pc[d] = "idle"
  BY DEF Wait, WaitOver, Expire, SpuriousWake, GoTo, slots, call
<1> QED
  BY <1>2, <1>3, <1>4

LEMMA FreeInv ==
    ASSUME Inv, NEW c \in Callers, Free(c)
    PROVE  Inv'
<1> USE DEF Inv, SlotsOwned, CallsKnown, TypeOK, InCall
<1> DEFINE i == select_id[c]
<1>1. c \in InCall /\ i \in Slots /\ slot_in_use[i]
  BY DEF Free
<1>2. TypeOK'
  BY <1>1 DEF Free, Leave, GoTo, environment, Steps, Statuses
<1>3. InCall' = InCall \ {c}
  BY DEF Free, Leave, GoTo
<1>4. /\ \A d \in Callers \ {c} : select_id'[d] = select_id[d]
      /\ \A d \in InCall \ {c} : select_id[d] # i
      /\ \A j \in Slots \ {i} : slot_in_use'[j] = slot_in_use[j]
            /\ recv_ind_id'[j] = recv_ind_id[j]
      /\ ~slot_in_use'[i]
  <2>1. \A d \in InCall \ {c} : select_id[d] # i
    BY <1>1
  <2>2. /\ select_id' = [select_id EXCEPT ![c] = 0]
        /\ slot_in_use' = [slot_in_use EXCEPT ![i] = FALSE]
        /\ recv_ind_id' = [recv_ind_id EXCEPT ![i] = NoInd]
    BY DEF Free, Leave
  <2>3. /\ select_id \in [Callers -> 0..BUFFER_SIZE]
        /\ slot_in_use \in [Slots -> BOOLEAN] /\ DOMAIN recv_ind_id = Slots
    OBVIOUS
  <2>4. c \in Callers /\ i \in Slots
    BY <1>1
  <2> HIDE DEF i, Inv, SlotsOwned, CallsKnown, TypeOK, InCall
  <2> QED
    BY <2>1, <2>2, <2>3, <2>4
<1>5. SlotsOwned'
  <2>1. \A d \in InCall' : select_id'[d] \in Slots /\ slot_in_use'[select_id'[d]]
    <3> SUFFICES ASSUME NEW d \in InCall'
                 PROVE  select_id'[d] \in Slots /\ slot_in_use'[select_id'[d]]
      OBVIOUS
    <3>1. d \in InCall \ {c} /\ d \in Callers \ {c}
      BY <1>3
    <3>2. select_id[d] \in Slots /\ slot_in_use[select_id[d]]
      BY <3>1
    <3> HIDE DEF Inv, SlotsOwned, CallsKnown, TypeOK, InCall
    <3> QED
      BY <1>4, <3>1, <3>2
  <2>2. \A d, e \in InCall' : select_id'[d] = select_id'[e] => d = e
    <3>1. \A d \in InCall' : d \in InCall /\ select_id'[d] = select_id[d]
      BY <1>3, <1>4
    <3> QED
      BY <3>1
  <2>3. ASSUME NEW j \in Slots, slot_in_use'[j]
                 PROVE \E d \in InCall' : select_id'[d] = j
    <3>1. j # i /\ slot_in_use[j]
      BY <1>4, <2>3
    <3>2. PICK d \in InCall : select_id[d] = j
      BY <3>1
    <3>3. d \in InCall' /\ select_id'[d] = j
      BY <1>3, <1>4, <3>1, <3>2
    <3> QED
      BY <3>3
  <2> QED
    BY <1>2, <2>1, <2>2, <2>3
<1>6. CallsKnown'
  <2>1. select_id'[c] = 0 /\ pc'[c] = "idle"
    BY DEF Free, Leave, GoTo
  <2>2. ASSUME NEW d \in Callers \ {c}
        PROVE  /\ select_id'[d] = select_id[d] /\ ind'[d] = ind[d]
               /\ request'[d] = request[d] /\ pc'[d] = pc[d]
    BY <2>2 DEF Free, Leave, GoTo
  <2>3. ASSUME NEW d \in InCall' PROVE recv_ind_id'[select_id'[d]] \in {NoInd,
                 ind'[d]}
    <3>1. d \in InCall \ {c} /\ d \in Callers \ {c}
      BY <1>3, <2>3
    <3>2. /\ select_id[d] \in Slots \ {i}
          /\ recv_ind_id[select_id[d]] \in {NoInd, ind[d]}
      BY <1>4, <3>1
    <3> HIDE DEF Inv, SlotsOwned, CallsKnown, TypeOK, InCall
    <3> QED
      BY <1>4, <2>2, <3>1, <3>2
  <2>4. CallsKnown /\ c \notin InCall'
    BY <1>3
  <2>5. \A d \in Callers \ {c} : d \notin InCall' => d \notin InCall
    BY <1>3
  <2>6. \A d \in Callers : d \notin InCall' => select_id'[d] = 0
    BY <2>1, <2>2, <2>4, <2>5 DEF CallsKnown
  <2>7. \A d \in Callers : pc'[d] # "idle" => ind'[d] \in Inds
          /\ request'[d] \in Requests
    BY <2>1, <2>2, <2>4 DEF CallsKnown
  <2> HIDE DEF Inv, SlotsOwned, TypeOK, InCall
  <2> QED
    BY <2>3, <2>6, <2>7
<1> QED
  BY <1>5, <1>6

LEMMA ReturnInv ==
    ASSUME Inv, NEW c \in Callers, Return(c)
    PROVE  Inv'
<1> USE DEF Inv, SlotsOwned, CallsKnown, TypeOK, InCall
<1>1. TypeOK'
  BY DEF Return, Leave, GoTo, slots, environment, Steps, Statuses
<1>2. InCall' = InCall
  BY DEF Return, Leave, GoTo
<1>3. \A d \in InCall : select_id'[d] = select_id[d]
  BY DEF Return, Leave
<1> QED
  BY <1>1, <1>2, <1>3 DEF Return, Leave, GoTo, slots

(* What is left of a queue is a queue.                                      *)
LEMMA HeadAndTail ==
    ASSUME NEW A, NEW q \in Seq(A), q # <<>>
    PROVE  Head(q) \in A /\ Tail(q) \in Seq(A)
  OBVIOUS

(* An answer in the place of a slot's caller.                               *)
LEMMA ProcessIndInv ==
    ASSUME Inv, ProcessInd
    PROVE  Inv'
<1> USE DEF Inv, SlotsOwned, CallsKnown, TypeOK, InCall
<1>1. Head(answers) \in [id : Inds, to : Requests]
      /\ answers' \in Seq([id : Inds, to : Requests])
  <2>1. answers \in Seq([id : Inds, to : Requests]) /\ answers # <<>>
          /\ answers' = Tail(answers)
    BY DEF ProcessInd
  <2> HIDE DEF Inv
  <2> QED
    BY <2>1, HeadAndTail, Zenon
<1>2. TypeOK' /\ InCall' = InCall
      /\ \A d \in Callers : pc'[d] = "idle" <=> pc[d] = "idle"
  <2>1. CASE UNCHANGED <<arrived, buffer, pc>>
    BY <1>1, <2>1 DEF ProcessInd, environment
  <2>2. ASSUME NEW i \in Matches(Head(answers).id),
               buffer' = [buffer EXCEPT ![Owner(i)] = Head(answers).to],
               \/ pc' = [c \in Callers |-> IF c \in Wakes(i) THEN "woken" ELSE pc[c]]
                  /\ UNCHANGED arrived
               \/ arrived' = [arrived EXCEPT ![i] = TRUE] /\ UNCHANGED pc
        PROVE  TypeOK' /\ InCall' = InCall
               /\ \A d \in Callers : pc'[d] = "idle" <=> pc[d] = "idle"
    <3>1. i \in Slots /\ slot_in_use[i]
      BY DEF Matches
    <3>2. buffer' \in [Callers -> 0..MaxRequests]
      <4>1. Head(answers).to \in 0..MaxRequests
        BY <1>1 DEF Requests
      <4>2. buffer \in [Callers -> 0..MaxRequests]
        OBVIOUS
      <4> HIDE DEF Inv
      <4> QED
        BY <2>2, <4>1, <4>2, Zenon
    <3>3. arrived' \in [Slots -> BOOLEAN] /\ \A j \in Slots : ~slot_in_use[j]
            => ~arrived'[j]
      <4>1. arrived \in [Slots -> BOOLEAN] /\ \A j \in Slots : ~slot_in_use[j]
              => ~arrived[j]
        OBVIOUS
      <4>2. arrived' = arrived \/ arrived' = [arrived EXCEPT ![i] = TRUE]
        BY <2>2
      <4> HIDE DEF Inv
      <4> QED
        BY <3>1, <4>1, <4>2
    <3>4. /\ pc' \in [Callers -> Steps]
          /\ \A d \in Callers : pc'[d] = pc[d] \/ (pc[d] = "asleep"
                /\ pc'[d] = "woken")
      BY <2>2 DEF Wakes, Steps
    <3> QED
      BY <1>1, <3>2, <3>3, <3>4 DEF ProcessInd, environment
  <2> QED
    BY <2>1, <2>2 DEF ProcessInd
<1> QED
  BY <1>2 DEF ProcessInd

LEMMA LostInv == ASSUME Inv, AnswersLost PROVE Inv'
  BY DEF Inv, SlotsOwned, CallsKnown, TypeOK, InCall, AnswersLost, slots, call,
    environment

LEMMA StutterInv == ASSUME Inv, UNCHANGED vars PROVE Inv'
  BY DEF Inv, SlotsOwned, CallsKnown, TypeOK, InCall, vars, slots, call, environment

LEMMA NextInv == Inv /\ [Next]_vars => Inv'
  BY CallInv, SelectInv, SendInv, WaitInv, FreeInv, ReturnInv, ProcessIndInv, LostInv,
     StutterInv DEF Next, Proceed

(* A slot in use belongs to one call, and each call has its own.            *)
THEOREM SlotsCorrect == Spec => []SlotsOwned
<1>1. Inv => SlotsOwned
  BY DEF Inv
<1> QED
  BY InitInv, NextInv, <1>1, PTL DEF Spec

-----------------------------------------------------------------------------
(* Only the callback thread writes answers, and only for whom waits.        *)
LEMMA WrittenInTime ==
    ASSUME Inv, [Next]_vars, NEW c \in Callers, buffer'[c] # buffer[c], buffer'[c] # 0
    PROVE  c \in InCall /\ ind[c] = Head(answers).id
<1>1. ProcessInd
  <2>1. CASE UNCHANGED vars
    BY <2>1 DEF vars, call
  <2>2. ASSUME NEW d \in Callers, NEW id \in Inds, Call(d, id) PROVE FALSE
    BY <2>2 DEF Call
  <2>3. ASSUME NEW d \in Callers, Free(d) \/ Return(d) PROVE FALSE
    BY <2>3 DEF Free, Return, Leave, Inv, SlotsOwned, TypeOK
  <2>4. ASSUME NEW d \in Callers,
               Select(d) \/ Send(d) \/ Wait(d) \/ WaitOver(d) \/ Expire(d)
                 \/ SpuriousWake(d)
        PROVE  FALSE
    BY <2>4 DEF Select, Send, Wait, WaitOver, Expire, SpuriousWake, call
  <2>5. CASE AnswersLost
    BY <2>5 DEF AnswersLost, call
  <2> QED
    BY <2>1, <2>2, <2>3, <2>4, <2>5 DEF Next, Proceed
<1>2. PICK i \in Matches(Head(answers).id) :
          buffer' = [buffer EXCEPT ![Owner(i)] = Head(answers).to]
  BY <1>1 DEF ProcessInd
<1>3. /\ i \in Slots /\ slot_in_use[i] /\ recv_ind_id[i] = Head(answers).id
      /\ Head(answers).id \in Inds
  <2>1. answers \in Seq([id : Inds, to : Requests]) /\ answers # <<>>
    BY <1>1 DEF ProcessInd, Inv, SlotsOwned, TypeOK
  <2>2. Head(answers) \in [id : Inds, to : Requests]
    BY <2>1, HeadAndTail, Zenon
  <2> QED
    BY <1>2, <2>2 DEF Matches
<1>4. Owner(i) \in InCall /\ select_id[Owner(i)] = i
  BY <1>3, OwnerCalls
<1>5. c = Owner(i)
  BY <1>2 DEF Inv, SlotsOwned, TypeOK
<1>6. recv_ind_id[i] \in {NoInd, ind[c]}
  BY <1>4, <1>5 DEF Inv, CallsKnown
<1> QED
  BY <1>3, <1>4, <1>5, <1>6, NoIndAssumption

(* No answer, however late, is written for a call that has returned.        *)
THEOREM NoLateWriteCorrect == Spec => NoLateWrite
<1>1. Inv /\ [Next]_vars =>
          [\A c \in Callers :
              buffer'[c] # buffer[c] /\ buffer'[c] # 0
                  => c \in InCall /\ ind[c] = Head(answers).id]_vars
  BY WrittenInTime
<1> QED
  BY InitInv, NextInv, <1>1, PTL DEF Spec, NoLateWrite

-----------------------------------------------------------------------------
(* A calm environment.                                                     *)

(* No two calls ask for the same indication. *)
CallsDistinct ==
    \A c, d \in Callers :
        pc[c] # "idle" /\ pc[d] # "idle" /\ ind[c] = ind[d] => c = d

(* Each answer on its way is for a call that still waits for it, and for no *)
(* other answer.                                                            *)
AnswersAwaited ==
    /\ \A k \in 1..Len(answers) :
          \E c \in Callers :
             /\ pc[c] \in {"wait", "asleep"} /\ ~arrived[select_id[c]]
             /\ answers[k].id = ind[c] /\ answers[k].to = request[c]
    /\ \A k, l \in 1..Len(answers) : answers[k].id = answers[l].id => k = l

(* Whoever has been answered, woken, or told of success has its own answer, *)
(* and nobody is answered who has not sent its request.                     *)
Answered(c) ==
    \/ pc[c] \in {"wait", "asleep"} /\ arrived[select_id[c]]
    \/ pc[c] = "woken"
    \/ pc[c] = "free" /\ status[c] = "SUCCESS"

AnsweredWell ==
    \A c \in Callers :
        /\ pc[c] # "expired"
        /\ pc[c] = "send" => ~arrived[select_id[c]]
        /\ Answered(c) => buffer[c] = request[c]

CalmInv == calm => CallsDistinct /\ AnswersAwaited /\ AnsweredWell

(* Initially nobody calls. *)
LEMMA CalmInit == Init => CalmInv
  BY DEF Init, CalmInv, CallsDistinct, AnswersAwaited, AnsweredWell, Answered

(* What the steps of a caller c leave to the other calls: their answers,    *)
(* their requests and their slots.                                          *)
OthersKept(c) ==
    /\ UNCHANGED calm
    /\ \A d \in Callers \ {c} :
          /\ pc'[d] = pc[d] /\ ind'[d] = ind[d] /\ request'[d] = request[d]
          /\ buffer'[d] = buffer[d] /\ status'[d] = status[d]
          /\ select_id'[d] = select_id[d]
          /\ d \in InCall => arrived'[select_id[d]] = arrived[select_id[d]]

LEMMA OthersStep ==
    ASSUME Inv, NEW c \in Callers,
           \/ \E id \in Inds : Call(c, id)
           \/ Proceed(c)
    PROVE  OthersKept(c)
<1> USE DEF OthersKept
<1>t. /\ pc \in [Callers -> Steps] /\ ind \in [Callers -> Inds \cup {NoInd}]
      /\ request \in [Callers -> 0..MaxRequests]
      /\ buffer \in [Callers -> 0..MaxRequests]
      /\ status \in [Callers -> Statuses]
      /\ select_id \in [Callers -> 0..BUFFER_SIZE]
      /\ arrived \in [Slots -> BOOLEAN]
  BY DEF Inv, SlotsOwned, TypeOK
<1>s. \A d \in Callers \ {c} : d \in InCall /\ c \in InCall
          => select_id[d] # select_id[c]
  BY DEF Inv, SlotsOwned
<1>1. ASSUME NEW id \in Inds, Call(c, id) PROVE OthersKept(c)
  BY <1>1, <1>t DEF Call, GoTo
<1>2. CASE Select(c) \/ Free(c)
  <2>1. c \in InCall /\ select_id[c] \in Slots
    BY <1>2 DEF Select, Free, InCall, Inv, SlotsOwned
  <2>2. /\ arrived' = [arrived EXCEPT ![select_id[c]] = FALSE]
        /\ UNCHANGED calm
    BY <1>2 DEF Select, Free, environment
  <2>3. \A d \in InCall : select_id[d] \in Slots
    BY DEF Inv, SlotsOwned
  <2>4. \A d \in Callers \ {c} : d \in InCall
           => arrived'[select_id[d]] = arrived[select_id[d]]
    BY <1>s, <1>t, <2>1, <2>2, <2>3
  <2>5. \A d \in Callers \ {c} :
          /\ pc'[d] = pc[d] /\ ind'[d] = ind[d] /\ request'[d] = request[d]
          /\ buffer'[d] = buffer[d] /\ status'[d] = status[d]
          /\ select_id'[d] = select_id[d]
    BY <1>t, <1>2 DEF Select, Free, Leave, GoTo, call
  <2> QED BY <2>2, <2>4, <2>5
<1>3. CASE Send(c) \/ Wait(c) \/ WaitOver(c)
  BY <1>t, <1>3 DEF Send, Wait, WaitOver, GoTo, slots, environment
<1>4. CASE Return(c)
  BY <1>t, <1>4 DEF Return, Leave, GoTo, slots, environment
<1> QED BY <1>1, <1>2, <1>3, <1>4 DEF Proceed

(* A caller that keeps its indication, or has one that nobody asks for,     *)
(* keeps the calls distinct.                                                *)
LEMMA DistinctStep ==
    ASSUME CallsDistinct, NEW c \in Callers, OthersKept(c),
           \/ pc[c] # "idle" /\ ind'[c] = ind[c]
           \/ pc'[c] = "idle"
           \/ \A d \in Callers : pc[d] # "idle" => ind[d] # ind'[c]
    PROVE  CallsDistinct'
BY DEF CallsDistinct, OthersKept

(* A caller that is not told anything, or told of its own answer.           *)
LEMMA AnsweredStep ==
    ASSUME AnsweredWell, NEW c \in Callers, OthersKept(c),
           pc'[c] # "expired",
           pc'[c] = "send" => ~arrived'[select_id'[c]],
           Answered(c)' => buffer'[c] = request'[c]
    PROVE  AnsweredWell'
<1>1. ASSUME NEW d \in Callers \ {c}
      PROVE  /\ pc'[d] # "expired"
             /\ pc'[d] = "send" => ~arrived'[select_id'[d]]
             /\ Answered(d)' => buffer'[d] = request'[d]
  BY DEF AnsweredWell, OthersKept, Answered, InCall
<1> QED BY <1>1 DEF AnsweredWell

(* The answers on their way stay awaited when their callers go on waiting.  *)
LEMMA AwaitedStep ==
    ASSUME AnswersAwaited, NEW c \in Callers, OthersKept(c), UNCHANGED answers,
           pc[c] \in {"wait", "asleep"} /\ ~arrived[select_id[c]] =>
              /\ pc'[c] \in {"wait", "asleep"}
              /\ ind'[c] = ind[c] /\ request'[c] = request[c]
              /\ UNCHANGED <<arrived, select_id>>
    PROVE  AnswersAwaited'
BY DEF AnswersAwaited, OthersKept, InCall

(* A call begins, selects or ends: it is not waiting. *)
LEMMA CalmIdle ==
    ASSUME Inv, CalmInv, calm, NEW c \in Callers,
           \/ \E id \in Inds : Call(c, id)
           \/ Select(c) \/ Free(c) \/ Return(c)
    PROVE  CalmInv'
<1>0. /\ OthersKept(c) /\ CallsDistinct /\ AnswersAwaited /\ AnsweredWell
      /\ UNCHANGED answers
      /\ pc[c] \notin {"wait", "asleep"}
  BY OthersStep DEF CalmInv, Call, Select, Free, Return, Proceed
<1>t. /\ pc \in [Callers -> Steps] /\ ind \in [Callers -> Inds \cup {NoInd}]
      /\ arrived \in [Slots -> BOOLEAN]
  BY DEF Inv, SlotsOwned, TypeOK
<1>1. /\ pc'[c] \in {"select", "send", "return", "idle"}
      /\ pc'[c] = "send" => ~arrived'[select_id'[c]]
      /\ ~Answered(c)'
  <2>1. CASE \E id \in Inds : Call(c, id)
    BY <1>t, <2>1 DEF Call, GoTo, Answered
  <2>2. CASE Select(c)
    <3>1. select_id[c] \in Slots
      BY <2>2 DEF Select, Inv, SlotsOwned, InCall
    <3> QED BY <1>t, <2>2, <3>1 DEF Select, GoTo, Answered, call
  <2>3. CASE Free(c) \/ Return(c)
    BY <1>t, <2>3 DEF Free, Return, Leave, GoTo, Answered
  <2> QED BY <1>0, <2>1, <2>2, <2>3
<1>2. \/ pc[c] # "idle" /\ ind'[c] = ind[c]
      \/ pc'[c] = "idle"
      \/ \A d \in Callers : pc[d] # "idle" => ind[d] # ind'[c]
  <2>1. ASSUME NEW id \in Inds, Call(c, id)
        PROVE  \A d \in Callers : pc[d] # "idle" => ind[d] # ind'[c]
    BY <1>t, <2>1 DEF Call
  <2>2. CASE Select(c)
    BY <2>2 DEF Select, call
  <2>3. CASE Free(c) \/ Return(c)
    BY <1>t, <2>3 DEF Free, Return, Leave, GoTo
  <2> QED BY <2>1, <2>2, <2>3
<1>3. CallsDistinct'
  BY <1>0, <1>2, DistinctStep
<1>4. AnswersAwaited'
  BY <1>0, AwaitedStep
<1>5. AnsweredWell'
  BY <1>0, <1>1, AnsweredStep
<1> QED BY <1>3, <1>4, <1>5 DEF CalmInv

(* A request is sent: its answer is the only one of its ID. *)
LEMMA CalmSend ==
    ASSUME Inv, CalmInv, calm, NEW c \in Callers, Send(c)
    PROVE  CalmInv'
<1>0. /\ OthersKept(c) /\ CallsDistinct /\ AnswersAwaited /\ AnsweredWell
      /\ pc[c] = "send" /\ ind'[c] = ind[c] /\ request'[c] = request[c]
      /\ UNCHANGED <<buffer, arrived, select_id>>
  BY OthersStep DEF CalmInv, Send, Proceed, slots
<1>t. /\ pc \in [Callers -> Steps] /\ status \in [Callers -> Statuses]
      /\ answers \in Seq([id : Inds, to : Requests])
      /\ ind[c] \in Inds /\ request[c] \in Requests
  BY <1>0 DEF Inv, SlotsOwned, TypeOK, CallsKnown
<1>1. CallsDistinct'
  BY <1>0, DistinctStep
<1>2. AnsweredWell'
  <2>1. pc'[c] \in {"wait", "free"}
    BY <1>t DEF Send, GoTo
  <2>2. Answered(c)' => buffer'[c] = request'[c]
    BY <1>0, <1>t DEF Send, GoTo, Answered, AnsweredWell
  <2> QED BY <1>0, <2>1, <2>2, AnsweredStep
<1>3. AnswersAwaited'
  <2>1. CASE UNCHANGED answers
    BY <1>0, <2>1, AwaitedStep
  <2>2. CASE answers' = Append(answers, [id |-> ind[c], to |-> request[c]])
                /\ GoTo(c, "wait")
    <3> DEFINE a == [id |-> ind[c], to |-> request[c]]
               A == [id : Inds, to : Requests]
               q == Append(answers, a)
    <3>1. a \in A /\ answers \in Seq(A)
      BY <1>t
    <3> HIDE DEF A
    <3>2. /\ answers' = q /\ Len(q) = Len(answers) + 1 /\ Len(answers) \in Nat
          /\ \A k \in 1..Len(answers) : q[k] = answers[k]
          /\ q[Len(answers) + 1] = a
      BY <2>2, <3>1
    <3>3. a.id = ind[c] /\ a.to = request[c] /\ pc'[c] = "wait"
      BY <1>t, <2>2 DEF GoTo
    <3> HIDE DEF a, q
    <3>4. \A k \in 1..Len(answers) : answers[k].id # a.id
      BY <1>0, <3>3 DEF AnswersAwaited, CallsDistinct
    <3>5. \A k \in 1..Len(answers) :
             \E d \in Callers :
                 /\ pc'[d] \in {"wait", "asleep"} /\ ~arrived'[select_id'[d]]
                 /\ answers[k].id = ind'[d] /\ answers[k].to = request'[d]
      BY <1>0 DEF AnswersAwaited, OthersKept
    <3>6. ASSUME NEW k \in 1..Len(answers')
          PROVE  \E d \in Callers :
                    /\ pc'[d] \in {"wait", "asleep"} /\ ~arrived'[select_id'[d]]
                    /\ answers'[k].id = ind'[d] /\ answers'[k].to = request'[d]
      <4>1. ~arrived'[select_id'[c]]
        BY <1>0 DEF AnsweredWell
      <4> QED BY <3>2, <3>3, <3>5, <1>0, <4>1
    <3>7. ASSUME NEW k \in 1..Len(answers'), NEW l \in 1..Len(answers'),
                 answers'[k].id = answers'[l].id
          PROVE  k = l
      BY <1>0, <3>2, <3>4, <3>7 DEF AnswersAwaited
    <3> QED BY <3>6, <3>7 DEF AnswersAwaited
  <2> QED BY <2>1, <2>2 DEF Send
<1> QED BY <1>1, <1>2, <1>3 DEF CalmInv

(* A caller begins or ends its wait: what it finds is its own answer. *)
LEMMA CalmWait ==
    ASSUME Inv, CalmInv, calm, NEW c \in Callers, Wait(c) \/ WaitOver(c)
    PROVE  CalmInv'
<1>0. /\ OthersKept(c) /\ CallsDistinct /\ AnswersAwaited /\ AnsweredWell
      /\ pc[c] \in {"wait", "woken"}
      /\ UNCHANGED <<answers, buffer, arrived, select_id, ind, request>>
  BY OthersStep DEF CalmInv, Wait, WaitOver, Proceed, AnsweredWell
<1>t. /\ pc \in [Callers -> Steps] /\ status \in [Callers -> Statuses]
  BY DEF Inv, SlotsOwned, TypeOK
<1>1. CallsDistinct'
  BY <1>0, DistinctStep
<1>2. /\ pc'[c] \in {"free", "asleep"}
      /\ pc[c] = "wait" /\ ~arrived[select_id[c]] => pc'[c] = "asleep"
  BY <1>0, <1>t DEF Wait, WaitOver, GoTo
<1>3. AnswersAwaited'
  BY <1>0, <1>2, AwaitedStep
<1>4. Answered(c)' => Answered(c)
  BY <1>0, <1>t DEF Wait, WaitOver, GoTo, Answered
<1>5. AnsweredWell'
  BY <1>0, <1>2, <1>4, AnsweredStep DEF AnsweredWell
<1> QED BY <1>1, <1>3, <1>5 DEF CalmInv

(* The answer at the head of the queue goes to the call that it answers.    *)
LEMMA CalmProcessInd ==
    ASSUME Inv, CalmInv, calm, ProcessInd
    PROVE  CalmInv'
<1>0. /\ CallsDistinct /\ AnswersAwaited /\ AnsweredWell
      /\ UNCHANGED <<calm, ind, request, status, select_id, recv_ind_id, waiting>>
  BY DEF CalmInv, ProcessInd, environment
<1>t. /\ pc \in [Callers -> Steps] /\ arrived \in [Slots -> BOOLEAN]
      /\ buffer \in [Callers -> 0..MaxRequests]
      /\ \A c \in InCall : c \in Callers /\ select_id[c] \in Slots
      /\ \A c, d \in InCall : select_id[c] = select_id[d] => c = d
  BY DEF Inv, SlotsOwned, TypeOK, InCall
<1> DEFINE A == [id : Inds, to : Requests]
<1>1. answers \in Seq(A) /\ answers # <<>> /\ answers' = Tail(answers)
  BY DEF ProcessInd, Inv, SlotsOwned, TypeOK
<1> HIDE DEF A
<1>2. /\ Head(answers) = answers[1] /\ 1 \in 1..Len(answers)
      /\ \A k \in 1..Len(answers') : k + 1 \in 1..Len(answers)
            /\ answers'[k] = answers[k + 1]
      /\ Len(answers) \in Nat /\ Len(answers') \in Nat
  BY <1>1
<1>3. PICK c \in Callers : /\ pc[c] \in {"wait", "asleep"} /\ ~arrived[select_id[c]]
                           /\ Head(answers).id = ind[c]
                                 /\ Head(answers).to = request[c]
  BY <1>0, <1>2 DEF AnswersAwaited
<1>4. c \in InCall
  BY <1>3 DEF InCall
(* The rest of the queue is for others. *)
<1>5. ASSUME NEW k \in 1..Len(answers')
      PROVE  \E d \in Callers \ {c} :
                /\ pc[d] \in {"wait", "asleep"} /\ ~arrived[select_id[d]]
                /\ answers'[k].id = ind[d] /\ answers'[k].to = request[d]
  <2>1. PICK d \in Callers :
                /\ pc[d] \in {"wait", "asleep"} /\ ~arrived[select_id[d]]
                /\ answers'[k].id = ind[d] /\ answers'[k].to = request[d]
    BY <1>0, <1>2 DEF AnswersAwaited
  <2>2. answers'[k].id # answers[1].id
    BY <1>0, <1>2 DEF AnswersAwaited
  <2>3. d # c
    BY <1>2, <1>3, <2>1, <2>2
  <2> QED BY <2>1, <2>3
<1>6. \A k, l \in 1..Len(answers') : answers'[k].id = answers'[l].id => k = l
  BY <1>0, <1>2 DEF AnswersAwaited
(* What happens to c, and that nothing happens to the others. *)
<1>7. /\ \A d \in Callers \ {c} :
            /\ pc'[d] = pc[d] /\ buffer'[d] = buffer[d]
            /\ d \in InCall => arrived'[select_id[d]] = arrived[select_id[d]]
      /\ \/ pc'[c] = pc[c] /\ arrived'[select_id[c]] = arrived[select_id[c]]
         \/ pc'[c] \in {"wait", "asleep", "woken"} /\ buffer'[c] = request[c]
  <2>1. CASE UNCHANGED <<arrived, buffer, pc>>
    BY <2>1
  <2>2. ASSUME NEW i \in Matches(Head(answers).id),
               buffer' = [buffer EXCEPT ![Owner(i)] = Head(answers).to],
               \/ pc' = [d \in Callers |-> IF d \in Wakes(i) THEN "woken" ELSE pc[d]]
                  /\ UNCHANGED arrived
               \/ arrived' = [arrived EXCEPT ![i] = TRUE] /\ UNCHANGED pc
        PROVE  /\ \A d \in Callers \ {c} :
                     /\ pc'[d] = pc[d] /\ buffer'[d] = buffer[d]
                     /\ d \in InCall => arrived'[select_id[d]] = arrived[select_id[d]]
               /\ pc'[c] \in {"wait", "asleep", "woken"} /\ buffer'[c] = request[c]
    <3>1. /\ i \in Slots /\ slot_in_use[i] /\ recv_ind_id[i] = ind[c]
      BY <1>3, <2>2 DEF Matches
    <3>2. Owner(i) \in InCall /\ select_id[Owner(i)] = i
      BY <3>1, OwnerCalls
    <3>3. ind[c] \in Inds
      BY <1>4, <1>t DEF Inv, CallsKnown, InCall
    <3>4. ind[Owner(i)] = ind[c]
      BY <3>1, <3>2, <3>3, <1>t, NoIndAssumption DEF Inv, CallsKnown
    <3>5. Owner(i) = c
      BY <1>0, <1>4, <1>t, <3>2, <3>4 DEF CallsDistinct, InCall
    <3>6. \A d \in Callers \ {c} : d \in InCall => select_id[d] # i
      BY <1>t, <1>4, <3>2, <3>5
    <3>7. \A d \in Callers \ {c} : d \notin Wakes(i)
      BY <3>6 DEF Wakes, InCall
    <3>8. buffer'[c] = request[c] /\ \A d \in Callers \ {c} : buffer'[d] = buffer[d]
      BY <1>3, <1>t, <2>2, <3>5
    <3>9. \A d \in Callers \ {c} : pc'[d] = pc[d]
      BY <2>2, <3>7
    <3>10. \A d \in Callers \ {c} : d \in InCall
               => arrived'[select_id[d]] = arrived[select_id[d]]
      BY <1>t, <2>2, <3>1, <3>6
    <3>11. pc'[c] \in {"wait", "asleep", "woken"}
      BY <1>3, <2>2
    <3> QED BY <3>8, <3>9, <3>10, <3>11
  <2> QED BY <2>1, <2>2 DEF ProcessInd
<1>8. \A d \in Callers : pc'[d] # "idle" <=> pc[d] # "idle"
  BY <1>3, <1>7
<1>9. CallsDistinct'
  BY <1>0, <1>8 DEF CallsDistinct
<1>10. AnswersAwaited'
  <2>1. ASSUME NEW k \in 1..Len(answers')
        PROVE  \E d \in Callers :
                  /\ pc'[d] \in {"wait", "asleep"} /\ ~arrived'[select_id'[d]]
                  /\ answers'[k].id = ind'[d] /\ answers'[k].to = request'[d]
    <3>1. PICK d \in Callers \ {c} :
                /\ pc[d] \in {"wait", "asleep"} /\ ~arrived[select_id[d]]
                /\ answers'[k].id = ind[d] /\ answers'[k].to = request[d]
      BY <1>5
    <3>2. d \in InCall
      BY <3>1 DEF InCall
    <3> QED BY <1>0, <1>7, <3>1, <3>2
  <2> QED BY <1>6, <2>1 DEF AnswersAwaited
<1>11. AnsweredWell'
  <2>1. ASSUME NEW d \in Callers \ {c}
        PROVE  /\ pc'[d] # "expired"
               /\ pc'[d] = "send" => ~arrived'[select_id'[d]]
               /\ Answered(d)' => buffer'[d] = request'[d]
    BY <1>0, <1>7 DEF AnsweredWell, Answered, InCall
  <2>2. /\ pc'[c] # "expired"
        /\ pc'[c] = "send" => ~arrived'[select_id'[c]]
        /\ Answered(c)' => buffer'[c] = request'[c]
    BY <1>0, <1>3, <1>7 DEF AnsweredWell, Answered
  <2> QED BY <2>1, <2>2 DEF AnsweredWell
<1> QED BY <1>9, <1>10, <1>11 DEF CalmInv

(* Every step of a calm environment keeps it so. *)
LEMMA CalmStep == Inv /\ CalmInv /\ [Next]_vars => CalmInv'
<1> SUFFICES ASSUME Inv, CalmInv, [Next]_vars PROVE CalmInv'
  OBVIOUS
<1>1. ASSUME NEW c \in Callers,
             (\E id \in Inds : Call(c, id)) \/ Proceed(c)
      PROVE  CalmInv'
  <2>1. CASE calm
    BY <1>1, <2>1, CalmIdle, CalmSend, CalmWait DEF Proceed
  <2>2. CASE ~calm
    BY <1>1, <2>2, OthersStep DEF OthersKept, CalmInv
  <2> QED BY <2>1, <2>2
<1>2. CASE ProcessInd
  <2>1. CASE calm
    BY <1>2, <2>1, CalmProcessInd
  <2>2. CASE ~calm
    BY <1>2, <2>2 DEF ProcessInd, environment, CalmInv
  <2> QED BY <2>1, <2>2
<1>3. CASE AnswersLost
  BY <1>3 DEF AnswersLost, environment, CalmInv
<1>4. ASSUME NEW c \in Callers, Expire(c) \/ SpuriousWake(c) PROVE CalmInv'
  BY <1>4 DEF Expire, SpuriousWake, environment, CalmInv
<1>5. CASE UNCHANGED vars
  BY <1>5 DEF vars, slots, call, environment, CalmInv, CallsDistinct,
              AnswersAwaited, AnsweredWell, Answered
<1> QED BY <1>1, <1>2, <1>3, <1>4, <1>5 DEF Next

(* While no two callers share an indication and nothing is late or lost, a  *)
(* call that has a slot and is about to return success has the answer to    *)
(* its own request, for any number of threads, slots and calls.             *)
THEOREM AnswersAreOwn == Spec => []AnswerIsOwn
<1>1. CalmInv => AnswerIsOwn
  BY DEF CalmInv, AnsweredWell, Answered, AnswerIsOwn
<1> QED BY InitInv, NextInv, CalmInit, CalmStep, <1>1, PTL DEF Spec

-----------------------------------------------------------------------------
(* XtraInjection, whatever the lengths, the parts and the counters.         *)

(* Counters and parts.                                                      *)
LEMMA XtraRemainder ==
    ASSUME NEW a \in Nat, NEW m \in Nat \ {0}
    PROVE  a % m \in 0..(m - 1) /\ a % m <= a /\ (a < m => a % m = a)
OBVIOUS

LEMMA XtraProduct ==
    ASSUME NEW a \in Nat, NEW b \in Nat, NEW p \in Nat, a <= b
    PROVE  a * p <= b * p /\ a * p \in Nat /\ (a + 1) * p = a * p + p
<1>1. PICK c \in Nat : b = a + c
  <2>1. b - a \in Nat /\ b = a + (b - a)
    OBVIOUS
  <2> QED
    BY <2>1
<1>2. c * p \in Nat /\ b * p = a * p + c * p /\ a * p \in Nat
  BY <1>1
<1> QED
  BY <1>2

(* The parts of a file cover it, and no part begins beyond its end.         *)
LEMMA XtraPartsCover ==
    ASSUME NEW n \in Nat
    PROVE  /\ Xtra!TotalParts(n) \in Nat \ {0}
           /\ (Xtra!TotalParts(n) - 1) * PART_LEN <= n
           /\ Xtra!TotalParts(n) * PART_LEN >= n
           /\ n < 2^LenBits => Xtra!TotalParts(n) < Xtra!MaxParts
<1> DEFINE m == 2^LenBits
           top == 2^PartBits
<1>1. PART_LEN \in Nat \ {0} /\ m \in Nat \ {0} /\ top \in Nat \ {0, 1}
      /\ m <= PART_LEN * (top - 2)
  BY XtraAssumption
<1> HIDE DEF m, top
<1>2. CASE n = 0
  <2>1. Xtra!TotalParts(n) = 1
    BY <1>2 DEF Xtra!TotalParts
  <2>2. top > 2
    <3>1. CASE top = 2
      <4>1. PART_LEN * (top - 2) = 0
        BY <1>1, <3>1
      <4> QED
        BY <1>1, <4>1
    <3> QED
      BY <1>1, <3>1
  <2> QED
    BY <1>1, <1>2, <2>1, <2>2 DEF Xtra!MaxParts, top
<1>3. CASE n # 0
  <2> DEFINE q == (n - 1) \div PART_LEN
  <2>1. q \in Nat /\ q * PART_LEN <= n - 1 /\ n - 1 < (q + 1) * PART_LEN
    BY <1>1, <1>3
  <2>2. Xtra!TotalParts(n) = q + 1
    BY <1>3 DEF Xtra!TotalParts
  <2> HIDE DEF q
  <2>3. ASSUME n < m PROVE q + 1 < top - 1
    <3>1. CASE q + 1 >= top - 1
      <4>1. top - 2 \in Nat /\ top - 2 <= q
        BY <1>1, <2>1, <3>1
      <4>2. (top - 2) * PART_LEN <= q * PART_LEN
        BY <1>1, <2>1, <4>1, XtraProduct
      <4>3. PART_LEN * (top - 2) = (top - 2) * PART_LEN
        BY <1>1
      <4> QED
        BY <1>1, <2>1, <2>3, <4>1, <4>2, <4>3
    <3> QED
      BY <1>1, <2>1, <3>1
  <2> QED
    BY <1>1, <2>1, <2>2, <2>3 DEF Xtra!MaxParts, m, top
<1> QED
  BY <1>2, <1>3

-----------------------------------------------------------------------------
(* A part is sent where the one before it ended, or the file is through.    *)
XtraThrough(k, n) == Xtra!Least(k * PART_LEN, n)

(* While a file of n bytes is injected.                                     *)
XtraCounted(n) ==
    Xtra!TotalParts(n) < Xtra!MaxParts =>
        part \in 1..(Xtra!TotalParts(n) + 1) /\ Len(sent) = part - 1

XtraPlaced(n) ==
    ~refused /\ n < 2^LenBits =>
        /\ len_injected = XtraThrough(part - 1, n)
        /\ \A k \in 1..Len(sent) :
              /\ sent[k].partNum = k /\ sent[k].from = (k - 1) * PART_LEN
              /\ sent[k].len <= PART_LEN
              /\ sent[k].from + sent[k].len = XtraThrough(k, n)

XtraFileInv == length # <<>> => /\ len_injected <= length[1]
                            /\ XtraCounted(length[1]) /\ XtraPlaced(length[1])

XtraIInv == Xtra!TypeOK /\ XtraFileInv

XtraSent == [partNum : 0..Xtra!MaxParts, from : 0..Xtra!Widest, len : 0..PART_LEN]

LEMMA XtraWidestIs == Xtra!Widest \in Lengths /\ \A n \in Lengths : n \in Nat
  /\ n <= Xtra!Widest
BY XtraAssumption DEF Xtra!Widest

LEMMA XtraWide ==
    /\ Xtra!MaxParts \in Nat \ {0} /\ 1 \in 0..Xtra!MaxParts
          /\ 0 \in 0..(2^LenBits - 1)
    /\ Xtra!MaxParts + 1 = 2^PartBits
BY XtraAssumption DEF Xtra!MaxParts

LEMMA XtraInjectInv ==
    ASSUME XtraIInv, NEW n \in Lengths, Xtra!Inject(n)
    PROVE  XtraIInv'
<1>1. /\ requests < MaxFiles /\ requests' = requests + 1 /\ files' = Append(files, n)
      /\ UNCHANGED <<length, part, len_injected, sent, refused>>
  BY DEF Xtra!Inject, Xtra!loop
<1>2. files' \in Seq(Lengths) /\ requests' \in 0..MaxFiles
  BY <1>1, XtraAssumption, AppendProperties DEF XtraIInv, Xtra!TypeOK
<1>3. Xtra!TypeOK'
  BY <1>1, <1>2 DEF XtraIInv, Xtra!TypeOK
<1> QED
  BY <1>1, <1>3 DEF XtraIInv, XtraFileInv, XtraCounted, XtraPlaced

LEMMA XtraBeginInv ==
    ASSUME XtraIInv, Xtra!Begin
    PROVE  XtraIInv'
<1>1. /\ files # <<>> /\ length' = <<Head(files)>> /\ files' = Tail(files)
      /\ part' = 1 /\ len_injected' = 0 /\ sent' = <<>> /\ refused' = FALSE
      /\ requests' = requests
  BY DEF Xtra!Begin
<1>2. PICK n \in Lengths : n = Head(files)
  BY <1>1, HeadTailProperties DEF XtraIInv, Xtra!TypeOK
<1>3. files' \in Seq(Lengths)
  BY <1>1, HeadTailProperties DEF XtraIInv, Xtra!TypeOK
<1>4. n \in Nat /\ Xtra!TotalParts(n) \in Nat \ {0}
  BY XtraWidestIs, XtraPartsCover
<1>5. Xtra!TypeOK'
  <2>1. length' \in {<<x>> : x \in Lengths}
    BY <1>1, <1>2
  <2>2. sent' \in Seq(XtraSent)
    BY <1>1
  <2> QED
    BY <1>1, <1>3, <2>1, <2>2, XtraWide DEF XtraIInv, Xtra!TypeOK, XtraSent
<1>6. length' # <<>> /\ length'[1] = n /\ Len(sent') = 0
  BY <1>1, <1>2
<1>7. XtraCounted(n)'
  BY <1>1, <1>4, <1>6 DEF XtraCounted
<1>8. XtraPlaced(n)'
  <2>1. XtraThrough(part' - 1, n) = 0
    BY <1>1, <1>4, XtraAssumption DEF XtraThrough, Xtra!Least
  <2> QED
    BY <1>1, <1>6, <2>1 DEF XtraPlaced
<1> QED
  BY <1>1, <1>4, <1>5, <1>6, <1>7, <1>8 DEF XtraIInv, XtraFileInv

LEMMA XtraFinishInv ==
    ASSUME XtraIInv, Xtra!Finish
    PROVE  XtraIInv'
BY DEF Xtra!Finish, XtraIInv, Xtra!TypeOK, XtraFileInv

LEMMA XtraSendPartInv ==
    ASSUME XtraIInv, NEW answer \in {"accepted", "refused"}, Xtra!SendPart(answer)
    PROVE  XtraIInv'
<1>1. PICK n : n = length[1]
  OBVIOUS
<1>2. /\ length # <<>> /\ part <= Xtra!TotalParts(n)
      /\ sent' = Append(sent, [partNum |-> part, from |-> len_injected,
            len |-> Xtra!PartLen(n)])
      /\ len_injected' = Xtra!Advance(answer, n)
      /\ part' = Xtra!NextPart(answer)
      /\ refused' = (refused \/ answer = "refused")
      /\ UNCHANGED <<files, length, requests>>
  BY <1>1 DEF Xtra!SendPart
<1>3. n \in Lengths /\ n \in Nat /\ n <= Xtra!Widest /\ Xtra!Widest \in Nat
  BY <1>1, <1>2, XtraWidestIs DEF XtraIInv, Xtra!TypeOK
<1>4. /\ part \in 0..Xtra!MaxParts /\ len_injected \in Nat /\ len_injected <= n
      /\ len_injected < 2^LenBits /\ sent \in Seq(XtraSent) /\ refused \in BOOLEAN
      /\ PART_LEN \in Nat \ {0} /\ 2^LenBits \in Nat \ {0} /\ 2^PartBits \in Nat \ {0}
  BY <1>1, <1>2, XtraAssumption, XtraWide
    DEF XtraIInv, Xtra!TypeOK, XtraFileInv, XtraSent
<1>5. /\ Xtra!PartLen(n) \in 0..PART_LEN /\ len_injected + Xtra!PartLen(n) <= n
      /\ Xtra!PartLen(n) = Xtra!Least(n - len_injected, PART_LEN)
  BY <1>3, <1>4 DEF Xtra!PartLen, Xtra!Least
<1>6. /\ len_injected' \in 0..(2^LenBits - 1) /\ len_injected' <= n
      /\ answer = "accepted" /\ n < 2^LenBits
            => len_injected' = len_injected + Xtra!PartLen(n)
  <2>1. len_injected + Xtra!PartLen(n) \in Nat
    BY <1>4, <1>5
  <2> DEFINE m == 2^LenBits
             a == len_injected + Xtra!PartLen(n)
  <2>2. len_injected' = IF answer = "accepted" THEN a % m ELSE len_injected
    BY <1>2 DEF Xtra!Advance
  <2> HIDE DEF m, a
  <2>3. a \in Nat /\ m \in Nat \ {0} /\ a <= n
    BY <1>4, <1>5, <2>1 DEF m, a
  <2>4. a % m \in 0..(m - 1) /\ a % m <= a /\ (a < m => a % m = a)
    BY <2>3, XtraRemainder
  <2>5. len_injected < m
    BY <1>4 DEF m
  <2>6. len_injected' \in 0..(m - 1) /\ len_injected' <= n
        /\ (answer = "accepted" /\ n < m => len_injected' = a)
    BY <1>3, <1>4, <2>2, <2>3, <2>4, <2>5
  <2> QED
    BY <2>6 DEF m, a
<1>7. part' \in 0..Xtra!MaxParts /\ (part < Xtra!MaxParts => part' = part + 1)
  <2> DEFINE m == 2^PartBits
  <2>1. part' = (part + 1) % m
    BY <1>2 DEF Xtra!NextPart
  <2>2. m \in Nat \ {0} /\ Xtra!MaxParts + 1 = m /\ part + 1 \in Nat
          /\ Xtra!MaxParts \in Nat
    BY <1>4, XtraWide
  <2> HIDE DEF m
  <2>3. part' \in 0..(m - 1) /\ (part + 1 < m => part' = part + 1)
    BY <2>1, <2>2, XtraRemainder
  <2> QED
    BY <1>4, <2>2, <2>3
<1> DEFINE record == [partNum |-> part, from |-> len_injected,
      len |-> Xtra!PartLen(n)]
<1>8. record \in XtraSent
  BY <1>3, <1>4, <1>5 DEF XtraSent
<1>9. /\ sent' \in Seq(XtraSent) /\ Len(sent) \in Nat /\ Len(sent') = Len(sent) + 1
      /\ sent'[Len(sent) + 1] = record
      /\ \A k \in 1..Len(sent) : sent'[k] = sent[k]
  BY <1>2, <1>4, <1>8, AppendProperties
<1>10. Xtra!TypeOK'
  <2>1. refused' \in BOOLEAN
    BY <1>2, <1>4
  <2> QED
    BY <1>2, <1>6, <1>7, <1>9, <2>1 DEF XtraIInv, Xtra!TypeOK, XtraSent
<1>11. Xtra!TotalParts(n) \in Nat \ {0} /\ (Xtra!TotalParts(n) - 1) * PART_LEN <= n
       /\ (n < 2^LenBits => Xtra!TotalParts(n) < Xtra!MaxParts)
  BY <1>3, XtraPartsCover
<1>12. XtraCounted(n) /\ XtraPlaced(n)
  BY <1>1, <1>2 DEF XtraIInv, XtraFileInv
<1>13. XtraCounted(n)'
  <2>1. SUFFICES ASSUME Xtra!TotalParts(n) < Xtra!MaxParts
                 PROVE  part' \in 1..(Xtra!TotalParts(n) + 1)
                          /\ Len(sent') = part' - 1
    BY DEF XtraCounted
  <2>2. part \in 1..(Xtra!TotalParts(n) + 1) /\ Len(sent) = part - 1
    BY <1>12, <2>1 DEF XtraCounted
  <2> QED
    BY <1>2, <1>7, <1>9, <1>11, <2>1, <2>2, XtraWide
<1>14. XtraPlaced(n)'
  <2>1. SUFFICES ASSUME ~refused', n < 2^LenBits
                 PROVE  /\ len_injected' = XtraThrough(part' - 1, n)
                        /\ \A k \in 1..Len(sent') :
                              /\ sent'[k].partNum = k
                                    /\ sent'[k].from = (k - 1) * PART_LEN
                              /\ sent'[k].len <= PART_LEN
                              /\ sent'[k].from + sent'[k].len = XtraThrough(k, n)
    BY DEF XtraPlaced
  <2>2. ~refused /\ answer = "accepted"
    BY <1>2, <2>1, XtraAssumption
  <2>3. /\ len_injected = XtraThrough(part - 1, n) /\ part \in Nat \ {0}
              /\ part = Len(sent) + 1
        /\ part' = part + 1 /\ len_injected' = len_injected + Xtra!PartLen(n)
    <3>1. Xtra!TotalParts(n) < Xtra!MaxParts
      BY <1>11, <2>1
    <3>2. part \in 1..(Xtra!TotalParts(n) + 1) /\ Len(sent) = part - 1
      BY <1>12, <3>1 DEF XtraCounted
    <3>3. len_injected = XtraThrough(part - 1, n)
      BY <1>12, <2>1, <2>2 DEF XtraPlaced
    <3> QED
      BY <1>2, <1>6, <1>7, <1>9, <1>11, <2>1, <2>2, <3>1, <3>2, <3>3, XtraWide
  <2>4. /\ (part - 1) * PART_LEN <= n /\ (part - 1) * PART_LEN \in Nat
        /\ part * PART_LEN = (part - 1) * PART_LEN + PART_LEN
    <3>1. part - 1 \in Nat /\ Xtra!TotalParts(n) - 1 \in Nat
            /\ part - 1 <= Xtra!TotalParts(n) - 1
      BY <1>2, <1>11, <2>3
    <3>2. /\ (part - 1) * PART_LEN <= (Xtra!TotalParts(n) - 1) * PART_LEN
          /\ (part - 1) * PART_LEN \in Nat
          /\ ((part - 1) + 1) * PART_LEN = (part - 1) * PART_LEN + PART_LEN
          /\ (Xtra!TotalParts(n) - 1) * PART_LEN \in Nat
      BY <1>4, <3>1, XtraProduct
    <3>3. (part - 1) + 1 = part
      BY <2>3
    <3> QED
      BY <1>3, <1>11, <3>2, <3>3
  <2>5. len_injected = (part - 1) * PART_LEN
    BY <1>3, <2>3, <2>4 DEF XtraThrough, Xtra!Least
  <2>6. len_injected + Xtra!PartLen(n) = XtraThrough(part, n)
    BY <1>3, <1>4, <1>5, <2>4, <2>5 DEF XtraThrough, Xtra!Least
  <2>7. ASSUME NEW k \in 1..Len(sent')
        PROVE  /\ sent'[k].partNum = k /\ sent'[k].from = (k - 1) * PART_LEN
               /\ sent'[k].len <= PART_LEN
               /\ sent'[k].from + sent'[k].len = XtraThrough(k, n)
    <3>1. CASE k = Len(sent) + 1
      <4>1. k = part /\ sent'[k] = record
        BY <1>9, <2>3, <3>1
      <4> QED
        BY <1>5, <2>5, <2>6, <4>1
    <3>2. CASE k \in 1..Len(sent)
      BY <1>9, <1>12, <2>1, <2>2, <3>2 DEF XtraPlaced
    <3> QED
      BY <1>9, <2>7, <3>1, <3>2
  <2>8. part' - 1 = part
    BY <2>3
  <2> QED
    BY <2>3, <2>6, <2>7, <2>8
<1>15. length'[1] = n
  BY <1>1, <1>2
<1> QED
  BY <1>6, <1>10, <1>13, <1>14, <1>15 DEF XtraIInv, XtraFileInv

LEMMA XtraStart ==
    ASSUME Xtra!Init
    PROVE  XtraIInv
<1>1. Xtra!TypeOK
  <2>1. /\ part \in 0..Xtra!MaxParts /\ len_injected \in 0..(2^LenBits - 1)
              /\ requests \in 0..MaxFiles
    BY XtraWide, XtraAssumption DEF Xtra!Init
  <2>2. /\ files \in Seq(Lengths) /\ length = <<>> /\ refused \in BOOLEAN
              /\ sent = <<>>
    BY EmptySeq DEF Xtra!Init
  <2>3. sent \in Seq([partNum : 0..Xtra!MaxParts, from : 0..Xtra!Widest,
          len : 0..PART_LEN])
    BY <2>2, EmptySeq
  <2> QED
    BY <2>1, <2>2, <2>3 DEF Xtra!TypeOK
<1> QED
  BY <1>1 DEF Xtra!Init, XtraIInv, XtraFileInv

LEMMA XtraNext ==
    ASSUME XtraIInv, [Xtra!Next]_(Xtra!vars)
    PROVE  XtraIInv'
<1>1. CASE UNCHANGED Xtra!vars
  BY <1>1 DEF Xtra!vars, Xtra!loop, XtraIInv, Xtra!TypeOK, XtraFileInv, XtraCounted,
    XtraPlaced
<1>2. CASE Xtra!Next
  BY <1>2, XtraInjectInv, XtraBeginInv, XtraFinishInv, XtraSendPartInv DEF Xtra!Next
<1> QED
  BY <1>1, <1>2

LEMMA XtraServes ==
    ASSUME XtraIInv
    PROVE  Xtra!FileArrives
<1>1. ASSUME length # <<>>
      PROVE  /\ length[1] \in Nat /\ XtraCounted(length[1]) /\ XtraPlaced(length[1])
             /\ sent \in Seq(XtraSent) /\ part \in Nat
  BY <1>1, XtraWidestIs, XtraWide DEF XtraIInv, Xtra!TypeOK, XtraFileInv, XtraSent
<1>2. ASSUME ~refused, length # <<>>, length[1] < 2^LenBits
      PROVE  Xtra!InPlace /\ Xtra!Complete
  <2>1. PICK n \in Nat : n = length[1] /\ XtraCounted(n) /\ XtraPlaced(n)
          /\ sent \in Seq(XtraSent)
    BY <1>1, <1>2
  <2>2. /\ Xtra!TotalParts(n) \in Nat \ {0} /\ Xtra!TotalParts(n) * PART_LEN >= n
        /\ Xtra!TotalParts(n) < Xtra!MaxParts
    BY <1>2, <2>1, XtraPartsCover
  <2>3. part \in 1..(Xtra!TotalParts(n) + 1) /\ Len(sent) = part - 1
    BY <2>1, <2>2 DEF XtraCounted
  <2>4. \A k \in 1..Len(sent) :
              /\ sent[k].partNum = k /\ sent[k].from = (k - 1) * PART_LEN
              /\ sent[k].len <= PART_LEN
              /\ sent[k].from + sent[k].len = XtraThrough(k, n)
    BY <1>2, <2>1 DEF XtraPlaced
  <2>5. DOMAIN sent = 1..Len(sent)
    BY <2>1
  <2>6. Xtra!InPlace
    BY <2>4, <2>5 DEF Xtra!InPlace
  <2>7. ASSUME part > Xtra!TotalParts(n)
        PROVE  sent[Len(sent)].from + sent[Len(sent)].len = n
    <3>1. Len(sent) = Xtra!TotalParts(n) /\ Len(sent) \in 1..Len(sent)
      BY <2>2, <2>3, <2>7
    <3>2. XtraThrough(Xtra!TotalParts(n), n) = n
      <4>1. Xtra!TotalParts(n) * PART_LEN \in Int
        BY <2>2, XtraAssumption
      <4> QED
        BY <2>2, <4>1 DEF XtraThrough, Xtra!Least
    <3> QED
      BY <2>4, <3>1, <3>2
  <2> QED
    BY <2>1, <2>6, <2>7 DEF Xtra!Complete
<1>3. ASSUME length # <<>>, Xtra!TotalParts(length[1]) < Xtra!MaxParts
      PROVE  Len(sent) <= Xtra!TotalParts(length[1])
  <2>1. PICK n \in Nat : n = length[1] /\ XtraCounted(n)
    BY <1>1, <1>3
  <2>2. Xtra!TotalParts(n) \in Nat
    BY XtraPartsCover
  <2> QED
    BY <1>3, <2>1, <2>2 DEF XtraCounted
<1> QED
  BY <1>2, <1>3 DEF XtraIInv, Xtra!FileArrives

-----------------------------------------------------------------------------
(* AidingDeletion: the request that a set of bits becomes.                  *)
Item(f, c) == {x \in {"EPHEMERIS", "ALMANAC"} :
                  (IF x = "EPHEMERIS" THEN Deletion!EphemerisOf[c]
                   ELSE Deletion!AlmanacOf[c]) \in f}

(* A list of n entries, one of each satellite of a constellation.           *)
Lists(list, f, c, n) ==
    /\ (\E S : list \in Seq(S)) /\ Len(list) = n
    /\ \A i \in 1..n : list[i].gnssSvId = i /\ list[i].system = c /\ list[i].mask = Item(f, c)

LEMMA SvInfoLists ==
    ASSUME NEW f, NEW c, NEW range \in Nat
    PROVE  Lists(Deletion!SvInfo(f, c, range), f, c, range)
<1> DEFINE S == {Deletion!SvInfo(f, c, range)[i] : i \in 1..range}
<1>1. /\ Deletion!SvInfo(f, c, range) \in Seq(S) /\ Len(Deletion!SvInfo(f, c, range)) = range
  BY DEF Deletion!SvInfo
<1>2. \A i \in 1..range : /\ Deletion!SvInfo(f, c, range)[i].gnssSvId = i
                          /\ Deletion!SvInfo(f, c, range)[i].system = c
                          /\ Deletion!SvInfo(f, c, range)[i].mask = Item(f, c)
  BY DEF Deletion!SvInfo, Item
<1> HIDE DEF S
<1> QED
  BY <1>1, <1>2 DEF Lists

(* A constellation of which nothing is asked for has an empty list.         *)
LEMMA NothingAsked ==
    ASSUME NEW f, NEW c \in {"GPS", "GLONASS", "BDS"}
    PROVE  /\ Deletion!PerSv(f, c) <=> Item(f, c) # {}
           /\ \A range : Deletion!Wanted(f, c, range) = (1..range) \X Item(f, c)
BY DEF Deletion!PerSv, Item, Deletion!Wanted

(* What the modem makes of a list of one constellation alone, or of two     *)
(* behind each other.                                                       *)
LEMMA DeletedAlone ==
    ASSUME NEW list, NEW f, NEW c, NEW n \in Nat, Lists(list, f, c, n), NEW range \in Nat,
           n = IF Item(f, c) # {} THEN range ELSE 0
    PROVE  Deletion!Deleted(list, c) = (1..range) \X Item(f, c)
<1>1. ASSUME NEW k \in 1..n
      PROVE  list[k].gnssSvId = k /\ list[k].system = c /\ list[k].mask = Item(f, c)
  BY DEF Lists
<1>2. DOMAIN list = 1..n
  BY DEF Lists
<1>3. {j \in DOMAIN list : list[j].system = c} = 1..n
  BY <1>1, <1>2
<1>4. Deletion!Deleted(list, c) = UNION {{<<k, item>> : item \in Item(f, c)} : k \in 1..n}
  BY <1>1, <1>3 DEF Deletion!Deleted
<1> HIDE DEF Item
<1>5. CASE Item(f, c) = {}
  BY <1>4, <1>5
<1>6. CASE Item(f, c) # {}
  BY <1>4, <1>6
<1> QED
  BY <1>5, <1>6

LEMMA DeletedTogether ==
    ASSUME NEW one, NEW two, NEW f, NEW n \in Nat, NEW m \in Nat,
           Lists(one, f, "GPS", n), Lists(two, f, "GLONASS", m)
    PROVE  /\ Deletion!Deleted(one \o two, "GPS") = Deletion!Deleted(one, "GPS")
           /\ Deletion!Deleted(one \o two, "GLONASS") = Deletion!Deleted(two, "GLONASS")
           /\ \A i, j \in DOMAIN (one \o two) :
                 (/\ (one \o two)[i].gnssSvId = (one \o two)[j].gnssSvId
                  /\ (one \o two)[i].system = (one \o two)[j].system) => i = j
<1> DEFINE both == one \o two
<1>1. PICK S : one \in Seq(S) /\ two \in Seq(S) /\ Len(one) = n /\ Len(two) = m
  <2>1. PICK A, B : one \in Seq(A) /\ two \in Seq(B)
    BY DEF Lists
  <2>2. one \in Seq(A \cup B) /\ two \in Seq(A \cup B)
    BY <2>1
  <2> QED
    BY <2>2 DEF Lists
<1>2. /\ DOMAIN both = 1..n + m
      /\ \A k \in 1..n : both[k] = one[k]
      /\ \A k \in 1..m : both[k + n] = two[k]
  BY <1>1
<1>3. /\ \A k \in 1..n : one[k].system = "GPS" /\ one[k].gnssSvId = k
      /\ \A k \in 1..m : two[k].system = "GLONASS" /\ two[k].gnssSvId = k
  BY DEF Lists
<1>4. DOMAIN one = 1..n /\ DOMAIN two = 1..m
  BY <1>1
<1>5. \A k \in (1..n + m) \ (1..n) : k - n \in 1..m /\ both[k] = two[k - n]
  <2> SUFFICES ASSUME NEW k \in (1..n + m) \ (1..n)
               PROVE  k - n \in 1..m /\ both[k] = two[k - n]
    OBVIOUS
  <2>1. k - n \in 1..m /\ (k - n) + n = k
    OBVIOUS
  <2> QED
    BY <1>2, <2>1
<1> HIDE DEF both
<1>6. Deletion!Deleted(both, "GPS") = Deletion!Deleted(one, "GPS")
  <2>1. {j \in DOMAIN both : both[j].system = "GPS"} = 1..n
    BY <1>2, <1>3, <1>5
  <2>2. {j \in DOMAIN one : one[j].system = "GPS"} = 1..n
    BY <1>3, <1>4
  <2> QED
    BY <1>2, <2>1, <2>2 DEF Deletion!Deleted
<1>7. Deletion!Deleted(both, "GLONASS") = Deletion!Deleted(two, "GLONASS")
  <2>1. {j \in DOMAIN both : both[j].system = "GLONASS"} = (1..n + m) \ (1..n)
    BY <1>2, <1>3, <1>5
  <2>2. {j \in DOMAIN two : two[j].system = "GLONASS"} = 1..m
    BY <1>3, <1>4
  <2>3. {{<<both[k].gnssSvId, item>> : item \in both[k].mask} : k \in (1..n + m) \ (1..n)}
           = {{<<two[k].gnssSvId, item>> : item \in two[k].mask} : k \in 1..m}
    <3>1. ASSUME NEW k \in 1..m PROVE k + n \in (1..n + m) \ (1..n) /\ both[k + n] = two[k]
      BY <1>2
    <3> QED
      BY <1>5, <3>1
  <2> QED
    BY <2>1, <2>2, <2>3 DEF Deletion!Deleted
<1>8. ASSUME NEW i \in 1..n + m, NEW j \in 1..n + m,
             both[i].gnssSvId = both[j].gnssSvId, both[i].system = both[j].system
      PROVE  i = j
  <2>1. i \in 1..n <=> j \in 1..n
    <3>1. ASSUME NEW k \in (1..n + m) \ (1..n) PROVE both[k].system = "GLONASS"
      <4>1. PICK l \in 1..m : l = k - n /\ both[k] = two[l]
        BY <1>5
      <4> QED
        BY <1>3, <4>1
    <3>2. ASSUME NEW k \in 1..n PROVE both[k].system = "GPS"
      BY <1>2, <1>3
    <3> QED
      BY <1>8, <3>1, <3>2
  <2>2. CASE i \in 1..n
    BY <1>2, <1>3, <1>8, <2>1, <2>2
  <2>3. CASE i \notin 1..n
    <3>1. ASSUME NEW k \in (1..n + m) \ (1..n) PROVE both[k].gnssSvId = k - n
      <4>1. PICK l \in 1..m : l = k - n /\ both[k] = two[l]
        BY <1>5
      <4> QED
        BY <1>3, <4>1
    <3>2. i - n = j - n
      BY <1>8, <2>1, <2>3, <3>1
    <3> QED
      BY <3>2
  <2> QED
    BY <2>2, <2>3
<1> QED
  BY <1>2, <1>6, <1>7, <1>8 DEF both

(* The bits are finitely many.                                              *)
LEMMA FourFinite == ASSUME NEW a, NEW b, NEW c, NEW d PROVE IsFiniteSet({a, b, c, d})
<1>1. IsFiniteSet({a}) /\ IsFiniteSet({b}) /\ IsFiniteSet({c}) /\ IsFiniteSet({d})
  BY FS_Singleton
<1>2. IsFiniteSet({a} \cup {b}) /\ IsFiniteSet({c} \cup {d})
  BY <1>1, FS_Union
<1>3. IsFiniteSet(({a} \cup {b}) \cup ({c} \cup {d}))
  BY <1>2, FS_Union
<1>4. {a, b, c, d} = ({a} \cup {b}) \cup ({c} \cup {d})
  OBVIOUS
<1> QED
  BY <1>3, <1>4

LEMMA BitsFinite == IsFiniteSet(Deletion!Bits)
<1> DEFINE A == {"EPHEMERIS", "ALMANAC", "POSITION", "TIME"}
           B == {"IONO", "UTC", "HEALTH", "SVDIR"}
           C == {"SVSTEER", "SADATA", "RTI", "CELLDB_INFO"}
           D == {"TIME_GPS", "ALMANAC_CORR", "FREQ_BIAS_EST", "GLO_EPHEMERIS"}
           E == {"GLO_ALMANAC", "GLO_SVDIR", "GLO_SVSTEER", "GLO_ALMANAC_CORR"}
           F == {"GLO_TIME", "BDS_EPHEMERIS", "BDS_ALMANAC", "BDS_SVDIR"}
           G == {"BDS_SVSTEER", "BDS_ALMANAC_CORR", "BDS_TIME", "BDS_TIME"}
<1>1. /\ IsFiniteSet(A) /\ IsFiniteSet(B) /\ IsFiniteSet(C) /\ IsFiniteSet(D)
      /\ IsFiniteSet(E) /\ IsFiniteSet(F) /\ IsFiniteSet(G)
  BY FourFinite
<1>2. Deletion!Bits = (((A \cup B) \cup C) \cup D) \cup ((E \cup F) \cup G)
  BY DEF Deletion!Bits
<1> HIDE DEF A, B, C, D, E, F, G
<1>3. IsFiniteSet(A \cup B) /\ IsFiniteSet(E \cup F)
  BY <1>1, FS_Union
<1>4. IsFiniteSet((A \cup B) \cup C) /\ IsFiniteSet((E \cup F) \cup G)
  BY <1>1, <1>3, FS_Union
<1>5. IsFiniteSet(((A \cup B) \cup C) \cup D)
  BY <1>1, <1>4, FS_Union
<1>6. IsFiniteSet((((A \cup B) \cup C) \cup D) \cup ((E \cup F) \cup G))
  BY <1>4, <1>5, FS_Union
<1> QED
  BY <1>2, <1>6

(* Each bit of deleteGnssDataMask has a name of its own.                    *)
LEMMA NamedApart ==
    ASSUME NEW f \in SUBSET Deletion!Bits
    PROVE  Deletion!Cardinality(Deletion!GnssData(f))
              = Deletion!Cardinality(f \cap Deletion!GnssDataBits)
<1> DEFINE F == f \cap Deletion!GnssDataBits
           Name(b) == IF b \in DOMAIN Deletion!GnssDataName THEN Deletion!GnssDataName[b] ELSE b
           G == {Name(b) : b \in F}
           name == [b \in F |-> Name(b)]
<1>1. ASSUME NEW A PROVE Deletion!Cardinality(A) = Cardinality(A)
  BY Zenon DEF Deletion!Cardinality, Cardinality, Deletion!IsFiniteSet, IsFiniteSet
<1>2. \A b \in {"SVDIR", "TIME_GPS", "ALMANAC_CORR"} :
         Name(b) \notin Deletion!Bits
           /\ \A a \in {"SVDIR", "TIME_GPS", "ALMANAC_CORR"} : Name(a) = Name(b) => a = b
  BY DEF Deletion!GnssDataName, Deletion!Bits
<1>3. \A b \in F \ {"SVDIR", "TIME_GPS", "ALMANAC_CORR"} : Name(b) = b
  BY DEF Deletion!GnssDataName
<1>4. \A a, b \in F : Name(a) = Name(b) => a = b
  <2>1. F \subseteq Deletion!Bits
    OBVIOUS
  <2> HIDE DEF F, Name
  <2> QED
    BY <1>2, <1>3, <2>1
<1>5. name \in Bijection(F, G)
  <2> HIDE DEF F, Name
  <2> QED
    BY <1>4 DEF Bijection, Injection, Surjection, IsInjective
<1>6. IsFiniteSet(F)
  BY BitsFinite, FS_Subset
<1>7. Cardinality(G) = Cardinality(F)
  <2> HIDE DEF F, G, name
  <2>1. ExistsBijection(F, G)
    BY <1>5 DEF ExistsBijection
  <2> QED
    BY <1>6, <2>1, FS_Bijection
<1> QED
  BY <1>1, <1>7 DEF Deletion!GnssData

(* The request for a set of bits deletes what they stand for.               *)
Deletes(f, req) ==
    /\ ~req.all
    /\ \A c \in {"GPS", "GLONASS"} :
          Deletion!Deleted(req.svs, c) = Deletion!Wanted(f, c, SV_ID_RANGE)
    /\ \A i, j \in DOMAIN req.svs :
          (/\ req.svs[i].gnssSvId = req.svs[j].gnssSvId
           /\ req.svs[i].system = req.svs[j].system) => i = j
    /\ Deletion!Deleted(req.bds, "BDS") = Deletion!Wanted(f, "BDS", BDS_SV_ID_RANGE)
    /\ Deletion!Cardinality(req.gnss) = Deletion!Cardinality(f \cap Deletion!GnssDataBits)
    /\ req.cellDb <=> "CELLDB_INFO" \in f

LEMMA RequestDeletes ==
    ASSUME NEW f \in SUBSET Deletion!Bits, f # Deletion!Bits
    PROVE  Deletes(f, Deletion!DeleteRequest(f))
<1> DEFINE bds == IF Deletion!PerSv(f, "BDS")
                  THEN Deletion!SvInfo(f, "BDS", BDS_SV_ID_RANGE) ELSE <<>>
           size(c, range) == IF Item(f, c) # {} THEN range ELSE 0
<1>1. /\ SV_ID_RANGE \in Nat /\ BDS_SV_ID_RANGE \in Nat
  BY DeletionAssumption
<1>2. ASSUME NEW c PROVE Lists(<<>>, f, c, 0)
  BY DEF Lists
<1>3. ASSUME NEW c \in {"GPS", "GLONASS"}
      PROVE  Lists(Deletion!SvInfoList(f, c), f, c, size(c, SV_ID_RANGE))
  BY <1>1, <1>2, SvInfoLists, NothingAsked DEF Deletion!SvInfoList
<1>4. Lists(bds, f, "BDS", size("BDS", BDS_SV_ID_RANGE))
  BY <1>1, <1>2, SvInfoLists, NothingAsked
<1>5. PICK req : /\ req = Deletion!DeleteRequest(f)
                 /\ req.all = FALSE /\ req.svs = Deletion!DeleteSvInfoList(f) /\ req.bds = bds
                 /\ req.gnss = Deletion!GnssData(f) /\ (req.cellDb <=> "CELLDB_INFO" \in f)
  <2>1. Deletion!DeleteRequest(f) =
           [all |-> FALSE, svs |-> Deletion!DeleteSvInfoList(f), bds |-> bds,
            gnss |-> Deletion!GnssData(f), cellDb |-> "CELLDB_INFO" \in f]
    BY DEF Deletion!DeleteRequest
  <2> HIDE DEF bds
  <2>2. /\ Deletion!DeleteRequest(f).all = FALSE
        /\ Deletion!DeleteRequest(f).svs = Deletion!DeleteSvInfoList(f)
        /\ Deletion!DeleteRequest(f).bds = bds
        /\ Deletion!DeleteRequest(f).gnss = Deletion!GnssData(f)
    BY <2>1
  <2>3. Deletion!DeleteRequest(f).cellDb <=> "CELLDB_INFO" \in f
    <3>1. ASSUME "CELLDB_INFO" \in f PROVE Deletion!DeleteRequest(f).cellDb = TRUE
      <4>1. ("CELLDB_INFO" \in f) = TRUE
        BY <3>1
      <4>2. Deletion!DeleteRequest(f) =
               [all |-> FALSE, svs |-> Deletion!DeleteSvInfoList(f), bds |-> bds,
                gnss |-> Deletion!GnssData(f), cellDb |-> TRUE]
        BY <2>1, <4>1, Zenon
      <4> QED
        BY <4>2
    <3>2. ASSUME "CELLDB_INFO" \notin f PROVE Deletion!DeleteRequest(f).cellDb = FALSE
      <4>1. ("CELLDB_INFO" \in f) = FALSE
        BY <3>2
      <4>2. Deletion!DeleteRequest(f) =
               [all |-> FALSE, svs |-> Deletion!DeleteSvInfoList(f), bds |-> bds,
                gnss |-> Deletion!GnssData(f), cellDb |-> FALSE]
        BY <2>1, <4>1, Zenon
      <4> QED
        BY <4>2
    <3> QED
      BY <3>1, <3>2
  <2> QED
    BY <2>2, <2>3, Zenon
<1> DEFINE n == size("GPS", SV_ID_RANGE)
           m == size("GLONASS", SV_ID_RANGE)
           b == size("BDS", BDS_SV_ID_RANGE)
           one == Deletion!SvInfoList(f, "GPS")
           two == Deletion!SvInfoList(f, "GLONASS")
<1>6. n \in Nat /\ m \in Nat /\ b \in Nat
  BY <1>1
<1>7. req.svs = one \o two
  BY <1>5 DEF Deletion!DeleteSvInfoList
<1>8. Lists(one, f, "GPS", n) /\ Lists(two, f, "GLONASS", m) /\ Lists(bds, f, "BDS", b)
  BY <1>3, <1>4
<1>9. /\ Deletion!Deleted(one, "GPS") = Deletion!Wanted(f, "GPS", SV_ID_RANGE)
      /\ Deletion!Deleted(two, "GLONASS") = Deletion!Wanted(f, "GLONASS", SV_ID_RANGE)
      /\ Deletion!Deleted(bds, "BDS") = Deletion!Wanted(f, "BDS", BDS_SV_ID_RANGE)
  <2> HIDE DEF one, two, bds, n, m, b
  <2>1. /\ n = IF Item(f, "GPS") # {} THEN SV_ID_RANGE ELSE 0
        /\ m = IF Item(f, "GLONASS") # {} THEN SV_ID_RANGE ELSE 0
        /\ b = IF Item(f, "BDS") # {} THEN BDS_SV_ID_RANGE ELSE 0
    BY DEF n, m, b
  <2>2. /\ Deletion!Deleted(one, "GPS") = (1..SV_ID_RANGE) \X Item(f, "GPS")
        /\ Deletion!Deleted(two, "GLONASS") = (1..SV_ID_RANGE) \X Item(f, "GLONASS")
        /\ Deletion!Deleted(bds, "BDS") = (1..BDS_SV_ID_RANGE) \X Item(f, "BDS")
    BY <1>1, <1>6, <1>8, <2>1, DeletedAlone
  <2> QED
    BY <2>2, NothingAsked
<1>10. /\ Deletion!Deleted(req.svs, "GPS") = Deletion!Deleted(one, "GPS")
       /\ Deletion!Deleted(req.svs, "GLONASS") = Deletion!Deleted(two, "GLONASS")
       /\ \A i, j \in DOMAIN req.svs :
             (/\ req.svs[i].gnssSvId = req.svs[j].gnssSvId
              /\ req.svs[i].system = req.svs[j].system) => i = j
  <2> HIDE DEF one, two, n, m
  <2> QED
    BY <1>6, <1>7, <1>8, DeletedTogether
<1>11. Deletion!Cardinality(req.gnss) = Deletion!Cardinality(f \cap Deletion!GnssDataBits)
  BY <1>5, NamedApart
<1>12. /\ ~req.all /\ (req.cellDb <=> "CELLDB_INFO" \in f)
       /\ Deletion!Deleted(req.bds, "BDS") = Deletion!Wanted(f, "BDS", BDS_SV_ID_RANGE)
  BY <1>5, <1>9, Zenon
<1>13. \A c \in {"GPS", "GLONASS"} :
           Deletion!Deleted(req.svs, c) = Deletion!Wanted(f, c, SV_ID_RANGE)
  BY <1>9, <1>10
<1> HIDE DEF one, two, bds
<1> QED
  BY <1>5, <1>10, <1>11, <1>12, <1>13, Zenon DEF Deletes

DeletionIInv ==
    \/ bits = <<>> /\ delete_req = <<>>
    \/ \E f \in Masks : bits = <<f>> /\ delete_req = <<Deletion!DeleteRequest(f)>>

LEMMA DeletionStart == Deletion!Init => DeletionIInv
  BY DEF Deletion!Init, DeletionIInv

LEMMA DeletionNext == DeletionIInv /\ [Deletion!Next]_(Deletion!vars) => DeletionIInv'
  BY DEF DeletionIInv, Deletion!Next, Deletion!DeleteAidingData, Deletion!vars

LEMMA DeletionServes == DeletionIInv => Deletion!DeletesAsAsked
<1> SUFFICES ASSUME DeletionIInv PROVE Deletion!DeletesAsAsked
  OBVIOUS
<1>1. CASE bits = <<>>
  BY <1>1 DEF Deletion!DeletesAsAsked
<1>2. ASSUME NEW f \in Masks, bits = <<f>>, delete_req = <<Deletion!DeleteRequest(f)>>
      PROVE  Deletion!DeletesAsAsked
  <2>1. DOMAIN bits = {1} /\ bits[1] = f /\ delete_req[1] = Deletion!DeleteRequest(f)
    BY <1>2
  <2>2. CASE f = Deletion!Bits
    <3>1. Deletion!DeleteRequest(f).all
      BY <2>2 DEF Deletion!DeleteRequest
    <3> QED
      BY <2>1, <2>2, <3>1 DEF Deletion!DeletesAsAsked
  <2>3. CASE f # Deletion!Bits
    <3>1. f \in SUBSET Deletion!Bits
      BY DeletionAssumption
    <3>2. Deletes(f, Deletion!DeleteRequest(f))
      BY <2>3, <3>1, RequestDeletes
    <3>3. \A k \in DOMAIN bits : bits[k] = f /\ delete_req[k] = Deletion!DeleteRequest(f)
      BY <2>1
    <3> QED
      BY <3>2, <3>3, Zenon DEF Deletes, Deletion!DeletesAsAsked
  <2> QED
    BY <2>2, <2>3
<1> QED
  BY <1>1, <1>2 DEF DeletionIInv

-----------------------------------------------------------------------------
(* NiMessages: what is told of each request that is held, and what an       *)
(* answer repeats of it.                                                    *)
NiRequests == [parts : SUBSET Ni!Parts, type : Ni!NotificationTypes]

Notified == {Ni!Notification(ni) : ni \in NiRequests}

NiIInv ==
    /\ held \in Seq(NiRequests) /\ notifs \in Seq(Notified) /\ Len(notifs) = Len(held)
    /\ \A k \in 1..Len(held) : notifs[k] = Ni!Notification(held[k])
    /\ answered # <<>> => \E ni \in NiRequests, response \in {"ACCEPT", "DENY", "NORESP"} :
          answered = <<[ni |-> ni, notif |-> Ni!Notification(ni),
                        resp |-> Ni!UserResponse(ni, response)]>>

LEMMA NiStart == Ni!Init => NiIInv
  BY DEF Ni!Init, NiIInv

LEMMA NiNext == NiIInv /\ [Ni!Next]_(Ni!vars) => NiIInv'
<1> SUFFICES ASSUME NiIInv, [Ni!Next]_(Ni!vars) PROVE NiIInv'
  OBVIOUS
<1>1. /\ held \in Seq(NiRequests) /\ notifs \in Seq(Notified) /\ Len(notifs) = Len(held)
      /\ \A k \in 1..Len(held) : notifs[k] = Ni!Notification(held[k])
  BY DEF NiIInv
<1>3. ASSUME NEW parts \in SUBSET Ni!Parts, NEW type \in Ni!NotificationTypes,
             Ni!ReportNiRequest([parts |-> parts, type |-> type])
      PROVE  NiIInv'
  <2>1. PICK ni \in NiRequests : ni = [parts |-> parts, type |-> type]
    BY DEF NiRequests
  <2>2. answered' = <<>>
    BY <1>3 DEF Ni!ReportNiRequest
  <2>3. CASE held' = held /\ notifs' = notifs
    BY <1>1, <2>2, <2>3 DEF NiIInv
  <2>4. CASE held' = Append(held, ni) /\ notifs' = Append(notifs, Ni!Notification(ni))
    <3>1. PICK told \in Notified : told = Ni!Notification(ni)
      BY DEF Notified
    <3>2. /\ held' \in Seq(NiRequests) /\ notifs' \in Seq(Notified)
          /\ Len(notifs') = Len(held')
          /\ \A k \in 1..Len(held') : notifs'[k] = Ni!Notification(held'[k])
      BY <1>1, <2>4, <3>1
    <3> QED
      BY <2>2, <3>2 DEF NiIInv
  <2> QED
    BY <1>3, <2>1, <2>3, <2>4 DEF Ni!ReportNiRequest
<1>4. ASSUME NEW response \in {"ACCEPT", "DENY", "NORESP", "other"},
             Ni!InformNiResponse(response)
      PROVE  NiIInv'
  <2>1. held # <<>> /\ held' = Tail(held) /\ notifs' = Tail(notifs)
    BY <1>4 DEF Ni!InformNiResponse
  <2>2. Head(held) \in NiRequests /\ Head(notifs) = Ni!Notification(Head(held))
    BY <1>1, <2>1
  <2>3. answered' # <<>> => \E ni \in NiRequests, r \in {"ACCEPT", "DENY", "NORESP"} :
            answered' = <<[ni |-> ni, notif |-> Ni!Notification(ni),
                           resp |-> Ni!UserResponse(ni, r)]>>
    BY <1>4, <2>2 DEF Ni!InformNiResponse
  <2>4. /\ held' \in Seq(NiRequests) /\ notifs' \in Seq(Notified)
        /\ Len(notifs') = Len(held')
        /\ \A k \in 1..Len(held') : notifs'[k] = Ni!Notification(held'[k])
    BY <1>1, <2>1
  <2> QED
    BY <2>3, <2>4 DEF NiIInv
<1>5. ASSUME UNCHANGED Ni!vars PROVE NiIInv'
  BY <1>5 DEF NiIInv, Ni!vars
<1> QED
  BY <1>3, <1>4, <1>5 DEF Ni!Next

LEMMA NiServes == NiIInv => Ni!AnswersTheRequest
<1> SUFFICES ASSUME NiIInv, NEW k \in DOMAIN answered
             PROVE  LET a == answered[k]
                    IN  /\ a.resp.parts = a.ni.parts /\ a.resp.type = a.ni.type
                        /\ a.notif.default # "NORESP" <=> "VERIFY" \in a.notif.flags
                        /\ a.notif.niType = "EMERGENCY_SUPL"
                              => "EmergencyNotification" \in a.resp.parts
  BY DEF Ni!AnswersTheRequest
<1>1. answered # <<>>
  OBVIOUS
<1>2. PICK ni \in NiRequests, response \in {"ACCEPT", "DENY", "NORESP"} :
          answered = <<[ni |-> ni, notif |-> Ni!Notification(ni),
                        resp |-> Ni!UserResponse(ni, response)]>>
  BY <1>1 DEF NiIInv
<1>3. answered[k] = [ni |-> ni, notif |-> Ni!Notification(ni),
                     resp |-> Ni!UserResponse(ni, response)]
  BY <1>2
<1>4. /\ Ni!UserResponse(ni, response).parts = ni.parts
      /\ Ni!UserResponse(ni, response).type = ni.type
  BY DEF Ni!UserResponse, Ni!Copied
<1>5. /\ Ni!Notification(ni).flags = Ni!NotifyFlags(ni.type)
      /\ Ni!Notification(ni).default = Ni!DefaultResponse(ni.type)
      /\ Ni!Notification(ni).niType = Ni!NiType(ni.parts)
  BY DEF Ni!Notification
<1>6. Ni!DefaultResponse(ni.type) # "NORESP" <=> "VERIFY" \in Ni!NotifyFlags(ni.type)
  BY DEF NiRequests, Ni!NotificationTypes, Ni!DefaultResponse, Ni!NotifyFlags
<1>7. Ni!NiType(ni.parts) = "EMERGENCY_SUPL" => "EmergencyNotification" \in ni.parts
  BY DEF Ni!NiType
<1> QED
  BY <1>3, <1>4, <1>5, <1>6, <1>7

-----------------------------------------------------------------------------
(* All of them: a step is one's, and the others stay as they are.           *)
Kept ==
    /\ subject = "xtra" => XtraIInv
    /\ subject = "deletion" => DeletionIInv
    /\ subject = "ni" => NiIInv

LEMMA KeptAlways == RequestsSpec => []Kept
<1>1. RequestsInit => Kept
  BY XtraStart, DeletionStart, NiStart DEF RequestsInit, Kept
<1>2. Kept /\ [RequestsNext]_<<subject, vars, xtraVars, deletionVars, niVars>> => Kept'
  <2> SUFFICES ASSUME Kept,
                      [RequestsNext]_<<subject, vars, xtraVars, deletionVars, niVars>>
               PROVE  Kept'
    OBVIOUS
  <2>1. subject' = subject
    BY DEF RequestsNext
  <2>2. CASE subject = "xtra"
    <3>1. [Xtra!Next]_(Xtra!vars)
      BY <2>2 DEF RequestsNext, xtraVars, Xtra!vars, Xtra!loop
    <3> QED
      BY <2>1, <2>2, <3>1, XtraNext DEF Kept
  <2>3. CASE subject = "deletion"
    <3>1. [Deletion!Next]_(Deletion!vars)
      BY <2>3 DEF RequestsNext, deletionVars, Deletion!vars
    <3> QED
      BY <2>1, <2>3, <3>1, DeletionNext DEF Kept
  <2>4. CASE subject = "ni"
    <3>1. [Ni!Next]_(Ni!vars)
      BY <2>4 DEF RequestsNext, niVars, Ni!vars
    <3> QED
      BY <2>1, <2>4, <3>1, NiNext DEF Kept
  <2>5. CASE subject \notin {"xtra", "deletion", "ni"}
    BY <2>1, <2>5 DEF Kept
  <2> QED
    BY <2>2, <2>3, <2>4, <2>5
<1> QED
  BY <1>1, <1>2, PTL DEF RequestsSpec

(* The composition runs the calls: its steps are steps of SyncReq or leave  *)
(* it as it is, with the same fairness, so what is proved of Spec holds in  *)
(* it.                                                                      *)
THEOREM RequestsRunCalls == RequestsSpec => Spec
<1>1. RequestsInit => Init
  BY DEF RequestsInit
<1>2. [RequestsNext]_<<subject, vars, xtraVars, deletionVars, niVars>> => [Next]_vars
  BY Zenon DEF RequestsNext
<1> QED
  BY <1>1, <1>2, PTL DEF RequestsSpec, Spec

(* What is sent means what was meant.  A file none of whose parts is        *)
(* refused and that len_injected can count arrives in order and in full,    *)
(* one part for each of its numbers; and the loop ends after its last part, *)
(* refused parts or not.  A deletion names exactly the satellites and the   *)
(* kinds of data that were asked for, each once.  An answer to an NI        *)
(* request repeats the request that the user was asked about.               *)
THEOREM SentAsItWasMeant == RequestsSpec => []SentAsMeant
<1>1. Kept => SentAsMeant
  BY XtraServes, DeletionServes, NiServes DEF Kept, SentAsMeant
<1> QED
  BY <1>1, KeptAlways, PTL
=============================================================================
