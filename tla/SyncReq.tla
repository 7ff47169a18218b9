------------------------------ MODULE SyncReq ------------------------------
(***************************************************************************)
(* Synchronous requests to the modem: loc_api_sync_req.c.                  *)
(*                                                                         *)
(* A calling thread takes a slot, selects the indication it will wait for, *)
(* sends its request and waits, for a limited time; the QMI callback       *)
(* thread looks for a slot waiting for each indication, copies the answer  *)
(* into the caller's buffer and wakes the caller.                          *)
(*                                                                         *)
(* loc_sync_process_ind holds loc_sync_call_mutex throughout and locks one *)
(* slot after the other.  A caller may select or start to wait in a slot   *)
(* while others are looked at; that commutes with the rest of the search,  *)
(* so the search is one step.                                              *)
(***************************************************************************)
EXTENDS Naturals, Sequences, FiniteSets

CONSTANTS
    Callers,       \* threads that call loc_sync_send_req
    Inds,          \* indication IDs they wait for
    BUFFER_SIZE,   \* LOC_SYNC_REQ_BUFFER_SIZE, 8 in the code
    MaxRequests    \* bound: calls

ASSUME SizeAssumption == BUFFER_SIZE \in Nat \ {0}
ASSUME BoundAssumption == MaxRequests \in Nat

Slots == 1..BUFFER_SIZE

NoInd == "none"
ASSUME NoIndAssumption == NoInd \notin Inds

VARIABLES
    in_use,         \* at least one sync call is active
    slot_in_use,
    recv_ind_id,    \* what each slot waits for; NoInd while none is selected
    waiting,        \* ind_is_waiting
    arrived,        \* ind_has_arrived
    answers,        \* answers of the modem on their way, oldest first
    pc,             \* where each caller is
    select_id,      \* the slot it has, 0 if none
    request,        \* the number of its request
    ind,            \* the indication it asks for
    buffer,         \* the request whose answer its buffer holds, 0 if none
    status,         \* what its last call returned, or is about to
    calls,          \* calls so far
    calm            \* an environment in which nothing is late, lost or shared

slots == <<in_use, slot_in_use, recv_ind_id, waiting, arrived>>
call  == <<select_id, request, ind, buffer, status>>
environment == <<calls, calm>>
vars  == <<slots, answers, pc, call, environment>>

Requests == 1..MaxRequests

Steps    == {"idle", "select", "send", "wait", "asleep", "woken", "expired",
             "free", "return"}
Statuses == {"none", "SUCCESS", "FAILURE", "TIMEOUT"}

TypeOK ==
    /\ in_use \in BOOLEAN
    /\ slot_in_use \in [Slots -> BOOLEAN]
    /\ recv_ind_id \in [Slots -> Inds \cup {NoInd}]
    /\ waiting \in [Slots -> BOOLEAN]
    /\ arrived \in [Slots -> BOOLEAN]
    /\ \A i \in Slots :
          ~slot_in_use[i] => recv_ind_id[i] = NoInd /\ ~waiting[i] /\ ~arrived[i]
    /\ answers \in Seq([id : Inds, to : Requests])
    /\ pc \in [Callers -> Steps]
    /\ select_id \in [Callers -> 0..BUFFER_SIZE]
    /\ request \in [Callers -> 0..MaxRequests]
    /\ ind \in [Callers -> Inds \cup {NoInd}]
    /\ buffer \in [Callers -> 0..MaxRequests]
    /\ status \in [Callers -> Statuses]
    /\ calls \in 0..MaxRequests
    /\ calm \in BOOLEAN

(* loc_sync_req_init. *)
Init ==
    /\ in_use = FALSE
    /\ slot_in_use = [i \in Slots |-> FALSE]
    /\ recv_ind_id = [i \in Slots |-> NoInd]
    /\ waiting = [i \in Slots |-> FALSE]
    /\ arrived = [i \in Slots |-> FALSE]
    /\ answers = <<>>
    /\ pc = [c \in Callers |-> "idle"]
    /\ select_id = [c \in Callers |-> 0]
    /\ request = [c \in Callers |-> 0]
    /\ ind = [c \in Callers |-> NoInd]
    /\ buffer = [c \in Callers |-> 0]
    /\ status = [c \in Callers |-> "none"]
    /\ calls = 0
    /\ calm \in BOOLEAN

-----------------------------------------------------------------------------
(* In a calm environment two callers never wait for the same indication, a *)
(* wait neither expires nor ends for no reason, and no answer is lost.     *)
GoTo(c, step) == pc' = [pc EXCEPT ![c] = step]

FreeSlots == {i \in Slots : ~slot_in_use[i]}

FirstFreeUnchecked == 1

(* loc_alloc_slot: the free slot with the least index. *)
FirstFree == CHOOSE i \in FreeSlots : \A j \in FreeSlots : i <= j

(* loc_sync_send_req up to loc_alloc_slot.  When every slot is in use, the *)
(* call is about to return the status it was initialised with.             *)
Call(c, id) ==
    /\ pc[c] = "idle"
    /\ calls < MaxRequests
    /\ calm => \A d \in Callers : pc[d] # "idle" => ind[d] # id
    /\ calls' = calls + 1
    /\ request' = [request EXCEPT ![c] = calls + 1]
    /\ ind' = [ind EXCEPT ![c] = id]
    /\ \/ /\ FreeSlots # {}
          /\ select_id' = [select_id EXCEPT ![c] = FirstFree]
          /\ slot_in_use' = [slot_in_use EXCEPT ![FirstFree] = TRUE]
          /\ in_use' = TRUE
          /\ GoTo(c, "select")
          /\ UNCHANGED status
       \/ /\ FreeSlots = {}
          /\ status' = [status EXCEPT ![c] = "SUCCESS"]
          /\ GoTo(c, "return")
          /\ UNCHANGED <<select_id, slot_in_use, in_use>>
    /\ UNCHANGED <<recv_ind_id, waiting, arrived, answers, buffer, calm>>

(* loc_sync_select_ind, once it has a slot. *)
Select(c) ==
    /\ pc[c] = "select"
    /\ LET i == select_id[c] IN
         /\ recv_ind_id' = [recv_ind_id EXCEPT ![i] = ind[c]]
         /\ waiting' = [waiting EXCEPT ![i] = FALSE]
         /\ arrived' = [arrived EXCEPT ![i] = FALSE]
    /\ GoTo(c, "send")
    /\ UNCHANGED <<in_use, slot_in_use, answers, call, environment>>

(* locClientSendReq. *)
Send(c) ==
    /\ pc[c] = "send"
    /\ \/ /\ answers' = Append(answers, [id |-> ind[c], to |-> request[c]])
          /\ GoTo(c, "wait")
          /\ UNCHANGED status
       \/ /\ status' = [status EXCEPT ![c] = "FAILURE"]
          /\ GoTo(c, "free")
          /\ UNCHANGED answers
    /\ UNCHANGED <<slots, select_id, request, ind, buffer, environment>>

WaitForgetful(c) ==
    /\ pc[c] = "wait"
    /\ waiting' = [waiting EXCEPT ![select_id[c]] = TRUE]
    /\ GoTo(c, "asleep")
    /\ UNCHANGED <<in_use, slot_in_use, recv_ind_id, arrived, answers,
                   select_id, request, ind, buffer, status, environment>>

(* loc_sync_wait_for_ind up to pthread_cond_timedwait.  Its -EBUSY branch  *)
(* has no step: nobody else waits in the slot (SlotsOwned).                *)
Wait(c) ==
    /\ pc[c] = "wait"
    /\ LET i == select_id[c] IN
         \/ /\ arrived[i]
            /\ status' = [status EXCEPT ![c] = "SUCCESS"]
            /\ GoTo(c, "free")
            /\ UNCHANGED waiting
         \/ /\ ~arrived[i]
            /\ waiting' = [waiting EXCEPT ![i] = TRUE]
            /\ GoTo(c, "asleep")
            /\ UNCHANGED status
    /\ UNCHANGED <<in_use, slot_in_use, recv_ind_id, arrived, answers,
                   select_id, request, ind, buffer, environment>>

(* The wait expires, or ends for no reason; the caller then takes the lock *)
(* of its slot again.                                                      *)
Expire(c) ==
    /\ ~calm
    /\ pc[c] = "asleep"
    /\ GoTo(c, "expired")
    /\ UNCHANGED <<slots, answers, call, environment>>

SpuriousWake(c) ==
    /\ ~calm
    /\ pc[c] = "asleep"
    /\ GoTo(c, "woken")
    /\ UNCHANGED <<slots, answers, call, environment>>

(* The rest of loc_sync_wait_for_ind: any end of the wait but a time-out   *)
(* is success.                                                             *)
WaitOver(c) ==
    /\ pc[c] \in {"woken", "expired"}
    /\ waiting' = [waiting EXCEPT ![select_id[c]] = FALSE]
    /\ status' = [status EXCEPT ![c] = IF pc[c] = "woken" THEN "SUCCESS"
                                                          ELSE "TIMEOUT"]
    /\ GoTo(c, "free")
    /\ UNCHANGED <<in_use, slot_in_use, recv_ind_id, arrived, answers,
                   select_id, request, ind, buffer, environment>>

(* What is local to a call is gone when it returns. *)
Leave(c) ==
    /\ select_id' = [select_id EXCEPT ![c] = 0]
    /\ request' = [request EXCEPT ![c] = 0]
    /\ ind' = [ind EXCEPT ![c] = NoInd]
    /\ buffer' = [buffer EXCEPT ![c] = 0]
    /\ status' = [status EXCEPT ![c] = "none"]
    /\ GoTo(c, "idle")

(* loc_free_slot, and the call returns. *)
Free(c) ==
    /\ pc[c] = "free"
    /\ LET i == select_id[c] IN
         /\ slot_in_use' = [slot_in_use EXCEPT ![i] = FALSE]
         /\ recv_ind_id' = [recv_ind_id EXCEPT ![i] = NoInd]
         /\ waiting' = [waiting EXCEPT ![i] = FALSE]
         /\ arrived' = [arrived EXCEPT ![i] = FALSE]
         /\ in_use' = (\E j \in Slots \ {i} : slot_in_use[j])
    /\ Leave(c)
    /\ UNCHANGED <<answers, environment>>

(* Without a slot there is nothing to free. *)
Return(c) ==
    /\ pc[c] = "return"
    /\ Leave(c)
    /\ UNCHANGED <<slots, answers, environment>>

-----------------------------------------------------------------------------
MatchesAnyInd(id) ==
    {i \in Slots : slot_in_use[i] /\ recv_ind_id[i] # NoInd /\ ~arrived[i]}

(* The slots an indication may go to. *)
Matches(id) ==
    {i \in Slots : slot_in_use[i] /\ recv_ind_id[i] = id /\ ~arrived[i]}

(* The caller that has slot i. *)
Owner(i) == CHOOSE c \in Callers : select_id[c] = i

(* Who a signal on the condition variable of slot i wakes. *)
Wakes(i) == {c \in Callers : select_id[c] = i /\ pc[c] = "asleep"}

(* loc_sync_process_ind: the first slot that matches gets the answer in    *)
(* the buffer of its caller, and the caller is woken or, when it has not   *)
(* begun to wait, will find that it arrived.  No slot, and it is dropped.  *)
(* The copy is always made: the client only passes on indications whose    *)
(* size it has looked up in the same table, in a buffer it allocated, and  *)
(* every caller in LocApiV02 gives the address of a buffer of its own.     *)
ProcessInd ==
    /\ answers # <<>>
    /\ answers' = Tail(answers)
    /\ LET id == Head(answers).id IN
         \/ /\ ~in_use \/ Matches(id) = {}
            /\ UNCHANGED <<arrived, buffer, pc>>
         \/ /\ in_use
            /\ \E i \in Matches(id) :
                 /\ \A j \in Matches(id) : i <= j
                 /\ buffer' = [buffer EXCEPT ![Owner(i)] = Head(answers).to]
                 /\ IF waiting[i]
                      THEN /\ pc' = [c \in Callers |->
                                       IF c \in Wakes(i) THEN "woken" ELSE pc[c]]
                           /\ UNCHANGED arrived
                      ELSE /\ arrived' = [arrived EXCEPT ![i] = TRUE]
                           /\ UNCHANGED pc
    /\ UNCHANGED <<in_use, slot_in_use, recv_ind_id, waiting, select_id,
                   request, ind, status, environment>>

(* The modem restarts and what it had to answer is lost. *)
AnswersLost ==
    /\ ~calm
    /\ answers # <<>>
    /\ answers' = <<>>
    /\ UNCHANGED <<slots, pc, call, environment>>

-----------------------------------------------------------------------------
Proceed(c) == Select(c) \/ Send(c) \/ Wait(c) \/ WaitOver(c) \/ Free(c)
              \/ Return(c)

Next ==
    \/ \E c \in Callers :
          \/ \E id \in Inds : Call(c, id)
          \/ Proceed(c) \/ Expire(c) \/ SpuriousWake(c)
    \/ ProcessInd \/ AnswersLost

(* Threads run, waits expire, and answers that are not lost arrive. *)
Spec ==
    /\ Init /\ [][Next]_vars
    /\ \A c \in Callers : WF_vars(Proceed(c)) /\ WF_vars(Expire(c))
    /\ WF_vars(ProcessInd)

-----------------------------------------------------------------------------
InCall == {c \in Callers : pc[c] \notin {"idle", "return"}}

(* A slot in use belongs to exactly one call, and a call has its own.      *)
SlotsOwned ==
    /\ TypeOK
    /\ \A c \in InCall : select_id[c] \in Slots /\ slot_in_use[select_id[c]]
    /\ \A c, d \in InCall : select_id[c] = select_id[d] => c = d
    /\ \A i \in Slots : slot_in_use[i] => \E c \in InCall : select_id[c] = i

(* An indication, however late, is only ever written into the buffer of a  *)
(* call that has not returned and that asked for an indication of its ID.  *)
NoLateWrite ==
    [][\A c \in Callers :
          buffer'[c] # buffer[c] /\ buffer'[c] # 0
              => c \in InCall /\ ind[c] = Head(answers).id]_vars

(* "Thread safe synchronous request": unless two callers share an ID or an *)
(* answer is late, a call with a slot that is about to return SUCCESS has  *)
(* the answer to its own request, whichever came first of answer and wait. *)
AnswerIsOwn ==
    \A c \in Callers :
        calm /\ pc[c] = "free" /\ status[c] = "SUCCESS"
            => buffer[c] = request[c]

(* Every call returns, whether the modem answers or not. *)
CallReturns == \A c \in Callers : pc[c] # "idle" ~> pc[c] = "idle"
=============================================================================
