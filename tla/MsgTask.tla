------------------------------ MODULE MsgTask ------------------------------
(***************************************************************************)
(* The message thread of the GPS HAL: MsgTask.cpp over msg_q.c.            *)
(*                                                                         *)
(* Any thread sends; one thread loops receiving, processing and deleting   *)
(* messages, and may send to itself while it processes.  The queue is a    *)
(* list under a mutex with a condition variable; deleting the MsgTask      *)
(* unblocks it, and the loop then destroys it.                             *)
(***************************************************************************)
EXTENDS Naturals, Sequences

CONSTANTS
    Senders,    \* threads that send
    Loop,       \* the thread running loopMain
    MaxMsgs     \* bound: messages created

ASSUME LoopAssumption == Loop \notin Senders
ASSUME MaxMsgsAssumption == MaxMsgs \in Nat

Threads == Senders \cup {Loop}

Messages == 1..MaxMsgs

VARIABLES
    list_mutex,   \* the threads that hold it
    msg_list,     \* the list, oldest first
    unblocked,    \* has the queue been unblocked
    pc,           \* where each thread is
    msg,          \* the message a thread is sending, 0 if none
    current,      \* the message being processed, alone in a sequence
    created,      \* messages created so far
    accepted,     \* history: messages the queue took, in order
    processed,    \* history: messages processed and deleted, in order
    flushed,      \* history: messages deleted unprocessed with the queue
    refused       \* history: messages the queue did not take; they leak

queue   == <<list_mutex, msg_list, unblocked>>
history == <<accepted, processed, flushed, refused>>
vars    == <<queue, pc, msg, current, created, history>>

SendSteps == {"lock", "add", "signal"}
LoopSteps == {"rcv", "check", "asleep", "relock", "remove", "proc",
              "destroy", "gone"}

TypeOK ==
    /\ list_mutex \subseteq Threads
    /\ msg_list \in Seq(Messages)
    /\ unblocked \in BOOLEAN
    /\ pc \in [Threads -> SendSteps \cup LoopSteps \cup {"idle"}]
    /\ \A t \in Senders : pc[t] \in SendSteps \cup {"idle"}
    /\ pc[Loop] # "idle"
    /\ msg \in [Threads -> 0..MaxMsgs]
    /\ \A t \in Threads : pc[t] \in {"lock", "add"} => msg[t] \in Messages
    /\ current \in Seq(Messages)
    /\ created \in 0..MaxMsgs
    /\ accepted \in Seq(Messages)
    /\ processed \in Seq(Messages)
    /\ flushed \in Seq(Messages)
    /\ refused \subseteq Messages

Init ==
    /\ list_mutex = {}
    /\ msg_list = <<>>
    /\ unblocked = FALSE
    /\ pc = [t \in Threads |-> IF t = Loop THEN "rcv" ELSE "idle"]
    /\ msg = [t \in Threads |-> 0]
    /\ current = <<>>
    /\ created = 0
    /\ accepted = <<>> /\ processed = <<>> /\ flushed = <<>>
    /\ refused = {}

-----------------------------------------------------------------------------
GoTo(t, step) == pc' = [pc EXCEPT ![t] = step]

Lock(t) == list_mutex = {} /\ list_mutex' = {t}

Unlock(t) == list_mutex' = list_mutex \ {t}

(* Where a thread that sends comes back to. *)
Home(t) == IF t = Loop THEN "proc" ELSE "idle"

(* The MsgTask is not used by others once it is being deleted. *)
SendMsg(t) ==
    /\ pc[t] = Home(t)
    /\ t \in Senders => ~unblocked
    /\ created < MaxMsgs
    /\ created' = created + 1
    /\ msg' = [msg EXCEPT ![t] = created + 1]
    /\ GoTo(t, "lock")
    /\ UNCHANGED <<queue, current, history>>

SndLock(t) ==
    /\ pc[t] = "lock"
    /\ Lock(t)
    /\ GoTo(t, "add")
    /\ UNCHANGED <<msg_list, unblocked, msg, current, created, history>>

(* An unblocked queue takes nothing, and sendMsg ignores that. *)
SndRefuse(t) ==
    /\ pc[t] = "add"
    /\ unblocked
    /\ Unlock(t)
    /\ refused' = refused \cup {msg[t]}
    /\ msg' = [msg EXCEPT ![t] = 0]
    /\ GoTo(t, Home(t))
    /\ UNCHANGED <<msg_list, unblocked, current, created, accepted, processed,
                   flushed>>

SndAddUnchecked(t) ==
    /\ pc[t] = "add"
    /\ msg_list' = Append(msg_list, msg[t])
    /\ accepted' = Append(accepted, msg[t])
    /\ msg' = [msg EXCEPT ![t] = 0]
    /\ GoTo(t, "signal")
    /\ UNCHANGED <<list_mutex, unblocked, current, created, processed, flushed,
                   refused>>

SndAdd(t) ==
    /\ pc[t] = "add"
    /\ ~unblocked
    /\ msg_list' = Append(msg_list, msg[t])
    /\ accepted' = Append(accepted, msg[t])
    /\ msg' = [msg EXCEPT ![t] = 0]
    /\ GoTo(t, "signal")
    /\ UNCHANGED <<list_mutex, unblocked, current, created, processed, flushed,
                   refused>>

(* What a signal or broadcast on list_cond does to the receiver. *)
Woken(step) == IF step = "asleep" THEN "relock" ELSE step

SndSignalUnheard(t) ==
    /\ pc[t] = "signal"
    /\ Unlock(t)
    /\ GoTo(t, Home(t))
    /\ UNCHANGED <<msg_list, unblocked, msg, current, created, history>>

SndSignal(t) ==
    /\ pc[t] = "signal"
    /\ Unlock(t)
    /\ pc' = [pc EXCEPT ![t] = Home(t), ![Loop] = IF t = Loop THEN Home(t)
                                                   ELSE Woken(@)]
    /\ UNCHANGED <<msg_list, unblocked, msg, current, created, history>>

-----------------------------------------------------------------------------
(* msg_q_rcv, called by loopMain: an unblocked queue gives nothing, even   *)
(* when messages are left.                                                 *)
RcvLock ==
    /\ pc[Loop] = "rcv"
    /\ list_mutex = {}
    /\ IF unblocked
         THEN GoTo(Loop, "destroy") /\ UNCHANGED list_mutex
         ELSE GoTo(Loop, "check") /\ Lock(Loop)
    /\ UNCHANGED <<msg_list, unblocked, msg, current, created, history>>

(* pthread_cond_wait gives up the mutex and sleeps in one step. *)
RcvWait ==
    /\ pc[Loop] = "check"
    /\ msg_list = <<>> /\ ~unblocked
    /\ Unlock(Loop)
    /\ GoTo(Loop, "asleep")
    /\ UNCHANGED <<msg_list, unblocked, msg, current, created, history>>

(* A sleeper may wake for no reason; either way it takes the mutex again   *)
(* and looks again.                                                        *)
SpuriousWake ==
    /\ pc[Loop] = "asleep"
    /\ GoTo(Loop, "relock")
    /\ UNCHANGED <<queue, msg, current, created, history>>

RcvRelock ==
    /\ pc[Loop] = "relock"
    /\ Lock(Loop)
    /\ GoTo(Loop, "check")
    /\ UNCHANGED <<msg_list, unblocked, msg, current, created, history>>

RcvReady ==
    /\ pc[Loop] = "check"
    /\ msg_list # <<>> \/ unblocked
    /\ GoTo(Loop, "remove")
    /\ UNCHANGED <<queue, msg, current, created, history>>

RcvRemoveNewest ==
    /\ pc[Loop] = "remove"
    /\ Unlock(Loop)
    /\ \/ /\ msg_list # <<>>
          /\ current' = <<msg_list[Len(msg_list)]>>
          /\ msg_list' = SubSeq(msg_list, 1, Len(msg_list) - 1)
          /\ GoTo(Loop, "proc")
       \/ /\ msg_list = <<>>
          /\ GoTo(Loop, "destroy")
          /\ UNCHANGED <<msg_list, current>>
    /\ UNCHANGED <<unblocked, msg, created, history>>

(* A queue unblocked during the wait still gives what is on it. *)
RcvRemove ==
    /\ pc[Loop] = "remove"
    /\ Unlock(Loop)
    /\ \/ /\ msg_list # <<>>
          /\ current' = <<Head(msg_list)>>
          /\ msg_list' = Tail(msg_list)
          /\ GoTo(Loop, "proc")
       \/ /\ msg_list = <<>>
          /\ GoTo(Loop, "destroy")
          /\ UNCHANGED <<msg_list, current>>
    /\ UNCHANGED <<unblocked, msg, created, history>>

(* The message was processed and is deleted. *)
Processed ==
    /\ pc[Loop] = "proc"
    /\ processed' = processed \o current
    /\ current' = <<>>
    /\ GoTo(Loop, "rcv")
    /\ UNCHANGED <<queue, msg, created, accepted, flushed, refused>>

(* msg_q_destroy: the list deletes its messages. *)
Destroy ==
    /\ pc[Loop] = "destroy"
    /\ flushed' = msg_list
    /\ msg_list' = <<>>
    /\ GoTo(Loop, "gone")
    /\ UNCHANGED <<list_mutex, unblocked, msg, current, created, accepted,
                   processed, refused>>

(* ~MsgTask, msg_q_unblock: nobody is in a call to the object by then.     *)
Delete ==
    /\ \A t \in Senders : pc[t] = "idle"
    /\ ~unblocked
    /\ list_mutex = {}
    /\ unblocked' = TRUE
    /\ pc' = [pc EXCEPT ![Loop] = Woken(@)]
    /\ UNCHANGED <<list_mutex, msg_list, msg, current, created, history>>

-----------------------------------------------------------------------------
Send(t) == SndLock(t) \/ SndRefuse(t) \/ SndAdd(t) \/ SndSignal(t)

Receive == RcvLock \/ RcvWait \/ RcvRelock \/ RcvReady \/ RcvRemove

LoopMain == Receive \/ Processed \/ Destroy

Next ==
    \/ \E t \in Threads : SendMsg(t) \/ Send(t)
    \/ LoopMain \/ SpuriousWake \/ Delete

(* Every thread keeps running and proc() returns.  Nobody has to send, nor *)
(* to delete the MsgTask.                                                  *)
Spec ==
    /\ Init /\ [][Next]_vars
    /\ \A t \in Threads : WF_vars(Send(t))
    /\ WF_vars(LoopMain)

-----------------------------------------------------------------------------
(* The loop never sleeps on work: while it does, the list is empty and the *)
(* queue not unblocked, or the thread that changed that is about to signal.*)
NoLostWakeup ==
    pc[Loop] = "asleep" =>
        /\ ~unblocked
        /\ msg_list = <<>> \/ \E t \in Senders : pc[t] = "signal"

(* Every accepted message is processed, in hand, on the list, or deleted   *)
(* with the queue: each exactly once and in the order accepted.            *)
EachOnceInOrder == accepted = processed \o current \o msg_list \o flushed

(* The loop ends, and the queue is destroyed, only after the MsgTask is    *)
(* deleted: no wake-up without a message ends it.                          *)
EndsOnlyDeleted == pc[Loop] \in {"destroy", "gone"} => unblocked

(* What is sent gets processed, or the loop ends, which it does only after *)
(* the MsgTask is deleted (EndsOnlyDeleted).                               *)
SentIsProcessed ==
    \A m \in Messages :
        (\E i \in 1..Len(accepted) : accepted[i] = m)
            ~> \/ pc[Loop] = "gone"
               \/ \E i \in 1..Len(processed) : processed[i] = m

-----------------------------------------------------------------------------
Box == INSTANCE Mailbox WITH queue <- msg_list, closed <- unblocked

(* The thread and its queue are a mailbox: see Mailbox. *)
ImplementsMailbox == Box!Spec
=============================================================================
