----------------------------- MODULE MCMsgTask -----------------------------
(***************************************************************************)
(* The message thread and the list its queue is made of: a behaviour is    *)
(* one of MsgTask, in which two senders race each other and the loop, or   *)
(* of LinkedList, one call after the other.                                *)
(***************************************************************************)
EXTENDS MsgTask, FiniteSets

CONSTANTS s1, s2, loop, Elements, Data, NULL

VARIABLES
    part,       \* "task" or "list", chosen at the start
    p_head, p_tail, next, prev, data_ptr, allocated, result

listVars == <<p_head, p_tail, next, prev, data_ptr, allocated, result>>

List == INSTANCE LinkedList

(* Memory is finite, and no element is at the null address.                *)
ASSUME ListAssumption == IsFiniteSet(Elements) /\ NULL \notin Elements

(* What an element holds before it is first allocated nobody reads.        *)
Unused == [e \in Elements |-> CHOOSE d \in Data : TRUE]

QueueInit ==
    /\ part \in {"task", "list"}
    /\ data_ptr = Unused
    /\ Init /\ List!Init

QueueNext ==
    /\ UNCHANGED part
    /\ \/ part = "task" /\ Next /\ UNCHANGED listVars
       \/ part = "list" /\ List!Next /\ UNCHANGED vars

QueueSafety == QueueInit /\ [][QueueNext]_<<part, vars, listVars>>

(* Fairness is the threads', and leaves behaviours of theirs only: a list   *)
(* owes nothing, and its properties need QueueSafety.                       *)
QueueSpec ==
    /\ QueueSafety
    /\ \A t \in Threads : WF_vars(Send(t))
    /\ WF_vars(LoopMain)

(* No pointer dangles, and the two directions agree: see LinkedList.       *)
LinksMirror == List!TypeOK /\ List!MirrorImage

(* The pointers implement a list of items: see LinkedList.                 *)
ImplementsItems == List!ImplementsItems
=============================================================================
