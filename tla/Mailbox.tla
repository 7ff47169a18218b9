------------------------------ MODULE Mailbox ------------------------------
(***************************************************************************)
(* What a MsgTask promises, without threads, locks or wake-ups: messages   *)
(* are taken one at a time, in the order they were posted, each once.      *)
(* Once closed, nothing is posted and what is left is thrown away.  The    *)
(* queues msgq of the other modules are mailboxes.                         *)
(***************************************************************************)
EXTENDS Sequences

CONSTANT Messages

VARIABLES
    queue,     \* posted and not taken, oldest first
    current,   \* the message being processed, alone in a sequence
    closed

box == <<queue, current, closed>>

Init == queue = <<>> /\ current = <<>> /\ closed = FALSE

Post(m) ==
    /\ ~closed
    /\ queue' = Append(queue, m)
    /\ UNCHANGED <<current, closed>>

Take ==
    /\ queue # <<>>
    /\ current = <<>>
    /\ current' = <<Head(queue)>>
    /\ queue' = Tail(queue)
    /\ UNCHANGED closed

Finish ==
    /\ current # <<>>
    /\ current' = <<>>
    /\ UNCHANGED <<queue, closed>>

Close == ~closed /\ closed' = TRUE /\ UNCHANGED <<queue, current>>

Discard ==
    /\ closed
    /\ current = <<>>
    /\ queue' = <<>>
    /\ UNCHANGED <<current, closed>>

Next == (\E m \in Messages : Post(m)) \/ Take \/ Finish \/ Close \/ Discard

Spec == Init /\ [][Next]_box
=============================================================================
