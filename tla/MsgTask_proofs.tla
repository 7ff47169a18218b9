--------------------------- MODULE MsgTask_proofs ---------------------------
(***************************************************************************)
(* Proofs about MsgTask, for any senders and any number of messages, and   *)
(* about LinkedList, for any data and any finite number of elements.       *)
(***************************************************************************)
EXTENDS MCMsgTask, SequenceTheorems, FiniteSetTheorems, WellFoundedInduction, TLAPS


(* A thread holds list_mutex exactly in its critical section, and only one *)
(* thread does.                                                            *)
InSection == {"add", "signal", "check", "remove"}

MutexInv ==
    /\ \A t \in Threads : pc[t] \in InSection <=> t \in list_mutex
    /\ \A t, u \in list_mutex : t = u

(* The loop has a message in hand while it processes, also while that      *)
(* processing sends, and no other time.                                    *)
Processing == SendSteps \cup {"proc"}

HandInv ==
    /\ pc[Loop] \in Processing => \E m \in Messages : current = <<m>>
    /\ pc[Loop] \notin Processing => current = <<>>

(* What the loop knows about the queue where it is. *)
LoopInv ==
    /\ EndsOnlyDeleted
    /\ pc[Loop] = "remove" => msg_list # <<>> \/ unblocked
    /\ flushed # <<>> => pc[Loop] = "gone"
    /\ pc[Loop] = "gone" => msg_list = <<>>

(* The typing invariant needs nothing else. *)
LEMMA TypeStep ==
  ASSUME TypeOK, [Next]_vars
  PROVE  TypeOK'
<1> USE LoopAssumption, MaxMsgsAssumption
<1> SUFFICES ASSUME Next PROVE TypeOK'
  <2> CASE UNCHANGED vars
    BY DEF TypeOK, vars, queue, history
  <2> QED OBVIOUS
<1> USE DEF Threads, Messages, SendSteps, LoopSteps, Home, GoTo, Lock, Unlock,
            queue, history
<1>1. ASSUME NEW t \in Threads, SendMsg(t) PROVE TypeOK'
  BY <1>1 DEF TypeOK, SendMsg
<1>2. ASSUME NEW t \in Threads, SndLock(t) PROVE TypeOK'
  BY <1>2 DEF TypeOK, SndLock
<1>3. ASSUME NEW t \in Threads, SndRefuse(t) PROVE TypeOK'
  <2>1. refused' \subseteq Messages
    BY <1>3 DEF TypeOK, SndRefuse
  <2>2. /\ pc' = [pc EXCEPT ![t] = Home(t)]
        /\ msg' = [msg EXCEPT ![t] = 0]
        /\ list_mutex' \subseteq list_mutex
    BY <1>3 DEF SndRefuse
  <2>3. /\ pc' \in [Threads -> SendSteps \cup LoopSteps \cup {"idle"}]
        /\ \A u \in Senders : pc'[u] \in SendSteps \cup {"idle"}
        /\ pc'[Loop] # "idle"
    BY <2>2 DEF TypeOK
  <2>4. /\ msg' \in [Threads -> 0..MaxMsgs]
        /\ \A u \in Threads : pc'[u] \in {"lock", "add"} => msg'[u] \in Messages
    BY <2>2 DEF TypeOK
  <2> QED
    BY <1>3, <2>1, <2>2, <2>3, <2>4 DEF TypeOK, SndRefuse
<1>4. ASSUME NEW t \in Threads, SndAdd(t) PROVE TypeOK'
  BY <1>4 DEF TypeOK, SndAdd
<1>5. ASSUME NEW t \in Threads, SndSignal(t) PROVE TypeOK'
  BY <1>5 DEF TypeOK, SndSignal, Woken
<1>6. CASE RcvLock
  BY <1>6 DEF TypeOK, RcvLock
<1>7. CASE RcvWait
  BY <1>7 DEF TypeOK, RcvWait
<1>8. CASE SpuriousWake
  BY <1>8 DEF TypeOK, SpuriousWake
<1>9. CASE RcvRelock
  BY <1>9 DEF TypeOK, RcvRelock
<1>10. CASE RcvReady
  BY <1>10 DEF TypeOK, RcvReady
<1>11. CASE RcvRemove
  <2>1. CASE msg_list # <<>> /\ current' = <<Head(msg_list)>>
                /\ msg_list' = Tail(msg_list) /\ pc' = [pc EXCEPT ![Loop] = "proc"]
    <3>1. current' \in Seq(Messages) /\ msg_list' \in Seq(Messages)
      BY <2>1, HeadTailProperties DEF TypeOK
    <3> QED
      BY <1>11, <2>1, <3>1 DEF TypeOK, RcvRemove
  <2>2. CASE pc' = [pc EXCEPT ![Loop] = "destroy"]
                /\ UNCHANGED <<msg_list, current>>
    BY <1>11, <2>2 DEF TypeOK, RcvRemove
  <2> QED
    BY <1>11, <2>1, <2>2 DEF RcvRemove
<1>12. CASE Processed
  BY <1>12 DEF TypeOK, Processed
<1>13. CASE Destroy
  BY <1>13 DEF TypeOK, Destroy
<1>14. CASE Delete
  BY <1>14 DEF TypeOK, Delete, Woken
<1> QED
  BY <1>1, <1>2, <1>3, <1>4, <1>5, <1>6, <1>7, <1>8, <1>9, <1>10, <1>11, <1>12,
     <1>13, <1>14 DEF Next, Send, LoopMain, Receive

(* At most one thread is between locking and unlocking list_mutex. *)
LEMMA MutexStep ==
  ASSUME TypeOK, MutexInv, [Next]_vars
  PROVE  MutexInv'
<1> USE LoopAssumption DEF TypeOK, MutexInv, InSection, Threads, Home, GoTo, Lock,
            Unlock, queue, Woken
<1>1. CASE UNCHANGED vars
  BY <1>1 DEF vars
<1>2. ASSUME NEW t \in Threads, SendMsg(t) PROVE MutexInv'
  BY <1>2 DEF SendMsg
<1>3. ASSUME NEW t \in Threads, SndLock(t) PROVE MutexInv'
  BY <1>3 DEF SndLock
<1>4. ASSUME NEW t \in Threads, SndRefuse(t) PROVE MutexInv'
  BY <1>4 DEF SndRefuse
<1>5. ASSUME NEW t \in Threads, SndAdd(t) PROVE MutexInv'
  BY <1>5 DEF SndAdd
<1>6. ASSUME NEW t \in Threads, SndSignal(t) PROVE MutexInv'
  BY <1>6 DEF SndSignal
<1>7. CASE RcvLock
  BY <1>7 DEF RcvLock
<1>8. CASE RcvWait
  BY <1>8 DEF RcvWait
<1>9. CASE SpuriousWake
  BY <1>9 DEF SpuriousWake
<1>10. CASE RcvRelock
  BY <1>10 DEF RcvRelock
<1>11. CASE RcvReady
  BY <1>11 DEF RcvReady
<1>12. CASE RcvRemove
  BY <1>12 DEF RcvRemove
<1>13. CASE Processed
  BY <1>13 DEF Processed
<1>14. CASE Destroy
  BY <1>14 DEF Destroy
<1>15. CASE Delete
  BY <1>15 DEF Delete
<1> QED
  BY <1>1, <1>2, <1>3, <1>4, <1>5, <1>6, <1>7, <1>8, <1>9, <1>10, <1>11, <1>12,
     <1>13, <1>14, <1>15 DEF Next, Send, LoopMain, Receive

(* The loop has a message in hand exactly while it processes one. *)
LEMMA HandStep ==
  ASSUME TypeOK, HandInv, [Next]_vars
  PROVE  HandInv'
<1> USE LoopAssumption DEF TypeOK, HandInv, Processing, SendSteps, Threads, Home,
            GoTo, queue, Woken
<1>1. CASE UNCHANGED vars
  BY <1>1 DEF vars
<1>2. ASSUME NEW t \in Threads, SendMsg(t) PROVE HandInv'
  BY <1>2 DEF SendMsg
<1>3. ASSUME NEW t \in Threads, SndLock(t) PROVE HandInv'
  BY <1>3 DEF SndLock
<1>4. ASSUME NEW t \in Threads, SndRefuse(t) PROVE HandInv'
  BY <1>4 DEF SndRefuse
<1>5. ASSUME NEW t \in Threads, SndAdd(t) PROVE HandInv'
  BY <1>5 DEF SndAdd
<1>6. ASSUME NEW t \in Threads, SndSignal(t) PROVE HandInv'
  BY <1>6 DEF SndSignal
<1>7. CASE RcvLock
  BY <1>7 DEF RcvLock
<1>8. CASE RcvWait
  BY <1>8 DEF RcvWait
<1>9. CASE SpuriousWake
  BY <1>9 DEF SpuriousWake
<1>10. CASE RcvRelock
  BY <1>10 DEF RcvRelock
<1>11. CASE RcvReady
  BY <1>11 DEF RcvReady
<1>12. CASE RcvRemove
  <2>1. msg_list # <<>> => Head(msg_list) \in Messages
    BY HeadTailProperties
  <2> QED
    BY <1>12, <2>1 DEF RcvRemove
<1>13. CASE Processed
  BY <1>13 DEF Processed
<1>14. CASE Destroy
  BY <1>14 DEF Destroy
<1>15. CASE Delete
  BY <1>15 DEF Delete
<1> QED
  BY <1>1, <1>2, <1>3, <1>4, <1>5, <1>6, <1>7, <1>8, <1>9, <1>10, <1>11, <1>12,
     <1>13, <1>14, <1>15 DEF Next, Send, LoopMain, Receive

(* Where the loop is says enough about the list, the queue being unblocked *)
(* and the threads about to signal to keep it from sleeping on work.       *)
LEMMA LoopStep ==
  ASSUME TypeOK, MutexInv, LoopInv, NoLostWakeup, [Next]_vars
  PROVE  LoopInv' /\ NoLostWakeup'
<1> USE LoopAssumption DEF TypeOK, LoopInv, EndsOnlyDeleted, NoLostWakeup, MutexInv,
            InSection, Threads, Home, GoTo, queue, history, Woken
<1>1. CASE UNCHANGED vars
  BY <1>1 DEF vars
<1>2. ASSUME NEW t \in Threads, SendMsg(t) PROVE LoopInv' /\ NoLostWakeup'
  BY <1>2 DEF SendMsg
<1>3. ASSUME NEW t \in Threads, SndLock(t) PROVE LoopInv' /\ NoLostWakeup'
  BY <1>3 DEF SndLock
<1>4. ASSUME NEW t \in Threads, SndRefuse(t) PROVE LoopInv' /\ NoLostWakeup'
  BY <1>4 DEF SndRefuse
<1>5. ASSUME NEW t \in Threads, SndAdd(t) PROVE LoopInv' /\ NoLostWakeup'
  BY <1>5 DEF SndAdd
<1>6. ASSUME NEW t \in Threads, SndSignal(t) PROVE LoopInv' /\ NoLostWakeup'
  BY <1>6 DEF SndSignal
<1>7. CASE RcvLock
  BY <1>7 DEF RcvLock, Lock
<1>8. CASE RcvWait
  BY <1>8 DEF RcvWait
<1>9. CASE SpuriousWake
  BY <1>9 DEF SpuriousWake
<1>10. CASE RcvRelock
  BY <1>10 DEF RcvRelock
<1>11. CASE RcvReady
  BY <1>11 DEF RcvReady
<1>12. CASE RcvRemove
  BY <1>12 DEF RcvRemove
<1>13. CASE Processed
  BY <1>13 DEF Processed
<1>14. CASE Destroy
  BY <1>14 DEF Destroy
<1>15. CASE Delete
  BY <1>15 DEF Delete
<1> QED
  BY <1>1, <1>2, <1>3, <1>4, <1>5, <1>6, <1>7, <1>8, <1>9, <1>10, <1>11, <1>12,
     <1>13, <1>14, <1>15 DEF Next, Send, LoopMain, Receive

(* The inductive invariant. *)
IInv == TypeOK /\ MutexInv /\ HandInv /\ LoopInv /\ NoLostWakeup

(* The initial states satisfy it. *)
LEMMA InitInv == Init => IInv
<1> SUFFICES ASSUME Init PROVE IInv
  OBVIOUS
<1> USE LoopAssumption, MaxMsgsAssumption DEF Init, Threads
<1>1. TypeOK
  <2>1. pc \in [Threads -> SendSteps \cup LoopSteps \cup {"idle"}]
    BY DEF SendSteps, LoopSteps
  <2>2. <<>> \in Seq(Messages)
    BY EmptySeq
  <2>3. msg \in [Threads -> 0..MaxMsgs]
    OBVIOUS
  <2>4. /\ \A t \in Senders : pc[t] = "idle"
        /\ \A t \in Threads : pc[t] \notin {"lock", "add"}
        /\ pc[Loop] # "idle"
    OBVIOUS
  <2> QED
    BY <2>1, <2>2, <2>3, <2>4 DEF TypeOK
<1>2. MutexInv
  BY DEF MutexInv, InSection
<1>3. HandInv /\ LoopInv /\ NoLostWakeup
  BY DEF HandInv, LoopInv, NoLostWakeup, EndsOnlyDeleted, Processing, SendSteps
<1> QED
  BY <1>1, <1>2, <1>3 DEF IInv

(* Every step preserves it. *)
LEMMA StepInv == IInv /\ [Next]_vars => IInv'
  BY TypeStep, MutexStep, HandStep, LoopStep DEF IInv

(* It holds in every reachable state. *)
LEMMA AlwaysInv == Spec => []IInv
  BY InitInv, StepInv, PTL DEF Spec

(* MsgTask.cpp and msg_q.c: every thread is where its code can be, and     *)
(* what the queue holds are messages.                                      *)
THEOREM TypeCorrect == Spec => []TypeOK
  BY AlwaysInv, PTL DEF IInv

(* msg_q_rcv: the loop never sleeps on a message, nor on an unblocked      *)
(* queue, however many threads send.                                       *)
THEOREM WakeupCorrect == Spec => []NoLostWakeup
  BY AlwaysInv, PTL DEF IInv

(* loopMain: no wake-up for nothing ends the loop. *)
THEOREM EndCorrect == Spec => []EndsOnlyDeleted
<1>1. IInv => EndsOnlyDeleted
  BY DEF IInv, LoopInv
<1> QED
  BY <1>1, AlwaysInv, PTL

(* A message moves from the list to the hand to the processed ones without *)
(* changing its place among all accepted.                                  *)
LEMMA OrderStep ==
  ASSUME IInv, EachOnceInOrder, [Next]_vars
  PROVE  EachOnceInOrder'
<1> USE DEF EachOnceInOrder
<1>1. ASSUME UNCHANGED <<msg_list, current, history>>
      PROVE  EachOnceInOrder'
  BY <1>1 DEF history
<1>2. ASSUME NEW t \in Threads, SndAdd(t) PROVE EachOnceInOrder'
  <2> DEFINE m == msg[t]
  <2>1. /\ msg_list' = Append(msg_list, m)
        /\ accepted' = Append(accepted, m)
        /\ UNCHANGED <<current, processed, flushed>>
        /\ m \in Messages
    BY <1>2 DEF SndAdd, IInv, TypeOK
  <2>2. flushed = <<>>
    BY <1>2 DEF SndAdd, IInv, LoopInv, EndsOnlyDeleted
  <2> DEFINE before == processed \o current
  <2>3. /\ before \in Seq(Messages) /\ msg_list \in Seq(Messages)
        /\ accepted \in Seq(Messages) /\ <<m>> \in Seq(Messages)
    BY <2>1, ConcatProperties DEF IInv, TypeOK
  <2>4. accepted = before \o msg_list
    BY <2>2, <2>3, ConcatEmptySeq, ConcatProperties
  <2>5. accepted' = (before \o msg_list) \o <<m>> /\ msg_list' = msg_list \o <<m>>
    BY <2>1, <2>3, <2>4
  <2>6. (before \o msg_list) \o <<m>> = before \o (msg_list \o <<m>>)
    BY <2>3, ConcatAssociative
  <2>7. msg_list \o <<m>> \in Seq(Messages)
    BY <2>3, ConcatProperties
  <2>8. before \o (msg_list \o <<m>>) = (before \o (msg_list \o <<m>>)) \o <<>>
    BY <2>3, <2>7, ConcatProperties, ConcatEmptySeq
  <2> QED
    BY <2>1, <2>2, <2>5, <2>6, <2>8
<1>3. CASE RcvRemove
  <2>1. CASE msg_list = <<>>
    BY <1>1, <1>3, <2>1 DEF RcvRemove, history
  <2>2. CASE msg_list # <<>>
    <3>1. /\ current = <<>>
          /\ current' = <<Head(msg_list)>>
          /\ msg_list' = Tail(msg_list)
          /\ UNCHANGED <<accepted, processed, flushed>>
      BY <1>3, <2>2 DEF RcvRemove, IInv, HandInv, Processing, SendSteps, history
    <3>2. /\ msg_list \in Seq(Messages) /\ processed \in Seq(Messages)
          /\ <<Head(msg_list)>> \in Seq(Messages) /\ Tail(msg_list) \in Seq(Messages)
      BY <2>2, HeadTailProperties DEF IInv, TypeOK
    <3>3. msg_list = <<Head(msg_list)>> \o Tail(msg_list)
      BY <2>2, <3>2
    <3>4. processed \o current = processed
      BY <3>1, <3>2, ConcatEmptySeq
    <3>5. processed \o (<<Head(msg_list)>> \o Tail(msg_list))
            = (processed \o <<Head(msg_list)>>) \o Tail(msg_list)
      BY <3>2, ConcatAssociative
    <3> QED
      BY <3>1, <3>3, <3>4, <3>5
  <2> QED
    BY <2>1, <2>2
<1>4. CASE Processed
  <2>1. /\ processed' = processed \o current
        /\ current' = <<>>
        /\ UNCHANGED <<accepted, msg_list, flushed>>
        /\ processed \in Seq(Messages) /\ current \in Seq(Messages)
    BY <1>4 DEF Processed, IInv, TypeOK, queue
  <2>2. processed \o current \in Seq(Messages)
    BY <2>1, ConcatProperties
  <2>3. processed' \o current' = processed \o current
    BY <2>1, <2>2, ConcatEmptySeq
  <2> QED
    BY <2>1, <2>3
<1>5. CASE Destroy
  <2>1. /\ flushed = <<>> /\ current = <<>>
        /\ flushed' = msg_list /\ msg_list' = <<>>
        /\ UNCHANGED <<accepted, processed, current>>
    BY <1>5 DEF Destroy, IInv, LoopInv, HandInv, Processing, SendSteps
  <2> DEFINE before == processed \o current
  <2>2. before \in Seq(Messages) /\ msg_list \in Seq(Messages)
    BY ConcatProperties DEF IInv, TypeOK
  <2>3. /\ before \o msg_list \in Seq(Messages)
        /\ (before \o msg_list) \o <<>> = before \o msg_list
        /\ before \o <<>> = before
    BY <2>2, ConcatProperties, ConcatEmptySeq
  <2> QED
    BY <2>1, <2>3
<1> QED
  <2>1. CASE UNCHANGED vars
    BY <1>1, <2>1 DEF vars, queue
  <2>2. ASSUME NEW t \in Threads,
               SendMsg(t) \/ SndLock(t) \/ SndSignal(t) \/ SndRefuse(t)
        PROVE  EachOnceInOrder'
    BY <2>2 DEF SendMsg, SndLock, SndSignal, SndRefuse, queue, history
  <2>3. CASE RcvLock \/ RcvWait \/ SpuriousWake \/ RcvRelock \/ RcvReady \/ Delete
    BY <1>1, <2>3 DEF RcvLock, RcvWait, SpuriousWake, RcvRelock, RcvReady, Delete,
                      queue
  <2> QED
    BY <1>2, <1>3, <1>4, <1>5, <2>1, <2>2, <2>3
       DEF Next, Send, LoopMain, Receive

(* Messages are processed, or deleted with the queue, each exactly once    *)
(* and in the order the queue accepted them.                               *)
THEOREM OrderCorrect == Spec => []EachOnceInOrder
<1>1. Init => EachOnceInOrder
  BY DEF Init, EachOnceInOrder
<1>2. IInv /\ EachOnceInOrder /\ [Next]_vars => EachOnceInOrder'
  BY OrderStep
<1> QED
  BY <1>1, <1>2, AlwaysInv, PTL DEF Spec

(* Every step of the threads is a step of a mailbox, or none. *)
LEMMA MailboxStep ==
  ASSUME IInv, [Next]_vars
  PROVE  [Box!Next]_(Box!box)
<1> USE DEF Box!Next, Box!box
<1>1. ASSUME UNCHANGED <<msg_list, current, unblocked>>
      PROVE  [Box!Next]_(Box!box)
  BY <1>1
<1>2. ASSUME NEW t \in Threads, SndAdd(t) PROVE \E m \in Messages : Box!Post(m)
  BY <1>2 DEF SndAdd, Box!Post, IInv, TypeOK
<1>3. CASE RcvRemove
  BY <1>1, <1>3 DEF RcvRemove, Box!Take, IInv, HandInv, Processing, SendSteps
<1>4. CASE Processed
  BY <1>4 DEF Processed, Box!Finish, IInv, HandInv, Processing, queue
<1>5. CASE Destroy
  BY <1>5 DEF Destroy, Box!Discard, IInv, LoopInv, EndsOnlyDeleted, HandInv,
              Processing, SendSteps
<1>6. CASE Delete
  BY <1>6 DEF Delete, Box!Close
<1> QED
  <2>1. CASE UNCHANGED vars
    BY <1>1, <2>1 DEF vars, queue
  <2>2. ASSUME NEW t \in Threads,
               SendMsg(t) \/ SndLock(t) \/ SndSignal(t) \/ SndRefuse(t)
        PROVE  [Box!Next]_(Box!box)
    BY <1>1, <2>2 DEF SendMsg, SndLock, SndSignal, SndRefuse, queue
  <2>3. CASE RcvLock \/ RcvWait \/ SpuriousWake \/ RcvRelock \/ RcvReady
    BY <1>1, <2>3 DEF RcvLock, RcvWait, SpuriousWake, RcvRelock, RcvReady, queue
  <2> QED
    BY <1>2, <1>3, <1>4, <1>5, <1>6, <2>1, <2>2, <2>3
       DEF Next, Send, LoopMain, Receive

(* MsgTask and msg_q implement the mailbox the other modules use. *)
THEOREM Implementation == Spec => ImplementsMailbox
<1>1. Init => Box!Init
  BY DEF Init, Box!Init
<1>2. IInv /\ [Next]_vars => [Box!Next]_(Box!box)
  BY MailboxStep
<1> QED
  BY <1>1, <1>2, AlwaysInv, PTL DEF Spec, ImplementsMailbox, Box!Spec

-----------------------------------------------------------------------------
(* LinkedList: its pointers are a chain of elements, whatever is done.      *)

(* The elements of the list in order, from the head to the tail.            *)
Chain(s) ==
    /\ \A i, j \in 1..Len(s) : s[i] = s[j] => i = j
    /\ allocated = {s[i] : i \in 1..Len(s)}
    /\ Len(s) = 0 => p_head = NULL /\ p_tail = NULL
    /\ Len(s) # 0 => /\ p_head = s[1] /\ p_tail = s[Len(s)]
                     /\ prev[s[1]] = NULL /\ next[s[Len(s)]] = NULL
    /\ \A i \in 1..(Len(s) - 1) : next[s[i]] = s[i + 1] /\ prev[s[i + 1]] = s[i]

(* The types of the fields and of what is copied out.                       *)
LinkFields ==
    /\ next \in [Elements -> List!Pointers] /\ prev \in [Elements -> List!Pointers]
    /\ data_ptr \in [Elements -> Data]
    /\ result \in Seq(Data)

(* The inductive invariant: the elements that are allocated are a chain.    *)
LinksInv == LinkFields /\ \E s \in Seq(Elements) : Chain(s)

-----------------------------------------------------------------------------
(* What the operators say of a chain.                                       *)
Less == {ss \in Nat \X Nat : ss[1] < ss[2]}

LEMMA Least ==
    ASSUME NEW S \in SUBSET Nat, S # {}
    PROVE  \E i \in S : \A j \in S : i <= j
<1>1. IsWellFoundedOn(Less, Nat)
  BY NatLessThanWellFounded, Zenon DEF OpToRel, Less
<1>2. PICK i \in S : \A j \in S : ~(<<j, i>> \in Less)
  BY <1>1, WFMin
<1>3. \A j \in S : ~(j < i)
  BY <1>2 DEF Less
<1> QED
  BY <1>3

(* A walk from the head meets the chain and then nothing.                   *)
Walk(s) == [n \in Nat \ {0} |-> IF n <= Len(s) THEN s[n] ELSE NULL]

LEMMA AtWalks == \A s \in Seq(Elements) : Chain(s) => List!At = Walk(s)
<1> SUFFICES ASSUME NEW s \in Seq(Elements), Chain(s) PROVE List!At = Walk(s)
  OBVIOUS
<1> DEFINE G(g) == [n \in Nat \ {0} |->
                      IF n = 1 THEN p_head
                      ELSE IF g[n - 1] = NULL THEN NULL ELSE next[g[n - 1]]]
           w == Walk(s)
<1>1. Len(s) \in Nat /\ \A n \in 1..Len(s) : s[n] \in Elements
  BY ElementOfSeq
<1>2. \A n \in Nat \ {0} : w[n] = IF n <= Len(s) THEN s[n] ELSE NULL
  BY DEF Walk
<1>3. w = [n \in Nat \ {0} |-> w[n]]
  BY DEF Walk
<1> HIDE DEF w
<1>4. ASSUME NEW n \in Nat \ {0}
      PROVE  w[n] = IF n = 1 THEN p_head
                    ELSE IF w[n - 1] = NULL THEN NULL ELSE next[w[n - 1]]
  <2>1. CASE n = 1
    <3>1. CASE Len(s) = 0
      BY <1>2, <2>1, <3>1 DEF Chain
    <3>2. CASE Len(s) # 0
      BY <1>1, <1>2, <2>1, <3>2 DEF Chain
    <3> QED
      BY <3>1, <3>2
  <2>2. CASE n # 1 /\ n <= Len(s)
    <3>1. n - 1 \in Nat \ {0} /\ n - 1 \in 1..(Len(s) - 1) /\ n - 1 \in 1..Len(s)
          /\ (n - 1) + 1 = n
      BY <1>1, <2>2
    <3>2. w[n - 1] = s[n - 1] /\ w[n] = s[n]
      BY <1>2, <2>2, <3>1
    <3>3. next[s[n - 1]] = s[n]
      BY <3>1 DEF Chain
    <3>4. s[n - 1] # NULL
      BY <1>1, <3>1, ListAssumption
    <3> QED
      BY <2>2, <3>2, <3>3, <3>4
  <2>3. CASE n # 1 /\ n - 1 = Len(s)
    <3>1. n - 1 \in Nat \ {0} /\ n - 1 \in 1..Len(s) /\ ~(n <= Len(s)) /\ Len(s) # 0
      BY <1>1, <2>3
    <3>2. w[n - 1] = s[n - 1] /\ w[n] = NULL
      BY <1>2, <3>1
    <3>3. next[s[n - 1]] = NULL
      BY <2>3, <3>1 DEF Chain
    <3> QED
      BY <2>3, <3>2, <3>3
  <2>4. CASE n # 1 /\ n - 1 > Len(s)
    <3>1. n - 1 \in Nat \ {0} /\ ~(n - 1 <= Len(s)) /\ ~(n <= Len(s))
      BY <1>1, <2>4
    <3>2. w[n - 1] = NULL /\ w[n] = NULL
      BY <1>2, <3>1
    <3> QED
      BY <2>4, <3>2
  <2> QED
    BY <1>1, <2>1, <2>2, <2>3, <2>4
<1>5. w = G(w)
  <2>1. w = [n \in Nat \ {0} |->
                IF n = 1 THEN p_head
                ELSE IF w[n - 1] = NULL THEN NULL ELSE next[w[n - 1]]]
    BY <1>3, <1>4
  <2> QED
    BY <2>1
<1>6. List!At = G(List!At)
  <2> DEFINE a == CHOOSE g : g = G(g)
  <2>1. a = G(a)
    <3> HIDE DEF G
    <3> QED BY <1>5
  <2>2. List!At = a
    BY DEF List!At
  <2> HIDE DEF a
  <2> QED
    BY <2>1, <2>2
<1>7. \A n \in Nat \ {0} :
         List!At[n] = IF n = 1 THEN p_head
                 ELSE IF List!At[n - 1] = NULL THEN NULL ELSE next[List!At[n - 1]]
  BY <1>6
<1> DEFINE S == {n \in Nat \ {0} : List!At[n] # w[n]}
<1>8. S = {}
  <2> SUFFICES ASSUME S # {} PROVE FALSE
    OBVIOUS
  <2>1. PICK m \in S : \A j \in S : m <= j
    <3>1. S \in SUBSET Nat
      OBVIOUS
    <3> HIDE DEF S
    <3> QED BY <3>1, Least
  <2>2. m \in Nat \ {0} /\ List!At[m] # w[m]
    BY <2>1
  <2>3. CASE m = 1
    BY <1>4, <1>7, <2>2, <2>3
  <2>4. CASE m # 1
    <3>1. m - 1 \in Nat \ {0} /\ m - 1 \notin S
      BY <2>1, <2>2, <2>4
    <3>2. List!At[m - 1] = w[m - 1]
      BY <3>1
    <3> QED
      BY <1>4, <1>7, <2>2, <2>4, <3>2
  <2> QED
    BY <2>3, <2>4
<1>9. List!At = [n \in Nat \ {0} |-> List!At[n]]
  BY <1>6
<1>10. \A n \in Nat \ {0} : List!At[n] = w[n]
  BY <1>8
<1>11. List!At = w
  BY <1>3, <1>9, <1>10
<1> QED
  BY <1>11 DEF w

(* One cardinality.                                                         *)
LEMMA SameSize == \A S : List!Cardinality(S) = Cardinality(S)
  BY Zenon DEF List!Cardinality, Cardinality, List!IsFiniteSet, IsFiniteSet

(* The chain is no longer than there are elements.                          *)
LEMMA ChainLength ==
    ASSUME NEW s \in Seq(Elements), \A i, j \in 1..Len(s) : s[i] = s[j] => i = j
    PROVE  /\ Len(s) \in Nat /\ Cardinality(Elements) \in Nat
           /\ Len(s) <= Cardinality(Elements)
<1>1. Len(s) \in Nat /\ \A i \in 1..Len(s) : s[i] \in Elements
  BY ElementOfSeq
<1>2. Cardinality(Elements) \in Nat
  BY ListAssumption, FS_CardinalityType
<1>3. Cardinality(1..Len(s)) = Len(s)
  <2>1. 1 \in Int /\ Len(s) \in Int
    BY <1>1
  <2>2. Cardinality(1..Len(s)) = IF 1 > Len(s) THEN 0 ELSE Len(s) - 1 + 1
    BY <2>1, FS_Interval
  <2> QED
    BY <1>1, <2>2
<1> DEFINE g == [i \in 1..Len(s) |-> s[i]]
<1>4. g \in Injection(1..Len(s), Elements)
  BY <1>1 DEF Injection, IsInjective
<1> HIDE DEF g
<1>6. Cardinality(1..Len(s)) <= Cardinality(Elements)
  BY <1>4, ListAssumption, FS_Injection
<1> QED
  BY <1>1, <1>2, <1>3, <1>6

(* What they hold, in order.                                                *)
Held(s) == [i \in 1..Len(s) |-> data_ptr[s[i]]]

ChainSays ==
    \A s \in Seq(Elements) : Chain(s) =>
        /\ List!Length = Len(s) /\ List!Items = Held(s)
        /\ \A n \in 1..Len(s) : List!Forward[n] = s[n]
        /\ {List!At[n] : n \in 1..Cardinality(Elements)} \ {NULL}
           = {s[i] : i \in 1..Len(s)}

LEMMA ChainIs == ChainSays
<1> SUFFICES ASSUME NEW s \in Seq(Elements), Chain(s)
             PROVE  /\ List!Length = Len(s) /\ List!Items = Held(s)
                    /\ \A n \in 1..Len(s) : List!Forward[n] = s[n]
                    /\ {List!At[n] : n \in 1..Cardinality(Elements)} \ {NULL}
                       = {s[i] : i \in 1..Len(s)}
  BY DEF ChainSays
<1>1. List!At = Walk(s)
  BY AtWalks
<1>2. \A n \in Nat \ {0} : List!At[n] = IF n <= Len(s) THEN s[n] ELSE NULL
  BY <1>1 DEF Walk
<1>3. /\ Len(s) \in Nat /\ Cardinality(Elements) \in Nat
      /\ Len(s) <= Cardinality(Elements)
  BY ChainLength DEF Chain
<1>4. \A n \in 1..Len(s) : List!At[n] = s[n] /\ s[n] \in Elements /\ s[n] # NULL
  BY <1>2, <1>3, ElementOfSeq, ListAssumption
<1>5. {n \in 1..Cardinality(Elements) : List!At[n] # NULL} = 1..Len(s)
  BY <1>2, <1>3, <1>4
<1>6. List!Length = Len(s)
  <2>1. 1 \in Int /\ Len(s) \in Int
    BY <1>3
  <2>2. Cardinality(1..Len(s)) = IF 1 > Len(s) THEN 0 ELSE Len(s) - 1 + 1
    BY <2>1, FS_Interval
  <2>3. Cardinality(1..Len(s)) = Len(s)
    BY <1>3, <2>2
  <2> QED
    BY <1>5, <2>3, SameSize DEF List!Length
<1>7. List!Items = Held(s)
  BY <1>4, <1>6 DEF List!Items, Held
<1>8. \A n \in 1..Len(s) : List!Forward[n] = s[n]
  BY <1>4, <1>6 DEF List!Forward
<1>9. ASSUME NEW x
      PROVE  x \in {List!At[n] : n \in 1..Cardinality(Elements)} \ {NULL}
             <=> x \in {s[i] : i \in 1..Len(s)}
  <2>1. CASE x \in {List!At[n] : n \in 1..Cardinality(Elements)} \ {NULL}
    <3>1. PICK n \in 1..Cardinality(Elements) : x = List!At[n] /\ x # NULL
      BY <2>1
    <3>2. n \in 1..Len(s)
      BY <1>2, <1>3, <3>1
    <3> QED
      BY <1>4, <3>1, <3>2
  <2>2. CASE x \in {s[i] : i \in 1..Len(s)}
    <3>1. PICK n \in 1..Len(s) : x = s[n]
      BY <2>2
    <3>2. n \in 1..Cardinality(Elements)
      BY <1>3, <3>1
    <3> QED
      BY <1>4, <3>1, <3>2
  <2> QED
    BY <2>1, <2>2
<1> QED
  BY <1>6, <1>7, <1>8, <1>9

LEMMA ChainIsAfter ==
    \A s \in Seq(Elements) : Chain(s)' =>
        /\ List!Length' = Len(s) /\ List!Items' = Held(s)'
        /\ \A n \in 1..Len(s) : List!Forward'[n] = s[n]
<1>1. ChainSays'
  BY ChainIs, PTL
<1> QED
  BY <1>1 DEF ChainSays

-----------------------------------------------------------------------------
(* A chain after each operation.                                            *)

(* A new head.                                                              *)
LEMMA AddChain ==
    ASSUME LinkFields, NEW s \in Seq(Elements), Chain(s),
           NEW e \in Elements, NEW d \in Data, List!Add(e, d)
    PROVE  \E t \in Seq(Elements) :
              /\ Chain(t)' /\ Len(t) = Len(s) + 1 /\ t[1] = e
              /\ \A i \in 1..Len(s) : t[i + 1] = s[i]
<1>1. Len(s) \in Nat /\ \A i \in 1..Len(s) : s[i] \in Elements /\ s[i] \in allocated
  BY ElementOfSeq DEF Chain
<1>2. /\ e \notin allocated /\ allocated' = allocated \cup {e}
      /\ next' = [next EXCEPT ![e] = p_head]
      /\ prev' = [x \in Elements |-> IF x = e THEN NULL
                                     ELSE IF x = p_head THEN e ELSE prev[x]]
      /\ p_head' = e
      /\ p_tail' = IF p_head = NULL THEN e ELSE p_tail
  BY DEF List!Add
<1> DEFINE r == [i \in 1..(Len(s) + 1) |-> IF i = 1 THEN e ELSE s[i - 1]]
<1>3. r \in Seq(Elements) /\ Len(r) = Len(s) + 1
  <2>1. \A i \in 1..(Len(s) + 1) : r[i] \in Elements
    BY <1>1
  <2>2. r \in [1..(Len(s) + 1) -> Elements]
    BY <2>1
  <2> QED
    BY <1>1, <2>2
<1>4. r[1] = e /\ \A i \in 1..Len(s) : r[i + 1] = s[i]
  BY <1>1
<1>5. \A i \in 1..Len(r) : i = 1 \/ (i - 1 \in 1..Len(s) /\ r[i] = s[i - 1])
  BY <1>1, <1>3
<1> HIDE DEF r
<1>6. \A i \in 1..Len(s) : s[i] # e
  BY <1>1, <1>2
<1>7. \A i, j \in 1..Len(r) : r[i] = r[j] => i = j
  <2> SUFFICES ASSUME NEW i \in 1..Len(r), NEW j \in 1..Len(r), r[i] = r[j]
               PROVE  i = j
    OBVIOUS
  <2>1. CASE i = 1
    BY <1>4, <1>5, <1>6, <2>1
  <2>2. CASE j = 1
    BY <1>4, <1>5, <1>6, <2>2
  <2>3. CASE i # 1 /\ j # 1
    BY <1>3, <1>1, <1>5, <2>3 DEF Chain
  <2> QED
    BY <2>1, <2>2, <2>3
<1>8. allocated' = {r[i] : i \in 1..Len(r)}
  <2>1. allocated = {s[i] : i \in 1..Len(s)}
    BY DEF Chain
  <2>2. ASSUME NEW x PROVE x \in allocated' <=> x \in {r[i] : i \in 1..Len(r)}
    <3>1. CASE x = e
      BY <1>1, <1>2, <1>3, <1>4, <3>1
    <3>2. CASE x # e /\ x \in allocated
      <4>1. PICK i \in 1..Len(s) : x = s[i]
        BY <2>1, <3>2
      <4>2. i + 1 \in 1..Len(r) /\ r[i + 1] = x
        BY <1>1, <1>3, <1>4, <4>1
      <4>3. x \in allocated'
        BY <1>2, <3>2
      <4> QED
        BY <4>2, <4>3
    <3>3. CASE x # e /\ x \notin allocated
      <4>1. ASSUME NEW i \in 1..Len(r) PROVE x # r[i]
        BY <1>1, <1>4, <1>5, <3>3
      <4> QED
        BY <1>2, <3>3, <4>1
    <3> QED
      BY <3>1, <3>2, <3>3
  <2> QED
    BY <2>2
<1>9. p_head' = r[1] /\ p_tail' = r[Len(r)] /\ prev'[r[1]] = NULL
        /\ next'[r[Len(r)]] = NULL
  <2>1. CASE Len(s) = 0
    BY <1>2, <1>3, <1>4, <2>1 DEF Chain, LinkFields
  <2>2. CASE Len(s) # 0
    <3>1. p_head # NULL /\ p_tail = s[Len(s)] /\ next[s[Len(s)]] = NULL
      <4>1. p_head = s[1] /\ s[1] \in Elements
        BY <1>1, <2>2 DEF Chain
      <4> QED
        BY <2>2, <4>1, ListAssumption DEF Chain
    <3>2. r[Len(r)] = s[Len(s)] /\ s[Len(s)] # e /\ s[Len(s)] \in Elements
      BY <1>1, <1>3, <1>4, <1>6, <2>2
    <3> QED
      BY <1>2, <1>4, <3>1, <3>2 DEF LinkFields
  <2> QED
    BY <2>1, <2>2
<1>10. ASSUME NEW i \in 1..(Len(r) - 1)
       PROVE  next'[r[i]] = r[i + 1] /\ prev'[r[i + 1]] = r[i]
  <2>0. i \in 1..Len(s) /\ r[i + 1] = s[i] /\ s[i] # e /\ s[i] \in Elements
    BY <1>1, <1>3, <1>4, <1>6
  <2>1. CASE i = 1
    <3>1. p_head = s[1]
      BY <1>1, <2>0, <2>1 DEF Chain
    <3> QED
      BY <1>2, <1>4, <2>0, <2>1, <3>1 DEF LinkFields
  <2>2. CASE i # 1
    <3>1. i - 1 \in 1..(Len(s) - 1) /\ (i - 1) + 1 = i /\ r[i] = s[i - 1]
          /\ 1 \in 1..Len(s)
      BY <1>1, <1>5, <2>0, <2>2, <1>3
    <3>2. next[s[i - 1]] = s[i] /\ prev[s[i]] = s[i - 1]
      BY <3>1 DEF Chain
    <3>3. s[i] # p_head
      BY <1>1, <2>0, <2>2, <3>1 DEF Chain
    <3>4. s[i - 1] \in Elements /\ s[i - 1] # e
      BY <1>1, <1>6, <3>1
    <3> QED
      BY <1>2, <2>0, <3>1, <3>2, <3>3, <3>4 DEF LinkFields
  <2> QED
    BY <2>1, <2>2
<1>11. Chain(r)'
  BY <1>1, <1>3, <1>7, <1>8, <1>9, <1>10 DEF Chain
<1> QED
  BY <1>3, <1>4, <1>11

(* The list without its k-th element.                                       *)
Without(s, k) == [i \in 1..(Len(s) - 1) |-> IF i < k THEN s[i] ELSE s[i + 1]]

(* Whatever skips the element, in the fields of its neighbours and at the   *)
(* ends of the list.                                                        *)
LEMMA SkipChain ==
    ASSUME NEW s \in Seq(Elements), Chain(s), NEW k \in 1..Len(s),
           k = 1 => p_head' = (IF Len(s) = 1 THEN NULL ELSE s[2]),
           k # 1 => p_head' = p_head,
           k = Len(s) => p_tail' = (IF Len(s) = 1 THEN NULL ELSE s[Len(s) - 1]),
           k # Len(s) => p_tail' = p_tail,
           \A i \in 1..Len(s) : i # k =>
               /\ i + 1 # k => next'[s[i]] = next[s[i]]
               /\ i + 1 = k => next'[s[i]] = (IF k = Len(s) THEN NULL ELSE s[k + 1])
               /\ i # k + 1 => prev'[s[i]] = prev[s[i]]
               /\ i = k + 1 => prev'[s[i]] = (IF k = 1 THEN NULL ELSE s[k - 1]),
           allocated' = allocated \ {s[k]}
    PROVE  Without(s, k) \in Seq(Elements) /\ Chain(Without(s, k))'
<1> DEFINE r == Without(s, k)
<1>1. Len(s) \in Nat /\ k \in Nat /\ \A i \in 1..Len(s) : s[i] \in Elements
  BY ElementOfSeq
<1>2. r \in Seq(Elements) /\ Len(r) = Len(s) - 1
  <2>1. \A i \in 1..(Len(s) - 1) : (IF i < k THEN s[i] ELSE s[i + 1]) \in Elements
    BY <1>1
  <2>2. r \in [1..(Len(s) - 1) -> Elements]
    BY <2>1 DEF Without
  <2>3. Len(s) - 1 \in Nat
    BY <1>1
  <2> QED
    BY <2>2, <2>3
<1>3. \A i \in 1..(Len(s) - 1) : (i < k => r[i] = s[i]) /\ (~(i < k) => r[i] = s[i + 1])
  BY DEF Without
<1> HIDE DEF r
<1>4. \A i, j \in 1..Len(s) : s[i] = s[j] => i = j
  BY DEF Chain
<1>5. \A i, j \in 1..Len(r) : r[i] = r[j] => i = j
  <2> SUFFICES ASSUME NEW i \in 1..Len(r), NEW j \in 1..Len(r), r[i] = r[j]
               PROVE  i = j
    OBVIOUS
  <2>1. i \in 1..Len(s) /\ i + 1 \in 1..Len(s) /\ j \in 1..Len(s) /\ j + 1 \in 1..Len(s)
    BY <1>1, <1>2
  <2>2. CASE i < k /\ j < k
    BY <1>2, <1>3, <1>4, <2>1, <2>2
  <2>3. CASE i < k /\ ~(j < k)
    BY <1>1, <1>2, <1>3, <1>4, <2>1, <2>3
  <2>4. CASE ~(i < k) /\ j < k
    BY <1>1, <1>2, <1>3, <1>4, <2>1, <2>4
  <2>5. CASE ~(i < k) /\ ~(j < k)
    BY <1>1, <1>2, <1>3, <1>4, <2>1, <2>5
  <2> QED
    BY <2>2, <2>3, <2>4, <2>5
<1>6. allocated' = {r[i] : i \in 1..Len(r)}
  <2>1. allocated = {s[i] : i \in 1..Len(s)}
    BY DEF Chain
  <2>2. ASSUME NEW x, x \in allocated' PROVE \E i \in 1..Len(r) : x = r[i]
    <3>1. PICK i \in 1..Len(s) : x = s[i] /\ i # k
      <4>1. x \in allocated /\ x # s[k]
        BY <2>2
      <4> QED
        BY <2>1, <4>1
    <3>2. CASE i < k
      BY <1>1, <1>2, <1>3, <3>1, <3>2
    <3>3. CASE ~(i < k)
      <4>1. i - 1 \in 1..Len(r) /\ i - 1 \in 1..(Len(s) - 1) /\ ~(i - 1 < k)
              /\ (i - 1) + 1 = i
        BY <1>1, <1>2, <3>1, <3>3
      <4>2. x = r[i - 1]
        BY <1>3, <3>1, <4>1
      <4> QED
        BY <4>1, <4>2
    <3> QED
      BY <3>2, <3>3
  <2>3. ASSUME NEW i \in 1..Len(r) PROVE r[i] \in allocated'
    <3>0. i \in 1..(Len(s) - 1) /\ i \in 1..Len(s) /\ i + 1 \in 1..Len(s)
      BY <1>1, <1>2
    <3>1. PICK j \in 1..Len(s) : r[i] = s[j] /\ j # k
      <4>1. CASE i < k
        BY <1>1, <1>3, <3>0, <4>1
      <4>2. CASE ~(i < k)
        <5>1. i + 1 # k
          BY <1>1, <3>0, <4>2
        <5> QED
          BY <1>3, <3>0, <4>2, <5>1
      <4> QED
        BY <4>1, <4>2
    <3>2. r[i] # s[k] /\ r[i] \in allocated
      BY <1>4, <2>1, <3>1
    <3> QED
      BY <3>2
  <2> QED
    BY <2>2, <2>3
<1>7. Len(r) = 0 => p_head' = NULL /\ p_tail' = NULL
  BY <1>1, <1>2
<1>8. ASSUME Len(r) # 0
      PROVE  /\ p_head' = r[1] /\ p_tail' = r[Len(r)]
             /\ prev'[r[1]] = NULL /\ next'[r[Len(r)]] = NULL
  <2>0. Len(s) # 0 /\ Len(s) # 1 /\ 1 \in 1..(Len(s) - 1)
          /\ Len(s) - 1 \in 1..(Len(s) - 1)
        /\ 1 \in 1..Len(s) /\ 2 \in 1..Len(s) /\ Len(s) \in 1..Len(s)
        /\ Len(s) - 1 \in 1..Len(s) /\ (Len(s) - 1) + 1 = Len(s)
    BY <1>1, <1>2, <1>8
  <2>1. /\ p_head = s[1] /\ p_tail = s[Len(s)]
        /\ prev[s[1]] = NULL /\ next[s[Len(s)]] = NULL
    BY <2>0 DEF Chain
  <2>2. p_head' = r[1] /\ prev'[r[1]] = NULL
    <3>1. CASE k = 1
      <4>1. r[1] = s[2] /\ 2 = k + 1 /\ 2 # k
        BY <1>3, <2>0, <3>1
      <4>2. prev'[s[2]] = NULL
        BY <2>0, <3>1, <4>1
      <4> QED
        BY <2>0, <3>1, <4>1, <4>2
    <3>2. CASE k # 1
      <4>0. 1 < k /\ 1 # k /\ 1 # k + 1
        BY <1>1, <3>2
      <4>1. r[1] = s[1]
        BY <1>3, <2>0, <4>0
      <4>2. prev'[s[1]] = prev[s[1]]
        BY <2>0, <4>0
      <4> QED
        BY <2>1, <3>2, <4>0, <4>1, <4>2
    <3> QED
      BY <3>1, <3>2
  <2>3. p_tail' = r[Len(r)] /\ next'[r[Len(r)]] = NULL
    <3>1. CASE k = Len(s)
      <4>1. r[Len(r)] = s[Len(s) - 1] /\ Len(s) - 1 # k /\ (Len(s) - 1) + 1 = k
        BY <1>1, <1>2, <1>3, <2>0, <3>1
      <4>2. next'[s[Len(s) - 1]] = NULL
        BY <2>0, <3>1, <4>1
      <4> QED
        BY <2>0, <3>1, <4>1, <4>2
    <3>2. CASE k # Len(s)
      <4>1. r[Len(r)] = s[Len(s)] /\ Len(s) # k /\ Len(s) + 1 # k
        BY <1>1, <1>2, <1>3, <2>0, <3>2
      <4>2. next'[s[Len(s)]] = next[s[Len(s)]]
        BY <2>0, <4>1
      <4> QED
        BY <2>1, <3>2, <4>1, <4>2
    <3> QED
      BY <3>1, <3>2
  <2> QED
    BY <2>2, <2>3
<1>9. ASSUME NEW i \in 1..(Len(r) - 1)
      PROVE  next'[r[i]] = r[i + 1] /\ prev'[r[i + 1]] = r[i]
  <2>0. /\ i \in Nat /\ i \in 1..(Len(s) - 1) /\ i + 1 \in 1..(Len(s) - 1)
        /\ i \in 1..Len(s) /\ i + 1 \in 1..Len(s) /\ i + 2 \in 1..Len(s)
        /\ (i + 1) + 1 = i + 2 /\ (i + 2) - 1 = i + 1 /\ (i + 1) - 1 = i
    BY <1>1, <1>2
  <2>1. \A j \in 1..(Len(s) - 1) : next[s[j]] = s[j + 1] /\ prev[s[j + 1]] = s[j]
    BY DEF Chain
  <2>2. CASE i + 1 < k
    <3>1. r[i] = s[i] /\ r[i + 1] = s[i + 1] /\ i # k /\ i + 1 # k /\ i # k + 1
            /\ i + 1 # k + 1
      BY <1>1, <1>3, <2>0, <2>2
    <3>2. next'[s[i]] = next[s[i]] /\ prev'[s[i + 1]] = prev[s[i + 1]]
      BY <2>0, <3>1
    <3> QED
      BY <2>0, <2>1, <3>1, <3>2
  <2>3. CASE i + 1 = k
    <3>1. r[i] = s[i] /\ r[i + 1] = s[i + 2] /\ i # k /\ i + 2 # k /\ i + 2 = k + 1
          /\ k # Len(s) /\ k # 1 /\ s[k - 1] = s[i]
      BY <1>1, <1>3, <2>0, <2>3
    <3>2. next'[s[i]] = s[k + 1] /\ prev'[s[i + 2]] = s[k - 1]
      BY <2>0, <2>3, <3>1
    <3> QED
      BY <3>1, <3>2
  <2>4. CASE k < i + 1
    <3>1. r[i] = s[i + 1] /\ r[i + 1] = s[i + 2] /\ i + 1 # k /\ i + 2 # k
            /\ i + 2 # k + 1
      BY <1>1, <1>3, <2>0, <2>4
    <3>2. next'[s[i + 1]] = next[s[i + 1]]
      BY <2>0, <2>4, <3>1
    <3>3. prev'[s[i + 2]] = prev[s[i + 2]]
      BY <2>0, <2>4, <3>1
    <3>4. next[s[i + 1]] = s[i + 2] /\ prev[s[i + 2]] = s[i + 1]
      BY <2>0, <2>1
    <3> QED
      BY <3>1, <3>2, <3>3, <3>4
  <2> QED
    BY <1>1, <2>0, <2>2, <2>3, <2>4
<1>10. Chain(r)'
  BY <1>5, <1>6, <1>7, <1>8, <1>9 DEF Chain
<1> QED
  BY <1>2, <1>10 DEF r

(* What a search finds: the first of the list, if any.                      *)
LEMMA MatchIs ==
    ASSUME NEW s \in Seq(Elements), Chain(s), NEW d
    PROVE  \/ /\ List!FirstMatch(d) = NULL
              /\ \A j \in 1..Len(s) : data_ptr[s[j]] # d
           \/ \E k \in 1..Len(s) :
                 /\ List!FirstMatch(d) = s[k] /\ data_ptr[s[k]] = d
                 /\ \A j \in 1..(k - 1) : data_ptr[s[j]] # d
<1>1. \A n \in Nat \ {0} : List!At[n] = IF n <= Len(s) THEN s[n] ELSE NULL
  BY AtWalks DEF Walk
<1>2. /\ Len(s) \in Nat /\ Cardinality(Elements) \in Nat
      /\ Len(s) <= Cardinality(Elements)
  BY ChainLength DEF Chain
<1>3. \A n \in 1..Len(s) : s[n] \in Elements /\ s[n] # NULL
  BY ElementOfSeq, ListAssumption
<1> DEFINE matches == {n \in 1..Cardinality(Elements) : List!At[n] # NULL
      /\ data_ptr[List!At[n]] = d}
<1>4. ASSUME NEW n
      PROVE  n \in matches <=> n \in 1..Len(s) /\ data_ptr[s[n]] = d
  <2>1. CASE n \in 1..Cardinality(Elements)
    <3>1. n \in Nat \ {0}
      BY <1>2, <2>1
    <3>2. CASE n <= Len(s)
      <4>1. n \in 1..Len(s) /\ List!At[n] = s[n] /\ List!At[n] # NULL
        BY <1>1, <1>2, <1>3, <3>1, <3>2
      <4> QED
        BY <2>1, <4>1
    <3>3. CASE ~(n <= Len(s))
      <4>1. n \notin 1..Len(s) /\ List!At[n] = NULL
        BY <1>1, <1>2, <3>1, <3>3
      <4> QED
        BY <2>1, <4>1
    <3> QED
      BY <3>2, <3>3
  <2>2. CASE n \notin 1..Cardinality(Elements)
    <3>1. n \notin 1..Len(s)
      BY <1>2, <2>2
    <3> QED
      BY <2>2, <3>1
  <2> QED
    BY <2>1, <2>2
<1>5. List!FirstMatch(d) = IF matches = {} THEN NULL
                      ELSE List!At[CHOOSE n \in matches : \A m \in matches : n <= m]
  <2> DEFINE ms == {n \in 1..List!Cardinality(Elements) :
                        List!At[n] # NULL /\ data_ptr[List!At[n]] = d}
  <2>1. ms = matches
    BY SameSize
  <2>2. List!FirstMatch(d) = IF ms = {} THEN NULL
                             ELSE List!At[CHOOSE n \in ms : \A m \in ms : n <= m]
    BY DEF List!FirstMatch
  <2> HIDE DEF ms, matches
  <2> QED
    BY <2>1, <2>2
<1>6. matches \in SUBSET Nat
  BY <1>2
<1> HIDE DEF matches
<1>7. CASE matches = {}
  BY <1>4, <1>5, <1>7
<1>8. CASE matches # {}
  <2> DEFINE k == CHOOSE n \in matches : \A m \in matches : n <= m
  <2>1. k \in matches /\ \A m \in matches : k <= m
    BY <1>6, <1>8, Least
  <2>2. List!FirstMatch(d) = List!At[k]
    BY <1>5, <1>8
  <2> HIDE DEF k
  <2>3. k \in 1..Len(s) /\ data_ptr[s[k]] = d
    BY <1>4, <2>1
  <2>4. List!At[k] = s[k]
    BY <1>1, <1>2, <2>3
  <2>5. ASSUME NEW j \in 1..(k - 1) PROVE data_ptr[s[j]] # d
    <3>1. j \in 1..Len(s) /\ ~(k <= j)
      BY <1>2, <2>3
    <3>2. j \notin matches
      BY <2>1, <3>1
    <3> QED
      BY <1>4, <3>1, <3>2
  <2> QED
    BY <2>2, <2>3, <2>4, <2>5
<1> QED
  BY <1>7, <1>8

LEMMA RemoveChain ==
    ASSUME LinkFields, NEW s \in Seq(Elements), Chain(s), List!Remove
    PROVE  /\ Len(s) # 0 /\ result' = <<data_ptr[s[Len(s)]]>>
           /\ Without(s, Len(s)) \in Seq(Elements) /\ Chain(Without(s, Len(s)))'
<1>1. Len(s) \in Nat /\ \A i \in 1..Len(s) : s[i] \in Elements /\ s[i] # NULL
  BY ElementOfSeq, ListAssumption
<1>2. /\ p_tail # NULL
      /\ result' = <<data_ptr[p_tail]>>
      /\ p_tail' = prev[p_tail]
      /\ next' = [x \in Elements |-> IF x = prev[p_tail] THEN NULL ELSE next[x]]
      /\ p_head' = IF prev[p_tail] = NULL THEN NULL ELSE p_head
      /\ allocated' = allocated \ {p_tail}
      /\ prev' = prev
  BY DEF List!Remove
<1>0. Len(s) \in Nat
  BY <1>1
<1>3. Len(s) # 0
  BY <1>2 DEF Chain
<1> PICK k : k = Len(s)
  OBVIOUS
<1>4. k \in 1..Len(s) /\ 1 \in 1..Len(s) /\ p_tail = s[k]
  BY <1>1, <1>3 DEF Chain
<1>5. prev[p_tail] = IF k = 1 THEN NULL ELSE s[k - 1]
  <2>1. CASE k = 1
    BY <1>3, <1>4, <2>1 DEF Chain
  <2>2. CASE k # 1
    <3>1. k - 1 \in 1..(Len(s) - 1) /\ (k - 1) + 1 = k
      BY <1>0, <1>3, <2>2
    <3> QED
      BY <1>4, <2>2, <3>1 DEF Chain
  <2> QED
    BY <2>1, <2>2
<1>6. \A i, j \in 1..Len(s) : s[i] = s[j] => i = j
  BY DEF Chain
<1>7. k # 1 => k - 1 \in 1..Len(s)
  BY <1>0, <1>3
<1>8. ASSUME NEW i \in 1..Len(s), i # k
      PROVE  /\ i + 1 # k => next'[s[i]] = next[s[i]]
             /\ i + 1 = k => next'[s[i]] = (IF k = Len(s) THEN NULL ELSE s[k + 1])
             /\ i # k + 1 => prev'[s[i]] = prev[s[i]]
             /\ i = k + 1 => prev'[s[i]] = (IF k = 1 THEN NULL ELSE s[k - 1])
  <2>1. i # k + 1
    BY <1>1
  <2>2. i + 1 # k => s[i] # prev[p_tail]
    BY <1>1, <1>5, <1>6, <1>7
  <2>3. i + 1 = k => s[i] = prev[p_tail]
    BY <1>1, <1>5
  <2> QED
    BY <1>1, <1>2, <2>1, <2>2, <2>3
<1>9. k = 1 => p_head' = (IF Len(s) = 1 THEN NULL ELSE s[2])
  BY <1>2, <1>5
<1>10. k # 1 => p_head' = p_head
  BY <1>1, <1>2, <1>5, <1>7
<1>11. k = Len(s) => p_tail' = (IF Len(s) = 1 THEN NULL ELSE s[Len(s) - 1])
  BY <1>2, <1>5
<1>12. k # Len(s) => p_tail' = p_tail
  OBVIOUS
<1>13. allocated' = allocated \ {s[k]}
  BY <1>2, <1>4
<1>14. result' = <<data_ptr[s[k]]>>
  BY <1>2, <1>4
<1>15. Without(s, k) \in Seq(Elements) /\ Chain(Without(s, k))'
  BY <1>4, <1>8, <1>9, <1>10, <1>11, <1>12, <1>13, SkipChain
<1> QED
  BY <1>3, <1>14, <1>15

LEMMA UnlinkChain ==
    ASSUME LinkFields, NEW s \in Seq(Elements), Chain(s), NEW k \in 1..Len(s),
           List!Unlink(s[k]), allocated' = allocated \ {s[k]}
    PROVE  Without(s, k) \in Seq(Elements) /\ Chain(Without(s, k))'
<1> DEFINE e == s[k]
<1>1. Len(s) \in Nat /\ \A i \in 1..Len(s) : s[i] \in Elements /\ s[i] # NULL
  BY ElementOfSeq, ListAssumption
<1>2. /\ p_head' = IF prev[e] = NULL THEN next[e] ELSE p_head
      /\ p_tail' = IF next[e] = NULL THEN prev[e] ELSE p_tail
      /\ next' = [x \in Elements |-> IF x = e THEN NULL
                                     ELSE IF x = prev[e] THEN next[e] ELSE next[x]]
      /\ prev' = [x \in Elements |-> IF x = e THEN NULL
                                     ELSE IF x = next[e] THEN prev[e] ELSE prev[x]]
  BY DEF List!Unlink
<1>3. k \in Nat /\ Len(s) # 0
  BY <1>1
<1>4. prev[e] = IF k = 1 THEN NULL ELSE s[k - 1]
  <2>1. CASE k = 1
    BY <1>3, <2>1 DEF Chain
  <2>2. CASE k # 1
    <3>1. k - 1 \in 1..(Len(s) - 1) /\ (k - 1) + 1 = k
      BY <1>1, <2>2
    <3> QED
      BY <2>2, <3>1 DEF Chain
  <2> QED
    BY <2>1, <2>2
<1>5. next[e] = IF k = Len(s) THEN NULL ELSE s[k + 1]
  <2>1. CASE k = Len(s)
    BY <1>3, <2>1 DEF Chain
  <2>2. CASE k # Len(s)
    <3>1. k \in 1..(Len(s) - 1)
      BY <1>1, <2>2
    <3> QED
      BY <2>2, <3>1 DEF Chain
  <2> QED
    BY <2>1, <2>2
<1>6. \A i, j \in 1..Len(s) : s[i] = s[j] => i = j
  BY DEF Chain
<1>7. (k # 1 => k - 1 \in 1..Len(s)) /\ (k # Len(s) => k + 1 \in 1..Len(s))
  BY <1>1
<1> HIDE DEF e
<1>8. ASSUME NEW i \in 1..Len(s), i # k
      PROVE  /\ i + 1 # k => next'[s[i]] = next[s[i]]
             /\ i + 1 = k => next'[s[i]] = (IF k = Len(s) THEN NULL ELSE s[k + 1])
             /\ i # k + 1 => prev'[s[i]] = prev[s[i]]
             /\ i = k + 1 => prev'[s[i]] = (IF k = 1 THEN NULL ELSE s[k - 1])
  <2>1. s[i] # e /\ s[i] \in Elements /\ s[i] # NULL
    BY <1>1, <1>6, <1>8 DEF e
  <2>2. i + 1 # k => s[i] # prev[e]
    <3>1. CASE k = 1
      BY <1>4, <2>1, <3>1
    <3>2. CASE k # 1
      BY <1>1, <1>3, <1>4, <1>6, <1>7, <3>2
    <3> QED
      BY <3>1, <3>2
  <2>3. i + 1 = k => s[i] = prev[e]
    BY <1>1, <1>3, <1>4
  <2>4. i # k + 1 => s[i] # next[e]
    <3>1. CASE k = Len(s)
      BY <1>5, <2>1, <3>1
    <3>2. CASE k # Len(s)
      BY <1>1, <1>3, <1>5, <1>6, <1>7, <3>2
    <3> QED
      BY <3>1, <3>2
  <2>5. i = k + 1 => s[i] = next[e]
    BY <1>1, <1>3, <1>5
  <2>6. next'[s[i]] = IF s[i] = prev[e] THEN next[e] ELSE next[s[i]]
    BY <1>2, <2>1
  <2>7. prev'[s[i]] = IF s[i] = next[e] THEN prev[e] ELSE prev[s[i]]
    BY <1>2, <2>1
  <2> QED
    BY <1>4, <1>5, <2>2, <2>3, <2>4, <2>5, <2>6, <2>7
<1>9. k = 1 => p_head' = (IF Len(s) = 1 THEN NULL ELSE s[2])
  BY <1>2, <1>4, <1>5
<1>10. k # 1 => p_head' = p_head
  BY <1>1, <1>2, <1>4, <1>7
<1>11. k = Len(s) => p_tail' = (IF Len(s) = 1 THEN NULL ELSE s[Len(s) - 1])
  BY <1>2, <1>4, <1>5
<1>12. k # Len(s) => p_tail' = p_tail
  BY <1>1, <1>2, <1>5, <1>7
<1>13. allocated' = allocated \ {s[k]}
  OBVIOUS
<1> QED
  BY <1>8, <1>9, <1>10, <1>11, <1>12, <1>13, SkipChain

LEMMA FlushChain ==
    ASSUME NEW s \in Seq(Elements), Chain(s), List!Flush
    PROVE  Chain(<<>>)'
<1>1. {List!At[n] : n \in 1..Cardinality(Elements)} \ {NULL} = {s[i] : i \in 1..Len(s)}
  BY ChainIs DEF ChainSays
<1>2. allocated = {s[i] : i \in 1..Len(s)}
  BY DEF Chain
<1>3. allocated' = {}
  BY <1>1, <1>2, SameSize DEF List!Flush
<1>4. p_head' = NULL /\ p_tail' = NULL
  BY DEF List!Flush
<1>5. Len(<<>>) = 0 /\ 1..0 = {} /\ 1..(0 - 1) = {}
  OBVIOUS
<1> QED
  BY <1>3, <1>4, <1>5 DEF Chain

(* The fields keep their types.                                             *)
LEMMA LinkFieldsStay ==
    ASSUME LinksInv, [List!Next]_(List!vars)
    PROVE  LinkFields'
<1>1. PICK s \in Seq(Elements) : Chain(s)
  BY DEF LinksInv
<1>2. LinkFields
  BY DEF LinksInv
<1>3. Len(s) \in Nat /\ \A i \in 1..Len(s) : s[i] \in Elements
  BY ElementOfSeq
<1>4. p_head \in List!Pointers
  <2>1. CASE Len(s) = 0
    BY <1>1, <2>1 DEF Chain, List!Pointers
  <2>2. CASE Len(s) # 0
    BY <1>1, <1>3, <2>2 DEF Chain, List!Pointers
  <2> QED
    BY <2>1, <2>2
<1>5. p_tail # NULL => p_tail \in Elements
  BY <1>1, <1>3 DEF Chain
<1>6. ASSUME NEW d \in Data, NEW e \in Elements, List!Add(e, d) PROVE LinkFields'
  <2>1. prev' \in [Elements -> List!Pointers]
    <3>1. prev' = [x \in Elements |-> IF x = e THEN NULL
                                      ELSE IF x = p_head THEN e ELSE prev[x]]
      BY <1>6 DEF List!Add
    <3>2. \A x \in Elements : (IF x = e THEN NULL
                               ELSE IF x = p_head THEN e ELSE prev[x]) \in List!Pointers
      BY <1>2 DEF LinkFields, List!Pointers
    <3> QED
      BY <3>1, <3>2
  <2>2. next' \in [Elements -> List!Pointers]
    BY <1>2, <1>4, <1>6 DEF LinkFields, List!Add
  <2>3. data_ptr' \in [Elements -> Data] /\ result' \in Seq(Data)
    BY <1>2, <1>6 DEF LinkFields, List!Add
  <2> QED
    BY <2>1, <2>2, <2>3 DEF LinkFields
<1>7. ASSUME List!Remove PROVE LinkFields'
  <2>1. p_tail \in Elements
    BY <1>5, <1>7 DEF List!Remove
  <2>2. next' = [x \in Elements |-> IF x = prev[p_tail] THEN NULL ELSE next[x]]
    BY <1>7 DEF List!Remove
  <2>3. \A x \in Elements : (IF x = prev[p_tail] THEN NULL ELSE next[x]) \in List!Pointers
    BY <1>2 DEF LinkFields, List!Pointers
  <2>4. next' \in [Elements -> List!Pointers]
    BY <2>2, <2>3
  <2>5. data_ptr[p_tail] \in Data /\ result' = <<data_ptr[p_tail]>>
    BY <1>2, <1>7, <2>1 DEF LinkFields, List!Remove
  <2>6. result' \in Seq(Data)
    BY <2>5
  <2>7. prev' = prev /\ data_ptr' = data_ptr
    BY <1>7 DEF List!Remove
  <2> QED
    BY <1>2, <2>4, <2>6, <2>7 DEF LinkFields
<1>8. CASE List!RemoveNothing
  BY <1>2, <1>8 DEF List!RemoveNothing, LinkFields, List!list
<1>9. ASSUME NEW d \in Data, NEW rm \in BOOLEAN, List!Search(d, rm) PROVE LinkFields'
  <2> DEFINE e == List!FirstMatch(d)
  <2>1. CASE e = NULL /\ result' = <<>> /\ UNCHANGED List!list
    BY <1>2, <2>1 DEF LinkFields, List!list
  <2>2. CASE /\ e # NULL
             /\ result' = <<data_ptr[e]>>
             /\ IF rm THEN /\ List!Unlink(e)
                           /\ allocated' = allocated \ {e}
                           /\ UNCHANGED data_ptr
                      ELSE UNCHANGED List!list
    <3>1. e \in Elements
      <4>1. PICK k \in 1..Len(s) : e = s[k]
        BY <1>1, <2>2, MatchIs
      <4> QED
        BY <1>3, <4>1
    <3> HIDE DEF e
    <3>2. data_ptr[e] \in Data /\ next[e] \in List!Pointers /\ prev[e] \in List!Pointers
      BY <1>2, <3>1 DEF LinkFields
    <3>3. result' \in Seq(Data)
      BY <2>2, <3>2
    <3>4. CASE rm
      <4>1. /\ next' = [x \in Elements |-> IF x = e THEN NULL
                                      ELSE IF x = prev[e] THEN next[e] ELSE next[x]]
            /\ prev' = [x \in Elements |-> IF x = e THEN NULL
                                      ELSE IF x = next[e] THEN prev[e] ELSE prev[x]]
            /\ data_ptr' = data_ptr
        BY <2>2, <3>4 DEF List!Unlink
      <4>2. \A x \in Elements : (IF x = e THEN NULL
                  ELSE IF x = prev[e] THEN next[e] ELSE next[x]) \in List!Pointers
        BY <1>2, <3>2 DEF LinkFields, List!Pointers
      <4>3. \A x \in Elements : (IF x = e THEN NULL
                  ELSE IF x = next[e] THEN prev[e] ELSE prev[x]) \in List!Pointers
        BY <1>2, <3>2 DEF LinkFields, List!Pointers
      <4>4. next' \in [Elements -> List!Pointers]
              /\ prev' \in [Elements -> List!Pointers]
        BY <4>1, <4>2, <4>3
      <4> QED
        BY <1>2, <3>3, <4>1, <4>4 DEF LinkFields
    <3>5. CASE ~rm
      BY <1>2, <2>2, <3>3, <3>5 DEF LinkFields, List!list
    <3> QED
      BY <3>4, <3>5
  <2> QED
    BY <1>9, <2>1, <2>2 DEF List!Search
<1>10. CASE List!Flush
  BY <1>2, <1>10 DEF List!Flush, LinkFields
<1>11. CASE UNCHANGED List!vars
  BY <1>2, <1>11 DEF LinkFields, List!vars, List!list
<1> QED
  BY <1>6, <1>7, <1>8, <1>9, <1>10, <1>11 DEF List!Next

-----------------------------------------------------------------------------
(* What the elements hold, before and after a step.                         *)
LEMMA HeldIs ==
    ASSUME LinkFields, NEW s \in Seq(Elements)
    PROVE  /\ Held(s) \in Seq(Data) /\ Len(Held(s)) = Len(s)
           /\ \A i \in 1..Len(s) : Held(s)[i] = data_ptr[s[i]]
<1>1. Len(s) \in Nat /\ \A i \in 1..Len(s) : s[i] \in Elements
  BY ElementOfSeq
<1>2. \A i \in 1..Len(s) : data_ptr[s[i]] \in Data
  BY <1>1 DEF LinkFields
<1>3. Held(s) \in [1..Len(s) -> Data]
  BY <1>2 DEF Held
<1> QED
  BY <1>1, <1>3 DEF Held

HeldOf ==
    LinkFields => \A s \in Seq(Elements) :
        /\ Held(s) \in Seq(Data) /\ Len(Held(s)) = Len(s)
        /\ \A i \in 1..Len(s) : Held(s)[i] = data_ptr[s[i]]

LEMMA HeldAfter == HeldOf'
<1>1. HeldOf
  BY HeldIs DEF HeldOf
<1> QED
  BY <1>1, PTL

(* A new head is a new first item.                                          *)
LEMMA AddStep ==
    ASSUME LinkFields, LinkFields', NEW s \in Seq(Elements), Chain(s),
           NEW e \in Elements, NEW d \in Data, List!Add(e, d)
    PROVE  \E t \in Seq(Elements) : Chain(t)' /\ Held(t)' = <<d>> \o Held(s)
<1>1. PICK t \in Seq(Elements) :
           /\ Chain(t)' /\ Len(t) = Len(s) + 1 /\ t[1] = e
           /\ \A i \in 1..Len(s) : t[i + 1] = s[i]
  BY AddChain
<1>2. Len(s) \in Nat /\ \A i \in 1..Len(s) : s[i] \in Elements /\ s[i] \in allocated
  BY ElementOfSeq DEF Chain
<1>3. data_ptr' = [data_ptr EXCEPT ![e] = d] /\ e \notin allocated
  BY DEF List!Add
<1>4. data_ptr'[e] = d /\ \A i \in 1..Len(s) : data_ptr'[s[i]] = data_ptr[s[i]]
  BY <1>2, <1>3 DEF LinkFields
<1> DEFINE h == Held(s)
           g == Held(t)'
<1>5. h \in Seq(Data) /\ Len(h) = Len(s) /\ \A i \in 1..Len(s) : h[i] = data_ptr[s[i]]
  BY HeldIs
<1>6. g \in Seq(Data) /\ Len(g) = Len(t) /\ \A i \in 1..Len(t) : g[i] = data_ptr'[t[i]]
  BY HeldAfter DEF HeldOf
<1> HIDE DEF h, g
<1>7. <<d>> \o h \in Seq(Data) /\ Len(<<d>> \o h) = Len(s) + 1
      /\ (<<d>> \o h)[1] = d
      /\ \A i \in 1..Len(s) : (<<d>> \o h)[i + 1] = h[i]
  BY <1>2, <1>5
<1>8. \A j \in 1..Len(t) : j = 1 \/ \E i \in 1..Len(s) : j = i + 1
  <2> SUFFICES ASSUME NEW j \in 1..Len(t), j # 1
               PROVE  \E i \in 1..Len(s) : j = i + 1
    OBVIOUS
  <2>1. j - 1 \in 1..Len(s) /\ j = (j - 1) + 1
    BY <1>1, <1>2
  <2> QED
    BY <2>1
<1>9. ASSUME NEW j \in 1..Len(t) PROVE g[j] = (<<d>> \o h)[j]
  <2>1. CASE j = 1
    BY <1>1, <1>4, <1>6, <1>7, <2>1
  <2>2. CASE j # 1
    <3>1. PICK i \in 1..Len(s) : j = i + 1
      BY <1>8, <2>2
    <3>2. g[j] = data_ptr[s[i]]
      BY <1>1, <1>4, <1>6, <3>1
    <3>3. (<<d>> \o h)[j] = data_ptr[s[i]]
      BY <1>5, <1>7, <3>1
    <3> QED
      BY <3>2, <3>3
  <2> QED
    BY <2>1, <2>2
<1>10. g = <<d>> \o h
  BY <1>1, <1>6, <1>7, <1>9, SeqEqual
<1> QED
  BY <1>1, <1>10 DEF g, h

(* A list without its k-th element holds the items without the k-th.        *)
LEMMA WithoutStep ==
    ASSUME LinkFields, LinkFields', NEW s \in Seq(Elements), NEW k \in 1..Len(s),
           data_ptr' = data_ptr, Without(s, k) \in Seq(Elements)
    PROVE  Held(Without(s, k))' =
               SubSeq(Held(s), 1, k - 1) \o SubSeq(Held(s), k + 1, Len(Held(s)))
<1>1. Len(s) \in Nat /\ k \in Nat /\ k # 0 /\ k <= Len(s)
      /\ \A i \in 1..Len(s) : s[i] \in Elements
  BY ElementOfSeq
<1> DEFINE r == Without(s, k)
           h == Held(s)
           g == Held(r)'
           a == SubSeq(h, 1, k - 1)
           b == SubSeq(h, k + 1, Len(h))
<1>2. Len(r) = Len(s) - 1
      /\ \A i \in 1..(Len(s) - 1) : r[i] = IF i < k THEN s[i] ELSE s[i + 1]
  BY <1>1 DEF Without
<1>3. h \in Seq(Data) /\ Len(h) = Len(s) /\ \A i \in 1..Len(s) : h[i] = data_ptr[s[i]]
  BY HeldIs
<1>4. g \in Seq(Data) /\ Len(g) = Len(r) /\ \A i \in 1..Len(r) : g[i] = data_ptr'[r[i]]
  BY HeldAfter DEF HeldOf
<1> HIDE DEF r, h, g
<1>5. a \in Seq(Data) /\ Len(a) = k - 1 /\ \A i \in 1..(k - 1) : a[i] = h[i]
  BY <1>1, <1>3
<1>6. b \in Seq(Data) /\ Len(b) = Len(s) - k
      /\ \A i \in 1..(Len(s) - k) : b[i] = h[k + i]
  BY <1>1, <1>3
<1> HIDE DEF a, b
<1>7. a \o b \in Seq(Data) /\ Len(a \o b) = Len(s) - 1
      /\ (\A i \in 1..(k - 1) : (a \o b)[i] = a[i])
      /\ (\A i \in 1..(Len(s) - 1) : ~(i < k) => (a \o b)[i] = b[i - (k - 1)])
  <2>1. /\ a \o b \in Seq(Data) /\ Len(a \o b) = Len(a) + Len(b)
        /\ \A i \in 1..(Len(a) + Len(b)) :
              (a \o b)[i] = IF i <= Len(a) THEN a[i] ELSE b[i - Len(a)]
    BY <1>5, <1>6, ConcatProperties
  <2>2. Len(a) + Len(b) = Len(s) - 1
    BY <1>1, <1>5, <1>6
  <2>3. ASSUME NEW i \in 1..(k - 1) PROVE (a \o b)[i] = a[i]
    <3>1. i \in 1..(Len(a) + Len(b)) /\ i <= Len(a)
      BY <1>1, <1>5, <2>2
    <3> QED
      BY <2>1, <3>1
  <2>4. ASSUME NEW i \in 1..(Len(s) - 1), ~(i < k) PROVE (a \o b)[i] = b[i - (k - 1)]
    <3>1. i \in 1..(Len(a) + Len(b)) /\ ~(i <= Len(a)) /\ Len(a) = k - 1
      BY <1>1, <1>5, <2>2, <2>4
    <3> QED
      BY <2>1, <3>1
  <2> QED
    BY <2>1, <2>2, <2>3, <2>4
<1>8. ASSUME NEW i \in 1..Len(r) PROVE g[i] = (a \o b)[i]
  <2>0. i \in 1..(Len(s) - 1) /\ i \in Nat
    BY <1>1, <1>2
  <2>1. CASE i < k
    <3>1. i \in 1..(k - 1) /\ i \in 1..Len(s)
      BY <1>1, <2>0, <2>1
    <3>2. g[i] = data_ptr[s[i]]
      BY <1>2, <1>4, <2>0, <2>1
    <3>3. (a \o b)[i] = data_ptr[s[i]]
      BY <1>3, <1>5, <1>7, <3>1
    <3> QED
      BY <3>2, <3>3
  <2>2. CASE ~(i < k)
    <3>1. i - (k - 1) \in 1..(Len(s) - k) /\ k + (i - (k - 1)) = i + 1
            /\ i + 1 \in 1..Len(s)
      BY <1>1, <2>0, <2>2
    <3>2. g[i] = data_ptr[s[i + 1]]
      BY <1>2, <1>4, <2>0, <2>2
    <3>3. (a \o b)[i] = h[i + 1]
      BY <1>6, <1>7, <2>0, <2>2, <3>1
    <3> QED
      BY <1>3, <3>1, <3>2, <3>3
  <2> QED
    BY <2>1, <2>2
<1>9. g = a \o b
  BY <1>2, <1>4, <1>7, <1>8, SeqEqual
<1> QED
  BY <1>9 DEF g, r, a, b, h

(* Every step of the pointers is one of the items, and leaves a chain.      *)
LEMMA LinksNext ==
    ASSUME LinksInv, [List!Next]_(List!vars)
    PROVE  LinksInv' /\ [List!Abstract!Next]_<<List!Items, result>>
<1>1. PICK s \in Seq(Elements) : Chain(s)
  BY DEF LinksInv
<1>2. LinkFields /\ LinkFields'
  BY LinkFieldsStay DEF LinksInv
<1>3. Len(s) \in Nat /\ \A i \in 1..Len(s) : s[i] \in Elements /\ s[i] # NULL
  BY ElementOfSeq, ListAssumption
<1>4. /\ Held(s) \in Seq(Data) /\ Len(Held(s)) = Len(s)
      /\ \A i \in 1..Len(s) : Held(s)[i] = data_ptr[s[i]]
  BY <1>2, HeldIs
<1>5. List!Items = Held(s)
  BY <1>1, ChainIs DEF ChainSays
<1>6. ASSUME UNCHANGED List!list PROVE LinksInv' /\ List!Items' = List!Items
  <2>1. Chain(s)'
    BY <1>1, <1>6 DEF Chain, List!list
  <2>2. List!Items' = Held(s)' /\ Held(s)' = Held(s)
    BY <1>6, <2>1, ChainIsAfter DEF Held, List!list
  <2> QED
    BY <1>2, <1>5, <2>1, <2>2 DEF LinksInv
<1>7. ASSUME NEW d \in Data, NEW e \in Elements, List!Add(e, d)
      PROVE  LinksInv' /\ List!Abstract!Next
  <2>1. PICK t \in Seq(Elements) : Chain(t)' /\ Held(t)' = <<d>> \o Held(s)
    BY <1>1, <1>2, <1>7, AddStep
  <2>2. List!Items' = <<d>> \o List!Items
    BY <1>5, <2>1, ChainIsAfter
  <2>3. List!Abstract!Add(d)
    BY <1>7, <2>2 DEF List!Abstract!Add, List!Add
  <2> QED
    BY <1>2, <2>1, <2>3 DEF LinksInv, List!Abstract!Next
<1>8. ASSUME List!Remove PROVE LinksInv' /\ List!Abstract!Next
  <2> DEFINE k == Len(s)
  <2>1. /\ Len(s) # 0 /\ result' = <<data_ptr[s[k]]>>
        /\ Without(s, k) \in Seq(Elements) /\ Chain(Without(s, k))'
    BY <1>1, <1>2, <1>8, RemoveChain
  <2>2. k \in 1..Len(s)
    BY <1>3, <2>1
  <2>3. data_ptr' = data_ptr
    BY <1>8 DEF List!Remove
  <2>4. List!Items' = SubSeq(List!Items, 1, k - 1) \o SubSeq(List!Items, k + 1,
          Len(List!Items))
    <3>1. List!Items' = Held(Without(s, k))'
      BY <2>1, ChainIsAfter
    <3> HIDE DEF k
    <3>2. Held(Without(s, k))' =
              SubSeq(Held(s), 1, k - 1) \o SubSeq(Held(s), k + 1, Len(Held(s)))
      BY <1>2, <2>1, <2>2, <2>3, WithoutStep
    <3> QED
      BY <1>5, <3>1, <3>2
  <2>5. List!Items' = SubSeq(List!Items, 1, Len(List!Items) - 1)
    <3>1. Len(List!Items) = k /\ List!Items \in Seq(Data)
      BY <1>4, <1>5
    <3>2. SubSeq(List!Items, k + 1, Len(List!Items)) = <<>>
      BY <1>3, <3>1
    <3>3. SubSeq(List!Items, 1, k - 1) \in Seq(Data)
      BY <1>3, <2>1, <3>1
    <3> HIDE DEF k
    <3>4. SubSeq(List!Items, 1, k - 1) \o <<>> = SubSeq(List!Items, 1, k - 1)
      BY <3>3
    <3> QED
      BY <2>4, <3>1, <3>2, <3>4
  <2>6. List!Items # <<>> /\ result' = <<List!Items[Len(List!Items)]>>
    BY <1>3, <1>4, <1>5, <2>1, <2>2
  <2>7. List!Abstract!Remove
    BY <2>5, <2>6 DEF List!Abstract!Remove
  <2>8. LinksInv'
    BY <1>2, <2>1 DEF LinksInv
  <2> QED
    BY <2>7, <2>8 DEF List!Abstract!Next
<1>9. ASSUME List!RemoveNothing PROVE LinksInv' /\ List!Abstract!Next
  <2>1. LinksInv' /\ List!Items' = List!Items
    BY <1>6, <1>9 DEF List!RemoveNothing
  <2>2. Len(s) = 0
    BY <1>1, <1>3, <1>9 DEF List!RemoveNothing, Chain
  <2>3. List!Items = <<>>
    BY <1>4, <1>5, <2>2
  <2>4. List!Abstract!Remove
    BY <1>9, <2>1, <2>3 DEF List!Abstract!Remove, List!RemoveNothing
  <2> QED
    BY <2>1, <2>4 DEF List!Abstract!Next
<1>10. ASSUME NEW d \in Data, NEW rm \in BOOLEAN, List!Search(d, rm)
       PROVE  LinksInv' /\ List!Abstract!Search(d, rm)
  <2>1. CASE List!FirstMatch(d) = NULL
    <3>1. result' = <<>> /\ UNCHANGED List!list
      BY <1>10, <2>1 DEF List!Search
    <3>2. \A j \in 1..Len(s) : data_ptr[s[j]] # d
      <4>1. ASSUME NEW k \in 1..Len(s) PROVE List!FirstMatch(d) # s[k]
        BY <1>3, <2>1
      <4> QED
        BY <1>1, <4>1, MatchIs
    <3>3. \A j \in 1..Len(List!Items) : List!Items[j] # d
      BY <1>4, <1>5, <3>2
    <3>4. LinksInv' /\ List!Items' = List!Items
      BY <1>6, <3>1
    <3> QED
      BY <3>1, <3>3, <3>4 DEF List!Abstract!Search
  <2>2. CASE List!FirstMatch(d) # NULL
    <3>1. PICK k \in 1..Len(s) :
               /\ List!FirstMatch(d) = s[k] /\ data_ptr[s[k]] = d
               /\ \A j \in 1..(k - 1) : data_ptr[s[j]] # d
      BY <1>1, <2>2, MatchIs
    <3>2. /\ result' = <<d>>
          /\ IF rm THEN /\ List!Unlink(s[k])
                        /\ allocated' = allocated \ {s[k]}
                        /\ UNCHANGED data_ptr
                   ELSE UNCHANGED List!list
      BY <1>10, <2>2, <3>1 DEF List!Search
    <3>3. k \in 1..Len(List!Items) /\ List!Abstract!Found(d, k)
      <4>1. List!Items[k] = d
        BY <1>4, <1>5, <3>1
      <4>2. ASSUME NEW j \in 1..(k - 1) PROVE List!Items[j] # d
        <5>1. j \in 1..Len(s)
          BY <1>3
        <5> QED
          BY <1>4, <1>5, <3>1, <5>1
      <4> QED
        BY <1>4, <1>5, <4>1, <4>2 DEF List!Abstract!Found
    <3>4. CASE rm
      <4>1. Without(s, k) \in Seq(Elements) /\ Chain(Without(s, k))'
        BY <1>1, <1>2, <3>2, <3>4, UnlinkChain
      <4>2. Held(Without(s, k))' =
                SubSeq(Held(s), 1, k - 1) \o SubSeq(Held(s), k + 1, Len(Held(s)))
        BY <1>2, <3>2, <3>4, <4>1, WithoutStep
      <4>3. List!Items' = Held(Without(s, k))'
        BY <4>1, ChainIsAfter
      <4>4. List!Items' = SubSeq(List!Items, 1, k - 1) \o SubSeq(List!Items, k + 1,
              Len(List!Items))
        BY <1>5, <4>2, <4>3
      <4>5. List!Abstract!Search(d, rm)
        BY <3>2, <3>3, <3>4, <4>4 DEF List!Abstract!Search
      <4>6. LinksInv'
        BY <1>2, <4>1 DEF LinksInv
      <4> QED
        BY <4>5, <4>6
    <3>5. CASE ~rm
      <4>1. LinksInv' /\ List!Items' = List!Items
        BY <1>6, <3>2, <3>5
      <4> QED
        BY <3>2, <3>3, <3>5, <4>1 DEF List!Abstract!Search
    <3> QED
      BY <3>4, <3>5
  <2> QED
    BY <2>1, <2>2
<1>11. ASSUME List!Flush PROVE LinksInv' /\ List!Abstract!Next
  <2>1. <<>> \in Seq(Elements) /\ Chain(<<>>)'
    BY <1>1, <1>11, FlushChain
  <2>2. List!Items' = Held(<<>>)'
    BY <2>1, ChainIsAfter
  <2>3. Held(<<>>)' = <<>>
    <3>1. Held(<<>>)' \in Seq(Data) /\ Len(Held(<<>>)') = Len(<<>>)
      BY <1>2, <2>1, HeldAfter DEF HeldOf
    <3> QED
      BY <3>1, EmptySeq
  <2>4. List!Abstract!Flush
    BY <1>11, <2>2, <2>3 DEF List!Abstract!Flush, List!Flush
  <2> QED
    BY <1>2, <2>1, <2>4 DEF LinksInv, List!Abstract!Next
<1>12. CASE UNCHANGED List!vars
  BY <1>6, <1>12 DEF List!vars
<1>13. CASE List!Next
  <2>1. ASSUME NEW d \in Data, List!Search(d, TRUE) \/ List!Search(d, FALSE)
        PROVE  LinksInv' /\ List!Abstract!Next
    <3>1. LinksInv' /\ (List!Abstract!Search(d, TRUE) \/ List!Abstract!Search(d, FALSE))
      BY <1>10, <2>1
    <3> QED
      BY <3>1 DEF List!Abstract!Next
  <2> QED
    BY <1>7, <1>8, <1>9, <1>11, <1>13, <2>1 DEF List!Next
<1> QED
  BY <1>12, <1>13

LEMMA LinksStart == List!Init => LinksInv /\ List!Abstract!Init
<1> SUFFICES ASSUME List!Init PROVE LinksInv /\ List!Abstract!Init
  OBVIOUS
<1>1. <<>> \in Seq(Elements) /\ Len(<<>>) = 0 /\ 1..0 = {} /\ 1..(0 - 1) = {}
  OBVIOUS
<1>2. Chain(<<>>)
  BY <1>1 DEF List!Init, Chain
<1>3. LinkFields
  BY DEF List!Init, LinkFields, List!Pointers
<1>4. List!Items = Held(<<>>)
  BY <1>1, <1>2, ChainIs DEF ChainSays
<1>5. Held(<<>>) = <<>>
  <2>1. Held(<<>>) \in Seq(Data) /\ Len(Held(<<>>)) = 0
    BY <1>1, <1>3, HeldIs
  <2> QED
    BY <2>1, EmptySeq
<1>6. result = <<>>
  BY DEF List!Init
<1> QED
  BY <1>1, <1>2, <1>3, <1>4, <1>5, <1>6 DEF LinksInv, List!Abstract!Init

(* A chain is the mirror image of itself.                                   *)
LEMMA LinksMirrored == LinksInv => List!MirrorImage
<1> SUFFICES ASSUME LinksInv PROVE List!MirrorImage
  OBVIOUS
<1>1. PICK s \in Seq(Elements) : Chain(s)
  BY DEF LinksInv
<1>2. /\ List!Length = Len(s)
      /\ \A n \in 1..Len(s) : List!Forward[n] = s[n]
  BY <1>1, ChainIs DEF ChainSays
<1>3. Len(s) \in Nat
  OBVIOUS
<1>4. allocated = {List!Forward[n] : n \in 1..List!Length}
  <2>1. allocated = {s[i] : i \in 1..Len(s)}
    BY <1>1 DEF Chain
  <2>2. {s[i] : i \in 1..Len(s)} = {List!Forward[n] : n \in 1..Len(s)}
    BY <1>2
  <2> QED
    BY <1>2, <2>1, <2>2
<1>5. List!Length = 0 => p_tail = NULL
  BY <1>1, <1>2 DEF Chain
<1>6. List!Length > 0 => p_tail = List!Forward[List!Length] /\ prev[p_head] = NULL
  BY <1>1, <1>2, <1>3 DEF Chain
<1>7. ASSUME NEW n \in 2..List!Length PROVE prev[List!Forward[n]] = List!Forward[n - 1]
  <2>1. n - 1 \in 1..(Len(s) - 1) /\ (n - 1) + 1 = n /\ n \in 1..Len(s)
          /\ n - 1 \in 1..Len(s)
    BY <1>2, <1>3
  <2>2. prev[s[n]] = s[n - 1]
    BY <1>1, <2>1 DEF Chain
  <2> QED
    BY <1>2, <2>1, <2>2
<1> QED
  BY <1>4, <1>5, <1>6, <1>7 DEF List!MirrorImage

(* No pointer of a chain dangles.                                           *)
LEMMA LinksTyped == LinksInv => List!TypeOK
<1> SUFFICES ASSUME LinksInv PROVE List!TypeOK
  OBVIOUS
<1>1. PICK s \in Seq(Elements) : Chain(s)
  BY DEF LinksInv
<1>2. Len(s) \in Nat /\ \A i \in 1..Len(s) : s[i] \in Elements
  BY ElementOfSeq
<1>3. allocated = {s[i] : i \in 1..Len(s)}
  BY <1>1 DEF Chain
<1>4. allocated \subseteq Elements
  BY <1>2, <1>3
<1>5. {p_head, p_tail} \subseteq allocated \cup {NULL}
  <2>1. CASE Len(s) = 0
    BY <1>1, <2>1 DEF Chain
  <2>2. CASE Len(s) # 0
    <3>1. 1 \in 1..Len(s) /\ Len(s) \in 1..Len(s)
      BY <1>2, <2>2
    <3>2. s[1] \in allocated /\ s[Len(s)] \in allocated
      BY <1>3, <3>1
    <3> QED
      BY <1>1, <2>2, <3>2 DEF Chain
  <2> QED
    BY <2>1, <2>2
<1>6. ASSUME NEW e \in allocated
      PROVE  {next[e], prev[e]} \subseteq allocated \cup {NULL}
  <2>1. PICK i \in 1..Len(s) : e = s[i]
    BY <1>3
  <2>2. next[e] \in allocated \cup {NULL}
    <3>1. CASE i = Len(s)
      BY <1>1, <1>2, <2>1, <3>1 DEF Chain
    <3>2. CASE i # Len(s)
      <4>1. i \in 1..(Len(s) - 1) /\ i + 1 \in 1..Len(s)
        BY <1>2, <3>2
      <4>2. next[e] = s[i + 1]
        BY <1>1, <2>1, <4>1 DEF Chain
      <4> QED
        BY <1>3, <4>1, <4>2
    <3> QED
      BY <3>1, <3>2
  <2>3. prev[e] \in allocated \cup {NULL}
    <3>1. CASE i = 1
      BY <1>1, <1>2, <2>1, <3>1 DEF Chain
    <3>2. CASE i # 1
      <4>1. i - 1 \in 1..(Len(s) - 1) /\ (i - 1) + 1 = i /\ i - 1 \in 1..Len(s)
        BY <1>2, <3>2
      <4>2. prev[e] = s[i - 1]
        BY <1>1, <2>1, <4>1 DEF Chain
      <4> QED
        BY <1>3, <4>1, <4>2
    <3> QED
      BY <3>1, <3>2
  <2> QED
    BY <2>2, <2>3
<1> QED
  BY <1>4, <1>5, <1>6 DEF LinksInv, LinkFields, List!TypeOK, List!Pointers

-----------------------------------------------------------------------------
(* The two together: a step is one's, and the other stays as it is.         *)
LEMMA LinksAlways == QueueSafety => []LinksInv
<1>1. QueueInit => LinksInv
  BY LinksStart DEF QueueInit
<1>2. LinksInv /\ [QueueNext]_<<part, vars, listVars>> => LinksInv'
  <2> SUFFICES ASSUME LinksInv, [QueueNext]_<<part, vars, listVars>>
               PROVE  LinksInv'
    OBVIOUS
  <2>1. [List!Next]_(List!vars)
    BY DEF QueueNext, listVars, List!vars, List!list
  <2> QED
    BY <2>1, LinksNext
<1> QED
  BY <1>1, <1>2, PTL DEF QueueSafety

(* The composition runs the thread: its steps are steps of MsgTask or leave *)
(* it as it is, with the same fairness, so what is proved of Spec holds in  *)
(* it.                                                                      *)
THEOREM QueueRunsTask == QueueSpec => Spec
<1>1. QueueInit => Init
  BY DEF QueueInit
<1>2. [QueueNext]_<<part, vars, listVars>> => [Next]_vars
  BY Zenon DEF QueueNext
<1> QED
  BY <1>1, <1>2, PTL DEF QueueSpec, QueueSafety, Spec

(* linked_list.c: after any sequence of additions, removals, searches and   *)
(* flushes no pointer dangles, an element is allocated exactly while a walk *)
(* meets it, and the walk back meets the same elements the other way round. *)
THEOREM ListMirrors == QueueSafety => []LinksMirror
<1>1. LinksInv => LinksMirror
  BY LinksMirrored, LinksTyped DEF LinksMirror
<1> QED
  BY <1>1, LinksAlways, PTL

(* Each operation on the pointers is the operation of ItemList on the items *)
(* they hold: the newest item in front, the oldest out first, the first     *)
(* match found.                                                             *)
THEOREM ListImplements == QueueSafety => ImplementsItems
<1>1. QueueInit => List!Abstract!Init
  BY LinksStart DEF QueueInit
<1>2. LinksInv /\ [QueueNext]_<<part, vars, listVars>>
          => [List!Abstract!Next]_<<List!Items, result>>
  <2> SUFFICES ASSUME LinksInv, [QueueNext]_<<part, vars, listVars>>
               PROVE  [List!Abstract!Next]_<<List!Items, result>>
    OBVIOUS
  <2>1. [List!Next]_(List!vars)
    BY DEF QueueNext, listVars, List!vars, List!list
  <2> QED
    BY <2>1, LinksNext
<1> QED
  BY <1>1, <1>2, LinksAlways, PTL
     DEF QueueSafety, ImplementsItems, List!ImplementsItems, List!Abstract!Spec
=============================================================================
