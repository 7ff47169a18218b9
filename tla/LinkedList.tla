----------------------------- MODULE LinkedList -----------------------------
(***************************************************************************)
(* linked_list.c: the doubly linked list under every message queue and     *)
(* every list of subscribers, down to its pointers.  One thread at a time  *)
(* uses a list (msg_q holds a mutex; subscriber lists belong to MsgTask).  *)
(***************************************************************************)
EXTENDS Naturals, Sequences, FiniteSets

CONSTANTS
    Elements,   \* addresses malloc may return for a list_element: finitely many
    Data,       \* what list items may hold
    NULL        \* no address

VARIABLES
    p_head, p_tail,
    next, prev, data_ptr,   \* the fields of every list_element
    allocated,              \* the elements that are allocated
    result                  \* what the last call copied out, in a sequence

list == <<p_head, p_tail, next, prev, data_ptr, allocated>>
vars == <<list, result>>

Pointers == Elements \cup {NULL}

(* No pointer of the list, nor of an element that is allocated, dangles.   *)
TypeOK ==
    /\ allocated \subseteq Elements
    /\ {p_head, p_tail} \subseteq allocated \cup {NULL}
    /\ next \in [Elements -> Pointers]
    /\ prev \in [Elements -> Pointers]
    /\ \A e \in allocated : {next[e], prev[e]} \subseteq allocated \cup {NULL}
    /\ data_ptr \in [Elements -> Data]
    /\ result \in Seq(Data)

(* Nothing is known of an element before it is allocated. *)
Init ==
    /\ p_head = NULL /\ p_tail = NULL
    /\ next = [e \in Elements |-> NULL]
    /\ prev = [e \in Elements |-> NULL]
    /\ data_ptr \in [Elements -> Data]
    /\ allocated = {}
    /\ result = <<>>

-----------------------------------------------------------------------------
AddUnlinked(e, d) ==
    /\ e \notin allocated
    /\ allocated' = allocated \cup {e}
    /\ data_ptr' = [data_ptr EXCEPT ![e] = d]
    /\ next' = [next EXCEPT ![e] = p_head]
    /\ prev' = [prev EXCEPT ![e] = NULL]
    /\ p_head' = e
    /\ p_tail' = IF p_head = NULL THEN e ELSE p_tail
    /\ result' = <<>>

(* linked_list_add: a new head.  When malloc has nothing left, the list    *)
(* stays as it is, which is no step here.                                  *)
Add(e, d) ==
    /\ e \notin allocated
    /\ allocated' = allocated \cup {e}
    /\ data_ptr' = [data_ptr EXCEPT ![e] = d]
    /\ next' = [next EXCEPT ![e] = p_head]
    /\ prev' = [x \in Elements |-> IF x = e THEN NULL
                                   ELSE IF x = p_head THEN e ELSE prev[x]]
    /\ p_head' = e
    /\ p_tail' = IF p_head = NULL THEN e ELSE p_tail
    /\ result' = <<>>

(* linked_list_remove: the tail goes. *)
Remove ==
    /\ p_tail # NULL
    /\ result' = <<data_ptr[p_tail]>>
    /\ p_tail' = prev[p_tail]
    /\ next' = [x \in Elements |-> IF x = prev[p_tail] THEN NULL ELSE next[x]]
    /\ p_head' = IF prev[p_tail] = NULL THEN NULL ELSE p_head
    /\ allocated' = allocated \ {p_tail}
    /\ UNCHANGED <<prev, data_ptr>>

RemoveNothing == p_tail = NULL /\ result' = <<>> /\ UNCHANGED list

(* The n-th element of the list, following next from p_head. *)
At[n \in Nat \ {0}] ==
    IF n = 1 THEN p_head
    ELSE IF At[n - 1] = NULL THEN NULL ELSE next[At[n - 1]]

(* The first element from the head whose data equals d, or NULL. *)
FirstMatch(d) ==
    LET matches == {n \in 1..Cardinality(Elements) :
                        At[n] # NULL /\ data_ptr[At[n]] = d}
    IN  IF matches = {} THEN NULL
        ELSE At[CHOOSE n \in matches : \A m \in matches : n <= m]

UnlinkForward(e) ==
    /\ p_head' = IF prev[e] = NULL THEN next[e] ELSE p_head
    /\ p_tail' = IF next[e] = NULL THEN prev[e] ELSE p_tail
    /\ next' = [x \in Elements |-> IF x = e THEN NULL
                                   ELSE IF x = prev[e] THEN next[e] ELSE next[x]]
    /\ prev' = [prev EXCEPT ![e] = NULL]

(* The neighbours of e, or the ends of the list, skip it. *)
Unlink(e) ==
    /\ p_head' = IF prev[e] = NULL THEN next[e] ELSE p_head
    /\ p_tail' = IF next[e] = NULL THEN prev[e] ELSE p_tail
    /\ next' = [x \in Elements |-> IF x = e THEN NULL
                                   ELSE IF x = prev[e] THEN next[e] ELSE next[x]]
    /\ prev' = [x \in Elements |-> IF x = e THEN NULL
                                   ELSE IF x = next[e] THEN prev[e] ELSE prev[x]]

(* linked_list_search, with and without rm_if_found. *)
Search(d, rm) ==
    LET e == FirstMatch(d) IN
      \/ e = NULL /\ result' = <<>> /\ UNCHANGED list
      \/ /\ e # NULL
         /\ result' = <<data_ptr[e]>>
         /\ IF rm THEN /\ Unlink(e)
                       /\ allocated' = allocated \ {e}
                       /\ UNCHANGED data_ptr
                  ELSE UNCHANGED list

(* linked_list_flush: every element from the head on is freed. *)
Flush ==
    /\ p_head' = NULL /\ p_tail' = NULL
    /\ allocated' = allocated \ {At[n] : n \in 1..Cardinality(Elements)}
    /\ result' = <<>>
    /\ UNCHANGED <<next, prev, data_ptr>>

Next ==
    \/ \E d \in Data : \/ \E e \in Elements : Add(e, d)
                       \/ Search(d, TRUE) \/ Search(d, FALSE)
    \/ Remove \/ RemoveNothing \/ Flush

Spec == Init /\ [][Next]_vars

-----------------------------------------------------------------------------
Length == Cardinality({n \in 1..Cardinality(Elements) : At[n] # NULL})

Forward == [n \in 1..Length |-> At[n]]

(* An element is allocated exactly while a walk from the head meets it:    *)
(* none leaks when it leaves the list, and none is met after it was freed. *)
(* Walking back from the tail meets the same elements the other way round, *)
(* whatever was removed from the middle: remove and add work on opposite   *)
(* ends of one list.                                                       *)
MirrorImage ==
    /\ allocated = {Forward[n] : n \in 1..Length}
    /\ Length = 0 => p_tail = NULL
    /\ Length > 0 => p_tail = Forward[Length] /\ prev[p_head] = NULL
    /\ \A n \in 2..Length : prev[Forward[n]] = Forward[n - 1]

-----------------------------------------------------------------------------
Items == [n \in 1..Length |-> data_ptr[At[n]]]

Abstract == INSTANCE ItemList WITH items <- Items

(* The pointers implement a list of items: see ItemList. *)
ImplementsItems == Abstract!Spec
=============================================================================
