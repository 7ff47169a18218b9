------------------------------ MODULE ItemList ------------------------------
(***************************************************************************)
(* What linked_list.h promises: a list that is added to at one end, taken  *)
(* from at the other, and searched from the newest item to the oldest.     *)
(***************************************************************************)
EXTENDS Naturals, Sequences

CONSTANT Data

VARIABLES
    items,     \* newest first
    result     \* the item the last call returned, alone in a sequence

Init == items = <<>> /\ result = <<>>

Add(d) == items' = <<d>> \o items /\ result' = <<>>

(* The oldest item. *)
Remove ==
    IF items = <<>>
      THEN UNCHANGED items /\ result' = <<>>
      ELSE /\ items' = SubSeq(items, 1, Len(items) - 1)
           /\ result' = <<items[Len(items)]>>

(* The newest item that equals d, which may be removed with it. *)
Found(d, i) == items[i] = d /\ \A j \in 1..(i - 1) : items[j] # d

Search(d, rm) ==
    \/ /\ \A i \in 1..Len(items) : items[i] # d
       /\ UNCHANGED items
       /\ result' = <<>>
    \/ \E i \in 1..Len(items) :
          /\ Found(d, i)
          /\ result' = <<d>>
          /\ items' = IF rm
                        THEN SubSeq(items, 1, i - 1)
                                \o SubSeq(items, i + 1, Len(items))
                        ELSE items

Flush == items' = <<>> /\ result' = <<>>

Next ==
    \/ \E d \in Data : Add(d) \/ Search(d, TRUE) \/ Search(d, FALSE)
    \/ Remove \/ Flush

Spec == Init /\ [][Next]_<<items, result>>
=============================================================================
