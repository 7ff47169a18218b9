--------------------------- MODULE MCLocApi_proofs ---------------------------
(***************************************************************************)
(* Proofs about the components that bring the engine up: LocApi,           *)
(* LocClient, LocEngInit and DmnConn, and that the composition of them     *)
(* keeps what each of them keeps.                                          *)
(***************************************************************************)
EXTENDS MCLocApi, SequenceTheorems, FiniteSetTheorems, TLAPS

-----------------------------------------------------------------------------
(* LocApi, for every set of adapters, every event mask and handler among    *)
(* them, and every size of the array.                                       *)

(* The adapters that joined and have not begun to leave. *)
Present == {a \in Adapters : phase[a] \in {"building", "ready"}}

(* The slots S hold the adapters that are present, each of them once.       *)
Hold(S) ==
    /\ \A k \in S : mLocAdapters[k] # NULL
    /\ \A k, l \in S : k # l => mLocAdapters[k] # mLocAdapters[l]
    /\ {mLocAdapters[k] : k \in S} = Present

EmptyAfter(n) == \A k \in Slots : k > n => mLocAdapters[k] = NULL

(* Between two removals the adapters fill the first n slots. *)
Filled(n) == Hold(1..n) /\ EmptyAfter(n)

(* What Compact says, for the two steps in the middle of a removal as well: *)
(* a hole at j first, and then a last slot i that is still to be cut.       *)
ListShape ==
    /\ removal.step # "none" =>
          removal.adapter \in Adapters /\ phase[removal.adapter] = "leaving"
    /\ removal.step = "none" => \E n \in 0..MAX_ADAPTERS : Filled(n)
    /\ removal.step = "fill" =>
          /\ removal.j <= removal.i
          /\ mLocAdapters[removal.j] = NULL
          /\ Hold((1..removal.i) \ {removal.j})
          /\ EmptyAfter(removal.i)
    /\ removal.step = "cut" =>
          Hold(1..(removal.i - 1)) /\ EmptyAfter(removal.i)

(* A walk that has tested a slot, or read it, is at one.                    *)
WalkAt ==
    /\ walk.p # NULL \/ walk.tested => walk.i \in Slots
    /\ walk.p # NULL => ~walk.tested

ListInv ==
    /\ TypeOK
    /\ WalkAt
    /\ ListShape

(* The events that the messages in the queue will ask for. *)
Coming == {e \in Events : \E k \in 1..Len(msgq) : e \in msgq[k].mask}

(* A client that is open or still to be opened has asked for what the      *)
(* listed adapters want, or the message that will ask is in the queue.     *)
MaskInv ==
    /\ api.handle = "open" => api.registered = api.mMask
    /\ api.handle = "invalid" => api.registered = {}
    /\ api.mMask \cap Excluded = {} /\ api.registered \cap Excluded = {}
    /\ api.handle # "stale" /\ removal.step = "none" /\ ~lost =>
          getEvtMask(mLocAdapters) \subseteq api.registered \cup Coming

(* Nobody is leaving, and whoever a walk has still to call is at or behind  *)
(* the slot that the walk has come to, which still holds what it held when  *)
(* the walk tested it.                                                      *)
Ahead ==
    /\ removal.step = "none" /\ walk.event # "fault"
    /\ walk.tested => mLocAdapters[walk.i] # NULL
    /\ \A a \in walk.due : phase[a] = "ready"
    /\ walk.p # NULL => mLocAdapters[walk.i] = walk.p
    /\ \A a \in PassedOver : \E k \in Slots : k >= walk.i /\ mLocAdapters[k] = a

WalkInv == calm /\ walk.event # "none" => Ahead

WalkType ==
    [event : {"none", "report", "request", "Down", "Up", "fault"},
     i : 1..(MAX_ADAPTERS + 1), tested : BOOLEAN, p : Adapters \cup {NULL},
     due : SUBSET Adapters, called : SUBSET Adapters]

Inv == ListInv /\ MaskInv /\ WalkInv

-----------------------------------------------------------------------------
(* The array and where a walk over it ends.                                *)

(* A walk ends behind the leading slots that are taken. *)
LEMMA EndIs ==
    ASSUME NEW array, NEW n \in 0..MAX_ADAPTERS,
           \A k \in 1..n : array[k] # NULL,
           n + 1 \in Slots => array[n + 1] = NULL
    PROVE  End(array) = n + 1
<1> DEFINE IsEnd(m) == /\ \A k \in 1..(m - 1) : array[k] # NULL
                       /\ m \in Slots => array[m] = NULL
<1>1. n + 1 \in 1..(MAX_ADAPTERS + 1) /\ IsEnd(n + 1)
  BY BoundsAssumption
<1>2. ASSUME NEW m \in 1..(MAX_ADAPTERS + 1), IsEnd(m) PROVE m = n + 1
  <2>1. CASE m < n + 1
    <3>1. m \in 1..n /\ m \in Slots
      BY <2>1, BoundsAssumption DEF Slots
    <3> QED BY <1>2, <3>1
  <2>2. CASE m > n + 1
    <3>1. n + 1 \in 1..(m - 1) /\ n + 1 \in Slots
      BY <2>2, BoundsAssumption DEF Slots
    <3> QED BY <1>2, <3>1
  <2> QED BY <2>1, <2>2, BoundsAssumption
<1>3. End(array) = CHOOSE m \in 1..(MAX_ADAPTERS + 1) : IsEnd(m)
  BY DEF End
<1> HIDE DEF IsEnd
<1> QED BY <1>1, <1>2, <1>3

(* What the adapters in the leading slots want, unless it is excluded. *)
LEMMA WantedIs ==
    ASSUME NEW array, NEW n \in 0..MAX_ADAPTERS,
           \A k \in 1..n : array[k] # NULL,
           n + 1 \in Slots => array[n + 1] = NULL,
           NEW e
    PROVE  e \in getEvtMask(array) <=>
              e \notin Excluded /\ \E k \in 1..n : e \in EvtMask[array[k]]
<1> DEFINE masks == {EvtMask[array[k]] : k \in 1..n}
<1>1. End(array) - 1 = n
  BY EndIs, BoundsAssumption
<1>2. getEvtMask(array) = (UNION masks) \ Excluded
  BY <1>1, Zenon DEF getEvtMask
<1>3. e \in UNION masks <=> \E m \in masks : e \in m
  <2> HIDE DEF masks
  <2> QED OBVIOUS
<1>4. (\E m \in masks : e \in m) <=> \E k \in 1..n : e \in EvtMask[array[k]]
  BY Zenon
<1> HIDE DEF masks
<1> QED BY <1>2, <1>3, <1>4

(* Whatever the array, what a walk over it can want is a set of events that *)
(* are not excluded.                                                        *)
LEMMA WantedType ==
    ASSUME NEW array \in [Slots -> Adapters \cup {NULL}],
           NEW n \in 0..MAX_ADAPTERS,
           \A k \in 1..n : array[k] # NULL,
           n + 1 \in Slots => array[n + 1] = NULL
    PROVE  getEvtMask(array) \in SUBSET Events /\ getEvtMask(array) \cap Excluded = {}
<1>1. \A k \in 1..n : array[k] \in Adapters
  BY BoundsAssumption DEF Slots
<1>2. \A k \in 1..n : EvtMask[array[k]] \subseteq Events
  BY <1>1, AdaptersAssumption
<1>3. \A e \in getEvtMask(array) : e \in Events /\ e \notin Excluded
  BY <1>2, WantedIs
<1> QED BY <1>3

(* Between two removals a walk ends behind the adapters that are present.  *)
LEMMA FilledEnd ==
    ASSUME TypeOK, NEW n \in 0..MAX_ADAPTERS, Filled(n)
    PROVE  /\ End(mLocAdapters) = n + 1
           /\ \A k \in Slots : mLocAdapters[k] # NULL <=> k <= n
           /\ Listed = Present
<1>1. End(mLocAdapters) = n + 1
  BY EndIs DEF Filled, Hold, EmptyAfter, Slots
<1>2. \A k \in Slots : mLocAdapters[k] # NULL <=> k <= n
  BY BoundsAssumption DEF Filled, Hold, EmptyAfter, Slots
<1>3. Listed = {mLocAdapters[k] : k \in 1..n}
  BY <1>2, BoundsAssumption DEF Listed, Slots
<1> QED BY <1>1, <1>2, <1>3 DEF Filled, Hold

(* In the middle of a removal it ends too, at the hole or at the last slot. *)
LEMMA EndExists ==
    ASSUME ListInv
    PROVE  \E n \in 0..MAX_ADAPTERS :
              /\ \A k \in 1..n : mLocAdapters[k] # NULL
              /\ n + 1 \in Slots => mLocAdapters[n + 1] = NULL
<1> USE BoundsAssumption DEF ListInv, ListShape, Slots
<1>1. CASE removal.step = "none"
  BY <1>1 DEF Filled, Hold, EmptyAfter
<1>2. CASE removal.step = "fill"
  <2>1. removal.j - 1 \in 0..MAX_ADAPTERS /\ removal.j \in 1..MAX_ADAPTERS
    BY DEF TypeOK
  <2>2. \A k \in 1..(removal.j - 1) : k \in (1..removal.i) \ {removal.j}
    BY <1>2, <2>1 DEF TypeOK
  <2>3. removal.j - 1 + 1 = removal.j
    BY <2>1
  <2> QED BY <1>2, <2>1, <2>2, <2>3 DEF Hold
<1>3. CASE removal.step = "cut"
  <2>1. removal.i \in 1..MAX_ADAPTERS
    BY DEF TypeOK
  <2>2. CASE mLocAdapters[removal.i] = NULL
    <3>1. removal.i - 1 \in 0..MAX_ADAPTERS /\ removal.i - 1 + 1 = removal.i
      BY <2>1
    <3> QED BY <1>3, <2>2, <3>1 DEF Hold
  <2>3. CASE mLocAdapters[removal.i] # NULL
    <3>1. \A k \in 1..removal.i : mLocAdapters[k] # NULL
      BY <1>3, <2>1, <2>3 DEF Hold
    <3>2. removal.i + 1 \in Slots => mLocAdapters[removal.i + 1] = NULL
      BY <1>3, <2>1 DEF EmptyAfter
    <3> QED BY <2>1, <3>1, <3>2
  <2> QED BY <2>2, <2>3
<1> QED BY <1>1, <1>2, <1>3 DEF TypeOK

-----------------------------------------------------------------------------
(* The array, through the steps of joining and leaving.                    *)

(* The array starts empty, and nothing is on its way. *)
LEMMA ListInit == Init => ListInv
<1> SUFFICES ASSUME Init PROVE ListInv OBVIOUS
<1> USE BoundsAssumption, AdaptersAssumption DEF Init, Slots
<1>1. msgq \in Seq([kind : {"Open", "Ssr"}, mask : SUBSET Events])
  OBVIOUS
<1>2. TypeOK
  <2>1. /\ mLocAdapters \in [Slots -> Adapters \cup {NULL}]
        /\ phase \in [Adapters -> {"none", "building", "ready", "outside",
                               "leaving", "gone"}]
    OBVIOUS
  <2>2. removal \in [step : {"none", "fill", "cut"},
                    adapter : Adapters \cup {NULL}, j : Slots, i : Slots]
    BY DEF NoRemoval
  <2>3. api \in [handle : {"invalid", "open", "stale"}, mMask : SUBSET Events,
                registered : SUBSET Events]
    BY DEF Closed
  <2>4. walk \in WalkType
    BY DEF Idle, WalkType
  <2>5. lost \in BOOLEAN /\ calm \in BOOLEAN
    BY Zenon
  <2>6. walks \in 0..MaxWalks /\ modem \in {"up", "crashed", "down", "restarted"}
    OBVIOUS
  <2> HIDE DEF Init, Slots
  <2> QED BY <1>1, <2>1, <2>2, <2>3, <2>4, <2>5, <2>6 DEF TypeOK, WalkType
<1>3. Filled(0)
  BY DEF Filled, Hold, EmptyAfter, Present
<1>4. ListShape
  BY <1>3 DEF ListShape, NoRemoval
<1> QED BY <1>2, <1>4 DEF ListInv, WalkAt, Idle

(* A step that leaves the array, the removal and who is present alone       *)
(* leaves its shape alone.                                                  *)
LEMMA ShapeKept ==
    ASSUME ListInv, UNCHANGED <<mLocAdapters, removal>>, Present' = Present,
           \A a \in Adapters : phase[a] = "leaving" => phase'[a] = "leaving"
    PROVE  ListShape'
<1>1. ASSUME NEW S PROVE Hold(S) => Hold(S)'
  BY DEF Hold
<1>2. ASSUME NEW n PROVE EmptyAfter(n) => EmptyAfter(n)'
  BY DEF EmptyAfter
<1>3. ASSUME NEW n PROVE Filled(n) => Filled(n)'
  BY <1>1, <1>2 DEF Filled
<1> QED BY <1>1, <1>2, <1>3 DEF ListInv, ListShape

(* A message that is posted is one of those the queue holds.               *)
LEMMA PostType ==
    ASSUME TypeOK, NEW m \in [kind : {"Open", "Ssr"}, mask : SUBSET Events],
           msgq' = Append(msgq, m)
    PROVE  msgq' \in Seq([kind : {"Open", "Ssr"}, mask : SUBSET Events])
BY DEF TypeOK

(* An adapter that joins takes the first empty slot, or stays outside.      *)
LEMMA JoinList ==
    ASSUME ListInv, NEW a \in Adapters, Join(a)
    PROVE  ListInv'
<1> USE BoundsAssumption, AdaptersAssumption
<1>1. PICK n \in 0..MAX_ADAPTERS : Filled(n)
  BY DEF Join, Free, ListInv, ListShape
<1>2. /\ End(mLocAdapters) = n + 1
      /\ \A k \in Slots : mLocAdapters[k] # NULL <=> k <= n
      /\ Listed = Present
  BY <1>1, FilledEnd DEF ListInv
<1>3. TypeOK /\ phase[a] = "none" /\ removal.step = "none"
  BY DEF ListInv, Join, Free
<1>4. CASE n + 1 \in Slots
  <2>1. /\ mLocAdapters' = [mLocAdapters EXCEPT ![n + 1] = a]
        /\ msgq' = Append(msgq, Open(EvtMask[a]))
        /\ phase' = [phase EXCEPT ![a] = "building"]
        /\ UNCHANGED <<calm, removal, api, modem, lost, walk, walks>>
    BY <1>2, <1>4 DEF Join
  <2>2. msgq' \in Seq([kind : {"Open", "Ssr"}, mask : SUBSET Events])
    BY <1>3, <2>1, PostType DEF Open
  <2>3. TypeOK'
    BY <1>3, <2>1, <2>2 DEF TypeOK
  <2>4. /\ n + 1 \in 0..MAX_ADAPTERS
        /\ \A k \in 1..n : k \in Slots /\ mLocAdapters'[k] = mLocAdapters[k]
        /\ mLocAdapters'[n + 1] = a
        /\ 1..(n + 1) = 1..n \cup {n + 1}
    BY <1>3, <1>4, <2>1 DEF Slots, TypeOK
  <2>5. Present' = Present \cup {a}
    BY <1>3, <2>1 DEF Present, TypeOK
  <2>6. \A k \in 1..n : mLocAdapters[k] # a
    BY <1>1, <1>3 DEF Filled, Hold, Present
  <2>7. Hold(1..(n + 1))'
    <3>1. \A k \in 1..(n + 1) : mLocAdapters'[k] # NULL
      BY <1>1, <2>4 DEF Filled, Hold
    <3>2. \A k, l \in 1..(n + 1) : k # l => mLocAdapters'[k] # mLocAdapters'[l]
      BY <1>1, <2>4, <2>6 DEF Filled, Hold
    <3>3. {mLocAdapters'[k] : k \in 1..(n + 1)} =
             {mLocAdapters[k] : k \in 1..n} \cup {a}
      BY <2>4
    <3> QED BY <1>1, <2>5, <3>1, <3>2, <3>3 DEF Filled, Hold
  <2>8. EmptyAfter(n + 1)'
    BY <1>3, <1>1, <2>1 DEF Filled, EmptyAfter, TypeOK, Slots
  <2>9. ListShape'
    BY <1>3, <2>1, <2>4, <2>7, <2>8 DEF ListShape, Filled
  <2> QED BY <2>1, <2>3, <2>9 DEF ListInv, WalkAt
<1>5. CASE n + 1 \notin Slots
  <2>1. /\ phase' = [phase EXCEPT ![a] = "outside"]
        /\ UNCHANGED <<calm, mLocAdapters, msgq, removal, api, modem, lost,
                       walk, walks>>
    BY <1>2, <1>5 DEF Join
  <2>2. TypeOK'
    BY <1>3, <2>1 DEF TypeOK
  <2>3. Present' = Present
    BY <1>3, <2>1 DEF Present, TypeOK
  <2> QED BY <1>3, <2>1, <2>2, <2>3, ShapeKept DEF ListInv, WalkAt, TypeOK
<1> QED BY <1>4, <1>5

(* An adapter that leaves empties its slot, which lies before the last.     *)
LEMMA LeaveList ==
    ASSUME ListInv, NEW a \in Adapters, Leave(a)
    PROVE  ListInv'
<1> USE BoundsAssumption, AdaptersAssumption
<1>1. PICK n \in 0..MAX_ADAPTERS : Filled(n)
  BY DEF Leave, Free, ListInv, ListShape
<1>2. /\ End(mLocAdapters) = n + 1
      /\ \A k \in Slots : mLocAdapters[k] # NULL <=> k <= n
      /\ Listed = Present
  BY <1>1, FilledEnd DEF ListInv
<1>3. TypeOK
  BY DEF ListInv
<1>4. CASE phase[a] = "outside" /\ phase' = [phase EXCEPT ![a] = "gone"]
             /\ UNCHANGED <<mLocAdapters, removal>>
  <2>1. TypeOK'
    BY <1>3, <1>4 DEF TypeOK, Leave
  <2>2. Present' = Present
    BY <1>3, <1>4 DEF Present, TypeOK
  <2> QED BY <1>4, <2>1, <2>2, ShapeKept DEF ListInv, WalkAt, Leave
<1>5. ASSUME NEW j \in Slots, phase[a] = "ready", mLocAdapters[j] = a,
             mLocAdapters' = [mLocAdapters EXCEPT ![j] = NULL],
             removal' = [step |-> "fill", adapter |-> a, j |-> j,
                         i |-> End(mLocAdapters) - 1],
             phase' = [phase EXCEPT ![a] = "leaving"]
      PROVE  ListInv'
  <2>1. j \in 1..n /\ n \in Slots /\ removal'.i = n /\ removal'.j = j
          /\ removal'.step = "fill"
    BY <1>2, <1>5 DEF Slots
  <2>2. TypeOK'
    BY <1>2, <1>3, <1>5, <2>1 DEF TypeOK, Leave
  <2>3. Present' = Present \ {a}
    BY <1>3, <1>5 DEF Present, TypeOK
  <2>4. \A k \in (1..n) \ {j} : k \in Slots /\ mLocAdapters'[k] = mLocAdapters[k]
    BY <1>3, <1>5 DEF TypeOK, Slots
  <2>5. \A k \in (1..n) \ {j} : mLocAdapters[k] # a
    BY <1>1, <1>5, <2>1 DEF Filled, Hold
  <2>6. Hold((1..n) \ {j})'
    <3>1. /\ \A k \in (1..n) \ {j} : mLocAdapters'[k] # NULL
          /\ \A k, l \in (1..n) \ {j} : k # l => mLocAdapters'[k] # mLocAdapters'[l]
      BY <1>1, <2>4 DEF Filled, Hold
    <3>2. {mLocAdapters'[k] : k \in (1..n) \ {j}} =
             {mLocAdapters[k] : k \in (1..n) \ {j}}
      BY <2>4
    <3>3. {mLocAdapters[k] : k \in (1..n) \ {j}} =
             {mLocAdapters[k] : k \in 1..n} \ {a}
      BY <1>5, <2>1, <2>5
    <3> QED BY <1>1, <2>3, <3>1, <3>2, <3>3 DEF Filled, Hold
  <2>7. mLocAdapters'[j] = NULL /\ EmptyAfter(n)'
    BY <1>1, <1>3, <1>5 DEF Filled, EmptyAfter, TypeOK, Slots
  <2>8. ListShape'
    <3>1. removal'.adapter = a /\ phase'[a] = "leaving"
      BY <1>3, <1>5 DEF TypeOK
    <3> QED BY <2>1, <2>6, <2>7, <3>1 DEF ListShape
  <2> QED BY <2>2, <2>8 DEF ListInv, WalkAt, Leave
<1> QED BY <1>4, <1>5 DEF Leave

(* The last adapter moves into the hole. *)
LEMMA FillList ==
    ASSUME ListInv, LeaveFill
    PROVE  ListInv'
<1> USE BoundsAssumption, AdaptersAssumption
<1>0. PICK i, j \in Slots : i = removal.i /\ j = removal.j
  BY DEF ListInv, TypeOK
<1>1. /\ TypeOK /\ j <= i
      /\ removal.adapter \in Adapters /\ phase[removal.adapter] = "leaving"
      /\ mLocAdapters[j] = NULL
      /\ Hold((1..i) \ {j}) /\ EmptyAfter(i)
      /\ mLocAdapters' = [mLocAdapters EXCEPT ![j] = mLocAdapters[i]]
      /\ removal' = [removal EXCEPT !.step = "cut"]
      /\ UNCHANGED <<calm, phase, msgq, api, modem, lost, walk, walks>>
  BY <1>0 DEF ListInv, ListShape, LeaveFill
<1>2. TypeOK'
  BY <1>0, <1>1 DEF TypeOK
<1>3. removal'.step = "cut" /\ removal'.i = i /\ removal'.adapter = removal.adapter
  BY <1>0, <1>1 DEF TypeOK
<1>4. Present' = Present
  BY <1>1 DEF Present
<1>5. EmptyAfter(i)'
  BY <1>0, <1>1 DEF EmptyAfter, TypeOK, Slots
<1>q. ASSUME Hold(1..(i - 1))' PROVE ListInv'
  BY <1>1, <1>2, <1>3, <1>5, <1>q DEF ListInv, WalkAt, ListShape
<1>6. CASE j = i
  <2>1. 1..(i - 1) = (1..i) \ {j}
    BY <1>1, <1>6 DEF Slots
  <2>2. \A k \in (1..i) \ {j} : mLocAdapters'[k] = mLocAdapters[k]
    BY <1>1, <1>6 DEF TypeOK, Slots
  <2>3. Hold(1..(i - 1))'
    BY <1>1, <1>4, <2>1, <2>2 DEF Hold
  <2> QED BY <1>q, <2>3
<1>7. CASE j < i
  <2> DEFINE from(k) == IF k = j THEN i ELSE k
  <2>1. /\ \A k \in 1..(i - 1) : /\ from(k) \in (1..i) \ {j}
                               /\ mLocAdapters'[k] = mLocAdapters[from(k)]
        /\ \A k \in (1..i) \ {j} : \E l \in 1..(i - 1) : k = from(l)
        /\ \A k, l \in 1..(i - 1) : k # l => from(k) # from(l)
    BY <1>1, <1>7 DEF TypeOK, Slots
  <2> HIDE DEF from
  <2>2. Hold(1..(i - 1))'
    <3>1. /\ \A k \in 1..(i - 1) : mLocAdapters'[k] # NULL
          /\ \A k, l \in 1..(i - 1) : k # l => mLocAdapters'[k] # mLocAdapters'[l]
      BY <1>1, <2>1 DEF Hold
    <3>2. {mLocAdapters'[k] : k \in 1..(i - 1)} =
             {mLocAdapters[k] : k \in (1..i) \ {j}}
      BY <2>1
    <3> QED BY <1>1, <1>4, <3>1, <3>2 DEF Hold
  <2> QED BY <1>q, <2>2
<1> QED BY <1>0, <1>1, <1>6, <1>7 DEF Slots

(* The last slot is emptied, and the adapters fill the slots before it.     *)
LEMMA CutList ==
    ASSUME ListInv, LeaveCut
    PROVE  ListInv'
<1> USE BoundsAssumption, AdaptersAssumption
<1>0. PICK i \in Slots : i = removal.i
  BY DEF ListInv, TypeOK
<1>1. /\ TypeOK
      /\ removal.adapter \in Adapters /\ phase[removal.adapter] = "leaving"
      /\ Hold(1..(i - 1)) /\ EmptyAfter(i)
      /\ mLocAdapters' = [mLocAdapters EXCEPT ![i] = NULL]
      /\ removal' = NoRemoval
      /\ phase' = [phase EXCEPT ![removal.adapter] = "gone"]
      /\ UNCHANGED <<calm, modem, lost, walk, walks>>
  BY <1>0 DEF ListInv, ListShape, LeaveCut
<1>2. Present' = Present
  BY <1>1 DEF Present, TypeOK
<1>3. /\ i - 1 \in 0..MAX_ADAPTERS
      /\ \A k \in 1..(i - 1) : k \in Slots /\ mLocAdapters'[k] = mLocAdapters[k]
  BY <1>0, <1>1 DEF TypeOK, Slots
<1>4. Hold(1..(i - 1))'
  BY <1>1, <1>2, <1>3 DEF Hold
<1>5. EmptyAfter(i - 1)'
  BY <1>0, <1>1, <1>3 DEF EmptyAfter, TypeOK, Slots
<1>6. getEvtMask(mLocAdapters') \in SUBSET Events
  <2>1. mLocAdapters' \in [Slots -> Adapters \cup {NULL}]
    BY <1>1 DEF TypeOK
  <2>2. /\ \A k \in 1..(i - 1) : mLocAdapters'[k] # NULL
        /\ i - 1 + 1 \in Slots => mLocAdapters'[i - 1 + 1] = NULL
    BY <1>0, <1>1, <1>4, <1>5 DEF Hold, TypeOK, Slots
  <2> QED BY <1>3, <2>1, <2>2, WantedType
<1>7. /\ msgq' \in Seq([kind : {"Open", "Ssr"}, mask : SUBSET Events])
      /\ api' = api \/ api' = Closed
  <2>1. CASE api' = Closed /\ UNCHANGED msgq
    BY <1>1, <2>1 DEF TypeOK
  <2>2. CASE msgq' = Append(msgq, Open(getEvtMask(mLocAdapters'))) /\ UNCHANGED api
    <3>1. Open(getEvtMask(mLocAdapters')) \in [kind : {"Open", "Ssr"},
            mask : SUBSET Events]
      BY <1>6 DEF Open
    <3> QED BY <1>1, <2>2, <3>1, PostType
  <2> QED BY <1>0, <1>1, <2>1, <2>2 DEF LeaveCut
<1>8. TypeOK'
  <2>1. removal' \in [step : {"none", "fill", "cut"},
                     adapter : Adapters \cup {NULL}, j : Slots, i : Slots]
    BY <1>1 DEF NoRemoval, Slots
  <2>2. api' \in [handle : {"invalid", "open", "stale"}, mMask : SUBSET Events,
                 registered : SUBSET Events]
    BY <1>1, <1>7 DEF TypeOK, Closed
  <2>3. mLocAdapters' \in [Slots -> Adapters \cup {NULL}]
    BY <1>1 DEF TypeOK
  <2>4. phase' \in [Adapters -> {"none", "building", "ready", "outside",
                                "leaving", "gone"}]
    BY <1>1 DEF TypeOK
  <2> QED BY <1>1, <1>7, <2>1, <2>2, <2>3, <2>4 DEF TypeOK
<1>9. Filled(i - 1)'
  BY <1>4, <1>5 DEF Filled
<1>10. ListShape'
  BY <1>1, <1>3, <1>9 DEF ListShape, NoRemoval
<1> QED BY <1>0, <1>1, <1>8, <1>9, <1>10 DEF ListInv, WalkAt

(* In a legal state what the whole array wants is a set of events. *)
LEMMA WantedNow ==
    ASSUME ListInv
    PROVE  getEvtMask(mLocAdapters) \in SUBSET Events
             /\ getEvtMask(mLocAdapters) \cap Excluded = {}
<1>1. PICK n \in 0..MAX_ADAPTERS :
              /\ \A k \in 1..n : mLocAdapters[k] # NULL
              /\ n + 1 \in Slots => mLocAdapters[n + 1] = NULL
  BY EndExists
<1>2. mLocAdapters \in [Slots -> Adapters \cup {NULL}]
  BY DEF ListInv, TypeOK
<1> QED BY <1>1, <1>2, WantedType

(* The client of the modem keeps its type when it connects or registers.    *)
LEMMA ClientType ==
    ASSUME TypeOK, NEW mask \in SUBSET Events, Connect(mask) \/ Register(mask)
    PROVE  api' \in [handle : {"invalid", "open", "stale"}, mMask : SUBSET Events,
                    registered : SUBSET Events]
<1>1. ASSUME NEW m \in SUBSET Events
      PROVE  Opened(m) \in [handle : {"invalid", "open", "stale"},
                            mMask : SUBSET Events, registered : SUBSET Events]
  BY DEF Opened
<1>2. Closed \in [handle : {"invalid", "open", "stale"},
                  mMask : SUBSET Events, registered : SUBSET Events]
  BY DEF Closed
<1>3. api.mMask \cup mask \in SUBSET Events
  BY DEF TypeOK
<1>4. CASE Connect(mask)
  BY <1>1, <1>2, <1>4 DEF Connect
<1>5. CASE Register(mask)
  BY <1>1, <1>3, <1>5 DEF Register, TypeOK
<1> QED BY <1>4, <1>5

(* So do the queue and the client when the MsgTask thread takes a message.  *)
LEMMA ProcType ==
    ASSUME ListInv, ProcOpen \/ ProcSsr
    PROVE  TypeOK'
<1>1. TypeOK /\ msgq # <<>> /\ msgq' = Tail(msgq)
        /\ UNCHANGED <<calm, list, modem, walk, walks>>
  BY DEF ListInv, ProcOpen, ProcSsr
<1>2. /\ msgq' \in Seq([kind : {"Open", "Ssr"}, mask : SUBSET Events])
      /\ Head(msgq) \in [kind : {"Open", "Ssr"}, mask : SUBSET Events]
      /\ Head(msgq).mask \ Excluded \in SUBSET Events
  <2>1. msgq' \in Seq([kind : {"Open", "Ssr"}, mask : SUBSET Events])
    BY <1>1 DEF TypeOK
  <2>2. Head(msgq) \in [kind : {"Open", "Ssr"}, mask : SUBSET Events]
    <3> DEFINE M == [kind : {"Open", "Ssr"}, mask : SUBSET Events]
    <3>1. msgq \in Seq(M) /\ msgq # <<>>
      BY <1>1 DEF TypeOK
    <3> HIDE DEF M
    <3>2. Head(msgq) \in M
      BY <3>1
    <3> QED BY <3>2 DEF M
  <2> QED BY <2>1, <2>2
<1>3. api' \in [handle : {"invalid", "open", "stale"}, mMask : SUBSET Events,
               registered : SUBSET Events]
  <2>1. CASE ProcOpen
    BY <1>1, <1>2, <2>1, ClientType DEF ProcOpen
  <2>2. CASE ProcSsr
    BY <1>1, <2>2, ClientType, WantedNow DEF ProcSsr
  <2> QED BY <2>1, <2>2
<1>4. lost' \in BOOLEAN
  <2>1. CASE ProcOpen
    <3>1. lost' = (lost \/ Missing(Head(msgq).mask \ Excluded))
      BY <2>1, Zenon DEF ProcOpen
    <3> QED BY <3>1, Zenon
  <2>2. CASE ProcSsr
    <3>1. lost' = Missing(getEvtMask(mLocAdapters))
      BY <2>2, Zenon DEF ProcSsr
    <3> QED BY <3>1, Zenon DEF Missing
  <2> QED BY <2>1, <2>2
<1> QED BY <1>1, <1>2, <1>3, <1>4 DEF TypeOK, list

(* So does the walk when it begins. *)
LEMMA BeginType ==
    ASSUME TypeOK, NEW event \in {"report", "request", "Down", "Up"}, Begin(event)
    PROVE  /\ walk' \in WalkType
           /\ walk'.p = NULL /\ ~walk'.tested
           /\ walks' \in 0..MaxWalks
           /\ UNCHANGED <<calm, list, api, lost>>
<1>1. Due \in SUBSET Adapters
  BY BoundsAssumption DEF TypeOK, Due, Listed, Slots
<1>2. /\ UNCHANGED <<calm, list, api, lost>>
      /\ walks' = walks + 1 /\ walks < MaxWalks
      /\ walk' = [Idle EXCEPT !.event = event, !.due = IF calm THEN Due ELSE {}]
  BY DEF Begin
<1>3. walk' = [event |-> event, i |-> 1, tested |-> FALSE, p |-> NULL,
               due |-> IF calm THEN Due ELSE {}, called |-> {}]
  BY <1>2 DEF Idle
<1>4. walks' \in 0..MaxWalks
  BY <1>2, BoundsAssumption DEF TypeOK
<1>5. PICK due \in SUBSET Adapters : due = IF calm THEN Due ELSE {}
  BY <1>1
<1>6. 1 \in 1..(MAX_ADAPTERS + 1)
  BY BoundsAssumption
<1>7. walk' = [event |-> event, i |-> 1, tested |-> FALSE, p |-> NULL,
               due |-> due, called |-> {}]
  BY <1>3, <1>5
<1>8. /\ walk' \in WalkType
      /\ walk'.p = NULL /\ ~walk'.tested
  BY <1>6, <1>7 DEF WalkType
<1> QED BY <1>2, <1>4, <1>8

(* The modem and the callback thread keep the types and leave the array     *)
(* alone.                                                                   *)
LEMMA CallbackType ==
    ASSUME ListInv,
           Crash \/ Restart \/ Report \/ EngineDown \/ EngineUp
             \/ WalkTest \/ WalkRead \/ WalkCall \/ WalkEnd
    PROVE  TypeOK' /\ WalkAt'
             /\ UNCHANGED list
<1> USE BoundsAssumption, AdaptersAssumption
<1>t. TypeOK /\ WalkAt
  BY DEF ListInv
<1>1. CASE Crash
  BY <1>1, <1>t DEF Crash, TypeOK, WalkAt, list
<1>2. CASE Restart
  BY <1>2, <1>t DEF Restart, TypeOK, WalkAt, list
<1>3. CASE Report
  BY <1>3, <1>t, BeginType DEF Report, TypeOK, WalkType, WalkAt, list
<1>4. CASE EngineDown
  BY <1>4, <1>t, BeginType DEF EngineDown, TypeOK, WalkType, WalkAt, list
<1>5. CASE EngineUp
  <2>1. msgq' \in Seq([kind : {"Open", "Ssr"}, mask : SUBSET Events])
    BY <1>5, <1>t, PostType DEF EngineUp, Ssr
  <2> QED BY <1>5, <1>t, <2>1, BeginType DEF EngineUp, TypeOK, WalkType, WalkAt, list
<1>6. CASE WalkTest \/ WalkRead
  <2>1. /\ walk' \in WalkType
        /\ WalkAt'
    <3>1. walk \in WalkType
      BY <1>t DEF TypeOK, WalkType
    <3>2. CASE WalkTest
      BY <3>1, <3>2 DEF WalkTest, WalkType, WalkAt
    <3>3. CASE WalkRead /\ walk' = [Idle EXCEPT !.event = "fault"]
      <4>1. walk' = [event |-> "fault", i |-> 1, tested |-> FALSE, p |-> NULL,
                     due |-> {}, called |-> {}]
        BY <3>3 DEF Idle
      <4>2. 1 \in 1..(MAX_ADAPTERS + 1)
        OBVIOUS
      <4> QED BY <4>1, <4>2 DEF WalkType, WalkAt
    <3>4. CASE /\ WalkRead
               /\ walk' = [walk EXCEPT !.tested = FALSE,
                                      !.p = mLocAdapters[walk.i]]
      <4>1. walk.i \in Slots
        BY <1>t, <3>4 DEF WalkRead, WalkAt
      <4>2. mLocAdapters[walk.i] \in Adapters \cup {NULL}
        BY <1>t, <4>1 DEF TypeOK
      <4> QED BY <3>1, <3>4, <4>1, <4>2 DEF WalkType, WalkAt
    <3> QED BY <1>6, <3>2, <3>3, <3>4 DEF WalkRead
  <2> QED BY <1>6, <1>t, <2>1 DEF WalkTest, WalkRead, TypeOK, WalkType, list
<1>7. CASE WalkCall
  <2>1. PICK i \in Slots : i = walk.i /\ ~walk.tested
    BY <1>7, <1>t DEF WalkCall, WalkAt
  <2>2. walk.p \in Adapters /\ i + 1 \in 1..(MAX_ADAPTERS + 1)
    BY <1>7, <1>t DEF WalkCall, TypeOK, Slots
  <2>3. /\ walk' \in WalkType
        /\ walk'.p = NULL /\ ~walk'.tested
    <3>1. PICK j \in 1..(MAX_ADAPTERS + 1), c \in SUBSET Adapters :
             walk' = [walk EXCEPT !.p = NULL, !.i = j, !.called = c]
      <4>1. walk.called \cup {walk.p} \in SUBSET Adapters
        BY <1>t, <2>2 DEF TypeOK
      <4>2. walk.called \in SUBSET Adapters
              /\ MAX_ADAPTERS + 1 \in 1..(MAX_ADAPTERS + 1)
        BY <1>t DEF TypeOK
      <4> QED BY <1>7, <2>1, <2>2, <4>1, <4>2 DEF WalkCall
    <3> QED BY <1>t, <2>1, <3>1 DEF TypeOK, WalkType
  <2> QED BY <1>7, <1>t, <2>3 DEF WalkCall, TypeOK, WalkType, WalkAt, list
<1>8. CASE WalkEnd
  BY <1>8, <1>t DEF WalkEnd, Idle, TypeOK, WalkAt, list
<1> QED BY <1>1, <1>2, <1>3, <1>4, <1>5, <1>6, <1>7, <1>8

(* Every step keeps the array and the types. *)
LEMMA ListStep == ListInv /\ [Next]_vars => ListInv'
<1> SUFFICES ASSUME ListInv, [Next]_vars PROVE ListInv' OBVIOUS
<1>k. ASSUME TypeOK', WalkAt', UNCHANGED list
      PROVE  ListInv'
  BY <1>k, ShapeKept DEF ListInv, list, Present
<1>1. CASE UNCHANGED vars
  BY <1>1, <1>k DEF ListInv, WalkAt, TypeOK, vars, list
<1>2. ASSUME NEW a \in Adapters, Built(a) PROVE ListInv'
  <2>1. TypeOK'
    BY <1>2 DEF ListInv, TypeOK, Built
  <2>2. Present' = Present
           /\ \A b \in Adapters : phase[b] = "leaving" => phase'[b] = "leaving"
    BY <1>2 DEF ListInv, TypeOK, Built, Present
  <2> QED BY <1>2, <2>1, <2>2, ShapeKept DEF ListInv, WalkAt, Built
<1>3. CASE ProcOpen \/ ProcSsr
  BY <1>3, <1>k, ProcType DEF ListInv, WalkAt, ProcOpen, ProcSsr
<1>4. CASE \/ Crash \/ Restart \/ Report \/ EngineDown \/ EngineUp
           \/ WalkTest \/ WalkRead \/ WalkCall \/ WalkEnd
  BY <1>4, <1>k, CallbackType
<1> QED BY <1>1, <1>2, <1>3, <1>4, JoinList, LeaveList, FillList, CutList DEF Next

-----------------------------------------------------------------------------
(* What the client has asked for, and what the queue will ask for.          *)

(* A message that is posted adds its events to those that are coming.       *)
LEMMA ComingPost ==
    ASSUME TypeOK, NEW m \in [kind : {"Open", "Ssr"}, mask : SUBSET Events],
           msgq' = Append(msgq, m)
    PROVE  Coming \subseteq Coming' /\ m.mask \subseteq Coming'
<1> DEFINE M == [kind : {"Open", "Ssr"}, mask : SUBSET Events]
           q == Append(msgq, m)
<1>1. msgq \in Seq(M) /\ m \in M /\ m.mask \in SUBSET Events
  BY DEF TypeOK
<1> HIDE DEF M
<1>2. /\ Len(q) = Len(msgq) + 1 /\ Len(msgq) \in Nat
      /\ \A k \in 1..Len(msgq) : q[k] = msgq[k]
      /\ q[Len(msgq) + 1] = m
  BY <1>1
<1>3. msgq' = q
  OBVIOUS
<1> HIDE DEF q
<1> QED BY <1>1, <1>2, <1>3 DEF Coming

(* The message that is taken is the only one whose events may be coming no  *)
(* longer.                                                                  *)
LEMMA ComingTake ==
    ASSUME TypeOK, msgq # <<>>, msgq' = Tail(msgq)
    PROVE  Coming \subseteq Head(msgq).mask \cup Coming'
<1> DEFINE M == [kind : {"Open", "Ssr"}, mask : SUBSET Events]
<1>1. msgq \in Seq(M)
  BY DEF TypeOK
<1> HIDE DEF M
<1>2. /\ Len(msgq') = Len(msgq) - 1 /\ Len(msgq) \in Nat
      /\ \A k \in 2..Len(msgq) : msgq'[k - 1] = msgq[k]
      /\ Head(msgq) = msgq[1]
  BY <1>1
<1>3. ASSUME NEW k \in 1..Len(msgq), k # 1
      PROVE  k - 1 \in 1..Len(msgq') /\ msgq'[k - 1] = msgq[k]
  BY <1>2, <1>3
<1> QED BY <1>2, <1>3 DEF Coming

(* Initially nobody wants anything. *)
LEMMA MaskInit == Init => MaskInv
<1> SUFFICES ASSUME Init PROVE MaskInv OBVIOUS
<1>1. \A k \in Slots : mLocAdapters[k] = NULL
  BY DEF Init
<1>2. getEvtMask(mLocAdapters) = {}
  <2>1. 0 \in 0..MAX_ADAPTERS /\ \A k \in 1..0 : mLocAdapters[k] # NULL
    BY BoundsAssumption
  <2>2. \A e : e \in getEvtMask(mLocAdapters) <=>
                 e \notin Excluded /\ \E k \in 1..0 : e \in EvtMask[mLocAdapters[k]]
    BY <1>1, <2>1, WantedIs
  <2> QED BY <2>2
<1> QED BY <1>2 DEF Init, MaskInv, Closed

(* An adapter that joins posts a message that asks for what it wants.       *)
LEMMA JoinMask ==
    ASSUME ListInv, MaskInv, NEW a \in Adapters, Join(a)
    PROVE  MaskInv'
<1> USE BoundsAssumption, AdaptersAssumption
<1>1. PICK n \in 0..MAX_ADAPTERS : Filled(n)
  BY DEF Join, Free, ListInv, ListShape
<1>2. /\ End(mLocAdapters) = n + 1
      /\ \A k \in Slots : mLocAdapters[k] # NULL <=> k <= n
      /\ TypeOK
      /\ removal.step = "none" /\ UNCHANGED <<api, lost, removal>>
  BY <1>1, FilledEnd DEF ListInv, Join, Free
<1>3. CASE n + 1 \in Slots
  <2>1. /\ mLocAdapters' = [mLocAdapters EXCEPT ![n + 1] = a]
        /\ msgq' = Append(msgq, Open(EvtMask[a]))
    BY <1>2, <1>3 DEF Join
  <2>2. /\ Open(EvtMask[a]) \in [kind : {"Open", "Ssr"}, mask : SUBSET Events]
        /\ Open(EvtMask[a]).mask = EvtMask[a]
    BY DEF Open
  <2>3. Coming \subseteq Coming' /\ EvtMask[a] \subseteq Coming'
    BY <1>2, <2>1, <2>2, ComingPost
  <2>4. /\ \A k \in 1..n : mLocAdapters[k] # NULL
        /\ n + 1 \in Slots => mLocAdapters[n + 1] = NULL
        /\ \A k \in 1..(n + 1) : mLocAdapters'[k] # NULL
        /\ n + 1 + 1 \in Slots => mLocAdapters'[n + 1 + 1] = NULL
        /\ n + 1 \in 0..MAX_ADAPTERS
        /\ \A k \in 1..n : mLocAdapters'[k] = mLocAdapters[k]
        /\ mLocAdapters'[n + 1] = a
    BY <1>2, <1>3, <2>1 DEF TypeOK, Slots
  <2>5. ASSUME NEW e \in getEvtMask(mLocAdapters')
        PROVE  e \in getEvtMask(mLocAdapters) \/ e \in EvtMask[a]
    <3>1. PICK k \in 1..(n + 1) : e \notin Excluded /\ e \in EvtMask[mLocAdapters'[k]]
      BY <2>4, <2>5, WantedIs
    <3>2. CASE k = n + 1
      BY <2>4, <3>1, <3>2
    <3>3. CASE k \in 1..n
      BY <2>4, <3>1, <3>3, WantedIs
    <3> QED BY <3>1, <3>2, <3>3
  <2> QED BY <1>2, <2>3, <2>5 DEF MaskInv
<1>4. CASE n + 1 \notin Slots
  <2>1. UNCHANGED <<mLocAdapters, msgq>>
    BY <1>2, <1>4 DEF Join
  <2> QED BY <1>2, <2>1 DEF MaskInv, Coming
<1> QED BY <1>3, <1>4

(* Whoever leaves has the others asked for again, or closes the client of   *)
(* an empty array.                                                          *)
LEMMA CutMask ==
    ASSUME ListInv, MaskInv, LeaveCut
    PROVE  MaskInv'
<1> USE BoundsAssumption, AdaptersAssumption
<1>0. PICK i \in Slots : i = removal.i
  BY DEF ListInv, TypeOK
<1>1. /\ TypeOK /\ removal.step = "cut" /\ removal' = NoRemoval
      /\ Hold(1..(i - 1))
      /\ mLocAdapters' = [mLocAdapters EXCEPT ![i] = NULL]
      /\ UNCHANGED lost
  BY <1>0 DEF ListInv, ListShape, LeaveCut
<1>2. /\ i - 1 \in 0..MAX_ADAPTERS
      /\ \A k \in 1..(i - 1) : mLocAdapters'[k] # NULL
      /\ i - 1 + 1 \in Slots => mLocAdapters'[i - 1 + 1] = NULL
      /\ mLocAdapters' \in [Slots -> Adapters \cup {NULL}]
  BY <1>0, <1>1 DEF TypeOK, Slots, Hold
<1>3. /\ getEvtMask(mLocAdapters') \in SUBSET Events
      /\ getEvtMask(mLocAdapters') \cap Excluded = {}
  BY <1>2, WantedType
<1>4. CASE i = 1 /\ api' = Closed
  <2>1. \A e : e \in getEvtMask(mLocAdapters') <=>
                 e \notin Excluded
                   /\ \E k \in 1..(i - 1) : e \in EvtMask[mLocAdapters'[k]]
    BY <1>2, WantedIs
  <2>2. getEvtMask(mLocAdapters') = {}
    BY <1>4, <2>1
  <2> QED BY <1>4, <2>2 DEF MaskInv, Closed
<1>5. CASE msgq' = Append(msgq, Open(getEvtMask(mLocAdapters'))) /\ UNCHANGED api
  <2>1. /\ Open(getEvtMask(mLocAdapters')) \in [kind : {"Open", "Ssr"},
              mask : SUBSET Events]
        /\ Open(getEvtMask(mLocAdapters')).mask = getEvtMask(mLocAdapters')
    BY <1>3 DEF Open
  <2>2. getEvtMask(mLocAdapters') \subseteq Coming'
    BY <1>1, <1>5, <2>1, ComingPost
  <2> QED BY <1>5, <2>2 DEF MaskInv
<1> QED BY <1>0, <1>1, <1>4, <1>5 DEF LeaveCut

(* The message that opens the client asks for its events, or open is lost.  *)
LEMMA ProcOpenMask ==
    ASSUME ListInv, MaskInv, ProcOpen
    PROVE  MaskInv'
<1> DEFINE mask == Head(msgq).mask \ Excluded
<1>1. /\ TypeOK /\ msgq # <<>> /\ msgq' = Tail(msgq)
      /\ UNCHANGED <<mLocAdapters, removal>>
      /\ getEvtMask(mLocAdapters) \cap Excluded = {}
  BY WantedNow DEF ListInv, ProcOpen, list
<1>2. Coming \subseteq Head(msgq).mask \cup Coming'
  BY <1>1, ComingTake
<1>3. lost' = (lost \/ Missing(mask))
  BY Zenon DEF ProcOpen
<1>4. ~lost' => ~lost /\ api'.handle = "open" /\ mask \subseteq api'.registered
  BY <1>3, Zenon DEF Missing
<1>5. \/ api.handle = "invalid" /\ (api' = Opened(mask) \/ api' = Closed)
      \/ api.handle # "invalid" /\ UNCHANGED api
      \/ api.handle = "open" /\ api' = Opened(api.mMask \cup mask)
  BY DEF ProcOpen, Connect, Register
<1>6. mask \cap Excluded = {}
  OBVIOUS
<1> HIDE DEF mask
<1>7. /\ api'.handle = "open" => api'.registered = api'.mMask
      /\ api'.handle = "invalid" => api'.registered = {}
      /\ api'.mMask \cap Excluded = {} /\ api'.registered \cap Excluded = {}
  BY <1>5, <1>6 DEF MaskInv, Opened, Closed
<1>8. ASSUME ~lost', removal.step = "none",
             NEW e \in getEvtMask(mLocAdapters)
      PROVE  e \in api'.registered \/ e \in Coming'
  <2>1. api.handle # "stale" /\ api.registered \subseteq api'.registered
    BY <1>4, <1>5, <1>8 DEF MaskInv, Opened, Closed, TypeOK
  <2>2. e \in api.registered \/ e \in Coming
    BY <1>4, <1>8, <2>1 DEF MaskInv
  <2>3. e \notin Excluded
    BY <1>1, <1>8
  <2> QED BY <1>2, <1>4, <1>8, <2>1, <2>2, <2>3 DEF mask
<1>9. getEvtMask(mLocAdapters)' = getEvtMask(mLocAdapters)
  BY <1>1 DEF getEvtMask, End
<1> QED BY <1>1, <1>7, <1>8, <1>9 DEF MaskInv

(* The message that follows a restart asks for what all adapters want.      *)
LEMMA ProcSsrMask ==
    ASSUME ListInv, MaskInv, ProcSsr
    PROVE  MaskInv'
<1> DEFINE mask == getEvtMask(mLocAdapters)
<1>1. UNCHANGED <<mLocAdapters, removal>> /\ mask \cap Excluded = {}
  BY WantedNow DEF ProcSsr, list
<1>2. lost' = Missing(mask)
  BY Zenon DEF ProcSsr
<1>3. ~lost' => api'.handle = "open" /\ mask \subseteq api'.registered
  BY <1>2, Zenon DEF Missing
<1>4. api' = Opened(mask) \/ api' = Closed
  BY DEF ProcSsr, Connect
<1>5. getEvtMask(mLocAdapters)' = mask
  BY <1>1 DEF getEvtMask, End
<1> HIDE DEF mask
<1> QED BY <1>1, <1>3, <1>4, <1>5 DEF MaskInv, Opened, Closed

(* Every step keeps the client's mask. *)
LEMMA MaskStep == ListInv /\ MaskInv /\ [Next]_vars => MaskInv'
<1> SUFFICES ASSUME ListInv, MaskInv, [Next]_vars PROVE MaskInv' OBVIOUS
<1>w. ASSUME UNCHANGED mLocAdapters
      PROVE  getEvtMask(mLocAdapters)' = getEvtMask(mLocAdapters)
  BY <1>w DEF getEvtMask, End
<1>k. ASSUME UNCHANGED <<list, api, lost>>, Coming \subseteq Coming'
      PROVE  MaskInv'
  BY <1>k, <1>w DEF MaskInv, list
<1>m. ASSUME UNCHANGED msgq PROVE Coming' = Coming
  BY <1>m DEF Coming
<1>1. CASE UNCHANGED vars
  BY <1>1, <1>k, <1>m DEF vars, list
<1>2. ASSUME NEW a \in Adapters, Built(a) PROVE MaskInv'
  BY <1>2, <1>w, <1>m DEF Built, MaskInv
<1>3. ASSUME NEW a \in Adapters, Leave(a) PROVE MaskInv'
  BY <1>3, <1>w, <1>m DEF Leave, MaskInv
<1>4. CASE LeaveFill
  <2>1. removal'.step = "cut"
    BY <1>4 DEF LeaveFill, ListInv, TypeOK
  <2> QED BY <1>4, <2>1 DEF LeaveFill, MaskInv
<1>5. CASE Crash
  <2>1. api'.handle = "stale" \/ api' = api
    BY <1>5 DEF Crash, ListInv, TypeOK
  <2>2. api'.mMask = api.mMask /\ (api' # api => api'.registered = {})
    BY <1>5 DEF Crash, ListInv, TypeOK
  <2> QED BY <1>5, <2>1, <2>2, <1>w, <1>m DEF Crash, MaskInv, list
<1>6. CASE Restart \/ WalkTest \/ WalkRead \/ WalkCall \/ WalkEnd
  BY <1>6, <1>k, <1>m DEF Restart, WalkTest, WalkRead, WalkCall, WalkEnd
<1>7. CASE Report \/ EngineDown
  BY <1>7, <1>k, <1>m DEF Report, EngineDown, Begin
<1>8. CASE EngineUp
  <2>1. Ssr \in [kind : {"Open", "Ssr"}, mask : SUBSET Events]
    BY DEF Ssr
  <2>2. Coming \subseteq Coming'
    BY <1>8, <2>1, ComingPost DEF EngineUp, ListInv
  <2> QED BY <1>8, <2>2, <1>k DEF EngineUp, Begin
<1> QED BY <1>1, <1>2, <1>3, <1>4, <1>5, <1>6, <1>7, <1>8, JoinMask, CutMask,
           ProcOpenMask, ProcSsrMask DEF Next

-----------------------------------------------------------------------------
(* Delivery.                                                               *)

(* Every step of a calm behaviour keeps the walk on its way to whoever it   *)
(* has still to call.                                                       *)
LEMMA WalkStep == ListInv /\ WalkInv /\ [Next]_vars => WalkInv'
<1> SUFFICES ASSUME ListInv, WalkInv, [Next]_vars, calm', walk'.event # "none"
             PROVE  Ahead'
  BY DEF WalkInv
<1>t. TypeOK /\ WalkAt
  BY DEF ListInv
<1>a. calm /\ walk.event # "none" => Ahead
  BY DEF WalkInv
<1>k. ASSUME UNCHANGED <<calm, list, walk>> PROVE Ahead'
  BY <1>k, <1>a DEF list, PassedOver, Ahead
<1>1. CASE UNCHANGED vars
  BY <1>1, <1>k DEF vars
<1>2. ASSUME NEW a \in Adapters, Join(a) PROVE Ahead'
  <2>1. PICK n \in 0..MAX_ADAPTERS : Filled(n)
    BY <1>2 DEF Join, Free, ListInv, ListShape
  <2>2. /\ End(mLocAdapters) = n + 1
        /\ \A k \in Slots : mLocAdapters[k] # NULL <=> k <= n
        /\ UNCHANGED <<calm, walk, removal>> /\ phase[a] = "none"
    BY <1>2, <1>t, <2>1, FilledEnd DEF Join
  <2>3. \A k \in Slots : mLocAdapters[k] # NULL => mLocAdapters'[k] = mLocAdapters[k]
    BY <1>2, <1>t, <2>2, BoundsAssumption DEF Join, TypeOK, Slots
  <2>4. \A b \in Adapters : phase[b] = "ready" => phase'[b] = "ready"
    BY <1>2, <1>t DEF Join, TypeOK
  <2>5. walk.due \subseteq Adapters /\ walk.p \in Adapters \cup {NULL}
    BY <1>t DEF TypeOK
  <2>6. PassedOver' \subseteq PassedOver /\ PassedOver \subseteq Adapters
    BY <1>a, <2>2, <2>5 DEF PassedOver, Ahead
  <2> QED BY <1>a, <1>t, <2>2, <2>3, <2>4, <2>5, <2>6, AdaptersAssumption
     DEF Ahead, WalkAt
<1>3. ASSUME NEW a \in Adapters, Built(a) PROVE Ahead'
  <2>1. UNCHANGED <<calm, walk, removal, mLocAdapters>>
    BY <1>3 DEF Built
  <2>2. \A b \in Adapters : phase[b] = "ready" => phase'[b] = "ready"
    BY <1>3, <1>t DEF Built, TypeOK
  <2>3. walk.due \subseteq Adapters
    BY <1>t DEF TypeOK
  <2>4. PassedOver' \subseteq PassedOver
    BY <1>a, <2>1 DEF PassedOver, Ahead
  <2> QED BY <1>a, <2>1, <2>2, <2>3, <2>4 DEF Ahead
<1>4. ASSUME NEW a \in Adapters, Leave(a) PROVE Ahead'
  BY <1>4 DEF Leave, Idle
<1>5. CASE LeaveFill \/ LeaveCut
  BY <1>5, <1>a DEF LeaveFill, LeaveCut, Ahead
<1>6. CASE ProcOpen \/ ProcSsr \/ Crash \/ Restart
  BY <1>6, <1>k DEF ProcOpen, ProcSsr, Crash, Restart
<1>7. ASSUME NEW event \in {"report", "request", "Down", "Up"}, Begin(event)
      PROVE  Ahead'
  <2>1. /\ removal.step = "none" /\ UNCHANGED list
        /\ walk' = [event |-> event, i |-> 1, tested |-> FALSE, p |-> NULL,
                    due |-> Due, called |-> {}]
    BY <1>7 DEF Begin, Idle
  <2>2. \A a \in Due : phase[a] = "ready" /\ \E k \in Slots : k >= 1
          /\ mLocAdapters[k] = a
    BY BoundsAssumption DEF Due, Listed, Slots
  <2>3. PassedOver' \subseteq Due
    BY <2>1 DEF PassedOver
  <2> QED BY <1>7, <2>1, <2>2, <2>3 DEF list, Ahead
<1>8. CASE Report \/ EngineDown \/ EngineUp
  BY <1>8, <1>7 DEF Report, EngineDown, EngineUp
<1>12. CASE WalkTest
  <2>1. /\ UNCHANGED <<calm, list>>
        /\ walk' = [walk EXCEPT !.tested = TRUE]
        /\ mLocAdapters[walk.i] # NULL
    BY <1>12 DEF WalkTest
  <2>2. /\ walk'.event = walk.event /\ walk'.i = walk.i /\ walk'.due = walk.due
        /\ walk'.called = walk.called /\ walk'.p = walk.p
    BY <1>t, <2>1 DEF TypeOK
  <2>3. PassedOver' = PassedOver
    BY <2>1, <2>2 DEF PassedOver, list
  <2> QED BY <1>a, <2>1, <2>2, <2>3 DEF list, Ahead
<1>9. CASE WalkRead
  <2>0. calm /\ walk.tested /\ walk.event # "none"
    BY <1>9 DEF WalkRead, Delivering
  <2>1. /\ UNCHANGED <<calm, list>>
        /\ walk' = [walk EXCEPT !.tested = FALSE, !.p = mLocAdapters[walk.i]]
    BY <1>9, <1>a, <2>0 DEF WalkRead, Ahead
  <2>2. /\ walk'.event = walk.event /\ walk'.i = walk.i /\ walk'.due = walk.due
        /\ walk'.called = walk.called /\ walk'.p = mLocAdapters[walk.i]
        /\ ~walk'.tested
    BY <1>t, <2>1 DEF TypeOK
  <2>3. PassedOver' = PassedOver
    BY <2>1, <2>2 DEF PassedOver, list
  <2> QED BY <1>a, <2>1, <2>2, <2>3 DEF list, Ahead
<1>10. CASE WalkCall
  <2> DEFINE p == walk.p
             reached == phase[p] = "ready"
             stops == walk.event = "request" /\ reached /\ p \in Handling
  <2>1. /\ UNCHANGED <<calm, list>> /\ p # NULL
        /\ walk' = [walk EXCEPT !.p = NULL,
                               !.i = IF stops THEN MAX_ADAPTERS + 1 ELSE @ + 1,
                               !.called = IF calm /\ reached THEN @ \cup {p} ELSE @]
    BY <1>10 DEF WalkCall
  <2>2. /\ walk'.event = walk.event /\ walk'.p = NULL /\ walk'.due = walk.due
        /\ walk'.i = IF stops THEN MAX_ADAPTERS + 1 ELSE walk.i + 1
        /\ walk'.called = IF reached THEN walk.called \cup {p} ELSE walk.called
        /\ ~walk'.tested
    BY <1>t, <2>1 DEF TypeOK, WalkAt
  <2>3. Ahead
    BY <1>a, <2>1, <2>2
  <2>4. PassedOver' \subseteq PassedOver
    BY <2>1, <2>2 DEF PassedOver, list
  <2>5. ASSUME stops PROVE PassedOver' = {}
    BY <2>1, <2>2, <2>5 DEF PassedOver, list
  <2>6. ASSUME NEW a \in PassedOver', ~stops
        PROVE  \E k \in Slots : k >= walk.i + 1 /\ mLocAdapters[k] = a
    <3>1. PICK k \in Slots : k >= walk.i /\ mLocAdapters[k] = a
      BY <2>3, <2>4, <2>6 DEF Ahead
    <3>2. k # walk.i
      <4>1. SUFFICES ASSUME k = walk.i PROVE FALSE
        OBVIOUS
      <4>2. a = p
        BY <2>1, <2>3, <3>1, <4>1 DEF Ahead
      <4>3. a \in walk.due /\ a \notin walk'.called
        BY <2>2, <2>6 DEF PassedOver
      <4> QED BY <2>2, <2>3, <4>2, <4>3 DEF Ahead
    <3> QED BY <1>t, <3>1, <3>2 DEF TypeOK, Slots
  <2> QED BY <2>1, <2>2, <2>3, <2>5, <2>6 DEF list, Ahead
<1>11. CASE WalkEnd
  BY <1>11 DEF WalkEnd, Idle
<1> QED BY <1>1, <1>2, <1>3, <1>4, <1>5, <1>6, <1>8, <1>9, <1>10, <1>11,
           <1>12 DEF Next

-----------------------------------------------------------------------------
(* The three parts together hold initially and are kept by every step.      *)
LEMMA InvCorrect == Spec => []Inv
<1>1. Init => Inv
  BY ListInit, MaskInit DEF Init, Idle, Inv, WalkInv
<1>2. Inv /\ [Next]_vars => Inv'
  BY ListStep, MaskStep, WalkStep DEF Inv
<1> QED BY <1>1, <1>2, PTL DEF Spec

(* Every variable keeps its type: no step of a walk or of a removal leaves  *)
(* the array.                                                               *)
THEOREM TypeCorrect == Spec => []TypeOK
<1>1. Inv => TypeOK
  BY DEF Inv, ListInv
<1> QED BY <1>1, InvCorrect, PTL

(* Whatever joins, leaves, opens, fails and restarts, in whatever order the *)
(* three threads take their steps: between two removals the array holds     *)
(* every adapter that joined, once and without holes, and a client that is  *)
(* open has asked the modem for what they want.                             *)
THEOREM AdaptersAreServed == Spec => []AdaptersServed
<1>1. Inv => Compact
  <2> SUFFICES ASSUME Inv, removal.step = "none"
               PROVE  LET n == End(mLocAdapters) - 1
                      IN  /\ \A k \in Slots : mLocAdapters[k] # NULL <=> k <= n
                          /\ \A k, l \in 1..n : k # l
                                => mLocAdapters[k] # mLocAdapters[l]
                          /\ Listed = {a \in Adapters : phase[a] \in {"building",
                                "ready"}}
    BY DEF Inv, ListInv, Compact
  <2>1. PICK n \in 0..MAX_ADAPTERS : Filled(n)
    BY DEF Inv, ListInv, ListShape
  <2>2. /\ End(mLocAdapters) - 1 = n
        /\ \A k \in Slots : mLocAdapters[k] # NULL <=> k <= n
        /\ Listed = Present
    BY <2>1, FilledEnd, BoundsAssumption DEF Inv, ListInv
  <2> QED BY <2>1, <2>2 DEF Filled, Hold, Present
<1>2. Inv => MaskCovers
  <2> SUFFICES ASSUME Inv, api.handle = "open", msgq = <<>>, removal.step = "none",
                        ~lost
               PROVE  /\ getEvtMask(mLocAdapters) \subseteq api.registered
                      /\ api.registered \cap Excluded = {}
    BY DEF MaskCovers
  <2>1. Coming = {}
    BY DEF Coming
  <2> QED BY <2>1 DEF Inv, MaskInv
<1>3. Inv => AdaptersServed
  BY <1>1, <1>2 DEF AdaptersServed
<1> QED BY <1>3, InvCorrect, PTL

(* While nothing fails and nobody leaves during a delivery, an event of the *)
(* modem reaches every adapter that was ready when its delivery began, even *)
(* as others join, and a request one that handles it if there is any; and   *)
(* no delivery finds a slot empty that it has just tested.                  *)
THEOREM CalmDelivery == Spec => []DeliveredWhenCalm
<1>1. Inv => DeliveredWhenCalm
  <2> SUFFICES ASSUME Inv, calm, AtEnd, NEW a \in PassedOver PROVE FALSE
    BY DEF DeliveredWhenCalm, Inv, WalkInv, Ahead
  <2>1. /\ removal.step = "none"
        /\ TypeOK
        /\ walk.i \in Slots => mLocAdapters[walk.i] = NULL
    BY DEF Inv, ListInv, WalkInv, Ahead, AtEnd, Delivering
  <2>2. PICK k \in Slots : k >= walk.i /\ mLocAdapters[k] = a
    BY DEF Inv, WalkInv, Ahead, AtEnd, Delivering
  <2>3. PICK n \in 0..MAX_ADAPTERS : Filled(n)
    BY <2>1 DEF Inv, ListInv, ListShape
  <2>4. \A l \in Slots : mLocAdapters[l] # NULL <=> l <= n
    BY <2>1, <2>3, FilledEnd
  <2>5. a # NULL
    BY <2>1, AdaptersAssumption DEF PassedOver, TypeOK
  <2>6. k <= n /\ walk.i \in Slots /\ walk.i <= n
    BY <2>1, <2>2, <2>3, <2>4, <2>5, BoundsAssumption DEF TypeOK, Slots
  <2> QED BY <2>1, <2>4, <2>6
<1> QED BY <1>1, InvCorrect, PTL

-----------------------------------------------------------------------------
(* LocClient, for any events and masks, any number of retries, of attempts  *)
(* and of lives of the service.                                             *)

(* What is assumed of the constants.                                        *)
ClientParameters ==
    /\ ClientMasks \subseteq SUBSET ClientEvents
    /\ "error" \notin Client!Listed /\ "none" \notin Client!Listed
    /\ MAX_RETRIES \in Nat /\ MaxAttempts \in Nat /\ MaxLives \in Nat \ {0}

ClientDataType == [mem : {"none", "allocated", "freed"}, self : BOOLEAN,
  filled : BOOLEAN,
             eventRegMask : SUBSET ClientEvents]
ClientPointType == [state : {"none", "live", "released"}, life : 0..MaxLives,
  errcb : BOOLEAN,
              mask : SUBSET ClientEvents, loss : BOOLEAN]

(* While an attempt is under way there is no other handle, and only of what *)
(* QCCI has registered an error callback of; what is to come is fresh.      *)
ClientHandleFits ==
    /\ attempt = Client!NoHandle => pc \in {"idle", "reopen"}
    /\ clientHandle \in {Client!NoHandle, attempt}
    /\ pc \in {"register", "fill", "undo"} => clientHandle = attempt
    /\ pc \notin {"register", "fill", "undo", "idle"}
          => clientHandle = Client!NoHandle
    /\ clientHandle # Client!NoHandle =>
          /\ point[clientHandle].state = "live" /\ point[clientHandle].errcb
          /\ data[clientHandle].mem = "allocated"
          /\ pc = "idle" => data[clientHandle].filled

ClientFresh ==
    /\ \A a \in Client!Attempts : a > attempt => point[a] = Client!NoPoint
          /\ data[a] = Client!NoData
    /\ pc \in {"notifier", "lookup", "wait", "init"}
          => point[attempt] = Client!NoPoint
    /\ pc \in {"notifier", "lookup", "wait", "init", "error_cb"}
          => data[attempt].mem = "allocated"
    /\ pc = "error_cb" => point[attempt].state = "live"
    /\ \A a \in Client!Attempts : point[a].life <= qmi.life

ClientMasksFit ==
    /\ calm /\ pc = "fill" => point[attempt].mask = asked
    /\ Client!MasksAgree

(* The loss of a service is not forgotten once it took the registration.    *)
ClientLossTold ==
    pc \in {"fill", "idle"} /\ clientHandle # Client!NoHandle
      /\ ~Client!Connected(clientHandle)
        => \/ point[clientHandle].loss \/ ssr \/ clientHandle \in deaf
           \/ cb.a = clientHandle /\ cb.what = "error"

ClientCallFits ==
    /\ cb.step # "none" => cb.a \in Client!Attempts
    /\ cb.what = "error" =>
          cb.a \in Client!Attempts /\ (data[cb.a].filled \/ data[cb.a].mem = "freed")

ClientLeft ==
    calm => /\ ~late
            /\ \A a \in Client!Attempts :
                  point[a].state = "live" =>
                      /\ a = clientHandle \/ (a = attempt /\ pc = "error_cb")
                      /\ data[a].mem = "allocated"
            /\ cb.step # "none" => point[cb.a].state = "live"

ClientIInv == /\ Client!TypeOK /\ Client!WaitsForNothing /\ ClientHandleFits
  /\ ClientFresh /\ ClientMasksFit /\ ClientLossTold
        /\ ClientCallFits /\ ClientLeft

LEMMA ClientImplies == ClientParameters /\ ClientIInv => Client!ClientInv
  BY DEF ClientIInv, Client!ClientInv, ClientMasksFit, ClientLossTold,
    Client!LossIsTold, ClientLeft, Client!NothingLeft

ClientPlaces == {"idle", "notifier", "lookup", "wait", "init", "error_cb",
  "register", "undo", "fill",
           "retry", "close", "reopen"}
ClientCallType == [step : {"none", "copy", "call"},
  a : Client!Attempts \cup {Client!NoHandle},
             what : Client!Handled \cup {"none", "error"}]

LEMMA ClientTypeDef ==
    Client!TypeOK <=> /\ calm \in BOOLEAN /\ pc \in ClientPlaces
               /\ tries \in 1..(MAX_RETRIES + 1) /\ asked \in ClientMasks
               /\ clientHandle \in Client!Attempts \cup {Client!NoHandle}
                     /\ attempt \in Client!Attempts \cup {Client!NoHandle}
               /\ data \in [Client!Attempts -> ClientDataType]
                     /\ point \in [Client!Attempts -> ClientPointType]
               /\ qmi \in [up : BOOLEAN, life : 1..MaxLives]
               /\ signalled \in BOOLEAN /\ ssr \in BOOLEAN /\ cb \in ClientCallType
               /\ deaf \subseteq Client!Attempts /\ late \in BOOLEAN
  BY Zenon DEF Client!TypeOK, ClientDataType, ClientPointType, ClientCallType,
    ClientPlaces

LEMMA ClientStart == ClientParameters /\ Client!Init => ClientIInv
<1> SUFFICES ASSUME ClientParameters, Client!Init PROVE ClientIInv
  OBVIOUS
<1>1. Client!NoData \in ClientDataType /\ Client!NoPoint \in ClientPointType
  BY DEF Client!NoData, Client!NoPoint, ClientDataType, ClientPointType,
    ClientParameters
<1>2. Client!TypeOK
  <2>1. data \in [Client!Attempts -> ClientDataType]
          /\ point \in [Client!Attempts -> ClientPointType]
    BY <1>1 DEF Client!Init
  <2>2. /\ tries \in 1..(MAX_RETRIES + 1) /\ qmi \in [up : BOOLEAN,
              life : 1..MaxLives]
    BY DEF Client!Init, ClientParameters
  <2>3. cb \in ClientCallType
    BY DEF Client!Init, Client!NoCall, ClientCallType
  <2>4. /\ asked \in ClientMasks /\ deaf \subseteq Client!Attempts
        /\ clientHandle \in Client!Attempts \cup {Client!NoHandle}
              /\ attempt \in Client!Attempts \cup {Client!NoHandle}
        /\ calm \in BOOLEAN /\ signalled \in BOOLEAN /\ ssr \in BOOLEAN
              /\ late \in BOOLEAN
        /\ pc \in ClientPlaces
    BY Zenon DEF Client!Init, ClientPlaces
  <2> QED
    BY <2>1, <2>2, <2>3, <2>4, ClientTypeDef, Zenon
<1>3. Client!WaitsForNothing /\ ClientHandleFits /\ ClientMasksFit /\ ClientLossTold
  BY DEF Client!Init, Client!WaitsForNothing, ClientHandleFits, ClientMasksFit,
    Client!MasksAgree, ClientLossTold
<1>4. ClientFresh /\ ClientCallFits /\ ClientLeft
  BY DEF Client!Init, ClientFresh, ClientCallFits, ClientLeft, Client!NoPoint,
    Client!NoData, Client!NoCall
<1> QED
  BY <1>2, <1>3, <1>4 DEF ClientIInv

-----------------------------------------------------------------------------
(* The MsgTask thread.                                                      *)

LEMMA ClientLookupInv ==
    ASSUME ClientParameters, ClientIInv, Client!Lookup \/ Client!Wake
    PROVE  ClientIInv'
<1>1. /\ UNCHANGED <<calm, tries, asked, attempt, clientHandle, data, point, qmi,
            ssr, cb, deaf, late>>
      /\ pc \in {"lookup", "wait"} /\ pc' \in {"lookup", "wait", "init"}
      /\ signalled' \in {signalled, FALSE} /\ (pc' = "wait" => ~qmi.up)
  BY DEF Client!Lookup, Client!Wake, Client!Goto, Client!memory
<1>2. Client!TypeOK'
  <2>1. pc' \in ClientPlaces /\ signalled' \in BOOLEAN
    BY <1>1, ClientTypeDef DEF ClientIInv, ClientPlaces
  <2> QED
    BY <1>1, <2>1, ClientTypeDef, Zenon DEF ClientIInv, Client!TypeOK, ClientPlaces
<1>3. Client!WaitsForNothing' /\ ClientHandleFits' /\ ClientFresh'
  BY <1>1 DEF ClientIInv, Client!WaitsForNothing, ClientHandleFits, ClientFresh
<1>4. ClientMasksFit' /\ ClientLossTold'
  BY <1>1 DEF ClientIInv, ClientMasksFit, Client!MasksAgree, ClientLossTold
<1>5. ClientCallFits' /\ ClientLeft'
  BY <1>1 DEF ClientIInv, ClientCallFits, ClientLeft
<1> QED
  BY <1>2, <1>3, <1>4, <1>5 DEF ClientIInv

(* Attempts.                                                                *)
LEMMA ClientAllocateInv ==
    ASSUME ClientParameters, ClientIInv, NEW mask \in ClientMasks,
             Client!Allocate(mask), pc' = "notifier",
           pc \in {"idle", "retry", "reopen"}, clientHandle = Client!NoHandle,
           tries' \in 1..(MAX_RETRIES + 1), signalled' = FALSE,
           UNCHANGED <<calm, clientHandle, point, qmi, ssr, cb, deaf, late>>
    PROVE  ClientIInv'
<1>1. /\ attempt' = attempt + 1 /\ attempt' \in Client!Attempts
            /\ attempt \in Nat /\ asked' = mask
      /\ data' = [data EXCEPT ![attempt'] = Client!NewData]
            /\ data \in [Client!Attempts -> ClientDataType]
  BY ClientTypeDef
    DEF Client!Allocate, ClientIInv, Client!Attempts, Client!NoHandle,
      ClientParameters
<1>2. /\ data' \in [Client!Attempts -> ClientDataType]
            /\ Client!NewData.mem = "allocated"
      /\ \A a \in Client!Attempts : a # attempt' => data'[a] = data[a]
  <2>1. Client!NewData \in ClientDataType /\ Client!NewData.mem = "allocated"
    BY DEF Client!NewData, Client!NoData, ClientDataType
  <2> QED
    BY <1>1, <2>1
<1>3. point[attempt'] = Client!NoPoint /\ data[attempt'] = Client!NoData
  BY <1>1 DEF ClientIInv, ClientFresh
<1>4. Client!TypeOK'
  BY <1>1, <1>2, ClientTypeDef DEF ClientIInv, Client!TypeOK, ClientDataType
<1>5. Client!WaitsForNothing' /\ ClientHandleFits' /\ ClientMasksFit'
        /\ ClientLossTold'
  BY <1>1 DEF Client!WaitsForNothing, ClientHandleFits, ClientMasksFit,
    Client!MasksAgree, ClientLossTold, Client!Attempts, Client!NoHandle
<1>6. ClientFresh'
  BY <1>1, <1>2, <1>3 DEF ClientIInv, ClientFresh, Client!Attempts
<1>7. ClientCallFits'
  <2>1. Client!NoData.filled = FALSE /\ Client!NoData.mem = "none"
    BY DEF Client!NoData
  <2> QED
    BY <1>2, <1>3, <2>1 DEF ClientIInv, ClientCallFits
<1>8. ClientLeft'
  <2>1. Client!NoPoint.state = "none"
    BY DEF Client!NoPoint
  <2> QED
    BY <1>2, <1>3, <2>1 DEF ClientIInv, ClientLeft
<1> QED
  BY <1>4, <1>5, <1>6, <1>7, <1>8 DEF ClientIInv

LEMMA ClientOpenInv == ASSUME ClientParameters, ClientIInv, Client!Open
  \/ Client!Reopen PROVE ClientIInv'
<1>1. PICK mask \in ClientMasks :
          /\ Client!Allocate(mask) /\ pc' = "notifier" /\ tries' = 1
                /\ signalled' = FALSE
          /\ pc \in {"idle", "reopen"} /\ (pc = "idle"
                => clientHandle = Client!NoHandle)
          /\ UNCHANGED <<calm, clientHandle, point, qmi, ssr, cb, deaf, late>>
  BY DEF Client!Open, Client!Reopen
<1>2. clientHandle = Client!NoHandle
  BY <1>1 DEF ClientIInv, ClientHandleFits
<1>3. 1 \in 1..(MAX_RETRIES + 1)
  BY DEF ClientParameters
<1> QED
  BY <1>1, <1>2, <1>3, ClientAllocateInv

LEMMA ClientRetryInv == ASSUME ClientParameters, ClientIInv, Client!Retry
  PROVE ClientIInv'
<1>1. pc = "retry" /\ clientHandle = Client!NoHandle
  BY DEF Client!Retry, ClientIInv, ClientHandleFits
<1>2. CASE /\ tries <= MAX_RETRIES /\ Client!Allocate(asked) /\ tries' = tries + 1
           /\ pc' = "notifier" /\ signalled' = FALSE
           /\ UNCHANGED <<calm, clientHandle, point, qmi, ssr, cb, deaf, late>>
  <2>1. tries' \in 1..(MAX_RETRIES + 1) /\ asked \in ClientMasks
    BY <1>2, ClientTypeDef DEF ClientIInv, ClientParameters
  <2> QED
    BY <1>1, <1>2, <2>1, ClientAllocateInv
<1>3. CASE /\ pc' = "idle"
           /\ UNCHANGED <<calm, tries, asked, attempt, clientHandle, data, point,
                 qmi, signalled,
                          ssr, cb, deaf, late>>
  <2>1. Client!TypeOK'
    BY <1>3, ClientTypeDef, Zenon DEF ClientIInv, Client!TypeOK
  <2>2. Client!WaitsForNothing' /\ ClientHandleFits' /\ ClientFresh'
          /\ ClientMasksFit' /\ ClientLossTold'
    BY <1>1, <1>3
      DEF ClientIInv, Client!WaitsForNothing, ClientHandleFits, ClientFresh,
        ClientMasksFit, Client!MasksAgree, ClientLossTold
  <2>3. ClientCallFits' /\ ClientLeft'
    BY <1>1, <1>3 DEF ClientIInv, ClientCallFits, ClientLeft
  <2> QED
    BY <2>1, <2>2, <2>3 DEF ClientIInv
<1> QED
  BY <1>2, <1>3 DEF Client!Retry, Client!Goto

(* An attempt fails that has no handle yet.                                 *)
LEMMA ClientGiveUpInv ==
    ASSUME ClientParameters, ClientIInv, Client!GiveUp, pc' = "retry",
             pc \in {"notifier", "init", "error_cb"},
           pc = "error_cb" => ~calm,
           UNCHANGED <<calm, tries, asked, attempt, clientHandle, point, qmi,
             signalled, ssr, cb,
                       deaf, late>>
    PROVE  ClientIInv'
<1>1. /\ clientHandle = Client!NoHandle /\ attempt \in Client!Attempts
      /\ data \in [Client!Attempts -> ClientDataType]
            /\ data' = [data EXCEPT ![attempt] = Client!Freed]
  BY ClientTypeDef DEF Client!GiveUp, ClientIInv, ClientHandleFits
<1>2. /\ data' \in [Client!Attempts -> ClientDataType]
            /\ Client!Freed.mem = "freed" /\ data'[attempt] = Client!Freed
      /\ \A a \in Client!Attempts : a # attempt => data'[a] = data[a]
  <2>1. Client!Freed \in ClientDataType /\ Client!Freed.mem = "freed"
    BY DEF Client!Freed, Client!NoData, ClientDataType
  <2> QED
    BY <1>1, <2>1
<1>3. Client!TypeOK'
  BY <1>2, ClientTypeDef DEF ClientIInv, Client!TypeOK, ClientDataType
<1>4. Client!WaitsForNothing' /\ ClientHandleFits' /\ ClientMasksFit'
        /\ ClientLossTold'
  BY <1>1 DEF Client!WaitsForNothing, ClientHandleFits, ClientMasksFit,
    Client!MasksAgree, ClientLossTold, Client!Attempts, Client!NoHandle
<1>5. ClientFresh'
  BY <1>1, <1>2 DEF ClientIInv, ClientFresh, Client!Attempts
<1>6. ClientCallFits'
  BY <1>2 DEF ClientIInv, ClientCallFits
<1>7. ClientLeft'
  <2>1. calm => point[attempt].state # "live"
    BY DEF ClientIInv, ClientFresh, Client!NoPoint
  <2> QED
    BY <1>1, <1>2, <2>1 DEF ClientIInv, ClientLeft
<1> QED
  BY <1>3, <1>4, <1>5, <1>6, <1>7 DEF ClientIInv

LEMMA ClientNotifierInv == ASSUME ClientParameters, ClientIInv,
  Client!Notifier PROVE ClientIInv'
<1>1. CASE /\ pc = "notifier" /\ pc' = "lookup"
           /\ UNCHANGED <<calm, tries, asked, attempt, clientHandle, data, point,
                 qmi, signalled,
                          ssr, cb, deaf, late>>
  <2>1. Client!TypeOK'
    BY <1>1, ClientTypeDef, Zenon DEF ClientIInv, Client!TypeOK
  <2>2. Client!WaitsForNothing' /\ ClientHandleFits' /\ ClientFresh'
          /\ ClientMasksFit' /\ ClientLossTold'
    BY <1>1 DEF ClientIInv, Client!WaitsForNothing, ClientHandleFits, ClientFresh,
      ClientMasksFit, Client!MasksAgree, ClientLossTold
  <2>3. ClientCallFits' /\ ClientLeft'
    BY <1>1 DEF ClientIInv, ClientCallFits, ClientLeft
  <2> QED
    BY <2>1, <2>2, <2>3 DEF ClientIInv
<1>2. CASE /\ pc = "notifier" /\ pc' = "retry" /\ Client!GiveUp
           /\ UNCHANGED <<calm, tries, asked, attempt, clientHandle, point, qmi,
                 signalled, ssr, cb,
                          deaf, late>>
  BY <1>2, ClientGiveUpInv
<1> QED
  BY <1>1, <1>2 DEF Client!Notifier, Client!Goto

LEMMA ClientCtrlPoint == ASSUME ClientParameters, ClientIInv,
  Client!ClientInit PROVE ClientIInv'
<1>1. CASE /\ pc = "init" /\ pc' = "error_cb"
           /\ point' = [point EXCEPT ![attempt] = [Client!NoPoint EXCEPT !.state = "live",
                                                            !.life = qmi.life]]
           /\ UNCHANGED <<calm, tries, asked, attempt, clientHandle, data, qmi,
                 signalled, ssr, cb,
                          deaf, late>>
  <2> DEFINE p == [Client!NoPoint EXCEPT !.state = "live", !.life = qmi.life]
  <2>1. /\ clientHandle = Client!NoHandle /\ attempt \in Client!Attempts
              /\ point \in [Client!Attempts -> ClientPointType]
        /\ qmi.life \in 1..MaxLives
    BY <1>1, ClientTypeDef DEF ClientIInv, ClientHandleFits
  <2>2. p \in ClientPointType /\ p.state = "live" /\ p.life = qmi.life
    <3>1. Client!NoPoint \in ClientPointType
      BY DEF Client!NoPoint, ClientPointType, ClientParameters
    <3>2. qmi.life \in 0..MaxLives
      BY <2>1 DEF ClientParameters
    <3> QED
      BY <3>1, <3>2 DEF ClientPointType, Client!NoPoint
  <2>3. /\ point' \in [Client!Attempts -> ClientPointType]
              /\ point'[attempt].state = "live"
        /\ point'[attempt].life = qmi.life
        /\ \A a \in Client!Attempts : a # attempt => point'[a] = point[a]
    BY <1>1, <2>1, <2>2
  <2>4. Client!TypeOK'
    BY <1>1, <2>3, ClientTypeDef DEF ClientIInv, Client!TypeOK, ClientPointType
  <2>5. Client!WaitsForNothing' /\ ClientHandleFits' /\ ClientMasksFit'
          /\ ClientLossTold'
    BY <1>1, <2>1
      DEF Client!WaitsForNothing, ClientHandleFits, ClientMasksFit,
        Client!MasksAgree, ClientLossTold, Client!Attempts, Client!NoHandle
  <2>6. ClientFresh'
    BY <1>1, <2>1, <2>3 DEF ClientIInv, ClientFresh, Client!Attempts
  <2>7. ClientCallFits'
    BY <1>1 DEF ClientIInv, ClientCallFits
  <2>8. ClientLeft'
    BY <1>1, <2>1, <2>3 DEF ClientIInv, ClientLeft, ClientFresh
  <2> QED
    BY <2>4, <2>5, <2>6, <2>7, <2>8 DEF ClientIInv
<1>2. CASE /\ pc = "init" /\ pc' = "retry" /\ Client!GiveUp
           /\ UNCHANGED <<calm, tries, asked, attempt, clientHandle, point, qmi,
                 signalled, ssr, cb,
                          deaf, late>>
  BY <1>2, ClientGiveUpInv
<1> QED
  BY <1>1, <1>2 DEF Client!ClientInit, Client!Goto

(* QCCI has an error callback, LocApiV02 a handle.                          *)
LEMMA ClientRegisterErrorCbInv == ASSUME ClientParameters, ClientIInv,
  Client!RegisterErrorCb PROVE ClientIInv'
<1>1. ASSUME NEW loss \in {FALSE, ~Client!Connected(attempt)},
             point' = [point EXCEPT ![attempt].errcb = TRUE, ![attempt].loss = loss],
             data' = [data EXCEPT ![attempt].self = TRUE], clientHandle' = attempt,
             pc = "error_cb", pc' = "register",
             UNCHANGED <<calm, tries, asked, attempt, qmi, signalled, ssr, cb, deaf,
               late>>
      PROVE  ClientIInv'
  <2>1. /\ clientHandle = Client!NoHandle /\ attempt \in Client!Attempts
              /\ loss \in BOOLEAN
        /\ point \in [Client!Attempts -> ClientPointType]
              /\ data \in [Client!Attempts -> ClientDataType]
        /\ data[attempt].mem = "allocated"
    BY <1>1, ClientTypeDef
      DEF ClientIInv, ClientHandleFits, ClientFresh, Client!Connected
  <2>2. /\ point' \in [Client!Attempts -> ClientPointType]
        /\ point'[attempt].state = point[attempt].state
              /\ point'[attempt].errcb = TRUE
        /\ point'[attempt].life = point[attempt].life
        /\ \A a \in Client!Attempts : a # attempt => point'[a] = point[a]
    BY <1>1, <2>1 DEF ClientPointType
  <2>3. /\ data' \in [Client!Attempts -> ClientDataType]
        /\ data'[attempt].mem = data[attempt].mem
              /\ data'[attempt].filled = data[attempt].filled
        /\ \A a \in Client!Attempts : a # attempt => data'[a] = data[a]
    BY <1>1, <2>1 DEF ClientDataType
  <2>4. point[attempt].state = "live"
    BY <1>1 DEF ClientIInv, ClientFresh
  <2>5. Client!TypeOK'
    BY <1>1, <2>1, <2>2, <2>3, ClientTypeDef
      DEF ClientIInv, Client!TypeOK, ClientPointType, ClientDataType
  <2>6. Client!WaitsForNothing' /\ ClientHandleFits' /\ ClientMasksFit'
          /\ ClientLossTold'
    BY <1>1, <2>1, <2>2, <2>3, <2>4
       DEF Client!WaitsForNothing, ClientHandleFits, ClientMasksFit,
         Client!MasksAgree, ClientLossTold, Client!Attempts, Client!NoHandle
  <2>7. ClientFresh'
    BY <1>1, <2>1, <2>2, <2>3 DEF ClientIInv, ClientFresh, Client!Attempts
  <2>8. ClientCallFits'
    BY <1>1, <2>1, <2>3 DEF ClientIInv, ClientCallFits
  <2>9. ClientLeft'
    <3>1. cb.step # "none" => cb.a \in Client!Attempts
      BY DEF ClientIInv, ClientCallFits
    <3>2. \A a \in Client!Attempts : calm /\ point[a].state = "live" => a = attempt
      BY <2>1 DEF ClientIInv, ClientLeft, Client!NoHandle, Client!Attempts
    <3> QED
      BY <1>1, <2>1, <2>2, <2>3, <3>1, <3>2 DEF ClientIInv, ClientLeft
  <2> QED
    BY <2>5, <2>6, <2>7, <2>8, <2>9 DEF ClientIInv
<1>2. CASE /\ pc = "error_cb" /\ ~calm /\ pc' = "retry" /\ Client!GiveUp
           /\ UNCHANGED <<calm, tries, asked, attempt, clientHandle, point, qmi,
                 signalled, ssr, cb,
                          deaf, late>>
  BY <1>2, ClientGiveUpInv
<1> QED
  BY <1>1, <1>2 DEF Client!RegisterErrorCb, Client!Goto

(* A registration, the first or a later one, takes or does not.             *)
LEMMA ClientRegistrationEffect ==
    ASSUME ClientParameters, ClientIInv, NEW a \in Client!Attempts,
             NEW mask \in ClientMasks,
           Client!Acknowledged(a, mask) \/ Client!Unacknowledged(a, mask)
    PROVE  /\ point' \in [Client!Attempts -> ClientPointType]
                 /\ data' \in [Client!Attempts -> ClientDataType]
           /\ \A b \in Client!Attempts :
                 /\ b # a => point'[b] = point[b] /\ data'[b] = data[b]
                 /\ point'[b].state = point[b].state /\ point'[b].life = point[b].life
                 /\ point'[b].errcb = point[b].errcb /\ point'[b].loss = point[b].loss
                 /\ data'[b].mem = data[b].mem /\ data'[b].filled = data[b].filled
           /\ Client!Acknowledged(a, mask) =>
                 Client!Connected(a) /\ point'[a].mask = mask
                   /\ data'[a].eventRegMask = mask
           /\ calm /\ Client!Unacknowledged(a, mask) => ~Client!Connected(a)
<1>1. /\ point \in [Client!Attempts -> ClientPointType]
            /\ data \in [Client!Attempts -> ClientDataType]
      /\ mask \in SUBSET ClientEvents
  BY ClientTypeDef DEF ClientIInv, ClientParameters
<1>2. /\ point' = point \/ point' = [point EXCEPT ![a].mask = mask]
      /\ data' = data \/ data' = [data EXCEPT ![a].eventRegMask = mask]
  BY DEF Client!Acknowledged, Client!Unacknowledged
<1>3. /\ point' \in [Client!Attempts -> ClientPointType]
      /\ \A b \in Client!Attempts :
            /\ b # a => point'[b] = point[b]
            /\ point'[b].state = point[b].state /\ point'[b].life = point[b].life
            /\ point'[b].errcb = point[b].errcb /\ point'[b].loss = point[b].loss
  BY <1>1, <1>2 DEF ClientPointType
<1>4. /\ data' \in [Client!Attempts -> ClientDataType]
      /\ \A b \in Client!Attempts :
            /\ b # a => data'[b] = data[b]
            /\ data'[b].mem = data[b].mem /\ data'[b].filled = data[b].filled
  BY <1>1, <1>2 DEF ClientDataType
<1>5. Client!Acknowledged(a, mask) =>
          Client!Connected(a) /\ point'[a].mask = mask /\ data'[a].eventRegMask = mask
  BY <1>1 DEF Client!Acknowledged, ClientPointType, ClientDataType
<1> QED
  BY <1>3, <1>4, <1>5 DEF Client!Unacknowledged

LEMMA ClientRegisterInv == ASSUME ClientParameters, ClientIInv,
  Client!Register PROVE ClientIInv'
<1>1. /\ pc = "register" /\ clientHandle = attempt /\ attempt \in Client!Attempts
            /\ asked \in ClientMasks
      /\ \/ Client!Acknowledged(attempt, asked) /\ pc' = "fill"
         \/ Client!Unacknowledged(attempt, asked) /\ pc' = "undo"
      /\ UNCHANGED <<calm, tries, asked, attempt, clientHandle, qmi, signalled, ssr,
            cb, deaf, late>>
  BY ClientTypeDef DEF Client!Register, Client!Goto, ClientIInv, ClientHandleFits
<1>2. /\ point' \in [Client!Attempts -> ClientPointType]
            /\ data' \in [Client!Attempts -> ClientDataType]
      /\ \A b \in Client!Attempts :
            /\ b # attempt => point'[b] = point[b] /\ data'[b] = data[b]
            /\ point'[b].state = point[b].state /\ point'[b].life = point[b].life
            /\ point'[b].errcb = point[b].errcb /\ point'[b].loss = point[b].loss
            /\ data'[b].mem = data[b].mem /\ data'[b].filled = data[b].filled
      /\ Client!Acknowledged(attempt, asked) => Client!Connected(attempt)
            /\ point'[attempt].mask = asked
  BY <1>1, ClientRegistrationEffect
<1>3. Client!TypeOK'
  BY <1>1, <1>2, ClientTypeDef
    DEF ClientIInv, Client!TypeOK, ClientPointType, ClientDataType
<1>4. Client!WaitsForNothing' /\ ClientHandleFits'
  BY <1>1, <1>2
    DEF ClientIInv, Client!WaitsForNothing, ClientHandleFits, Client!NoHandle,
      Client!Attempts
<1>5. ClientMasksFit' /\ ClientLossTold'
  BY <1>1, <1>2
    DEF ClientMasksFit, Client!MasksAgree, ClientLossTold, Client!Connected
<1>6. ClientFresh'
  BY <1>1, <1>2 DEF ClientIInv, ClientFresh, Client!Attempts
<1>7. ClientCallFits'
  BY <1>1, <1>2 DEF ClientIInv, ClientCallFits
<1>8. ClientLeft'
  <2>1. calm /\ cb.step # "none" => cb.a \in Client!Attempts
    BY DEF ClientIInv, ClientCallFits
  <2> QED
    BY <1>1, <1>2, <2>1 DEF ClientIInv, ClientLeft
<1> QED
  BY <1>3, <1>4, <1>5, <1>6, <1>7, <1>8 DEF ClientIInv

LEMMA ClientFillCallbacksInv == ASSUME ClientParameters, ClientIInv,
  Client!FillCallbacks PROVE ClientIInv'
<1>1. /\ pc = "fill" /\ pc' = "idle" /\ clientHandle = attempt
            /\ attempt \in Client!Attempts
      /\ data' = [data EXCEPT ![attempt].filled = TRUE,
            ![attempt].eventRegMask = asked]
      /\ data \in [Client!Attempts -> ClientDataType] /\ asked \in SUBSET ClientEvents
      /\ UNCHANGED <<calm, tries, asked, attempt, clientHandle, point, qmi,
            signalled, ssr, cb, deaf,
                     late>>
  BY ClientTypeDef
    DEF Client!FillCallbacks, Client!Goto, ClientIInv, ClientHandleFits,
      ClientParameters
<1>2. /\ data' \in [Client!Attempts -> ClientDataType]
      /\ data'[attempt].mem = data[attempt].mem /\ data'[attempt].filled
            /\ data'[attempt].eventRegMask = asked
      /\ \A a \in Client!Attempts : a # attempt => data'[a] = data[a]
  BY <1>1 DEF ClientDataType
<1>3. Client!TypeOK'
  BY <1>1, <1>2, ClientTypeDef DEF ClientIInv, Client!TypeOK, ClientDataType
<1>4. Client!WaitsForNothing' /\ ClientHandleFits'
  BY <1>1, <1>2 DEF ClientIInv, Client!WaitsForNothing, ClientHandleFits
<1>5. ClientMasksFit' /\ ClientLossTold'
  BY <1>1, <1>2
    DEF ClientIInv, ClientMasksFit, Client!MasksAgree, ClientLossTold,
      Client!Connected
<1>6. ClientFresh'
  BY <1>1, <1>2 DEF ClientIInv, ClientFresh, Client!Attempts
<1>7. ClientCallFits'
  BY <1>1, <1>2 DEF ClientIInv, ClientCallFits
<1>8. ClientLeft'
  BY <1>1, <1>2 DEF ClientIInv, ClientLeft
<1> QED
  BY <1>3, <1>4, <1>5, <1>6, <1>7, <1>8 DEF ClientIInv

LEMMA ClientChangeMaskInv == ASSUME ClientParameters, ClientIInv,
  Client!ChangeMask PROVE ClientIInv'
<1>1. PICK mask \in ClientMasks :
          Client!Acknowledged(clientHandle, mask)
            \/ Client!Unacknowledged(clientHandle, mask)
  BY DEF Client!ChangeMask
<1>2. /\ pc = "idle" /\ clientHandle # Client!NoHandle
            /\ clientHandle \in Client!Attempts /\ clientHandle = attempt
      /\ UNCHANGED <<calm, pc, tries, asked, attempt, clientHandle, qmi, signalled,
            ssr, cb, deaf,
                     late>>
  BY ClientTypeDef DEF Client!ChangeMask, Client!caller, ClientIInv, ClientHandleFits
<1>3. /\ point' \in [Client!Attempts -> ClientPointType]
            /\ data' \in [Client!Attempts -> ClientDataType]
      /\ \A b \in Client!Attempts :
            /\ b # attempt => point'[b] = point[b] /\ data'[b] = data[b]
            /\ point'[b].state = point[b].state /\ point'[b].life = point[b].life
            /\ point'[b].errcb = point[b].errcb /\ point'[b].loss = point[b].loss
            /\ data'[b].mem = data[b].mem /\ data'[b].filled = data[b].filled
      /\ Client!Acknowledged(attempt, mask) => point'[attempt].mask = mask
            /\ data'[attempt].eventRegMask = mask
      /\ calm /\ Client!Unacknowledged(attempt, mask) => ~Client!Connected(attempt)
  BY <1>1, <1>2, ClientRegistrationEffect
<1>4. Client!TypeOK'
  BY <1>2, <1>3, ClientTypeDef
    DEF ClientIInv, Client!TypeOK, ClientPointType, ClientDataType
<1>5. Client!WaitsForNothing' /\ ClientHandleFits'
  BY <1>2, <1>3 DEF ClientIInv, Client!WaitsForNothing, ClientHandleFits
<1>6. ClientMasksFit' /\ ClientLossTold'
  BY <1>1, <1>2, <1>3
    DEF ClientIInv, ClientMasksFit, Client!MasksAgree, ClientLossTold,
      Client!Connected, ClientHandleFits
<1>7. ClientFresh'
  BY <1>2, <1>3 DEF ClientIInv, ClientFresh, Client!Attempts
<1>8. ClientCallFits'
  BY <1>2, <1>3 DEF ClientIInv, ClientCallFits
<1>9. ClientLeft'
  <2>1. calm /\ cb.step # "none" => cb.a \in Client!Attempts
    BY DEF ClientIInv, ClientCallFits
  <2> QED
    BY <1>2, <1>3, <2>1 DEF ClientIInv, ClientLeft
<1> QED
  BY <1>4, <1>5, <1>6, <1>7, <1>8, <1>9 DEF ClientIInv

(* Closing: whatever QCCI says, the handle is forgotten.                    *)
LEMMA ClientReleaseInv ==
    ASSUME ClientParameters, ClientIInv, clientHandle # Client!NoHandle,
             Client!Release(clientHandle),
           clientHandle' = Client!NoHandle, pc' \in {"retry", "idle", "reopen"},
           ssr' \in BOOLEAN, pc \in {"undo", "idle"},
           UNCHANGED <<calm, tries, asked, attempt, qmi, signalled, cb, deaf, late>>
    PROVE  ClientIInv'
<1> DEFINE R == [Client!NoPoint EXCEPT !.state = "released"]
<1>1. /\ clientHandle = attempt /\ attempt \in Client!Attempts
            /\ attempt # Client!NoHandle
      /\ point \in [Client!Attempts -> ClientPointType]
            /\ data \in [Client!Attempts -> ClientDataType]
  BY ClientTypeDef DEF ClientIInv, ClientHandleFits, Client!NoHandle, Client!Attempts
<1>2. /\ R \in ClientPointType /\ R.state = "released" /\ R.life = 0
      /\ Client!Freed \in ClientDataType /\ Client!Freed.mem = "freed"
  <2>1. Client!NoPoint \in ClientPointType /\ Client!NoData \in ClientDataType
    BY DEF Client!NoPoint, ClientPointType, Client!NoData, ClientDataType,
      ClientParameters
  <2> QED
    BY <2>1 DEF ClientPointType, ClientDataType, Client!NoPoint, Client!NoData,
      Client!Freed
<1>3. /\ \/ ~calm /\ UNCHANGED <<point, data>>
         \/ /\ calm => cb.a # attempt
            /\ point' = [point EXCEPT ![attempt] = R]
                  /\ data' = [data EXCEPT ![attempt] = Client!Freed]
  BY <1>1 DEF Client!Release
<1> HIDE DEF R
<1>4. /\ point' \in [Client!Attempts -> ClientPointType]
            /\ data' \in [Client!Attempts -> ClientDataType]
      /\ \A a \in Client!Attempts : a # attempt => point'[a] = point[a]
            /\ data'[a] = data[a]
      /\ \/ ~calm /\ UNCHANGED <<point, data>>
         \/ /\ calm => cb.a # attempt
            /\ point'[attempt].state = "released" /\ point'[attempt].life = 0
                  /\ data'[attempt].mem = "freed"
  BY <1>1, <1>2, <1>3
<1>5. Client!TypeOK'
  <2>1. pc' \in ClientPlaces
    BY DEF ClientPlaces
  <2>2. clientHandle' \in Client!Attempts \cup {Client!NoHandle}
    OBVIOUS
  <2> QED
    BY <1>4, <2>1, <2>2, ClientTypeDef
      DEF ClientIInv, Client!TypeOK, ClientPointType, ClientDataType, ClientPlaces
<1>6. Client!WaitsForNothing' /\ ClientHandleFits' /\ ClientMasksFit'
        /\ ClientLossTold'
  BY <1>1 DEF Client!WaitsForNothing, ClientHandleFits, ClientMasksFit,
    Client!MasksAgree, ClientLossTold
<1>7. ClientFresh'
  <2>1. qmi.life \in Nat
    BY ClientTypeDef DEF ClientIInv
  <2> QED
    BY <1>1, <1>4, <2>1 DEF ClientIInv, ClientFresh, Client!Attempts
<1>8. ClientCallFits'
  BY <1>1, <1>4 DEF ClientIInv, ClientCallFits
<1>9. ClientLeft'
  <2>1. cb.step # "none" => cb.a \in Client!Attempts
    BY DEF ClientIInv, ClientCallFits
  <2> QED
    BY <1>1, <1>4, <2>1 DEF ClientIInv, ClientLeft
<1> QED
  BY <1>5, <1>6, <1>7, <1>8, <1>9 DEF ClientIInv

LEMMA ClientUndoInv == ASSUME ClientParameters, ClientIInv, Client!Undo
  PROVE ClientIInv'
<1>1. /\ pc = "undo" /\ clientHandle = attempt /\ attempt # Client!NoHandle
            /\ ssr \in BOOLEAN
  BY ClientTypeDef DEF Client!Undo, ClientIInv, ClientHandleFits
<1> QED
  BY <1>1, ClientReleaseInv DEF Client!Undo, Client!Goto

LEMMA ClientProcSsrInv == ASSUME ClientParameters, ClientIInv, Client!ProcSsr
  PROVE ClientIInv'
<1>1. CASE clientHandle # Client!NoHandle
  BY <1>1, ClientReleaseInv DEF Client!ProcSsr, Client!CloseClient, Client!Goto
<1>2. CASE clientHandle = Client!NoHandle
  <2>1. /\ pc = "idle" /\ pc' = "reopen" /\ ssr' = FALSE
        /\ UNCHANGED <<calm, tries, asked, attempt, clientHandle, data, point, qmi,
              signalled, cb,
                       deaf, late>>
    BY <1>2 DEF Client!ProcSsr, Client!CloseClient, Client!Goto, Client!memory
  <2>2. Client!TypeOK'
    BY <2>1, ClientTypeDef
      DEF ClientIInv, Client!TypeOK, ClientDataType, ClientPointType, ClientCallType
  <2>3. Client!WaitsForNothing' /\ ClientHandleFits' /\ ClientFresh'
          /\ ClientMasksFit' /\ ClientLossTold'
    BY <1>2, <2>1
      DEF ClientIInv, Client!WaitsForNothing, ClientHandleFits, ClientFresh,
        ClientMasksFit, Client!MasksAgree, ClientLossTold
  <2>4. ClientCallFits' /\ ClientLeft'
    BY <2>1 DEF ClientIInv, ClientCallFits, ClientLeft
  <2> QED
    BY <2>2, <2>3, <2>4 DEF ClientIInv
<1> QED
  BY <1>1, <1>2

LEMMA ClientCloseInv == ASSUME ClientParameters, ClientIInv, Client!Close
  PROVE ClientIInv'
<1>1. ssr \in BOOLEAN
  BY ClientTypeDef DEF ClientIInv
<1> QED
  BY <1>1, ClientReleaseInv DEF Client!Close, Client!CloseClient, Client!caller

-----------------------------------------------------------------------------
(* The service, and QCCI's thread.                                          *)

LEMMA ClientServiceInv == ASSUME ClientParameters, ClientIInv, Client!ServiceDown
  \/ Client!ServiceUp PROVE ClientIInv'
<1>1. /\ UNCHANGED <<calm, pc, tries, asked, attempt, clientHandle, data, ssr, cb,
            deaf, late>>
      /\ qmi.life \in 1..MaxLives /\ qmi.up \in BOOLEAN
      /\ point \in [Client!Attempts -> ClientPointType]
  BY ClientTypeDef
    DEF Client!ServiceDown, Client!ServiceUp, Client!caller, Client!memory, ClientIInv
<1>2. /\ point' \in [Client!Attempts -> ClientPointType]
      /\ \A a \in Client!Attempts :
            /\ point'[a].state = point[a].state /\ point'[a].life = point[a].life
            /\ point'[a].errcb = point[a].errcb /\ point'[a].mask = point[a].mask
            /\ point[a].loss => point'[a].loss
            /\ point[a].errcb = FALSE => point'[a] = point[a]
            /\ Client!Connected(a)' => Client!Connected(a)
            /\ Client!Connected(a) /\ ~Client!Connected(a)' /\ point[a].errcb
                  => point'[a].loss
      /\ qmi' \in [up : BOOLEAN, life : 1..MaxLives] /\ qmi'.life >= qmi.life
      /\ signalled' \in BOOLEAN
      /\ pc = "wait" /\ qmi'.up => signalled' \/ (qmi.up /\ signalled' = signalled)
  <2>1. CASE Client!ServiceDown
    <3>1. /\ qmi.up /\ qmi' = [qmi EXCEPT !.up = FALSE] /\ signalled' = signalled
          /\ point' = [a \in Client!Attempts |-> IF point[a].errcb
                /\ Client!Connected(a)
                                          THEN [point[a] EXCEPT !.loss = TRUE] ELSE point[a]]
      BY <2>1 DEF Client!ServiceDown
    <3>2. /\ qmi' \in [up : BOOLEAN, life : 1..MaxLives] /\ ~qmi'.up
          /\ qmi'.life = qmi.life /\ signalled' \in BOOLEAN
      BY <1>1, <3>1, ClientTypeDef DEF ClientIInv
    <3>3. /\ point' \in [Client!Attempts -> ClientPointType]
          /\ \A a \in Client!Attempts :
                /\ point'[a].state = point[a].state /\ point'[a].life = point[a].life
                /\ point'[a].errcb = point[a].errcb /\ point'[a].mask = point[a].mask
                /\ point[a].loss => point'[a].loss
                /\ point[a].errcb = FALSE => point'[a] = point[a]
                /\ Client!Connected(a) /\ point[a].errcb => point'[a].loss
      BY <1>1, <3>1 DEF ClientPointType
    <3>4. \A a \in Client!Attempts : ~Client!Connected(a)'
      BY <3>2 DEF Client!Connected
    <3> QED
      BY <1>1, <3>2, <3>3, <3>4
  <2>2. CASE Client!ServiceUp
    <3>1. /\ ~qmi.up /\ qmi.life < MaxLives /\ UNCHANGED point
          /\ qmi' = [up |-> TRUE, life |-> qmi.life + 1]
          /\ signalled' = (signalled \/ pc \in {"lookup", "wait"})
      BY <2>2 DEF Client!ServiceUp, Client!memory
    <3>2. \A a \in Client!Attempts : point[a].life <= qmi.life
            /\ point[a].life \in Nat
      BY <1>1 DEF ClientIInv, ClientFresh, ClientPointType
    <3>3. \A a \in Client!Attempts : ~Client!Connected(a) /\ ~Client!Connected(a)'
      BY <1>1, <3>1, <3>2 DEF Client!Connected
    <3>4. qmi' \in [up : BOOLEAN, life : 1..MaxLives] /\ qmi'.life >= qmi.life
      BY <1>1, <3>1 DEF ClientParameters
    <3>5. signalled' \in BOOLEAN
      BY <3>1, ClientTypeDef DEF ClientIInv
    <3> QED
      BY <1>1, <3>1, <3>3, <3>4, <3>5
  <2> QED
    BY <2>1, <2>2
<1>3. Client!TypeOK'
  BY <1>1, <1>2, ClientTypeDef DEF ClientIInv, Client!TypeOK, ClientPointType
<1>4. Client!WaitsForNothing' /\ ClientHandleFits'
  BY <1>1, <1>2
    DEF ClientIInv, Client!WaitsForNothing, ClientHandleFits, Client!TypeOK
<1>5. clientHandle # Client!NoHandle => clientHandle \in Client!Attempts
  BY ClientTypeDef DEF ClientIInv
<1>6. ClientMasksFit'
  <2>1. calm /\ pc = "fill" => attempt \in Client!Attempts
    BY ClientTypeDef DEF ClientIInv, ClientHandleFits
  <2> QED
    BY <1>1, <1>2, <1>5, <2>1 DEF ClientIInv, ClientMasksFit, Client!MasksAgree
<1>7. ClientLossTold'
  <2>1. clientHandle # Client!NoHandle => point[clientHandle].errcb
    BY DEF ClientIInv, ClientHandleFits
  <2> QED
    BY <1>1, <1>2, <1>5, <2>1 DEF ClientIInv, ClientLossTold
<1>8. ClientFresh'
  <2>1. Client!NoPoint.errcb = FALSE
    BY DEF Client!NoPoint
  <2>2. \A a \in Client!Attempts : point'[a].life <= qmi'.life
    BY <1>1, <1>2 DEF ClientIInv, ClientFresh, ClientPointType
  <2>3. attempt # Client!NoHandle => attempt \in Client!Attempts
    BY ClientTypeDef DEF ClientIInv
  <2>4. pc \in {"notifier", "lookup", "wait", "init", "error_cb"}
          => attempt \in Client!Attempts
    BY <2>3 DEF ClientIInv, ClientHandleFits
  <2> QED
    BY <1>1, <1>2, <2>1, <2>2, <2>4 DEF ClientIInv, ClientFresh
<1>9. ClientCallFits' /\ ClientLeft'
  BY <1>1, <1>2 DEF ClientIInv, ClientCallFits, ClientLeft
<1> QED
  BY <1>3, <1>4, <1>6, <1>7, <1>8, <1>9 DEF ClientIInv

LEMMA ClientIndCbInv ==
    ASSUME ClientParameters, ClientIInv, NEW a \in Client!Attempts,
             NEW ind \in Client!Listed, Client!IndCb(a, ind)
    PROVE  ClientIInv'
<1>1. /\ cb = Client!NoCall /\ point[a].state = "live" /\ ind \in Client!Handled
            /\ ind # "error"
      /\ cb' = [step |-> "copy", a |-> a, what |-> ind]
      /\ UNCHANGED <<calm, pc, tries, asked, attempt, clientHandle, data, point,
            qmi, signalled, ssr,
                     deaf, late>>
  BY DEF Client!IndCb, Client!Accepts, Client!Connected, ClientParameters,
    Client!caller, Client!memory
<1>2. /\ cb.what = "none" /\ cb' \in ClientCallType
      /\ cb'.step = "copy" /\ cb'.a = a /\ cb'.what = ind
  BY <1>1 DEF Client!NoCall, ClientCallType
<1>3. Client!TypeOK'
  BY <1>1, <1>2, ClientTypeDef DEF ClientIInv, Client!TypeOK, ClientCallType
<1>4. Client!WaitsForNothing' /\ ClientHandleFits' /\ ClientFresh' /\ ClientMasksFit'
  BY <1>1 DEF ClientIInv, Client!WaitsForNothing, ClientHandleFits, ClientFresh,
    ClientMasksFit, Client!MasksAgree, Client!Connected
<1>5. ClientLossTold'
  BY <1>1, <1>2 DEF ClientIInv, ClientLossTold, Client!Connected
<1>6. ClientCallFits' /\ ClientLeft'
  BY <1>1, <1>2 DEF ClientIInv, ClientCallFits, ClientLeft
<1> QED
  BY <1>3, <1>4, <1>5, <1>6 DEF ClientIInv

(* A loss is told to whoever has callbacks, and noted of whoever has none.  *)
LEMMA ClientErrorCbInv == ASSUME ClientParameters, ClientIInv,
  NEW a \in Client!Attempts, Client!ErrorCb(a) PROVE ClientIInv'
<1>1. /\ cb = Client!NoCall /\ point[a].state = "live"
      /\ point' = [point EXCEPT ![a].loss = FALSE]
      /\ \/ /\ data[a].filled /\ deaf' = deaf
            /\ cb' = [step |-> "copy", a |-> a, what |-> "error"]
         \/ deaf' = deaf \cup {a} /\ cb' = cb
      /\ UNCHANGED <<calm, pc, tries, asked, attempt, clientHandle, data, qmi,
            signalled, ssr, late>>
      /\ point \in [Client!Attempts -> ClientPointType]
  BY ClientTypeDef DEF Client!ErrorCb, Client!caller, ClientIInv
<1>2. /\ point' \in [Client!Attempts -> ClientPointType]
      /\ \A b \in Client!Attempts :
            /\ b # a => point'[b] = point[b]
            /\ point'[b].state = point[b].state /\ point'[b].life = point[b].life
            /\ point'[b].errcb = point[b].errcb /\ point'[b].mask = point[b].mask
  BY <1>1 DEF ClientPointType
<1>3. /\ cb.what = "none" /\ cb.step = "none" /\ deaf' \subseteq Client!Attempts
            /\ cb' \in ClientCallType
      /\ \/ /\ data[a].filled /\ deaf' = deaf
            /\ cb'.step = "copy" /\ cb'.a = a /\ cb'.what = "error"
         \/ deaf' = deaf \cup {a} /\ cb' = cb
  BY <1>1, ClientTypeDef DEF Client!NoCall, ClientCallType, ClientIInv
<1>4. Client!TypeOK'
  BY <1>1, <1>2, <1>3, ClientTypeDef
    DEF ClientIInv, Client!TypeOK, ClientCallType, ClientPointType
<1>5. Client!WaitsForNothing' /\ ClientHandleFits'
  <2>1. clientHandle # Client!NoHandle => clientHandle \in Client!Attempts
    BY ClientTypeDef DEF ClientIInv
  <2> QED
    BY <1>1, <1>2, <2>1 DEF ClientIInv, Client!WaitsForNothing, ClientHandleFits
<1>6. ClientMasksFit' /\ ClientLossTold'
  <2>1. clientHandle # Client!NoHandle => clientHandle \in Client!Attempts
    BY ClientTypeDef DEF ClientIInv
  <2>2. pc = "fill" => attempt \in Client!Attempts
    BY ClientTypeDef DEF ClientIInv, ClientHandleFits
  <2> QED
    BY <1>1, <1>2, <1>3, <2>1, <2>2
      DEF ClientIInv, ClientMasksFit, Client!MasksAgree, ClientLossTold,
        Client!Connected
<1>7. ClientFresh'
  <2>1. Client!NoPoint.state = "none"
    BY DEF Client!NoPoint
  <2>2. pc \in {"notifier", "lookup", "wait", "init", "error_cb"}
          => attempt \in Client!Attempts
    BY ClientTypeDef DEF ClientIInv, ClientHandleFits
  <2> QED
    BY <1>1, <1>2, <2>1, <2>2 DEF ClientIInv, ClientFresh
<1>8. ClientCallFits'
  BY <1>1, <1>3 DEF ClientIInv, ClientCallFits
<1>9. ClientLeft'
  BY <1>1, <1>2, <1>3 DEF ClientIInv, ClientLeft
<1> QED
  BY <1>4, <1>5, <1>6, <1>7, <1>8, <1>9 DEF ClientIInv

LEMMA ClientCopyCallbackInv == ASSUME ClientParameters, ClientIInv,
  Client!CopyCallback PROVE ClientIInv'
<1>1. /\ cb.step = "copy" /\ cb.a \in Client!Attempts /\ cb \in ClientCallType
      /\ \/ cb' = [cb EXCEPT !.step = "call"]
         \/ ~data[cb.a].filled /\ cb' = Client!NoCall
      /\ UNCHANGED <<calm, pc, tries, asked, attempt, clientHandle, data, point,
            qmi, signalled, ssr,
                     deaf, late>>
  BY ClientTypeDef
    DEF Client!CopyCallback, Client!caller, Client!memory, ClientIInv, ClientCallFits
<1>2. /\ cb' \in ClientCallType
      /\ \/ cb'.step = "call" /\ cb'.a = cb.a /\ cb'.what = cb.what
         \/ /\ ~data[cb.a].filled
            /\ cb'.step = "none" /\ cb'.what = "none"
  BY <1>1 DEF Client!NoCall, ClientCallType
<1>3. Client!TypeOK'
  BY <1>1, <1>2, ClientTypeDef DEF ClientIInv, Client!TypeOK, ClientCallType
<1>4. Client!WaitsForNothing' /\ ClientHandleFits' /\ ClientFresh' /\ ClientMasksFit'
  BY <1>1 DEF ClientIInv, Client!WaitsForNothing, ClientHandleFits, ClientFresh,
    ClientMasksFit, Client!MasksAgree, Client!Connected
<1>5. ClientLossTold'
  <2>1. clientHandle # Client!NoHandle => data[clientHandle].mem = "allocated"
    BY DEF ClientIInv, ClientHandleFits
  <2> QED
    BY <1>1, <1>2, <2>1
      DEF ClientIInv, ClientLossTold, ClientCallFits, Client!Connected
<1>6. ClientCallFits' /\ ClientLeft'
  BY <1>1, <1>2 DEF ClientIInv, ClientCallFits, ClientLeft
<1> QED
  BY <1>3, <1>4, <1>5, <1>6 DEF ClientIInv

LEMMA ClientCallBackInv == ASSUME ClientParameters, ClientIInv,
  Client!CallBack PROVE ClientIInv'
<1>1. /\ cb.step = "call" /\ cb.a \in Client!Attempts /\ cb' = Client!NoCall
      /\ late' = (late \/ data[cb.a].mem = "freed") /\ ssr' = (ssr
            \/ cb.what = "error")
      /\ UNCHANGED <<calm, pc, tries, asked, attempt, clientHandle, data, point,
            qmi, signalled,
                     deaf>>
  BY DEF Client!CallBack, Client!caller, Client!memory, ClientIInv, ClientCallFits
<1>2. cb' \in ClientCallType /\ cb'.step = "none" /\ cb'.what = "none"
  BY <1>1 DEF Client!NoCall, ClientCallType
<1>3. late' \in BOOLEAN /\ ssr' \in BOOLEAN
  BY <1>1, ClientTypeDef DEF ClientIInv
<1>4. Client!TypeOK'
  BY <1>1, <1>2, <1>3, ClientTypeDef DEF ClientIInv, Client!TypeOK, ClientCallType
<1>5. Client!WaitsForNothing' /\ ClientHandleFits' /\ ClientFresh' /\ ClientMasksFit'
  BY <1>1 DEF ClientIInv, Client!WaitsForNothing, ClientHandleFits, ClientFresh,
    ClientMasksFit, Client!MasksAgree, Client!Connected
<1>6. ClientLossTold'
  BY <1>1 DEF ClientIInv, ClientLossTold, Client!Connected
<1>7. ClientCallFits' /\ ClientLeft'
  BY <1>1, <1>2, <1>3 DEF ClientIInv, ClientCallFits, ClientLeft
<1> QED
  BY <1>4, <1>5, <1>6, <1>7 DEF ClientIInv

-----------------------------------------------------------------------------
LEMMA ClientStutterInv == ASSUME ClientParameters, ClientIInv,
  UNCHANGED Client!vars PROVE ClientIInv'
<1>1. UNCHANGED <<calm, pc, tries, asked, attempt, clientHandle, data, point, qmi,
        signalled, ssr,
                  cb, deaf, late>>
  BY DEF Client!vars, Client!caller, Client!memory
<1>2. Client!TypeOK' /\ Client!WaitsForNothing' /\ ClientHandleFits' /\ ClientFresh'
  BY <1>1 DEF ClientIInv, Client!TypeOK, Client!WaitsForNothing, ClientHandleFits,
    ClientFresh
<1>3. ClientMasksFit' /\ ClientLossTold' /\ ClientCallFits' /\ ClientLeft'
  BY <1>1 DEF ClientIInv, ClientMasksFit, Client!MasksAgree, ClientLossTold,
    ClientCallFits, ClientLeft, Client!Connected
<1> QED
  BY <1>2, <1>3 DEF ClientIInv

LEMMA ClientNext == ClientParameters /\ ClientIInv /\ [Client!Next]_(Client!vars)
  => ClientIInv'
<1> SUFFICES ASSUME ClientParameters, ClientIInv, [Client!Next]_(Client!vars)
                      PROVE ClientIInv'
  OBVIOUS
<1>1. CASE Client!Open \/ Client!Reopen
  BY <1>1, ClientOpenInv
<1>2. CASE Client!Notifier
  BY <1>2, ClientNotifierInv
<1>3. CASE Client!Lookup \/ Client!Wake
  BY <1>3, ClientLookupInv
<1>4. CASE Client!ClientInit
  BY <1>4, ClientCtrlPoint
<1>5. CASE Client!RegisterErrorCb
  BY <1>5, ClientRegisterErrorCbInv
<1>6. CASE Client!Register
  BY <1>6, ClientRegisterInv
<1>7. CASE Client!FillCallbacks
  BY <1>7, ClientFillCallbacksInv
<1>8. CASE Client!Undo
  BY <1>8, ClientUndoInv
<1>9. CASE Client!Retry
  BY <1>9, ClientRetryInv
<1>10. CASE Client!ChangeMask
  BY <1>10, ClientChangeMaskInv
<1>11. CASE Client!ProcSsr
  BY <1>11, ClientProcSsrInv
<1>12. CASE Client!Close
  BY <1>12, ClientCloseInv
<1>13. CASE Client!ServiceDown \/ Client!ServiceUp
  BY <1>13, ClientServiceInv
<1>14. ASSUME NEW a \in Client!Attempts, Client!ErrorCb(a) PROVE ClientIInv'
  BY <1>14, ClientErrorCbInv
<1>15. ASSUME NEW a \in Client!Attempts, NEW ind \in Client!Listed, Client!IndCb(a,
                ind) PROVE ClientIInv'
  BY <1>15, ClientIndCbInv
<1>16. CASE Client!CopyCallback
  BY <1>16, ClientCopyCallbackInv
<1>17. CASE Client!CallBack
  BY <1>17, ClientCallBackInv
<1>18. CASE UNCHANGED Client!vars
  BY <1>18, ClientStutterInv
<1> QED
  BY <1>1, <1>2, <1>3, <1>4, <1>5, <1>6, <1>7, <1>8, <1>9, <1>10, <1>11, <1>12,
    <1>13, <1>14,
     <1>15, <1>16, <1>17, <1>18 DEF Client!Next

-----------------------------------------------------------------------------
(* LocEngInit, for any servers, with the random walk parameter or without,  *)
(* and any number of calls and of restarts of the modem.                    *)

LEMMA EngBounds == MaxCalls \in Nat /\ MaxRestarts \in Nat
BY BringUpAssumption

EngQueued ==
    [kind : {"Open", "Ssr", "Init", "Up"}, arg : {NULL}]
        \cup [kind : {"Set"}, arg : EngInit!Named]
        \cup [kind : {"Enable"}, arg : BOOLEAN]
        \cup [kind : {"Server"}, arg : Servers]

EngKept == {a \in EngInit!Named : EngInit!Overridden(a)}

(* Will a client that is now in state c be open when message k of q is      *)
(* processed?                                                               *)
EngBefore(q, k, kind) == \E j \in 1..Len(q) : j < k /\ q[j].kind = kind

EngOpenBy(q, k, c) ==
    \/ c = "open"
    \/ EngBefore(q, k, "Ssr")
    \/ c = "closed" /\ EngBefore(q, k, "Open")

(* The message at k is a setting, or one that has the settings posted.      *)
EngBrings(q, k, a) ==
    \/ q[k] = [kind |-> "Set", arg |-> a]
    \/ q[k].kind \in {"Init", "Up"}

EngSettingComing(q, c, a) == \E k \in 1..Len(q) : EngOpenBy(q, k, c) /\ EngBrings(q,
  k, a)

(* While the modem is up, the client is open or a message will open it, and *)
(* what the modem lacks of the settings comes after that.                   *)
EngClientComing ==
    /\ ~adapter => client = "closed" /\ initq = <<>> /\ sending = EngInit!NotSending
    /\ adapter /\ service.up => EngOpenBy(initq, Len(initq) + 1, client)

EngSettingsComing ==
    /\ service.settings \subseteq EngKept
    /\ adapter /\ service.up =>
          \A a \in EngKept : a \in service.settings \/ EngSettingComing(initq,
            client, a)

(* Unless an update bypassed it, the last value LocApiBase was told, or     *)
(* will be told, is the one the framework said last.                        *)
EngNoEnable(q, from) == \A j \in 1..Len(q) : j > from => q[j].kind # "Enable"

EngLastEnable(q, v) ==
    \E k \in 1..Len(q) : q[k] = EngInit!Enable(v) /\ EngNoEnable(q, k)

EngReads(q) == \E k \in 1..Len(q) : q[k].kind \in {"Init", "Up"}

EngEnableComing ==
    adapter /\ ~untold =>
       \/ EngReads(initq)
       \/ sending.by # "none" /\ sending.value = agpsStatus
       \/ sending.by = "none" /\ enabled = agpsStatus /\ EngNoEnable(initq, 0)
       \/ sending.by = "none" /\ EngLastEnable(initq, agpsStatus)

EngSendingFits == sending.by # "none" => sending.value \in BOOLEAN

EngIInv ==
    /\ EngInit!TypeOK /\ initq \in Seq(EngQueued) /\ EngSendingFits
    /\ EngClientComing /\ EngSettingsComing /\ EngEnableComing

-----------------------------------------------------------------------------
(* Queues that grow or lose their head.                                     *)
LEMMA EngGrown ==
    ASSUME NEW q \in Seq(EngQueued), NEW r \in Seq(EngQueued)
    PROVE  /\ q \o r \in Seq(EngQueued) /\ Len(q) \in Nat /\ Len(r) \in Nat
           /\ Len(q \o r) = Len(q) + Len(r)
           /\ \A i \in 1..Len(q) : i \in 1..Len(q \o r) /\ (q \o r)[i] = q[i]
           /\ \A i \in 1..Len(r) :
                 Len(q) + i \in 1..Len(q \o r) /\ (q \o r)[Len(q) + i] = r[i]
           /\ \A i \in 1..Len(q \o r) :
                 i \in 1..Len(q) \/ \E j \in 1..Len(r) : i = Len(q) + j
<1>1. /\ q \o r \in Seq(EngQueued) /\ Len(q) \in Nat /\ Len(r) \in Nat
      /\ Len(q \o r) = Len(q) + Len(r)
      /\ \A i \in 1..Len(q) + Len(r) :
            (q \o r)[i] = IF i <= Len(q) THEN q[i] ELSE r[i - Len(q)]
  BY ConcatProperties, LenProperties
<1>2. ASSUME NEW i \in 1..Len(r)
      PROVE  Len(q) + i \in 1..Len(q \o r) /\ (q \o r)[Len(q) + i] = r[i]
  <2>1. Len(q) + i \in 1..Len(q) + Len(r) /\ ~(Len(q) + i <= Len(q))
        /\ (Len(q) + i) - Len(q) = i
    BY <1>1
  <2> QED
    BY <1>1, <2>1
<1>3. ASSUME NEW i \in 1..Len(q \o r), i \notin 1..Len(q)
      PROVE  i - Len(q) \in 1..Len(r) /\ i = Len(q) + (i - Len(q))
  BY <1>1, <1>3
<1>4. \A i \in 1..Len(q) : i \in 1..Len(q \o r) /\ (q \o r)[i] = q[i]
  BY <1>1
<1>5. \A i \in 1..Len(q \o r) :
         i \in 1..Len(q) \/ \E j \in 1..Len(r) : i = Len(q) + j
  BY <1>3, Zenon
<1>6. Len(q) \in Nat /\ Len(r) \in Nat
  BY LenProperties
<1> QED
  BY <1>1, <1>2, <1>4, <1>5, <1>6, Zenon

LEMMA EngComingGrows ==
    ASSUME NEW q \in Seq(EngQueued), NEW r \in Seq(EngQueued), NEW c
    PROVE  /\ \A k : EngOpenBy(q, k, c) => EngOpenBy(q \o r, k, c)
           /\ EngOpenBy(q, Len(q) + 1, c) =>
                 \A k \in Nat : k > Len(q) => EngOpenBy(q \o r, k, c)
           /\ \A a : EngSettingComing(q, c, a) => EngSettingComing(q \o r, c, a)
           /\ EngReads(q) => EngReads(q \o r)
<1>1. \A k, t : EngBefore(q, k, t) => EngBefore(q \o r, k, t)
  BY EngGrown, Zenon DEF EngBefore
<1>2. \A k : EngOpenBy(q, k, c) => EngOpenBy(q \o r, k, c)
  BY <1>1 DEF EngOpenBy
<1>3. ASSUME NEW k \in Nat, k > Len(q), NEW t, EngBefore(q, Len(q) + 1, t)
      PROVE  EngBefore(q, k, t)
  BY <1>3, LenProperties DEF EngBefore
<1>4. \A a : EngSettingComing(q, c, a) => EngSettingComing(q \o r, c, a)
  <2>1. \A k \in 1..Len(q) : \A a : EngBrings(q, k, a) => EngBrings(q \o r, k, a)
    BY EngGrown DEF EngBrings
  <2>2. \A k \in 1..Len(q) : k \in 1..Len(q \o r)
    BY EngGrown
  <2> QED
    BY <1>2, <2>1, <2>2 DEF EngSettingComing
<1>5. EngReads(q) => EngReads(q \o r)
  BY EngGrown DEF EngReads
<1>6. EngOpenBy(q, Len(q) + 1, c) => \A k \in Nat : k > Len(q) => EngOpenBy(q, k, c)
  BY <1>3 DEF EngOpenBy
<1> QED
  BY <1>2, <1>4, <1>5, <1>6

LEMMA EngShortened ==
    ASSUME NEW q \in Seq(EngQueued), q # <<>>
    PROVE  /\ Tail(q) \in Seq(EngQueued) /\ Head(q) \in EngQueued /\ Head(q) = q[1]
           /\ Len(q) \in Nat /\ Len(Tail(q)) = Len(q) - 1 /\ 1 \in 1..Len(q)
           /\ \A i \in 1..Len(Tail(q)) : i + 1 \in 1..Len(q) /\ Tail(q)[i] = q[i + 1]
           /\ \A i \in 1..Len(q) :
                 i = 1 \/ (i - 1 \in 1..Len(Tail(q)) /\ Tail(q)[i - 1] = q[i])
<1>1. /\ Tail(q) \in Seq(EngQueued) /\ Head(q) \in EngQueued /\ Len(q) \in Nat \ {0}
      /\ Len(Tail(q)) = Len(q) - 1
      /\ \A i \in 1..Len(Tail(q)) : Tail(q)[i] = q[i + 1]
      /\ Head(q) = q[1]
  BY HeadTailProperties, EmptySeq
<1>2. ASSUME NEW i \in 1..Len(q), i # 1
      PROVE  i - 1 \in 1..Len(Tail(q)) /\ Tail(q)[i - 1] = q[i]
  <2>1. i - 1 \in 1..Len(Tail(q)) /\ (i - 1) + 1 = i
    BY <1>1, <1>2
  <2> QED
    BY <1>1, <2>1
<1> QED
  BY <1>1, <1>2

(* What a head that is processed leaves to come, if the client is then d.   *)
LEMMA EngComingTaken ==
    ASSUME NEW q \in Seq(EngQueued), q # <<>>, NEW c, NEW d,
           c = "open" => d = "open",
           Head(q).kind = "Ssr" => d = "open",
           c = "closed" => d = IF Head(q).kind \in {"Open",
             "Ssr"} THEN "open" ELSE "closed"
    PROVE  /\ \A k \in 1..Len(q) + 1 : k # 1 /\ EngOpenBy(q, k, c)
                 => EngOpenBy(Tail(q), k - 1, d)
           /\ EngOpenBy(q, Len(q) + 1, c) => EngOpenBy(Tail(q), Len(Tail(q)) + 1, d)
           /\ \A a : EngSettingComing(q, c, a) =>
                 \/ EngSettingComing(Tail(q), d, a)
                 \/ c = "open" /\ EngBrings(q, 1, a)
<1>1. ASSUME NEW k \in 1..Len(q) + 1, NEW t, EngBefore(q, k, t)
      PROVE  Head(q).kind = t \/ EngBefore(Tail(q), k - 1, t)
  <2>1. PICK j \in 1..Len(q) : j < k /\ q[j].kind = t
    BY <1>1 DEF EngBefore
  <2>2. CASE j = 1
    BY <2>1, <2>2, EngShortened
  <2>3. CASE j # 1
    <3>1. j - 1 \in 1..Len(Tail(q)) /\ Tail(q)[j - 1] = q[j] /\ j - 1 < k - 1
      BY <2>1, <2>3, EngShortened
    <3> QED
      BY <2>1, <3>1 DEF EngBefore
  <2> QED
    BY <2>2, <2>3
<1>2. ASSUME NEW k \in 1..Len(q) + 1, EngOpenBy(q, k, c)
      PROVE  EngOpenBy(Tail(q), k - 1, d)
  BY <1>1, <1>2 DEF EngOpenBy
<1>3. Len(q) \in Nat /\ Len(q) >= 1 /\ (Len(q) + 1) - 1 = Len(Tail(q)) + 1
  BY EngShortened
<1>4. ASSUME NEW a, EngSettingComing(q, c, a)
      PROVE  EngSettingComing(Tail(q), d, a) \/ (c = "open" /\ EngBrings(q, 1, a))
  <2>1. PICK k \in 1..Len(q) : EngOpenBy(q, k, c) /\ EngBrings(q, k, a)
    BY <1>4 DEF EngSettingComing
  <2>2. CASE k = 1
    <3>1. \A t : ~EngBefore(q, 1, t)
      BY DEF EngBefore
    <3> QED
      BY <2>1, <2>2, <3>1 DEF EngOpenBy
  <2>3. CASE k # 1
    <3>1. k - 1 \in 1..Len(Tail(q)) /\ Tail(q)[k - 1] = q[k] /\ k \in 1..Len(q) + 1
      BY <2>3, EngShortened
    <3>2. EngOpenBy(Tail(q), k - 1, d) /\ EngBrings(Tail(q), k - 1, a)
      BY <1>2, <2>1, <3>1 DEF EngBrings
    <3> QED
      BY <3>1, <3>2 DEF EngSettingComing
  <2> QED
    BY <2>2, <2>3
<1> QED
  BY <1>2, <1>3, <1>4

(* The values that are told last.                                           *)
LEMMA EngEnableGrows ==
    ASSUME NEW q \in Seq(EngQueued), NEW r \in Seq(EngQueued), NEW v
    PROVE  /\ EngNoEnable(r, 0) /\ EngNoEnable(q, 0) => EngNoEnable(q \o r, 0)
           /\ EngNoEnable(r, 0) /\ EngLastEnable(q, v) => EngLastEnable(q \o r, v)
           /\ EngLastEnable(r, v) => EngLastEnable(q \o r, v)
<1>1. ASSUME EngNoEnable(r, 0), NEW from \in Nat, EngNoEnable(q, from)
      PROVE  EngNoEnable(q \o r, from)
  <2> SUFFICES ASSUME NEW j \in 1..Len(q \o r), j > from
               PROVE  (q \o r)[j].kind # "Enable"
    BY DEF EngNoEnable
  <2>1. CASE j \in 1..Len(q)
    BY <1>1, <2>1, EngGrown DEF EngNoEnable
  <2>2. ASSUME NEW i \in 1..Len(r), j = Len(q) + i
        PROVE  (q \o r)[j].kind # "Enable"
    <3>1. (q \o r)[j] = r[i] /\ i > 0
      BY <2>2, EngGrown
    <3> QED
      BY <1>1, <3>1 DEF EngNoEnable
  <2> QED
    BY <2>1, <2>2, EngGrown
<1>2. ASSUME EngNoEnable(r, 0), EngLastEnable(q, v) PROVE EngLastEnable(q \o r, v)
  <2>1. PICK k \in 1..Len(q) : q[k] = EngInit!Enable(v) /\ EngNoEnable(q, k)
    BY <1>2 DEF EngLastEnable
  <2>2. k \in Nat /\ k \in 1..Len(q \o r) /\ (q \o r)[k] = EngInit!Enable(v)
    BY <2>1, EngGrown
  <2> QED
    BY <1>1, <1>2, <2>1, <2>2 DEF EngLastEnable
<1>3. ASSUME EngLastEnable(r, v) PROVE EngLastEnable(q \o r, v)
  <2>1. PICK k \in 1..Len(r) : r[k] = EngInit!Enable(v) /\ EngNoEnable(r, k)
    BY <1>3 DEF EngLastEnable
  <2>2. Len(q) + k \in 1..Len(q \o r) /\ (q \o r)[Len(q) + k] = EngInit!Enable(v)
    BY <2>1, EngGrown
  <2>3. EngNoEnable(q \o r, Len(q) + k)
    <3> SUFFICES ASSUME NEW j \in 1..Len(q \o r), j > Len(q) + k
                 PROVE  (q \o r)[j].kind # "Enable"
      BY DEF EngNoEnable
    <3>1. Len(q) \in Nat /\ j \notin 1..Len(q)
      BY EngGrown
    <3>2. PICK i \in 1..Len(r) : j = Len(q) + i
      BY <3>1, EngGrown
    <3>3. (q \o r)[j] = r[i] /\ i > k
      BY <3>1, <3>2, EngGrown
    <3> QED
      BY <2>1, <3>3 DEF EngNoEnable
  <2> QED
    BY <2>2, <2>3 DEF EngLastEnable
<1> QED
  BY <1>1, <1>2, <1>3

LEMMA EngEnableTaken ==
    ASSUME NEW q \in Seq(EngQueued), q # <<>>, NEW v
    PROVE  /\ EngNoEnable(q, 0) => EngNoEnable(Tail(q), 0)
           /\ EngLastEnable(q, v) =>
                 \/ EngLastEnable(Tail(q), v)
                 \/ Head(q) = EngInit!Enable(v) /\ EngNoEnable(Tail(q), 0)
           /\ Head(q).kind \notin {"Init", "Up"} /\ EngReads(q) => EngReads(Tail(q))
<1>1. ASSUME NEW from \in Nat, EngNoEnable(q, from), NEW m \in Nat, m + 1 >= from
      PROVE  EngNoEnable(Tail(q), m)
  <2> SUFFICES ASSUME NEW j \in 1..Len(Tail(q)), j > m
               PROVE  Tail(q)[j].kind # "Enable"
    BY DEF EngNoEnable
  <2>1. j + 1 \in 1..Len(q) /\ j + 1 > from /\ Tail(q)[j] = q[j + 1]
    BY <1>1, EngShortened
  <2> QED
    BY <1>1, <2>1 DEF EngNoEnable
<1>2. ASSUME EngLastEnable(q, v)
      PROVE  \/ EngLastEnable(Tail(q), v)
             \/ Head(q) = EngInit!Enable(v) /\ EngNoEnable(Tail(q), 0)
  <2>1. PICK k \in 1..Len(q) : q[k] = EngInit!Enable(v) /\ EngNoEnable(q, k)
    BY <1>2 DEF EngLastEnable
  <2>2. CASE k = 1
    BY <1>1, <2>1, <2>2, EngShortened
  <2>3. CASE k # 1
    <3>1. k - 1 \in 1..Len(Tail(q)) /\ Tail(q)[k - 1] = EngInit!Enable(v)
            /\ k - 1 \in Nat /\ k \in Nat
      BY <2>1, <2>3, EngShortened
    <3>2. EngNoEnable(Tail(q), k - 1)
      BY <1>1, <2>1, <3>1
    <3> QED
      BY <3>1, <3>2 DEF EngLastEnable
  <2> QED
    BY <2>2, <2>3
<1>3. ASSUME Head(q).kind \notin {"Init", "Up"}, EngReads(q) PROVE EngReads(Tail(q))
  <2>1. PICK k \in 1..Len(q) : q[k].kind \in {"Init", "Up"}
    BY <1>3 DEF EngReads
  <2>2. k # 1
    BY <1>3, <2>1, EngShortened
  <2> QED
    BY <2>1, <2>2, EngShortened DEF EngReads
<1> QED
  BY <1>1, <1>2, <1>3

(* What loc_eng_reinit posts: every setting.                                *)
LEMMA EngConfigIs ==
    /\ EngInit!Config \in Seq(EngQueued) /\ EngNoEnable(EngInit!Config, 0)
    /\ \A a \in EngInit!Named : \E k \in 1..Len(EngInit!Config) : EngInit!Config[k] = [kind |-> "Set", arg |-> a]
<1> DEFINE S == {"SuplVer", "LppConfig", "SensorControl", "AGlonass",
                 "SensorProperties", "SensorPerf"}
<1>1. EngInit!Settings \in Seq(S)
  <2>1. /\ <<"SuplVer", "LppConfig", "SensorControl", "AGlonass">> \in Seq(S)
        /\ <<>> \in Seq(S) /\ <<"SensorProperties">> \in Seq(S)
        /\ <<"SensorPerf">> \in Seq(S)
    OBVIOUS
  <2>2. (IF SensorPropertiesValid THEN <<"SensorProperties">> ELSE <<>>) \in Seq(S)
    BY <2>1
  <2> QED
    BY <2>1, <2>2, ConcatProperties, Zenon DEF EngInit!Settings
<1> HIDE DEF S
<1>2. Len(EngInit!Settings) \in Nat
        /\ DOMAIN EngInit!Settings = 1..Len(EngInit!Settings)
  BY <1>1, LenProperties
<1>3. \A k \in 1..Len(EngInit!Settings) : [kind |-> "Set",
        arg |-> EngInit!Settings[k]] \in EngQueued
  BY <1>2 DEF EngQueued, EngInit!Named
<1>4. EngInit!Config \in [1..Len(EngInit!Settings) -> EngQueued]
  BY <1>2, <1>3 DEF EngInit!Config
<1>5. EngInit!Config \in Seq(EngQueued) /\ Len(EngInit!Config) = Len(EngInit!Settings)
  <2>1. EngInit!Config \in Seq(EngQueued)
    BY <1>2, <1>4, SeqDef
  <2> QED
    BY <1>2, <1>4, <2>1, LenProperties
<1> QED
  BY <1>2, <1>5 DEF EngInit!Config, EngInit!Named, EngNoEnable

(* The type of all but the queue.                                           *)
EngTyped ==
    /\ adapter \in BOOLEAN /\ agps_status_cb \in BOOLEAN
    /\ agpsStatus \in BOOLEAN
    /\ supl_host \in Servers \cup {NULL}
    /\ sending \in [by : {"none", "Init", "Up"}, value : BOOLEAN \cup {NULL}]
    /\ client \in {"closed", "open", "stale"}
    /\ service \in [up : BOOLEAN, settings : SUBSET EngInit!Named,
                  server : Servers \cup {NULL}, locked : BOOLEAN]
    /\ enabled \in BOOLEAN \cup {NULL}
    /\ wanted \in [server : Servers \cup {NULL}, early : BOOLEAN]
    /\ untold \in BOOLEAN

EngBounded == calls \in 0..MaxCalls /\ restarts \in 0..MaxRestarts

(* Typed holds on of what changes within its type.                          *)
LEMMA EngTypedKept ==
    ASSUME EngTyped,
           adapter' = adapter \/ adapter' \in BOOLEAN,
           agps_status_cb' = agps_status_cb \/ agps_status_cb' \in BOOLEAN,
           agpsStatus' = agpsStatus \/ agpsStatus' \in BOOLEAN,
           sending' = sending
              \/ sending' \in [by : {"none", "Init", "Up"},
                    value : BOOLEAN \cup {NULL}],
           enabled' = enabled \/ enabled' \in BOOLEAN \cup {NULL},
           untold' = untold \/ untold' \in BOOLEAN,
           supl_host' = supl_host \/ supl_host' \in Servers \cup {NULL},
           client' = client \/ client' \in {"closed", "open", "stale"},
           service' = service \/ service' \in [up : BOOLEAN,
             settings : SUBSET EngInit!Named,
                  server : Servers \cup {NULL}, locked : BOOLEAN],
           wanted' = wanted \/ wanted' \in [server : Servers \cup {NULL},
             early : BOOLEAN]
    PROVE  EngTyped'
<1>1. adapter' \in BOOLEAN /\ agps_status_cb' \in BOOLEAN
  BY Zenon DEF EngTyped
<1>2. agpsStatus' \in BOOLEAN /\ untold' \in BOOLEAN
        /\ enabled' \in BOOLEAN \cup {NULL}
  BY Zenon DEF EngTyped
<1>3. sending' \in [by : {"none", "Init", "Up"}, value : BOOLEAN \cup {NULL}]
  BY Zenon DEF EngTyped
<1>4. supl_host' \in Servers \cup {NULL} /\ client' \in {"closed", "open", "stale"}
  BY Zenon DEF EngTyped
<1>5. service' \in [up : BOOLEAN, settings : SUBSET EngInit!Named,
                  server : Servers \cup {NULL}, locked : BOOLEAN]
  BY Zenon DEF EngTyped
<1>6. wanted' \in [server : Servers \cup {NULL}, early : BOOLEAN]
  BY Zenon DEF EngTyped
<1> QED
  BY <1>1, <1>2, <1>3, <1>4, <1>5, <1>6 DEF EngTyped

LEMMA EngTypeRest ==
    ASSUME initq \in Seq(EngQueued)
    PROVE  EngInit!TypeOK <=> EngTyped /\ EngBounded
<1>1. DOMAIN initq = 1..Len(initq)
  BY LenProperties
<1>2. \A k \in DOMAIN initq :
          \/ initq[k] \in [kind : {"Open", "Ssr", "Init", "Up"}, arg : {NULL}]
          \/ initq[k] \in [kind : {"Set"}, arg : EngInit!Named]
          \/ initq[k] \in [kind : {"Enable"}, arg : BOOLEAN]
          \/ initq[k] \in [kind : {"Server"}, arg : Servers]
  BY <1>1, ElementOfSeq DEF EngQueued
<1> QED
  BY <1>2, Zenon DEF EngInit!TypeOK, EngTyped, EngBounded

LEMMA EngTypeRestNext ==
    ASSUME initq' \in Seq(EngQueued)
    PROVE  EngInit!TypeOK' <=> EngTyped' /\ EngBounded'
<1>1. DOMAIN initq' = 1..Len(initq')
  BY LenProperties
<1>2. \A k \in DOMAIN initq' :
          \/ initq'[k] \in [kind : {"Open", "Ssr", "Init", "Up"}, arg : {NULL}]
          \/ initq'[k] \in [kind : {"Set"}, arg : EngInit!Named]
          \/ initq'[k] \in [kind : {"Enable"}, arg : BOOLEAN]
          \/ initq'[k] \in [kind : {"Server"}, arg : Servers]
  BY <1>1, ElementOfSeq DEF EngQueued
<1> QED
  BY <1>2, Zenon DEF EngInit!TypeOK, EngTyped, EngBounded, EngInit!Named

LEMMA EngCounted ==
    ASSUME EngBounded, EngInit!Call \/ UNCHANGED EngInit!bounds
    PROVE  EngBounded'
BY EngBounds DEF EngBounded, EngInit!Call, EngInit!bounds

(* A step that only posts: what was coming still is.                        *)
LEMMA EngPostedComing ==
    ASSUME EngIInv, NEW r \in Seq(EngQueued), initq' = initq \o r,
           UNCHANGED <<adapter, client, service.up>>,
             service'.settings = service.settings,
           adapter \/ (r = <<>> /\ UNCHANGED sending)
    PROVE  /\ initq' \in Seq(EngQueued)
           /\ EngClientComing' /\ EngSettingsComing'
<1>1. initq \in Seq(EngQueued) /\ initq' \in Seq(EngQueued)
  BY EngGrown DEF EngIInv
<1>2. Len(initq') + 1 \in Nat /\ Len(initq') + 1 > Len(initq)
  BY <1>1, EngGrown
<1>3. EngOpenBy(initq, Len(initq) + 1, client) => EngOpenBy(initq', Len(initq') + 1,
        client)
  BY <1>1, <1>2, EngComingGrows
<1>4. \A a : EngSettingComing(initq, client, a) => EngSettingComing(initq', client, a)
  BY <1>1, EngComingGrows
<1>5. ~adapter => initq' = <<>> /\ UNCHANGED sending
  BY ConcatEmptySeq DEF EngIInv, EngClientComing
<1> QED
  BY <1>1, <1>3, <1>4, <1>5
    DEF EngIInv, EngClientComing, EngSettingsComing, EngInit!NotSending

LEMMA EngPostedEnable ==
    ASSUME EngIInv, NEW r \in Seq(EngQueued), initq' = initq \o r, EngNoEnable(r, 0),
           UNCHANGED <<adapter, untold, agpsStatus, sending, enabled>>
    PROVE  EngEnableComing'
<1>1. initq \in Seq(EngQueued)
  BY DEF EngIInv
<1>2. /\ EngReads(initq) => EngReads(initq')
      /\ EngNoEnable(initq, 0) => EngNoEnable(initq', 0)
      /\ EngLastEnable(initq, agpsStatus) => EngLastEnable(initq', agpsStatus)
  BY <1>1, EngComingGrows, EngEnableGrows
<1> QED
  BY <1>2 DEF EngIInv, EngEnableComing

-----------------------------------------------------------------------------
LEMMA EngInitIInv == EngInit!Init => EngIInv
<1> SUFFICES ASSUME EngInit!Init PROVE EngIInv
  OBVIOUS
<1>1. initq \in Seq(EngQueued)
  BY DEF EngInit!Init
<1>2. EngInit!TypeOK
  <2>1. EngTyped
    BY DEF EngInit!Init, EngInit!NotSending, EngInit!Blank, EngTyped
  <2>2. EngBounded
    BY EngBounds DEF EngInit!Init, EngBounded
  <2> QED
    BY <1>1, <2>1, <2>2, EngTypeRest
<1> QED
  BY <1>1, <1>2
    DEF EngInit!Init, EngIInv, EngSendingFits, EngClientComing, EngSettingsComing,
     EngEnableComing, EngInit!NotSending, EngInit!Blank

LEMMA EngPlainQueued ==
    /\ \A k \in {"Open", "Ssr", "Init", "Up"} : EngInit!Plain(k) \in EngQueued
    /\ \A s \in Servers : EngInit!Server(s) \in EngQueued
    /\ \A v \in BOOLEAN : EngInit!Enable(v) \in EngQueued
BY DEF EngInit!Plain, EngInit!Server, EngInit!Enable, EngQueued

LEMMA EngPairQueued ==
    ASSUME NEW x \in EngQueued, NEW y \in EngQueued
    PROVE  /\ <<x, y>> \in Seq(EngQueued) /\ Len(<<x, y>>) = 2
           /\ <<x, y>>[1] = x /\ <<x, y>>[2] = y
OBVIOUS

LEMMA EngPairPosted ==
    ASSUME NEW q \in Seq(EngQueued), NEW x \in EngQueued, NEW y \in EngQueued,
           NEW p, NEW r, p = q \o r, r = <<x, y>>
    PROVE  /\ p \in Seq(EngQueued) /\ Len(q) \in Nat /\ Len(p) = Len(q) + 2
           /\ p[Len(q) + 1] = x /\ p[Len(q) + 2] = y
<1>1. r \in Seq(EngQueued) /\ Len(r) = 2 /\ r[1] = x /\ r[2] = y
  BY EngPairQueued
<1>2. 1 \in 1..2 /\ 2 \in 1..2
  OBVIOUS
<1>3. /\ p \in Seq(EngQueued) /\ Len(q) \in Nat /\ Len(p) = Len(q) + Len(r)
      /\ p[Len(q) + 1] = r[1] /\ p[Len(q) + 2] = r[2]
  BY <1>1, <1>2, EngGrown, Zenon
<1> QED
  BY <1>1, <1>3, Zenon

LEMMA EngOneQueued ==
    ASSUME NEW q \in Seq(EngQueued), NEW x \in EngQueued
    PROVE  /\ <<x>> \in Seq(EngQueued) /\ Len(<<x>>) = 1 /\ <<x>>[1] = x
           /\ Append(q, x) = q \o <<x>>
<1>1. <<x>> \in Seq(EngQueued) /\ Len(<<x>>) = 1 /\ <<x>>[1] = x
  OBVIOUS
<1>2. Append(q, x) = q \o <<x>>
  BY AppendIsConcat
<1> QED
  BY <1>1, <1>2

LEMMA EngBufferedQueued ==
    ASSUME supl_host \in Servers \cup {NULL}
    PROVE  EngInit!Buffered \in Seq(EngQueued) /\ EngNoEnable(EngInit!Buffered, 0)
<1>1. CASE supl_host # NULL
  <2>1. EngInit!Server(supl_host) \in EngQueued
    BY <1>1, EngPlainQueued
  <2> QED
    BY <1>1, <2>1 DEF EngInit!Buffered, EngNoEnable, EngInit!Server
<1>2. CASE supl_host = NULL
  BY <1>2 DEF EngInit!Buffered, EngNoEnable
<1> QED
  BY <1>1, <1>2

(* The framework's thread.                                                  *)
LEMMA EngInitInv ==
    ASSUME EngIInv, EngInit!loc_eng_init
    PROVE  EngIInv'
<1>1. CASE adapter
  <2>1. initq' = initq /\ UNCHANGED <<EngInit!engine, agpsStatus, sending, client,
          enabled, service, wanted, untold>>
    BY <1>1 DEF EngInit!loc_eng_init, EngInit!engine
  <2>2. initq' \in Seq(EngQueued)
    BY <2>1 DEF EngIInv
  <2>3. EngInit!TypeOK'
    <3>1. EngTyped /\ EngBounded /\ EngInit!Call
      BY EngTypeRest DEF EngIInv, EngInit!loc_eng_init
    <3>2. EngTyped'
      BY <2>1, <3>1, EngTypedKept, Zenon DEF EngInit!engine
    <3>3. EngBounded'
      BY <3>1, EngCounted
    <3> QED
      BY <2>2, <3>2, <3>3, EngTypeRestNext
  <2> QED
    BY <2>1, <2>2, <2>3
    DEF EngIInv, EngSendingFits, EngClientComing, EngSettingsComing,
      EngEnableComing, EngInit!engine
<1>2. CASE ~adapter
  <2>1. /\ adapter' = TRUE /\ agps_status_cb' = FALSE /\ supl_host' = NULL
        /\ UNCHANGED <<agpsStatus, sending, client, enabled, service, wanted, untold>>
    BY <1>2 DEF EngInit!loc_eng_init
  <2>2. initq' = initq \o <<EngInit!Plain("Open"), EngInit!Plain("Init")>>
    BY <1>2 DEF EngInit!loc_eng_init
  <2>3. initq \in Seq(EngQueued) /\ client = "closed"
    BY <1>2 DEF EngIInv, EngClientComing
  <2>4. /\ initq' \in Seq(EngQueued) /\ Len(initq) \in Nat
              /\ Len(initq') = Len(initq) + 2
        /\ initq'[Len(initq) + 1] = EngInit!Plain("Open")
              /\ initq'[Len(initq) + 2] = EngInit!Plain("Init")
    <3>1. EngInit!Plain("Open") \in EngQueued /\ EngInit!Plain("Init") \in EngQueued
      BY EngPlainQueued
    <3> QED
      BY <2>2, <2>3, <3>1, EngPairPosted
  <2>5. EngInit!TypeOK'
    <3>1. EngTyped /\ EngBounded /\ EngInit!Call
      BY EngTypeRest DEF EngIInv, EngInit!loc_eng_init
    <3>2. EngTyped'
      <4>1. adapter' \in BOOLEAN /\ agps_status_cb' \in BOOLEAN
        BY <2>1
      <4>2. supl_host' \in Servers \cup {NULL}
        BY <2>1
      <4> QED
        BY <2>1, <3>1, <4>1, <4>2, EngTypedKept, Zenon
    <3>3. EngBounded'
      BY <3>1, EngCounted
    <3> QED
      BY <2>4, <3>2, <3>3, EngTypeRestNext
  <2>6. /\ EngOpenBy(initq', Len(initq) + 2, "closed") /\ EngOpenBy(initq',
              Len(initq') + 1, "closed")
    BY <2>4 DEF EngOpenBy, EngBefore, EngInit!Plain
  <2>7. Len(initq) + 2 \in 1..Len(initq') /\ initq'[Len(initq) + 2].kind = "Init"
    BY <2>4 DEF EngInit!Plain
  <2>8. EngReads(initq')
    BY <2>7 DEF EngReads
  <2>9. \A a : EngSettingComing(initq', "closed", a)
    BY <2>6, <2>7 DEF EngSettingComing, EngBrings
  <2> QED
    BY <2>1, <2>3, <2>4, <2>5, <2>6, <2>8, <2>9
    DEF EngIInv, EngSendingFits, EngClientComing, EngSettingsComing, EngEnableComing
<1> QED
  BY <1>1, <1>2

LEMMA EngAgpsInitInv ==
    ASSUME EngIInv, EngInit!loc_eng_agps_init
    PROVE  EngIInv'
<1>1. /\ initq' = initq \o EngInit!Buffered /\ agps_status_cb' = TRUE
      /\ UNCHANGED <<adapter, supl_host, agpsStatus, sending, client, enabled,
            service,
                     wanted, untold>>
      /\ EngInit!Call
  BY DEF EngInit!loc_eng_agps_init
<1>2. EngInit!Buffered \in Seq(EngQueued) /\ EngNoEnable(EngInit!Buffered, 0)
  BY EngBufferedQueued, EngTypeRest DEF EngIInv, EngTyped
<1>3. initq' \in Seq(EngQueued) /\ EngClientComing' /\ EngSettingsComing'
        /\ EngEnableComing'
  BY <1>1, <1>2, EngPostedComing, EngPostedEnable DEF EngInit!loc_eng_agps_init
<1>4. EngInit!TypeOK'
  <2>1. EngTyped /\ EngBounded
    BY EngTypeRest DEF EngIInv
  <2>2. agps_status_cb' \in BOOLEAN
    BY <1>1
  <2>3. EngTyped'
    BY <1>1, <2>1, <2>2, EngTypedKept, Zenon
  <2>4. EngBounded'
    BY <1>1, <2>1, EngCounted
  <2> QED
    BY <1>3, <2>3, <2>4, EngTypeRestNext
<1> QED
  BY <1>1, <1>3, <1>4 DEF EngIInv, EngSendingFits

LEMMA EngSetServerInv ==
    ASSUME EngIInv, NEW s \in Servers, EngInit!SetServer(s)
    PROVE  EngIInv'
<1>1. /\ UNCHANGED <<adapter, agps_status_cb, agpsStatus, sending, client, enabled,
            service,
                     untold>>
      /\ EngInit!Call
      /\ supl_host' \in {supl_host, s} /\ wanted' = [server |-> s, early |-> ~adapter]
  BY DEF EngInit!SetServer
<1>2. initq \in Seq(EngQueued) /\ EngInit!Server(s) \in EngQueued
  BY EngPlainQueued DEF EngIInv
<1>3. \E r \in Seq(EngQueued) :
         EngNoEnable(r, 0) /\ initq' = initq \o r /\ (adapter \/ r = <<>>)
  <2>1. CASE adapter
    <3>1. <<EngInit!Server(s)>> \in Seq(EngQueued)
            /\ EngNoEnable(<<EngInit!Server(s)>>, 0)
      BY <1>2, EngOneQueued DEF EngNoEnable, EngInit!Server
    <3> QED
      BY <1>2, <2>1, <3>1, EngOneQueued DEF EngInit!SetServer
  <2>2. CASE ~adapter
    <3>1. <<>> \in Seq(EngQueued) /\ EngNoEnable(<<>>, 0) /\ initq = initq \o <<>>
      BY <1>2, EmptySeq, ConcatEmptySeq DEF EngNoEnable
    <3> QED
      BY <2>2, <3>1 DEF EngInit!SetServer
  <2> QED
    BY <2>1, <2>2 DEF EngInit!SetServer
<1>4. initq' \in Seq(EngQueued) /\ EngClientComing' /\ EngSettingsComing'
        /\ EngEnableComing'
  BY <1>1, <1>3, EngPostedComing, EngPostedEnable
<1>5. EngInit!TypeOK'
  <2>1. EngTyped /\ EngBounded
    BY EngTypeRest DEF EngIInv
  <2>2. wanted' \in [server : Servers \cup {NULL}, early : BOOLEAN]
    BY <1>1, <2>1 DEF EngTyped
  <2>3. supl_host' \in Servers \cup {NULL}
    BY <1>1, <2>1 DEF EngTyped
  <2>4. EngTyped'
    BY <1>1, <2>1, <2>2, <2>3, EngTypedKept, Zenon
  <2>5. EngBounded'
    BY <1>1, <2>1, EngCounted
  <2> QED
    BY <1>4, <2>4, <2>5, EngTypeRestNext
<1> QED
  BY <1>1, <1>4, <1>5 DEF EngIInv, EngSendingFits

LEMMA EngAvailabilityInv ==
    ASSUME EngIInv, NEW available \in BOOLEAN, NEW apn \in BOOLEAN,
           EngInit!UpdateAvailability(available, apn)
    PROVE  EngIInv'
<1>1. /\ UNCHANGED <<adapter, agps_status_cb, supl_host, sending, client, enabled,
                     service, wanted>>
      /\ EngInit!Call
      /\ agpsStatus' = available
      /\ untold' = (adapter /\ (~apn \/ sending.by # "none"))
  BY DEF EngInit!UpdateAvailability, EngInit!engine
<1>2. initq \in Seq(EngQueued) /\ EngInit!Enable(available) \in EngQueued
  BY EngPlainQueued DEF EngIInv
<1>t. ASSUME initq' \in Seq(EngQueued) PROVE EngInit!TypeOK'
  <2>1. EngTyped /\ EngBounded
    BY EngTypeRest DEF EngIInv
  <2>2. untold' \in BOOLEAN
    BY <1>1, Zenon
  <2>3. EngTyped'
    BY <1>1, <2>1, <2>2, EngTypedKept, Zenon
  <2>4. EngBounded'
    BY <1>1, <2>1, EngCounted
  <2> QED
    BY <1>t, <2>3, <2>4, EngTypeRestNext
<1>3. CASE adapter /\ apn
  <2> DEFINE r == <<EngInit!Enable(available)>>
  <2>1. r \in Seq(EngQueued) /\ initq' = initq \o r /\ EngLastEnable(r, available)
    <3>1. initq' = Append(initq, EngInit!Enable(available))
      BY <1>3 DEF EngInit!UpdateAvailability
    <3>2. r \in Seq(EngQueued) /\ Len(r) = 1 /\ r[1] = EngInit!Enable(available)
      BY <1>2, EngOneQueued
    <3>3. 1 \in 1..Len(r) /\ EngNoEnable(r, 1)
      BY <3>2 DEF EngNoEnable
    <3> QED
      BY <1>2, <3>1, <3>2, <3>3, EngOneQueued DEF EngLastEnable
  <2> HIDE DEF r
  <2>2. initq' \in Seq(EngQueued) /\ EngClientComing' /\ EngSettingsComing'
    BY <1>1, <1>3, <2>1, EngPostedComing
  <2>3. EngLastEnable(initq', available)
    BY <1>2, <2>1, EngEnableGrows
  <2>4. EngInit!TypeOK'
    BY <2>2, <1>t
  <2>5. EngEnableComing'
    BY <1>1, <1>3, <2>3 DEF EngEnableComing
  <2> QED
    BY <1>1, <2>2, <2>4, <2>5 DEF EngIInv, EngSendingFits
<1>4. CASE ~(adapter /\ apn)
  <2>1. initq' = initq
    BY <1>4 DEF EngInit!UpdateAvailability
  <2>2. EngInit!TypeOK'
    BY <1>2, <2>1, <1>t
  <2> QED
    BY <1>1, <1>2, <1>4, <2>1, <2>2
    DEF EngIInv, EngSendingFits, EngClientComing, EngSettingsComing, EngEnableComing
<1> QED
  BY <1>3, <1>4

-----------------------------------------------------------------------------
(* The MsgTask thread.                                                      *)
LEMMA EngHeadTaken ==
    ASSUME EngIInv, NEW kind, EngInit!Next1(kind)
    PROVE  /\ initq \in Seq(EngQueued) /\ initq # <<>>
                 /\ EngInit!Taken \in Seq(EngQueued)
           /\ Head(initq) \in EngQueued /\ Head(initq).kind = kind
           /\ Head(initq) = initq[1] /\ adapter /\ sending.by = "none"
<1>1. initq \in Seq(EngQueued) /\ initq # <<>> /\ Head(initq).kind = kind
        /\ sending.by = "none"
  BY DEF EngIInv, EngInit!Next1
<1>2. adapter
  BY <1>1 DEF EngIInv, EngClientComing
<1> QED
  BY <1>1, <1>2, EngShortened DEF EngInit!Taken

LEMMA EngTypeStep ==
    ASSUME EngIInv, initq' \in Seq(EngQueued), EngTyped => EngTyped',
             UNCHANGED EngInit!bounds
    PROVE  EngInit!TypeOK'
<1>1. EngTyped /\ EngBounded
  BY EngTypeRest DEF EngIInv
<1> QED
  BY <1>1, EngCounted, EngTypeRestNext

LEMMA EngTakenEnable ==
    ASSUME EngIInv, NEW kind, EngInit!Next1(kind), kind \notin {"Init", "Up",
             "Enable"}, initq' = EngInit!Taken,
           UNCHANGED <<adapter, untold, agpsStatus, sending, enabled>>
    PROVE  EngEnableComing'
<1>1. initq \in Seq(EngQueued) /\ initq # <<>> /\ Head(initq).kind = kind
  BY EngHeadTaken
<1>2. /\ EngReads(initq) => EngReads(initq')
      /\ EngNoEnable(initq, 0) => EngNoEnable(initq', 0)
      /\ EngLastEnable(initq, agpsStatus) => EngLastEnable(initq', agpsStatus)
  BY <1>1, EngEnableTaken DEF EngInit!Taken, EngInit!Enable
<1> QED
  BY <1>2 DEF EngIInv, EngEnableComing

LEMMA EngProcOpenInv ==
    ASSUME EngIInv, EngInit!ProcOpen
    PROVE  EngIInv'
<1>1. PICK kind \in {"Open", "Ssr"} : EngInit!Next1(kind)
  BY DEF EngInit!ProcOpen
<1>2. /\ initq \in Seq(EngQueued) /\ initq # <<>> /\ EngInit!Taken \in Seq(EngQueued)
      /\ Head(initq).kind = kind /\ Head(initq) = initq[1] /\ adapter
  BY <1>1, EngHeadTaken
<1>3. /\ initq' = EngInit!Taken
      /\ UNCHANGED <<adapter, agps_status_cb, supl_host, agpsStatus, sending, enabled,
                     service, wanted, untold>>
      /\ UNCHANGED EngInit!bounds
  BY DEF EngInit!ProcOpen, EngInit!engine
<1>4. client \in {"closed", "open", "stale"} => client' \in {"closed", "open",
        "stale"}
  BY DEF EngInit!ProcOpen
<1>5. EngInit!TypeOK'
  <2>1. EngTyped => EngTyped'
    BY <1>3, <1>4 DEF EngTyped
  <2> QED
    BY <1>2, <1>3, <2>1, EngTypeStep
<1>6. EngEnableComing'
  BY <1>1, <1>3, EngTakenEnable
<1>7. ASSUME service.up
      PROVE  /\ EngOpenBy(initq, Len(initq) + 1, client) => EngOpenBy(initq',
                   Len(initq') + 1, client')
             /\ \A a : EngSettingComing(initq, client, a)
                   => EngSettingComing(initq', client', a)
  <2>1. /\ client = "open" => client' = "open"
        /\ Head(initq).kind = "Ssr" => client' = "open"
        /\ client = "closed" => client' = "open"
    BY <1>2, <1>7 DEF EngInit!ProcOpen, EngInit!Next1
  <2>2. \A a : ~EngBrings(initq, 1, a)
    BY <1>2 DEF EngBrings
  <2>3. client = "closed" =>
            client' = IF Head(initq).kind \in {"Open",
              "Ssr"} THEN "open" ELSE "closed"
    BY <1>2, <2>1
  <2> QED
    BY <1>2, <1>3, <2>1, <2>2, <2>3, EngComingTaken DEF EngInit!Taken
<1> QED
  BY <1>2, <1>3, <1>5, <1>6, <1>7
    DEF EngIInv, EngSendingFits, EngClientComing, EngSettingsComing

(* A message of another kind is processed: the client stays as it is.       *)
LEMMA EngTakenComing ==
    ASSUME EngIInv, NEW kind, EngInit!Next1(kind), kind \notin {"Open", "Ssr"}
    PROVE  /\ EngOpenBy(initq, Len(initq) + 1, client) => EngOpenBy(EngInit!Taken,
                 Len(EngInit!Taken) + 1, client)
           /\ \A a : EngSettingComing(initq, client, a) =>
                 \/ EngSettingComing(EngInit!Taken, client, a)
                 \/ client = "open" /\ EngBrings(initq, 1, a)
BY EngHeadTaken, EngComingTaken DEF EngInit!Taken

LEMMA EngReinitInv ==
    ASSUME EngIInv, NEW by \in {"Init", "Up"}, EngInit!Reinit(by)
    PROVE  EngIInv'
<1>1. /\ EngInit!Next1(by) /\ initq' = EngInit!Taken \o EngInit!Config
      /\ sending' = [by |-> by, value |-> agpsStatus] /\ untold' = FALSE
      /\ UNCHANGED <<adapter, agps_status_cb, supl_host, agpsStatus, client, enabled,
                     service, wanted>>
      /\ UNCHANGED EngInit!bounds
  BY DEF EngInit!Reinit, EngInit!engine
<1>2. adapter /\ EngInit!Taken \in Seq(EngQueued)
  BY <1>1, EngHeadTaken
<1>3. initq' \in Seq(EngQueued)
  BY <1>1, <1>2, EngConfigIs, EngGrown
<1>4. agpsStatus \in BOOLEAN
  BY EngTypeRest DEF EngIInv, EngTyped
<1>5. EngInit!TypeOK'
  <2>1. sending' \in [by : {"none", "Init", "Up"}, value : BOOLEAN \cup {NULL}]
    BY <1>1, <1>4
  <2>0. untold' \in BOOLEAN
    BY <1>1
  <2>2. EngTyped => EngTyped'
    BY <1>1, <2>0, <2>1, EngTypedKept, Zenon
  <2> QED
    BY <1>1, <1>3, <2>2, EngTypeStep
<1>6. EngEnableComing' /\ EngSendingFits'
  BY <1>1, <1>4 DEF EngEnableComing, EngSendingFits
<1>7. ASSUME service.up
      PROVE  /\ EngOpenBy(initq', Len(initq') + 1, client)
             /\ \A a \in EngInit!Named : EngSettingComing(initq', client, a)
  <2>1. EngOpenBy(EngInit!Taken, Len(EngInit!Taken) + 1, client)
    BY <1>1, <1>2, <1>7, EngTakenComing DEF EngIInv, EngClientComing
  <2>2. /\ Len(EngInit!Taken) \in Nat /\ Len(EngInit!Config) \in Nat
              /\ Len(initq') = Len(EngInit!Taken) + Len(EngInit!Config)
        /\ \A i \in 1..Len(EngInit!Config) :
              Len(EngInit!Taken) + i \in 1..Len(initq')
                /\ initq'[Len(EngInit!Taken) + i] = EngInit!Config[i]
    BY <1>1, <1>2, EngConfigIs, EngGrown
  <2>3. \A k \in Nat : k > Len(EngInit!Taken) => EngOpenBy(initq', k, client)
    BY <1>1, <1>2, <2>1, EngConfigIs, EngComingGrows
  <2>4. ASSUME NEW a \in EngInit!Named PROVE EngSettingComing(initq', client, a)
    <3>1. PICK k \in 1..Len(EngInit!Config) : EngInit!Config[k] = [kind |-> "Set",
            arg |-> a]
      BY EngConfigIs
    <3>2. /\ Len(EngInit!Taken) + k \in 1..Len(initq')
                /\ Len(EngInit!Taken) + k \in Nat
          /\ Len(EngInit!Taken) + k > Len(EngInit!Taken)
      BY <2>2
    <3>3. EngBrings(initq', Len(EngInit!Taken) + k, a)
      BY <2>2, <3>1 DEF EngBrings
    <3> QED
      BY <2>3, <3>2, <3>3 DEF EngSettingComing
  <2>5. Len(initq') + 1 \in Nat /\ Len(initq') + 1 > Len(EngInit!Taken)
    BY <2>2
  <2> QED
    BY <2>3, <2>4, <2>5
<1> QED
  BY <1>1, <1>2, <1>3, <1>5, <1>6, <1>7
    DEF EngIInv, EngClientComing, EngSettingsComing, EngKept

LEMMA EngReinitSendInv ==
    ASSUME EngIInv, EngInit!ReinitSend
    PROVE  EngIInv'
<1>1. /\ sending.by # "none" /\ sending' = EngInit!NotSending
      /\ UNCHANGED <<adapter, agps_status_cb, supl_host, agpsStatus, client, enabled,
                     wanted, untold>>
      /\ UNCHANGED EngInit!bounds
  BY DEF EngInit!ReinitSend, EngInit!engine
<1>2. initq \in Seq(EngQueued) /\ adapter /\ sending.value \in BOOLEAN
  BY <1>1 DEF EngIInv, EngClientComing, EngSendingFits, EngInit!NotSending
<1>3. PICK x \in Seq(EngQueued) :
         EngNoEnable(x, 0) /\ initq' = Append(initq,
           EngInit!Enable(sending.value)) \o x
  <2>1. <<>> \in Seq(EngQueued) /\ EngNoEnable(<<>>, 0)
    BY EmptySeq DEF EngNoEnable
  <2>2. EngInit!Buffered \in Seq(EngQueued) /\ EngNoEnable(EngInit!Buffered, 0)
    BY EngBufferedQueued, EngTypeRest DEF EngIInv, EngTyped
  <2>3. Append(initq, EngInit!Enable(sending.value)) \in Seq(EngQueued)
    BY <1>2, EngPlainQueued, AppendProperties
  <2>4. Append(initq, EngInit!Enable(sending.value)) \o <<>> = Append(initq,
          EngInit!Enable(sending.value))
    BY <2>3, ConcatEmptySeq
  <2>5. CASE sending.by = "Init"
    BY <2>1, <2>4, <2>5 DEF EngInit!ReinitSend
  <2>6. CASE sending.by = "Up" /\ agps_status_cb
    BY <2>2, <2>6 DEF EngInit!ReinitSend
  <2>7. CASE sending.by = "Up" /\ ~agps_status_cb
    BY <2>1, <2>7 DEF EngInit!ReinitSend
  <2> QED
    BY <2>5, <2>6, <2>7 DEF EngInit!ReinitSend
<1>4. PICK e \in Seq(EngQueued) :
         e = <<EngInit!Enable(sending.value)>> /\ EngLastEnable(e, sending.value)
             /\ Append(initq, EngInit!Enable(sending.value)) = initq \o e
  <2>1. EngInit!Enable(sending.value) \in EngQueued
    BY <1>2, EngPlainQueued
  <2>2. /\ <<EngInit!Enable(sending.value)>> \in Seq(EngQueued)
              /\ Len(<<EngInit!Enable(sending.value)>>) = 1
        /\ <<EngInit!Enable(sending.value)>>[1] = EngInit!Enable(sending.value)
        /\ Append(initq,
              EngInit!Enable(sending.value)) = initq \o <<EngInit!Enable(sending.value)>>
    BY <1>2, <2>1, EngOneQueued
  <2>3. 1 \in 1..1 /\ EngNoEnable(<<EngInit!Enable(sending.value)>>, 1)
    BY <2>2 DEF EngNoEnable
  <2> QED
    BY <2>2, <2>3 DEF EngLastEnable
<1>5. e \o x \in Seq(EngQueued) /\ initq' = initq \o (e \o x)
        /\ EngLastEnable(e \o x, sending.value)
  <2>1. (initq \o e) \o x = initq \o (e \o x)
    BY <1>2, ConcatAssociative
  <2> QED
    BY <1>3, <1>4, <2>1, EngGrown, EngEnableGrows
<1>6. service'.settings = service.settings /\ service'.up = service.up
      /\ (EngTyped => service' \in [up : BOOLEAN, settings : SUBSET EngInit!Named,
                                server : Servers \cup {NULL}, locked : BOOLEAN])
  <2>0. EngTyped
    BY EngTypeRest DEF EngIInv
  <2>1. CASE UNCHANGED service
    BY <2>1 DEF EngTyped
  <2>2. CASE service' = [service EXCEPT !.locked = @ \/ EngInit!Reached]
    <3>1. service \in [up : BOOLEAN, settings : SUBSET EngInit!Named,
                     server : Servers \cup {NULL}, locked : BOOLEAN]
      BY <2>0 DEF EngTyped
    <3>2. (service.locked \/ EngInit!Reached) \in BOOLEAN
      BY Zenon
    <3>3. PICK b \in BOOLEAN : b = (service.locked \/ EngInit!Reached)
      BY <3>2, Zenon
    <3>4. service' = [service EXCEPT !.locked = b]
      BY <2>2, <3>3, Zenon
    <3> QED
      BY <3>1, <3>4
  <2> QED
    BY <2>1, <2>2 DEF EngInit!ReinitSend
<1>7. initq' \in Seq(EngQueued) /\ EngClientComing' /\ EngSettingsComing'
  BY <1>1, <1>2, <1>5, <1>6, EngPostedComing
<1>8. EngEnableComing'
  <2>1. EngReads(initq) => EngReads(initq')
    BY <1>2, <1>5, EngComingGrows
  <2>2. EngLastEnable(initq', sending.value)
    BY <1>2, <1>5, EngEnableGrows
  <2> QED
    BY <1>1, <2>1, <2>2 DEF EngIInv, EngEnableComing, EngInit!NotSending
<1>9. EngInit!TypeOK' /\ EngSendingFits'
  <2>1. sending' \in [by : {"none", "Init", "Up"}, value : BOOLEAN \cup {NULL}]
    BY <1>1 DEF EngInit!NotSending
  <2>2. EngTyped => EngTyped'
    BY <1>1, <1>6, <2>1, EngTypedKept, Zenon
  <2> QED
    BY <1>1, <1>7, <2>2, EngTypeStep DEF EngSendingFits, EngInit!NotSending
<1> QED
  BY <1>7, <1>8, <1>9 DEF EngIInv

LEMMA EngToldInv ==
    ASSUME EngIInv, NEW kind \in {"Set", "Server"}, EngInit!Next1(kind),
             initq' = EngInit!Taken,
           UNCHANGED <<adapter, agps_status_cb, supl_host, agpsStatus, sending,
             client,
                       enabled, wanted, untold>>,
           UNCHANGED EngInit!bounds,
           EngTyped => service' \in [up : BOOLEAN, settings : SUBSET EngInit!Named,
                                server : Servers \cup {NULL}, locked : BOOLEAN],
           service'.up = service.up,
           service.settings \subseteq service'.settings,
             service'.settings \subseteq EngKept,
           service.up /\ client = "open" =>
              \A a \in EngKept : EngBrings(initq, 1, a) => a \in service'.settings
    PROVE  EngIInv'
<1>1. EngInit!Taken \in Seq(EngQueued) /\ initq \in Seq(EngQueued) /\ adapter
  BY EngHeadTaken
<1>2. EngTyped => EngTyped'
  BY DEF EngTyped
<1>3. EngInit!TypeOK'
  BY <1>1, <1>2, EngTypeStep
<1>4. EngEnableComing'
  BY EngTakenEnable
<1>5. EngClientComing' /\ EngSettingsComing'
  BY <1>1, EngTakenComing DEF EngIInv, EngClientComing, EngSettingsComing
<1> QED
  BY <1>1, <1>3, <1>4, <1>5 DEF EngIInv, EngSendingFits

LEMMA EngProcSetInv ==
    ASSUME EngIInv, EngInit!ProcSet
    PROVE  EngIInv'
<1> DEFINE new == [service EXCEPT !.settings =
                      @ \cup {a \in {Head(initq).arg} : EngInit!Overridden(a)}]
<1>1. /\ EngInit!Next1("Set") /\ initq' = EngInit!Taken
      /\ service' = IF EngInit!Reached THEN new ELSE service
      /\ UNCHANGED <<adapter, agps_status_cb, supl_host, agpsStatus, sending, client,
                     enabled, wanted, untold>>
      /\ UNCHANGED EngInit!bounds
  BY DEF EngInit!ProcSet, EngInit!Told, EngInit!engine
<1>2. /\ Head(initq) \in EngQueued /\ Head(initq).kind = "Set"
            /\ Head(initq) = initq[1]
      /\ EngTyped /\ service.settings \subseteq EngKept
  BY <1>1, EngHeadTaken, EngTypeRest DEF EngIInv, EngSettingsComing
<1>3. Head(initq).arg \in EngInit!Named
  BY <1>2 DEF EngQueued
<1>4. {a \in {Head(initq).arg} : EngInit!Overridden(a)} \subseteq EngKept
  BY <1>3 DEF EngKept
<1>5. service \in [up : BOOLEAN, settings : SUBSET EngInit!Named,
                 server : Servers \cup {NULL}, locked : BOOLEAN]
  BY <1>2 DEF EngTyped
<1>6. /\ new.settings = service.settings \cup {a \in {Head(initq).arg} : EngInit!Overridden(a)}
      /\ new.up = service.up
      /\ new \in [up : BOOLEAN, settings : SUBSET EngInit!Named,
                  server : Servers \cup {NULL}, locked : BOOLEAN]
  BY <1>3, <1>5
<1> HIDE DEF new
<1>7. \A a \in EngKept : EngBrings(initq, 1, a) => a \in new.settings
  BY <1>2, <1>6 DEF EngBrings, EngKept
<1>8. /\ service'.up = service.up /\ service.settings \subseteq service'.settings
      /\ service'.settings \subseteq EngKept
      /\ service' \in [up : BOOLEAN, settings : SUBSET EngInit!Named,
                     server : Servers \cup {NULL}, locked : BOOLEAN]
  BY <1>1, <1>2, <1>4, <1>5, <1>6
<1>9. service.up /\ client = "open" => service' = new
  BY <1>1 DEF EngInit!Reached
<1> QED
  BY <1>1, <1>7, <1>8, <1>9, EngToldInv

LEMMA EngProcServerInv ==
    ASSUME EngIInv, EngInit!ProcServer
    PROVE  EngIInv'
<1> DEFINE new == [service EXCEPT !.server = Head(initq).arg]
<1>1. /\ EngInit!Next1("Server") /\ initq' = EngInit!Taken
      /\ service' = IF EngInit!Reached THEN new ELSE service
      /\ UNCHANGED <<adapter, agps_status_cb, supl_host, agpsStatus, sending, client,
                     enabled, wanted, untold>>
      /\ UNCHANGED EngInit!bounds
  BY DEF EngInit!ProcServer, EngInit!Told, EngInit!engine
<1>2. /\ Head(initq) \in EngQueued /\ Head(initq).kind = "Server"
            /\ Head(initq) = initq[1]
      /\ EngTyped /\ service.settings \subseteq EngKept
  BY <1>1, EngHeadTaken, EngTypeRest DEF EngIInv, EngSettingsComing
<1>3. Head(initq).arg \in Servers
  BY <1>2 DEF EngQueued
<1>5. service \in [up : BOOLEAN, settings : SUBSET EngInit!Named,
                 server : Servers \cup {NULL}, locked : BOOLEAN]
  BY <1>2 DEF EngTyped
<1>6. /\ new.settings = service.settings /\ new.up = service.up
      /\ new \in [up : BOOLEAN, settings : SUBSET EngInit!Named,
                  server : Servers \cup {NULL}, locked : BOOLEAN]
  BY <1>3, <1>5
<1> HIDE DEF new
<1>7. \A a : ~EngBrings(initq, 1, a)
  BY <1>2 DEF EngBrings
<1>8. /\ service'.up = service.up /\ service'.settings = service.settings
      /\ service' \in [up : BOOLEAN, settings : SUBSET EngInit!Named,
                     server : Servers \cup {NULL}, locked : BOOLEAN]
  BY <1>1, <1>5, <1>6
<1> QED
  BY <1>1, <1>2, <1>7, <1>8, EngToldInv

LEMMA EngProcEnableInv ==
    ASSUME EngIInv, EngInit!ProcEnable
    PROVE  EngIInv'
<1>1. /\ EngInit!Next1("Enable") /\ initq' = EngInit!Taken
            /\ enabled' = Head(initq).arg
      /\ UNCHANGED <<adapter, agps_status_cb, supl_host, agpsStatus, sending, client,
                     service, wanted, untold>>
      /\ UNCHANGED EngInit!bounds
  BY DEF EngInit!ProcEnable, EngInit!engine
<1>2. /\ initq \in Seq(EngQueued) /\ initq # <<>> /\ EngInit!Taken \in Seq(EngQueued)
      /\ Head(initq) \in EngQueued /\ Head(initq).kind = "Enable"
            /\ Head(initq) = initq[1]
      /\ adapter /\ sending.by = "none"
  BY <1>1, EngHeadTaken
<1>3. Head(initq).arg \in BOOLEAN
  BY <1>2 DEF EngQueued
<1>4. EngInit!TypeOK'
  <2>0. enabled' \in BOOLEAN \cup {NULL}
    BY <1>1, <1>3, Zenon
  <2>1. EngTyped => EngTyped'
    BY <1>1, <2>0, EngTypedKept, Zenon
  <2> QED
    BY <1>1, <1>2, <2>1, EngTypeStep
<1>5. EngClientComing' /\ EngSettingsComing'
  <2>1. \A a : ~EngBrings(initq, 1, a)
    BY <1>2 DEF EngBrings
  <2> QED
    BY <1>1, <1>2, <2>1, EngTakenComing
      DEF EngIInv, EngClientComing, EngSettingsComing
<1>6. EngEnableComing'
  <2>1. /\ EngReads(initq) => EngReads(initq')
        /\ EngLastEnable(initq, agpsStatus) =>
              \/ EngLastEnable(initq', agpsStatus)
              \/ enabled' = agpsStatus /\ EngNoEnable(initq', 0)
    BY <1>1, <1>2, EngEnableTaken DEF EngInit!Taken, EngInit!Enable
  <2>2. ~EngNoEnable(initq, 0)
    BY <1>2, EngShortened DEF EngNoEnable
  <2> QED
    BY <1>1, <1>2, <2>1, <2>2 DEF EngIInv, EngEnableComing
<1> QED
  BY <1>1, <1>2, <1>4, <1>5, <1>6 DEF EngIInv, EngSendingFits

-----------------------------------------------------------------------------
(* The modem and the callback thread.                                       *)
LEMMA EngCrashInv ==
    ASSUME EngIInv, EngInit!Crash
    PROVE  EngIInv'
<1>1. /\ service' = [EngInit!Blank EXCEPT !.up = FALSE]
      /\ client' = IF client = "open" THEN "stale" ELSE client
      /\ UNCHANGED <<adapter, agps_status_cb, supl_host, agpsStatus, initq, sending,
            enabled,
                     wanted, untold>>
      /\ UNCHANGED calls /\ restarts < MaxRestarts /\ restarts' = restarts + 1
  BY DEF EngInit!Crash, EngInit!engine
<1>2. ~service'.up /\ service'.settings = {}
      /\ service' \in [up : BOOLEAN, settings : SUBSET EngInit!Named,
                     server : Servers \cup {NULL}, locked : BOOLEAN]
  BY <1>1 DEF EngInit!Blank
<1>3. EngInit!TypeOK'
  <2>1. EngTyped /\ EngBounded
    BY EngTypeRest DEF EngIInv
  <2>2. client' \in {"closed", "open", "stale"}
    BY <1>1, <2>1 DEF EngTyped
  <2>3. EngTyped'
    BY <1>1, <1>2, <2>1, <2>2, EngTypedKept, Zenon
  <2>4. EngBounded'
    BY <1>1, <2>1, EngBounds DEF EngBounded
  <2>5. initq' \in Seq(EngQueued)
    BY <1>1 DEF EngIInv
  <2> QED
    BY <2>3, <2>4, <2>5, EngTypeRestNext
<1> QED
  BY <1>1, <1>2, <1>3
  DEF EngIInv, EngSendingFits, EngClientComing, EngSettingsComing, EngEnableComing

LEMMA EngEngineUpInv ==
    ASSUME EngIInv, EngInit!EngineUp
    PROVE  EngIInv'
<1>1. /\ service' = [service EXCEPT !.up = TRUE]
      /\ initq' = IF adapter THEN initq \o <<EngInit!Plain("Ssr"),
            EngInit!Plain("Up")>> ELSE initq
      /\ UNCHANGED <<adapter, agps_status_cb, supl_host, agpsStatus, sending,
            client, enabled,
                     wanted, untold>>
      /\ UNCHANGED EngInit!bounds
  BY DEF EngInit!EngineUp, EngInit!engine
<1>2. initq \in Seq(EngQueued) /\ EngTyped
  BY EngTypeRest DEF EngIInv
<1>3. service'.settings = service.settings
      /\ service' \in [up : BOOLEAN, settings : SUBSET EngInit!Named,
                     server : Servers \cup {NULL}, locked : BOOLEAN]
  BY <1>1, <1>2 DEF EngTyped
<1>4. EngTyped => EngTyped'
  BY <1>1, <1>3, EngTypedKept, Zenon
<1>5. CASE ~adapter
  <2>1. initq' = initq /\ EngInit!TypeOK'
    BY <1>1, <1>2, <1>4, <1>5, EngTypeStep
  <2> QED
    BY <1>1, <1>3, <1>5, <2>1
    DEF EngIInv, EngSendingFits, EngClientComing, EngSettingsComing, EngEnableComing
<1>6. CASE adapter
  <2>3. /\ initq' \in Seq(EngQueued) /\ Len(initq) \in Nat
              /\ Len(initq') = Len(initq) + 2
        /\ initq'[Len(initq) + 1] = EngInit!Plain("Ssr")
              /\ initq'[Len(initq) + 2] = EngInit!Plain("Up")
    <3>1. initq' = initq \o <<EngInit!Plain("Ssr"), EngInit!Plain("Up")>>
      BY <1>1, <1>6
    <3>2. EngInit!Plain("Ssr") \in EngQueued /\ EngInit!Plain("Up") \in EngQueued
      BY EngPlainQueued
    <3> QED
      BY <1>2, <3>1, <3>2, EngPairPosted
  <2>4. EngInit!TypeOK'
    BY <1>1, <1>4, <2>3, EngTypeStep
  <2>5. EngOpenBy(initq', Len(initq) + 2, client) /\ EngOpenBy(initq',
          Len(initq') + 1, client)
    BY <2>3 DEF EngOpenBy, EngBefore, EngInit!Plain
  <2>6. Len(initq) + 2 \in 1..Len(initq') /\ initq'[Len(initq) + 2].kind = "Up"
    BY <2>3 DEF EngInit!Plain
  <2>7. EngReads(initq') /\ \A a : EngSettingComing(initq', client, a)
    BY <2>5, <2>6 DEF EngSettingComing, EngBrings, EngReads
  <2> QED
    BY <1>1, <1>3, <1>6, <2>3, <2>4, <2>5, <2>7
    DEF EngIInv, EngSendingFits, EngClientComing, EngSettingsComing, EngEnableComing
<1> QED
  BY <1>5, <1>6

LEMMA EngNextInv == EngIInv /\ [EngInit!Next]_(EngInit!vars) => EngIInv'
<1> SUFFICES ASSUME EngIInv, [EngInit!Next]_(EngInit!vars) PROVE EngIInv'
  OBVIOUS
<1>1. CASE UNCHANGED EngInit!vars
  BY <1>1 DEF EngInit!vars, EngIInv, EngInit!TypeOK, EngSendingFits,
    EngClientComing, EngSettingsComing,
     EngEnableComing
<1>2. CASE \E s \in Servers : EngInit!SetServer(s)
  BY <1>2, EngSetServerInv
<1>3. CASE \E available, apn \in BOOLEAN : EngInit!UpdateAvailability(available, apn)
  BY <1>3, EngAvailabilityInv
<1>4. CASE EngInit!Reinit("Init") \/ EngInit!Reinit("Up")
  BY <1>4, EngReinitInv
<1> QED
  BY <1>1, <1>2, <1>3, <1>4, EngInitInv, EngAgpsInitInv, EngProcOpenInv,
    EngReinitSendInv,
     EngProcSetInv, EngProcEnableInv, EngProcServerInv, EngCrashInv,
       EngEngineUpInv DEF EngInit!Next

LEMMA EngInvSettings == EngIInv => EngInit!SettingsReachModem
<1> SUFFICES ASSUME EngIInv, EngInit!Quiet
             PROVE  /\ client = "open" /\ service.settings = EngKept
                    /\ untold \/ enabled = agpsStatus
  BY DEF EngIInv, EngInit!SettingsReachModem, EngKept
<1>1. adapter /\ initq = <<>> /\ sending.by = "none" /\ service.up /\ Len(initq) = 0
  BY DEF EngInit!Quiet
<1>2. ~EngReads(initq) /\ \A c, a : ~EngSettingComing(initq, c, a)
  BY <1>1 DEF EngReads, EngSettingComing
<1>3. \A v, k, t : ~EngLastEnable(initq, v) /\ ~EngBefore(initq, k, t)
  BY <1>1 DEF EngLastEnable, EngBefore
<1> QED
  BY <1>1, <1>2, <1>3
  DEF EngIInv, EngClientComing, EngSettingsComing, EngEnableComing, EngOpenBy

-----------------------------------------------------------------------------
(* DmnConn, for any daemons, size of a pipe, number of records and of       *)
(* restarts of the modem.                                                   *)

LEMMA DmnBounds ==
    /\ PipeSize \in Nat /\ MaxRecords \in Nat /\ MaxEngineUps \in Nat
    /\ IsFiniteSet(WifiDaemons) /\ "gpsone" \notin WifiDaemons
    /\ "server" \notin WifiDaemons /\ "gpsone" # "server"
BY BringUpAssumption

(* The records on their way, oldest first.                                  *)
DmnWay == dmnq \o server_q

DmnRequest(d) == [from |-> d, ask |-> TRUE]
DmnRelease(d) == [from |-> d, ask |-> FALSE]

DmnOnWay(q, r) == \E i \in 1..Len(q) : q[i] = r

(* A daemon has at most one release and one request on their way, in this   *)
(* order.                                                                   *)
DmnOnce(q) == \A i, j \in 1..Len(q) : q[i] = q[j] => i = j

DmnInOrder(q) ==
    \A d \in Dmn!Daemons : \A i, j \in 1..Len(q) :
        q[i] = DmnRelease(d) /\ q[j] = DmnRequest(d) => i < j

(* Answers that wait to be read.                                            *)
DmnNothing  == <<>>
DmnGranted  == <<"REQUEST_SUCCESS">>
DmnReleased == <<"RELEASE_SUCCESS">>
DmnDenied   == <<"FAILURE">>
DmnLost     == <<"REQUEST_SUCCESS", "RELEASE_SUCCESS">>

(* A daemon that is at k, with answers a to read and a connection of status *)
(* s, a request or a release on its way and an open pipe or not.            *)
DmnTale(k, a, s, request, release, open) ==
    /\ k = "idle" => a = DmnNothing /\ s = "idle" /\ ~request
    /\ k = "asked" =>
          /\ a \in {DmnNothing, DmnGranted, DmnLost, DmnDenied} /\ s # "closing"
          /\ request \/ release => a = DmnNothing /\ s = "idle"
          /\ a = DmnNothing /\ open => s \in {"idle", "waiting"}
          /\ a = DmnGranted => s \in {"granted", "idle"}
          /\ a \in {DmnLost, DmnDenied} => s = "idle"
    /\ k = "has" =>
          /\ ~request /\ ~release
          /\ \/ a = DmnNothing /\ s \in {"granted", "idle"}
             \/ a = DmnReleased /\ s = "idle"
    /\ k = "releasing" =>
          /\ ~request
          /\ \/ a = DmnReleased /\ s = "idle"
             \/ a = DmnNothing /\ s \in {"granted", "idle"}
             \/ a = DmnNothing /\ ~release /\ s = "closing"

(* ... of which nothing was lost.                                           *)
DmnSure(k, a, s, request, release) ==
    /\ k = "asked" =>
          /\ request \/ a # DmnNothing \/ s = "waiting"
          /\ a = DmnGranted => s = "granted"
    /\ k = "has" /\ a = DmnNothing => s = "granted"
    /\ k = "releasing" /\ a = DmnNothing =>
          (release /\ s = "granted") \/ s = "closing"

DmnOpen(d) == msgqid[d] = "open"

DmnTaleOf(d) ==
    DmnTale(daemon[d], answers[d], Dmn!Status(d), DmnOnWay(DmnWay, DmnRequest(d)),
         DmnOnWay(DmnWay, DmnRelease(d)), DmnOpen(d))

DmnTales == \A d \in Dmn!Daemons : DmnTaleOf(d)

DmnUntroubled(d) == calm /\ (d = "gpsone" => engineUps = 0)

DmnSureOf(d) ==
    DmnUntroubled(d) => DmnSure(daemon[d], answers[d], Dmn!Status(d),
      DmnOnWay(DmnWay, DmnRequest(d)),
                          DmnOnWay(DmnWay, DmnRelease(d)))

DmnSureTales == \A d \in Dmn!Daemons : DmnSureOf(d)

DmnOneWifi ==
    \A d, e \in WifiDaemons : wifi[d] # "idle" /\ wifi[e] # "idle" => d = e

(* The launch, and what needs the loop.                                     *)
DmnLaunching ==
    /\ launch = "start" => thread = "none"
    /\ thread_ready => thread = "loop"
    /\ launch = "waiting" => ~thread_ready
    /\ calm /\ launch = "returned" => thread_ready
    /\ thread \in {"ready", "loop"} =>
          \A p \in Dmn!Daemons \cup {"server"} : msgqid[p] # "unset"
    /\ calm => \A p \in Dmn!Daemons \cup {"server"} : msgqid[p] # "failed"

DmnLooping ==
    /\ dmnq # <<>> => thread = "loop"
    /\ \A d \in Dmn!Daemons : Dmn!Status(d) # "idle" => thread = "loop"

DmnIInv ==
    /\ Dmn!TypeOK /\ misled = {}
    /\ DmnOnce(DmnWay) /\ DmnInOrder(DmnWay)
    /\ DmnTales /\ DmnSureTales /\ DmnOneWifi /\ DmnLaunching /\ DmnLooping

-----------------------------------------------------------------------------
(* Records on their way.                                                    *)
LEMMA DmnWayAppended ==
    ASSUME NEW q \in Seq(Dmn!Records), NEW r \in Dmn!Records, DmnOnce(q),
             DmnInOrder(q), ~DmnOnWay(q, r),
           \A d \in Dmn!Daemons : r = DmnRelease(d) => ~DmnOnWay(q, DmnRequest(d))
    PROVE  /\ Append(q, r) \in Seq(Dmn!Records) /\ DmnOnce(Append(q, r))
                 /\ DmnInOrder(Append(q, r))
           /\ \A x : DmnOnWay(Append(q, r), x) <=> DmnOnWay(q, x) \/ x = r
<1>1. /\ Append(q, r) \in Seq(Dmn!Records) /\ Len(q) \in Nat /\ Len(Append(q,
            r)) = Len(q) + 1
      /\ \A i \in 1..Len(q) : Append(q, r)[i] = q[i]
      /\ Append(q, r)[Len(q) + 1] = r
  BY AppendProperties, LenProperties
<1>2. ASSUME NEW i \in 1..Len(Append(q, r))
      PROVE  (i \in 1..Len(q) /\ Append(q, r)[i] = q[i])
                \/ (i = Len(q) + 1 /\ Append(q, r)[i] = r)
  BY <1>1
<1>3. 1..Len(q) \subseteq 1..Len(Append(q, r)) /\ Len(q) + 1 \in 1..Len(Append(q, r))
  BY <1>1
<1>4. ASSUME NEW x PROVE DmnOnWay(Append(q, r), x) <=> DmnOnWay(q, x) \/ x = r
  BY <1>1, <1>2, <1>3 DEF DmnOnWay
<1>5. DmnOnce(Append(q, r))
  BY <1>1, <1>2 DEF DmnOnce, DmnOnWay
<1>6. DmnInOrder(Append(q, r))
  <2> SUFFICES ASSUME NEW d \in Dmn!Daemons, NEW i \in 1..Len(Append(q, r)),
                      NEW j \in 1..Len(Append(q, r)),
                      Append(q, r)[i] = DmnRelease(d), Append(q, r)[j] = DmnRequest(d)
               PROVE  i < j
    BY DEF DmnInOrder
  <2>1. DmnRelease(d) # DmnRequest(d)
    BY DEF DmnRelease, DmnRequest
  <2>2. CASE j \in 1..Len(q)
    <3>1. q[j] = DmnRequest(d)
      BY <1>1, <2>2
    <3>2. DmnOnWay(q, DmnRequest(d))
      BY <2>2, <3>1 DEF DmnOnWay
    <3>3. i \in 1..Len(q) /\ q[i] = DmnRelease(d)
      BY <1>2, <3>2
    <3> QED
      BY <2>2, <3>1, <3>3 DEF DmnInOrder
  <2>3. CASE j = Len(q) + 1
    BY <1>1, <1>2, <2>1, <2>3
  <2> QED
    BY <1>2, <2>2, <2>3
<1> QED
  BY <1>1, <1>4, <1>5, <1>6

(* A queue r that q becomes when its record at k is dropped.                *)
DmnDropped(q, r, k) ==
    /\ Len(r) = Len(q) - 1
    /\ \A i \in 1..Len(r) : r[i] = IF i < k THEN q[i] ELSE q[i + 1]

LEMMA DmnWayDropped ==
    ASSUME NEW q \in Seq(Dmn!Records), NEW r \in Seq(Dmn!Records),
             NEW k \in 1..Len(q),
           DmnOnce(q), DmnInOrder(q), DmnDropped(q, r, k)
    PROVE  /\ DmnOnce(r) /\ DmnInOrder(r)
           /\ \A x : DmnOnWay(r, x) <=> DmnOnWay(q, x) /\ x # q[k]
<1> DEFINE at(i) == IF i < k THEN i ELSE i + 1
<1>1. /\ Len(q) \in Nat /\ Len(r) \in Nat /\ k \in Nat
      /\ Len(r) = Len(q) - 1
      /\ \A i \in 1..Len(r) : r[i] = IF i < k THEN q[i] ELSE q[i + 1]
  BY LenProperties DEF DmnDropped
<1>2. \A i \in 1..Len(r) : at(i) \in 1..Len(q) /\ r[i] = q[at(i)] /\ at(i) # k
  BY <1>1
<1>3. \A i, j \in 1..Len(r) : (at(i) = at(j) => i = j) /\ (at(i) < at(j) => i < j)
  BY <1>1
<1>4. ASSUME NEW j \in 1..Len(q), j # k
      PROVE  \E i \in 1..Len(r) : at(i) = j
  <2>1. CASE j < k
    BY <1>1, <2>1
  <2>2. CASE j > k
    <3>1. j - 1 \in 1..Len(r) /\ at(j - 1) = j
      BY <1>1, <2>2
    <3> QED
      BY <3>1
  <2> QED
    BY <1>1, <1>4, <2>1, <2>2
<1> HIDE DEF at
<1>5. ASSUME NEW x PROVE DmnOnWay(r, x) <=> DmnOnWay(q, x) /\ x # q[k]
  <2>1. ASSUME DmnOnWay(r, x) PROVE DmnOnWay(q, x) /\ x # q[k]
    BY <1>2, <2>1 DEF DmnOnWay, DmnOnce
  <2>2. ASSUME DmnOnWay(q, x), x # q[k] PROVE DmnOnWay(r, x)
    <3>1. PICK j \in 1..Len(q) : q[j] = x
      BY <2>2 DEF DmnOnWay
    <3>2. PICK i \in 1..Len(r) : at(i) = j
      BY <1>4, <2>2, <3>1
    <3> QED
      BY <1>2, <3>1, <3>2 DEF DmnOnWay
  <2> QED
    BY <2>1, <2>2
<1>6. DmnOnce(r)
  BY <1>2, <1>3 DEF DmnOnce
<1>7. DmnInOrder(r)
  <2> SUFFICES ASSUME NEW d \in Dmn!Daemons, NEW i \in 1..Len(r), NEW j \in 1..Len(r),
                      r[i] = DmnRelease(d), r[j] = DmnRequest(d)
               PROVE  i < j
    BY DEF DmnInOrder
  <2>1. /\ at(i) \in 1..Len(q) /\ at(j) \in 1..Len(q)
        /\ q[at(i)] = DmnRelease(d) /\ q[at(j)] = DmnRequest(d)
    BY <1>2
  <2>2. at(i) < at(j)
    BY <2>1 DEF DmnInOrder
  <2> QED
    BY <1>3, <2>2
<1> QED
  BY <1>5, <1>6, <1>7

(* The queue of messages m and the pipe s.                                  *)
LEMMA DmnWayIs ==
    ASSUME NEW m \in Seq(Dmn!Records), NEW s \in Seq(Dmn!Records)
    PROVE  /\ m \o s \in Seq(Dmn!Records) /\ Len(m) \in Nat /\ Len(s) \in Nat
           /\ Len(m \o s) = Len(m) + Len(s)
           /\ \A i \in 1..Len(m) + Len(s) :
                 (m \o s)[i] = IF i <= Len(m) THEN m[i] ELSE s[i - Len(m)]
BY ConcatProperties, LenProperties

LEMMA DmnTailIs ==
    ASSUME NEW s \in Seq(Dmn!Records), s # <<>>
    PROVE  /\ Tail(s) \in Seq(Dmn!Records) /\ Head(s) \in Dmn!Records
                 /\ Head(s) = s[1]
           /\ Len(s) \in Nat /\ Len(s) >= 1 /\ Len(Tail(s)) = Len(s) - 1
           /\ \A i \in 1..Len(Tail(s)) : Tail(s)[i] = s[i + 1]
BY HeadTailProperties, EmptySeq

LEMMA DmnWayReceived ==
    ASSUME NEW m \in Seq(Dmn!Records), NEW s \in Seq(Dmn!Records), s # <<>>
    PROVE  Append(m, Head(s)) \o Tail(s) = m \o s /\ Append(m,
             Head(s)) \in Seq(Dmn!Records)
<1>1. /\ Tail(s) \in Seq(Dmn!Records) /\ Head(s) \in Dmn!Records /\ Head(s) = s[1]
      /\ Len(s) \in Nat /\ Len(s) >= 1 /\ Len(Tail(s)) = Len(s) - 1
      /\ \A i \in 1..Len(Tail(s)) : Tail(s)[i] = s[i + 1]
  BY DmnTailIs
<1>2. /\ Append(m, Head(s)) \in Seq(Dmn!Records) /\ Len(m) \in Nat
      /\ Len(Append(m, Head(s))) = Len(m) + 1
      /\ \A i \in 1..Len(m) : Append(m, Head(s))[i] = m[i]
      /\ Append(m, Head(s))[Len(m) + 1] = s[1]
  BY <1>1, AppendProperties, LenProperties
<1> DEFINE l == Append(m, Head(s)) \o Tail(s)
<1>3. /\ l \in Seq(Dmn!Records) /\ Len(l) = Len(m) + Len(s)
      /\ \A i \in 1..Len(m) + Len(s) :
            l[i] = IF i <= Len(m) + 1 THEN Append(m,
              Head(s))[i] ELSE Tail(s)[i - (Len(m) + 1)]
  BY <1>1, <1>2, DmnWayIs
<1>4. m \o s \in Seq(Dmn!Records) /\ Len(m \o s) = Len(m) + Len(s)
      /\ \A i \in 1..Len(m) + Len(s) :
            (m \o s)[i] = IF i <= Len(m) THEN m[i] ELSE s[i - Len(m)]
  BY DmnWayIs
<1>5. ASSUME NEW i \in 1..Len(l) PROVE l[i] = (m \o s)[i]
  <2>1. CASE i <= Len(m)
    BY <1>2, <1>3, <1>4, <2>1
  <2>2. CASE i = Len(m) + 1
    <3>1. i - Len(m) = 1 /\ ~(i <= Len(m)) /\ i <= Len(m) + 1
      BY <1>2, <2>2
    <3> QED
      BY <1>2, <1>3, <1>4, <2>2, <3>1
  <2>3. CASE i > Len(m) + 1
    <3>1. /\ i - (Len(m) + 1) \in 1..Len(Tail(s))
                /\ (i - (Len(m) + 1)) + 1 = i - Len(m)
          /\ ~(i <= Len(m)) /\ ~(i <= Len(m) + 1)
      BY <1>1, <1>2, <1>3, <2>3
    <3> QED
      BY <1>1, <1>3, <1>4, <3>1
  <2> QED
    BY <1>2, <1>3, <2>1, <2>2, <2>3
<1>6. l = m \o s
  BY <1>3, <1>4, <1>5, SeqEqual
<1> QED
  BY <1>2, <1>6

LEMMA DmnWayTaken ==
    ASSUME NEW m \in Seq(Dmn!Records), NEW s \in Seq(Dmn!Records), m # <<>>,
           DmnOnce(m \o s), DmnInOrder(m \o s)
    PROVE  /\ DmnOnce(Tail(m) \o s) /\ DmnInOrder(Tail(m) \o s)
                 /\ Head(m) \in Dmn!Records
           /\ Tail(m) \in Seq(Dmn!Records)
           /\ \A x : DmnOnWay(Tail(m) \o s, x) <=> DmnOnWay(m \o s, x) /\ x # Head(m)
           /\ DmnOnWay(m \o s, Head(m))
           /\ \A d \in Dmn!Daemons : Head(m) = DmnRequest(d) => ~DmnOnWay(m \o s,
                 DmnRelease(d))
<1>1. /\ Tail(m) \in Seq(Dmn!Records) /\ Head(m) \in Dmn!Records /\ Head(m) = m[1]
      /\ Len(m) \in Nat /\ Len(m) >= 1 /\ Len(Tail(m)) = Len(m) - 1
      /\ \A i \in 1..Len(Tail(m)) : Tail(m)[i] = m[i + 1]
  BY DmnTailIs
<1> DEFINE q == m \o s
           r == Tail(m) \o s
<1>2. /\ q \in Seq(Dmn!Records) /\ Len(q) = Len(m) + Len(s) /\ Len(s) \in Nat
      /\ \A i \in 1..Len(m) + Len(s) : q[i] = IF i <= Len(m) THEN m[i] ELSE s[i - Len(m)]
  BY DmnWayIs
<1>3. /\ r \in Seq(Dmn!Records) /\ Len(r) = Len(Tail(m)) + Len(s)
      /\ \A i \in 1..Len(Tail(m)) + Len(s) :
            r[i] = IF i <= Len(Tail(m)) THEN Tail(m)[i] ELSE s[i - Len(Tail(m))]
  BY <1>1, DmnWayIs
<1>4. ASSUME NEW i \in 1..Len(r) PROVE r[i] = q[i + 1]
  <2>1. i + 1 \in 1..Len(m) + Len(s) /\ i \in 1..Len(Tail(m)) + Len(s)
    BY <1>1, <1>2, <1>3
  <2>2. CASE i <= Len(Tail(m))
    BY <1>1, <1>2, <1>3, <2>1, <2>2
  <2>3. CASE ~(i <= Len(Tail(m)))
    <3>1. ~(i + 1 <= Len(m)) /\ (i + 1) - Len(m) = i - Len(Tail(m))
      BY <1>1, <2>3
    <3> QED
      BY <1>2, <1>3, <2>1, <2>3, <3>1
  <2> QED
    BY <2>2, <2>3
<1>5. 1 \in 1..Len(q) /\ Len(r) = Len(q) - 1 /\ q[1] = Head(m)
  BY <1>1, <1>2, <1>3
<1>6. DmnOnce(q) /\ DmnInOrder(q)
  OBVIOUS
<1> HIDE DEF q, r
<1>7. DmnDropped(q, r, 1)
  <2>1. \A i \in 1..Len(r) : ~(i < 1)
    BY <1>1, <1>2, <1>3
  <2> QED
    BY <1>4, <1>5, <2>1 DEF DmnDropped
<1>8. DmnOnce(r) /\ DmnInOrder(r) /\ \A x : DmnOnWay(r, x) <=> DmnOnWay(q, x)
        /\ x # q[1]
  BY <1>2, <1>3, <1>5, <1>6, <1>7, DmnWayDropped, Zenon
<1>9. DmnOnWay(q, Head(m))
  BY <1>5 DEF DmnOnWay
<1>10. ASSUME NEW d \in Dmn!Daemons, Head(m) = DmnRequest(d), DmnOnWay(q,
                DmnRelease(d)) PROVE FALSE
  <2>1. PICK i \in 1..Len(q) : q[i] = DmnRelease(d)
    BY <1>10 DEF DmnOnWay
  <2>2. i < 1
    BY <1>5, <1>6, <1>10, <2>1 DEF DmnInOrder
  <2> QED
    BY <1>1, <1>2, <2>2
<1> QED
  BY <1>1, <1>5, <1>8, <1>9, <1>10 DEF q, r

(* A record that is read in part is lost.                                   *)
LEMMA DmnWayLost ==
    ASSUME NEW m \in Seq(Dmn!Records), NEW s \in Seq(Dmn!Records), s # <<>>,
           DmnOnce(m \o s), DmnInOrder(m \o s)
    PROVE  /\ DmnOnce(m \o Tail(s)) /\ DmnInOrder(m \o Tail(s))
                 /\ Tail(s) \in Seq(Dmn!Records)
           /\ \A x : DmnOnWay(m \o Tail(s), x) => DmnOnWay(m \o s, x)
<1>1. /\ Tail(s) \in Seq(Dmn!Records)
      /\ Len(s) \in Nat /\ Len(s) >= 1 /\ Len(Tail(s)) = Len(s) - 1
      /\ \A i \in 1..Len(Tail(s)) : Tail(s)[i] = s[i + 1]
  BY DmnTailIs
<1> DEFINE q == m \o s
           r == m \o Tail(s)
           k == Len(m) + 1
<1>2. /\ q \in Seq(Dmn!Records) /\ Len(q) = Len(m) + Len(s) /\ Len(m) \in Nat
      /\ \A i \in 1..Len(m) + Len(s) : q[i] = IF i <= Len(m) THEN m[i] ELSE s[i - Len(m)]
  BY DmnWayIs
<1>3. /\ r \in Seq(Dmn!Records) /\ Len(r) = Len(m) + Len(Tail(s))
      /\ \A i \in 1..Len(m) + Len(Tail(s)) :
            r[i] = IF i <= Len(m) THEN m[i] ELSE Tail(s)[i - Len(m)]
  BY <1>1, DmnWayIs
<1>4. ASSUME NEW i \in 1..Len(r) PROVE r[i] = IF i < k THEN q[i] ELSE q[i + 1]
  <2>1. /\ i + 1 \in 1..Len(m) + Len(s) /\ i \in 1..Len(m) + Len(Tail(s))
        /\ i \in 1..Len(m) + Len(s) /\ (i < k <=> i <= Len(m))
    BY <1>1, <1>2, <1>3
  <2>2. CASE i <= Len(m)
    BY <1>2, <1>3, <2>1, <2>2
  <2>3. CASE ~(i <= Len(m))
    <3>1. /\ ~(i + 1 <= Len(m)) /\ (i + 1) - Len(m) = (i - Len(m)) + 1
          /\ i - Len(m) \in 1..Len(Tail(s))
      BY <1>1, <1>2, <2>1, <2>3
    <3> QED
      BY <1>1, <1>2, <1>3, <2>1, <2>3, <3>1
  <2> QED
    BY <2>2, <2>3
<1>5. k \in 1..Len(q) /\ Len(r) = Len(q) - 1
  BY <1>1, <1>2, <1>3
<1>6. DmnOnce(q) /\ DmnInOrder(q)
  OBVIOUS
<1> HIDE DEF q, r, k
<1>t. DmnDropped(q, r, k)
  BY <1>4, <1>5 DEF DmnDropped
<1>7. DmnOnce(r) /\ DmnInOrder(r) /\ \A x : DmnOnWay(r, x) <=> DmnOnWay(q, x)
        /\ x # q[k]
  BY <1>2, <1>3, <1>5, <1>6, <1>t, DmnWayDropped, Zenon
<1> QED
  BY <1>1, <1>7 DEF q, r

LEMMA DmnWayWritten ==
    ASSUME NEW m \in Seq(Dmn!Records), NEW s \in Seq(Dmn!Records),
             NEW r \in Dmn!Records
    PROVE  m \o Append(s, r) = Append(m \o s, r) /\ Append(s, r) \in Seq(Dmn!Records)
<1>1. <<r>> \in Seq(Dmn!Records) /\ m \o s \in Seq(Dmn!Records) /\ Append(s,
        r) \in Seq(Dmn!Records)
  BY DmnWayIs, AppendProperties
<1>2. Append(s, r) = s \o <<r>> /\ Append(m \o s, r) = (m \o s) \o <<r>>
  BY <1>1, AppendIsConcat
<1>3. (m \o s) \o <<r>> = m \o (s \o <<r>>)
  BY <1>1, ConcatAssociative
<1> QED
  BY <1>1, <1>2, <1>3

(* Answers that wait.                                                       *)
LEMMA DmnAnswerAdded ==
    ASSUME NEW a \in Seq(Dmn!Answers), NEW w \in Dmn!Answers
    PROVE  /\ Append(a, w) \in Seq(Dmn!Answers) /\ Len(Append(a, w)) = Len(a) + 1
           /\ \A i \in 1..Len(a) : Append(a, w)[i] = a[i]
           /\ Append(a, w)[Len(a) + 1] = w
BY AppendProperties

LEMMA DmnAnswersAre ==
    /\ Append(DmnNothing, "REQUEST_SUCCESS") = DmnGranted
    /\ Append(DmnNothing, "RELEASE_SUCCESS") = DmnReleased
    /\ Append(DmnNothing, "FAILURE") = DmnDenied
    /\ Append(DmnGranted, "RELEASE_SUCCESS") = DmnLost
    /\ Head(DmnGranted) = "REQUEST_SUCCESS" /\ Tail(DmnGranted) = DmnNothing
    /\ Head(DmnLost) = "REQUEST_SUCCESS" /\ Tail(DmnLost) = DmnReleased
    /\ Head(DmnReleased) = "RELEASE_SUCCESS" /\ Tail(DmnReleased) = DmnNothing
    /\ Head(DmnDenied) = "FAILURE" /\ Tail(DmnDenied) = DmnNothing
    /\ {DmnNothing, DmnGranted, DmnReleased, DmnDenied,
          DmnLost} \subseteq Seq(Dmn!Answers)
    /\ DmnGranted # DmnNothing /\ DmnReleased # DmnNothing
          /\ DmnDenied # DmnNothing /\ DmnLost # DmnNothing
    /\ DmnGranted # DmnReleased /\ DmnGranted # DmnDenied /\ DmnGranted # DmnLost
    /\ DmnReleased # DmnDenied /\ DmnReleased # DmnLost /\ DmnDenied # DmnLost
<1>1. /\ Append(DmnNothing, "REQUEST_SUCCESS") = DmnGranted
      /\ Append(DmnNothing, "RELEASE_SUCCESS") = DmnReleased
      /\ Append(DmnNothing, "FAILURE") = DmnDenied
  BY DEF DmnNothing, DmnGranted, DmnReleased, DmnDenied
<1>5. Append(DmnGranted, "RELEASE_SUCCESS") = DmnLost
  <2>1. /\ DmnGranted \in Seq(Dmn!Answers) /\ Len(DmnGranted) = 1
        /\ DmnGranted[1] = "REQUEST_SUCCESS" /\ "RELEASE_SUCCESS" \in Dmn!Answers
    BY DEF DmnGranted, Dmn!Answers
  <2> DEFINE l == Append(DmnGranted, "RELEASE_SUCCESS")
  <2>2. /\ l \in Seq(Dmn!Answers) /\ Len(l) = 2
        /\ l[1] = "REQUEST_SUCCESS" /\ l[2] = "RELEASE_SUCCESS"
    <3>1. /\ l \in Seq(Dmn!Answers) /\ Len(l) = Len(DmnGranted) + 1
          /\ \A i \in 1..Len(DmnGranted) : l[i] = DmnGranted[i]
          /\ l[Len(DmnGranted) + 1] = "RELEASE_SUCCESS"
      BY <2>1, DmnAnswerAdded, Zenon
    <3> HIDE DEF l
    <3> QED
      BY <2>1, <3>1
  <2>3. /\ DmnLost \in Seq(Dmn!Answers) /\ Len(DmnLost) = 2
        /\ DmnLost[1] = "REQUEST_SUCCESS" /\ DmnLost[2] = "RELEASE_SUCCESS"
    BY DEF DmnLost, Dmn!Answers
  <2> HIDE DEF l
  <2>4. \A i \in 1..Len(l) : l[i] = DmnLost[i]
    BY <2>2, <2>3
  <2>5. l = DmnLost
    BY <2>2, <2>3, <2>4, SeqEqual
  <2> QED
    BY <2>5 DEF l
<1>2. /\ Head(DmnGranted) = "REQUEST_SUCCESS" /\ Tail(DmnGranted) = DmnNothing
      /\ Head(DmnLost) = "REQUEST_SUCCESS" /\ Tail(DmnLost) = DmnReleased
      /\ Head(DmnReleased) = "RELEASE_SUCCESS" /\ Tail(DmnReleased) = DmnNothing
      /\ Head(DmnDenied) = "FAILURE" /\ Tail(DmnDenied) = DmnNothing
  BY DEF DmnNothing, DmnGranted, DmnReleased, DmnDenied, DmnLost
<1>3. {DmnNothing, DmnGranted, DmnReleased, DmnDenied,
        DmnLost} \subseteq Seq(Dmn!Answers)
  BY DEF DmnNothing, DmnGranted, DmnReleased, DmnDenied, DmnLost, Dmn!Answers
<1>4. /\ DmnGranted # DmnNothing /\ DmnReleased # DmnNothing
            /\ DmnDenied # DmnNothing /\ DmnLost # DmnNothing
      /\ DmnGranted # DmnReleased /\ DmnGranted # DmnDenied /\ DmnGranted # DmnLost
      /\ DmnReleased # DmnDenied /\ DmnReleased # DmnLost /\ DmnDenied # DmnLost
  BY DEF DmnNothing, DmnGranted, DmnReleased, DmnDenied, DmnLost
<1> QED
  BY <1>1, <1>2, <1>3, <1>4, <1>5

(* Every pipe is in the list of those that are opened.                      *)
LEMMA DmnAllPipes ==
    /\ Dmn!Pipes \in Seq(Dmn!Daemons \cup {"server"}) /\ Len(Dmn!Pipes) \in Nat
    /\ \A p \in Dmn!Daemons \cup {"server"} : \E i \in 1..Len(Dmn!Pipes) : Dmn!Pipes[i] = p
<1> DEFINE n == Cardinality(WifiDaemons)
           f == Dmn!SetToSeq(WifiDaemons)
<1>1. n \in Nat /\ ExistsBijection(1..n, WifiDaemons)
  BY DmnBounds, FS_CardinalityType
<1>2. f \in Injection(1..n, WifiDaemons)
  <2>1. \E g \in [1..n -> WifiDaemons] : IsInjective(g)
    BY <1>1 DEF ExistsBijection, Bijection, Injection
  <2>2. f = CHOOSE g \in [1..n -> WifiDaemons] : IsInjective(g)
    BY Zenon DEF Dmn!SetToSeq, Dmn!IsInjective, IsInjective, Dmn!Cardinality,
      Cardinality
  <2> QED
    BY <2>1, <2>2 DEF Injection
<1>3. IsFiniteSet(1..n) /\ Cardinality(1..n) = n
  BY <1>1, FS_Interval
<1>4. f \in Surjection(1..n, WifiDaemons)
  BY <1>2, <1>3, DmnBounds, FS_Injection
<1>5. f \in Seq(WifiDaemons) /\ Len(f) = n
        /\ \A d \in WifiDaemons : \E i \in 1..n : f[i] = d
  <2>1. f \in [1..n -> WifiDaemons]
    BY <1>4 DEF Surjection
  <2>2. f \in Seq(WifiDaemons)
    BY <1>1, <2>1, SeqDef
  <2> QED
    BY <1>1, <1>4, <2>1, <2>2, LenProperties DEF Surjection
<1> HIDE DEF n, f
<1> DEFINE P == Dmn!Daemons \cup {"server"}
<1>6. <<"server", "gpsone">> \in Seq(P) /\ Len(<<"server", "gpsone">>) = 2
      /\ f \in Seq(P)
  <2>1. WifiDaemons \subseteq P /\ "server" \in P /\ "gpsone" \in P
    BY DEF Dmn!Daemons
  <2>2. f \in Seq(P)
    BY <1>5, <2>1, SeqMonotonic
  <2> QED
    BY <2>1, <2>2
<1>7. Dmn!Pipes = <<"server", "gpsone">> \o f
  BY DEF Dmn!Pipes, f
<1>8. /\ Dmn!Pipes \in Seq(P) /\ Len(Dmn!Pipes) = 2 + n
      /\ \A i \in 1..2 + n : Dmn!Pipes[i] =
            IF i <= 2 THEN <<"server", "gpsone">>[i] ELSE f[i - 2]
  BY <1>5, <1>6, <1>7, ConcatProperties
<1>9. ASSUME NEW p \in P PROVE \E i \in 1..Len(Dmn!Pipes) : Dmn!Pipes[i] = p
  <2>1. CASE p = "server"
    <3>1. 1 \in 1..2 + n /\ Dmn!Pipes[1] = "server"
      BY <1>1, <1>8
    <3> QED
      BY <1>8, <2>1, <3>1
  <2>2. CASE p = "gpsone"
    <3>1. 2 \in 1..2 + n /\ Dmn!Pipes[2] = "gpsone"
      BY <1>1, <1>8
    <3> QED
      BY <1>8, <2>2, <3>1
  <2>3. CASE p \in WifiDaemons
    <3>1. PICK i \in 1..n : f[i] = p
      BY <1>5, <2>3
    <3>2. i + 2 \in 1..2 + n /\ ~(i + 2 <= 2) /\ (i + 2) - 2 = i
      BY <1>1
    <3> QED
      BY <1>8, <3>1, <3>2
  <2> QED
    BY <2>1, <2>2, <2>3 DEF Dmn!Daemons
<1> QED
  BY <1>1, <1>8, <1>9

-----------------------------------------------------------------------------
(* What a step that leaves something alone keeps.                           *)
LEMMA DmnTaleKept ==
    ASSUME NEW d \in Dmn!Daemons, DmnTaleOf(d), DmnSureOf(d),
           daemon'[d] = daemon[d], answers'[d] = answers[d],
             Dmn!Status(d)' = Dmn!Status(d),
           UNCHANGED <<msgqid, calm, engineUps>>,
           DmnOnWay(DmnWay', DmnRequest(d)) <=> DmnOnWay(DmnWay, DmnRequest(d)),
           DmnOnWay(DmnWay', DmnRelease(d)) <=> DmnOnWay(DmnWay, DmnRelease(d))
    PROVE  DmnTaleOf(d)' /\ DmnSureOf(d)'
<1>1. DmnTaleOf(d)'
  BY DEF DmnTaleOf, DmnTale, DmnOpen, DmnRequest, DmnRelease
<1>2. DmnSureOf(d)'
  BY DEF DmnSureOf, DmnSure, DmnUntroubled, DmnRequest, DmnRelease
<1> QED
  BY <1>1, <1>2

LEMMA DmnQueuesKept ==
    ASSUME DmnIInv, UNCHANGED <<dmnq, server_q>>
    PROVE  /\ DmnWay' = DmnWay /\ DmnOnce(DmnWay)' /\ DmnInOrder(DmnWay)'
           /\ dmnq' \in Seq(Dmn!Records) /\ server_q' \in Seq(Dmn!Records)
<1>1. DmnWay' = DmnWay
  BY DEF DmnWay
<1> QED
  BY <1>1 DEF DmnIInv, Dmn!TypeOK, DmnOnce, DmnInOrder, DmnRequest, DmnRelease

LEMMA DmnTalesKept ==
    ASSUME DmnIInv,
           UNCHANGED <<calm, msgqid, server_q, dmnq, agnss, wifi, answers, daemon,
             engineUps>>
    PROVE  DmnTales' /\ DmnSureTales' /\ DmnOneWifi'
<1>1. DmnWay' = DmnWay
  BY DmnQueuesKept
<1>2. ASSUME NEW d \in Dmn!Daemons PROVE DmnTaleOf(d)' /\ DmnSureOf(d)'
  <2>1. DmnTaleOf(d) /\ DmnSureOf(d)
    BY DEF DmnIInv, DmnTales, DmnSureTales
  <2>2. Dmn!Status(d)' = Dmn!Status(d)
    BY DEF Dmn!Status
  <2> QED
    BY <1>1, <2>1, <2>2, DmnTaleKept
<1>3. DmnOneWifi'
  BY DEF DmnIInv, DmnOneWifi
<1> QED
  BY <1>2, <1>3 DEF DmnTales, DmnSureTales

(* A step of the hand-shake.                                                *)
LEMMA DmnHandShaken ==
    ASSUME DmnIInv,
           UNCHANGED <<calm, msgqid, Dmn!input, dmnq, Dmn!nifs, Dmn!world,
             engineUps>>,
           launch' \in {"start", "create", "waiting", "returned"},
           thread' \in {"none", "init", "ready", "loop"}, thread_ready' \in BOOLEAN,
           thread = "loop" => thread' = "loop", DmnLaunching'
    PROVE  DmnIInv'
<1>1. UNCHANGED <<calm, msgqid, server_q, misaligned, dmnq, agnss, wifi, answers,
        daemon,
                  written, misled, engineUps>>
  BY DEF Dmn!input, Dmn!nifs, Dmn!world
<1>2. DmnOnce(DmnWay)' /\ DmnInOrder(DmnWay)' /\ DmnTales' /\ DmnSureTales'
        /\ DmnOneWifi'
  BY <1>1, DmnQueuesKept, DmnTalesKept
<1>3. Dmn!TypeOK'
  BY <1>1 DEF DmnIInv, Dmn!TypeOK
<1>4. DmnLooping'
  BY <1>1 DEF DmnIInv, DmnLooping, Dmn!Status
<1> QED
  BY <1>1, <1>2, <1>3, <1>4 DEF DmnIInv

LEMMA DmnLaunchInv ==
    ASSUME DmnIInv, Dmn!Launch
    PROVE  DmnIInv'
<1>1. DmnLaunching' /\ thread # "loop"
  BY DEF Dmn!Launch, DmnIInv, DmnLaunching
<1> QED
  BY <1>1, DmnHandShaken DEF Dmn!Launch

LEMMA DmnSignalWaitInv ==
    ASSUME DmnIInv, Dmn!SignalWait
    PROVE  DmnIInv'
<1>1. DmnLaunching'
  BY DEF Dmn!SignalWait, DmnIInv, DmnLaunching
<1>2. thread' \in {"none", "init", "ready", "loop"} /\ thread_ready' \in BOOLEAN
  BY DEF Dmn!SignalWait, DmnIInv, Dmn!TypeOK
<1> QED
  BY <1>1, <1>2, DmnHandShaken DEF Dmn!SignalWait

LEMMA DmnSpuriousWakeupInv ==
    ASSUME DmnIInv, Dmn!SpuriousWakeup
    PROVE  DmnIInv'
<1>1. DmnLaunching'
  BY DEF Dmn!SpuriousWakeup, DmnIInv, DmnLaunching
<1>2. thread' \in {"none", "init", "ready", "loop"} /\ thread_ready' \in BOOLEAN
  BY DEF Dmn!SpuriousWakeup, DmnIInv, Dmn!TypeOK
<1> QED
  BY <1>1, <1>2, DmnHandShaken DEF Dmn!SpuriousWakeup

LEMMA DmnSignalReadyInv ==
    ASSUME DmnIInv, Dmn!SignalReady
    PROVE  DmnIInv'
<1>1. DmnLaunching'
  BY DEF Dmn!SignalReady, DmnIInv, DmnLaunching, Dmn!TypeOK
<1>2. launch' \in {"start", "create", "waiting", "returned"}
  BY DEF Dmn!SignalReady, DmnIInv, Dmn!TypeOK
<1> QED
  BY <1>1, <1>2, DmnHandShaken DEF Dmn!SignalReady

LEMMA DmnOpenPipeInv ==
    ASSUME DmnIInv, Dmn!OpenPipe
    PROVE  DmnIInv'
<1>1. PICK i \in DOMAIN Dmn!Pipes :
          /\ \A j \in DOMAIN Dmn!Pipes : j < i <=> msgqid[Dmn!Pipes[j]] # "unset"
          /\ \/ msgqid' = [msgqid EXCEPT ![Dmn!Pipes[i]] = "open"]
             \/ ~calm /\ msgqid' = [msgqid EXCEPT ![Dmn!Pipes[i]] = "failed"]
          /\ thread' = IF i = Len(Dmn!Pipes) THEN "ready" ELSE "init"
  BY DEF Dmn!OpenPipe
<1>2. /\ thread = "init" /\ thread' \in {"init", "ready"}
      /\ UNCHANGED <<calm, launch, thread_ready, server_q, misaligned, dmnq, agnss,
            wifi,
                     answers, daemon, written, misled, engineUps>>
  BY <1>1 DEF Dmn!OpenPipe, Dmn!input, Dmn!nifs, Dmn!world
<1> DEFINE P == Dmn!Daemons \cup {"server"}
<1>3. Dmn!Pipes \in Seq(P) /\ Len(Dmn!Pipes) \in Nat
        /\ DOMAIN Dmn!Pipes = 1..Len(Dmn!Pipes)
  BY DmnAllPipes, LenProperties
<1>4. Dmn!Pipes[i] \in P /\ msgqid \in [P -> {"unset", "open", "failed"}]
  BY <1>3, ElementOfSeq DEF DmnIInv, Dmn!TypeOK
<1>5. /\ msgqid' \in [P -> {"unset", "open", "failed"}]
      /\ \A p \in P : p # Dmn!Pipes[i] => msgqid'[p] = msgqid[p]
      /\ msgqid'[Dmn!Pipes[i]] # "unset"
      /\ calm => msgqid'[Dmn!Pipes[i]] = "open"
  BY <1>1, <1>4
<1>6. Dmn!TypeOK'
  BY <1>2, <1>5 DEF DmnIInv, Dmn!TypeOK
<1>7. dmnq = <<>> /\ \A d \in Dmn!Daemons : Dmn!Status(d) = "idle"
  BY <1>2 DEF DmnIInv, DmnLooping
<1>8. DmnOnce(DmnWay)' /\ DmnInOrder(DmnWay)' /\ DmnWay' = DmnWay
  BY <1>2, DmnQueuesKept
<1>9. ASSUME NEW d \in Dmn!Daemons PROVE DmnTaleOf(d)' /\ DmnSureOf(d)'
  <2>1. DmnTaleOf(d) /\ DmnSureOf(d) /\ Dmn!Status(d) = "idle"
          /\ Dmn!Status(d)' = "idle"
    BY <1>2, <1>7 DEF DmnIInv, DmnTales, DmnSureTales, Dmn!Status
  <2>2. DmnTaleOf(d)'
    BY <1>2, <1>8, <2>1 DEF DmnTaleOf, DmnTale, DmnRequest, DmnRelease
  <2>3. DmnSureOf(d)'
    BY <1>2, <1>8, <2>1 DEF DmnSureOf, DmnSure, DmnUntroubled, DmnRequest, DmnRelease
  <2> QED
    BY <2>2, <2>3
<1>10. thread' = "ready" => \A p \in P : msgqid'[p] # "unset"
  <2> SUFFICES ASSUME thread' = "ready", NEW p \in P
               PROVE  msgqid'[p] # "unset"
    OBVIOUS
  <2>1. i = Len(Dmn!Pipes)
    BY <1>1
  <2>2. PICK j \in 1..Len(Dmn!Pipes) : Dmn!Pipes[j] = p
    BY DmnAllPipes
  <2>3. CASE j = i
    BY <1>5, <2>2, <2>3
  <2>4. CASE j # i
    <3>t. DOMAIN Dmn!Pipes = 1..Len(Dmn!Pipes) /\ Len(Dmn!Pipes) \in Nat
      BY <1>3
    <3>1. j < i /\ j \in DOMAIN Dmn!Pipes
      BY <2>1, <2>4, <3>t
    <3>2. msgqid[p] # "unset"
      BY <1>1, <2>2, <3>1
    <3> QED
      BY <1>5, <3>2
  <2> QED
    BY <2>3, <2>4
<1>11. DmnLaunching'
  <2>1. DmnLaunching /\ thread_ready \in BOOLEAN
    BY DEF DmnIInv, Dmn!TypeOK
  <2>2. ~thread_ready /\ launch # "start" /\ ~(calm /\ launch = "returned")
    BY <1>2, <2>1 DEF DmnLaunching
  <2>3. calm => \A p \in P : msgqid'[p] # "failed"
    BY <1>5, <2>1 DEF DmnLaunching
  <2> QED
    BY <1>2, <1>10, <2>2, <2>3 DEF DmnLaunching
<1>12. DmnLooping' /\ DmnOneWifi'
  BY <1>2, <1>7 DEF DmnIInv, DmnLooping, DmnOneWifi, Dmn!Status
<1> QED
  BY <1>2, <1>6, <1>8, <1>9, <1>11, <1>12 DEF DmnIInv, DmnTales, DmnSureTales

-----------------------------------------------------------------------------
(* The server thread.                                                       *)

(* A step that changes the queues alone.                                    *)
LEMMA DmnQueuesChanged ==
    ASSUME DmnIInv, UNCHANGED <<calm, Dmn!server, Dmn!nifs, Dmn!world, engineUps>>,
           dmnq' \in Seq(Dmn!Records), server_q' \in Seq(Dmn!Records),
             misaligned' \in BOOLEAN,
           thread = "loop", DmnOnce(DmnWay)', DmnInOrder(DmnWay)', DmnTales',
             DmnSureTales'
    PROVE  DmnIInv'
<1>1. UNCHANGED <<calm, launch, thread, thread_ready, msgqid, agnss, wifi, answers,
        daemon,
                  written, misled, engineUps>>
  BY DEF Dmn!server, Dmn!nifs, Dmn!world
<1>2. Dmn!TypeOK'
  BY <1>1 DEF DmnIInv, Dmn!TypeOK
<1>3. DmnOneWifi' /\ DmnLaunching' /\ DmnLooping'
  BY <1>1 DEF DmnIInv, DmnOneWifi, DmnLaunching, DmnLooping, Dmn!Status
<1> QED
  BY <1>1, <1>2, <1>3 DEF DmnIInv

LEMMA DmnReceiveInv ==
    ASSUME DmnIInv, Dmn!Receive
    PROVE  DmnIInv'
<1>1. /\ server_q # <<>> /\ server_q' = Tail(server_q)
      /\ dmnq' = Append(dmnq, Head(server_q)) /\ thread = "loop"
      /\ UNCHANGED <<calm, Dmn!server, misaligned, Dmn!nifs, Dmn!world, engineUps>>
  BY DEF Dmn!Receive, Dmn!Listening
<1>2. dmnq \in Seq(Dmn!Records) /\ server_q \in Seq(Dmn!Records)
        /\ misaligned \in BOOLEAN
  BY DEF DmnIInv, Dmn!TypeOK
<1>3. DmnWay' = DmnWay /\ dmnq' \in Seq(Dmn!Records) /\ server_q' \in Seq(Dmn!Records)
  <2>1. Append(dmnq, Head(server_q)) \o Tail(server_q) = dmnq \o server_q
    BY <1>1, <1>2, DmnWayReceived
  <2> QED
    BY <1>1, <1>2, <2>1, DmnWayReceived, DmnTailIs DEF DmnWay
<1>4. DmnOnce(DmnWay)' /\ DmnInOrder(DmnWay)'
  BY <1>3 DEF DmnIInv, DmnOnce, DmnInOrder, DmnRequest, DmnRelease
<1>5. UNCHANGED <<calm, msgqid, agnss, wifi, answers, daemon, engineUps>>
  BY <1>1 DEF Dmn!server, Dmn!nifs, Dmn!world
<1>6. ASSUME NEW d \in Dmn!Daemons PROVE DmnTaleOf(d)' /\ DmnSureOf(d)'
  <2>1. DmnTaleOf(d) /\ DmnSureOf(d)
    BY DEF DmnIInv, DmnTales, DmnSureTales
  <2>2. Dmn!Status(d)' = Dmn!Status(d)
    BY <1>5 DEF Dmn!Status
  <2> QED
    BY <1>3, <1>5, <2>1, <2>2, DmnTaleKept
<1>7. misaligned' \in BOOLEAN
  BY <1>1, <1>2
<1> QED
  BY <1>1, <1>3, <1>4, <1>6, <1>7, DmnQueuesChanged DEF DmnTales, DmnSureTales

(* Less is on its way: what a record in part costs.                         *)
LEMMA DmnReceivePartInv ==
    ASSUME DmnIInv, Dmn!ReceivePart
    PROVE  DmnIInv'
<1>1. /\ server_q # <<>> /\ server_q' = Tail(server_q) /\ ~calm
            /\ misaligned' \in BOOLEAN
      /\ thread = "loop"
      /\ UNCHANGED <<calm, Dmn!server, dmnq, Dmn!nifs, Dmn!world, engineUps>>
  BY DEF Dmn!ReceivePart, Dmn!Listening
<1>2. dmnq \in Seq(Dmn!Records) /\ server_q \in Seq(Dmn!Records)
        /\ DmnOnce(DmnWay) /\ DmnInOrder(DmnWay)
  BY DEF DmnIInv, Dmn!TypeOK
<1>3. DmnWay' = dmnq \o Tail(server_q)
  BY <1>1 DEF DmnWay
<1>4. /\ DmnOnce(DmnWay') /\ DmnInOrder(DmnWay') /\ server_q' \in Seq(Dmn!Records)
      /\ \A x : DmnOnWay(DmnWay', x) => DmnOnWay(DmnWay, x)
  BY <1>1, <1>2, <1>3, DmnWayLost, Zenon DEF DmnWay
<1>5. DmnOnce(DmnWay)' /\ DmnInOrder(DmnWay)'
  BY <1>4 DEF DmnOnce, DmnInOrder, DmnRequest, DmnRelease
<1>6. UNCHANGED <<msgqid, agnss, wifi, answers, daemon>>
  BY <1>1 DEF Dmn!server, Dmn!nifs, Dmn!world
<1>7. ASSUME NEW d \in Dmn!Daemons PROVE DmnTaleOf(d)'
  <2>1. DmnTaleOf(d) /\ Dmn!Status(d)' = Dmn!Status(d)
    BY <1>6 DEF DmnIInv, DmnTales, Dmn!Status
  <2>2. /\ DmnOnWay(DmnWay', DmnRequest(d)) => DmnOnWay(DmnWay, DmnRequest(d))
        /\ DmnOnWay(DmnWay', DmnRelease(d)) => DmnOnWay(DmnWay, DmnRelease(d))
    BY <1>4
  <2> QED
    BY <1>6, <2>1, <2>2 DEF DmnTaleOf, DmnTale, DmnOpen, DmnRequest, DmnRelease
<1>8. DmnSureTales'
  BY <1>1 DEF DmnSureTales, DmnSureOf, DmnUntroubled
<1>9. dmnq' \in Seq(Dmn!Records)
  BY <1>1, <1>2
<1> QED
  BY <1>1, <1>4, <1>5, <1>7, <1>8, <1>9, DmnQueuesChanged DEF DmnTales

-----------------------------------------------------------------------------
(* Answers.                                                                 *)
LEMMA DmnAnswerIs ==
    ASSUME Dmn!TypeOK, NEW who \in SUBSET Dmn!Daemons, NEW w \in Dmn!Answers,
             Dmn!Answer(who, Dmn!All(w))
    PROVE  /\ answers' \in [Dmn!Daemons -> Seq(Dmn!Answers)]
           /\ \A d \in Dmn!Daemons :
                 answers'[d] = IF d \in who /\ DmnOpen(d) THEN Append(answers[d], w)
                                                       ELSE answers[d]
           /\ UNCHANGED <<daemon, written, misled>>
<1>1. /\ answers' = [d \in Dmn!Daemons |-> IF d \in who /\ msgqid[d] = "open"
                                         THEN Append(answers[d],
                                           Dmn!All(w)[d]) ELSE answers[d]]
      /\ UNCHANGED <<daemon, written, misled>>
  BY DEF Dmn!Answer
<1>2. ASSUME NEW d \in Dmn!Daemons
      PROVE  /\ answers'[d] = IF d \in who /\ DmnOpen(d) THEN Append(answers[d], w)
                                                       ELSE answers[d]
             /\ answers'[d] \in Seq(Dmn!Answers)
  <2>1. Dmn!All(w)[d] = w
    BY DEF Dmn!All
  <2>2. answers[d] \in Seq(Dmn!Answers)
    BY DEF Dmn!TypeOK
  <2>3. Append(answers[d], w) \in Seq(Dmn!Answers)
    BY <2>2, DmnAnswerAdded
  <2>4. answers'[d] = IF d \in who /\ DmnOpen(d) THEN Append(answers[d],
          w) ELSE answers[d]
    BY <1>1, <2>1 DEF DmnOpen
  <2> QED
    BY <2>2, <2>3, <2>4
<1>3. answers' \in [Dmn!Daemons -> Seq(Dmn!Answers)]
  <2>1. \A d \in Dmn!Daemons : answers'[d] \in Seq(Dmn!Answers)
    BY <1>2
  <2> QED
    BY <1>1, <2>1
<1> QED
  BY <1>1, <1>2, <1>3

LEMMA DmnNobodyIs ==
    ASSUME Dmn!TypeOK, Dmn!Nobody
    PROVE  UNCHANGED <<answers, daemon, written, misled>>
<1>1. "FAILURE" \in Dmn!Answers /\ {} \in SUBSET Dmn!Daemons
  BY DEF Dmn!Answers
<1>2. /\ answers' \in [Dmn!Daemons -> Seq(Dmn!Answers)] /\ UNCHANGED <<daemon,
            written, misled>>
      /\ \A d \in Dmn!Daemons : answers'[d] = answers[d]
  BY <1>1, DmnAnswerIs DEF Dmn!Nobody
<1> QED
  BY <1>2 DEF Dmn!TypeOK

(* The pipes are open in a calm run once the thread loops.                  *)
LEMMA DmnSureOpen ==
    ASSUME DmnIInv, NEW d \in Dmn!Daemons, calm, thread = "loop"
    PROVE  DmnOpen(d)
<1>1. msgqid[d] # "unset" /\ msgqid[d] # "failed" /\ d \in Dmn!Daemons \cup {"server"}
  BY DEF DmnIInv, DmnLaunching
<1> QED
  BY <1>1 DEF DmnIInv, Dmn!TypeOK, DmnOpen

-----------------------------------------------------------------------------
(* The MsgTask thread: a message of a daemon's.                             *)

(* The rest of what a message says.                                         *)
LEMMA DmnHeadIs ==
    ASSUME DmnIInv, NEW ask \in BOOLEAN, Dmn!TakeMsg(ask)
    PROVE  /\ dmnq' = Tail(dmnq) /\ dmnq # <<>> /\ Head(dmnq).from \in Dmn!Daemons
           /\ Head(dmnq) = [from |-> Head(dmnq).from, ask |-> ask]
           /\ thread = "loop"
<1>1. dmnq # <<>> /\ Head(dmnq).ask = ask /\ dmnq' = Tail(dmnq)
        /\ dmnq \in Seq(Dmn!Records)
  BY DEF Dmn!TakeMsg, DmnIInv, Dmn!TypeOK
<1>2. Head(dmnq) \in Dmn!Records
  BY <1>1, DmnTailIs
<1>3. thread = "loop"
  BY <1>1 DEF DmnIInv, DmnLooping
<1> QED
  BY <1>1, <1>2, <1>3 DEF Dmn!Records

(* The message of daemon d is taken, and the others' affairs are left as    *)
(* they are.                                                                *)
LEMMA DmnServed ==
    ASSUME DmnIInv, NEW d \in Dmn!Daemons, NEW ask \in BOOLEAN, Dmn!TakeMsg(ask),
           Head(dmnq).from = d,
           UNCHANGED <<calm, Dmn!server, Dmn!input, engineUps, daemon, written,
             misled>>,
           answers' \in [Dmn!Daemons -> Seq(Dmn!Answers)],
           agnss' \in [{"gpsone"} -> Dmn!Agnss!Statuses],
           wifi' \in [WifiDaemons -> Dmn!Wifi!Statuses],
           \A e \in Dmn!Daemons : e # d => answers'[e] = answers[e]
             /\ Dmn!Status(e)' = Dmn!Status(e),
           DmnTaleOf(d)', DmnSureOf(d)', DmnOneWifi'
    PROVE  DmnIInv'
<1>1. /\ dmnq # <<>> /\ dmnq' = Tail(dmnq) /\ thread = "loop"
      /\ Head(dmnq) = [from |-> d, ask |-> ask]
  BY DmnHeadIs
<1>2. /\ UNCHANGED <<launch, thread, thread_ready, msgqid, server_q, misaligned>>
      /\ dmnq \in Seq(Dmn!Records) /\ server_q \in Seq(Dmn!Records)
  BY DEF Dmn!server, Dmn!input, DmnIInv, Dmn!TypeOK
<1>3. DmnWay' = Tail(dmnq) \o server_q
  BY <1>1, <1>2 DEF DmnWay
<1>4. /\ DmnOnce(DmnWay') /\ DmnInOrder(DmnWay') /\ dmnq' \in Seq(Dmn!Records)
      /\ \A x : DmnOnWay(DmnWay', x) <=> DmnOnWay(DmnWay, x) /\ x # Head(dmnq)
  <2>1. DmnOnce(dmnq \o server_q) /\ DmnInOrder(dmnq \o server_q)
    BY DEF DmnIInv, DmnWay
  <2> QED
    BY <1>1, <1>2, <1>3, <2>1, DmnWayTaken, Zenon DEF DmnWay
<1>5. DmnOnce(DmnWay)' /\ DmnInOrder(DmnWay)'
  BY <1>4 DEF DmnOnce, DmnInOrder, DmnRequest, DmnRelease
<1>6. ASSUME NEW e \in Dmn!Daemons, e # d PROVE DmnTaleOf(e)' /\ DmnSureOf(e)'
  <2>1. DmnRequest(e) # Head(dmnq) /\ DmnRelease(e) # Head(dmnq)
    BY <1>1, <1>6 DEF DmnRequest, DmnRelease
  <2>2. DmnTaleOf(e) /\ DmnSureOf(e)
    BY DEF DmnIInv, DmnTales, DmnSureTales
  <2>3. /\ DmnOnWay(DmnWay', DmnRequest(e)) <=> DmnOnWay(DmnWay, DmnRequest(e))
        /\ DmnOnWay(DmnWay', DmnRelease(e)) <=> DmnOnWay(DmnWay, DmnRelease(e))
    BY <1>4, <2>1
  <2> QED
    BY <1>2, <1>6, <2>2, <2>3, DmnTaleKept
<1>7. DmnTales' /\ DmnSureTales'
  BY <1>6 DEF DmnTales, DmnSureTales
<1>8. Dmn!TypeOK'
  BY <1>2, <1>4 DEF DmnIInv, Dmn!TypeOK
<1>9. DmnLaunching' /\ DmnLooping'
  BY <1>1, <1>2 DEF DmnIInv, DmnLaunching, DmnLooping
<1>10. misled' = {}
  BY DEF DmnIInv
<1> QED
  BY <1>5, <1>7, <1>8, <1>9, <1>10 DEF DmnIInv

(* What is on the way for d itself afterwards.                              *)
LEMMA DmnRequestTaken ==
    ASSUME DmnIInv, NEW d \in Dmn!Daemons, Dmn!TakeMsg(TRUE), Head(dmnq).from = d,
           UNCHANGED Dmn!input
    PROVE  /\ daemon[d] = "asked" /\ answers[d] = DmnNothing /\ Dmn!Status(d) = "idle"
           /\ ~DmnOnWay(DmnWay', DmnRequest(d)) /\ ~DmnOnWay(DmnWay', DmnRelease(d))
<1>1. /\ dmnq # <<>> /\ dmnq' = Tail(dmnq) /\ Head(dmnq) = DmnRequest(d)
  BY DmnHeadIs DEF DmnRequest
<1>2. /\ UNCHANGED server_q /\ dmnq \in Seq(Dmn!Records)
            /\ server_q \in Seq(Dmn!Records)
      /\ DmnOnce(dmnq \o server_q) /\ DmnInOrder(dmnq \o server_q)
  BY DEF Dmn!input, DmnIInv, Dmn!TypeOK, DmnWay
<1>3. /\ \A x : DmnOnWay(DmnWay', x) <=> DmnOnWay(DmnWay, x) /\ x # Head(dmnq)
      /\ DmnOnWay(DmnWay, Head(dmnq))
      /\ \A e \in Dmn!Daemons : Head(dmnq) = DmnRequest(e) => ~DmnOnWay(DmnWay,
            DmnRelease(e))
  <2>1. DmnWay' = Tail(dmnq) \o server_q
    BY <1>1, <1>2 DEF DmnWay
  <2> QED
    BY <1>1, <1>2, <2>1, DmnWayTaken, Zenon DEF DmnWay
<1>4. DmnOnWay(DmnWay, DmnRequest(d)) /\ ~DmnOnWay(DmnWay', DmnRequest(d))
        /\ ~DmnOnWay(DmnWay', DmnRelease(d))
  BY <1>1, <1>3
<1>5. DmnTaleOf(d) /\ daemon[d] \in {"idle", "asked", "has", "releasing"}
  BY DEF DmnIInv, DmnTales, Dmn!TypeOK
<1> QED
  BY <1>4, <1>5 DEF DmnTaleOf, DmnTale

LEMMA DmnReleaseTaken ==
    ASSUME DmnIInv, NEW d \in Dmn!Daemons, Dmn!TakeMsg(FALSE), Head(dmnq).from = d,
           UNCHANGED Dmn!input
    PROVE  /\ DmnOnWay(DmnWay, DmnRelease(d)) /\ ~DmnOnWay(DmnWay', DmnRelease(d))
           /\ DmnOnWay(DmnWay', DmnRequest(d)) <=> DmnOnWay(DmnWay, DmnRequest(d))
<1>1. /\ dmnq # <<>> /\ dmnq' = Tail(dmnq) /\ Head(dmnq) = DmnRelease(d)
      /\ Head(dmnq) # DmnRequest(d)
  <2>1. /\ dmnq # <<>> /\ dmnq' = Tail(dmnq)
        /\ Head(dmnq) = [from |-> d, ask |-> FALSE]
    BY DmnHeadIs
  <2>2. DmnRelease(d) # DmnRequest(d)
    BY DEF DmnRequest, DmnRelease
  <2> QED
    BY <2>1, <2>2 DEF DmnRelease
<1>2. /\ UNCHANGED server_q /\ dmnq \in Seq(Dmn!Records)
            /\ server_q \in Seq(Dmn!Records)
      /\ DmnOnce(dmnq \o server_q) /\ DmnInOrder(dmnq \o server_q)
  BY DEF Dmn!input, DmnIInv, Dmn!TypeOK, DmnWay
<1>3. /\ \A x : DmnOnWay(DmnWay', x) <=> DmnOnWay(DmnWay, x) /\ x # Head(dmnq)
      /\ DmnOnWay(DmnWay, Head(dmnq))
  <2>1. DmnWay' = Tail(dmnq) \o server_q
    BY <1>1, <1>2 DEF DmnWay
  <2> QED
    BY <1>1, <1>2, <2>1, DmnWayTaken, Zenon DEF DmnWay
<1> QED
  BY <1>1, <1>3

LEMMA DmnParties ==
    /\ "gpsone" \in Dmn!Daemons /\ WifiDaemons \subseteq Dmn!Daemons
    /\ \A d \in Dmn!Daemons : d # "gpsone" => d \in WifiDaemons
    /\ \A d \in WifiDaemons : d # "gpsone"
BY DmnBounds DEF Dmn!Daemons

(* An asking daemon that is let wait, has what it asked for, or is denied.  *)
LEMMA DmnAskedTale ==
    ASSUME DmnIInv, NEW d \in Dmn!Daemons, Dmn!TakeMsg(TRUE), Head(dmnq).from = d,
           UNCHANGED <<Dmn!input, calm, msgqid, daemon>>, thread = "loop",
           \/ Dmn!Status(d)' = "waiting" /\ answers'[d] = DmnNothing
           \/ Dmn!Status(d)' = "granted"
                 /\ answers'[d] = IF DmnOpen(d) THEN DmnGranted ELSE DmnNothing
           \/ Dmn!Status(d)' = "idle"
                 /\ answers'[d] = IF DmnOpen(d) THEN DmnDenied ELSE DmnNothing
    PROVE  DmnTaleOf(d)' /\ DmnSureOf(d)'
<1>1. /\ daemon'[d] = "asked" /\ ~DmnOnWay(DmnWay', DmnRequest(d))
            /\ ~DmnOnWay(DmnWay', DmnRelease(d))
  BY DmnRequestTaken
<1>2. (DmnOpen(d)' <=> DmnOpen(d)) /\ (calm => DmnOpen(d))
  BY DmnSureOpen DEF DmnOpen
<1>3. DmnTaleOf(d)'
  BY <1>1, <1>2, DmnAnswersAre DEF DmnTaleOf, DmnTale, DmnRequest, DmnRelease
<1>4. DmnSureOf(d)'
  BY <1>1, <1>2, DmnAnswersAre
    DEF DmnSureOf, DmnSure, DmnUntroubled, DmnRequest, DmnRelease
<1> QED
  BY <1>3, <1>4

LEMMA DmnProcRequestInv ==
    ASSUME DmnIInv, Dmn!ProcRequest
    PROVE  DmnIInv'
<1>1. /\ Dmn!TakeMsg(TRUE) /\ UNCHANGED <<calm, Dmn!server, Dmn!input, engineUps>>
      /\ UNCHANGED msgqid
  BY DEF Dmn!ProcRequest, Dmn!server
<1>0. PICK d \in Dmn!Daemons : Head(dmnq).from = d
  BY <1>1, DmnHeadIs
<1>2. d \in Dmn!Daemons /\ thread = "loop" /\ Dmn!TypeOK
  BY <1>1, DmnHeadIs DEF DmnIInv
<1>3. daemon[d] = "asked" /\ answers[d] = DmnNothing /\ Dmn!Status(d) = "idle"
  BY <1>0, <1>1, <1>2, DmnRequestTaken
<1>4. /\ agnss \in [{"gpsone"} -> Dmn!Agnss!Statuses]
            /\ wifi \in [WifiDaemons -> Dmn!Wifi!Statuses]
      /\ answers \in [Dmn!Daemons -> Seq(Dmn!Answers)] /\ DmnOneWifi
  BY <1>2 DEF Dmn!TypeOK, DmnIInv
<1>5. CASE /\ d = "gpsone" /\ (Dmn!Agnss!Join(d) \/ (agnss[d] # "idle"
                 /\ UNCHANGED agnss))
           /\ UNCHANGED wifi
           /\ IF agnss'[d] = "granted" THEN Dmn!Answer({d},
                 Dmn!All("REQUEST_SUCCESS")) ELSE Dmn!Nobody
  <2>1. agnss[d] = "idle" /\ Dmn!Agnss!Join(d)
    BY <1>3, <1>5 DEF Dmn!Status
  <2>2. agnss' \in [{"gpsone"} -> Dmn!Agnss!Statuses] /\ agnss'[d] \in {"waiting",
          "granted"}
    BY <1>5, <2>1 DEF Dmn!Agnss!Join, Dmn!Agnss!Become, Dmn!Agnss!Statuses
  <2>3. /\ answers' \in [Dmn!Daemons -> Seq(Dmn!Answers)] /\ UNCHANGED <<daemon,
              written, misled>>
        /\ \A e \in Dmn!Daemons : e # d => answers'[e] = answers[e]
        /\ answers'[d] = IF agnss'[d] = "granted"
              /\ DmnOpen(d) THEN DmnGranted ELSE DmnNothing
    <3>1. CASE agnss'[d] = "granted"
      <4>1. Dmn!Answer({d}, Dmn!All("REQUEST_SUCCESS"))
              /\ "REQUEST_SUCCESS" \in Dmn!Answers
            /\ {d} \in SUBSET Dmn!Daemons
        BY <1>2, <1>5, <3>1 DEF Dmn!Answers
      <4>2. /\ answers' \in [Dmn!Daemons -> Seq(Dmn!Answers)] /\ UNCHANGED <<daemon,
                  written, misled>>
            /\ \A e \in Dmn!Daemons :
                  answers'[e] = IF e \in {d} /\ DmnOpen(e) THEN Append(answers[e],
                    "REQUEST_SUCCESS")
                                                        ELSE answers[e]
        BY <1>2, <4>1, DmnAnswerIs
      <4> QED
        BY <1>2, <1>3, <3>1, <4>2, DmnAnswersAre
    <3>2. CASE agnss'[d] # "granted"
      <4>1. UNCHANGED <<answers, daemon, written, misled>>
        BY <1>2, <1>5, <3>2, DmnNobodyIs
      <4> QED
        BY <1>3, <1>4, <3>2, <4>1
    <3> QED
      BY <3>1, <3>2
  <2>4. /\ Dmn!Status(d)' = agnss'[d]
        /\ \A e \in Dmn!Daemons : e # d => Dmn!Status(e)' = Dmn!Status(e)
    BY <1>5 DEF Dmn!Status
  <2>5. DmnTaleOf(d)' /\ DmnSureOf(d)'
    BY <1>0, <1>1, <1>2, <2>2, <2>3, <2>4, DmnAskedTale
  <2>6. DmnOneWifi' /\ wifi' \in [WifiDaemons -> Dmn!Wifi!Statuses]
    BY <1>4, <1>5 DEF DmnOneWifi
  <2> QED
    BY <1>0, <1>1, <1>2, <2>2, <2>3, <2>4, <2>5, <2>6, DmnServed
<1>6. CASE /\ d # "gpsone" /\ (\A other \in WifiDaemons : wifi[other] = "idle")
           /\ Dmn!Wifi!Become({d}, "waiting") /\ UNCHANGED agnss /\ Dmn!Nobody
  <2>1. UNCHANGED <<answers, daemon, written, misled>>
    BY <1>2, <1>6, DmnNobodyIs
  <2>2. wifi' = [c \in WifiDaemons |-> IF c = d THEN "waiting" ELSE wifi[c]]
          /\ d \in WifiDaemons
    BY <1>2, <1>6, DmnParties DEF Dmn!Wifi!Become
  <2>3. /\ Dmn!Status(d)' = "waiting" /\ wifi' \in [WifiDaemons -> Dmn!Wifi!Statuses]
        /\ \A e \in Dmn!Daemons : e # d => Dmn!Status(e)' = Dmn!Status(e)
        /\ agnss' \in [{"gpsone"} -> Dmn!Agnss!Statuses]
    BY <1>4, <1>6, <2>2, DmnParties DEF Dmn!Status, Dmn!Wifi!Statuses
  <2>4. DmnOneWifi'
    BY <1>6, <2>2 DEF DmnOneWifi
  <2>5. /\ answers' \in [Dmn!Daemons -> Seq(Dmn!Answers)] /\ answers'[d] = DmnNothing
        /\ \A e \in Dmn!Daemons : e # d => answers'[e] = answers[e]
    BY <1>3, <1>4, <2>1
  <2>6. DmnTaleOf(d)' /\ DmnSureOf(d)'
    BY <1>0, <1>1, <1>2, <2>1, <2>3, <2>5, DmnAskedTale
  <2> QED
    BY <1>0, <1>1, <1>2, <2>1, <2>3, <2>4, <2>5, <2>6, DmnServed
<1>7. CASE /\ d # "gpsone" /\ UNCHANGED Dmn!nifs /\ Dmn!Answer({d},
                 Dmn!All("FAILURE"))
  <2>1. UNCHANGED <<agnss, wifi>>
    BY <1>7 DEF Dmn!nifs
  <2>2. "FAILURE" \in Dmn!Answers /\ {d} \in SUBSET Dmn!Daemons
    BY <1>2 DEF Dmn!Answers
  <2>3. /\ answers' \in [Dmn!Daemons -> Seq(Dmn!Answers)] /\ UNCHANGED <<daemon,
              written, misled>>
        /\ \A e \in Dmn!Daemons :
              answers'[e] = IF e \in {d} /\ DmnOpen(e) THEN Append(answers[e],
                "FAILURE")
                                                    ELSE answers[e]
    BY <1>2, <1>7, <2>2, DmnAnswerIs
  <2>4. (\A e \in Dmn!Daemons : Dmn!Status(e)' = Dmn!Status(e)) /\ DmnOneWifi'
    BY <1>4, <2>1 DEF Dmn!Status, DmnOneWifi
  <2>5. /\ answers'[d] = IF DmnOpen(d) THEN DmnDenied ELSE DmnNothing
        /\ \A e \in Dmn!Daemons : e # d => answers'[e] = answers[e]
    BY <1>2, <1>3, <2>3, DmnAnswersAre
  <2>6. DmnTaleOf(d)' /\ DmnSureOf(d)'
    BY <1>0, <1>1, <1>2, <1>3, <2>3, <2>4, <2>5, DmnAskedTale
  <2>7. agnss' \in [{"gpsone"} -> Dmn!Agnss!Statuses]
          /\ wifi' \in [WifiDaemons -> Dmn!Wifi!Statuses]
    BY <1>4, <2>1
  <2> QED
    BY <1>0, <1>1, <1>2, <2>3, <2>4, <2>5, <2>6, <2>7, DmnServed
<1> QED
  BY <1>0, <1>5, <1>6, <1>7 DEF Dmn!ProcRequest

(* A releasing daemon that is told so, that waits for the connection to     *)
(* close, or one that has nothing left to give back.                        *)
LEMMA DmnReleasedTale ==
    ASSUME DmnIInv, NEW d \in Dmn!Daemons, Dmn!TakeMsg(FALSE), Head(dmnq).from = d,
           UNCHANGED <<Dmn!input, calm, msgqid, daemon, engineUps>>, thread = "loop",
           \/ /\ Dmn!Status(d) = "granted" /\ Dmn!Status(d)' = "idle"
              /\ answers'[d] = IF DmnOpen(d) THEN Append(answers[d],
                    "RELEASE_SUCCESS")
                                          ELSE answers[d]
           \/ Dmn!Status(d) = "granted" /\ Dmn!Status(d)' = "closing"
                 /\ answers'[d] = answers[d]
           \/ Dmn!Status(d) = "idle" /\ Dmn!Status(d)' = "idle"
                 /\ answers'[d] = answers[d]
    PROVE  DmnTaleOf(d)' /\ DmnSureOf(d)'
<1>1. /\ DmnOnWay(DmnWay, DmnRelease(d)) /\ ~DmnOnWay(DmnWay', DmnRelease(d))
      /\ DmnOnWay(DmnWay', DmnRequest(d)) <=> DmnOnWay(DmnWay, DmnRequest(d))
  BY DmnReleaseTaken
<1>2. (DmnOpen(d)' <=> DmnOpen(d)) /\ (calm => DmnOpen(d))
  BY DmnSureOpen DEF DmnOpen
<1>3. /\ daemon[d] \in {"idle", "asked", "has", "releasing"} /\ daemon'[d] = daemon[d]
      /\ DmnTaleOf(d) /\ DmnSureOf(d)
  BY DEF DmnIInv, Dmn!TypeOK, DmnTales, DmnSureTales
<1>4. Dmn!Status(d) = "granted" => daemon[d] = "releasing" /\ answers[d] = DmnNothing
  BY <1>1, <1>3 DEF DmnTaleOf, DmnTale
<1>5. DmnTaleOf(d)'
  BY <1>1, <1>2, <1>3, <1>4, DmnAnswersAre
    DEF DmnTaleOf, DmnTale, DmnRequest, DmnRelease
<1>6. DmnSureOf(d)'
  BY <1>1, <1>2, <1>3, <1>4, DmnAnswersAre
    DEF DmnSureOf, DmnSure, DmnUntroubled, DmnRequest, DmnRelease
<1> QED
  BY <1>5, <1>6

LEMMA DmnProcReleaseInv ==
    ASSUME DmnIInv, Dmn!ProcRelease
    PROVE  DmnIInv'
<1>1. /\ Dmn!TakeMsg(FALSE) /\ UNCHANGED <<calm, Dmn!server, Dmn!input, engineUps>>
      /\ UNCHANGED msgqid
  BY DEF Dmn!ProcRelease, Dmn!server
<1>0. PICK d \in Dmn!Daemons : Head(dmnq).from = d
  BY <1>1, DmnHeadIs
<1>2. d \in Dmn!Daemons /\ thread = "loop" /\ Dmn!TypeOK
  BY <1>1, DmnHeadIs DEF DmnIInv
<1>3. /\ DmnOnWay(DmnWay, DmnRelease(d)) /\ DmnTaleOf(d)
      /\ daemon[d] \in {"idle", "asked", "has", "releasing"}
  BY <1>0, <1>1, DmnReleaseTaken DEF DmnIInv, DmnTales, Dmn!TypeOK
<1>t. Dmn!Status(d) \in {"granted", "idle"}
  BY <1>3 DEF DmnTaleOf, DmnTale
<1>4. /\ agnss \in [{"gpsone"} -> Dmn!Agnss!Statuses]
            /\ wifi \in [WifiDaemons -> Dmn!Wifi!Statuses]
      /\ answers \in [Dmn!Daemons -> Seq(Dmn!Answers)] /\ DmnOneWifi
  BY <1>2 DEF Dmn!TypeOK, DmnIInv
<1>5. CASE /\ d = "gpsone" /\ Dmn!Agnss!Leave(d) /\ agnss'[d] = "idle"
           /\ UNCHANGED wifi /\ Dmn!Answer({d}, Dmn!All("RELEASE_SUCCESS"))
  <2>1. Dmn!Status(d) = "granted" /\ Dmn!Status(d)' = "idle"
    BY <1>t, <1>5 DEF Dmn!Status, Dmn!Agnss!Leave
  <2>2. agnss' \in [{"gpsone"} -> Dmn!Agnss!Statuses]
          /\ wifi' \in [WifiDaemons -> Dmn!Wifi!Statuses]
    BY <1>4, <1>5 DEF Dmn!Agnss!Leave, Dmn!Agnss!Become, Dmn!Agnss!Statuses
  <2>3. "RELEASE_SUCCESS" \in Dmn!Answers /\ {d} \in SUBSET Dmn!Daemons
    BY <1>2 DEF Dmn!Answers
  <2>4. /\ answers' \in [Dmn!Daemons -> Seq(Dmn!Answers)] /\ UNCHANGED <<daemon,
              written, misled>>
        /\ \A e \in Dmn!Daemons :
              answers'[e] = IF e \in {d} /\ DmnOpen(e) THEN Append(answers[e],
                "RELEASE_SUCCESS")
                                                    ELSE answers[e]
    BY <1>2, <1>5, <2>3, DmnAnswerIs
  <2>5. /\ answers'[d] = IF DmnOpen(d) THEN Append(answers[d],
              "RELEASE_SUCCESS") ELSE answers[d]
        /\ \A e \in Dmn!Daemons : e # d => answers'[e] = answers[e]
    BY <1>2, <2>4
  <2>6. (\A e \in Dmn!Daemons : e # d => Dmn!Status(e)' = Dmn!Status(e))
          /\ DmnOneWifi'
    BY <1>4, <1>5 DEF Dmn!Status, DmnOneWifi
  <2>7. DmnTaleOf(d)' /\ DmnSureOf(d)'
    BY <1>0, <1>1, <1>2, <2>1, <2>4, <2>5, DmnReleasedTale
  <2> QED
    BY <1>0, <1>1, <1>2, <2>2, <2>4, <2>5, <2>6, <2>7, DmnServed
<1>6. CASE /\ d # "gpsone" /\ Dmn!Wifi!Leave(d) /\ wifi'[d] = "closing"
           /\ UNCHANGED agnss /\ Dmn!Nobody
  <2>1. UNCHANGED <<answers, daemon, written, misled>>
    BY <1>2, <1>6, DmnNobodyIs
  <2>2. wifi' = [c \in WifiDaemons |-> IF c = d THEN "closing" ELSE wifi[c]]
          /\ d \in WifiDaemons
    <3>1. d \in WifiDaemons
      BY <1>2, <1>6, DmnParties
    <3> QED
      BY <1>6, <3>1 DEF Dmn!Wifi!Leave, Dmn!Wifi!Become
  <2>3. /\ Dmn!Status(d) = "granted" /\ Dmn!Status(d)' = "closing"
        /\ wifi' \in [WifiDaemons -> Dmn!Wifi!Statuses]
        /\ \A e \in Dmn!Daemons : e # d => Dmn!Status(e)' = Dmn!Status(e)
        /\ agnss' \in [{"gpsone"} -> Dmn!Agnss!Statuses]
    <3>1. wifi' \in [WifiDaemons -> Dmn!Wifi!Statuses]
            /\ agnss' \in [{"gpsone"} -> Dmn!Agnss!Statuses]
      BY <1>4, <1>6, <2>2 DEF Dmn!Wifi!Statuses
    <3>2. Dmn!Status(d) = "granted"
      BY <1>t, <1>6 DEF Dmn!Status, Dmn!Wifi!Leave
    <3> QED
      BY <1>6, <2>2, <3>1, <3>2, DmnParties DEF Dmn!Status
  <2>4. DmnOneWifi'
    BY <1>4, <1>6, <2>2, <2>3 DEF DmnOneWifi, Dmn!Status
  <2>5. /\ answers' \in [Dmn!Daemons -> Seq(Dmn!Answers)]
        /\ \A e \in Dmn!Daemons : answers'[e] = answers[e]
    BY <1>4, <2>1
  <2>6. DmnTaleOf(d)' /\ DmnSureOf(d)'
    BY <1>0, <1>1, <1>2, <2>1, <2>3, <2>5, DmnReleasedTale
  <2> QED
    BY <1>0, <1>1, <1>2, <2>1, <2>3, <2>4, <2>5, <2>6, DmnServed
<1>7. CASE Dmn!Status(d) \in {"idle", "closing"} /\ UNCHANGED Dmn!nifs /\ Dmn!Nobody
  <2>1. UNCHANGED <<agnss, wifi, answers, daemon, written, misled>>
    BY <1>2, <1>7, DmnNobodyIs DEF Dmn!nifs
  <2>2. (\A e \in Dmn!Daemons : Dmn!Status(e)' = Dmn!Status(e)) /\ DmnOneWifi'
          /\ Dmn!Status(d) = "idle"
    BY <1>t, <1>4, <1>7, <2>1 DEF Dmn!Status, DmnOneWifi
  <2>3. DmnTaleOf(d)' /\ DmnSureOf(d)'
    BY <1>0, <1>1, <1>2, <2>1, <2>2, DmnReleasedTale
  <2>4. /\ agnss' \in [{"gpsone"} -> Dmn!Agnss!Statuses]
              /\ wifi' \in [WifiDaemons -> Dmn!Wifi!Statuses]
        /\ answers' \in [Dmn!Daemons -> Seq(Dmn!Answers)]
    BY <1>4, <2>1
  <2> QED
    BY <1>0, <1>1, <1>2, <2>1, <2>2, <2>3, <2>4, DmnServed
<1> QED
  BY <1>0, <1>5, <1>6, <1>7 DEF Dmn!ProcRelease

-----------------------------------------------------------------------------
(* The framework: those of status s become of status t and are told w.      *)
DmnMoves == {<<"waiting", "granted", "REQUEST_SUCCESS">>, <<"waiting", "idle",
  "FAILURE">>,
          <<"granted", "idle", "RELEASE_SUCCESS">>, <<"closing", "idle",
            "RELEASE_SUCCESS">>}

DmnMoved(d, s, t, w) ==
    /\ Dmn!Status(d) = s /\ Dmn!Status(d)' = t
    /\ answers'[d] = IF DmnOpen(d) THEN Append(answers[d], w) ELSE answers[d]

LEMMA DmnMovedTale ==
    ASSUME DmnIInv, NEW d \in Dmn!Daemons, NEW s, NEW t, NEW w, <<s, t,
             w>> \in DmnMoves,
           DmnMoved(d, s, t, w), DmnWay' = DmnWay,
           UNCHANGED <<calm, msgqid, daemon, engineUps>>
    PROVE  DmnTaleOf(d)' /\ DmnSureOf(d)'
<1>1. /\ daemon[d] \in {"idle", "asked", "has", "releasing"} /\ daemon'[d] = daemon[d]
      /\ DmnTaleOf(d) /\ DmnSureOf(d)
  BY DEF DmnIInv, Dmn!TypeOK, DmnTales, DmnSureTales
<1>2. \/ s = "waiting" /\ t = "granted" /\ w = "REQUEST_SUCCESS"
      \/ s = "waiting" /\ t = "idle" /\ w = "FAILURE"
      \/ s = "granted" /\ t = "idle" /\ w = "RELEASE_SUCCESS"
      \/ s = "closing" /\ t = "idle" /\ w = "RELEASE_SUCCESS"
  BY DEF DmnMoves
<1>3. thread = "loop"
  BY <1>2 DEF DmnIInv, DmnLooping, DmnMoved
<1>4. (DmnOpen(d)' <=> DmnOpen(d)) /\ (calm => DmnOpen(d))
  BY <1>3, DmnSureOpen DEF DmnOpen
<1>5. CASE s = "waiting"
  <2>1. daemon[d] = "asked" /\ answers[d] = DmnNothing /\ ~DmnOnWay(DmnWay,
          DmnRequest(d))
        /\ ~DmnOnWay(DmnWay, DmnRelease(d))
    BY <1>1, <1>5, DmnAnswersAre DEF DmnTaleOf, DmnTale, DmnMoved
  <2>2. DmnTaleOf(d)'
    BY <1>1, <1>2, <1>4, <1>5, <2>1, DmnAnswersAre
      DEF DmnTaleOf, DmnTale, DmnMoved, DmnRequest, DmnRelease
  <2>3. DmnSureOf(d)'
    BY <1>1, <1>2, <1>4, <1>5, <2>1, DmnAnswersAre
    DEF DmnSureOf, DmnSure, DmnUntroubled, DmnMoved, DmnRequest, DmnRelease
  <2> QED
    BY <2>2, <2>3
<1>6. CASE s = "granted"
  <2>1. DmnTaleOf(d)'
    BY <1>1, <1>2, <1>4, <1>6, DmnAnswersAre
      DEF DmnTaleOf, DmnTale, DmnMoved, DmnRequest, DmnRelease
  <2>2. DmnSureOf(d)'
    BY <1>1, <1>2, <1>4, <1>6, DmnAnswersAre
    DEF DmnSureOf, DmnSure, DmnTaleOf, DmnTale, DmnUntroubled, DmnMoved, DmnRequest,
      DmnRelease
  <2> QED
    BY <2>1, <2>2
<1>7. CASE s = "closing"
  <2>1. daemon[d] = "releasing" /\ answers[d] = DmnNothing /\ ~DmnOnWay(DmnWay,
          DmnRequest(d))
    BY <1>1, <1>7, DmnAnswersAre DEF DmnTaleOf, DmnTale, DmnMoved
  <2>2. DmnTaleOf(d)'
    BY <1>1, <1>2, <1>4, <1>7, <2>1, DmnAnswersAre
      DEF DmnTaleOf, DmnTale, DmnMoved, DmnRequest, DmnRelease
  <2>3. DmnSureOf(d)'
    BY <1>1, <1>2, <1>4, <1>7, <2>1, DmnAnswersAre
    DEF DmnSureOf, DmnSure, DmnUntroubled, DmnMoved, DmnRequest, DmnRelease
  <2> QED
    BY <2>2, <2>3
<1> QED
  BY <1>2, <1>5, <1>6, <1>7

LEMMA DmnMovedInv ==
    ASSUME DmnIInv, NEW s, NEW t, NEW w, <<s, t, w>> \in DmnMoves,
           \A d \in Dmn!Daemons :
              \/ DmnMoved(d, s, t, w)
              \/ Dmn!Status(d)' = Dmn!Status(d) /\ answers'[d] = answers[d],
           UNCHANGED <<calm, Dmn!server, Dmn!input, dmnq, engineUps, daemon,
             written, misled>>,
           answers' \in [Dmn!Daemons -> Seq(Dmn!Answers)],
           agnss' \in [{"gpsone"} -> Dmn!Agnss!Statuses],
           wifi' \in [WifiDaemons -> Dmn!Wifi!Statuses]
    PROVE  DmnIInv'
<1>1. UNCHANGED <<launch, thread, thread_ready, msgqid, server_q, misaligned>>
  BY DEF Dmn!server, Dmn!input
<1>2. DmnWay' = DmnWay /\ DmnOnce(DmnWay)' /\ DmnInOrder(DmnWay)'
  BY <1>1, DmnQueuesKept
<1>3. ASSUME NEW d \in Dmn!Daemons PROVE DmnTaleOf(d)' /\ DmnSureOf(d)'
  <2>1. CASE DmnMoved(d, s, t, w)
    BY <1>1, <1>2, <2>1, DmnMovedTale
  <2>2. CASE Dmn!Status(d)' = Dmn!Status(d) /\ answers'[d] = answers[d]
    <3>1. DmnTaleOf(d) /\ DmnSureOf(d)
      BY DEF DmnIInv, DmnTales, DmnSureTales
    <3> QED
      BY <1>1, <1>2, <2>2, <3>1, DmnTaleKept
  <2> QED
    BY <2>1, <2>2
<1>4. s # "idle"
  BY DEF DmnMoves
<1>5. \A d \in Dmn!Daemons : Dmn!Status(d)' # "idle" => Dmn!Status(d) # "idle"
  BY <1>4 DEF DmnMoved
<1>6. DmnOneWifi'
  <2>1. \A d \in WifiDaemons : d \in Dmn!Daemons /\ Dmn!Status(d) = wifi[d]
          /\ Dmn!Status(d)' = wifi'[d]
    BY DmnParties DEF Dmn!Status
  <2> QED
    BY <1>5, <2>1 DEF DmnIInv, DmnOneWifi
<1>7. Dmn!TypeOK'
  BY <1>1 DEF DmnIInv, Dmn!TypeOK
<1>8. DmnLaunching' /\ DmnLooping'
  BY <1>1, <1>5 DEF DmnIInv, DmnLaunching, DmnLooping
<1> QED
  BY <1>2, <1>3, <1>6, <1>7, <1>8 DEF DmnIInv, DmnTales, DmnSureTales

LEMMA DmnFrameworkInv ==
    ASSUME DmnIInv, Dmn!Framework
    PROVE  DmnIInv'
<1>1. /\ UNCHANGED <<calm, Dmn!server, Dmn!input, dmnq, engineUps>> /\ Dmn!TypeOK
      /\ agnss \in [{"gpsone"} -> Dmn!Agnss!Statuses]
            /\ wifi \in [WifiDaemons -> Dmn!Wifi!Statuses]
      /\ DmnOneWifi
  BY DEF Dmn!Framework, DmnIInv, Dmn!TypeOK
<1>2. Dmn!Answers = {"REQUEST_SUCCESS", "RELEASE_SUCCESS", "FAILURE"}
  BY DEF Dmn!Answers
(* The one connection or the other, from status s to t.                     *)
<1>3. ASSUME NEW s, NEW t, NEW w \in Dmn!Answers, <<s, t, w>> \in DmnMoves,
             Dmn!Agnss!Become(Dmn!Agnss!Are(s), t) \/ (Dmn!Agnss!Are(s) # {}
               /\ t = "idle" /\ Dmn!Agnss!Over),
             UNCHANGED wifi, Dmn!Told(agnss, s, w)
      PROVE  DmnIInv'
  <2> DEFINE who == {d \in DOMAIN agnss : agnss[d] = s}
  <2>1. /\ DOMAIN agnss = {"gpsone"} /\ who \in SUBSET Dmn!Daemons
        /\ who = {d \in {"gpsone"} : agnss[d] = s}
    BY <1>1, DmnParties
  <2>2. /\ answers' \in [Dmn!Daemons -> Seq(Dmn!Answers)] /\ UNCHANGED <<daemon,
              written, misled>>
        /\ \A d \in Dmn!Daemons : answers'[d] =
              IF d \in who /\ DmnOpen(d) THEN Append(answers[d], w) ELSE answers[d]
    BY <1>1, <1>3, <2>1, DmnAnswerIs DEF Dmn!Told
  <2>3. t \in Dmn!Agnss!Statuses
    BY <1>3 DEF DmnMoves, Dmn!Agnss!Statuses
  <2>4. agnss' = [c \in {"gpsone"} |-> IF agnss[c] = s THEN t ELSE agnss[c]]
    BY <1>3 DEF Dmn!Agnss!Become, Dmn!Agnss!Are, Dmn!Agnss!Over
  <2>5. agnss' \in [{"gpsone"} -> Dmn!Agnss!Statuses]
          /\ wifi' \in [WifiDaemons -> Dmn!Wifi!Statuses]
    BY <1>1, <1>3, <2>3, <2>4
  <2>6. ASSUME NEW d \in Dmn!Daemons
        PROVE  \/ DmnMoved(d, s, t, w)
               \/ Dmn!Status(d)' = Dmn!Status(d) /\ answers'[d] = answers[d]
    <3>1. CASE d \in who
      BY <2>1, <2>2, <2>4, <3>1 DEF DmnMoved, Dmn!Status
    <3>2. CASE d \notin who
      BY <1>3, <2>1, <2>2, <2>4, <3>2 DEF Dmn!Status
    <3> QED
      BY <3>1, <3>2
  <2> HIDE DEF who
  <2> QED
    BY <1>1, <1>3, <2>2, <2>5, <2>6, DmnMovedInv
<1>4. ASSUME NEW s, NEW t, NEW w \in Dmn!Answers, <<s, t, w>> \in DmnMoves,
             Dmn!Wifi!Become(Dmn!Wifi!Are(s), t) \/ (Dmn!Wifi!Are(s) # {}
               /\ t = "idle" /\ Dmn!Wifi!Over),
             UNCHANGED agnss, Dmn!Told(wifi, s, w)
      PROVE  DmnIInv'
  <2> DEFINE who == {d \in DOMAIN wifi : wifi[d] = s}
  <2>1. /\ DOMAIN wifi = WifiDaemons /\ who \in SUBSET Dmn!Daemons
        /\ who = {d \in WifiDaemons : wifi[d] = s}
    BY <1>1, DmnParties
  <2>2. /\ answers' \in [Dmn!Daemons -> Seq(Dmn!Answers)] /\ UNCHANGED <<daemon,
              written, misled>>
        /\ \A d \in Dmn!Daemons : answers'[d] =
              IF d \in who /\ DmnOpen(d) THEN Append(answers[d], w) ELSE answers[d]
    BY <1>1, <1>4, <2>1, DmnAnswerIs DEF Dmn!Told
  <2>3. t \in Dmn!Wifi!Statuses /\ s # "idle"
    BY <1>4 DEF DmnMoves, Dmn!Wifi!Statuses
  <2>4. wifi' = [c \in WifiDaemons |-> IF wifi[c] = s THEN t ELSE wifi[c]]
    <3>1. CASE Dmn!Wifi!Become(Dmn!Wifi!Are(s), t)
      BY <3>1 DEF Dmn!Wifi!Become, Dmn!Wifi!Are
    <3>2. CASE Dmn!Wifi!Are(s) # {} /\ t = "idle" /\ Dmn!Wifi!Over
      <4>1. PICK e \in WifiDaemons : wifi[e] = s
        BY <3>2 DEF Dmn!Wifi!Are
      <4>2. \A c \in WifiDaemons : wifi[c] # s => wifi[c] = "idle"
        BY <1>1, <2>3, <4>1 DEF DmnOneWifi
      <4>3. wifi' = [c \in WifiDaemons |-> "idle"]
        BY <3>2 DEF Dmn!Wifi!Over, Dmn!Wifi!Become
      <4> QED
        BY <3>2, <4>2, <4>3
    <3> QED
      BY <1>4, <3>1, <3>2
  <2>5. agnss' \in [{"gpsone"} -> Dmn!Agnss!Statuses]
          /\ wifi' \in [WifiDaemons -> Dmn!Wifi!Statuses]
    BY <1>1, <1>4, <2>3, <2>4
  <2>6. ASSUME NEW d \in Dmn!Daemons
        PROVE  \/ DmnMoved(d, s, t, w)
               \/ Dmn!Status(d)' = Dmn!Status(d) /\ answers'[d] = answers[d]
    <3>1. CASE d \in who
      BY <2>1, <2>2, <2>4, <3>1, DmnParties DEF DmnMoved, Dmn!Status
    <3>2. CASE d \notin who
      BY <1>4, <2>1, <2>2, <2>4, <3>2, DmnParties DEF Dmn!Status
    <3> QED
      BY <3>1, <3>2
  <2> HIDE DEF who
  <2> QED
    BY <1>1, <1>4, <2>2, <2>5, <2>6, DmnMovedInv
<1>5. /\ <<"waiting", "granted", "REQUEST_SUCCESS">> \in DmnMoves
      /\ <<"waiting", "idle", "FAILURE">> \in DmnMoves
      /\ <<"granted", "idle", "RELEASE_SUCCESS">> \in DmnMoves
      /\ <<"closing", "idle", "RELEASE_SUCCESS">> \in DmnMoves
  BY DEF DmnMoves
<1>6. CASE Dmn!Opened
  BY <1>2, <1>3, <1>4, <1>5, <1>6 DEF Dmn!Opened, Dmn!Agnss!Grant, Dmn!Wifi!Grant
<1>7. CASE Dmn!OpenFailed
  BY <1>2, <1>3, <1>4, <1>5, <1>7 DEF Dmn!OpenFailed
<1>8. CASE Dmn!ConnectionClosed
  BY <1>2, <1>3, <1>4, <1>5, <1>8 DEF Dmn!ConnectionClosed, Dmn!Wifi!Closed
<1> QED
  BY <1>6, <1>7, <1>8 DEF Dmn!Framework

(* A restart of the modem: the GPSONE daemon's connection is gone, untold.  *)
LEMMA DmnEngineUpInv ==
    ASSUME DmnIInv, Dmn!EngineUp
    PROVE  DmnIInv'
<1>1. /\ engineUps' = engineUps + 1 /\ engineUps < MaxEngineUps
      /\ UNCHANGED <<calm, Dmn!server, Dmn!input, dmnq, wifi, Dmn!world>>
      /\ agnss' = [c \in {"gpsone"} |-> "idle"]
  BY DEF Dmn!EngineUp, Dmn!Agnss!Over, Dmn!Agnss!Become
<1>2. /\ UNCHANGED <<launch, thread, thread_ready, msgqid, server_q, misaligned,
            answers,
                     daemon, written, misled>>
  BY <1>1 DEF Dmn!server, Dmn!input, Dmn!world
<1>3. DmnWay' = DmnWay /\ DmnOnce(DmnWay)' /\ DmnInOrder(DmnWay)'
  BY <1>1, <1>2, DmnQueuesKept
<1>4. engineUps \in 0..MaxEngineUps /\ engineUps' \in 0..MaxEngineUps
        /\ engineUps' # 0
  BY <1>1, DmnBounds DEF DmnIInv, Dmn!TypeOK
<1>5. ASSUME NEW d \in Dmn!Daemons PROVE DmnTaleOf(d)' /\ DmnSureOf(d)'
  <2>1. DmnTaleOf(d) /\ DmnSureOf(d) /\ daemon[d] \in {"idle", "asked", "has",
          "releasing"}
    BY DEF DmnIInv, DmnTales, DmnSureTales, Dmn!TypeOK
  <2>2. CASE d = "gpsone"
    <3>1. Dmn!Status(d)' = "idle"
      BY <1>1, <2>2 DEF Dmn!Status
    <3>2. DmnTaleOf(d)'
      BY <1>2, <1>3, <2>1, <3>1, DmnAnswersAre
        DEF DmnTaleOf, DmnTale, DmnOpen, DmnRequest, DmnRelease
    <3>3. DmnSureOf(d)'
      BY <1>4, <2>2 DEF DmnSureOf, DmnUntroubled
    <3> QED
      BY <3>2, <3>3
  <2>3. CASE d # "gpsone"
    <3>1. Dmn!Status(d)' = Dmn!Status(d)
      BY <1>1, <2>3 DEF Dmn!Status
    <3>2. DmnTaleOf(d)'
      BY <1>2, <1>3, <2>1, <3>1
        DEF DmnTaleOf, DmnTale, DmnOpen, DmnRequest, DmnRelease
    <3>3. DmnSureOf(d)'
      BY <1>1, <1>2, <1>3, <2>1, <2>3, <3>1
      DEF DmnSureOf, DmnSure, DmnUntroubled, DmnRequest, DmnRelease
    <3> QED
      BY <3>2, <3>3
  <2> QED
    BY <2>2, <2>3
<1>6. Dmn!TypeOK'
  <2>1. agnss' \in [{"gpsone"} -> Dmn!Agnss!Statuses]
    BY <1>1 DEF Dmn!Agnss!Statuses
  <2> QED
    BY <1>1, <1>2, <1>4, <2>1 DEF DmnIInv, Dmn!TypeOK
<1>7. DmnOneWifi' /\ DmnLaunching'
  BY <1>1, <1>2 DEF DmnIInv, DmnOneWifi, DmnLaunching
<1>8. DmnLooping'
  BY <1>1, <1>2 DEF DmnIInv, DmnLooping, Dmn!Status
<1> QED
  BY <1>2, <1>3, <1>5, <1>6, <1>7, <1>8 DEF DmnIInv, DmnTales, DmnSureTales

-----------------------------------------------------------------------------
(* The daemons.                                                             *)

(* What d itself may write, and what that makes of its tale.                *)
LEMMA DmnWrittenTale ==
    ASSUME DmnIInv, NEW d \in Dmn!Daemons, NEW ask \in BOOLEAN,
           \/ ask /\ daemon[d] = "idle" /\ daemon'[d] = "asked"
           \/ ~ask /\ daemon[d] = "has" /\ daemon'[d] = "releasing",
           UNCHANGED <<calm, msgqid, answers, agnss, wifi, engineUps>>,
           DmnOnWay(DmnWay', DmnRequest(d)) <=> DmnOnWay(DmnWay, DmnRequest(d))
             \/ ask,
           DmnOnWay(DmnWay', DmnRelease(d)) <=> DmnOnWay(DmnWay, DmnRelease(d))
             \/ ~ask
    PROVE  DmnTaleOf(d)' /\ DmnSureOf(d)'
<1>1. DmnTaleOf(d) /\ DmnSureOf(d) /\ Dmn!Status(d)' = Dmn!Status(d)
  BY DEF DmnIInv, DmnTales, DmnSureTales, Dmn!Status
<1>2. DmnTaleOf(d)'
  BY <1>1, DmnAnswersAre DEF DmnTaleOf, DmnTale, DmnOpen, DmnRequest, DmnRelease
<1>3. DmnSureOf(d)'
  BY <1>1, DmnAnswersAre
    DEF DmnTaleOf, DmnTale, DmnSureOf, DmnSure, DmnUntroubled, DmnRequest, DmnRelease
<1> QED
  BY <1>2, <1>3

LEMMA DmnDaemonWritesInv ==
    ASSUME DmnIInv, NEW d \in Dmn!Daemons, Dmn!DaemonWrites(d)
    PROVE  DmnIInv'
<1>1. PICK ask \in BOOLEAN : ask = (daemon[d] = "idle")
  OBVIOUS
<1>2. /\ written < MaxRecords /\ written' = written + 1
      /\ \/ ask /\ daemon[d] = "idle" /\ daemon' = [daemon EXCEPT ![d] = "asked"]
         \/ ~ask /\ daemon[d] = "has" /\ daemon' = [daemon EXCEPT ![d] = "releasing"]
      /\ server_q' = Append(server_q, [from |-> d, ask |-> ask])
      /\ UNCHANGED <<calm, Dmn!server, misaligned, dmnq, Dmn!nifs, answers, misled,
            engineUps>>
  BY <1>1 DEF Dmn!DaemonWrites
<1>3. /\ UNCHANGED <<launch, thread, thread_ready, msgqid, agnss, wifi>>
      /\ dmnq \in Seq(Dmn!Records) /\ server_q \in Seq(Dmn!Records)
            /\ DmnOnce(DmnWay) /\ DmnInOrder(DmnWay)
      /\ daemon \in [Dmn!Daemons -> {"idle", "asked", "has", "releasing"}]
      /\ DmnTaleOf(d)
  BY <1>2 DEF Dmn!server, Dmn!nifs, DmnIInv, Dmn!TypeOK, DmnTales
<1> DEFINE r == [from |-> d, ask |-> ask]
<1>4. r \in Dmn!Records /\ (ask => r = DmnRequest(d)) /\ (~ask => r = DmnRelease(d))
  BY DEF Dmn!Records, DmnRequest, DmnRelease
<1>5. ~DmnOnWay(DmnWay, r) /\ \A e \in Dmn!Daemons : r = DmnRelease(e)
        => ~DmnOnWay(DmnWay, DmnRequest(e))
  <2>1. \A e \in Dmn!Daemons : r = DmnRelease(e) => e = d /\ ~ask
    BY DEF DmnRelease
  <2>2. /\ ask => ~DmnOnWay(DmnWay, DmnRequest(d))
        /\ ~ask => ~DmnOnWay(DmnWay, DmnRequest(d)) /\ ~DmnOnWay(DmnWay,
              DmnRelease(d))
    BY <1>2, <1>3 DEF DmnTaleOf, DmnTale
  <2> HIDE DEF r
  <2> QED
    BY <1>4, <2>1, <2>2
<1>6. \A e \in Dmn!Daemons : (DmnRequest(e) = r <=> e = d /\ ask)
                            /\ (DmnRelease(e) = r <=> e = d /\ ~ask)
  BY DEF DmnRequest, DmnRelease
<1> HIDE DEF r
<1>7. DmnWay' = Append(DmnWay, r) /\ server_q' \in Seq(Dmn!Records)
        /\ DmnWay \in Seq(Dmn!Records)
  BY <1>2, <1>3, <1>4, DmnWayWritten, DmnWayIs DEF DmnWay, r
<1>8. /\ DmnOnce(DmnWay') /\ DmnInOrder(DmnWay') /\ \A x : DmnOnWay(DmnWay',
            x) <=> DmnOnWay(DmnWay, x) \/ x = r
  BY <1>3, <1>4, <1>5, <1>7, DmnWayAppended, Zenon
<1>9. DmnOnce(DmnWay)' /\ DmnInOrder(DmnWay)'
  BY <1>8 DEF DmnOnce, DmnInOrder, DmnRequest, DmnRelease
<1>10. ASSUME NEW e \in Dmn!Daemons PROVE DmnTaleOf(e)' /\ DmnSureOf(e)'
  <2>1. /\ DmnOnWay(DmnWay', DmnRequest(e)) <=> DmnOnWay(DmnWay, DmnRequest(e))
              \/ (e = d /\ ask)
        /\ DmnOnWay(DmnWay', DmnRelease(e)) <=> DmnOnWay(DmnWay, DmnRelease(e))
              \/ (e = d /\ ~ask)
    <3>1. /\ DmnOnWay(DmnWay', DmnRequest(e)) <=> DmnOnWay(DmnWay, DmnRequest(e))
                \/ DmnRequest(e) = r
          /\ DmnOnWay(DmnWay', DmnRelease(e)) <=> DmnOnWay(DmnWay, DmnRelease(e))
                \/ DmnRelease(e) = r
      BY <1>8, Zenon
    <3>2. /\ DmnRequest(e) = r <=> e = d /\ ask
          /\ DmnRelease(e) = r <=> e = d /\ ~ask
      BY <1>6, Zenon
    <3> QED
      BY <3>1, <3>2
  <2>2. CASE e = d
    <3>1. \/ ask /\ daemon[d] = "idle" /\ daemon'[d] = "asked"
          \/ ~ask /\ daemon[d] = "has" /\ daemon'[d] = "releasing"
      BY <1>2, <1>3
    <3>2. UNCHANGED <<calm, msgqid, answers, agnss, wifi, engineUps>>
      BY <1>2, <1>3
    <3> QED
      BY <2>1, <2>2, <3>1, <3>2, DmnWrittenTale
  <2>3. CASE e # d
    <3>1. daemon'[e] = daemon[e] /\ Dmn!Status(e)' = Dmn!Status(e)
      BY <1>2, <1>3, <2>3 DEF Dmn!Status
    <3>2. DmnTaleOf(e) /\ DmnSureOf(e)
      BY DEF DmnIInv, DmnTales, DmnSureTales
    <3> QED
      BY <1>2, <1>3, <2>1, <2>3, <3>1, <3>2, DmnTaleKept
  <2> QED
    BY <2>2, <2>3
<1>11. Dmn!TypeOK'
  <2>1. written' \in 0..MaxRecords
    BY <1>2, DmnBounds DEF DmnIInv, Dmn!TypeOK
  <2>2. daemon' \in [Dmn!Daemons -> {"idle", "asked", "has", "releasing"}]
    BY <1>2, <1>3
  <2> QED
    BY <1>2, <1>3, <1>7, <2>1, <2>2 DEF DmnIInv, Dmn!TypeOK
<1>12. DmnOneWifi' /\ DmnLaunching' /\ DmnLooping'
  BY <1>2, <1>3 DEF DmnIInv, DmnOneWifi, DmnLaunching, DmnLooping, Dmn!Status
<1> QED
  BY <1>2, <1>9, <1>10, <1>11, <1>12 DEF DmnIInv, DmnTales, DmnSureTales

LEMMA DmnDaemonReadsInv ==
    ASSUME DmnIInv, NEW d \in Dmn!Daemons, Dmn!DaemonReads(d)
    PROVE  DmnIInv'
<1>1. /\ answers[d] # DmnNothing
            /\ answers' = [answers EXCEPT ![d] = Tail(answers[d])]
      /\ misled' = IF Head(answers[d]) \in Dmn!Expected(d) THEN misled ELSE misled \cup {d}
      /\ daemon' = [daemon EXCEPT ![d] =
                       IF Head(answers[d]) = "REQUEST_SUCCESS" THEN "has" ELSE "idle"]
      /\ UNCHANGED <<calm, Dmn!server, Dmn!input, dmnq, Dmn!nifs, written, engineUps>>
  BY DEF Dmn!DaemonReads, DmnNothing
<1>2. /\ UNCHANGED <<launch, thread, thread_ready, msgqid, server_q, misaligned,
            agnss, wifi>>
      /\ daemon \in [Dmn!Daemons -> {"idle", "asked", "has", "releasing"}]
      /\ answers \in [Dmn!Daemons -> Seq(Dmn!Answers)]
      /\ DmnTaleOf(d) /\ DmnSureOf(d) /\ misled = {}
  BY <1>1 DEF Dmn!server, Dmn!input, Dmn!nifs, DmnIInv, Dmn!TypeOK, DmnTales,
    DmnSureTales
<1>3. DmnWay' = DmnWay /\ DmnOnce(DmnWay)' /\ DmnInOrder(DmnWay)'
  BY <1>1, <1>2, DmnQueuesKept
<1>4. /\ answers'[d] = Tail(answers[d]) /\ Dmn!Status(d)' = Dmn!Status(d)
      /\ daemon'[d] = IF Head(answers[d]) = "REQUEST_SUCCESS" THEN "has" ELSE "idle"
  BY <1>1, <1>2 DEF Dmn!Status
(* What may have been there to read.                                        *)
<1>5. \/ daemon[d] = "asked" /\ answers[d] \in {DmnGranted, DmnLost, DmnDenied}
            /\ ~DmnOnWay(DmnWay, DmnRequest(d)) /\ ~DmnOnWay(DmnWay, DmnRelease(d))
      \/ daemon[d] \in {"has", "releasing"} /\ answers[d] = DmnReleased
            /\ ~DmnOnWay(DmnWay, DmnRequest(d))
  BY <1>1, <1>2 DEF DmnTaleOf, DmnTale
<1>6. misled' = {}
  BY <1>1, <1>2, <1>5, DmnAnswersAre DEF Dmn!Expected
<1>7. DmnTaleOf(d)' /\ DmnSureOf(d)'
  <2>1. DmnTaleOf(d)'
    BY <1>2, <1>3, <1>4, <1>5, DmnAnswersAre
      DEF DmnTaleOf, DmnTale, DmnOpen, DmnRequest, DmnRelease
  <2>2. DmnSureOf(d)'
    BY <1>1, <1>2, <1>3, <1>4, <1>5, DmnAnswersAre
    DEF DmnSureOf, DmnSure, DmnUntroubled, DmnRequest, DmnRelease
  <2> QED
    BY <2>1, <2>2
<1>8. ASSUME NEW e \in Dmn!Daemons, e # d PROVE DmnTaleOf(e)' /\ DmnSureOf(e)'
  <2>1. /\ daemon'[e] = daemon[e] /\ answers'[e] = answers[e]
              /\ Dmn!Status(e)' = Dmn!Status(e)
        /\ DmnTaleOf(e) /\ DmnSureOf(e)
    BY <1>1, <1>2, <1>8 DEF Dmn!Status, DmnIInv, DmnTales, DmnSureTales
  <2> QED
    BY <1>1, <1>2, <1>3, <2>1, DmnTaleKept
<1>9. Dmn!TypeOK'
  <2>1. answers' \in [Dmn!Daemons -> Seq(Dmn!Answers)]
    <3>1. Tail(answers[d]) \in Seq(Dmn!Answers)
      BY <1>1, <1>2, HeadTailProperties DEF DmnNothing
    <3> QED
      BY <1>1, <1>2, <3>1
  <2>2. daemon' \in [Dmn!Daemons -> {"idle", "asked", "has", "releasing"}]
    BY <1>1, <1>2
  <2> QED
    BY <1>1, <1>2, <1>6, <2>1, <2>2 DEF DmnIInv, Dmn!TypeOK
<1>10. DmnOneWifi' /\ DmnLaunching' /\ DmnLooping'
  BY <1>1, <1>2 DEF DmnIInv, DmnOneWifi, DmnLaunching, DmnLooping, Dmn!Status
<1> QED
  BY <1>3, <1>6, <1>7, <1>8, <1>9, <1>10 DEF DmnIInv, DmnTales, DmnSureTales

-----------------------------------------------------------------------------
LEMMA DmnStart ==
    ASSUME Dmn!Init
    PROVE  DmnIInv
<1>1. /\ agnss = [c \in {"gpsone"} |-> "idle"]
            /\ wifi = [c \in WifiDaemons |-> "idle"]
      /\ dmnq = <<>> /\ server_q = <<>> /\ launch = "start" /\ thread = "none"
      /\ thread_ready = FALSE /\ calm \in BOOLEAN /\ misaligned = FALSE
      /\ msgqid = [p \in Dmn!Daemons \cup {"server"} |-> "unset"]
      /\ answers = [d \in Dmn!Daemons |-> <<>>]
            /\ daemon = [d \in Dmn!Daemons |-> "idle"]
      /\ written = 0 /\ engineUps = 0 /\ misled = {}
  BY DEF Dmn!Init, Dmn!Agnss!Init, Dmn!Wifi!Init
<1>2. \A d \in Dmn!Daemons : Dmn!Status(d) = "idle"
  BY <1>1, DmnParties DEF Dmn!Status
<1>3. DmnWay \in Seq(Dmn!Records) /\ Len(DmnWay) = 0
  <2>1. <<>> \in Seq(Dmn!Records) /\ Len(<<>>) = 0
    BY EmptySeq
  <2>2. DmnWay = <<>>
    BY <1>1, <2>1, ConcatEmptySeq DEF DmnWay
  <2> QED
    BY <2>1, <2>2
<1>4. DmnOnce(DmnWay) /\ DmnInOrder(DmnWay) /\ \A x : ~DmnOnWay(DmnWay, x)
  BY <1>3 DEF DmnOnce, DmnInOrder, DmnOnWay
<1>5. DmnTales
  BY <1>1, <1>2, <1>4 DEF DmnTales, DmnTaleOf, DmnTale, DmnNothing
<1>6. DmnSureTales
  BY <1>1 DEF DmnSureTales, DmnSureOf, DmnSure
<1>7. Dmn!TypeOK
  <2>1. dmnq \in Seq(Dmn!Records) /\ server_q \in Seq(Dmn!Records)
    BY <1>1, EmptySeq
  <2>2. answers \in [Dmn!Daemons -> Seq(Dmn!Answers)]
    BY <1>1, EmptySeq
  <2>3. written \in 0..MaxRecords /\ engineUps \in 0..MaxEngineUps
    BY <1>1, DmnBounds
  <2>4. agnss \in [{"gpsone"} -> Dmn!Agnss!Statuses]
          /\ wifi \in [WifiDaemons -> Dmn!Wifi!Statuses]
    BY <1>1 DEF Dmn!Agnss!Statuses, Dmn!Wifi!Statuses
  <2> QED
    BY <1>1, <2>1, <2>2, <2>3, <2>4 DEF Dmn!TypeOK
<1>8. DmnOneWifi /\ DmnLaunching /\ DmnLooping
  BY <1>1, <1>2 DEF DmnOneWifi, DmnLaunching, DmnLooping
<1> QED
  BY <1>1, <1>4, <1>5, <1>6, <1>7, <1>8 DEF DmnIInv

LEMMA DmnNext ==
    ASSUME DmnIInv, [Dmn!Next]_(Dmn!vars)
    PROVE  DmnIInv'
<1>1. CASE UNCHANGED Dmn!vars
  <2>1. UNCHANGED <<calm, msgqid, Dmn!input, dmnq, Dmn!nifs, Dmn!world, engineUps,
          launch, thread,
                    thread_ready>>
    BY <1>1 DEF Dmn!vars, Dmn!server
  <2>2. /\ launch' \in {"start", "create", "waiting", "returned"}
        /\ thread' \in {"none", "init", "ready", "loop"} /\ thread_ready' \in BOOLEAN
    BY <2>1 DEF DmnIInv, Dmn!TypeOK
  <2>3. DmnLaunching'
    BY <2>1 DEF DmnIInv, DmnLaunching
  <2> QED
    BY <2>1, <2>2, <2>3, DmnHandShaken
<1> QED
  BY <1>1, DmnLaunchInv, DmnSignalWaitInv, DmnSpuriousWakeupInv, DmnOpenPipeInv,
    DmnSignalReadyInv,
     DmnReceiveInv, DmnReceivePartInv, DmnProcRequestInv, DmnProcReleaseInv,
       DmnFrameworkInv, DmnEngineUpInv,
     DmnDaemonWritesInv, DmnDaemonReadsInv
  DEF Dmn!Next

(* The invariant says what was to be shown of the launch and the daemons.   *)
LEMMA DmnServedInv ==
    ASSUME DmnIInv
    PROVE  Dmn!DaemonsServed
<1>1. Dmn!TypeOK /\ Dmn!NobodyIsMisled
  BY DEF DmnIInv, Dmn!NobodyIsMisled
<1>2. Dmn!LaunchIsDone
  BY DEF DmnIInv, DmnLaunching, Dmn!LaunchIsDone, Dmn!TypeOK
<1>3. Dmn!EachKnowsItsConnection
  <2> SUFFICES ASSUME calm, server_q = <<>>, dmnq = <<>>, NEW d \in Dmn!Daemons,
                      answers[d] = <<>>, d = "gpsone" => engineUps = 0
               PROVE  /\ daemon[d] = "idle" => Dmn!Status(d) = "idle"
                      /\ daemon[d] = "asked" => Dmn!Status(d) = "waiting"
                      /\ daemon[d] = "has" => Dmn!Status(d) = "granted"
                      /\ daemon[d] = "releasing" => Dmn!Status(d) = "closing"
    BY <1>1 DEF Dmn!EachKnowsItsConnection, Dmn!TypeOK
  <2>1. DmnWay \in Seq(Dmn!Records) /\ Len(DmnWay) = 0
    <3>1. <<>> \in Seq(Dmn!Records) /\ Len(<<>>) = 0
      BY EmptySeq
    <3>2. DmnWay = <<>>
      BY <3>1, ConcatEmptySeq DEF DmnWay
    <3> QED
      BY <3>1, <3>2
  <2>2. ~DmnOnWay(DmnWay, DmnRequest(d)) /\ ~DmnOnWay(DmnWay, DmnRelease(d))
    BY <2>1 DEF DmnOnWay
  <2>3. DmnTaleOf(d) /\ DmnSureOf(d) /\ answers[d] = DmnNothing
    BY DEF DmnIInv, DmnTales, DmnSureTales, DmnNothing
  <2> QED
    BY <2>2, <2>3 DEF DmnTaleOf, DmnTale, DmnSureOf, DmnSure, DmnUntroubled
<1> QED
  BY <1>1, <1>2, <1>3 DEF Dmn!DaemonsServed

-----------------------------------------------------------------------------
(* The composition: a step is one component's, and the others stay as they  *)
(* are.                                                                     *)
BringUpKept ==
    /\ part = "init" => EngIInv
    /\ part = "client" => ClientIInv
    /\ part = "daemons" => DmnIInv

LEMMA ParametersHold == ClientParameters
BY BringUpAssumption DEF ClientParameters, Client!Listed

LEMMA BringUpInv == BringUpSpec => []BringUpKept
<1>1. BringUpInit => BringUpKept
  BY EngInitIInv, ClientStart, DmnStart, ParametersHold, Zenon
    DEF BringUpInit, BringUpKept
<1>2. BringUpKept /\ [BringUpNext]_<<part, vars, initVars, clientVars, dmnVars>>
         => BringUpKept'
  <2> SUFFICES ASSUME BringUpKept,
                      [BringUpNext]_<<part, vars, initVars, clientVars, dmnVars>>
               PROVE  BringUpKept'
    OBVIOUS
  <2>1. part' = part
    BY DEF BringUpNext
  <2>2. CASE part = "init"
    <3>1. [EngInit!Next]_(EngInit!vars)
      BY <2>2 DEF BringUpNext, initVars, EngInit!vars
    <3> QED
      BY <2>1, <2>2, <3>1, EngNextInv DEF BringUpKept
  <2>3. CASE part = "client"
    <3>1. [Client!Next]_(Client!vars)
      BY <2>3 DEF BringUpNext, vars, clientVars, Client!vars, Client!caller,
        Client!memory
    <3> QED
      BY <2>1, <2>3, <3>1, ClientNext, ParametersHold DEF BringUpKept
  <2>4. CASE part = "daemons"
    <3>1. [Dmn!Next]_(Dmn!vars)
      BY <2>4 DEF BringUpNext, dmnVars, vars, Dmn!vars, Dmn!server, Dmn!input,
        Dmn!nifs,
        Dmn!world
    <3> QED
      BY <2>1, <2>4, <3>1, DmnNext DEF BringUpKept
  <2>5. CASE part \notin {"init", "client", "daemons"}
    BY <2>1, <2>5 DEF BringUpKept
  <2> QED
    BY <2>2, <2>3, <2>4, <2>5
<1> QED
  BY <1>1, <1>2, PTL DEF BringUpSpec

(* However the framework's calls, the messages they post and restarts of    *)
(* the modem follow each other: once all messages are processed the client  *)
(* is open, the modem has every setting that LocApiV02 takes, and           *)
(* LocApiBase was last told whether data calls are possible, unless an      *)
(* update bypassed it.                                                      *)
THEOREM SettingsReach == BringUpSpec => []SettingsReachModem
<1>1. BringUpKept => SettingsReachModem
  BY EngInvSettings DEF BringUpKept, SettingsReachModem
<1> QED
  BY <1>1, BringUpInv, PTL

(* Whatever the service and QCCI do between any two steps of an open: the   *)
(* thread does not wait for a service that is there, what the service sends *)
(* is what the client lets through, a loss is followed by a replacement     *)
(* once the callbacks are filled in, and a failed or closed attempt leaves  *)
(* nothing that is live.                                                    *)
THEOREM ClientServed == BringUpSpec => []ClientInv
<1>1. BringUpKept => ClientInv
  BY ClientImplies, ParametersHold DEF BringUpKept, ClientInv
<1> QED
  BY <1>1, BringUpInv, PTL

(* Whatever the pipes lose, the framework grants or denies and the modem    *)
(* does: the launch returns when the pipes were opened, unless a wake-up is *)
(* spurious, no daemon reads an answer to what it did not ask, and once     *)
(* everything is read each daemon knows the state of its connection, a      *)
(* restart of the modem excepted.                                           *)
THEOREM DaemonsAreServed == BringUpSpec => []DaemonsServed
<1>1. BringUpKept => DaemonsServed
  BY DmnServedInv DEF BringUpKept, DaemonsServed
<1> QED
  BY <1>1, BringUpInv, PTL
=============================================================================
