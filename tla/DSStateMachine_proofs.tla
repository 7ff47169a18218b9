----------------------- MODULE DSStateMachine_proofs ------------------------
(* The emergency connection and its data call agree, for any set of         *)
(* handles, any number of messages on their way and of modem restarts; and  *)
(* LocApiV02 opens and starts the call as it should, for any lists of       *)
(* profiles, any wait for WDS and any number of calls.                      *)
EXTENDS MCDSStateMachine, SequenceTheorems, WellFoundedInduction, TLAPS


(* DSI's reports in a queue.                                                *)
Holds(q, t) == \E i \in 1..Len(q) : q[i].type = t
HoldsOpened(q) == Holds(q, "SuplEsOpened")
HoldsClosed(q) == Holds(q, "SuplEsClosed")

Opens(q, i) == i \in 1..Len(q) /\ q[i].type = "SuplEsOpened"
Closes(q, i) == i \in 1..Len(q) /\ q[i].type = "SuplEsClosed"

(* A call is reported ended at most once and after it was reported up, and  *)
(* no two calls are reported at a time.                                     *)
Ordered(q) ==
    \A i, j \in 1..Len(q) :
        /\ Closes(q, i) /\ Closes(q, j) => i = j
        /\ Opens(q, i) /\ Closes(q, j) => i < j

Unreported == ~HoldsOpened(msgq) /\ ~HoldsClosed(msgq)

(* A call that DSI did not start, which only fails where it may.            *)
Starved == ~calm /\ call.at = "idle" /\ Unreported

(* A call that DSI refused to stop, likewise.                               *)
RunsOn == ~calm /\ call.at \in {"starting", "up"} /\ call.unstopped

(* How far the reports of a call lag behind it in each state.               *)
Phase ==
    /\ mState = "Released" => call.at = "idle" /\ Unreported
    /\ mState = "Pending" =>
          \/ call.at = "starting" /\ ~call.unstopped /\ Unreported
          \/ /\ call.at = "up" /\ ~call.unstopped
             /\ HoldsOpened(msgq) /\ ~HoldsClosed(msgq)
          \/ call.at = "idle" /\ HoldsClosed(msgq)
          \/ Starved
    /\ mState = "Acquired" =>
          \/ call.at = "up" /\ ~call.unstopped /\ ~HoldsClosed(msgq)
          \/ call.at = "idle" /\ HoldsClosed(msgq)
    /\ mState = "Releasing" =>
          \/ call.at = "stopping" /\ ~HoldsClosed(msgq)
          \/ RunsOn /\ ~HoldsClosed(msgq)
          \/ call.at = "idle" /\ HoldsClosed(msgq)
          \/ Starved

(* A call that is not over, or whose end is still unread, has its handle.   *)
HandleKept == mState # "Released" /\ ~Starved => dsHandle = "live"

(* Only a machine that has left Released marks subscribers inactive, and    *)
(* somebody waits for the call or has it.                                   *)
Waiters ==
    /\ mState = "Released" => mInactive = {}
    /\ mState \in {"Pending", "Acquired"} => Active # {}

Inv == TypeOK /\ Ordered(msgq) /\ Phase /\ HandleKept /\ Waiters

-----------------------------------------------------------------------------
(* The reports in a queue that grows or loses its head.                     *)
Reports == {"SuplEsOpened", "SuplEsClosed"}

LEMMA OtherAppended ==
    ASSUME NEW q \in Seq(Messages), Ordered(q),
           NEW m \in Messages, m.type \notin Reports
    PROVE  /\ Append(q, m) \in Seq(Messages)
           /\ Ordered(Append(q, m))
           /\ HoldsOpened(Append(q, m)) <=> HoldsOpened(q)
           /\ HoldsClosed(Append(q, m)) <=> HoldsClosed(q)
<1>1. /\ Append(q, m) \in Seq(Messages)
      /\ Len(Append(q, m)) = Len(q) + 1 /\ Len(q) \in Nat
      /\ \A i \in 1..Len(q) : Append(q, m)[i] = q[i]
      /\ Append(q, m)[Len(q) + 1] = m
  BY AppendProperties, LenProperties
<1> QED
  BY <1>1 DEF Ordered, Opens, Closes, HoldsOpened, HoldsClosed, Holds, Reports

LEMMA OthersAppended ==
    ASSUME NEW q \in Seq(Messages), Ordered(q), NEW r \in Seq(Messages),
           \A i \in 1..Len(r) : r[i].type \notin Reports
    PROVE  /\ q \o r \in Seq(Messages)
           /\ Ordered(q \o r)
           /\ HoldsOpened(q \o r) <=> HoldsOpened(q)
           /\ HoldsClosed(q \o r) <=> HoldsClosed(q)
<1>1. /\ q \o r \in Seq(Messages)
      /\ Len(q) \in Nat /\ Len(r) \in Nat
      /\ Len(q \o r) = Len(q) + Len(r)
      /\ \A i \in 1..Len(q) + Len(r) :
            (q \o r)[i] = IF i <= Len(q) THEN q[i] ELSE r[i - Len(q)]
  BY ConcatProperties, LenProperties
<1>2. \A i \in 1..Len(q \o r) :
         \/ i \in 1..Len(q) /\ (q \o r)[i] = q[i]
         \/ i \notin 1..Len(q) /\ (q \o r)[i].type \notin Reports
  <2> SUFFICES ASSUME NEW i \in 1..Len(q \o r)
               PROVE  \/ i \in 1..Len(q) /\ (q \o r)[i] = q[i]
                      \/ i \notin 1..Len(q) /\ (q \o r)[i].type \notin Reports
    OBVIOUS
  <2>1. CASE i <= Len(q)
    BY <1>1, <2>1
  <2>2. CASE ~(i <= Len(q))
    <3>1. i - Len(q) \in 1..Len(r) /\ (q \o r)[i] = r[i - Len(q)]
      BY <1>1, <2>2
    <3> QED
      BY <1>1, <2>2, <3>1
  <2> QED
    BY <2>1, <2>2
<1>3. \A i \in 1..Len(q) : i \in 1..Len(q \o r) /\ (q \o r)[i] = q[i]
  BY <1>1
<1> QED
  BY <1>1, <1>2, <1>3
  DEF Ordered, Opens, Closes, HoldsOpened, HoldsClosed, Holds, Reports

LEMMA OpenedAppended ==
    ASSUME NEW q \in Seq(Messages), Ordered(q), ~HoldsClosed(q)
    PROVE  LET r == Append(q, [type |-> "SuplEsOpened"]) IN
           /\ r \in Seq(Messages) /\ Ordered(r)
           /\ HoldsOpened(r) /\ ~HoldsClosed(r)
<1> DEFINE m == [type |-> "SuplEsOpened"]
<1>1. m \in Messages /\ m.type = "SuplEsOpened"
  BY DEF Messages
<1> HIDE DEF m
<1>2. /\ Append(q, m) \in Seq(Messages)
      /\ Len(Append(q, m)) = Len(q) + 1 /\ Len(q) \in Nat
      /\ \A i \in 1..Len(q) : Append(q, m)[i] = q[i]
      /\ Append(q, m)[Len(q) + 1] = m
  BY <1>1, AppendProperties, LenProperties
<1>3. /\ Append(q, m) \in Seq(Messages) /\ Ordered(Append(q, m))
      /\ HoldsOpened(Append(q, m)) /\ ~HoldsClosed(Append(q, m))
  BY <1>1, <1>2 DEF Ordered, Opens, Closes, HoldsOpened, HoldsClosed, Holds
<1> QED
  BY <1>3 DEF m

LEMMA ClosedAppended ==
    ASSUME NEW q \in Seq(Messages), Ordered(q), ~HoldsClosed(q)
    PROVE  LET r == Append(q, [type |-> "SuplEsClosed"]) IN
           /\ r \in Seq(Messages) /\ Ordered(r)
           /\ HoldsOpened(r) <=> HoldsOpened(q)
           /\ HoldsClosed(r)
<1> DEFINE m == [type |-> "SuplEsClosed"]
<1>1. m \in Messages /\ m.type = "SuplEsClosed"
  BY DEF Messages
<1> HIDE DEF m
<1>2. /\ Append(q, m) \in Seq(Messages)
      /\ Len(Append(q, m)) = Len(q) + 1 /\ Len(q) \in Nat
      /\ \A i \in 1..Len(q) : Append(q, m)[i] = q[i]
      /\ Append(q, m)[Len(q) + 1] = m
  BY <1>1, AppendProperties, LenProperties
<1>3. /\ Append(q, m) \in Seq(Messages) /\ Ordered(Append(q, m))
      /\ HoldsOpened(Append(q, m)) <=> HoldsOpened(q)
      /\ HoldsClosed(Append(q, m))
  BY <1>1, <1>2 DEF Ordered, Opens, Closes, HoldsOpened, HoldsClosed, Holds
<1> QED
  BY <1>3 DEF m

LEMMA HeadTaken ==
    ASSUME NEW q \in Seq(Messages), Ordered(q), q # <<>>
    PROVE  /\ Tail(q) \in Seq(Messages) /\ Ordered(Tail(q))
           /\ Head(q).type \notin Reports =>
                 /\ HoldsOpened(Tail(q)) <=> HoldsOpened(q)
                 /\ HoldsClosed(Tail(q)) <=> HoldsClosed(q)
           /\ Head(q).type = "SuplEsOpened" =>
                 /\ HoldsOpened(q)
                 /\ HoldsClosed(Tail(q)) <=> HoldsClosed(q)
           /\ Head(q).type = "SuplEsClosed" =>
                 HoldsClosed(q) /\ ~HoldsOpened(Tail(q)) /\ ~HoldsClosed(Tail(q))
<1>1. /\ Tail(q) \in Seq(Messages) /\ Len(q) \in Nat \ {0}
      /\ Len(Tail(q)) = Len(q) - 1
      /\ \A i \in 1..Len(Tail(q)) : Tail(q)[i] = q[i + 1]
      /\ Head(q) = q[1]
  BY HeadTailProperties, EmptySeq
<1>2. \A i \in 1..Len(Tail(q)) : i + 1 \in 1..Len(q) /\ i + 1 # 1
  BY <1>1
<1>3. \A i \in 1..Len(q) : i = 1 \/ \E j \in 1..Len(Tail(q)) : i = j + 1
  <2>1. ASSUME NEW i \in 1..Len(q), i # 1
        PROVE  i - 1 \in 1..Len(Tail(q)) /\ i = (i - 1) + 1
    BY <1>1, <2>1
  <2> QED
    BY <2>1
<1>4. Ordered(Tail(q))
  BY <1>1, <1>2 DEF Ordered, Opens, Closes
<1>5. \A t : Holds(q, t) <=> Head(q).type = t \/ Holds(Tail(q), t)
  <2>1. ASSUME NEW t, Holds(q, t) PROVE Head(q).type = t \/ Holds(Tail(q), t)
    <3>1. PICK i \in 1..Len(q) : q[i].type = t
      BY <2>1 DEF Holds
    <3>2. CASE i = 1
      BY <3>1, <3>2, <1>1
    <3>3. ASSUME NEW j \in 1..Len(Tail(q)), i = j + 1
          PROVE  Holds(Tail(q), t)
      BY <3>1, <3>3, <1>1 DEF Holds
    <3> QED
      BY <3>2, <3>3, <1>3
  <2>2. ASSUME NEW t, Holds(Tail(q), t) PROVE Holds(q, t)
    BY <2>2, <1>1, <1>2 DEF Holds
  <2>3. ASSUME NEW t, Head(q).type = t PROVE Holds(q, t)
    <3>1. 1 \in 1..Len(q) /\ q[1].type = t
      BY <1>1, <2>3
    <3> QED
      BY <3>1 DEF Holds
  <2> QED
    BY <2>1, <2>2, <2>3
<1>7. Head(q).type = "SuplEsClosed" => ~HoldsClosed(Tail(q)) /\ ~HoldsOpened(Tail(q))
  BY <1>1, <1>2 DEF Ordered, Opens, Closes, HoldsOpened, HoldsClosed, Holds
<1> QED
  BY <1>1, <1>4, <1>5, <1>7 DEF HoldsOpened, HoldsClosed, Reports

-----------------------------------------------------------------------------
(* A set of numbers that is not empty has a least one.                      *)
Less == {ss \in Nat \X Nat : ss[1] < ss[2]}

LEMMA Least ==
    ASSUME NEW S \in SUBSET Nat, S # {}
    PROVE  \E i \in S : \A j \in S : i <= j
<1>1. IsWellFoundedOn(Less, Nat)
  BY NatLessThanWellFounded, Zenon DEF OpToRel, Less
<1>2. PICK i \in S : \A j \in S : ~(<<j, i>> \in Less)
  BY <1>1, WFMin
<1>3. \A j \in S : ~(j < i)
  BY <1>2 DEF Less
<1> QED
  BY <1>3

(* A search of a list that has active subscribers finds one.                *)
LEMMA FirstActiveFound ==
    ASSUME NEW list \in Seq(Handles), NEW inactive,
           FirstActive(list, inactive) # 0
             \/ \E i \in 1..Len(list) : list[i] \notin inactive
    PROVE  FirstActive(list, inactive) \in 1..Len(list)
<1> DEFINE I == {i \in 1..Len(list) : list[i] \notin inactive}
<1>1. FirstActive(list, inactive) = IF I # {} THEN Min(I) ELSE 0
  BY DEF FirstActive, SelectInSeq
<1>2. I # {}
  BY <1>1
<1>3. I \in SUBSET Nat
  BY LenProperties
<1>4. \E i \in I : \A j \in I : i <= j
  BY <1>2, <1>3, Least
<1>5. Min(I) \in I
  <2> HIDE DEF I
  <2> QED BY <1>4 DEF Min
<1> QED
  BY <1>1, <1>2, <1>5

(* What is left of a list: its members but the inactive ones, once each.    *)
LeftOf(list, inactive, n, s) ==
    /\ s \in Seq(Handles)
    /\ \A h : (\E k \in 1..Len(s) : s[k] = h)
              <=> (\E i \in 1..n : list[i] = h /\ h \notin inactive)
    /\ IsInjective(s)

LEMMA LeftOfNext ==
    ASSUME NEW list \in Seq(Handles), IsInjective(list), NEW inactive,
           NEW i \in 1..Len(list), NEW s, LeftOf(list, inactive, i - 1, s)
    PROVE  LeftOf(list, inactive, i, IF list[i] \in inactive THEN s
                                     ELSE Append(s, list[i]))
<1>1. list[i] \in Handles /\ Len(list) \in Nat /\ DOMAIN list = 1..Len(list)
  BY ElementOfSeq, LenProperties
<1>2. CASE list[i] \in inactive
  BY <1>1, <1>2 DEF LeftOf
<1>3. CASE list[i] \notin inactive
  <2> DEFINE h == list[i]
             r == Append(s, h)
  <2>1. s \in Seq(Handles) /\ Len(s) \in Nat /\ DOMAIN s = 1..Len(s)
    BY LenProperties DEF LeftOf
  <2>2. /\ r \in Seq(Handles) /\ Len(r) = Len(s) + 1
        /\ DOMAIN r = 1..Len(s) + 1
        /\ \A k \in 1..Len(s) : r[k] = s[k]
        /\ r[Len(s) + 1] = h
    BY <1>1, <2>1, AppendProperties, LenProperties
  <2>3. \A k \in 1..Len(s) : s[k] # h
    <3> SUFFICES ASSUME NEW k \in 1..Len(s), s[k] = h PROVE FALSE
      OBVIOUS
    <3>1. PICK j \in 1..i - 1 : list[j] = h
      BY DEF LeftOf
    <3>2. j \in 1..Len(list) /\ j # i
      BY <1>1, <3>1
    <3> QED
      BY <1>1, <3>1, <3>2 DEF IsInjective
  <2>4. IsInjective(r)
    <3> HIDE DEF r, h
    <3> QED BY <2>1, <2>2, <2>3 DEF LeftOf, IsInjective
  <2>5. ASSUME NEW g
        PROVE  (\E k \in 1..Len(r) : r[k] = g)
               <=> (\E j \in 1..i : list[j] = g /\ g \notin inactive)
    <3>1. (\E k \in 1..Len(r) : r[k] = g) <=> g = h \/ \E k \in 1..Len(s) : s[k] = g
      <4> HIDE DEF r, h
      <4> QED BY <2>1, <2>2
    <3>2. (\E j \in 1..i : list[j] = g /\ g \notin inactive)
          <=> g = h \/ \E j \in 1..i - 1 : list[j] = g /\ g \notin inactive
      BY <1>1, <1>3
    <3> QED
      BY <3>1, <3>2 DEF LeftOf
  <2>6. LeftOf(list, inactive, i, r)
    <3> HIDE DEF r
    <3> QED BY <2>2, <2>4, <2>5 DEF LeftOf
  <2> QED
    BY <1>3, <2>6
<1> QED
  BY <1>2, <1>3

(* The function that Remaining picks, up to n.                              *)
Builds(list, inactive, n, f) ==
    f = [i \in 0..n |-> IF i = 0 THEN <<>>
                        ELSE IF list[i] \in inactive THEN f[i - 1]
                        ELSE Append(f[i - 1], list[i])]

LEMMA BuildsExists ==
    ASSUME NEW list, NEW inactive, NEW n \in Nat
    PROVE  \E f : Builds(list, inactive, n, f)
<1> DEFINE S == {m \in Nat : ~\E f : Builds(list, inactive, m, f)}
<1> SUFFICES ASSUME S # {} PROVE FALSE
  OBVIOUS
<1>1. PICK m \in S : \A j \in S : m <= j
  BY Least
<1>2. CASE m = 0
  <2> DEFINE f == [i \in 0..0 |-> <<>>]
  <2>1. Builds(list, inactive, 0, f)
    BY DEF Builds
  <2> HIDE DEF f
  <2> QED
    BY <1>1, <1>2, <2>1
<1>3. CASE m # 0
  <2>1. m \in Nat /\ m - 1 \in Nat /\ m - 1 \notin S
    BY <1>1, <1>3
  <2>2. PICK f : Builds(list, inactive, m - 1, f)
    BY <2>1
  <2> DEFINE g == [i \in 0..m |->
                     IF i < m THEN f[i]
                     ELSE IF list[i] \in inactive THEN f[i - 1]
                     ELSE Append(f[i - 1], list[i])]
             G(i) == IF i = 0 THEN <<>>
                     ELSE IF list[i] \in inactive THEN g[i - 1]
                     ELSE Append(g[i - 1], list[i])
  <2>3. \A i \in 0..m - 1 :
           f[i] = IF i = 0 THEN <<>>
                  ELSE IF list[i] \in inactive THEN f[i - 1]
                  ELSE Append(f[i - 1], list[i])
    BY <2>2 DEF Builds
  <2>4. \A i \in 0..m : i < m => g[i] = f[i]
    BY <2>1
  <2>5. \A i \in 0..m : g[i] = G(i)
    <3> SUFFICES ASSUME NEW i \in 0..m PROVE g[i] = G(i)
      OBVIOUS
    <3>1. CASE i < m
      <4>1. i \in 0..m - 1 /\ g[i] = f[i] /\ (i # 0 => g[i - 1] = f[i - 1])
        BY <2>1, <2>4, <3>1
      <4> HIDE DEF g
      <4> QED BY <4>1, <2>3
    <3>2. CASE i = m
      <4>1. m - 1 \in 0..m /\ g[m - 1] = f[m - 1]
        BY <2>1, <2>4
      <4>2. g[m] = IF list[m] \in inactive THEN f[m - 1]
                   ELSE Append(f[m - 1], list[m])
        BY <2>1
      <4> HIDE DEF g
      <4> QED BY <4>1, <4>2, <1>3, <3>2
    <3> QED
      BY <3>1, <3>2, <2>1
  <2>6. g = [i \in 0..m |-> g[i]]
    OBVIOUS
  <2>7. Builds(list, inactive, m, g)
    <3> HIDE DEF g
    <3>1. g = [i \in 0..m |-> G(i)]
      <4> HIDE DEF G
      <4> QED BY <2>5, <2>6
    <3> QED BY <3>1 DEF Builds
  <2> HIDE DEF g
  <2> QED
    BY <1>1, <2>7
<1> QED
  BY <1>2, <1>3

LEMMA RemainingLeft ==
    ASSUME NEW list \in Seq(Handles), IsInjective(list), NEW inactive
    PROVE  LeftOf(list, inactive, Len(list), Remaining(list, inactive))
<1>1. Len(list) \in Nat
  BY LenProperties
<1>2. PICK f : Builds(list, inactive, Len(list), f)
           /\ Remaining(list, inactive) = f[Len(list)]
  <2> DEFINE f == CHOOSE f : Builds(list, inactive, Len(list), f)
  <2>1. Builds(list, inactive, Len(list), f)
    BY <1>1, BuildsExists
  <2>2. Remaining(list, inactive) = f[Len(list)]
    BY DEF Remaining, Builds
  <2> HIDE DEF f
  <2> QED
    BY <2>1, <2>2
<1>3. \A i \in 0..Len(list) :
         f[i] = IF i = 0 THEN <<>>
                ELSE IF list[i] \in inactive THEN f[i - 1]
                ELSE Append(f[i - 1], list[i])
  BY <1>2 DEF Builds
<1> DEFINE S == {m \in 0..Len(list) : ~LeftOf(list, inactive, m, f[m])}
<1>4. S = {}
  <2> SUFFICES ASSUME S # {} PROVE FALSE
    OBVIOUS
  <2>0. S \in SUBSET Nat
    BY <1>1
  <2>1. PICK m \in S : \A j \in S : m <= j
    <3> HIDE DEF S
    <3> QED BY <2>0, Least
  <2>2. CASE m = 0
    <3>1. f[0] = <<>>
      BY <1>1, <1>3
    <3>2. LeftOf(list, inactive, 0, <<>>)
      BY DEF LeftOf, IsInjective
    <3> QED
      BY <2>1, <2>2, <3>1, <3>2
  <2>3. CASE m # 0
    <3>1. m \in 1..Len(list) /\ m - 1 \in 0..Len(list) /\ m - 1 \notin S
      BY <1>1, <2>1, <2>3
    <3>2. LeftOf(list, inactive, m - 1, f[m - 1])
      BY <3>1
    <3>3. f[m] = IF list[m] \in inactive THEN f[m - 1]
                 ELSE Append(f[m - 1], list[m])
      BY <1>3, <3>1
    <3> QED
      BY <2>1, <3>1, <3>2, <3>3, LeftOfNext
  <2> QED
    BY <2>2, <2>3
<1> QED
  BY <1>1, <1>2, <1>4

(* The fallbacks of a list.                                                 *)
LEMMA FallbacksPlain ==
    ASSUME NEW list \in Seq(Handles)
    PROVE  /\ Fallbacks(list) \in Seq(Messages)
           /\ \A i \in 1..Len(Fallbacks(list)) : Fallbacks(list)[i].type \notin Reports
<1>1. Len(list) \in Nat /\ \A i \in 1..Len(list) : list[i] \in Handles
  BY ElementOfSeq, LenProperties
<1>2. \A i \in 1..Len(list) : Msg("RequestATL", list[i]) \in Messages
  BY <1>1 DEF Msg, Messages
<1>3. Fallbacks(list) \in [1..Len(list) -> Messages]
  BY <1>2 DEF Fallbacks
<1>4. Fallbacks(list) \in Seq(Messages)
  BY <1>1, <1>3, SeqDef
<1>5. Len(Fallbacks(list)) = Len(list)
  BY <1>1, <1>4, LenProperties DEF Fallbacks
<1> QED
  BY <1>4, <1>5 DEF Fallbacks, Msg, Reports

LEMMA AddedIsList ==
    ASSUME mSubscribers \in Seq(Handles), IsInjective(mSubscribers), NEW h \in Handles
    PROVE  /\ Added(h) \in Seq(Handles) /\ IsInjective(Added(h))
           /\ ToSet(Added(h)) = Listed \cup {h}
<1>1. /\ Len(mSubscribers) \in Nat /\ DOMAIN mSubscribers = 1..Len(mSubscribers)
  BY LenProperties
<1>2. CASE h \in Listed
  BY <1>2 DEF Added, Listed
<1>3. CASE h \notin Listed
  <2> DEFINE r == <<h>> \o mSubscribers
  <2>1. /\ r \in Seq(Handles) /\ Len(r) = Len(mSubscribers) + 1
        /\ DOMAIN r = 1..Len(mSubscribers) + 1
        /\ r[1] = h
        /\ \A i \in 1..Len(mSubscribers) + 1 : i # 1 => r[i] = mSubscribers[i - 1]
    <3>1. <<h>> \in Seq(Handles) /\ Len(<<h>>) = 1 /\ <<h>>[1] = h
      OBVIOUS
    <3> DEFINE o == <<h>>
    <3> HIDE DEF o
    <3>2. /\ o \o mSubscribers \in Seq(Handles)
          /\ Len(o \o mSubscribers) = Len(mSubscribers) + 1
          /\ \A i \in 1..Len(mSubscribers) + 1 :
                (o \o mSubscribers)[i] = IF i <= 1 THEN o[i] ELSE mSubscribers[i - 1]
      BY <1>1, <3>1, ConcatProperties DEF o
    <3>3. DOMAIN (o \o mSubscribers) = 1..Len(mSubscribers) + 1
      BY <3>2, LenProperties
    <3>4. o[1] = h
      BY DEF o
    <3> QED
      BY <1>1, <3>2, <3>3, <3>4 DEF o
  <2> HIDE DEF r
  <2>2. \A i \in 1..Len(mSubscribers) : mSubscribers[i] # h
          /\ r[i + 1] = mSubscribers[i]
    BY <1>1, <1>3, <2>1 DEF Listed, ToSet
  <2>3. IsInjective(r)
    <3> SUFFICES ASSUME NEW a \in 1..Len(mSubscribers) + 1,
                        NEW b \in 1..Len(mSubscribers) + 1, r[a] = r[b]
                 PROVE  a = b
      BY <2>1 DEF IsInjective
    <3>1. CASE a = 1 \/ b = 1
      <4>1. a # 1 => a - 1 \in 1..Len(mSubscribers)
        BY <1>1
      <4>2. b # 1 => b - 1 \in 1..Len(mSubscribers)
        BY <1>1
      <4> QED
        BY <3>1, <4>1, <4>2, <2>1, <2>2
    <3>2. CASE a # 1 /\ b # 1
      <4>1. a - 1 \in 1..Len(mSubscribers) /\ b - 1 \in 1..Len(mSubscribers)
        BY <1>1, <3>2
      <4>2. mSubscribers[a - 1] = mSubscribers[b - 1]
        BY <2>1, <3>2
      <4>3. a - 1 = b - 1
        BY <1>1, <4>1, <4>2 DEF IsInjective
      <4> QED
        BY <4>3
    <3> QED
      BY <3>1, <3>2
  <2>4. ToSet(r) = Listed \cup {h}
    <3>1. ASSUME NEW g, g \in ToSet(r) PROVE g \in Listed \cup {h}
      <4>1. PICK i \in 1..Len(mSubscribers) + 1 : r[i] = g
        BY <2>1, <3>1 DEF ToSet
      <4>2. CASE i = 1
        BY <2>1, <4>1, <4>2
      <4>3. CASE i # 1
        <5>1. i - 1 \in 1..Len(mSubscribers) /\ mSubscribers[i - 1] = g
          BY <1>1, <2>1, <4>1, <4>3
        <5> QED
          BY <1>1, <5>1 DEF Listed, ToSet
      <4> QED
        BY <4>2, <4>3
    <3>2. ASSUME NEW g, g \in Listed PROVE g \in ToSet(r)
      <4>1. PICK i \in 1..Len(mSubscribers) : mSubscribers[i] = g
        BY <1>1, <3>2 DEF Listed, ToSet
      <4>2. i + 1 \in 1..Len(mSubscribers) + 1 /\ r[i + 1] = g
        BY <1>1, <2>2, <4>1
      <4> QED
        BY <2>1, <4>2 DEF ToSet
    <3>3. h \in ToSet(r)
      BY <1>1, <2>1 DEF ToSet
    <3> QED
      BY <3>1, <3>2, <3>3
  <2> QED
    BY <1>3, <2>1, <2>3, <2>4 DEF Added, r
<1> QED
  BY <1>2, <1>3

-----------------------------------------------------------------------------
(* A call as it begins and as it ends.                                      *)
CallType ==
    [at : {"idle", "starting", "up", "stopping"},
     connects : 0..ConnectedEvents, unstopped : BOOLEAN]

LEMMA CallTypes ==
    /\ NoCall.at = "idle" /\ NewCall.at = "starting" /\ ~NewCall.unstopped
    /\ NoCall \in CallType /\ NewCall \in CallType
BY DEF NoCall, NewCall, CallType, ConnectedEvents

LEMMA InitInv == Init => Inv
<1> SUFFICES ASSUME Init PROVE Inv
  OBVIOUS
<1>1. /\ <<>> \in Seq(Handles) /\ <<>> \in Seq(Messages)
      /\ Len(<<>>) = 0 /\ DOMAIN <<>> = {}
  BY EmptySeq, LenProperties
<1>2. ToSet(mSubscribers) = {} /\ IsInjective(mSubscribers)
  BY <1>1 DEF Init, ToSet, IsInjective
<1>3. TypeOK
  BY <1>1, <1>2, CallTypes DEF Init, TypeOK, CallType, MAX_START_DATA_CALL_RETRIES
<1>4. Unreported /\ Ordered(msgq)
  BY <1>1 DEF Init, Unreported, HoldsOpened, HoldsClosed, Holds, Ordered
<1> QED
  BY <1>3, <1>4, CallTypes DEF Init, Inv, Phase, HandleKept, Waiters

(* The modem, its restart and the timers: one message more, at most, that   *)
(* is no report, and the rest as it was.                                    *)
Machine == <<mState, mSubscribers, mInactive, dsHandle, call, calm>>

LEMMA QueuedInv ==
    ASSUME Inv, TypeOK', UNCHANGED Machine,
           \/ msgq' = msgq
           \/ \E m \in Messages : m.type \notin Reports /\ msgq' = Append(msgq, m)
    PROVE  Inv'
<1>1. /\ Ordered(msgq')
      /\ HoldsOpened(msgq') <=> HoldsOpened(msgq)
      /\ HoldsClosed(msgq') <=> HoldsClosed(msgq)
  <2>1. CASE msgq' = msgq
    BY <2>1 DEF Inv
  <2>2. ASSUME NEW m \in Messages, m.type \notin Reports, msgq' = Append(msgq, m)
        PROVE  /\ Ordered(msgq')
               /\ HoldsOpened(msgq') <=> HoldsOpened(msgq)
               /\ HoldsClosed(msgq') <=> HoldsClosed(msgq)
    BY <2>2, OtherAppended DEF Inv, TypeOK
  <2> QED
    BY <2>1, <2>2
<1>2. Ordered(msgq)'
  BY <1>1 DEF Ordered, Opens, Closes
<1>3. /\ HoldsOpened(msgq)' <=> HoldsOpened(msgq)
      /\ HoldsClosed(msgq)' <=> HoldsClosed(msgq)
  BY <1>1 DEF HoldsOpened, HoldsClosed, Holds
<1> QED
  BY <1>2, <1>3 DEF Inv, Phase, HandleKept, Waiters, Unreported, Starved, RunsOn,
     Machine, Active, Listed

LEMMA MsgIsPlain ==
    ASSUME NEW h \in Handles, NEW t \in {"RequestSuplEs", "RequestATL", "ReleaseATL"}
    PROVE  Msg(t, h) \in Messages /\ Msg(t, h).type \notin Reports
BY DEF Msg, Messages, Reports

LEMMA ModemInv ==
    ASSUME Inv, NEW h \in Handles, Modem(h)
    PROVE  Inv'
<1> USE DEF Inv, TypeOK, machine, dsi, environment
<1>1. \E t \in {"RequestSuplEs", "ReleaseATL"} : msgq' = Append(msgq, Msg(t, h))
  BY DEF Modem, ModemRequest, ModemRelease
<1>2. \E m \in Messages : m.type \notin Reports /\ msgq' = Append(msgq, m)
  BY <1>1, MsgIsPlain
<1>3. msgq' \in Seq(Messages)
  BY <1>2, AppendProperties
<1>4. /\ UNCHANGED <<machine, timers, dsi, environment, agnss>>
      /\ used' \subseteq Handles
      /\ modem' \in [Handles -> {"idle", "asked", "open"}]
  BY DEF Modem, ModemRequest, ModemRelease
<1>5. TypeOK'
  BY <1>3, <1>4
<1> QED
  BY <1>2, <1>4, <1>5, QueuedInv DEF Machine

LEMMA EngineUpInv ==
    ASSUME Inv, EngineUp
    PROVE  Inv'
<1> USE DEF Inv, TypeOK, machine, dsi, environment
<1>1. TypeOK'
  BY DEF EngineUp
<1> QED
  BY <1>1, QueuedInv DEF EngineUp, Machine

LEMMA TimerInv ==
    ASSUME Inv, TimerFires \/ TimerLost
    PROVE  Inv'
<1> USE DEF Inv, TypeOK, machine, dsi, environment
<1>1. \/ msgq' = msgq
      \/ \E m \in Messages : m.type \notin Reports /\ msgq' = Append(msgq, m)
  <2>1. CASE TimerLost
    BY <2>1 DEF TimerLost
  <2>2. CASE TimerFires
    <3> DEFINE i == FirstActive(mSubscribers, mInactive)
    <3>1. CASE i = 0
      BY <2>2, <3>1 DEF TimerFires
    <3>2. CASE i # 0
      <4>1. mSubscribers[i] \in Handles
        BY <3>2, FirstActiveFound, ElementOfSeq
      <4>2. msgq' = Append(msgq, Msg("RequestSuplEs", mSubscribers[i]))
        BY <2>2, <3>2 DEF TimerFires
      <4> QED
        BY <4>1, <4>2, MsgIsPlain
    <3> QED
      BY <3>1, <3>2
  <2> QED
    BY <2>1, <2>2
<1>2. msgq' \in Seq(Messages)
  <2>1. msgq \in Seq(Messages)
    OBVIOUS
  <2> QED
    <3> HIDE DEF Inv, TypeOK
    <3> QED
      BY <1>1, <2>1, AppendProperties
<1>3. UNCHANGED <<machine, dsi, environment, agnss, modem, used>> /\ timers' \in Nat
  BY DEF TimerFires, TimerLost
<1>4. TypeOK'
  BY <1>2, <1>3
<1> QED
  BY <1>1, <1>3, <1>4, QueuedInv DEF Machine

LEMMA AgnssInv ==
    ASSUME Inv, AgnssGrants \/ AgnssEnds
    PROVE  Inv'
<1> USE DEF Inv, TypeOK, machine, dsi, environment
<1>1. UNCHANGED <<machine, dsi, environment, timers, used, msgq>>
        /\ agnss' \subseteq Handles
  BY DEF AgnssGrants, AgnssEnds
<1>2. modem' \in [Handles -> {"idle", "asked", "open"}]
  BY DEF AgnssGrants, AgnssEnds, ToldOpen, ToldFailed
<1>3. TypeOK'
  BY <1>1, <1>2
<1> QED
  BY <1>1, <1>3, QueuedInv DEF Machine

-----------------------------------------------------------------------------
(* DSI's reports.                                                           *)
LEMMA ConnectedInv ==
    ASSUME Inv, CallConnected \/ CallConnectedAgain
    PROVE  Inv'
<1> USE DEF Inv, TypeOK, machine, dsi, environment
<1>1. /\ ~HoldsClosed(msgq) /\ mState # "Released" /\ dsHandle = "live"
      /\ call.at # "idle"
  BY DEF CallConnected, CallConnectedAgain, Phase, Starved, RunsOn, HandleKept,
     Unreported
<1>2. PICK to \in {"up", "stopping"} :
          /\ Connects(to)
          /\ to = "up" => call.at \in {"starting", "up"}
          /\ to = "stopping" => call.at = "stopping"
  BY DEF CallConnected, CallConnectedAgain
<1>3. /\ msgq' \in Seq(Messages) /\ Ordered(msgq')
      /\ HoldsOpened(msgq') /\ ~HoldsClosed(msgq')
  BY <1>1, <1>2, OpenedAppended DEF Connects
<1>4. /\ call'.at = to
      /\ call'.unstopped = call.unstopped
      /\ call' \in CallType
  <2>1. /\ call \in CallType /\ call.connects < ConnectedEvents
        /\ call' = [call EXCEPT !.at = to, !.connects = @ + 1]
        /\ to \in {"idle", "starting", "up", "stopping"}
    BY <1>2 DEF Connects, CallType
  <2> HIDE DEF Inv, TypeOK
  <2>2. call.connects + 1 \in 0..ConnectedEvents
    BY <2>1 DEF CallType, ConnectedEvents
  <2> QED
    BY <2>1, <2>2 DEF CallType
<1>5. UNCHANGED <<machine, timers, dsHandle, agnss, modem, used, environment>>
  BY <1>2 DEF Connects
<1>6. TypeOK'
  BY <1>3, <1>4, <1>5 DEF CallType
<1>7. Phase' /\ HandleKept'
  <2>1. /\ HoldsOpened(msgq)' /\ ~HoldsClosed(msgq)'
        /\ UNCHANGED <<mState, dsHandle, calm>>
    BY <1>3, <1>5 DEF HoldsOpened, HoldsClosed, Holds
  <2> HIDE DEF TypeOK
  <2>2. CASE to = "up"
    BY <1>1, <1>2, <1>4, <2>1, <2>2
    DEF Phase, HandleKept, Unreported, Starved, RunsOn
  <2>3. CASE to = "stopping"
    BY <1>1, <1>2, <1>4, <2>1, <2>3
    DEF Phase, HandleKept, Unreported, Starved, RunsOn
  <2> QED
    BY <1>2, <2>2, <2>3
<1>8. Waiters'
  BY <1>5 DEF Waiters, Active, Listed
<1> QED
  BY <1>3, <1>6, <1>7, <1>8

LEMMA EndedInv ==
    ASSUME Inv, CallFailed \/ CallStopped \/ CallLost
    PROVE  Inv'
<1> USE DEF Inv, TypeOK, machine, dsi, environment
<1>1. /\ \/ mState = "Pending"
         \/ mState = "Acquired"
         \/ mState = "Releasing"
      /\ ~HoldsClosed(msgq) /\ dsHandle = "live"
  BY DEF CallFailed, CallStopped, CallLost, Phase, HandleKept, Starved, RunsOn,
     Unreported
<1>2. CallEnded
  BY DEF CallFailed, CallStopped, CallLost
<1>3. /\ msgq' \in Seq(Messages) /\ Ordered(msgq')
      /\ HoldsOpened(msgq') <=> HoldsOpened(msgq)
      /\ HoldsClosed(msgq')
  BY <1>1, <1>2, ClosedAppended DEF CallEnded
<1>4. TypeOK'
  BY <1>2, <1>3, CallTypes DEF CallEnded, CallType
<1>5. Phase' /\ HandleKept'
  BY <1>1, <1>2, <1>3, CallTypes
  DEF CallEnded, Phase, HandleKept, Unreported, Starved, RunsOn
<1>6. Waiters'
  BY <1>2 DEF CallEnded, Waiters, Active, Listed
<1> QED
  BY <1>3, <1>4, <1>5, <1>6

-----------------------------------------------------------------------------
(* The message thread takes the head of its queue.                          *)
LEMMA TakenRest ==
    ASSUME Inv, NEW t, Take(t)
    PROVE  /\ Rest \in Seq(Messages) /\ Ordered(Rest)
           /\ t \notin Reports =>
                 /\ HoldsOpened(Rest) <=> HoldsOpened(msgq)
                 /\ HoldsClosed(Rest) <=> HoldsClosed(msgq)
           /\ t = "SuplEsOpened" =>
                 /\ HoldsOpened(msgq)
                 /\ HoldsClosed(Rest) <=> HoldsClosed(msgq)
           /\ t = "SuplEsClosed" =>
                 HoldsClosed(msgq) /\ ~HoldsOpened(Rest) /\ ~HoldsClosed(Rest)
BY HeadTaken DEF Inv, TypeOK, Take, Rest

(* What a call that is asked for leaves behind: it is starting on a live    *)
(* handle, or there is none, and only a fallback is queued.                 *)
LEMMA RequestOutcome ==
    ASSUME TypeOK, NEW q \in Seq(Messages), Ordered(q), ~HoldsOpened(q),
             ~HoldsClosed(q),
           NEW old \in {"null", "hollow", "live"},
           NEW list \in Seq(Handles), NEW inactive,
           \E i \in 1..Len(list) : list[i] \notin inactive,
           RequestSucceeds(q) \/ RequestFails(old, q, list, inactive)
    PROVE  /\ mRetries' \in 0..MAX_START_DATA_CALL_RETRIES /\ timers' \in Nat
           /\ dsHandle' \in {"null", "hollow", "live"}
           /\ msgq' \in Seq(Messages) /\ Ordered(msgq')
           /\ ~HoldsOpened(msgq') /\ ~HoldsClosed(msgq')
           /\ RequestSucceeds(q) => call' = NewCall /\ dsHandle' = "live"
           /\ RequestFails(old, q, list, inactive) => call' = NoCall /\ ~calm
<1>1. CASE RequestSucceeds(q)
  <2>1. ~RequestFails(old, q, list, inactive)
    BY <1>1, CallTypes DEF RequestSucceeds, RequestFails, RequestBusy, RequestRefused
  <2> QED
    BY <1>1, <2>1 DEF RequestSucceeds, TypeOK
<1>2. CASE RequestFails(old, q, list, inactive)
  <2>1. PICK conn \in Handles : RequestBusy(q, conn) \/ RequestRefused(old, q, conn)
    <3>1. list[FirstActive(list, inactive)] \in Handles
      BY FirstActiveFound, ElementOfSeq
    <3> QED
      BY <1>2, <3>1 DEF RequestFails
  <2>2. <<conn>> \in Seq(Handles)
    OBVIOUS
  <2> DEFINE back == Fallbacks(<<conn>>)
  <2>3. /\ q \o back \in Seq(Messages) /\ Ordered(q \o back)
        /\ ~HoldsOpened(q \o back) /\ ~HoldsClosed(q \o back)
    <3>1. back \in Seq(Messages)
            /\ \A i \in 1..Len(back) : back[i].type \notin Reports
      BY <2>2, FallbacksPlain
    <3> HIDE DEF back
    <3> QED BY <3>1, OthersAppended
  <2>4. msgq' = q \/ msgq' = q \o back
    BY <2>1 DEF RequestBusy, RequestRefused
  <2>5. /\ mRetries' \in 0..MAX_START_DATA_CALL_RETRIES /\ timers' \in Nat
        /\ dsHandle' \in {"null", "hollow", "live"}
        /\ call' = NoCall
    BY <2>1 DEF RequestBusy, RequestRefused, TypeOK, MAX_START_DATA_CALL_RETRIES
  <2>6. ~calm
    BY <2>1 DEF RequestBusy, RequestRefused, Outcomes
  <2>7. ~RequestSucceeds(q)
    BY <2>5, CallTypes DEF RequestSucceeds
  <2> QED
    BY <2>3, <2>4, <2>5, <2>6, <2>7
<1> QED
  BY <1>1, <1>2

LEMMA SubscribeInv ==
    ASSUME Inv, NEW h \in Handles, ProcRequestSuplEs(h)
    PROVE  Inv'
<1> USE DEF Inv, TypeOK, machine, dsi, environment
<1>1. /\ Rest \in Seq(Messages) /\ Ordered(Rest)
      /\ HoldsOpened(Rest) <=> HoldsOpened(msgq)
      /\ HoldsClosed(Rest) <=> HoldsClosed(msgq)
  BY TakenRest DEF ProcRequestSuplEs, Reports
<1>2. /\ Added(h) \in Seq(Handles) /\ IsInjective(Added(h))
      /\ ToSet(Added(h)) = Listed \cup {h}
  BY AddedIsList
<1>3. mSubscribers' = Added(h) /\ mInactive' = mInactive
      /\ UNCHANGED <<agnss, used, environment>>
  BY DEF ProcRequestSuplEs, SubscribeReleased, SubscribeWaiting, SubscribeAcquired
<1>4. /\ mSubscribers' \in Seq(Handles) /\ IsInjective(mSubscribers')
      /\ mInactive' \subseteq ToSet(mSubscribers')
      /\ Active' = (Listed \cup {h}) \ mInactive
  BY <1>2, <1>3 DEF Active, Listed
<1>5. CASE SubscribeReleased(h)
  <2>1. mInactive = {} /\ ~HoldsOpened(Rest) /\ ~HoldsClosed(Rest)
    BY <1>1, <1>5 DEF SubscribeReleased, Waiters, Phase, Unreported
  <2>2. \E i \in 1..Len(Added(h)) : Added(h)[i] \notin mInactive
    <3>1. DOMAIN Added(h) = 1..Len(Added(h)) /\ h \in ToSet(Added(h))
      BY <1>2, LenProperties
    <3> QED
      BY <2>1, <3>1 DEF ToSet
  <2>3. \/ RequestSucceeds(Rest) /\ mState' = "Pending"
        \/ RequestFails(dsHandle, Rest, Added(h), mInactive) /\ mState' = "Released"
    BY <1>5 DEF SubscribeReleased
  <2>4. /\ mRetries' \in 0..MAX_START_DATA_CALL_RETRIES /\ timers' \in Nat
        /\ dsHandle' \in {"null", "hollow", "live"}
        /\ msgq' \in Seq(Messages) /\ Ordered(msgq')
        /\ ~HoldsOpened(msgq') /\ ~HoldsClosed(msgq')
        /\ RequestSucceeds(Rest) => call' = NewCall /\ dsHandle' = "live"
        /\ RequestFails(dsHandle, Rest, Added(h), mInactive) => call' = NoCall
              /\ ~calm
    <3>1. TypeOK /\ dsHandle \in {"null", "hollow", "live"}
      OBVIOUS
    <3> QED
      <4> HIDE DEF Inv, TypeOK
      <4> QED
        BY <1>1, <1>2, <2>1, <2>2, <2>3, <3>1, RequestOutcome
  <2>5. TypeOK'
    BY <1>3, <1>4, <1>5, <2>3, <2>4, CallTypes DEF SubscribeReleased, CallType
  <2>6. Phase' /\ HandleKept'
    BY <2>3, <2>4, CallTypes DEF Phase, HandleKept, Unreported, Starved, RunsOn
  <2>7. Waiters'
    BY <1>3, <1>4, <2>1, <2>3 DEF Waiters
  <2> QED
    BY <2>4, <2>5, <2>6, <2>7
<1>6. CASE SubscribeWaiting(h) \/ SubscribeAcquired(h)
  <2>1. msgq' = Rest /\ UNCHANGED <<mState, mRetries, timers, dsi, calm>>
    BY <1>3, <1>6 DEF SubscribeWaiting, SubscribeAcquired
  <2>2. modem' \in [Handles -> {"idle", "asked", "open"}]
    BY <1>6 DEF SubscribeWaiting, SubscribeAcquired, ToldOpen
  <2>3. TypeOK'
    BY <1>1, <1>3, <1>4, <2>1, <2>2
  <2>4. Phase' /\ HandleKept'
    BY <1>1, <2>1 DEF Phase, HandleKept, Unreported, Starved, RunsOn
  <2>5. Waiters'
    BY <1>3, <1>4, <2>1, <1>6 DEF Waiters, SubscribeWaiting, SubscribeAcquired, Active
  <2> QED
    BY <1>1, <2>1, <2>3, <2>4, <2>5
<1> QED
  BY <1>5, <1>6 DEF ProcRequestSuplEs

LEMMA UnsubscribeInv ==
    ASSUME Inv, NEW h \in Handles, ProcReleaseATL(h)
    PROVE  Inv'
<1> USE DEF Inv, TypeOK, machine, dsi, environment
<1>1. /\ Rest \in Seq(Messages) /\ Ordered(Rest)
      /\ HoldsOpened(Rest) <=> HoldsOpened(msgq)
      /\ HoldsClosed(Rest) <=> HoldsClosed(msgq)
  BY TakenRest DEF ProcReleaseATL, Reports
<1>2. /\ msgq' = Rest /\ UNCHANGED <<timers, modem, used, environment>>
      /\ agnss' \subseteq Handles
  BY DEF ProcReleaseATL
<1>3. CASE UNCHANGED <<machine, dsi>>
  <2>1. TypeOK'
    BY <1>1, <1>2, <1>3
  <2> QED
    BY <1>1, <1>2, <1>3, <2>1
    DEF Phase, HandleKept, Unreported, Starved, RunsOn, Waiters, Active, Listed
<1>4. CASE /\ h \in Listed /\ Unsubscribe(h) /\ mState # "Released"
           /\ mInactive' = mInactive \cup {h} /\ UNCHANGED <<mSubscribers, mRetries>>
  <2> DEFINE last == Listed \subseteq mInactive \cup {h} /\ mState # "Releasing"
  <2>1. /\ mState' = IF last THEN "Releasing" ELSE mState
        /\ ~last \/ call.at \notin {"starting", "up"} => call' = call
        /\ last /\ call.at \in {"starting", "up"} =>
              \/ call' = [call EXCEPT !.at = "stopping"]
              \/ ~calm /\ call' = [call EXCEPT !.unstopped = TRUE]
        /\ dsHandle' = dsHandle
    BY <1>4 DEF Unsubscribe, StopDataCall
  <2>5. /\ call' \in CallType
        /\ ~last \/ call.at \notin {"starting", "up"} => call' = call
        /\ last /\ call.at \in {"starting", "up"} =>
              call'.at = "stopping" \/ RunsOn'
    BY <1>2, <2>1 DEF RunsOn, CallType
  <2>2. TypeOK'
    BY <1>1, <1>2, <1>4, <2>1, <2>5 DEF Listed, CallType
  <2>3. Phase' /\ HandleKept'
    <3>1. CASE last
      BY <1>1, <1>2, <1>4, <2>1, <2>5, <3>1
      DEF Phase, HandleKept, Unreported, Starved, RunsOn
    <3>2. CASE ~last
      BY <1>1, <1>2, <1>4, <2>1, <2>5, <3>2
      DEF Phase, HandleKept, Unreported, Starved, RunsOn
    <3> QED
      BY <3>1, <3>2
  <2>4. Waiters'
    BY <1>4, <2>1 DEF Waiters, Active, Listed
  <2> QED
    BY <1>1, <1>2, <2>2, <2>3, <2>4
<1> QED
  BY <1>3, <1>4 DEF ProcReleaseATL, Unsubscribe

LEMMA FallenBackInv ==
    ASSUME Inv, NEW h \in Handles, ProcRequestATL(h)
    PROVE  Inv'
<1> USE DEF Inv, TypeOK, machine, dsi, environment
<1>1. /\ Rest \in Seq(Messages) /\ Ordered(Rest)
      /\ HoldsOpened(Rest) <=> HoldsOpened(msgq)
      /\ HoldsClosed(Rest) <=> HoldsClosed(msgq)
  BY TakenRest DEF ProcRequestATL, Reports
<1>2. msgq' = Rest /\ UNCHANGED <<machine, dsi, environment>>
  BY DEF ProcRequestATL
<1>3. TypeOK'
  BY <1>1, <1>2 DEF ProcRequestATL
<1> QED
  BY <1>1, <1>2, <1>3
  DEF Phase, HandleKept, Unreported, Starved, RunsOn, Waiters, Active, Listed

LEMMA OpenedInv ==
    ASSUME Inv, ProcSuplEsOpened
    PROVE  Inv'
<1> USE DEF Inv, TypeOK, machine, dsi, environment
<1>1. /\ Rest \in Seq(Messages) /\ Ordered(Rest)
      /\ HoldsOpened(msgq)
      /\ HoldsClosed(Rest) <=> HoldsClosed(msgq)
  BY TakenRest DEF ProcSuplEsOpened
<1>2. msgq' = Rest /\ UNCHANGED <<mSubscribers, mInactive, mRetries, dsi,
        environment>>
  BY DEF ProcSuplEsOpened
<1>3. mState' = IF mState = "Pending" THEN "Acquired" ELSE mState
  BY DEF ProcSuplEsOpened, Opened
<1>4. modem' \in [Handles -> {"idle", "asked", "open"}]
  BY DEF ProcSuplEsOpened, Opened, ToldOpen
<1>5. TypeOK'
  BY <1>1, <1>2, <1>3, <1>4 DEF ProcSuplEsOpened
<1>6. Phase' /\ HandleKept'
  BY <1>1, <1>2, <1>3 DEF Phase, HandleKept, Unreported, Starved, RunsOn
<1>7. Waiters'
  BY <1>2, <1>3 DEF Waiters, Active, Listed
<1> QED
  BY <1>1, <1>2, <1>5, <1>6, <1>7

LEMMA ClosedInv ==
    ASSUME Inv, ProcSuplEsClosed
    PROVE  Inv'
<1> USE DEF Inv, TypeOK, machine, dsi, environment
<1>1. /\ Rest \in Seq(Messages) /\ Ordered(Rest)
      /\ HoldsClosed(msgq) /\ ~HoldsOpened(Rest) /\ ~HoldsClosed(Rest)
  BY TakenRest DEF ProcSuplEsClosed
<1>2. UNCHANGED <<agnss, modem, used, environment>>
  BY DEF ProcSuplEsClosed
<1>3. call.at = "idle"
  BY <1>1 DEF Phase, Unreported, Starved, RunsOn
<1>4. <<>> \in Seq(Handles) /\ IsInjective(<<>>) /\ ToSet(<<>>) = {}
  BY EmptySeq DEF IsInjective, ToSet
<1>5. CASE /\ mState' = "Released" /\ mSubscribers' = <<>> /\ mInactive' = {}
           /\ mRetries' \in 0..MAX_START_DATA_CALL_RETRIES /\ timers' \in Nat
           /\ dsHandle' \in {"null", "hollow", "live"}
           /\ call' \in CallType /\ call'.at = "idle"
           /\ msgq' \in Seq(Messages) /\ Ordered(msgq')
           /\ ~HoldsOpened(msgq') /\ ~HoldsClosed(msgq')
  <2>1. TypeOK'
    BY <1>2, <1>4, <1>5 DEF CallType
  <2> QED
    BY <1>5, <2>1 DEF Phase, HandleKept, Unreported, Waiters
<1>6. CASE ForcedRelease
  BY <1>1, <1>5, <1>6, CallTypes DEF ForcedRelease
<1>7. CASE ReleasingDone
  <2> DEFINE rest == Remaining(mSubscribers, mInactive)
  <2>1. /\ rest \in Seq(Handles) /\ IsInjective(rest)
    BY RemainingLeft DEF LeftOf
  <2>2. CASE rest = <<>>
    BY <1>1, <1>5, <1>7, <2>2, CallTypes DEF ReleasingDone
  <2>3. CASE rest # <<>>
    <3>1. /\ mState' = "Pending" /\ mInactive' = {} /\ mSubscribers' = rest
          /\ RequestSucceeds(Rest) \/ RequestFails("null", Rest, rest, {})
      BY <1>7, <2>3 DEF ReleasingDone
    <3>2. /\ \E i \in 1..Len(rest) : rest[i] \notin {}
          /\ ToSet(rest) # {}
      <4> HIDE DEF rest
      <4>1. Len(rest) \in Nat \ {0} /\ DOMAIN rest = 1..Len(rest)
        BY <2>1, <2>3, EmptySeq, LenProperties
      <4>2. 1 \in 1..Len(rest)
        BY <4>1
      <4> QED
        BY <4>1, <4>2 DEF ToSet
    <3>3. /\ mRetries' \in 0..MAX_START_DATA_CALL_RETRIES /\ timers' \in Nat
          /\ dsHandle' \in {"null", "hollow", "live"}
          /\ msgq' \in Seq(Messages) /\ Ordered(msgq')
          /\ ~HoldsOpened(msgq') /\ ~HoldsClosed(msgq')
          /\ RequestSucceeds(Rest) => call' = NewCall /\ dsHandle' = "live"
          /\ RequestFails("null", Rest, rest, {}) => call' = NoCall /\ ~calm
      BY <1>1, <2>1, <3>1, <3>2, RequestOutcome
    <3> HIDE DEF rest
    <3>4. TypeOK'
      BY <1>2, <2>1, <3>1, <3>3, CallTypes DEF CallType
    <3>5. Phase' /\ HandleKept'
      BY <1>2, <3>1, <3>3, CallTypes DEF Phase, HandleKept, Unreported, Starved, RunsOn
    <3>6. Waiters'
      BY <3>1, <3>2 DEF Waiters, Active, Listed
    <3> QED
      BY <3>3, <3>4, <3>5, <3>6
  <2> QED
    BY <2>2, <2>3
<1>8. CASE Denied
  <2>1. /\ msgq' \in Seq(Messages) /\ Ordered(msgq')
        /\ ~HoldsOpened(msgq') /\ ~HoldsClosed(msgq')
    BY <1>1, <1>8, FallbacksPlain, OthersAppended DEF Denied
  <2> QED
    BY <1>3, <1>5, <1>8, <2>1 DEF Denied, CallType, MAX_START_DATA_CALL_RETRIES
<1>9. CASE mState = "Released" /\ msgq' = Rest /\ UNCHANGED <<machine, dsi, timers>>
  BY <1>1, <1>9 DEF Phase, Unreported
<1> QED
  BY <1>6, <1>7, <1>8, <1>9 DEF ProcSuplEsClosed

-----------------------------------------------------------------------------
LEMMA NextInv == Inv /\ [Next]_vars => Inv'
<1> SUFFICES ASSUME Inv, [Next]_vars PROVE Inv'
  OBVIOUS
<1>1. ASSUME NEW h \in Handles, Modem(h)
      PROVE  Inv'
  BY <1>1, ModemInv
<1>2. CASE EngineUp
  BY <1>2, EngineUpInv
<1>3. CASE DataServices \/ CallConnectedAgain \/ CallLost
  BY <1>3, ConnectedInv, EndedInv DEF DataServices
<1>4. CASE TimerFires \/ TimerLost
  BY <1>4, TimerInv
<1>5. CASE AgnssGrants \/ AgnssEnds
  BY <1>5, AgnssInv
<1>6. CASE MsgTask
  BY <1>6, SubscribeInv, UnsubscribeInv, FallenBackInv, OpenedInv, ClosedInv
    DEF MsgTask
<1>7. CASE UNCHANGED vars
  <2>1. TypeOK'
    BY <1>7 DEF vars, machine, dsi, environment, Inv, TypeOK
  <2>2. UNCHANGED Machine /\ msgq' = msgq
    BY <1>7 DEF vars, machine, dsi, environment, Machine
  <2> QED
    BY <2>1, <2>2, QueuedInv
<1> QED
  BY <1>1, <1>2, <1>3, <1>4, <1>5, <1>6, <1>7 DEF Next

LEMMA Invariant == Spec => []Inv
<1> QED
  BY InitInv, NextInv, PTL DEF Spec

(* What the machine says of the call is true: an acquired machine has its   *)
(* call up on a live handle or the news of its end queued, and in a calm    *)
(* environment nobody is pending without a call being set up.               *)
THEOREM StateTrue == Spec => []StateMatchesCall
<1>1. Inv => StateMatchesCall
  <2>1. \A t : Holds(msgq, t) <=> Posted(t)
    BY DEF Holds, Posted
  <2> QED
    BY <2>1 DEF Inv, Phase, HandleKept, StateMatchesCall, AcquiredMeansCalled,
       PendingHasCall, Unreported, Starved, RunsOn, HoldsOpened, HoldsClosed
<1> QED
  BY <1>1, Invariant, PTL

(* A starting or running call belongs to an active subscriber of a machine  *)
(* that waits for it or has it, and one that is being stopped to a machine  *)
(* that waits for its end: none is left running and none is opened over.    *)
(* The exception is a call that DSI refused to stop, which the machine is   *)
(* releasing until it ends of itself.                                       *)
THEOREM CallOwned == Spec => []CallHasOwner
<1>1. Inv => CallHasOwner
  BY DEF Inv, TypeOK, Phase, Waiters, CallHasOwner, Unreported, Starved, RunsOn
<1> QED
  BY <1>1, Invariant, PTL

-----------------------------------------------------------------------------
(* DsClient, whatever the profiles, the waits and the number of calls.      *)

(* The first profile that says of itself that it is for emergency calls.    *)
ClientIsFirst ==
    /\ profiles[found].emergency = "yes"
    /\ \A k \in 1..(found - 1) : profiles[k].emergency # "yes"
    /\ pdp_type = Client!PdpType(profiles[found].pdp)

ClientLookingUp == {"service", "wait", "init", "list", "settings"}

(* How far the search has come: no profile before i is for emergency calls, *)
(* and what is found is the first that is.                                  *)
ClientSearch ==
    /\ at >= 1
    /\ pc \in ClientLookingUp =>
          /\ found = 0 /\ settings = Client!Cleared
          /\ \A k \in 1..(at - 1) : profiles[k].emergency # "yes"
    /\ pc \in {"release", "dsi", "start"} \/ outcome = "SUCCESS" => (found # 0
          => ClientIsFirst)
    /\ pc = "start" \/ outcome = "SUCCESS" => found # 0
    /\ pc # "idle" => outcome = "none"

(* Each opening leaves behind one notifier and one client at most.          *)
ClientOneIf(b) == IF b THEN 1 ELSE 0

ClientLefts ==
    /\ left.notifiers + ClientOneIf(pc # "idle") <= opens
    /\ left.clients + ClientOneIf(pc \in ClientLookingUp \cup {"release"}) <= opens
    /\ notifier => pc \in {"wait", "init"}
    /\ wds => pc \in {"list", "settings", "release"}

(* The handle is as it was until DSI is asked for one.                      *)
ClientHandles ==
    /\ pc \notin {"idle", "start"} => handle = before
    /\ pc = "start" => handle = "live"
    /\ handle # "null" => opens >= (IF pc \in {"idle", "start"} THEN 1 ELSE 2)

ClientIInv ==
    Client!TypeOK /\ ClientSearch /\ ClientLefts /\ ClientHandles
      /\ Client!NothingLeft /\ Client!HandlesHeld /\ Client!OutcomesAreFour

ClientLookups == ClientLookingUp \cup {"release", "dsi", "start", "idle"}

(* What a step that gives up keeps.                                         *)
LEMMA ClientGiveUpInv ==
    ASSUME ClientIInv, Client!GiveUp, pc \in ClientLookingUp,
           UNCHANGED <<calm, Client!look, handle, before, sessions, opens>>
    PROVE  ClientIInv'
<1>1. /\ ~calm /\ pc' = "idle" /\ outcome' = "NO_PROFILE"
      /\ left' = [notifiers |-> left.notifiers + (IF notifier THEN 1 ELSE 0),
                  clients |-> left.clients + (IF wds THEN 1 ELSE 0)]
      /\ notifier' = FALSE /\ wds' = FALSE
      /\ UNCHANGED <<calm, profiles, at, settings, found, pdp_type, waits,
            unreleased, handle, before,
                     sessions, opens>>
  BY DEF Client!GiveUp, Client!Return, Client!look
<1>2. /\ left.notifiers \in Nat /\ left.clients \in Nat /\ opens \in 0..MaxOpens
      /\ left.notifiers + 1 <= opens /\ left.clients + 1 <= opens /\ MaxOpens \in Nat
  BY CallAssumption
    DEF ClientIInv, Client!TypeOK, ClientLefts, ClientOneIf, ClientLookingUp
<1>3. /\ left' \in [notifiers : 0..MaxOpens, clients : 0..MaxOpens]
      /\ left'.notifiers <= opens /\ left'.clients <= opens
      /\ left'.notifiers \in Nat /\ left'.clients \in Nat
  BY <1>1, <1>2
<1>4. Client!TypeOK'
  BY <1>1, <1>3 DEF ClientIInv, Client!TypeOK
<1>5. ClientSearch'
  BY <1>1 DEF ClientIInv, ClientSearch, ClientLookingUp
<1>6. ClientLefts'
  BY <1>1, <1>3 DEF ClientLefts, ClientOneIf, ClientLookingUp
<1>7. handle = before /\ (handle # "null" => opens >= 2)
  BY DEF ClientIInv, ClientHandles, ClientLookingUp
<1>8. ClientHandles' /\ Client!NothingLeft' /\ Client!HandlesHeld'
  BY <1>1, <1>2, <1>7
    DEF ClientIInv, ClientHandles, Client!NothingLeft, Client!HandlesHeld
<1>9. Client!OutcomesAreFour'
  BY <1>1, <1>7 DEF Client!OutcomesAreFour
<1> QED
  BY <1>4, <1>5, <1>6, <1>8, <1>9 DEF ClientIInv

(* A step of the search that finds nothing and gives nothing up.            *)
LEMMA ClientSearchOnInv ==
    ASSUME ClientIInv, pc \in ClientLookingUp,
             pc' \in ClientLookingUp \cup {"release"},
           waits' \in 0..MaxWaits, notifier' \in BOOLEAN, wds' \in BOOLEAN,
           notifier' => pc' \in {"wait", "init"},
           wds' => pc' \in {"list", "settings", "release"},
           UNCHANGED <<calm, Client!look, left, unreleased, Client!call>>
    PROVE  ClientIInv'
<1>1. UNCHANGED <<calm, profiles, at, settings, found, pdp_type, left, unreleased,
        handle, before,
                  outcome, sessions, opens>>
  BY DEF Client!look, Client!call
<1>2. Client!TypeOK'
  BY <1>1 DEF ClientIInv, Client!TypeOK, ClientLookingUp
<1>3. ClientSearch'
  BY <1>1 DEF ClientIInv, ClientSearch, ClientLookingUp
<1>4. ClientLefts'
  <2>1. left.notifiers + 1 <= opens /\ left.clients + 1 <= opens
    BY DEF ClientIInv, ClientLefts, ClientOneIf, ClientLookingUp
  <2> QED
    BY <1>1, <2>1 DEF ClientLefts, ClientOneIf, ClientLookingUp
<1>5. ClientHandles' /\ Client!NothingLeft' /\ Client!HandlesHeld'
        /\ Client!OutcomesAreFour'
  BY <1>1 DEF ClientIInv, ClientHandles, Client!NothingLeft, Client!HandlesHeld,
    Client!OutcomesAreFour, ClientLookingUp
<1> QED
  BY <1>2, <1>3, <1>4, <1>5 DEF ClientIInv

LEMMA ClientOpenInv ==
    ASSUME ClientIInv, Client!Open
    PROVE  ClientIInv'
<1>1. /\ pc = "idle" /\ opens < MaxOpens /\ pc' = "service" /\ opens' = opens + 1
      /\ profiles' \in ProfileLists
      /\ at' = 1 /\ settings' = Client!Cleared /\ found' = 0 /\ pdp_type' = "unset"
      /\ waits' = 0 /\ unreleased' = FALSE
      /\ before' = handle /\ outcome' = "none"
      /\ UNCHANGED <<calm, notifier, wds, left, handle, sessions>>
  BY DEF Client!Open
<1>2. opens \in 0..MaxOpens /\ MaxOpens \in Nat /\ MaxWaits \in Nat
  BY CallAssumption DEF ClientIInv, Client!TypeOK
<1>3. Client!TypeOK'
  <2>1. Client!Cleared \in Client!Settings
    BY DEF Client!Cleared, Client!Settings
  <2>2. 0 \in 0..Len(profiles')
    <3>1. profiles' \in Seq(Client!Settings)
      BY <1>1, CallAssumption
    <3> QED
      BY <3>1
  <2>3. opens' \in 0..MaxOpens /\ waits' \in 0..MaxWaits
    BY <1>1, <1>2
  <2> QED
    BY <1>1, <2>1, <2>2, <2>3 DEF ClientIInv, Client!TypeOK
<1>4. ClientSearch'
  <2>1. at' >= 1 /\ \A k \in 1..(at' - 1) : profiles'[k].emergency # "yes"
    BY <1>1
  <2>2. /\ pc' \notin {"release", "dsi", "start"} /\ pc' # "start"
              /\ outcome' # "SUCCESS"
        /\ outcome' = "none" /\ found' = 0 /\ settings' = Client!Cleared
    BY <1>1
  <2> QED
    BY <2>1, <2>2, Zenon DEF ClientSearch
<1>5. ClientLefts'
  <2>1. left.notifiers \in Nat /\ left.clients \in Nat
    BY <1>2 DEF ClientIInv, Client!TypeOK
  <2>2. left.notifiers <= opens /\ left.clients <= opens /\ ~notifier /\ ~wds
    BY <1>1, <1>2, <2>1 DEF ClientIInv, ClientLefts, ClientOneIf, ClientLookingUp
  <2> QED
    BY <1>1, <1>2, <2>1, <2>2 DEF ClientLefts, ClientOneIf, ClientLookingUp
<1>6. handle # "null" => opens >= 1
  BY <1>1 DEF ClientIInv, ClientHandles
<1>7. ClientHandles'
  BY <1>1, <1>2, <1>6 DEF ClientHandles
<1>8. Client!NothingLeft' /\ Client!HandlesHeld' /\ Client!OutcomesAreFour'
  BY <1>1, <1>2
    DEF ClientIInv, Client!NothingLeft, Client!HandlesHeld, Client!OutcomesAreFour
<1> QED
  BY <1>3, <1>4, <1>5, <1>7, <1>8 DEF ClientIInv

LEMMA ClientServiceInv ==
    ASSUME ClientIInv, Client!FindService \/ Client!WaitForService
             \/ Client!InitClient \/ Client!GetProfileList
    PROVE  ClientIInv'
<1>1. /\ waits \in 0..MaxWaits /\ notifier \in BOOLEAN /\ wds \in BOOLEAN
      /\ notifier => pc \in {"wait", "init"}
      /\ wds => pc \in {"list", "settings", "release"}
  BY DEF ClientIInv, Client!TypeOK, ClientLefts
<1>2. /\ UNCHANGED <<calm, Client!look, handle, before, sessions, opens>>
      /\ pc \in {"service", "wait", "init", "list"}
  BY DEF Client!FindService, Client!WaitForService, Client!InitClient,
    Client!GetProfileList
<1>3. CASE Client!GiveUp
  BY <1>2, <1>3, ClientGiveUpInv DEF ClientLookingUp
<1>4. CASE ~Client!GiveUp
  <2>1. UNCHANGED <<left, unreleased, outcome>>
    BY <1>4 DEF Client!FindService, Client!WaitForService, Client!InitClient,
      Client!GetProfileList, Client!wdsVars
  <2>2. UNCHANGED <<calm, Client!look, left, unreleased, Client!call>>
    BY <1>2, <2>1 DEF Client!call
  <2>3. CASE Client!FindService
    <3>1. pc = "service" /\ waits' = waits /\ wds' = wds
          /\ ((pc' = "init" /\ notifier' = notifier) \/ (pc' = "wait"
                /\ notifier' = TRUE))
      BY <1>4, <2>3 DEF Client!FindService, Client!wdsVars
    <3> QED
      BY <1>1, <2>2, <3>1, ClientSearchOnInv DEF ClientLookingUp
  <2>4. CASE Client!WaitForService
    <3>1. /\ pc = "wait" /\ notifier' = notifier /\ wds' = wds
                /\ waits' \in 0..MaxWaits
          /\ pc' = "init" \/ pc' = pc
      <4>1. CASE pc' = "init" /\ UNCHANGED <<Client!wdsVars, outcome>>
        BY <1>1, <2>4, <4>1 DEF Client!WaitForService, Client!wdsVars
      <4>2. CASE /\ waits + 1 < MaxWaits /\ waits' = waits + 1
                 /\ UNCHANGED <<pc, notifier, wds, left, unreleased, outcome>>
        BY <1>1, <2>4, <4>2, CallAssumption DEF Client!WaitForService
      <4> QED
        BY <1>4, <2>4, <4>1, <4>2 DEF Client!WaitForService
    <3> QED
      BY <1>1, <2>2, <3>1, ClientSearchOnInv DEF ClientLookingUp
  <2>5. CASE Client!InitClient
    <3>1. pc = "init" /\ pc' = "list" /\ wds' = TRUE /\ notifier' = FALSE
            /\ waits' = waits
      BY <1>4, <2>5 DEF Client!InitClient
    <3> QED
      BY <1>1, <2>2, <3>1, ClientSearchOnInv DEF ClientLookingUp
  <2>6. CASE Client!GetProfileList
    <3>1. pc = "list" /\ pc' = "settings" /\ UNCHANGED <<waits, notifier, wds>>
      BY <1>4, <2>6 DEF Client!GetProfileList, Client!wdsVars
    <3> QED
      BY <1>1, <2>2, <3>1, ClientSearchOnInv DEF ClientLookingUp
  <2> QED
    BY <2>3, <2>4, <2>5, <2>6
<1> QED
  BY <1>3, <1>4

(* The structure is clear when it is filled in: the answer is what the      *)
(* profile says.                                                            *)
LEMMA ClientAnswerIsOwn ==
    ASSUME ClientIInv, pc = "settings", at <= Len(profiles)
    PROVE  Client!Answered(profiles[at]) = profiles[at]
             /\ profiles[at] \in Client!Settings /\ at \in 1..Len(profiles)
<1>1. at \in Nat /\ settings = Client!Cleared /\ profiles \in Seq(Client!Settings)
  BY CallAssumption DEF ClientIInv, Client!TypeOK, ClientSearch, ClientLookingUp
<1>2. at \in 1..Len(profiles) /\ profiles[at] \in Client!Settings
  <2>1. Len(profiles) \in Nat /\ at >= 1
    BY <1>1 DEF ClientIInv, ClientSearch
  <2> QED
    BY <1>1, <2>1
<1>3. DOMAIN profiles[at] = {"emergency", "pdp"}
  BY <1>2 DEF Client!Settings
<1>4. settings["emergency"] = "absent" /\ settings["pdp"] = "absent"
  BY <1>1 DEF Client!Cleared
<1>5. Client!Answered(profiles[at]) = [f \in DOMAIN profiles[at] |-> profiles[at][f]]
  <2>1. \A f \in DOMAIN profiles[at] :
           (IF profiles[at][f] = "absent" THEN settings[f] ELSE profiles[at][f]) = profiles[at][f]
    BY <1>3, <1>4
  <2> QED
    BY <2>1, Zenon DEF Client!Answered
<1>6. profiles[at] = [f \in DOMAIN profiles[at] |-> profiles[at][f]]
  BY <1>2 DEF Client!Settings
<1> QED
  BY <1>2, <1>5, <1>6, Zenon

LEMMA ClientGetSettingsInv ==
    ASSUME ClientIInv, Client!GetSettings
    PROVE  ClientIInv'
<1>1. PICK answer : /\ answer = Client!Answered(profiles[at])
                    /\ \/ /\ answer.emergency = "yes"
                          /\ found' = at /\ pdp_type' = Client!PdpType(answer.pdp)
                          /\ pc' = "release"
                          /\ settings' = answer /\ UNCHANGED at
                       \/ /\ answer.emergency # "yes"
                          /\ at' = at + 1 /\ settings' = Client!Cleared
                          /\ UNCHANGED <<pc, found, pdp_type>>
  BY Zenon DEF Client!GetSettings
<1>2. /\ pc = "settings" /\ at <= Len(profiles)
      /\ UNCHANGED <<calm, profiles, waits, notifier, wds, left, unreleased, handle,
            before, outcome,
                     sessions, opens>>
  BY DEF Client!GetSettings, Client!wdsVars, Client!call
<1>3. answer = profiles[at] /\ answer \in Client!Settings /\ at \in 1..Len(profiles)
  BY <1>1, <1>2, ClientAnswerIsOwn
<1>4. /\ found = 0 /\ at \in Nat /\ at >= 1 /\ Len(profiles) \in Nat
            /\ outcome = "none"
      /\ \A k \in 1..(at - 1) : profiles[k].emergency # "yes"
  <2>1. profiles \in Seq(Client!Settings)
    BY CallAssumption DEF ClientIInv, Client!TypeOK
  <2> QED
    BY <1>2, <2>1 DEF ClientIInv, Client!TypeOK, ClientSearch, ClientLookingUp
<1>5. /\ left.notifiers + 1 <= opens /\ left.clients + 1 <= opens
      /\ handle = before /\ (handle # "null" => opens >= 2) /\ ~notifier
  BY <1>2 DEF ClientIInv, ClientLefts, ClientHandles, ClientOneIf, ClientLookingUp
<1>6. Client!PdpType(answer.pdp) \in {"v4", "v6", "v4v6"}
        /\ Client!Cleared \in Client!Settings
  BY DEF Client!PdpType, Client!Cleared, Client!Settings
<1>7. Client!TypeOK'
  BY <1>1, <1>2, <1>3, <1>4, <1>6 DEF ClientIInv, Client!TypeOK
<1>8. ClientSearch'
  <2>1. CASE /\ answer.emergency = "yes"
             /\ found' = at /\ pdp_type' = Client!PdpType(answer.pdp)
             /\ pc' = "release" /\ UNCHANGED at
    <3>1. ClientIsFirst'
      BY <1>2, <1>3, <1>4, <2>1 DEF ClientIsFirst
    <3> QED
      BY <1>2, <1>4, <2>1, <3>1 DEF ClientSearch, ClientLookingUp
  <2>2. CASE /\ answer.emergency # "yes"
             /\ at' = at + 1 /\ settings' = Client!Cleared
             /\ UNCHANGED <<pc, found, pdp_type>>
    <3>1. \A k \in 1..(at' - 1) : profiles[k].emergency # "yes"
      BY <1>3, <1>4, <2>2
    <3> QED
      BY <1>2, <1>4, <2>2, <3>1 DEF ClientSearch, ClientLookingUp
  <2> QED
    BY <1>1, <2>1, <2>2
<1>9. ClientLefts'
  BY <1>1, <1>2, <1>5 DEF ClientIInv, ClientLefts, ClientOneIf, ClientLookingUp
<1>10. ClientHandles' /\ Client!NothingLeft' /\ Client!HandlesHeld'
         /\ Client!OutcomesAreFour'
  BY <1>1, <1>2, <1>5
    DEF ClientIInv, ClientHandles, Client!NothingLeft, Client!HandlesHeld,
      Client!OutcomesAreFour
<1> QED
  BY <1>7, <1>8, <1>9, <1>10 DEF ClientIInv

LEMMA ClientSettingsRefusedInv ==
    ASSUME ClientIInv, Client!SettingsRefused
    PROVE  ClientIInv'
BY ClientGiveUpInv DEF Client!SettingsRefused, ClientLookingUp

LEMMA ClientNoMoreProfilesInv ==
    ASSUME ClientIInv, Client!NoMoreProfiles
    PROVE  ClientIInv'
<1>1. /\ pc = "settings" /\ pc' = "release"
      /\ UNCHANGED <<calm, Client!look, left, unreleased, Client!call, waits,
            notifier, wds>>
  BY DEF Client!NoMoreProfiles, Client!wdsVars
<1>2. /\ waits \in 0..MaxWaits /\ notifier \in BOOLEAN /\ wds \in BOOLEAN /\ ~notifier
  BY <1>1 DEF ClientIInv, Client!TypeOK, ClientLefts
<1> QED
  BY <1>1, <1>2, ClientSearchOnInv DEF ClientLookingUp

LEMMA ClientReleaseClientInv ==
    ASSUME ClientIInv, Client!ReleaseClient
    PROVE  ClientIInv'
<1>1. /\ pc = "release" /\ pc' = "dsi" /\ wds' = FALSE
      /\ UNCHANGED <<calm, profiles, at, settings, found, pdp_type, waits, notifier,
            handle, before,
                     outcome, sessions, opens>>
      /\ \/ UNCHANGED <<left, unreleased>>
         \/ ~calm /\ unreleased' = TRUE /\ left' = [left EXCEPT !.clients = @ + 1]
  BY DEF Client!ReleaseClient, Client!look, Client!call
<1>2. /\ left.notifiers + 1 <= opens /\ left.clients + 1 <= opens /\ ~notifier
      /\ left \in [notifiers : 0..MaxOpens, clients : 0..MaxOpens]
            /\ opens \in 0..MaxOpens
      /\ MaxOpens \in Nat
  BY <1>1, CallAssumption
    DEF ClientIInv, Client!TypeOK, ClientLefts, ClientOneIf, ClientLookingUp
<1>3. /\ left' \in [notifiers : 0..MaxOpens, clients : 0..MaxOpens]
      /\ left'.notifiers + 1 <= opens /\ left'.clients <= opens
      /\ calm => left' = left
  BY <1>1, <1>2
<1>4. Client!TypeOK'
  BY <1>1, <1>3 DEF ClientIInv, Client!TypeOK
<1>5. ClientSearch'
  BY <1>1 DEF ClientIInv, ClientSearch, ClientLookingUp, ClientIsFirst
<1>6. ClientLefts'
  BY <1>1, <1>2, <1>3 DEF ClientLefts, ClientOneIf, ClientLookingUp
<1>7. ClientHandles' /\ Client!NothingLeft' /\ Client!HandlesHeld'
        /\ Client!OutcomesAreFour'
  BY <1>1, <1>3
    DEF ClientIInv, ClientHandles, Client!NothingLeft, Client!HandlesHeld,
      Client!OutcomesAreFour
<1> QED
  BY <1>4, <1>5, <1>6, <1>7 DEF ClientIInv

LEMMA ClientGetHandleInv ==
    ASSUME ClientIInv, Client!GetHandle
    PROVE  ClientIInv'
<1>1. /\ pc = "dsi"
      /\ UNCHANGED <<calm, profiles, at, settings, found, pdp_type, waits,
            unreleased, before, opens>>
  BY DEF Client!GetHandle, Client!look
<1>2. /\ ~notifier /\ ~wds /\ outcome = "none" /\ left.notifiers + 1 <= opens
      /\ left.clients <= opens /\ opens \in 0..MaxOpens
      /\ left \in [notifiers : 0..MaxOpens, clients : 0..MaxOpens]
      /\ handle = before /\ (handle # "null" => opens >= 2)
      /\ sessions \in Nat /\ at >= 1 /\ MaxOpens \in Nat /\ (found # 0
            => ClientIsFirst)
      /\ handle = "live" => sessions > 0
      /\ sessions > (IF handle = "live" THEN 1 ELSE 0) => opens > 1
  BY <1>1, CallAssumption
    DEF ClientIInv, Client!TypeOK, ClientSearch, ClientLefts, ClientHandles,
      Client!HandlesHeld, ClientOneIf, ClientLookingUp
<1>3. opens >= 1
  BY <1>2
<1>4. ASSUME NEW what, Client!Return(what)
      PROVE  /\ pc' = "idle" /\ outcome' = what /\ left' = left /\ notifier' = FALSE
             /\ wds' = FALSE
  <2>1. left' = [notifiers |-> left.notifiers + 0, clients |-> left.clients + 0]
    BY <1>2, <1>4 DEF Client!Return
  <2>2. left' = left
    BY <1>2, <2>1
  <2> QED
    BY <1>4, <2>2 DEF Client!Return
<1>5. /\ left' = left /\ notifier' = FALSE /\ wds' = FALSE
      /\ \/ /\ found = 0 /\ pc' = "idle" /\ outcome' = "NO_PROFILE"
            /\ UNCHANGED <<handle, sessions>>
         \/ /\ found # 0 /\ handle' = "hollow" /\ pc' = "idle" /\ outcome' = "BUSY"
            /\ UNCHANGED sessions
         \/ /\ found # 0 /\ handle' = "live" /\ sessions' = sessions + 1
            /\ \/ pc' = "idle" /\ outcome' = "START_FAILED"
               \/ pc' = "start" /\ outcome' = "none"
  <2>1. \/ found = 0 /\ Client!Return("NO_PROFILE") /\ UNCHANGED <<handle, sessions>>
        \/ found # 0 /\ handle' = "hollow" /\ Client!Return("BUSY")
              /\ UNCHANGED sessions
        \/ /\ found # 0 /\ handle' = "live" /\ sessions' = sessions + 1
           /\ \/ Client!Return("START_FAILED")
              \/ pc' = "start" /\ UNCHANGED <<outcome, left, notifier, wds>>
    BY Zenon DEF Client!GetHandle
  <2>2. CASE found = 0 /\ Client!Return("NO_PROFILE") /\ UNCHANGED <<handle,
               sessions>>
    BY <1>4, <2>2
  <2>3. CASE found # 0 /\ handle' = "hollow" /\ Client!Return("BUSY")
               /\ UNCHANGED sessions
    BY <1>4, <2>3
  <2>4. CASE found # 0 /\ handle' = "live" /\ sessions' = sessions + 1
               /\ Client!Return("START_FAILED")
    BY <1>4, <2>4
  <2>5. CASE /\ found # 0 /\ handle' = "live" /\ sessions' = sessions + 1
             /\ pc' = "start" /\ UNCHANGED <<outcome, left, notifier, wds>>
    BY <1>2, <2>5
  <2> QED
    BY <2>1, <2>2, <2>3, <2>4, <2>5
<1>6. Client!TypeOK'
  <2>1. /\ pc' \in {"idle", "start"} /\ handle' \in {"null", "hollow", "live"}
              /\ sessions' \in Nat
        /\ outcome' \in {"none", "SUCCESS", "BUSY", "NO_PROFILE", "START_FAILED"}
        /\ left' = left /\ notifier' = FALSE /\ wds' = FALSE
    BY <1>2, <1>5 DEF ClientIInv, Client!TypeOK
  <2> QED
    BY <1>1, <2>1 DEF ClientIInv, Client!TypeOK
<1>7. ClientSearch'
  <2>1. ClientIsFirst => ClientIsFirst'
    BY <1>1 DEF ClientIsFirst
  <2> QED
    BY <1>1, <1>2, <1>5, <2>1 DEF ClientSearch, ClientLookingUp
<1>8. ClientLefts'
  BY <1>1, <1>2, <1>5 DEF ClientLefts, ClientOneIf, ClientLookingUp
<1>9. ClientHandles'
  BY <1>1, <1>2, <1>3, <1>5 DEF ClientHandles
<1>10. Client!HandlesHeld'
  BY <1>1, <1>2, <1>5 DEF Client!HandlesHeld
<1>11. Client!NothingLeft' /\ Client!OutcomesAreFour'
  BY <1>1, <1>2, <1>5 DEF ClientIInv, Client!NothingLeft, Client!OutcomesAreFour
<1> QED
  BY <1>6, <1>7, <1>8, <1>9, <1>10, <1>11 DEF ClientIInv

LEMMA ClientStartCallInv ==
    ASSUME ClientIInv, Client!StartCall
    PROVE  ClientIInv'
<1>1. /\ pc = "start" /\ pc' = "idle" /\ outcome' \in {"SUCCESS", "START_FAILED"}
      /\ UNCHANGED <<calm, profiles, at, settings, found, pdp_type, waits, notifier,
            wds, left,
                     unreleased, handle, before, sessions, opens>>
  BY DEF Client!StartCall, Client!look, Client!wdsVars
<1>2. Client!TypeOK'
  BY <1>1 DEF ClientIInv, Client!TypeOK
<1>3. ClientSearch'
  BY <1>1 DEF ClientIInv, ClientSearch, ClientLookingUp, ClientIsFirst
<1>4. ClientLefts'
  <2>1. left.notifiers + 1 <= opens /\ left.notifiers \in Nat
          /\ left.clients + 0 <= opens
        /\ opens \in Nat /\ left.clients \in Nat
    BY <1>1, CallAssumption
      DEF ClientIInv, Client!TypeOK, ClientLefts, ClientOneIf, ClientLookingUp
  <2> QED
    BY <1>1, <2>1 DEF ClientIInv, ClientLefts, ClientOneIf, ClientLookingUp
<1>5. ClientHandles' /\ Client!NothingLeft' /\ Client!HandlesHeld'
        /\ Client!OutcomesAreFour'
  BY <1>1 DEF ClientIInv, ClientHandles, Client!NothingLeft, Client!HandlesHeld,
    Client!OutcomesAreFour
<1> QED
  BY <1>2, <1>3, <1>4, <1>5 DEF ClientIInv

LEMMA ClientCloseCallInv ==
    ASSUME ClientIInv, Client!CloseCall
    PROVE  ClientIInv'
<1>1. /\ pc = "idle" /\ handle' = "null" /\ outcome' = "none"
      /\ sessions' = IF handle = "live" THEN sessions - 1 ELSE sessions
      /\ UNCHANGED <<calm, pc, profiles, at, settings, found, pdp_type, waits,
            notifier, wds, left,
                     unreleased, before, opens>>
  BY DEF Client!CloseCall, Client!look, Client!wdsVars
<1>2. sessions \in Nat /\ opens \in Nat /\ (handle = "live" => sessions > 0)
      /\ (sessions > (IF handle = "live" THEN 1 ELSE 0) => opens > 1)
  BY CallAssumption DEF ClientIInv, Client!TypeOK, Client!HandlesHeld
<1>3. Client!TypeOK'
  BY <1>1, <1>2 DEF ClientIInv, Client!TypeOK
<1>4. ClientSearch' /\ ClientLefts'
  BY <1>1 DEF ClientIInv, ClientSearch, ClientLefts, ClientOneIf, ClientLookingUp,
    ClientIsFirst
<1>5. Client!HandlesHeld'
  BY <1>1, <1>2 DEF Client!HandlesHeld
<1>6. ClientHandles' /\ Client!NothingLeft' /\ Client!OutcomesAreFour'
  BY <1>1 DEF ClientIInv, ClientHandles, Client!NothingLeft, Client!OutcomesAreFour
<1> QED
  BY <1>3, <1>4, <1>5, <1>6 DEF ClientIInv

LEMMA ClientStart ==
    ASSUME Client!Init
    PROVE  ClientIInv
<1>1. profiles \in Seq(Client!Settings) /\ MaxOpens \in Nat /\ MaxWaits \in Nat
  BY CallAssumption DEF Client!Init
<1>2. Len(profiles) \in Nat /\ 0 \in 0..Len(profiles)
  BY <1>1
<1>3. Client!TypeOK
  <2>1. Client!Cleared \in Client!Settings
    BY DEF Client!Cleared, Client!Settings
  <2>2. /\ left \in [notifiers : 0..MaxOpens, clients : 0..MaxOpens]
        /\ 0 \in 0..MaxOpens /\ 0 \in 0..MaxWaits
    BY <1>1 DEF Client!Init
  <2> QED
    BY <1>2, <2>1, <2>2 DEF Client!Init, Client!TypeOK
<1>4. ClientSearch /\ ClientLefts
  BY DEF Client!Init, ClientSearch, ClientLefts, ClientOneIf, ClientLookingUp
<1>5. ClientHandles /\ Client!NothingLeft /\ Client!HandlesHeld
        /\ Client!OutcomesAreFour
  BY DEF Client!Init, ClientHandles, Client!NothingLeft, Client!HandlesHeld,
    Client!OutcomesAreFour
<1> QED
  BY <1>3, <1>4, <1>5 DEF ClientIInv

LEMMA ClientNext ==
    ASSUME ClientIInv, [Client!Next]_(Client!vars)
    PROVE  ClientIInv'
<1>1. CASE UNCHANGED Client!vars
  BY <1>1 DEF Client!vars, Client!look, Client!wdsVars, Client!call, ClientIInv,
    Client!TypeOK, ClientSearch, ClientIsFirst, ClientLefts, ClientHandles,
    Client!NothingLeft, Client!HandlesHeld, Client!OutcomesAreFour
<1>2. CASE Client!Next
  BY <1>2, ClientOpenInv, ClientServiceInv, ClientGetSettingsInv,
    ClientSettingsRefusedInv, ClientNoMoreProfilesInv,
    ClientReleaseClientInv, ClientGetHandleInv, ClientStartCallInv, ClientCloseCallInv
  DEF Client!Next
<1> QED
  BY <1>1, <1>2

LEMMA ClientServes ==
    ASSUME ClientIInv
    PROVE  Client!CallInv
<1>1. Client!ProfileIsOwn
  BY DEF ClientIInv, ClientSearch, ClientIsFirst, Client!ProfileIsOwn
<1> QED
  BY <1>1 DEF ClientIInv, Client!CallInv

-----------------------------------------------------------------------------
(* The two halves together: a step is one half's, and the other stays.      *)
CallKept == part = "client" => ClientIInv

LEMMA CallKeptAlways == CallSpec => []CallKept
<1>1. CallInit => CallKept
  BY ClientStart DEF CallInit, CallKept
<1>2. CallKept /\ [CallNext]_<<part, vars, clientVars>> => CallKept'
  <2> SUFFICES ASSUME CallKept, [CallNext]_<<part, vars, clientVars>>
               PROVE  CallKept'
    OBVIOUS
  <2>1. part' = part
    BY DEF CallNext
  <2>2. CASE part = "client"
    <3>1. [Client!Next]_(Client!vars)
      <4>1. CASE CallNext
        BY <2>2, <4>1 DEF CallNext
      <4>2. CASE UNCHANGED <<part, vars, clientVars>>
        BY <4>2 DEF clientVars, vars, environment, Client!vars, Client!look,
           Client!wdsVars, Client!call
      <4> QED
        BY <4>1, <4>2
    <3> QED
      BY <2>1, <2>2, <3>1, ClientNext DEF CallKept
  <2>3. CASE part # "client"
    BY <2>1, <2>3 DEF CallKept
  <2> QED
    BY <2>2, <2>3
<1> QED
  BY <1>1, <1>2, PTL DEF CallSpec

(* The composition runs the machine: its steps are steps of the machine or  *)
(* leave it as it is, with the same fairness, so what is proved of Spec     *)
(* holds in it.                                                             *)
THEOREM CallRunsMachine == CallSpec => Spec
<1>1. CallInit => Init
  BY DEF CallInit
<1>2. [CallNext]_<<part, vars, clientVars>> => [Next]_vars
  BY Zenon DEF CallNext
<1> QED
  BY <1>1, <1>2, PTL DEF CallSpec, Spec

(* However WDS comes and answers and DSI has handles: the call is started   *)
(* with the first profile for emergency calls and its own type of address,  *)
(* nothing is left behind where WDS refuses nothing, DSI handles add up     *)
(* only over opened calls, and every return leaves the handle as            *)
(* DSStateMachine's outcomes say.                                           *)
THEOREM CallIsOpened == CallSpec => []CallOpened
<1>1. CallKept => CallOpened
  BY ClientServes DEF CallKept, CallOpened
<1> QED
  BY <1>1, CallKeptAlways, PTL
=============================================================================
