-------------------------- MODULE TimerLoopProofs --------------------------
(***************************************************************************)
(* A pass over the timers runs each that was due when it began and stayed  *)
(* due, and none that was created meanwhile, and the loop sleeps past no   *)
(* timer by a second or more: for any periods and delays, however long     *)
(* handlers take, and whenever the clock is set back and how far.          *)
(***************************************************************************)
EXTENDS TimerLoop, SequenceTheorems, TLAPS, WellFoundedInduction

\* The list of time events: in order of creation, with ids that were given out,
\* and nothing overdue by more than the model tells apart.
Ordered(ts) == \A i, j \in DOMAIN ts : i < j => ts[i].id > ts[j].id
TimerList(ts, n) ==
    /\ ts \in Seq(Events) /\ Ordered(ts)
    /\ \A i \in DOMAIN ts : ts[i].id < n /\ ts[i].left >= -Floor

\* A timer that a pass has still to run is due and is where the walk has not
\* been since it last started again.
Ahead(ts, from, id) == \E i \in DOMAIN ts : i >= from /\ ts[i].id = id /\ Due(ts[i])

PassInv ==
    pc = "timers" => \A id \in dueSince \ ran : id <= maxId /\ Ahead(timers, te, id)

IInv ==
    /\ TypeOK /\ TimerList(timers, nextId)
    /\ PassInv /\ EveryDueTimerRuns /\ NewTimersWait
    /\ SleepIsBounded

-----------------------------------------------------------------------------
(* The list.                                                                *)

\* A timer is created at the head and leaves the others as they are.
Created(ts, n, left, r) ==
    /\ TimerList(r, n + 1) /\ r # <<>>
    /\ r[1].id = n /\ r[1].left = left
    /\ \A i \in DOMAIN ts : i + 1 \in DOMAIN r /\ r[i + 1] = ts[i]

\* The timer at i is taken out and the others stay as they are.
Deleted(ts, i, n, r) ==
    /\ TimerList(r, n)
    /\ \A k \in DOMAIN r : r[k].id # ts[i].id
    /\ \A j \in DOMAIN ts : j # i => \E k \in DOMAIN r : r[k] = ts[j]

\* The timer at i is set again and the others stay as they are.
Rearmed(ts, i, n, r) ==
    /\ TimerList(r, n) /\ DOMAIN r = DOMAIN ts
    /\ \A j \in DOMAIN ts : j # i => r[j] = ts[j]

\* Time goes on by k.
Forwarded(ts, k, n, r) ==
    /\ TimerList(r, n) /\ DOMAIN r = DOMAIN ts
    /\ \A i \in DOMAIN ts :
         /\ r[i].id = ts[i].id
         /\ r[i].left = IF ts[i].left - k < -Floor THEN Longest(ts[i].left - k)
                        ELSE ts[i].left - k

LEMMA FloorNat == Floor \in Nat /\ Floor \in Int /\ MaxBack \in Nat
BY TimerLoopAssumption DEF Floor

LEMMA Floors ==
    /\ Floor \in Nat /\ MaxBack \in Nat
    /\ \A x \in Int : Longest(x) \in Int /\ Longest(x) >= -Floor /\ Longest(x) < -MaxBack
<1>1. Floor \in Nat /\ MaxBack \in Nat
  BY TimerLoopAssumption DEF Floor
<1>2. ASSUME NEW x \in Int
      PROVE  Longest(x) \in Int /\ Longest(x) >= -Floor /\ Longest(x) < -MaxBack
  <2>1. PICK r : r = (x + Floor) % Second
    OBVIOUS
  <2>2. r \in 0..Second - 1
    BY <1>1, <2>1, TimerLoopAssumption
  <2>3. Longest(x) = r - Floor
    BY <2>1 DEF Longest
  <2> QED
    BY <1>1, <2>2, <2>3, TimerLoopAssumption DEF Floor
<1> QED
  BY <1>1, <1>2

LEMMA Created_ ==
    ASSUME NEW ts, NEW n \in 0..MaxId, NEW kind \in Kinds, NEW left \in Int,
           TimerList(ts, n), left >= -Floor
    PROVE  Created(ts, n, left, aeCreateTimeEvent(ts, n, kind, left))
<1> DEFINE e == [id |-> n, kind |-> kind, left |-> left, retried |-> FALSE]
           r == <<e>> \o ts
<1>1. e \in Events
  BY DEF Events
<1>2. ts \in Seq(Events) /\ Len(ts) \in Nat /\ DOMAIN ts = 1..Len(ts)
  BY DEF TimerList
<1>3. e.id = n /\ e.left = left
  OBVIOUS
<1> HIDE DEF e
<1>4. <<e>> \in Seq(Events) /\ Len(<<e>>) = 1 /\ <<e>>[1] = e
  BY <1>1
<1>5. /\ r \in Seq(Events) /\ Len(r) = Len(ts) + 1
      /\ \A i \in 1..Len(ts) + 1 : r[i] = IF i <= 1 THEN e ELSE ts[i - 1]
  BY <1>2, <1>4, ConcatProperties
<1>6. r = aeCreateTimeEvent(ts, n, kind, left)
  BY DEF e, aeCreateTimeEvent
<1> HIDE DEF r
<1>7. DOMAIN r = 1..Len(ts) + 1 /\ r[1] = e
  BY <1>2, <1>5
<1>8. ASSUME NEW i \in DOMAIN ts PROVE i + 1 \in DOMAIN r /\ r[i + 1] = ts[i]
  BY <1>2, <1>5, <1>7
<1>9. ASSUME NEW i \in DOMAIN r
      PROVE  r[i].id < n + 1 /\ r[i].left >= -Floor
  <2>1. CASE i = 1
    BY <1>3, <1>7, <2>1
  <2>2. CASE i # 1
    <3>1. i - 1 \in DOMAIN ts /\ r[i] = ts[i - 1]
      BY <1>2, <1>5, <1>7, <2>2
    <3>2. ts[i - 1] \in Events
      BY <1>2, <3>1
    <3> QED
      BY <3>1, <3>2 DEF TimerList, Events
  <2> QED
    BY <2>1, <2>2
<1>10. ASSUME NEW i \in DOMAIN r, NEW j \in DOMAIN r, i < j
       PROVE  r[i].id > r[j].id
  <2>1. j - 1 \in DOMAIN ts /\ r[j] = ts[j - 1]
    BY <1>2, <1>5, <1>7, <1>10
  <2>2. ts[j - 1].id < n
    BY <2>1 DEF TimerList
  <2>3. CASE i = 1
    <3>1. ts[j - 1] \in Events
      BY <1>2, <2>1
    <3> QED
      BY <1>3, <1>7, <2>1, <2>2, <2>3, <3>1 DEF Events
  <2>4. CASE i # 1
    <3>1. i - 1 \in DOMAIN ts /\ r[i] = ts[i - 1] /\ i - 1 < j - 1
      BY <1>2, <1>5, <1>7, <1>10, <2>4
    <3> QED
      BY <2>1, <3>1 DEF TimerList, Ordered
  <2> QED
    BY <2>3, <2>4
<1>11. TimerList(r, n + 1)
  BY <1>5, <1>9, <1>10 DEF TimerList, Ordered
<1>12. r # <<>>
  BY <1>7, <1>2
<1> QED
  BY <1>3, <1>6, <1>7, <1>8, <1>11, <1>12 DEF Created

\* The list has one timer of an id.
LEMMA OneOfAnId ==
    ASSUME NEW ts, NEW n, TimerList(ts, n), NEW i \in DOMAIN ts, NEW j \in DOMAIN ts,
           ts[i].id = ts[j].id
    PROVE  i = j
<1>1. ts[i] \in Events /\ ts[j] \in Events /\ i \in Int /\ j \in Int
  BY DEF TimerList
<1>2. ts[i].id \in Int
  BY <1>1 DEF Events
<1> QED
  BY <1>1, <1>2 DEF TimerList, Ordered

LEMMA Deleted_ ==
    ASSUME NEW ts, NEW n \in Int, TimerList(ts, n), NEW i \in DOMAIN ts
    PROVE  Deleted(ts, i, n, aeDeleteTimeEvent(ts, ts[i].id))
<1> DEFINE a == SubSeq(ts, 1, i - 1)
           b == SubSeq(ts, i + 1, Len(ts))
           r == a \o b
<1>1. ts \in Seq(Events) /\ Len(ts) \in Nat /\ DOMAIN ts = 1..Len(ts) /\ i \in 1..Len(ts)
  BY DEF TimerList
<1>2. aeDeleteTimeEvent(ts, ts[i].id) = r
  <2>1. (CHOOSE k \in DOMAIN ts : ts[k].id = ts[i].id) = i
    BY OneOfAnId
  <2> QED
    BY <2>1 DEF aeDeleteTimeEvent, RemoveAt
<1>3. /\ a \in Seq(Events) /\ Len(a) = i - 1
      /\ \A k \in 1..i - 1 : a[k] = ts[k]
  <2>1. \A k \in 1..i - 1 : ts[k] \in Events
    BY <1>1
  <2> QED
    BY <1>1, <2>1, SubSeqProperties
<1>4. /\ b \in Seq(Events) /\ Len(b) = Len(ts) - i
      /\ \A k \in 1..Len(ts) - i : b[k] = ts[k + i]
  <2> DEFINE l == Len(ts)
  <2>1. \A k \in i + 1..l : ts[k] \in Events
    BY <1>1
  <2>2. l \in Nat /\ i \in 1..l /\ l - (i + 1) + 1 = l - i
    BY <1>1
  <2> HIDE DEF l
  <2>3. /\ SubSeq(ts, i + 1, l) \in Seq(Events)
        /\ Len(SubSeq(ts, i + 1, l)) = l - i
        /\ \A k \in 1..l - i : SubSeq(ts, i + 1, l)[k] = ts[(i + 1) + k - 1]
    BY <2>1, <2>2, SubSeqProperties
  <2>4. \A k \in 1..l - i : (i + 1) + k - 1 = k + i
    BY <2>2
  <2> QED
    BY <2>3, <2>4 DEF l
<1> HIDE DEF a, b
<1>5. /\ r \in Seq(Events) /\ Len(r) = Len(ts) - 1
      /\ \A k \in 1..Len(ts) - 1 : r[k] = IF k <= i - 1 THEN a[k] ELSE b[k - (i - 1)]
  <2>1. /\ r \in Seq(Events) /\ Len(r) = Len(a) + Len(b)
        /\ \A k \in 1..Len(a) + Len(b) : r[k] = IF k <= Len(a) THEN a[k] ELSE b[k - Len(a)]
    BY <1>3, <1>4, ConcatProperties, Zenon
  <2>2. Len(a) + Len(b) = Len(ts) - 1
    BY <1>1, <1>3, <1>4
  <2> HIDE DEF r
  <2> QED
    BY <1>3, <2>1, <2>2
<1> HIDE DEF r
<1>6. DOMAIN r = 1..Len(ts) - 1
  BY <1>5
<1>7. ASSUME NEW k \in 1..Len(ts) - 1 PROVE r[k] = ts[IF k < i THEN k ELSE k + 1]
  <2>1. CASE k < i
    <3>1. k \in 1..i - 1 /\ k <= i - 1
      BY <1>1, <2>1
    <3> QED
      BY <1>3, <1>5, <2>1, <3>1
  <2>2. CASE ~(k < i)
    <3>1. k - (i - 1) \in 1..Len(ts) - i /\ ~(k <= i - 1) /\ k - (i - 1) + i = k + 1
      BY <1>1, <2>2
    <3>2. r[k] = b[k - (i - 1)]
      BY <1>5, <3>1
    <3>3. b[k - (i - 1)] = ts[k - (i - 1) + i]
      BY <1>4, <3>1
    <3> QED
      BY <2>2, <3>1, <3>2, <3>3
  <2> QED
    BY <2>1, <2>2
<1>8. ASSUME NEW k \in DOMAIN r
      PROVE  /\ r[k].id # ts[i].id
             /\ r[k].id < n /\ r[k].left >= -Floor
  <2>1. PICK l \in DOMAIN ts : l # i /\ r[k] = ts[l]
    <3>1. CASE k < i
      BY <1>1, <1>6, <1>7, <3>1
    <3>2. CASE ~(k < i)
      <4>1. k + 1 \in DOMAIN ts /\ k + 1 # i /\ r[k] = ts[k + 1]
        BY <1>1, <1>6, <1>7, <3>2
      <4> QED
        BY <4>1
    <3> QED
      BY <3>1, <3>2
  <2>2. ts[l].id # ts[i].id
    BY <2>1, OneOfAnId
  <2> QED
    BY <2>1, <2>2 DEF TimerList
<1>9. ASSUME NEW k \in DOMAIN r, NEW l \in DOMAIN r, k < l
      PROVE  r[k].id > r[l].id
  <2> DEFINE u == IF k < i THEN k ELSE k + 1
             v == IF l < i THEN l ELSE l + 1
  <2>1. u \in DOMAIN ts /\ v \in DOMAIN ts /\ u < v
    BY <1>1, <1>6, <1>9
  <2>2. r[k] = ts[u] /\ r[l] = ts[v]
    BY <1>6, <1>7
  <2> HIDE DEF u, v
  <2> QED
    BY <2>1, <2>2 DEF TimerList, Ordered
<1>10. ASSUME NEW j \in DOMAIN ts, j # i
       PROVE  \E k \in DOMAIN r : r[k] = ts[j]
  <2>1. CASE j < i
    BY <1>1, <1>6, <1>7, <2>1
  <2>2. CASE ~(j < i)
    <3>1. j - 1 \in DOMAIN r /\ r[j - 1] = ts[j]
      BY <1>1, <1>6, <1>7, <1>10, <2>2
    <3> QED
      BY <3>1
  <2> QED
    BY <2>1, <2>2
<1> QED
  BY <1>2, <1>5, <1>8, <1>9, <1>10 DEF Deleted, TimerList, Ordered

LEMMA Rearmed_ ==
    ASSUME NEW ts, NEW n, TimerList(ts, n), NEW i \in DOMAIN ts, NEW ms \in Nat
    PROVE  Rearmed(ts, i, n, Rearm(ts, ts[i].id, ms))
<1> DEFINE f(k) == IF ts[k].id = ts[i].id
                   THEN [ts[k] EXCEPT !.left = ms, !.retried = TRUE] ELSE ts[k]
           r == [k \in DOMAIN ts |-> f(k)]
<1>1. ts \in Seq(Events) /\ Len(ts) \in Nat /\ DOMAIN ts = 1..Len(ts)
  BY DEF TimerList
<1>2. r = Rearm(ts, ts[i].id, ms)
  BY DEF Rearm
<1>3. ASSUME NEW k \in DOMAIN ts
      PROVE  /\ f(k) \in Events /\ f(k).id = ts[k].id
             /\ f(k).left \in {ms, ts[k].left}
             /\ k # i => f(k) = ts[k]
  <2>1. ts[k] \in Events
    BY <1>1
  <2>2. k # i => ts[k].id # ts[i].id
    BY OneOfAnId
  <2>3. CASE ts[k].id = ts[i].id
    <3>1. f(k) = [ts[k] EXCEPT !.left = ms, !.retried = TRUE]
      BY <2>3
    <3> HIDE DEF f
    <3>2. [ts[k] EXCEPT !.left = ms] \in Events
      BY <2>1 DEF Events
    <3>3. f(k) = [[ts[k] EXCEPT !.left = ms] EXCEPT !.retried = TRUE]
      BY <3>1
    <3>4. f(k) \in Events /\ f(k).id = ts[k].id /\ f(k).left = ms
      BY <2>1, <3>2, <3>3 DEF Events
    <3> QED
      BY <2>2, <2>3, <3>4
  <2>4. CASE ts[k].id # ts[i].id
    <3>1. f(k) = ts[k]
      BY <2>4
    <3> HIDE DEF f
    <3> QED
      BY <2>1, <3>1 DEF Events
  <2> QED
    BY <2>3, <2>4
<1> HIDE DEF f
<1>4. r \in Seq(Events) /\ DOMAIN r = DOMAIN ts
  BY <1>1, <1>3
<1>5. ASSUME NEW k \in DOMAIN ts
      PROVE  r[k].id = ts[k].id /\ r[k].left \in {ms, ts[k].left} /\ (k # i => r[k] = ts[k])
  BY <1>3
<1> HIDE DEF r
<1>6. -Floor <= ms
  BY Floors
<1> QED
  BY <1>2, <1>4, <1>5, <1>6 DEF Rearmed, TimerList, Ordered

LEMMA Forwarded_ ==
    ASSUME NEW ts, NEW n, TimerList(ts, n), NEW k \in Int
    PROVE  Forwarded(ts, k, n, Forward(ts, k))
<1> DEFINE f(i) == [ts[i] EXCEPT !.left = IF @ - k < -Floor THEN Longest(@ - k) ELSE @ - k]
           r == [i \in DOMAIN ts |-> f(i)]
<1>1. ts \in Seq(Events) /\ Len(ts) \in Nat /\ DOMAIN ts = 1..Len(ts)
  BY DEF TimerList
<1>2. r = Forward(ts, k)
  BY DEF Forward
<1>3. ASSUME NEW i \in DOMAIN ts
      PROVE  /\ f(i) \in Events /\ f(i).id = ts[i].id
             /\ f(i).left = IF ts[i].left - k < -Floor THEN Longest(ts[i].left - k)
                            ELSE ts[i].left - k
             /\ f(i).left >= -Floor
  <2>1. ts[i] \in Events
    BY <1>1
  <2> QED
    BY <2>1, Floors DEF Events
<1> HIDE DEF f
<1>4. r \in Seq(Events) /\ DOMAIN r = DOMAIN ts
  BY <1>1, <1>3
<1>5. \A i \in DOMAIN ts : r[i] = f(i)
  OBVIOUS
<1> HIDE DEF r
<1> QED
  BY <1>2, <1>3, <1>4, <1>5 DEF Forwarded, TimerList, Ordered

-----------------------------------------------------------------------------
(* The steps.                                                               *)

\* What a list of timers is, place by place.
Places(ts, n) ==
    /\ Len(ts) \in Nat /\ DOMAIN ts = 1..Len(ts)
    /\ \A i \in DOMAIN ts : /\ ts[i].id \in 0..MaxId /\ ts[i].id < n
                            /\ ts[i].left \in Int /\ ts[i].left >= -Floor

LEMMA Places_ == ASSUME NEW ts, NEW n, TimerList(ts, n) PROVE Places(ts, n)
<1>1. ts \in Seq(Events) /\ Len(ts) \in Nat /\ DOMAIN ts = 1..Len(ts)
  BY DEF TimerList
<1>2. ASSUME NEW i \in DOMAIN ts PROVE ts[i].id \in 0..MaxId /\ ts[i].left \in Int
  <2>1. ts[i] \in Events
    BY <1>1
  <2> QED
    BY <2>1 DEF Events
<1> QED
  BY <1>1, <1>2 DEF Places, TimerList

\* The types of all but the list.
Rest ==
    /\ nextId \in 0..MaxId + 1
    /\ pc \in {"loop", "sleep", "files", "timers"}
    /\ sleepLeft \in Nat \cup {Forever}
    /\ maxId \in -1..MaxId /\ te \in 1..Len(timers) + 1
    /\ skewed \in BOOLEAN /\ back \in 0..MaxBack
    /\ dueSince \subseteq 0..MaxId /\ ran \subseteq 0..MaxId

LEMMA ListAndRest ==
    /\ TypeOK => Rest
    /\ TimerList(timers, nextId) /\ Rest => TypeOK
    /\ (TimerList(timers, nextId) /\ Rest => TypeOK)'
<1>1. TypeOK => Rest
  BY DEF TypeOK, Rest
<1>2. TimerList(timers, nextId) /\ Rest => TypeOK
  BY DEF TypeOK, Rest, TimerList, Ordered, Positions
<1>3. (TimerList(timers, nextId) /\ Rest => TypeOK)'
  BY DEF TypeOK, Rest, TimerList, Ordered, Positions
<1> QED
  BY <1>1, <1>2, <1>3

LEMMA Initial == Init => IInv
<1> SUFFICES ASSUME Init PROVE IInv
  OBVIOUS
<1> USE DEF Init
<1> DEFINE t0 == <<>>
           t1 == aeCreateTimeEvent(t0, 0, "once", 0)
           t2 == aeCreateTimeEvent(t1, 1, "calibrate", Period)
           t3 == aeCreateTimeEvent(t2, 2, "periodic", Period)
<1>1. TimerList(t0, 0)
  BY DEF TimerList, Ordered
<1>2. Period \in Int /\ Period >= -Floor /\ 0 >= -Floor /\ 0 \in 0..MaxId /\ 1 \in 0..MaxId
      /\ 2 \in 0..MaxId /\ {"once", "calibrate", "periodic"} \subseteq Kinds
  BY Floors, TimerLoopAssumption DEF Kinds
<1> HIDE DEF t0
<1>3. TimerList(t1, 1)
  BY <1>1, <1>2, Created_ DEF Created
<1> HIDE DEF t1
<1>4. TimerList(t2, 2)
  BY <1>2, <1>3, Created_ DEF Created
<1> HIDE DEF t2
<1>5. TimerList(t3, 3)
  BY <1>2, <1>4, Created_ DEF Created
<1>6. timers = t3
  BY DEF t0, t1, t2
<1> HIDE DEF t3
<1>7. TimerList(timers, nextId)
  BY <1>5, <1>6
<1>8. Rest
  <2>1. Len(timers) \in Nat
    BY <1>7, Places_ DEF Places
  <2>2. 1 \in 1..Len(timers) + 1 /\ -1 \in -1..MaxId /\ 3 \in 0..MaxId + 1
    BY <2>1, TimerLoopAssumption
  <2>3. 0 \in 0..MaxBack
    BY TimerLoopAssumption
  <2> QED
    BY <2>2, <2>3 DEF Rest
<1>9. TypeOK
  BY <1>7, <1>8, ListAndRest
<1> QED
  BY <1>7, <1>9 DEF IInv, PassInv, EveryDueTimerRuns, NewTimersWait, SleepIsBounded

LEMMA NatMin ==
    ASSUME NEW S, S \subseteq Nat, S # {}
    PROVE  \E x \in S : \A y \in S : x <= y
<1>1. PICK x \in S : \A y \in S : ~(<<y, x>> \in OpToRel(<, Nat))
  BY NatLessThanWellFounded, WFMin DEF OpToRel
<1>2. ASSUME NEW y \in S PROVE x <= y
  <2>1. x \in Nat /\ y \in Nat
    BY <1>1
  <2>2. ~(y < x)
    BY <1>1, <2>1 DEF OpToRel
  <2> QED
    BY <2>1, <2>2
<1> QED
  BY <1>1, <1>2

\* The timer that is due first, and the timeout made from it.
LEMMA SleepTimeBounds ==
    ASSUME IInv
    PROVE  /\ SleepTime \in Nat \cup {Forever}
           /\ \A i \in Positions :
                SleepTime # Forever /\ (SleepTime < Second \/ SleepTime <= timers[i].left)
<1>1. TimerList(timers, nextId)
  BY DEF IInv
<1>2. timers \in Seq(Events) /\ Len(timers) \in Nat /\ Positions = 1..Len(timers)
  BY <1>1 DEF TimerList, Positions
<1>3. CASE timers = <<>>
  BY <1>2, <1>3 DEF SleepTime
<1>4. CASE timers # <<>>
  <2> DEFINE Waits == {timers[i].left + Floor : i \in Positions}
  <2>1. \A i \in Positions : timers[i].left \in Int /\ timers[i].left + Floor \in Nat
    <3>1. Places(timers, nextId)
      BY <1>1, Places_
    <3> QED
      BY <3>1, FloorNat DEF Places, Positions
  <2>2. Waits \subseteq Nat /\ Waits # {}
    BY <1>2, <1>4, <2>1
  <2>3. PICK w \in Waits : \A v \in Waits : w <= v
    <3> HIDE DEF Waits
    <3> QED
      BY <2>2, NatMin
  <2>4. \E i \in Positions : \A j \in Positions : timers[i].left <= timers[j].left
    <3>1. PICK i \in Positions : w = timers[i].left + Floor
      BY <2>3
    <3>2. \A j \in Positions : timers[i].left + Floor <= timers[j].left + Floor
      BY <2>3, <3>1
    <3> QED
      BY <2>1, <3>2, Floors
  <2>5. Nearest \in Positions /\ \A j \in Positions : timers[Nearest].left <= timers[j].left
    BY <2>4 DEF Nearest
  <2>6. PICK left : left = timers[Nearest].left
    OBVIOUS
  <2>7. left \in Int /\ SleepTime = IF left < 0 THEN left % Second ELSE left
    BY <1>4, <2>1, <2>5, <2>6 DEF SleepTime
  <2>8. left % Second \in 0..Second - 1
    BY <2>7, TimerLoopAssumption
  <2>9. SleepTime \in Nat /\ (SleepTime < Second \/ SleepTime = left)
    BY <2>7, <2>8, TimerLoopAssumption
  <2> QED
    BY <2>1, <2>5, <2>6, <2>9 DEF Forever
<1> QED
  BY <1>3, <1>4

\* A handler: whatever it does to its own timer and puts on the head of the
\* list, the other timers are still there and are found when the walk restarts.
LEMMA HandlerKeeps ==
    ASSUME IInv, NEW kind, Runs(kind),
           nextId' \in 0..MaxId + 1, TimerList(timers, nextId)',
           \A j \in Positions : j # te => \E k \in DOMAIN timers' : timers'[k] = timers[j]
    PROVE  IInv'
<1> USE DEF Runs
<1>1. Rest /\ TimerList(timers, nextId)
  BY ListAndRest DEF IInv
<1>2. /\ Len(timers') \in Nat /\ DOMAIN timers' = 1..Len(timers')
      /\ te \in Positions /\ timers[te].id \in 0..MaxId
  <2>1. Places(timers, nextId) /\ Places(timers', nextId')
    BY <1>1, Places_
  <2> QED
    BY <2>1 DEF Places, Positions
<1>3. TypeOK'
  <2>1. Rest'
    <3>1. UNCHANGED <<pc, sleepLeft, maxId, skewed, back, dueSince>>
          /\ te' = 1 /\ ran' = ran \cup {timers[te].id}
      BY DEF Restart
    <3> HIDE DEF Runs
    <3>2. 1 \in 1..Len(timers') + 1
      BY <1>2
    <3> QED
      BY <1>1, <1>2, <3>1, <3>2 DEF Rest
  <2> QED
    BY <2>1, ListAndRest
<1>4. PassInv'
  <2> SUFFICES ASSUME NEW id \in dueSince \ ran'
               PROVE  id <= maxId /\ Ahead(timers', te', id)
    BY DEF PassInv, Ahead, Due
  <2>1. id <= maxId /\ Ahead(timers, te, id) /\ id # timers[te].id
    BY DEF IInv, PassInv
  <2>2. PICK i \in Positions : timers[i].id = id /\ Due(timers[i])
    BY <2>1 DEF Ahead, Positions
  <2>3. PICK k \in DOMAIN timers' : timers'[k] = timers[i]
    BY <2>1, <2>2
  <2> QED
    BY <1>2, <2>1, <2>2, <2>3 DEF Ahead, Restart
<1>5. EveryDueTimerRuns' /\ SleepIsBounded'
  BY DEF EveryDueTimerRuns, SleepIsBounded
<1>6. NewTimersWait'
  BY DEF IInv, NewTimersWait, Old
<1> QED
  BY <1>3, <1>4, <1>5, <1>6 DEF IInv

LEMMA HandlerStep ==
    ASSUME IInv,
           \/ RunOnce \/ RunPeriodic \/ RunCalibrate \/ RunCalibrateLater
           \/ \E d \in Delays : RunAgain(d)
    PROVE  IInv'
<1>1. TimerList(timers, nextId) /\ nextId \in 0..MaxId + 1 /\ nextId \in Int /\ MaxId \in Nat
  BY TimerLoopAssumption DEF IInv, TypeOK
<1>2. ASSUME NEW kind, Runs(kind), nextId' = nextId, NEW ms \in Nat,
             timers' = Rearm(timers, timers[te].id, ms)
      PROVE  IInv'
  <2>1. te \in DOMAIN timers
    BY <1>2 DEF Runs, Positions
  <2>2. Rearmed(timers, te, nextId, timers')
    BY <1>1, <1>2, <2>1, Rearmed_
  <2>3. TimerList(timers, nextId)'
    BY <1>2, <2>2 DEF Rearmed
  <2>4. \A j \in Positions : j # te => \E k \in DOMAIN timers' : timers'[k] = timers[j]
    BY <2>2 DEF Rearmed, Positions
  <2> QED
    BY <1>1, <1>2, <2>3, <2>4, HandlerKeeps
<1>3. CASE RunOnce
  <2>1. PICK kind \in {"once", "delay"} : Runs(kind)
    BY <1>3 DEF RunOnce
  <2>2. te \in DOMAIN timers
    BY <2>1 DEF Runs, Positions
  <2>3. Deleted(timers, te, nextId, timers')
    BY <1>1, <1>3, <2>2, Deleted_ DEF RunOnce
  <2>4. nextId' = nextId
    BY <1>3 DEF RunOnce
  <2>5. TimerList(timers, nextId)'
    BY <2>3, <2>4 DEF Deleted
  <2>6. \A j \in Positions : j # te => \E k \in DOMAIN timers' : timers'[k] = timers[j]
    BY <2>3 DEF Deleted, Positions
  <2> QED
    BY <1>1, <2>1, <2>4, <2>5, <2>6, HandlerKeeps
<1>4. CASE RunPeriodic
  BY <1>2, <1>4, TimerLoopAssumption DEF RunPeriodic
<1>5. CASE RunCalibrateLater
  BY <1>2, <1>5, TimerLoopAssumption DEF RunCalibrateLater
<1>6. CASE \E d \in Delays : RunAgain(d)
  BY <1>2, <1>6, TimerLoopAssumption DEF RunAgain
<1>7. CASE RunCalibrate
  <2> DEFINE ts == aeCreateTimeEvent(timers, nextId, "periodic", Period)
  <2>1. Runs("calibrate") /\ nextId \in 0..MaxId /\ nextId' = nextId + 1
        /\ timers' = aeDeleteTimeEvent(ts, timers[te].id)
    BY <1>1, <1>7 DEF RunCalibrate
  <2>2. Created(timers, nextId, Period, ts)
    <3>1. Period \in Int /\ Period >= -Floor /\ "periodic" \in Kinds
      BY FloorNat, TimerLoopAssumption DEF Kinds
    <3> QED
      BY <1>1, <2>1, <3>1, Created_
  <2> HIDE DEF ts
  <2>3. /\ TimerList(ts, nextId + 1) /\ ts # <<>>
        /\ \A i \in DOMAIN timers : i + 1 \in DOMAIN ts /\ ts[i + 1] = timers[i]
    BY <2>2 DEF Created
  <2>4. te \in DOMAIN timers /\ te \in Int
    BY <1>1, <2>1 DEF Runs, Positions, TimerList
  <2>5. Deleted(ts, te + 1, nextId + 1, timers')
    BY <1>1, <2>1, <2>3, <2>4, Deleted_
  <2>6. TimerList(timers, nextId)'
    BY <2>1, <2>5 DEF Deleted
  <2>7. ASSUME NEW j \in Positions, j # te
        PROVE  \E k \in DOMAIN timers' : timers'[k] = timers[j]
    <3>1. j \in DOMAIN timers /\ j \in Int
      BY <1>1 DEF Positions, TimerList
    <3>2. j + 1 \in DOMAIN ts /\ j + 1 # te + 1 /\ ts[j + 1] = timers[j]
      BY <2>3, <2>4, <2>7, <3>1
    <3> QED
      BY <2>5, <3>2 DEF Deleted
  <2>8. nextId' \in 0..MaxId + 1
    BY <1>1, <2>1
  <2> QED
    BY <2>1, <2>6, <2>7, <2>8, HandlerKeeps
<1> QED
  BY <1>3, <1>4, <1>5, <1>6, <1>7

LEMMA StartPassKeeps == IInv /\ StartPass => IInv'
<1> SUFFICES ASSUME IInv, StartPass PROVE IInv'
  OBVIOUS
<1> DEFINE due == [i \in Positions |-> [timers[i] EXCEPT !.left = Longest(@)]]
<1>1. TimerList(timers, nextId) /\ nextId \in 0..MaxId + 1 /\ Rest
  BY ListAndRest DEF IInv, Rest
<1>2. TimerList(due, nextId) /\ DOMAIN due = Positions
  <2>1. timers \in Seq(Events) /\ Len(timers) \in Nat /\ Positions = 1..Len(timers)
    BY <1>1 DEF TimerList, Positions
  <2>2. ASSUME NEW i \in Positions
        PROVE  /\ [timers[i] EXCEPT !.left = Longest(@)] \in Events
               /\ due[i].id = timers[i].id /\ due[i].left >= -Floor
    <3>1. timers[i] \in Events
      BY <2>1
    <3> QED
      BY <3>1, Floors DEF Events
  <2>3. due \in Seq(Events) /\ DOMAIN due = Positions
    BY <2>1, <2>2
  <2> HIDE DEF due
  <2>4. \A i \in Positions : due[i].id < nextId
    BY <1>1, <2>2 DEF TimerList, Positions
  <2>5. Ordered(due)
    <3> SUFFICES ASSUME NEW i \in Positions, NEW j \in Positions, i < j
                 PROVE  due[i].id > due[j].id
      BY <2>3 DEF Ordered
    <3>1. timers[i].id > timers[j].id
      BY <1>1 DEF TimerList, Ordered, Positions
    <3> QED
      BY <2>2, <3>1
  <2> QED
    BY <2>2, <2>3, <2>4, <2>5 DEF TimerList
<1>3. TimerList(timers', nextId) /\ DOMAIN timers' = Positions
  BY <1>1, <1>2 DEF StartPass, Positions
<1> HIDE DEF due
<1>4. /\ pc' = "timers" /\ skewed' = FALSE /\ maxId' = nextId - 1 /\ te' = 1
      /\ ran' = {} /\ nextId' = nextId
      /\ sleepLeft' = sleepLeft /\ back' = back
      /\ dueSince' = {timers'[i].id : i \in {j \in Positions : Due(timers'[j])}}
  BY DEF StartPass, Newest
<1>5. /\ Len(timers') \in Nat /\ DOMAIN timers' = 1..Len(timers')
      /\ \A i \in Positions : timers'[i].id \in 0..MaxId /\ timers'[i].id < nextId
  BY <1>3, Places_ DEF Places
<1>6. TypeOK'
  <2>1. 1 \in 1..Len(timers') + 1 /\ nextId - 1 \in -1..MaxId
    BY <1>1, <1>5, TimerLoopAssumption
  <2>2. dueSince' \subseteq 0..MaxId
    BY <1>4, <1>5
  <2>3. Rest'
    BY <1>1, <1>4, <1>5, <2>1, <2>2, TimerLoopAssumption DEF Rest
  <2> QED
    BY <1>3, <1>4, <2>3, ListAndRest
<1>7. PassInv'
  <2> SUFFICES ASSUME NEW id \in dueSince'
               PROVE  id <= maxId' /\ Ahead(timers', te', id)
    BY DEF PassInv, Ahead, Due
  <2>1. PICK i \in Positions : Due(timers'[i]) /\ id = timers'[i].id
    BY <1>4
  <2> QED
    BY <1>1, <1>3, <1>4, <1>5, <2>1 DEF Ahead
<1> QED
  BY <1>3, <1>4, <1>6, <1>7 DEF IInv, EveryDueTimerRuns, NewTimersWait, SleepIsBounded

LEMMA SetDelayKeeps == ASSUME IInv, NEW d \in Delays, SetDelay(d) PROVE IInv'
<1>1. TimerList(timers, nextId) /\ nextId \in 0..MaxId /\ TypeOK /\ pc = "files"
  BY TimerLoopAssumption DEF IInv, TypeOK, SetDelay
<1>2. d \in Int /\ d >= -Floor /\ "delay" \in Kinds
  BY FloorNat, TimerLoopAssumption DEF Kinds
<1>3. Created(timers, nextId, d, timers')
  BY <1>1, <1>2, Created_ DEF SetDelay
<1>4. TimerList(timers', nextId + 1) /\ nextId' = nextId + 1
      /\ \A i \in DOMAIN timers : i + 1 \in DOMAIN timers'
  BY <1>3 DEF Created, SetDelay
<1>5. /\ Len(timers') \in Nat /\ DOMAIN timers' = 1..Len(timers')
      /\ Len(timers) \in Nat /\ DOMAIN timers = 1..Len(timers)
  BY <1>1, <1>4 DEF TimerList
<1>6. Len(timers) <= Len(timers')
  <2>1. CASE Len(timers) = 0
    BY <1>5, <2>1
  <2>2. CASE Len(timers) # 0
    BY <1>4, <1>5, <2>2
  <2> QED
    BY <2>1, <2>2
<1>7. TypeOK'
  <2>1. Rest
    BY ListAndRest DEF IInv
  <2>2. Rest'
    BY <1>1, <1>5, <1>6, <2>1, TimerLoopAssumption DEF Rest, SetDelay
  <2> QED
    BY <1>4, <2>2, ListAndRest
<1> QED
  BY <1>1, <1>4, <1>7
  DEF IInv, PassInv, EveryDueTimerRuns, NewTimersWait, SleepIsBounded, SetDelay

LEMMA TickKeeps == IInv /\ Tick => IInv'
<1> SUFFICES ASSUME IInv, Tick PROVE IInv'
  OBVIOUS
<1>1. TimerList(timers, nextId) /\ Rest
  BY ListAndRest DEF IInv
<1>2. Forwarded(timers, 1, nextId, timers')
  BY <1>1, Forwarded_ DEF Tick
<1>3. /\ TimerList(timers', nextId) /\ DOMAIN timers' = Positions
      /\ \A i \in Positions :
           /\ timers[i].left \in Int /\ timers'[i].id = timers[i].id
           /\ timers'[i].left = IF timers[i].left - 1 < -Floor THEN Longest(timers[i].left - 1)
                                ELSE timers[i].left - 1
  BY <1>1, <1>2, Places_ DEF Forwarded, Places, Positions
<1>4. UNCHANGED <<nextId, pc, maxId, te, skewed, back, dueSince, ran>>
  BY DEF Tick
<1>5. \A i \in Positions : Due(timers[i]) => Due(timers'[i])
  <2> SUFFICES ASSUME NEW i \in Positions, Due(timers[i]) PROVE Due(timers'[i])
    OBVIOUS
  <2>1. timers[i].left - 1 \in Int
    BY <1>3
  <2>2. Longest(timers[i].left - 1) \in Int /\ Longest(timers[i].left - 1) < -MaxBack
    BY <2>1, Floors
  <2> QED
    BY <1>3, <2>2, Floors DEF Due
<1>6. Len(timers') = Len(timers)
  BY <1>1, <1>3 DEF TimerList, Positions
<1>7. sleepLeft' \in Nat \cup {Forever}
  BY <1>1 DEF Rest, Tick, Forever
<1>9. TypeOK'
  <2>1. Rest'
    BY <1>1, <1>4, <1>6, <1>7 DEF Rest
  <2> QED
    BY <1>3, <1>4, <2>1, ListAndRest
<1>10. PassInv'
  BY <1>3, <1>4, <1>5 DEF IInv, PassInv, Ahead, Positions, Due
<1>11. SleepIsBounded'
  <2> SUFFICES ASSUME pc = "sleep", NEW i \in Positions
               PROVE  /\ sleepLeft' # Forever
                      /\ sleepLeft' < Second \/ sleepLeft' <= timers'[i].left
    BY <1>3, <1>4 DEF SleepIsBounded, Positions
  <2>1. sleepLeft # Forever /\ (sleepLeft < Second \/ sleepLeft <= timers[i].left)
    BY DEF IInv, SleepIsBounded
  <2>2. sleepLeft' = IF sleepLeft > 0 THEN sleepLeft - 1 ELSE sleepLeft
    BY DEF Tick
  <2>3. sleepLeft \in Nat
    BY <1>1, <2>1 DEF Rest
  <2>4. timers[i].left >= 0 => timers'[i].left = timers[i].left - 1
    <3>1. CASE Floor = 0
      BY <3>1, TimerLoopAssumption DEF Floor
    <3>2. CASE Floor # 0
      BY <1>3, <3>2, Floors
    <3> QED
      BY <3>1, <3>2
  <2> QED
    BY <1>3, <2>1, <2>2, <2>3, <2>4, TimerLoopAssumption DEF Forever
<1> QED
  BY <1>3, <1>4, <1>9, <1>10, <1>11 DEF IInv, EveryDueTimerRuns, NewTimersWait

LEMMA SetBackKeeps == ASSUME IInv, NEW n \in 1..MaxBack, SetBack(n) PROVE IInv'
<1>1. TimerList(timers, nextId) /\ Rest
  BY ListAndRest DEF IInv
<1>2. -n \in Int /\ n \in Nat
  BY TimerLoopAssumption
<1>3. timers' = Forward(timers, -n) /\ UNCHANGED <<nextId, pc, sleepLeft, maxId, te, ran>>
  BY DEF SetBack
<1>4. Forwarded(timers, -n, nextId, timers')
  BY <1>1, <1>2, <1>3, Forwarded_
<1>5. /\ TimerList(timers', nextId) /\ DOMAIN timers' = Positions
      /\ \A i \in Positions :
           /\ timers[i].left \in Int /\ timers'[i].id = timers[i].id
           /\ timers'[i].left = timers[i].left + n
  <2>1. Places(timers, nextId)
    BY <1>1, Places_
  <2>2. \A i \in Positions : timers[i].left - (-n) = timers[i].left + n
                             /\ ~(timers[i].left + n < -Floor)
    BY <1>2, <2>1, FloorNat DEF Places, Positions
  <2> QED
    BY <1>2, <1>4, <2>1, <2>2 DEF Forwarded, Places, Positions
<1>6. Len(timers') = Len(timers)
  BY <1>1, <1>5 DEF TimerList, Positions
<1>7. dueSince' \subseteq dueSince
  BY DEF SetBack
<1>8. TypeOK'
  <2>1. back' \in 0..MaxBack
    BY <1>1, TimerLoopAssumption DEF Rest, SetBack
  <2>2. skewed' \in {skewed, TRUE} /\ skewed \in BOOLEAN
    BY <1>1 DEF Rest, SetBack
  <2>3. skewed' \in BOOLEAN
    BY <2>2, Zenon
  <2>4. Rest'
    BY <1>1, <1>3, <1>6, <1>7, <2>1, <2>3 DEF Rest
  <2> QED
    BY <1>3, <1>5, <2>4, ListAndRest
<1>9. PassInv'
  <2> SUFFICES ASSUME pc = "timers", NEW id \in dueSince', id \notin ran
               PROVE  id <= maxId /\ Ahead(timers', te, id)
    BY <1>3 DEF PassInv, Ahead, Due
  <2>1. id \in dueSince /\ \E i \in Positions : timers'[i].id = id /\ Due(timers'[i])
    BY <1>3 DEF SetBack
  <2>2. PICK i \in Positions : timers'[i].id = id /\ Due(timers'[i])
    BY <2>1
  <2>3. id <= maxId /\ Ahead(timers, te, id)
    BY <2>1 DEF IInv, PassInv
  <2>4. PICK k \in Positions : k >= te /\ timers[k].id = id
    BY <2>3 DEF Ahead, Positions
  <2>5. i = k
    BY <1>1, <1>5, <2>2, <2>4, OneOfAnId DEF Positions
  <2> QED
    BY <1>5, <2>2, <2>3, <2>4, <2>5 DEF Ahead
<1>10. EveryDueTimerRuns' /\ NewTimersWait'
  BY <1>3, <1>7 DEF IInv, EveryDueTimerRuns, NewTimersWait
<1>11. SleepIsBounded'
  <2> SUFFICES ASSUME pc = "sleep", NEW i \in Positions
               PROVE  /\ sleepLeft # Forever
                      /\ sleepLeft < Second \/ sleepLeft <= timers'[i].left
    BY <1>3, <1>5 DEF SleepIsBounded, Positions
  <2>1. sleepLeft # Forever /\ (sleepLeft < Second \/ sleepLeft <= timers[i].left)
    BY DEF IInv, SleepIsBounded
  <2>2. sleepLeft \in Nat
    BY <1>1, <2>1 DEF Rest
  <2> QED
    BY <1>2, <1>5, <2>1, <2>2
<1> QED
  BY <1>3, <1>5, <1>8, <1>9, <1>10, <1>11 DEF IInv

LEMMA LoopKeeps ==
    ASSUME IInv, Sleep \/ WakeTimeout \/ WakeReady \/ PassOver \/ EndPass
    PROVE  IInv'
<1>1. TimerList(timers, nextId) /\ Rest /\ UNCHANGED <<timers, nextId>>
  BY ListAndRest DEF IInv, Sleep, WakeTimeout, WakeReady, PassOver, EndPass
<1>2. TimerList(timers, nextId)'
  BY <1>1 DEF TimerList, Ordered
<1>3. CASE Sleep
  <2>1. Rest'
    BY <1>1, <1>3, SleepTimeBounds DEF Rest, Sleep
  <2>2. TypeOK'
    BY <1>2, <2>1, ListAndRest
  <2>3. SleepIsBounded'
    <3>1. \A i \in Positions :
            SleepTime # Forever /\ (SleepTime < Second \/ SleepTime <= timers[i].left)
      BY SleepTimeBounds
    <3>2. sleepLeft' = SleepTime /\ timers' = timers /\ Positions' = Positions
      BY <1>1, <1>3 DEF Sleep, Positions
    <3> QED
      BY <3>1, <3>2 DEF SleepIsBounded, Forever
  <2> QED
    BY <1>2, <1>3, <2>2, <2>3 DEF IInv, PassInv, EveryDueTimerRuns, NewTimersWait, Sleep
<1>4. CASE WakeTimeout \/ WakeReady
  <2>1. Rest'
    <3>1. pc' = "files" /\ sleepLeft' \in {sleepLeft, 0}
          /\ UNCHANGED <<maxId, te, skewed, back, dueSince, ran>>
      BY <1>4 DEF WakeTimeout, WakeReady
    <3> QED
      BY <1>1, <3>1 DEF Rest
  <2>2. TypeOK'
    BY <1>2, <2>1, ListAndRest
  <2> QED
    BY <1>2, <1>4, <2>2
    DEF IInv, PassInv, EveryDueTimerRuns, NewTimersWait, SleepIsBounded, WakeTimeout, WakeReady
<1>5. CASE PassOver
  <2>1. Len(timers) \in Nat /\ Positions = 1..Len(timers) /\ te \in 1..Len(timers)
        /\ te' = te + 1 /\ pc = "timers"
        /\ UNCHANGED <<pc, sleepLeft, maxId, skewed, back, dueSince, ran>>
    BY <1>1, <1>5 DEF PassOver, TimerList, Positions
  <2>2. TypeOK'
    <3>1. Rest'
      BY <1>1, <2>1 DEF Rest
    <3> QED
      BY <1>2, <3>1, ListAndRest
  <2>3. PassInv'
    <3> SUFFICES ASSUME NEW id \in dueSince \ ran
                 PROVE  id <= maxId /\ Ahead(timers, te + 1, id)
      BY <1>1, <2>1 DEF PassInv, Ahead, Due
    <3>1. id <= maxId
      BY <2>1 DEF IInv, PassInv
    <3>2. PICK i \in Positions : i >= te /\ timers[i].id = id /\ Due(timers[i])
      BY <2>1 DEF IInv, PassInv, Ahead, Positions
    <3>3. i # te
      BY <1>5, <3>1, <3>2 DEF PassOver, Old
    <3> QED
      BY <2>1, <3>1, <3>2, <3>3 DEF Ahead, Positions
  <2> QED
    BY <1>2, <2>1, <2>2, <2>3 DEF IInv, EveryDueTimerRuns, NewTimersWait, SleepIsBounded
<1>6. CASE EndPass
  <2>1. Len(timers) \in Nat /\ Positions = 1..Len(timers) /\ te = Len(timers) + 1
        /\ UNCHANGED <<sleepLeft, maxId, te, skewed, back, dueSince, ran>>
        /\ pc = "timers" /\ pc' = "loop"
    BY <1>1, <1>6 DEF EndPass, Rest, TimerList, Positions
  <2>2. TypeOK'
    <3>1. Rest'
      BY <1>1, <2>1 DEF Rest
    <3> QED
      BY <1>2, <3>1, ListAndRest
  <2>3. dueSince \subseteq ran
    <3> SUFFICES ASSUME NEW id \in dueSince, id \notin ran PROVE FALSE
      OBVIOUS
    <3>1. PICK i \in Positions : i >= te
      BY <2>1 DEF IInv, PassInv, Ahead, Positions
    <3> QED
      BY <2>1, <3>1
  <2> QED
    BY <1>2, <2>1, <2>2, <2>3 DEF IInv, PassInv, EveryDueTimerRuns, NewTimersWait, SleepIsBounded
<1> QED
  BY <1>3, <1>4, <1>5, <1>6

LEMMA InductiveStep == IInv /\ [Next]_vars => IInv'
<1> SUFFICES ASSUME IInv, [Next]_vars PROVE IInv'
  OBVIOUS
<1>1. CASE UNCHANGED vars
  BY <1>1 DEF IInv, vars, TypeOK, TimerList, Ordered, PassInv, Ahead, EveryDueTimerRuns,
     NewTimersWait, SleepIsBounded, Positions, Due
<1>2. CASE Tick
  BY <1>2, TickKeeps
<1>3. CASE \E n \in 1..MaxBack : SetBack(n)
  BY <1>3, SetBackKeeps
<1>4. CASE \E d \in Delays : SetDelay(d)
  BY <1>4, SetDelayKeeps
<1>5. CASE StartPass
  BY <1>5, StartPassKeeps
<1>6. CASE Sleep \/ WakeTimeout \/ WakeReady \/ PassOver \/ EndPass
  BY <1>6, LoopKeeps
<1>7. CASE \/ RunOnce \/ RunPeriodic \/ RunCalibrate \/ RunCalibrateLater
           \/ \E d \in Delays : RunAgain(d)
  BY <1>7, HandlerStep
<1> QED
  BY <1>1, <1>2, <1>3, <1>4, <1>5, <1>6, <1>7 DEF Next, Thread, RunTimer, Descriptors

\* The list, the pass and the sleep are as IInv says in every state.
THEOREM Invariant == Spec => []IInv
BY Initial, InductiveStep, PTL DEF Spec

\* The types of all variables, and the order of the list that the comparison
\* of ids in processTimeEvents depends on.
THEOREM TypesHold == Spec => []TypeOK
<1>1. IInv => TypeOK
  BY DEF IInv
<1> QED
  BY <1>1, Invariant, PTL

\* A pass of processTimeEvents runs every timer that was due when it began and
\* stayed due, and none that its own handlers created, whatever they delete,
\* create and set again, whatever time they take, and also when the clock is set
\* back between two of the timers.
THEOREM PassesAreComplete == Spec => []PassRunsOldTimers
<1>1. IInv => PassRunsOldTimers
  BY DEF IInv, PassRunsOldTimers
<1> QED
  BY <1>1, Invariant, PTL

\* The timeout that aeProcessEvents gives epoll_wait has an end while there are
\* timers, and sleeps past none of them by a second or more; a timer that is
\* overdue may cost the part of a second that the code does not cut.
THEOREM SleepsAreBounded == Spec => []SleepIsBounded
<1>1. IInv => SleepIsBounded
  BY DEF IInv
<1> QED
  BY <1>1, Invariant, PTL
=============================================================================
