------------------------- MODULE AppTimerListProofs -------------------------
(***************************************************************************)
(* Proof that AppTimer never forgets a timer, for any set of timers, delays*)
(* and handlers, any period of the counter and any size of the queue that  *)
(* is not overrun, for programs that neither stop all timers nor pause.    *)
(***************************************************************************)
EXTENDS AppTimer, TLAPS, FiniteSetTheorems

-----------------------------------------------------------------------------
(***************************************************************************)
(* The inductive invariant.                                                *)
(***************************************************************************)

\* The last request for t that waits is its start.
Asked(t) ==
    \E i \in 1 .. Len(m_req_fifo) :
        /\ m_req_fifo[i] = [type |-> "START", timer |-> t]
        /\ \A j \in i + 1 .. Len(m_req_fifo) : m_req_fifo[j].timer # t

Unrequested(t) == \A i \in 1 .. Len(m_req_fifo) : m_req_fifo[i].timer # t

InList(t) == Contains(m_app_timer_sortlist, t)

Kept(t) == InList(t) \/ mp_active_timer = t \/ p_next = t

\* The active timer is about to be replaced by p_next, or by none.
Leaving == pc \in {"window", "write", "check", "handler"}

\* What is requested when app_timer_stop_all is not used.
UserRequests == [type : {"START", "STOP"}, timer : Timers]

ListTypes ==
    /\ pc \in Places
    /\ ret \in {"compare1", "update"}
    /\ m_app_timer_sortlist \in Seq(Timers)
    /\ m_req_fifo \in Seq(UserRequests)
    /\ mp_active_timer \in Timers \cup {None}
    /\ p_next \in Timers \cup {None}
    /\ Leaving <=> p_next # None
    /\ DOMAIN end_val = Timers
    /\ DOMAIN repeat_period = Timers
    /\ m_global_active = TRUE

\* A timer that runs is in its place, or its start is the last thing asked of it.
RunningInv ==
    \A t \in Timers : end_val[t] # Idle => Asked(t) \/ (Unrequested(t) /\ Kept(t))

\* The active timer that is about to be replaced is back in the list, or stopped,
\* or started again.
ReplacedInv ==
    Leaving => \A t \in Timers :
        mp_active_timer = t /\ end_val[t] # Idle => Asked(t) \/ InList(t) \/ p_next = t

\* A single-shot timer that runs while its handler does was started by that.
HandlerInv ==
    pc = "handler" => \A t \in Timers :
        p_next = t /\ repeat_period[t] = 0 /\ end_val[t] # Idle => Asked(t)

ListInv == ListTypes /\ RunningInv /\ ReplacedInv /\ HandlerInv

-----------------------------------------------------------------------------
(***************************************************************************)
(* The sorted list.                                                        *)
(***************************************************************************)

\* A set of naturals that is finite and not empty has a least element: if each had
\* a smaller one, counting the smaller ones would map it into a smaller set.
LEMMA HasLeast ==
    ASSUME NEW I \in SUBSET Nat, IsFiniteSet(I), I # {}
    PROVE  Min(I) \in I /\ \A y \in I : Min(I) <= y
<1> DEFINE Below(x) == {y \in I : y < x}
           n == Cardinality(I)
           count == [x \in I |-> Cardinality(Below(x))]
<1>1. n \in Nat
  BY FS_CardinalityType
<1>2. ASSUME NEW x \in I
      PROVE  IsFiniteSet(Below(x)) /\ count[x] \in Nat /\ count[x] < n
  <2>1. IsFiniteSet(Below(x)) /\ Cardinality(Below(x)) <= n /\ Below(x) # I
    <3>1. Below(x) \in SUBSET I /\ x \notin Below(x)
      OBVIOUS
    <3>2. IsFiniteSet(Below(x)) /\ Cardinality(Below(x)) <= n
      BY <3>1, FS_Subset
    <3> QED
      BY <3>1, <3>2
  <2>2. Cardinality(Below(x)) # n
    BY <2>1, FS_Subset
  <2>3. Cardinality(Below(x)) \in Nat
    BY <2>1, FS_CardinalityType
  <2> HIDE DEF Below, n
  <2> QED
    BY <1>1, <2>1, <2>2, <2>3
<1>3. ASSUME NEW x \in I, NEW y \in I, x < y
      PROVE  count[x] < count[y]
  <2>1. Below(x) \in SUBSET Below(y) /\ x \in Below(y) /\ x \notin Below(x)
    <3>1. x \in Nat /\ y \in Nat
      OBVIOUS
    <3>2. ASSUME NEW z \in Below(x) PROVE z \in Below(y)
      <4>1. z \in I /\ z \in Nat /\ z < x
        OBVIOUS
      <4>2. z < y
        BY <3>1, <4>1, <1>3
      <4> QED
        BY <4>1, <4>2
    <3>3. x \notin Below(x)
      BY <3>1
    <3>4. x \in Below(y)
      BY <1>3
    <3> QED
      BY <3>2, <3>3, <3>4
  <2>2. Below(x) # Below(y)
    BY <2>1
  <2>3. /\ IsFiniteSet(Below(y)) /\ count[x] \in Nat /\ count[y] \in Nat
        /\ count[x] = Cardinality(Below(x)) /\ count[y] = Cardinality(Below(y))
    BY <1>2
  <2> HIDE DEF Below, count
  <2>4. Cardinality(Below(x)) <= Cardinality(Below(y)) /\ Cardinality(Below(x)) # Cardinality(Below(y))
    BY <2>1, <2>2, <2>3, FS_Subset
  <2> QED
    BY <2>3, <2>4
<1>4. \E x \in I : count[x] = 0
  <2> SUFFICES ASSUME \A x \in I : count[x] # 0 PROVE FALSE
    OBVIOUS
  <2>1. \A x \in I : count[x] \in 1 .. n - 1
    <3> HIDE DEF count, n
    <3> SUFFICES ASSUME NEW x \in I PROVE count[x] \in 1 .. n - 1
      OBVIOUS
    <3>1. count[x] \in Nat /\ count[x] < n
      BY <1>2
    <3>2. count[x] # 0
      OBVIOUS
    <3> QED
      BY <1>1, <3>1, <3>2
  <2>2. count \in [I -> 1 .. n - 1]
    BY <2>1
  <2>3. IsFiniteSet(1 .. n - 1) /\ Cardinality(1 .. n - 1) < n
    <3>1. n # 0
      BY FS_EmptySet
    <3> HIDE DEF n
    <3>2. Cardinality(1 .. n - 1) = IF 1 > n - 1 THEN 0 ELSE (n - 1) - 1 + 1
      BY <1>1, FS_Interval
    <3>3. IsFiniteSet(1 .. n - 1)
      BY <1>1, FS_Interval
    <3> QED
      BY <1>1, <3>1, <3>2, <3>3
  <2>4. PICK x, y \in I : x # y /\ count[x] = count[y]
    <3> HIDE DEF count
    <3> QED
      BY <2>2, <2>3, FS_PigeonHole
  <2>5. x < y \/ y < x
    BY <2>4
  <2>6. count[x] \in Nat /\ count[y] \in Nat
    BY <1>2
  <2> HIDE DEF count
  <2> QED
    BY <1>3, <2>4, <2>5, <2>6
<1>5. PICK x \in I : count[x] = 0
  BY <1>4
<1>6. Below(x) = {}
  BY <1>2, <1>5, FS_EmptySet
<1>7. \A y \in I : x <= y
  BY <1>6
<1> QED
  BY <1>7 DEF Min

\* The first place that is looked for is a place of the list.
LEMMA FirstPlace ==
    ASSUME NEW n \in Nat, NEW I \in SUBSET (1 .. n), I # {}
    PROVE  Min(I) \in I /\ \A y \in I : Min(I) <= y
<1>1. IsFiniteSet(1 .. n)
  BY FS_Interval
<1>2. IsFiniteSet(I)
  BY <1>1, FS_Subset
<1>3. I \in SUBSET Nat
  OBVIOUS
<1> QED
  BY <1>2, <1>3, HasLeast

LEMMA Joined ==
    ASSUME NEW front \in Seq(Timers), NEW back \in Seq(Timers)
    PROVE  /\ front \o back \in Seq(Timers)
           /\ Len(front \o back) = Len(front) + Len(back)
           /\ \A j \in 1 .. Len(front) : (front \o back)[j] = front[j]
           /\ \A j \in Len(front) + 1 .. Len(front) + Len(back) :
                 (front \o back)[j] = back[j - Len(front)]
OBVIOUS

LEMMA Inserted ==
    ASSUME NEW list \in Seq(Timers), NEW t \in Timers, NEW i \in 1 .. Len(list) + 1
    PROVE  LET all == InsertAt(list, i, t) IN
           /\ all \in Seq(Timers) /\ Len(all) = Len(list) + 1
           /\ all[i] = t
           /\ \A j \in 1 .. i - 1 : all[j] = list[j]
           /\ \A j \in i + 1 .. Len(list) + 1 : all[j] = list[j - 1]
           /\ \A u : Contains(all, u) <=> Contains(list, u) \/ u = t
<1> DEFINE front == SubSeq(list, 1, i - 1)
           back  == SubSeq(list, i, Len(list))
           all   == InsertAt(list, i, t)
<1>1. /\ front \in Seq(Timers) /\ Len(front) = i - 1
      /\ \A j \in 1 .. i - 1 : front[j] = list[j]
  OBVIOUS
<1>2. /\ back \in Seq(Timers) /\ Len(back) = Len(list) - i + 1
      /\ \A j \in 1 .. Len(list) - i + 1 : back[j] = list[i + j - 1]
  OBVIOUS
<1>3. all = front \o <<t>> \o back
  BY DEF InsertAt
<1> HIDE DEF front, back, all
<1>4. /\ all \in Seq(Timers) /\ Len(all) = Len(list) + 1
      /\ all[i] = t
      /\ \A j \in 1 .. i - 1 : all[j] = front[j]
      /\ \A j \in i + 1 .. Len(list) + 1 : all[j] = back[j - i]
  <2> DEFINE start == front \o <<t>>
  <2>1. /\ <<t>> \in Seq(Timers) /\ Len(<<t>>) = 1 /\ <<t>>[1] = t
        /\ Len(list) \in Nat /\ i \in Nat
    OBVIOUS
  <2>2. /\ start \in Seq(Timers) /\ Len(start) = i
        /\ \A j \in 1 .. i - 1 : start[j] = front[j]
        /\ start[i] = t
    <3>1. /\ start \in Seq(Timers) /\ Len(start) = Len(front) + Len(<<t>>)
          /\ \A j \in 1 .. Len(front) : start[j] = front[j]
          /\ \A j \in Len(front) + 1 .. Len(front) + Len(<<t>>) : start[j] = <<t>>[j - Len(front)]
      BY <1>1, <2>1, Joined
    <3> HIDE DEF start
    <3>2. Len(front) = i - 1 /\ Len(<<t>>) = 1 /\ i - (i - 1) = 1
      BY <1>1, <2>1
    <3>3. Len(start) = i /\ \A j \in 1 .. i - 1 : start[j] = front[j]
      BY <3>1, <3>2, <2>1
    <3>4. start[i] = <<t>>[1]
      <4>1. i \in Len(front) + 1 .. Len(front) + Len(<<t>>) /\ i - Len(front) = 1
        BY <3>2, <2>1
      <4> QED
        BY <3>1, <4>1
    <3> QED
      BY <3>1, <3>3, <3>4, <2>1
  <2>3. all = start \o back
    BY <1>3
  <2> HIDE DEF start
  <2>4. /\ all \in Seq(Timers) /\ Len(all) = Len(list) + 1
        /\ \A j \in 1 .. i : all[j] = start[j]
        /\ \A j \in i + 1 .. Len(list) + 1 : all[j] = back[j - i]
    <3>1. /\ all \in Seq(Timers) /\ Len(all) = Len(start) + Len(back)
          /\ \A j \in 1 .. Len(start) : all[j] = start[j]
          /\ \A j \in Len(start) + 1 .. Len(start) + Len(back) : all[j] = back[j - Len(start)]
      BY <1>2, <2>2, <2>3, Joined
    <3>2. Len(start) = i /\ i + Len(back) = Len(list) + 1
      BY <1>2, <2>1, <2>2
    <3>3. Len(start) + Len(back) = Len(list) + 1
      BY <3>2
    <3> QED
      BY <3>1, <3>2, <3>3
  <2> QED
    BY <2>1, <2>2, <2>4
<1>5. /\ \A j \in 1 .. i - 1 : all[j] = list[j]
      /\ \A j \in i + 1 .. Len(list) + 1 : all[j] = list[j - 1]
  BY <1>1, <1>2, <1>4
<1>6. ASSUME NEW u, Contains(list, u) PROVE Contains(all, u)
  <2>1. PICK j \in 1 .. Len(list) : list[j] = u
    BY <1>6 DEF Contains
  <2>2. CASE j < i
    BY <2>1, <2>2, <1>4, <1>5 DEF Contains
  <2>3. CASE j >= i
    <3>1. j + 1 \in i + 1 .. Len(list) + 1 /\ j + 1 \in 1 .. Len(all) /\ j + 1 - 1 = j
      BY <2>3, <1>4
    <3> QED
      BY <3>1, <2>1, <1>5 DEF Contains
  <2> QED
    BY <2>2, <2>3
<1>7. Contains(all, t)
  BY <1>4 DEF Contains
<1>8. ASSUME NEW u, Contains(all, u), u # t PROVE Contains(list, u)
  <2>1. PICK j \in 1 .. Len(all) : all[j] = u
    BY <1>8 DEF Contains
  <2>2. CASE j < i
    BY <2>1, <2>2, <1>4, <1>5 DEF Contains
  <2>3. CASE j > i
    <3>1. j - 1 \in 1 .. Len(list) /\ j \in i + 1 .. Len(list) + 1
      BY <2>3, <2>1, <1>4
    <3> QED
      BY <3>1, <2>1, <1>5 DEF Contains
  <2> QED
    BY <2>1, <2>2, <2>3, <1>4, <1>8
<1> QED
  BY <1>4, <1>5, <1>6, <1>7, <1>8 DEF all

\* nrf_sortlist_add puts an item before the first that ends later.
LEMMA SortedPlace ==
    ASSUME NEW list \in Seq(Timers), NEW t \in Timers, NEW ends
    PROVE  \E i \in 1 .. Len(list) + 1 :
              /\ sortlist_add(list, t, ends) = InsertAt(list, i, t)
              /\ \A j \in 1 .. i - 1 : ~(ends[list[j]] > ends[t])
              /\ i <= Len(list) => ends[list[i]] > ends[t]
<1> DEFINE I == {i \in 1 .. Len(list) : ends[list[i]] > ends[t]}
           later == IF I # {} THEN Min(I) ELSE 0
           at == IF later = 0 THEN Len(list) + 1 ELSE later
<1>1. sortlist_add(list, t, ends) = InsertAt(list, at, t)
  BY DEF sortlist_add, SelectInSeq
<1>2. I # {} => Min(I) \in I
  <2>1. Len(list) \in Nat /\ I \in SUBSET (1 .. Len(list))
    OBVIOUS
  <2> HIDE DEF I
  <2> QED
    BY <2>1, FirstPlace
<1>3. at \in 1 .. Len(list) + 1
  <2>1. I \in SUBSET (1 .. Len(list)) /\ Len(list) \in Nat
    OBVIOUS
  <2> HIDE DEF I
  <2>2. CASE I = {}
    BY <2>1, <2>2
  <2>3. CASE I # {}
    <3>1. Min(I) \in 1 .. Len(list) /\ later = Min(I)
      BY <1>2, <2>1, <2>3
    <3> HIDE DEF later
    <3> QED
      BY <3>1, <2>1
  <2> QED
    BY <2>2, <2>3
<1>4. \A j \in 1 .. at - 1 : ~(ends[list[j]] > ends[t])
  <2> SUFFICES ASSUME NEW j \in 1 .. at - 1, ends[list[j]] > ends[t] PROVE FALSE
    OBVIOUS
  <2>1. j \in 1 .. Len(list) /\ j < at
    BY <1>3
  <2>2. j \in I
    BY <2>1
  <2>3. \A y \in I : Min(I) <= y
    <3>1. I \in SUBSET (1 .. Len(list)) /\ Len(list) \in Nat
      OBVIOUS
    <3> HIDE DEF I
    <3> QED
      BY <2>2, <3>1, FirstPlace
  <2>4. Min(I) \in Nat /\ at = Min(I)
    <3>1. I \in SUBSET Nat /\ 0 \notin I
      OBVIOUS
    <3> HIDE DEF I
    <3>2. Min(I) \in Nat /\ Min(I) # 0
      BY <1>2, <2>2, <3>1
    <3> QED
      BY <2>2, <3>2
  <2> HIDE DEF at, I
  <2> QED
    BY <2>1, <2>2, <2>3, <2>4
<1>5. at <= Len(list) => ends[list[at]] > ends[t]
  <2> SUFFICES ASSUME at <= Len(list) PROVE at \in I
    OBVIOUS
  <2>1. Len(list) \in Nat
    OBVIOUS
  <2>2. I # {} /\ at = Min(I)
    <3> HIDE DEF I
    <3> QED
      BY <2>1
  <2> QED
    BY <1>2, <2>2
<1> HIDE DEF at
<1> QED
  BY <1>1, <1>3, <1>4, <1>5

\* It loses nothing and adds one.
LEMMA SortedAdd ==
    ASSUME NEW list \in Seq(Timers), NEW t \in Timers, NEW ends
    PROVE  /\ sortlist_add(list, t, ends) \in Seq(Timers)
           /\ \A u : Contains(sortlist_add(list, t, ends), u) <=> Contains(list, u) \/ u = t
<1>1. PICK i \in 1 .. Len(list) + 1 : sortlist_add(list, t, ends) = InsertAt(list, i, t)
  BY SortedPlace
<1> QED
  BY <1>1, Inserted

LEMMA RemovedAt ==
    ASSUME NEW list \in Seq(Timers), NEW i \in 1 .. Len(list)
    PROVE  LET rest == RemoveAt(list, i) IN
           /\ rest \in Seq(Timers) /\ Len(rest) = Len(list) - 1
           /\ \A j \in 1 .. i - 1 : rest[j] = list[j]
           /\ \A j \in i .. Len(list) - 1 : rest[j] = list[j + 1]
           /\ \A u : u # list[i] => (Contains(rest, u) <=> Contains(list, u))
<1> DEFINE front == SubSeq(list, 1, i - 1)
           back  == SubSeq(list, i + 1, Len(list))
           rest  == RemoveAt(list, i)
<1>1. /\ front \in Seq(Timers) /\ Len(front) = i - 1
      /\ \A j \in 1 .. i - 1 : front[j] = list[j]
  OBVIOUS
<1>2. /\ back \in Seq(Timers) /\ Len(back) = Len(list) - i
      /\ \A j \in 1 .. Len(list) - i : back[j] = list[i + j]
  OBVIOUS
<1>3. rest = front \o back
  BY DEF RemoveAt
<1> HIDE DEF front, back, rest
<1>4. /\ rest \in Seq(Timers) /\ Len(rest) = Len(list) - 1
      /\ \A j \in 1 .. i - 1 : rest[j] = list[j]
      /\ \A j \in i .. Len(list) - 1 : rest[j] = list[j + 1]
  <2>1. /\ rest \in Seq(Timers) /\ Len(rest) = Len(list) - 1
        /\ \A j \in 1 .. i - 1 : rest[j] = front[j]
        /\ \A j \in i .. Len(list) - 1 : rest[j] = back[j - (i - 1)]
    BY <1>1, <1>2, <1>3, Joined
  <2>2. ASSUME NEW j \in i .. Len(list) - 1 PROVE back[j - (i - 1)] = list[j + 1]
    <3>1. j - (i - 1) \in 1 .. Len(list) - i /\ i + (j - (i - 1)) = j + 1
      OBVIOUS
    <3> QED
      BY <3>1, <1>2
  <2> QED
    BY <1>1, <2>1, <2>2
<1>5. ASSUME NEW u, u # list[i], Contains(list, u) PROVE Contains(rest, u)
  <2>1. PICK j \in 1 .. Len(list) : list[j] = u
    BY <1>5 DEF Contains
  <2>2. CASE j < i
    BY <2>1, <2>2, <1>4 DEF Contains
  <2>3. CASE j > i
    <3>1. j - 1 \in i .. Len(list) - 1 /\ j - 1 \in 1 .. Len(rest) /\ (j - 1) + 1 = j
      BY <2>3, <1>4
    <3> QED
      BY <3>1, <2>1, <1>4 DEF Contains
  <2> QED
    BY <2>1, <2>2, <2>3, <1>5
<1>6. ASSUME NEW u, Contains(rest, u) PROVE Contains(list, u)
  <2>1. PICK j \in 1 .. Len(rest) : rest[j] = u
    BY <1>6 DEF Contains
  <2>2. j < i => j \in 1 .. i - 1 /\ j \in 1 .. Len(list)
    BY <1>4
  <2>3. j >= i => j \in i .. Len(list) - 1 /\ j + 1 \in 1 .. Len(list)
    BY <1>4
  <2> QED
    BY <2>1, <2>2, <2>3, <1>4 DEF Contains
<1> QED
  BY <1>4, <1>5, <1>6 DEF rest

\* nrf_sortlist_remove loses no other timer.
LEMMA Removed ==
    ASSUME NEW list \in Seq(Timers), NEW t
    PROVE  /\ sortlist_remove(list, t) \in Seq(Timers)
           /\ \A u : u # t => (Contains(sortlist_remove(list, t), u) <=> Contains(list, u))
<1> DEFINE I == {i \in 1 .. Len(list) : list[i] = t}
<1>1. CASE I = {}
  <2>1. sortlist_remove(list, t) = list
    BY <1>1 DEF sortlist_remove, RemoveFirst
  <2> QED
    BY <2>1
<1>2. CASE I # {}
  <2>1. sortlist_remove(list, t) = RemoveAt(list, Min(I))
    BY <1>2 DEF sortlist_remove, RemoveFirst, SelectInSeq
  <2>2. Min(I) \in I
    <3>1. Len(list) \in Nat /\ I \in SUBSET (1 .. Len(list))
      OBVIOUS
    <3> HIDE DEF I
    <3> QED
      BY <1>2, <3>1, FirstPlace
  <2>3. Min(I) \in 1 .. Len(list) /\ list[Min(I)] = t
    BY <2>2
  <2> HIDE DEF I
  <2> QED
    BY <2>1, <2>3, RemovedAt
<1> QED
  BY <1>1, <1>2

\* The head of a list is all that its tail lacks.
LEMMA Shortened ==
    ASSUME NEW list \in Seq(Timers), list # <<>>
    PROVE  /\ Tail(list) \in Seq(Timers)
           /\ Head(list) \in Timers
           /\ \A u : Contains(list, u) <=> Contains(Tail(list), u) \/ u = Head(list)
<1>1. /\ Tail(list) \in Seq(Timers) /\ Len(Tail(list)) = Len(list) - 1
      /\ Head(list) = list[1] /\ 1 \in 1 .. Len(list) /\ Head(list) \in Timers
      /\ \A j \in 1 .. Len(list) - 1 : Tail(list)[j] = list[j + 1]
  OBVIOUS
<1>2. ASSUME NEW u, Contains(list, u), u # Head(list) PROVE Contains(Tail(list), u)
  <2>1. PICK j \in 1 .. Len(list) : list[j] = u
    BY <1>2 DEF Contains
  <2>2. j - 1 \in 1 .. Len(list) - 1 /\ (j - 1) + 1 = j
    BY <2>1, <1>1, <1>2
  <2> QED
    BY <2>1, <2>2, <1>1 DEF Contains
<1>3. ASSUME NEW u, Contains(Tail(list), u) PROVE Contains(list, u)
  <2>1. PICK j \in 1 .. Len(Tail(list)) : Tail(list)[j] = u
    BY <1>3 DEF Contains
  <2>2. j + 1 \in 1 .. Len(list) /\ j \in 1 .. Len(list) - 1
    BY <2>1, <1>1
  <2> QED
    BY <2>1, <2>2, <1>1 DEF Contains
<1>4. Contains(list, Head(list))
  BY <1>1 DEF Contains
<1> QED
  BY <1>1, <1>2, <1>3, <1>4

Distinct(list) == \A i, j \in 1 .. Len(list) : list[i] = list[j] => i = j

\* A list without duplicates stays one when a timer is added that is not in it.
LEMMA AddDistinct ==
    ASSUME NEW list \in Seq(Timers), NEW t \in Timers, NEW ends,
           Distinct(list), ~Contains(list, t)
    PROVE  Distinct(sortlist_add(list, t, ends))
<1>1. PICK at \in 1 .. Len(list) + 1 : sortlist_add(list, t, ends) = InsertAt(list, at, t)
  BY SortedPlace
<1> DEFINE all == InsertAt(list, at, t)
<1>2. /\ Len(all) = Len(list) + 1 /\ all[at] = t
      /\ \A j \in 1 .. at - 1 : all[j] = list[j]
      /\ \A j \in at + 1 .. Len(list) + 1 : all[j] = list[j - 1]
  BY Inserted
<1>3. Len(list) \in Nat /\ \A j \in 1 .. Len(list) : list[j] # t
  BY DEF Contains
<1> HIDE DEF all
<1> DEFINE from(j) == IF j < at THEN j ELSE j - 1
<1>4. ASSUME NEW j \in 1 .. Len(all), j # at
      PROVE  from(j) \in 1 .. Len(list) /\ all[j] = list[from(j)]
  <2>1. CASE j < at
    BY <1>2, <1>3, <2>1
  <2>2. CASE j > at
    BY <1>2, <1>3, <2>2
  <2> QED
    BY <1>4, <2>1, <2>2
<1>5. ASSUME NEW i \in 1 .. Len(all), NEW j \in 1 .. Len(all), all[i] = all[j]
      PROVE  i = j
  <2>1. CASE i = at \/ j = at
    BY <1>2, <1>3, <1>4, <1>5, <2>1
  <2>2. CASE i # at /\ j # at
    <3>1. from(i) = from(j)
      <4> HIDE DEF from
      <4> QED
        BY <1>4, <1>5, <2>2 DEF Distinct
    <3> QED
      BY <2>2, <3>1
  <2> QED
    BY <2>1, <2>2
<1> QED
  BY <1>1, <1>5 DEF Distinct, all

\* What is removed from such a list is not in it any more.
LEMMA RemovedAtDistinct ==
    ASSUME NEW list \in Seq(Timers), NEW at \in 1 .. Len(list), Distinct(list)
    PROVE  Distinct(RemoveAt(list, at)) /\ ~Contains(RemoveAt(list, at), list[at])
<1> DEFINE rest == RemoveAt(list, at)
           from(j) == IF j < at THEN j ELSE j + 1
<1>1. /\ Len(rest) = Len(list) - 1 /\ Len(list) \in Nat
      /\ \A j \in 1 .. at - 1 : rest[j] = list[j]
      /\ \A j \in at .. Len(list) - 1 : rest[j] = list[j + 1]
  BY RemovedAt
<1> HIDE DEF rest
<1>2. ASSUME NEW j \in 1 .. Len(rest)
      PROVE  from(j) \in 1 .. Len(list) /\ from(j) # at /\ rest[j] = list[from(j)]
  <2>1. CASE j < at
    BY <1>1, <2>1
  <2>2. CASE j >= at
    BY <1>1, <2>2
  <2> QED
    BY <2>1, <2>2
<1>3. ASSUME NEW i \in 1 .. Len(rest), NEW j \in 1 .. Len(rest), rest[i] = rest[j]
      PROVE  i = j
  <2>1. from(i) = from(j)
    <3> HIDE DEF from
    <3> QED
      BY <1>2, <1>3 DEF Distinct
  <2> QED
    BY <2>1
<1>4. ASSUME NEW j \in 1 .. Len(rest) PROVE rest[j] # list[at]
  <2> HIDE DEF from
  <2> QED
    BY <1>2 DEF Distinct
<1> QED
  BY <1>3, <1>4 DEF Distinct, Contains, rest

LEMMA RemoveDistinct ==
    ASSUME NEW list \in Seq(Timers), NEW t, Distinct(list)
    PROVE  Distinct(sortlist_remove(list, t)) /\ ~Contains(sortlist_remove(list, t), t)
<1> DEFINE I == {i \in 1 .. Len(list) : list[i] = t}
<1>1. CASE I = {}
  <2>1. sortlist_remove(list, t) = list
    BY <1>1 DEF sortlist_remove, RemoveFirst
  <2> QED
    BY <1>1, <2>1 DEF Contains
<1>2. CASE I # {}
  <2>1. sortlist_remove(list, t) = RemoveAt(list, Min(I))
    BY <1>2 DEF sortlist_remove, RemoveFirst, SelectInSeq
  <2>2. Min(I) \in I
    <3>1. Len(list) \in Nat /\ I \in SUBSET (1 .. Len(list))
      OBVIOUS
    <3> HIDE DEF I
    <3> QED
      BY <1>2, <3>1, FirstPlace
  <2>3. Min(I) \in 1 .. Len(list) /\ list[Min(I)] = t
    BY <2>2
  <2> HIDE DEF I
  <2> QED
    BY <2>1, <2>3, RemovedAtDistinct
<1> QED
  BY <1>1, <1>2

LEMMA TailDistinct ==
    ASSUME NEW list \in Seq(Timers), list # <<>>, Distinct(list)
    PROVE  Distinct(Tail(list)) /\ ~Contains(Tail(list), Head(list))
<1>1. /\ Len(Tail(list)) = Len(list) - 1 /\ Len(list) \in Nat
      /\ Head(list) = list[1] /\ 1 \in 1 .. Len(list)
      /\ \A j \in 1 .. Len(list) - 1 : Tail(list)[j] = list[j + 1] /\ j + 1 \in 1 .. Len(list)
  OBVIOUS
<1>2. ASSUME NEW j \in 1 .. Len(list) - 1 PROVE list[j + 1] # list[1]
  BY <1>1 DEF Distinct
<1>3. ASSUME NEW i \in 1 .. Len(list) - 1, NEW j \in 1 .. Len(list) - 1, list[i + 1] = list[j + 1]
      PROVE  i = j
  <2>1. i + 1 = j + 1
    BY <1>1, <1>3 DEF Distinct
  <2> QED
    BY <2>1
<1> QED
  BY <1>1, <1>2, <1>3 DEF Distinct, Contains

\* In such a list a timer is listed once at most.
LEMMA ListedOnceAtMost ==
    ASSUME m_app_timer_sortlist \in Seq(Timers), Distinct(m_app_timer_sortlist), NEW t
    PROVE  Listed(t) \in {0, 1} /\ (~InList(t) => Listed(t) = 0)
<1> DEFINE I == {i \in DOMAIN m_app_timer_sortlist : m_app_timer_sortlist[i] = t}
<1>1. DOMAIN m_app_timer_sortlist = 1 .. Len(m_app_timer_sortlist)
  OBVIOUS
<1>2. ASSUME ~InList(t) PROVE I = {}
  BY <1>1, <1>2 DEF InList, Contains
<1>3. ASSUME InList(t) PROVE \E i : I = {i}
  <2>1. PICK i \in 1 .. Len(m_app_timer_sortlist) : m_app_timer_sortlist[i] = t
    BY <1>3 DEF InList, Contains
  <2>2. I = {i}
    BY <1>1, <2>1 DEF Distinct
  <2> QED
    BY <2>2
<1>4. Listed(t) = Cardinality(I)
  BY DEF Listed
<1> HIDE DEF I
<1> QED
  BY <1>2, <1>3, <1>4, FS_EmptySet, FS_Singleton

\* A timer in the list is listed at least once.
LEMMA ListedIsCounted ==
    ASSUME m_app_timer_sortlist \in Seq(Timers), NEW t, InList(t)
    PROVE  Listed(t) > 0
<1> DEFINE I == {i \in DOMAIN m_app_timer_sortlist : m_app_timer_sortlist[i] = t}
<1>1. /\ DOMAIN m_app_timer_sortlist = 1 .. Len(m_app_timer_sortlist)
      /\ Len(m_app_timer_sortlist) \in Nat
  OBVIOUS
<1>2. I # {}
  BY <1>1 DEF InList, Contains
<1>3. IsFiniteSet(I)
  <2>1. IsFiniteSet(1 .. Len(m_app_timer_sortlist))
    BY <1>1, FS_Interval
  <2>2. I \in SUBSET (1 .. Len(m_app_timer_sortlist))
    BY <1>1
  <2> QED
    BY <2>1, <2>2, FS_Subset
<1> HIDE DEF I
<1>4. Cardinality(I) \in Nat /\ Cardinality(I) # 0
  BY <1>2, <1>3, FS_EmptySet, FS_CardinalityType
<1>5. Listed(t) = Cardinality(I)
  BY DEF I, Listed
<1> QED
  BY <1>4, <1>5

-----------------------------------------------------------------------------
(***************************************************************************)
(* The requests.                                                           *)
(***************************************************************************)

LEMMA SameRequests ==
    ASSUME UNCHANGED m_req_fifo
    PROVE  \A t : (Asked(t)' <=> Asked(t)) /\ (Unrequested(t)' <=> Unrequested(t))
BY DEF Asked, Unrequested

\* A request is handled after those before it.
LEMMA Requesting ==
    ASSUME m_req_fifo \in Seq(UserRequests), NEW t \in Timers, NEW type \in {"START", "STOP"},
           ~MayOverflow, timer_req_schedule([type |-> type, timer |-> t])
    PROVE  /\ m_req_fifo' \in Seq(UserRequests)
           /\ type = "START" => Asked(t)'
           /\ \A u : u # t => /\ Asked(u) => Asked(u)'
                              /\ Unrequested(u) => Unrequested(u)'
<1> DEFINE req == [type |-> type, timer |-> t]
           n   == Len(m_req_fifo)
<1>1. req \in UserRequests /\ req.timer = t
  BY DEF UserRequests
<1>2. m_req_fifo' = Append(m_req_fifo, req)
  BY DEF timer_req_schedule
<1>3. /\ m_req_fifo' \in Seq(UserRequests) /\ n \in Nat /\ Len(m_req_fifo') = n + 1
      /\ m_req_fifo'[n + 1] = req
      /\ \A i \in 1 .. n : m_req_fifo'[i] = m_req_fifo[i]
  <2> HIDE DEF req
  <2> QED
    BY <1>1, <1>2
<1> HIDE DEF n
<1>4. ASSUME type = "START" PROVE Asked(t)'
  <2>1. n + 1 \in 1 .. Len(m_req_fifo') /\ (n + 1) + 1 .. Len(m_req_fifo') = {}
    BY <1>3
  <2> QED
    BY <1>3, <1>4, <2>1 DEF Asked
<1>5. ASSUME NEW u, u # t, Asked(u) PROVE Asked(u)'
  <2>1. PICK i \in 1 .. n : /\ m_req_fifo[i] = [type |-> "START", timer |-> u]
                            /\ \A j \in i + 1 .. n : m_req_fifo[j].timer # u
    BY <1>5 DEF Asked, n
  <2>2. i \in 1 .. Len(m_req_fifo') /\ m_req_fifo'[i] = [type |-> "START", timer |-> u]
    BY <1>3, <2>1
  <2>3. ASSUME NEW j \in i + 1 .. Len(m_req_fifo') PROVE m_req_fifo'[j].timer # u
    <3>1. j = n + 1 \/ (j \in i + 1 .. n /\ j \in 1 .. n)
      BY <1>3
    <3> QED
      BY <1>1, <1>3, <1>5, <2>1, <3>1
  <2> QED
    BY <2>2, <2>3 DEF Asked
<1>6. ASSUME NEW u, u # t, Unrequested(u) PROVE Unrequested(u)'
  <2> SUFFICES ASSUME NEW i \in 1 .. Len(m_req_fifo') PROVE m_req_fifo'[i].timer # u
    BY DEF Unrequested
  <2>1. i = n + 1 \/ i \in 1 .. n
    BY <1>3
  <2> QED
    BY <1>1, <1>3, <1>6, <2>1 DEF Unrequested, n
<1> QED
  BY <1>3, <1>4, <1>5, <1>6

\* Handling the first request leaves the last ones.
LEMMA Handling ==
    ASSUME m_req_fifo \in Seq(UserRequests), m_req_fifo # <<>>, m_req_fifo' = Tail(m_req_fifo)
    PROVE  LET h == Head(m_req_fifo) IN
           /\ m_req_fifo' \in Seq(UserRequests)
           /\ h \in UserRequests
           /\ \A u : Unrequested(u) => Unrequested(u)' /\ h.timer # u
           /\ \A u : Asked(u) =>
                Asked(u)' \/ (h = [type |-> "START", timer |-> u] /\ Unrequested(u)')
<1> DEFINE h == Head(m_req_fifo)
           n == Len(m_req_fifo)
<1>1. /\ m_req_fifo' \in Seq(UserRequests) /\ n \in Nat /\ Len(m_req_fifo') = n - 1
      /\ h = m_req_fifo[1] /\ 1 \in 1 .. n /\ h \in UserRequests
      /\ \A i \in 1 .. n - 1 : m_req_fifo'[i] = m_req_fifo[i + 1]
  OBVIOUS
<1> HIDE DEF h, n
<1>2. ASSUME NEW u, Unrequested(u) PROVE Unrequested(u)' /\ h.timer # u
  <2>1. \A i \in 1 .. n - 1 : i + 1 \in 1 .. n
    BY <1>1
  <2> QED
    BY <1>1, <1>2, <2>1 DEF Unrequested, n
<1>3. ASSUME NEW u, Asked(u)
      PROVE  Asked(u)' \/ (h = [type |-> "START", timer |-> u] /\ Unrequested(u)')
  <2>1. PICK i \in 1 .. n : /\ m_req_fifo[i] = [type |-> "START", timer |-> u]
                            /\ \A j \in i + 1 .. n : m_req_fifo[j].timer # u
    BY <1>3 DEF Asked, n
  <2>2. \A j \in i .. n - 1 : j + 1 \in i + 1 .. n /\ j \in 1 .. n - 1
    BY <1>1
  <2>3. CASE i = 1
    <3>1. Unrequested(u)'
      BY <1>1, <2>1, <2>2, <2>3 DEF Unrequested
    <3> QED
      BY <3>1, <1>1, <2>1, <2>3
  <2>4. CASE i # 1
    <3>1. i - 1 \in 1 .. n - 1 /\ (i - 1) + 1 = i
      BY <1>1, <2>4
    <3>2. m_req_fifo'[i - 1] = [type |-> "START", timer |-> u]
      BY <1>1, <2>1, <3>1
    <3>3. \A j \in (i - 1) + 1 .. Len(m_req_fifo') : m_req_fifo'[j].timer # u
      BY <1>1, <2>1, <2>2, <3>1
    <3> QED
      BY <1>1, <3>1, <3>2, <3>3 DEF Asked
  <2> QED
    BY <2>3, <2>4
<1> QED
  BY <1>1, <1>2, <1>3 DEF h

-----------------------------------------------------------------------------
(***************************************************************************)
(* One lemma per action.                                                   *)
(***************************************************************************)

listInvVars == <<pc, ret, p_next, mp_active_timer, m_global_active, m_app_timer_sortlist,
                 m_req_fifo, end_val, repeat_period>>

LEMMA NothingMoved ==
    ASSUME ListInv, UNCHANGED listInvVars
    PROVE  ListInv'
<1>1. \A t : (Asked(t)' <=> Asked(t)) /\ (Unrequested(t)' <=> Unrequested(t))
  BY SameRequests DEF listInvVars
<1> QED
  BY <1>1 DEF ListInv, ListTypes, RunningInv, ReplacedInv, HandlerInv, listInvVars,
              Kept, InList, Leaving

\* What timer_expire does to the timer that it is given.
LEMMA Expiring ==
    ASSUME ListTypes, NEW t \in Timers, NEW list \in Seq(Timers), NEW next,
           timer_expire(t, list, next)
    PROVE  \/ /\ pc' = "handler" /\ ret' = next /\ p_next' = t
              /\ mp_active_timer' = mp_active_timer
              /\ m_app_timer_sortlist' = list
              /\ DOMAIN end_val' = Timers
              /\ \A u \in Timers : end_val'[u] # Idle =>
                   end_val[u] # Idle /\ (u = t => repeat_period[u] # 0)
           \/ /\ pc' = next /\ ret' = ret /\ p_next' = None /\ mp_active_timer' = None
              /\ m_app_timer_sortlist' \in Seq(Timers)
              /\ \A u : InList(u)' <=> Contains(list, u) \/ (u = t /\ end_val[t] # Idle)
              /\ end_val' = end_val
<1>1. CASE m_global_active /\ Now >= end_val[t]
  <2>1. /\ pc' = "handler" /\ ret' = next /\ p_next' = t
        /\ mp_active_timer' = mp_active_timer
        /\ m_app_timer_sortlist' = list
        /\ end_val' = IF repeat_period[t] = 0 THEN [end_val EXCEPT ![t] = Idle] ELSE end_val
    BY <1>1 DEF timer_expire
  <2> QED
    BY <2>1 DEF ListTypes
<1>2. CASE ~(m_global_active /\ Now >= end_val[t])
  <2>1. /\ pc' = next /\ ret' = ret /\ p_next' = None /\ mp_active_timer' = None
        /\ end_val' = end_val
        /\ m_app_timer_sortlist' = IF end_val[t] # Idle THEN sortlist_add(list, t, end_val)
                                                        ELSE list
    BY <1>2 DEF timer_expire, ListTypes
  <2> QED
    BY <2>1, SortedAdd DEF InList
<1> QED
  BY <1>1, <1>2

\* A timer may expire, or be put back, when every other one that it stands before
\* is in the list or asked for.
LEMMA ExpireKeeps ==
    ASSUME ListInv, UNCHANGED <<m_req_fifo, repeat_period, m_global_active>>,
           NEW t \in Timers, NEW list \in Seq(Timers), NEW next \in {"compare1", "update"},
           timer_expire(t, list, next),
           \A u \in Timers : end_val[u] # Idle =>
               Asked(u) \/ (Unrequested(u) /\ (Contains(list, u) \/ mp_active_timer = u \/ u = t)),
           \A u \in Timers : end_val[u] # Idle /\ mp_active_timer = u =>
               Asked(u) \/ Contains(list, u) \/ u = t
    PROVE  ListInv'
<1>1. \A u : (Asked(u)' <=> Asked(u)) /\ (Unrequested(u)' <=> Unrequested(u))
  BY SameRequests
<1>2. t # None
  BY TimersAssumption
<1>3. CASE /\ pc' = "handler" /\ ret' = next /\ p_next' = t
           /\ mp_active_timer' = mp_active_timer
           /\ m_app_timer_sortlist' = list
           /\ DOMAIN end_val' = Timers
           /\ \A u \in Timers : end_val'[u] # Idle =>
                end_val[u] # Idle /\ (u = t => repeat_period[u] # 0)
  <2>1. ListTypes'
    BY <1>2, <1>3 DEF ListInv, ListTypes, Leaving, Places
  <2>2. RunningInv' /\ ReplacedInv' /\ HandlerInv'
    BY <1>1, <1>3 DEF RunningInv, ReplacedInv, HandlerInv, Kept, InList
  <2> QED
    BY <2>1, <2>2 DEF ListInv
<1>4. CASE /\ pc' = next /\ ret' = ret /\ p_next' = None /\ mp_active_timer' = None
           /\ m_app_timer_sortlist' \in Seq(Timers)
           /\ \A u : InList(u)' <=> Contains(list, u) \/ (u = t /\ end_val[t] # Idle)
           /\ end_val' = end_val
  <2>1. ListTypes'
    BY <1>4 DEF ListInv, ListTypes, Leaving, Places
  <2>2. ~Leaving' /\ pc' # "handler"
    BY <1>4 DEF Leaving
  <2>3. RunningInv'
    BY <1>1, <1>4 DEF RunningInv, Kept
  <2> QED
    BY <2>1, <2>2, <2>3 DEF ListInv, ReplacedInv, HandlerInv
<1> QED
  BY <1>3, <1>4, Expiring DEF ListInv

LEMMA StartKeeps ==
    ASSUME ListInv, ~MayOverflow, NEW t \in Timers, NEW d \in Delays, app_timer_start(t, d)
    PROVE  ListInv'
<1>1. /\ m_req_fifo' \in Seq(UserRequests)
      /\ Asked(t)'
      /\ \A u : u # t => (Asked(u) => Asked(u)') /\ (Unrequested(u) => Unrequested(u)')
  BY Requesting DEF app_timer_start, ListInv, ListTypes
<1>2. /\ UNCHANGED <<pc, ret, p_next, mp_active_timer, m_global_active, m_app_timer_sortlist>>
      /\ DOMAIN end_val' = Timers /\ DOMAIN repeat_period' = Timers
      /\ \A u \in Timers : u # t => end_val'[u] = end_val[u] /\ repeat_period'[u] = repeat_period[u]
  BY DEF app_timer_start, irqVars, listVars, ListInv, ListTypes
<1>3. ListTypes'
  BY <1>1, <1>2 DEF ListInv, ListTypes, Leaving
<1>4. RunningInv' /\ ReplacedInv' /\ HandlerInv'
  BY <1>1, <1>2 DEF ListInv, RunningInv, ReplacedInv, HandlerInv, Kept, InList, Leaving
<1> QED
  BY <1>3, <1>4 DEF ListInv

LEMMA StopKeeps ==
    ASSUME ListInv, ~MayOverflow, NEW t \in Timers, app_timer_stop(t)
    PROVE  ListInv'
<1>1. /\ m_req_fifo' \in Seq(UserRequests)
      /\ \A u : u # t => (Asked(u) => Asked(u)') /\ (Unrequested(u) => Unrequested(u)')
  BY Requesting DEF app_timer_stop, ListInv, ListTypes
<1>2. /\ UNCHANGED <<pc, ret, p_next, mp_active_timer, m_global_active, m_app_timer_sortlist,
                     repeat_period>>
      /\ DOMAIN end_val' = Timers
      /\ \A u \in Timers : u # t => end_val'[u] = end_val[u]
      /\ end_val'[t] = Idle
  BY DEF app_timer_stop, irqVars, listVars, ListInv, ListTypes
<1>3. ListTypes'
  BY <1>1, <1>2 DEF ListInv, ListTypes, Leaving
<1>4. RunningInv' /\ ReplacedInv' /\ HandlerInv'
  BY <1>1, <1>2 DEF ListInv, RunningInv, ReplacedInv, HandlerInv, Kept, InList, Leaving
<1> QED
  BY <1>3, <1>4 DEF ListInv

LEMMA CompareKeeps ==
    ASSUME ListInv, on_compare_evt
    PROVE  ListInv'
<1>1. CASE compare0 /\ mp_active_timer # None
  <2>1. /\ UNCHANGED <<m_req_fifo, repeat_period, m_global_active>>
        /\ timer_expire(mp_active_timer, m_app_timer_sortlist, "compare1")
        /\ p_next = None
    BY <1>1 DEF on_compare_evt, ListInv, ListTypes, Leaving
  <2>2. mp_active_timer \in Timers /\ m_app_timer_sortlist \in Seq(Timers)
    BY <1>1 DEF ListInv, ListTypes
  <2>3. \A u \in Timers : u # None
    BY TimersAssumption
  <2>4. \A u \in Timers : end_val[u] # Idle =>
           Asked(u) \/ (Unrequested(u) /\ (Contains(m_app_timer_sortlist, u) \/ mp_active_timer = u))
    BY <2>1, <2>3 DEF ListInv, RunningInv, Kept, InList
  <2> QED
    BY <2>1, <2>2, <2>4, ExpireKeeps
<1>2. CASE ~(compare0 /\ mp_active_timer # None)
  <2>1. /\ pc = "compare0" /\ pc' = "compare1"
        /\ UNCHANGED <<ret, p_next, end_val, mp_active_timer, m_app_timer_sortlist,
                       m_req_fifo, repeat_period, m_global_active>>
    BY <1>2 DEF on_compare_evt
  <2>2. \A t : (Asked(t)' <=> Asked(t)) /\ (Unrequested(t)' <=> Unrequested(t))
    BY <2>1, SameRequests
  <2> QED
    BY <2>1, <2>2 DEF ListInv, ListTypes, RunningInv, ReplacedInv, HandlerInv, Kept, InList,
                      Leaving, Places
<1> QED
  BY <1>1, <1>2

\* From one part of the interrupt handler to the next, with the lists as they are.
LEMMA GoOnKeeps ==
    ASSUME ListInv,
           on_overflow_evt \/ on_compare1_evt \/ ReqDone \/ UpdateEmpty \/ UpdateKeep
    PROVE  ListInv'
<1>1. /\ UNCHANGED <<ret, p_next, end_val, mp_active_timer, m_app_timer_sortlist,
                     m_req_fifo, repeat_period, m_global_active>>
      /\ pc \in {"idle", "compare1", "req", "update"}
      /\ pc' \in {"compare0", "req", "update", "idle"}
  BY DEF on_overflow_evt, on_compare1_evt, ReqDone, ReqVars, UpdateEmpty, UpdateKeep,
         IrqReturn, userVars, listVars
<1>2. \A t : (Asked(t)' <=> Asked(t)) /\ (Unrequested(t)' <=> Unrequested(t))
  BY <1>1, SameRequests
<1> QED
  BY <1>1, <1>2 DEF ListInv, ListTypes, RunningInv, ReplacedInv, HandlerInv, Kept, InList,
                    Leaving, Places

LEMMA ReqStartKeeps ==
    ASSUME ListInv, ReqStart
    PROVE  ListInv'
<1> DEFINE t == Head(m_req_fifo).timer
<1>1. /\ UNCHANGED <<pc, ret, p_next, mp_active_timer, m_global_active, end_val, repeat_period>>
      /\ pc = "req"
      /\ m_req_fifo # <<>> /\ m_req_fifo' = Tail(m_req_fifo)
      /\ m_app_timer_sortlist' = IF end_val[t] # Idle
                                   THEN sortlist_add(m_app_timer_sortlist, t, end_val)
                                   ELSE m_app_timer_sortlist
  BY DEF ReqStart, TakeRequest, ReqVars
<1>2. /\ m_req_fifo' \in Seq(UserRequests)
      /\ t \in Timers
      /\ \A u : Unrequested(u) => Unrequested(u)'
      /\ \A u : Asked(u) => Asked(u)' \/ (t = u /\ Unrequested(u)')
  BY <1>1, Handling DEF UserRequests, ListInv, ListTypes
<1> HIDE DEF t
<1>3. /\ m_app_timer_sortlist' \in Seq(Timers)
      /\ \A u : InList(u)' <=> InList(u) \/ (u = t /\ end_val[t] # Idle)
  BY <1>1, <1>2, SortedAdd DEF InList, ListInv, ListTypes
<1>4. ListTypes'
  BY <1>1, <1>2, <1>3 DEF ListInv, ListTypes, Leaving
<1>5. RunningInv' /\ ReplacedInv' /\ HandlerInv'
  BY <1>1, <1>2, <1>3 DEF ListInv, RunningInv, ReplacedInv, HandlerInv, Kept, Leaving
<1> QED
  BY <1>4, <1>5 DEF ListInv

LEMMA ReqStopKeeps ==
    ASSUME ListInv, ReqStop
    PROVE  ListInv'
<1> DEFINE t == Head(m_req_fifo).timer
<1>1. /\ UNCHANGED <<pc, ret, p_next, m_global_active, end_val, repeat_period>>
      /\ pc = "req"
      /\ m_req_fifo # <<>> /\ m_req_fifo' = Tail(m_req_fifo)
      /\ Head(m_req_fifo).type = "STOP"
      /\ IF t = mp_active_timer
           THEN mp_active_timer' = None /\ UNCHANGED m_app_timer_sortlist
           ELSE /\ m_app_timer_sortlist' = sortlist_remove(m_app_timer_sortlist, t)
                /\ UNCHANGED mp_active_timer
  BY DEF ReqStop, TakeRequest, ReqVars
<1>2. /\ m_req_fifo' \in Seq(UserRequests)
      /\ t \in Timers
      /\ \A u : Unrequested(u) => Unrequested(u)' /\ t # u
      /\ \A u : Asked(u) => Asked(u)'
  BY <1>1, Handling DEF UserRequests, ListInv, ListTypes
<1> HIDE DEF t
<1>3. /\ m_app_timer_sortlist' \in Seq(Timers)
      /\ \A u : u # t => (InList(u)' <=> InList(u))
      /\ \A u : u # t => (mp_active_timer = u => mp_active_timer' = u)
      /\ mp_active_timer' \in {None, mp_active_timer}
  BY <1>1, <1>2, Removed DEF InList, ListInv, ListTypes
<1>4. ListTypes'
  BY <1>1, <1>2, <1>3 DEF ListInv, ListTypes, Leaving
<1>5. RunningInv' /\ ReplacedInv' /\ HandlerInv'
  BY <1>1, <1>2, <1>3 DEF ListInv, RunningInv, ReplacedInv, HandlerInv, Kept, Leaving
<1> QED
  BY <1>4, <1>5 DEF ListInv

LEMMA DropKeeps ==
    ASSUME ListInv, UpdateDrop
    PROVE  ListInv'
<1>1. /\ UNCHANGED <<pc, ret, p_next, mp_active_timer, m_global_active, end_val,
                     repeat_period, m_req_fifo>>
      /\ pc = "update"
      /\ m_app_timer_sortlist # <<>> /\ m_app_timer_sortlist' = Tail(m_app_timer_sortlist)
      /\ end_val[Head(m_app_timer_sortlist)] = Idle
  BY DEF UpdateDrop, irqVars, userVars, Candidate
<1>2. /\ m_app_timer_sortlist' \in Seq(Timers)
      /\ \A u \in Timers : end_val[u] # Idle /\ InList(u) => InList(u)'
  BY <1>1, Shortened DEF InList, ListInv, ListTypes
<1>3. \A t : (Asked(t)' <=> Asked(t)) /\ (Unrequested(t)' <=> Unrequested(t))
  BY <1>1, SameRequests
<1>4. ListTypes'
  BY <1>1, <1>2 DEF ListInv, ListTypes, Leaving
<1>5. RunningInv' /\ ReplacedInv' /\ HandlerInv'
  BY <1>1, <1>2, <1>3 DEF ListInv, RunningInv, ReplacedInv, HandlerInv, Kept, Leaving
<1> QED
  BY <1>4, <1>5 DEF ListInv

LEMMA ActivateKeeps ==
    ASSUME ListInv, UpdateActivate
    PROVE  ListInv'
<1> DEFINE t == Head(ListWithActive)
           list == Tail(ListWithActive)
<1>1. /\ UNCHANGED <<m_global_active, repeat_period, m_req_fifo>>
      /\ pc = "update" /\ p_next = None
      /\ m_app_timer_sortlist # <<>>
      /\ \/ /\ pc' = "window" /\ p_next' = t /\ m_app_timer_sortlist' = list
            /\ UNCHANGED <<ret, end_val, mp_active_timer>>
         \/ timer_expire(t, list, "update")
  BY DEF UpdateActivate, ListInv, ListTypes, Leaving
<1>2. /\ ListWithActive \in Seq(Timers) /\ ListWithActive # <<>>
      /\ \A u : InList(u) => Contains(ListWithActive, u)
      /\ \A u \in Timers : mp_active_timer = u /\ end_val[u] # Idle => Contains(ListWithActive, u)
  <2>1. CASE mp_active_timer # None /\ end_val[mp_active_timer] # Idle
    <3>1. /\ ListWithActive = sortlist_add(m_app_timer_sortlist, mp_active_timer, end_val)
          /\ mp_active_timer \in Timers /\ m_app_timer_sortlist \in Seq(Timers)
      BY <2>1 DEF ListWithActive, ListInv, ListTypes
    <3>2. /\ ListWithActive \in Seq(Timers)
          /\ \A u : Contains(ListWithActive, u) <=> InList(u) \/ u = mp_active_timer
      BY <3>1, SortedAdd DEF InList
    <3>3. ListWithActive # <<>>
      BY <3>1, <3>2 DEF Contains
    <3> QED
      BY <3>2, <3>3
  <2>2. CASE ~(mp_active_timer # None /\ end_val[mp_active_timer] # Idle)
    <3>1. ListWithActive = m_app_timer_sortlist
      BY <2>2 DEF ListWithActive
    <3> QED
      BY <1>1, <2>2, <3>1, TimersAssumption DEF InList, ListInv, ListTypes
  <2> QED
    BY <2>1, <2>2
<1>3. /\ list \in Seq(Timers) /\ t \in Timers
      /\ \A u : Contains(ListWithActive, u) <=> Contains(list, u) \/ u = t
  BY <1>2, Shortened
<1> HIDE DEF t, list
<1>4. /\ \A u : InList(u) => Contains(list, u) \/ u = t
      /\ \A u \in Timers : mp_active_timer = u /\ end_val[u] # Idle => Contains(list, u) \/ u = t
      /\ t # None
      /\ \A u \in Timers : u # p_next
  BY <1>1, <1>2, <1>3, TimersAssumption
<1>5. CASE timer_expire(t, list, "update")
  <2>1. \A u \in Timers : end_val[u] # Idle =>
           Asked(u) \/ (Unrequested(u) /\ (Contains(list, u) \/ mp_active_timer = u \/ u = t))
    BY <1>4 DEF ListInv, RunningInv, Kept
  <2> QED
    BY <1>1, <1>3, <1>4, <1>5, <2>1, ExpireKeeps
<1>6. CASE /\ pc' = "window" /\ p_next' = t /\ m_app_timer_sortlist' = list
           /\ UNCHANGED <<ret, end_val, mp_active_timer>>
  <2>1. \A u : (Asked(u)' <=> Asked(u)) /\ (Unrequested(u)' <=> Unrequested(u))
    BY <1>1, SameRequests
  <2>2. ListTypes'
    BY <1>1, <1>3, <1>4, <1>6 DEF ListInv, ListTypes, Leaving, Places
  <2>3. \A u : InList(u)' <=> Contains(list, u)
    BY <1>6 DEF InList
  <2>4. RunningInv' /\ ReplacedInv' /\ HandlerInv'
    BY <1>4, <1>6, <2>1, <2>3 DEF ListInv, RunningInv, ReplacedInv, HandlerInv, Kept
  <2> QED
    BY <2>2, <2>4 DEF ListInv
<1> QED
  BY <1>1, <1>5, <1>6

LEMMA ScheduledKeeps ==
    ASSUME ListInv, pc \in {"write", "check"}, Scheduled,
           UNCHANGED <<m_global_active, m_req_fifo, repeat_period>>
    PROVE  ListInv'
<1>1. /\ mp_active_timer' = p_next /\ p_next' = None /\ pc' = "idle"
      /\ UNCHANGED <<ret, end_val, m_app_timer_sortlist>>
  BY DEF Scheduled, IrqReturn
<1>2. \A u : (Asked(u)' <=> Asked(u)) /\ (Unrequested(u)' <=> Unrequested(u))
  BY SameRequests
<1>3. ListTypes' /\ ~Leaving' /\ Leaving
  BY <1>1 DEF ListInv, ListTypes, Leaving, Places
<1>4. RunningInv'
  BY <1>1, <1>2, <1>3 DEF ListInv, RunningInv, ReplacedInv, Kept, InList
<1> QED
  BY <1>1, <1>3, <1>4 DEF ListInv, ReplacedInv, HandlerInv

LEMMA NotScheduledKeeps ==
    ASSUME ListInv, pc \in {"write", "check"}, NotScheduled,
           UNCHANGED <<m_global_active, m_req_fifo, repeat_period>>
    PROVE  ListInv'
<1>1. timer_expire(p_next, m_app_timer_sortlist, "update")
  BY DEF NotScheduled
<1>2. Leaving /\ p_next \in Timers /\ m_app_timer_sortlist \in Seq(Timers)
  BY DEF ListInv, ListTypes, Leaving
<1>3. /\ \A u \in Timers : end_val[u] # Idle =>
            Asked(u) \/ (Unrequested(u) /\ (Contains(m_app_timer_sortlist, u)
                                            \/ mp_active_timer = u \/ u = p_next))
      /\ \A u \in Timers : end_val[u] # Idle /\ mp_active_timer = u =>
            Asked(u) \/ Contains(m_app_timer_sortlist, u) \/ u = p_next
  BY <1>2 DEF ListInv, RunningInv, ReplacedInv, Kept, InList
<1> QED
  BY <1>1, <1>2, <1>3, ExpireKeeps

\* The driver tries the next compare value.
TriesAgain ==
    /\ pc' = "check"
    /\ UNCHANGED <<ret, p_next, mp_active_timer, end_val, m_app_timer_sortlist>>

LEMMA SchedulingKeeps ==
    ASSUME ListInv, Window \/ Write \/ Check
    PROVE  ListInv'
<1>1. CASE Window \/ (Write /\ TriesAgain)
  <2>1. /\ UNCHANGED <<ret, p_next, mp_active_timer, end_val, m_app_timer_sortlist,
                       m_global_active, m_req_fifo, repeat_period>>
        /\ pc \in {"window", "write"} /\ pc' \in {"write", "check"}
    BY <1>1 DEF Window, Write, TriesAgain, WindowVars, userVars, listVars
  <2>2. \A u : (Asked(u)' <=> Asked(u)) /\ (Unrequested(u)' <=> Unrequested(u))
    BY <2>1, SameRequests
  <2> QED
    BY <2>1, <2>2 DEF ListInv, ListTypes, RunningInv, ReplacedInv, HandlerInv, Kept, InList,
                      Leaving, Places
<1>2. CASE Write \/ Check
  <2>1. /\ UNCHANGED <<m_global_active, m_req_fifo, repeat_period>>
        /\ pc \in {"write", "check"}
        /\ \/ NotScheduled
           \/ Scheduled
           \/ Write /\ TriesAgain
    BY <1>2 DEF Write, Check, TriesAgain, WindowVars
  <2> QED
    BY <1>1, <2>1, ScheduledKeeps, NotScheduledKeeps
<1> QED
  BY <1>1, <1>2

LEMMA HandlerReturnKeeps ==
    ASSUME ListInv, HandlerReturn
    PROVE  ListInv'
<1> DEFINE ends == [end_val EXCEPT ![p_next] = @ + repeat_period[p_next]]
<1>1. /\ UNCHANGED <<m_global_active, m_req_fifo, repeat_period>>
      /\ pc = "handler" /\ pc' = ret /\ ret' = "update" /\ p_next' = None
      /\ mp_active_timer' = None
      /\ IF repeat_period[p_next] # 0 /\ end_val[p_next] # Idle
           THEN /\ end_val' = ends
                /\ m_app_timer_sortlist' = sortlist_add(m_app_timer_sortlist, p_next, ends)
           ELSE UNCHANGED <<end_val, m_app_timer_sortlist>>
  BY DEF HandlerReturn
<1>2. Leaving /\ p_next \in Timers /\ m_app_timer_sortlist \in Seq(Timers)
  BY <1>1 DEF ListInv, ListTypes, Leaving
<1>3. \A u : (Asked(u)' <=> Asked(u)) /\ (Unrequested(u)' <=> Unrequested(u))
  BY <1>1, SameRequests
<1>4. /\ m_app_timer_sortlist' \in Seq(Timers)
      /\ \A u : InList(u) => InList(u)'
      /\ \A u : u = p_next /\ repeat_period[u] # 0 /\ end_val[u] # Idle => InList(u)'
      /\ DOMAIN end_val' = Timers
      /\ \A u \in Timers : end_val'[u] # Idle => end_val[u] # Idle
  <2>1. CASE repeat_period[p_next] # 0 /\ end_val[p_next] # Idle
    <3>1. /\ end_val' = ends
          /\ m_app_timer_sortlist' = sortlist_add(m_app_timer_sortlist, p_next, ends)
      BY <1>1, <2>1
    <3>2. DOMAIN end_val' = Timers /\ \A u \in Timers : end_val'[u] # Idle => end_val[u] # Idle
      BY <3>1, <2>1 DEF ListInv, ListTypes
    <3> HIDE DEF ends
    <3>3. /\ m_app_timer_sortlist' \in Seq(Timers)
          /\ \A u : InList(u)' <=> InList(u) \/ u = p_next
      BY <1>2, <3>1, SortedAdd DEF InList
    <3> QED
      BY <3>2, <3>3
  <2>2. CASE ~(repeat_period[p_next] # 0 /\ end_val[p_next] # Idle)
    BY <1>1, <1>2, <2>2 DEF InList, ListInv, ListTypes
  <2> QED
    BY <2>1, <2>2
<1>5. ListTypes' /\ ~Leaving'
  BY <1>1, <1>4 DEF ListInv, ListTypes, Leaving, Places
<1>6. \A u \in Timers : p_next = u /\ end_val[u] # Idle => Asked(u) \/ InList(u)'
  BY <1>1, <1>4 DEF ListInv, HandlerInv
<1>7. RunningInv'
  BY <1>1, <1>2, <1>3, <1>4, <1>6 DEF ListInv, RunningInv, ReplacedInv, Kept
<1> QED
  BY <1>5, <1>7 DEF ListInv, ReplacedInv, HandlerInv, Leaving

-----------------------------------------------------------------------------
(***************************************************************************)
(* The theorems.                                                           *)
(***************************************************************************)

\* As long as no request is refused, and the timers are neither all stopped at
\* once nor paused, a timer that runs is in its place or its start is the last
\* request for it.
THEOREM ListInvariant ==
    ASSUME ~FullAPI, ~MayOverflow
    PROVE  Spec => []ListInv
<1>1. Init => ListInv
  <2> SUFFICES ASSUME Init PROVE ListInv
    OBVIOUS
  <2>1. /\ pc = "idle" /\ ret = "update" /\ p_next = None /\ mp_active_timer = None
        /\ m_global_active = TRUE /\ m_app_timer_sortlist = <<>> /\ m_req_fifo = <<>>
        /\ end_val = [t \in Timers |-> Idle]
        /\ repeat_period = [t \in Timers |-> IF t \in Repeated THEN 1 ELSE 0]
    BY DEF Init
  <2>2. <<>> \in Seq(Timers) /\ <<>> \in Seq(UserRequests)
    OBVIOUS
  <2> QED
    BY <2>1, <2>2 DEF ListInv, ListTypes, RunningInv, ReplacedInv, HandlerInv, Leaving, Places
<1>2. ASSUME ListInv, [Next]_vars PROVE ListInv'
  <2>1. CASE UNCHANGED listInvVars
    BY <1>2, <2>1, NothingMoved
  <2>2. CASE Tick \/ UNCHANGED vars
    BY <2>1, <2>2 DEF Tick, vars, irqVars, userVars, listVars, listInvVars
  <2>3. CASE API
    BY <1>2, <2>3, StartKeeps, StopKeeps DEF API, app_timer_stop_all, Pause, Resume
  <2>4. CASE on_compare_evt \/ HandlerReturn
    BY <1>2, <2>4, CompareKeeps, HandlerReturnKeeps
  <2>5. CASE on_overflow_evt \/ on_compare1_evt \/ ReqDone \/ UpdateEmpty \/ UpdateKeep
    BY <1>2, <2>5, GoOnKeeps
  <2>6. CASE ReqStart \/ ReqStop
    BY <1>2, <2>6, ReqStartKeeps, ReqStopKeeps
  <2>7. CASE ReqStopAll
    <3>1. Head(m_req_fifo) \in UserRequests /\ Head(m_req_fifo).type = "STOP_ALL"
      BY <1>2, <2>7, Handling DEF ReqStopAll, TakeRequest, ListInv, ListTypes
    <3> QED
      BY <3>1 DEF UserRequests
  <2>8. CASE UpdateDrop \/ UpdateActivate
    BY <1>2, <2>8, DropKeeps, ActivateKeeps
  <2>9. CASE Window \/ Write \/ Check
    BY <1>2, <2>9, SchedulingKeeps
  <2> QED
    BY <1>2, <2>2, <2>3, <2>4, <2>5, <2>6, <2>7, <2>8, <2>9 DEF Next, rtc_irq, Request, Update
<1> QED
  BY <1>1, <1>2, PTL DEF Spec

\* Under the same conditions no timer that runs is forgotten.
THEOREM RunningNeverForgotten ==
    ASSUME ~FullAPI, ~MayOverflow
    PROVE  Spec => []NeverForgotten
<1>1. ListInv => NeverForgotten
  <2> SUFFICES ASSUME ListInv, NEW t \in Timers, end_val[t] # Idle, ~Requested(t, "START")
               PROVE  Listed(t) > 0 \/ mp_active_timer = t \/ p_next = t
    BY DEF NeverForgotten
  <2>1. DOMAIN m_req_fifo = 1 .. Len(m_req_fifo)
    BY DEF ListInv, ListTypes
  <2>2. ~Asked(t)
    BY <2>1 DEF Asked, Requested
  <2>3. Kept(t)
    BY <2>2 DEF ListInv, RunningInv
  <2> QED
    BY <2>3, ListedIsCounted DEF Kept, ListInv, ListTypes
<1> QED
  BY <1>1, ListInvariant, PTL
=============================================================================
