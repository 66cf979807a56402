----------------------- MODULE AppTimerServiceProofs -----------------------
(***************************************************************************)
(* Proofs about what AppTimer promises to those who start and stop timers: *)
(* that no timer is in two places at once, and that the timers expire as   *)
(* TimerService says.                                                      *)
(***************************************************************************)
EXTENDS AppTimerProofs

-----------------------------------------------------------------------------
(***************************************************************************)
(* The queue of requests.                                                  *)
(***************************************************************************)

LastIs(q, type, t) ==
    \E i \in 1 .. Len(q) : /\ q[i] = [type |-> type, timer |-> t]
                           /\ \A j \in i + 1 .. Len(q) : q[j].timer # t

FreeOf(q, t) == \A i \in 1 .. Len(q) : q[i].timer # t

Has(q, type, t) == \E i \in 1 .. Len(q) : q[i] = [type |-> type, timer |-> t]

\* Between two starts of t there is a stop, and before the first one, too, when t
\* is in place already.
Alternates(q, t, placed) ==
    \A j \in 1 .. Len(q) : q[j] = [type |-> "START", timer |-> t] =>
        /\ placed => \E k \in 1 .. j - 1 : q[k] = [type |-> "STOP", timer |-> t]
        /\ \A i \in 1 .. j - 1 : q[i] = [type |-> "START", timer |-> t] =>
              \E k \in i + 1 .. j - 1 : q[k] = [type |-> "STOP", timer |-> t]

LEMMA Appended ==
    ASSUME NEW q \in Seq(Requests), NEW req \in Requests
    PROVE  LET r == Append(q, req) IN
           /\ r \in Seq(Requests) /\ Len(q) \in Nat /\ Len(r) = Len(q) + 1 /\ r[Len(q) + 1] = req
           /\ \A i \in 1 .. Len(q) : r[i] = q[i]
OBVIOUS

LEMMA Popped ==
    ASSUME NEW q \in Seq(Requests), q # <<>>
    PROVE  /\ Tail(q) \in Seq(Requests) /\ Len(q) \in Nat /\ Len(Tail(q)) = Len(q) - 1
           /\ Head(q) = q[1] /\ Head(q) \in Requests /\ 1 \in 1 .. Len(q)
           /\ \A i \in 1 .. Len(q) - 1 : Tail(q)[i] = q[i + 1]
OBVIOUS

\* The last request for a timer once another was made.
LEMMA LastAppended ==
    ASSUME NEW q \in Seq(Requests), NEW req \in Requests, NEW t, NEW type
    PROVE  LET r == Append(q, req) IN
           /\ req = [type |-> type, timer |-> t] => LastIs(r, type, t)
           /\ req.timer # t => (LastIs(r, type, t) <=> LastIs(q, type, t))
           /\ req.timer = t /\ LastIs(r, type, t) => req = [type |-> type, timer |-> t]
           /\ req.timer # t => (FreeOf(q, t) => FreeOf(r, t))
<1> DEFINE r == Append(q, req)
           n == Len(q)
<1>1. /\ n \in Nat /\ Len(r) = n + 1 /\ r[n + 1] = req
      /\ \A i \in 1 .. n : r[i] = q[i]
  BY Appended
<1> HIDE DEF r, n
<1>2. \A i \in 1 .. Len(r) : i \in 1 .. n \/ i = n + 1
  BY <1>1
<1>3. n + 1 \in 1 .. Len(r) /\ \A i \in 1 .. n : i \in 1 .. Len(r) /\ n + 1 \in i + 1 .. Len(r)
  BY <1>1
<1>4. ASSUME req = [type |-> type, timer |-> t] PROVE LastIs(r, type, t)
  <2>1. (n + 1) + 1 .. Len(r) = {}
    BY <1>1
  <2> QED
    BY <1>1, <1>3, <1>4, <2>1 DEF LastIs
<1>5. ASSUME req.timer # t, LastIs(q, type, t) PROVE LastIs(r, type, t)
  <2>1. PICK i \in 1 .. n : /\ q[i] = [type |-> type, timer |-> t]
                            /\ \A j \in i + 1 .. n : q[j].timer # t
    BY <1>5 DEF LastIs, n
  <2>2. \A j \in i + 1 .. Len(r) : j = n + 1 \/ (j \in i + 1 .. n /\ j \in 1 .. n)
    BY <1>1
  <2>3. \A j \in i + 1 .. Len(r) : r[j].timer # t
    BY <1>1, <1>5, <2>1, <2>2
  <2> QED
    BY <1>1, <1>3, <2>1, <2>3 DEF LastIs
<1>6. ASSUME req.timer # t, LastIs(r, type, t) PROVE LastIs(q, type, t)
  <2>1. PICK i \in 1 .. Len(r) : /\ r[i] = [type |-> type, timer |-> t]
                                 /\ \A j \in i + 1 .. Len(r) : r[j].timer # t
    BY <1>6 DEF LastIs
  <2>2. i # n + 1
    BY <1>1, <1>6, <2>1
  <2>3. i \in 1 .. n /\ \A j \in i + 1 .. n : j \in i + 1 .. Len(r) /\ j \in 1 .. n
    BY <1>1, <1>2, <2>1, <2>2
  <2>4. q[i] = [type |-> type, timer |-> t] /\ \A j \in i + 1 .. n : q[j].timer # t
    BY <1>1, <2>1, <2>3
  <2> QED
    BY <2>3, <2>4 DEF LastIs, n
<1>7. ASSUME req.timer = t, LastIs(r, type, t) PROVE req = [type |-> type, timer |-> t]
  <2>1. PICK i \in 1 .. Len(r) : /\ r[i] = [type |-> type, timer |-> t]
                                 /\ \A j \in i + 1 .. Len(r) : r[j].timer # t
    BY <1>7 DEF LastIs
  <2>2. i \notin 1 .. n
    BY <1>1, <1>3, <1>7, <2>1
  <2> QED
    BY <1>1, <1>2, <2>1, <2>2
<1>8. ASSUME req.timer # t, FreeOf(q, t) PROVE FreeOf(r, t)
  BY <1>1, <1>2, <1>8 DEF FreeOf, n
<1> QED
  BY <1>4, <1>5, <1>6, <1>7, <1>8 DEF r

\* The last request for a timer once the first of all was handled.
LEMMA LastPopped ==
    ASSUME NEW q \in Seq(Requests), q # <<>>, NEW t, NEW type
    PROVE  /\ LastIs(Tail(q), type, t) => LastIs(q, type, t)
           /\ LastIs(q, type, t) =>
                LastIs(Tail(q), type, t)
                  \/ (Head(q) = [type |-> type, timer |-> t] /\ FreeOf(Tail(q), t))
           /\ FreeOf(q, t) => FreeOf(Tail(q), t) /\ Head(q).timer # t
           /\ Has(q, type, t) => Has(Tail(q), type, t) \/ Head(q) = [type |-> type, timer |-> t]
<1> DEFINE r == Tail(q)
           n == Len(q)
<1>1. /\ n \in Nat /\ Len(r) = n - 1 /\ Head(q) = q[1] /\ 1 \in 1 .. n
      /\ \A i \in 1 .. n - 1 : r[i] = q[i + 1]
  BY Popped
<1> HIDE DEF r, n
<1>2. \A i \in 1 .. n : i = 1 \/ (i - 1 \in 1 .. n - 1 /\ r[i - 1] = q[i])
  <2> SUFFICES ASSUME NEW i \in 1 .. n, i # 1 PROVE i - 1 \in 1 .. n - 1 /\ r[i - 1] = q[i]
    OBVIOUS
  <2>1. i - 1 \in 1 .. n - 1 /\ (i - 1) + 1 = i
    BY <1>1
  <2> QED
    BY <1>1, <2>1
<1>3. \A i \in 1 .. n - 1 : i + 1 \in 1 .. n
  BY <1>1
<1>4. ASSUME LastIs(r, type, t) PROVE LastIs(q, type, t)
  <2>1. PICK i \in 1 .. n - 1 : /\ r[i] = [type |-> type, timer |-> t]
                                /\ \A j \in i + 1 .. n - 1 : r[j].timer # t
    BY <1>1, <1>4 DEF LastIs
  <2>2. \A j \in (i + 1) + 1 .. n : j - 1 \in i + 1 .. n - 1 /\ j \in 1 .. n /\ j # 1
    BY <1>1
  <2>3. \A j \in (i + 1) + 1 .. n : q[j].timer # t
    BY <1>2, <2>1, <2>2
  <2> QED
    BY <1>1, <1>3, <2>1, <2>3 DEF LastIs, n
<1>5. ASSUME LastIs(q, type, t)
      PROVE  LastIs(r, type, t) \/ (Head(q) = [type |-> type, timer |-> t] /\ FreeOf(r, t))
  <2>1. PICK i \in 1 .. n : /\ q[i] = [type |-> type, timer |-> t]
                            /\ \A j \in i + 1 .. n : q[j].timer # t
    BY <1>5 DEF LastIs, n
  <2>2. \A j \in i .. n - 1 : j + 1 \in i + 1 .. n /\ j \in 1 .. n - 1
    BY <1>1
  <2>3. \A j \in i .. n - 1 : r[j].timer # t
    BY <1>1, <2>1, <2>2
  <2>4. CASE i = 1
    BY <1>1, <2>1, <2>3, <2>4 DEF FreeOf
  <2>5. CASE i # 1
    <3>1. i - 1 \in 1 .. Len(r) /\ r[i - 1] = [type |-> type, timer |-> t]
      BY <1>1, <1>2, <2>1, <2>5
    <3>2. (i - 1) + 1 = i
      OBVIOUS
    <3> QED
      BY <1>1, <2>3, <3>1, <3>2 DEF LastIs
  <2> QED
    BY <2>4, <2>5
<1>6. ASSUME FreeOf(q, t) PROVE FreeOf(r, t) /\ Head(q).timer # t
  BY <1>1, <1>3, <1>6 DEF FreeOf, n
<1>7. ASSUME Has(q, type, t)
      PROVE  Has(r, type, t) \/ Head(q) = [type |-> type, timer |-> t]
  <2>1. PICK i \in 1 .. n : q[i] = [type |-> type, timer |-> t]
    BY <1>7 DEF Has, n
  <2> QED
    BY <1>1, <1>2, <2>1 DEF Has
<1> QED
  BY <1>4, <1>5, <1>6, <1>7 DEF r

\* A start is requested of a timer whose last request was a stop, or that is in no
\* place and has none.
LEMMA AlternatesAppended ==
    ASSUME NEW q \in Seq(Requests), NEW req \in Requests, NEW t, NEW placed,
           Alternates(q, t, placed),
           req = [type |-> "START", timer |-> t] =>
               LastIs(q, "STOP", t) \/ (FreeOf(q, t) /\ ~placed)
    PROVE  Alternates(Append(q, req), t, placed)
<1> DEFINE r == Append(q, req)
           n == Len(q)
<1>1. /\ n \in Nat /\ Len(r) = n + 1 /\ r[n + 1] = req
      /\ \A i \in 1 .. n : r[i] = q[i]
  BY Appended
<1> HIDE DEF r, n
<1>2. ASSUME NEW j \in 1 .. n, r[j] = [type |-> "START", timer |-> t]
      PROVE  /\ placed => \E k \in 1 .. j - 1 : r[k] = [type |-> "STOP", timer |-> t]
             /\ \A i \in 1 .. j - 1 : r[i] = [type |-> "START", timer |-> t] =>
                   \E k \in i + 1 .. j - 1 : r[k] = [type |-> "STOP", timer |-> t]
  <2>1. /\ \A k \in 1 .. j - 1 : r[k] = q[k]
        /\ \A i \in 1 .. j - 1 : \A k \in i + 1 .. j - 1 : r[k] = q[k]
        /\ r[j] = q[j]
    BY <1>1
  <2> QED
    BY <1>2, <2>1 DEF Alternates, n
<1>3. ASSUME req = [type |-> "START", timer |-> t]
      PROVE  /\ placed => \E k \in 1 .. n : r[k] = [type |-> "STOP", timer |-> t]
             /\ \A i \in 1 .. n : r[i] = [type |-> "START", timer |-> t] =>
                   \E k \in i + 1 .. n : r[k] = [type |-> "STOP", timer |-> t]
  <2>1. CASE LastIs(q, "STOP", t)
    <3>1. PICK k \in 1 .. n : /\ q[k] = [type |-> "STOP", timer |-> t]
                              /\ \A j \in k + 1 .. n : q[j].timer # t
      BY <2>1 DEF LastIs, n
    <3>2. r[k] = [type |-> "STOP", timer |-> t]
      BY <1>1, <3>1
    <3>3. ASSUME NEW i \in 1 .. n, r[i] = [type |-> "START", timer |-> t]
          PROVE  k \in i + 1 .. n
      <4>1. q[i] = [type |-> "START", timer |-> t] /\ i # k /\ i \notin k + 1 .. n
        BY <1>1, <3>1, <3>3
      <4> QED
        BY <1>1, <3>1, <4>1
    <3> QED
      BY <3>2, <3>3
  <2>2. CASE FreeOf(q, t) /\ ~placed
    BY <1>1, <2>2 DEF FreeOf, n
  <2> QED
    BY <1>3, <2>1, <2>2
<1>4. \A j \in 1 .. Len(r) : j \in 1 .. n \/ (j = n + 1 /\ j - 1 = n)
  BY <1>1
<1> QED
  BY <1>1, <1>2, <1>3, <1>4 DEF Alternates, r

\* The start that is handled is that of a timer in no place.
LEMMA AlternatesPopped ==
    ASSUME NEW q \in Seq(Requests), q # <<>>, NEW t, NEW placed, Alternates(q, t, placed)
    PROVE  /\ Head(q) = [type |-> "START", timer |-> t] => ~placed /\ Alternates(Tail(q), t, TRUE)
           /\ Head(q) = [type |-> "STOP", timer |-> t] => Alternates(Tail(q), t, FALSE)
           /\ Head(q).timer # t => Alternates(Tail(q), t, placed)
<1> DEFINE r == Tail(q)
           n == Len(q)
<1>1. /\ n \in Nat /\ Len(r) = n - 1 /\ Head(q) = q[1] /\ 1 \in 1 .. n
      /\ \A i \in 1 .. n - 1 : r[i] = q[i + 1]
  BY Popped
<1> HIDE DEF r, n
<1>2. ASSUME NEW j \in 1 .. n - 1, r[j] = [type |-> "START", timer |-> t]
      PROVE  /\ \A i \in 1 .. j - 1 : r[i] = [type |-> "START", timer |-> t] =>
                   \E k \in i + 1 .. j - 1 : r[k] = [type |-> "STOP", timer |-> t]
             /\ q[1] = [type |-> "START", timer |-> t] =>
                   \E k \in 1 .. j - 1 : r[k] = [type |-> "STOP", timer |-> t]
             /\ placed => q[1] = [type |-> "STOP", timer |-> t]
                           \/ \E k \in 1 .. j - 1 : r[k] = [type |-> "STOP", timer |-> t]
  <2>1. /\ j + 1 \in 1 .. n /\ q[j + 1] = [type |-> "START", timer |-> t]
        /\ (j + 1) - 1 = j /\ 1 \in 1 .. j
    BY <1>1, <1>2
  <2>2. /\ placed => \E k \in 1 .. j : q[k] = [type |-> "STOP", timer |-> t]
        /\ \A i \in 1 .. j : q[i] = [type |-> "START", timer |-> t] =>
              \E k \in i + 1 .. j : q[k] = [type |-> "STOP", timer |-> t]
    BY <2>1 DEF Alternates, n
  <2>3. ASSUME NEW i \in 0 .. j - 1, NEW k \in (i + 1) + 1 .. j, q[k] = [type |-> "STOP", timer |-> t]
        PROVE  k - 1 \in i + 1 .. j - 1 /\ r[k - 1] = [type |-> "STOP", timer |-> t]
    <3>1. k - 1 \in 1 .. n - 1 /\ (k - 1) + 1 = k /\ k - 1 \in i + 1 .. j - 1
      BY <1>1
    <3> QED
      BY <1>1, <2>3, <3>1
  <2>4. ASSUME NEW i \in 1 .. j - 1, r[i] = [type |-> "START", timer |-> t]
        PROVE  \E k \in i + 1 .. j - 1 : r[k] = [type |-> "STOP", timer |-> t]
    <3>1. i + 1 \in 1 .. j /\ i \in 0 .. j - 1 /\ q[i + 1] = [type |-> "START", timer |-> t]
      BY <1>1, <2>4
    <3>2. PICK k \in (i + 1) + 1 .. j : q[k] = [type |-> "STOP", timer |-> t]
      BY <2>2, <3>1
    <3> QED
      BY <2>3, <3>1, <3>2
  <2>5. ASSUME NEW k \in 1 .. j, q[k] = [type |-> "STOP", timer |-> t], k # 1
        PROVE  \E l \in 1 .. j - 1 : r[l] = [type |-> "STOP", timer |-> t]
    <3>1. k \in (0 + 1) + 1 .. j /\ 0 \in 0 .. j - 1 /\ 0 + 1 = 1
      BY <2>5
    <3> QED
      BY <2>3, <2>5, <3>1
  <2>6. ASSUME q[1] = [type |-> "START", timer |-> t]
        PROVE  \E k \in 1 .. j - 1 : r[k] = [type |-> "STOP", timer |-> t]
    <3>1. PICK k \in 1 + 1 .. j : q[k] = [type |-> "STOP", timer |-> t]
      BY <2>1, <2>2, <2>6
    <3>2. k \in 1 .. j /\ k # 1
      OBVIOUS
    <3> QED
      BY <2>5, <3>1, <3>2
  <2> QED
    BY <2>2, <2>4, <2>5, <2>6
<1>3. ASSUME q[1] = [type |-> "START", timer |-> t] PROVE ~placed
  <2>1. placed => \E k \in 1 .. 1 - 1 : q[k] = [type |-> "STOP", timer |-> t]
    BY <1>1, <1>3 DEF Alternates, n
  <2>2. 1 .. 1 - 1 = {}
    OBVIOUS
  <2> QED
    BY <2>1, <2>2
<1>4. ASSUME q[1] = [type |-> "START", timer |-> t] PROVE Alternates(r, t, TRUE)
  BY <1>1, <1>2, <1>4 DEF Alternates
<1>5. Alternates(r, t, FALSE)
  BY <1>1, <1>2 DEF Alternates
<1>6. ASSUME q[1].timer # t PROVE Alternates(r, t, placed)
  <2>1. q[1] # [type |-> "STOP", timer |-> t]
    BY <1>6
  <2> QED
    BY <1>1, <1>2, <2>1 DEF Alternates
<1> QED
  BY <1>1, <1>3, <1>4, <1>5, <1>6 DEF r

LEMMA AlternatesLess ==
    ASSUME NEW q, NEW t, NEW placed, NEW less, less => placed, Alternates(q, t, placed)
    PROVE  Alternates(q, t, less)
BY DEF Alternates

-----------------------------------------------------------------------------
(***************************************************************************)
(* The end values.                                                         *)
(***************************************************************************)

\* No end value is as large as the one that stands for an idle timer, also once the
\* period is added after the handler.
EndsInv ==
    /\ ticks <= MaxTicks
    /\ \A t \in Timers : repeat_period[t] = 0 <=> t \notin Repeated
    /\ \A t \in Timers : end_val[t] # Idle =>
         \E d \in Delays :
            /\ repeat_period[t] \in {0, d}
            /\ end_val[t] <= MaxTicks + 2 * d
            /\ pc = "handler" /\ p_next = t => end_val[t] <= MaxTicks + d

LEMMA EndBelowIdle ==
    ASSUME TypeInv, EndsInv, NEW t \in Timers, end_val[t] # Idle
    PROVE  /\ end_val[t] < Idle
           /\ pc = "handler" /\ p_next = t => end_val[t] + repeat_period[t] < Idle
<1>1. PICK d \in Delays : /\ repeat_period[t] \in {0, d}
                          /\ end_val[t] <= MaxTicks + 2 * d
                          /\ pc = "handler" /\ p_next = t => end_val[t] <= MaxTicks + d
  BY DEF EndsInv
<1>2. d \in Nat /\ end_val[t] \in Nat /\ MaxTicks + 2 * d < Idle /\ MaxTicks \in Nat /\ Idle \in Nat
  BY DelaysAssumption, BoundsAssumption DEF TypeInv, TypeOK
<1> QED
  BY <1>1, <1>2

\* The two outcomes of timer_expire.
Expires(t, list, next) ==
    /\ end_val[t] # Idle /\ end_val[t] <= ticks
    /\ pc' = "handler" /\ ret' = next /\ p_next' = t
    /\ m_app_timer_sortlist' = list
    /\ UNCHANGED mp_active_timer
    /\ end_val' = IF repeat_period[t] = 0 THEN [end_val EXCEPT ![t] = Idle] ELSE end_val

PutsBack(t, list, next) ==
    /\ pc' = next /\ p_next' = None /\ mp_active_timer' = None
    /\ UNCHANGED <<ret, end_val>>
    /\ \/ m_app_timer_sortlist' = list /\ (end_val[t] = Idle \/ ~m_global_active)
       \/ m_app_timer_sortlist' = sortlist_add(list, t, end_val) /\ end_val[t] # Idle

LEMMA ExpireCases ==
    ASSUME TypeInv, ClockIsRight, EndsInv, NEW t \in Timers, NEW list, NEW next,
           timer_expire(t, list, next)
    PROVE  Expires(t, list, next) \/ PutsBack(t, list, next)
<1>1. Now = ticks /\ ticks \in Nat /\ end_val[t] \in Nat /\ ticks <= MaxTicks
  BY DEF ClockIsRight, EndsInv, TypeInv, TypeOK, RtcTypeOK
<1>2. CASE m_global_active /\ Now >= end_val[t]
  <2>1. end_val[t] # Idle
    BY <1>1, <1>2, BoundsAssumption
  <2> QED
    BY <1>1, <1>2, <2>1 DEF timer_expire, Expires
<1>3. CASE ~(m_global_active /\ Now >= end_val[t])
  BY <1>3 DEF timer_expire, PutsBack
<1> QED
  BY <1>2, <1>3

\* The steps that call timer_expire, and with which timer and list.
Calling(t, list, next) ==
    \/ /\ on_compare_evt /\ compare0 /\ mp_active_timer # None
       /\ t = mp_active_timer /\ list = m_app_timer_sortlist /\ next = "compare1"
    \/ /\ UpdateActivate /\ pc' # "window"
       /\ t = Head(ListWithActive) /\ list = Tail(ListWithActive) /\ next = "update"
    \/ /\ Write \/ Check
       /\ NotScheduled
       /\ t = p_next /\ list = m_app_timer_sortlist /\ next = "update"

\* The list of the next candidates.
LEMMA ListWithActiveTyped ==
    ASSUME TypeInv, UpdateActivate
    PROVE  ListWithActive \in Seq(Timers) /\ ListWithActive # <<>>
<1>1. CASE mp_active_timer # None /\ end_val[mp_active_timer] # Idle
  <2>1. /\ ListWithActive = sortlist_add(m_app_timer_sortlist, mp_active_timer, end_val)
        /\ mp_active_timer \in Timers /\ m_app_timer_sortlist \in Seq(Timers)
    BY <1>1 DEF ListWithActive, TypeInv, TypeOK
  <2> QED
    BY <2>1, SortedAdd DEF Contains
<1>2. CASE ~(mp_active_timer # None /\ end_val[mp_active_timer] # Idle)
  BY <1>2 DEF ListWithActive, UpdateActivate, TypeInv, TypeOK
<1> QED
  BY <1>1, <1>2

LEMMA CallOfExpire ==
    ASSUME TypeInv, NEW t, NEW list, NEW next, Calling(t, list, next)
    PROVE  /\ t \in Timers /\ list \in Seq(Timers)
           /\ next \in {"compare1", "update"}
           /\ next = "compare1" => pc = "compare0"
           /\ next = "update" => pc \in {"update", "write", "check"}
           /\ timer_expire(t, list, next)
           /\ UNCHANGED <<ticks, busy, triggered, m_req_fifo, repeat_period, m_global_active>>
<1>1. CASE on_compare_evt /\ compare0 /\ mp_active_timer # None
           /\ t = mp_active_timer /\ list = m_app_timer_sortlist /\ next = "compare1"
  BY <1>1 DEF on_compare_evt, TypeInv, TypeOK
<1>2. CASE UpdateActivate /\ pc' # "window"
           /\ t = Head(ListWithActive) /\ list = Tail(ListWithActive) /\ next = "update"
  <2>1. t \in Timers /\ list \in Seq(Timers)
    BY <1>2, ListWithActiveTyped, Shortened
  <2>2. timer_expire(Head(ListWithActive), Tail(ListWithActive), "update")
    BY <1>2 DEF UpdateActivate
  <2>3. UNCHANGED <<ticks, busy, triggered, m_req_fifo, repeat_period, m_global_active>>
    BY <1>2 DEF UpdateActivate
  <2>4. pc = "update"
    BY <1>2 DEF UpdateActivate
  <2> QED
    BY <1>2, <2>1, <2>2, <2>3, <2>4
<1>3. CASE (Write \/ Check) /\ NotScheduled
           /\ t = p_next /\ list = m_app_timer_sortlist /\ next = "update"
  BY <1>3 DEF Write, Check, NotScheduled, WindowVars, TypeInv, TypeOK, Leaving
<1> QED
  BY <1>1, <1>2, <1>3 DEF Calling

\* The steps that touch neither the timers nor the requests: the handler goes from
\* one part to the next, and the others leave it where it is.
Moving == {"window", "write", "check"}

\* TRUE when the step from pc to pc' keeps the timer that is active, or moving, so.
Advances ==
    \/ UNCHANGED <<pc, ret, p_next, mp_active_timer>>
    \/ pc = "idle" /\ pc' = "compare0" /\ UNCHANGED <<ret, p_next, mp_active_timer>>
    \/ pc = "compare0" /\ pc' = "compare1" /\ UNCHANGED <<ret, p_next, mp_active_timer>>
    \/ pc = "compare1" /\ pc' = "req" /\ UNCHANGED <<ret, p_next, mp_active_timer>>
    \/ pc = "req" /\ m_req_fifo = <<>> /\ pc' = "update" /\ UNCHANGED <<ret, p_next, mp_active_timer>>
    \/ pc = "update" /\ pc' = "idle" /\ UNCHANGED <<ret, p_next, mp_active_timer>>
    \/ pc \in Moving /\ pc' \in Moving /\ UNCHANGED <<ret, p_next, mp_active_timer>>
    \/ pc \in Moving /\ pc' = "idle" /\ mp_active_timer' = p_next /\ p_next' = None /\ UNCHANGED ret

Passes ==
    /\ UNCHANGED <<end_val, repeat_period, m_req_fifo, m_app_timer_sortlist, m_global_active>>
    /\ Advances
    /\ UNCHANGED ticks /\ (UNCHANGED busy \/ (busy' = 0 /\ pc' = "idle" /\ pc # "idle"))
    /\ UNCHANGED triggered \/ pc' = "compare0"

\* Every step of the module is one of these.
LEMMA StepCases ==
    ASSUME TypeInv, [Next]_vars
    PROVE  \/ Tick
           \/ \E t \in Timers : app_timer_stop(t) \/ \E d \in Delays : app_timer_start(t, d)
           \/ app_timer_stop_all
           \/ ReqStart \/ ReqStop \/ ReqStopAll
           \/ UpdateDrop
           \/ UpdateActivate /\ pc' = "window"
           \/ \E t, list, next : Calling(t, list, next)
           \/ HandlerReturn
           \/ Passes
<1>1. CASE Pause \/ Resume \/ UNCHANGED vars
  BY <1>1 DEF Pause, Resume, vars, rtcVars, irqVars, userVars, listVars, Passes, Advances
<1>2. CASE on_overflow_evt \/ on_compare1_evt \/ ReqDone
  BY <1>2 DEF on_overflow_evt, on_compare1_evt, ReqDone, ReqVars, rtcVars, userVars, listVars,
              Passes, Advances
<1>3. CASE on_compare_evt
  <2>1. CASE compare0 /\ mp_active_timer # None
    BY <1>3, <2>1 DEF Calling
  <2>2. CASE ~(compare0 /\ mp_active_timer # None)
    BY <1>3, <2>2 DEF on_compare_evt, Passes, Advances
  <2> QED
    BY <2>1, <2>2
<1>4. CASE UpdateEmpty \/ UpdateKeep
  BY <1>4 DEF UpdateEmpty, UpdateKeep, IrqReturn, rtcVars, userVars, listVars, Passes, Advances
<1>5. CASE UpdateActivate
  BY <1>5 DEF Calling
<1>6. CASE Window
  BY <1>6 DEF Window, userVars, listVars, Passes, Advances, Moving
<1>7. CASE Write \/ Check
  <2>1. /\ UNCHANGED <<ticks, triggered, m_global_active, m_req_fifo, repeat_period>>
        /\ pc \in Moving /\ pc # "idle"
    BY <1>7 DEF Write, Check, WindowVars, Moving
  <2>2. CASE NotScheduled
    BY <1>7, <2>2 DEF Calling
  <2>3. CASE Scheduled
    BY <2>1, <2>3 DEF Scheduled, IrqReturn, Passes, Advances
  <2>4. CASE ~NotScheduled /\ ~Scheduled
    <3>1. /\ pc' = "check"
          /\ UNCHANGED <<ret, p_next, mp_active_timer, end_val, m_app_timer_sortlist, busy>>
      BY <1>7, <2>4 DEF Write, Check
    <3> QED
      BY <2>1, <3>1 DEF Passes, Advances, Moving
  <2> QED
    BY <2>2, <2>3, <2>4
<1> QED
  BY <1>1, <1>2, <1>3, <1>4, <1>5, <1>6, <1>7 DEF Next, API, rtc_irq, Request, Update

\* The step that takes a timer from the list to the compare register.
LEMMA ActivateCase ==
    ASSUME UpdateActivate, pc' = "window"
    PROVE  LET t == Head(ListWithActive)
               remaining == end_val[t] - Now
           IN /\ pc = "update" /\ remaining > 0
              /\ p_next' = t /\ m_app_timer_sortlist' = Tail(ListWithActive)
              /\ cc_val' = (IF remaining > MaxCnt - SafeWindow
                              THEN counter + (MaxCnt - SafeWindow) ELSE end_val[t]) % CounterMod
              /\ UNCHANGED <<ticks, busy, triggered, m_req_fifo, repeat_period, m_global_active,
                             ret, end_val, mp_active_timer, counter, running, compare0, early,
                             compare1, ovrflw, cc0, inten0, evten0, near, stale>>
BY DEF UpdateActivate, timer_expire

LEMMA StartEnds ==
    ASSUME TypeInv, ClockIsRight, EndsInv, NEW t \in Timers, NEW d \in Delays, app_timer_start(t, d)
    PROVE  EndsInv'
<1>1. /\ UNCHANGED <<ticks, pc, p_next>>
      /\ end_val' = [end_val EXCEPT ![t] = ticks + d]
      /\ repeat_period' = [repeat_period EXCEPT ![t] = IF @ = 0 THEN 0 ELSE d]
  BY DEF app_timer_start, irqVars, ClockIsRight
<1>2. /\ d \in Nat /\ d # 0 /\ ticks \in Nat /\ ticks <= MaxTicks /\ MaxTicks \in Nat
      /\ end_val \in [Timers -> Nat] /\ repeat_period \in [Timers -> Nat]
  BY DelaysAssumption, BoundsAssumption DEF TypeInv, TypeOK, RtcTypeOK, EndsInv
<1>3. \A u \in Timers : repeat_period'[u] = 0 <=> repeat_period[u] = 0
  BY <1>1, <1>2
<1>4. /\ end_val'[t] = ticks + d /\ repeat_period'[t] \in {0, d}
      /\ \A u \in Timers : u # t => end_val'[u] = end_val[u] /\ repeat_period'[u] = repeat_period[u]
  BY <1>1, <1>2
<1>5. ticks + d <= MaxTicks + d /\ ticks + d <= MaxTicks + 2 * d
  BY <1>2
<1>6. ASSUME NEW u \in Timers, end_val'[u] # Idle
      PROVE  \E e \in Delays :
                /\ repeat_period'[u] \in {0, e}
                /\ end_val'[u] <= MaxTicks + 2 * e
                /\ pc = "handler" /\ p_next = u => end_val'[u] <= MaxTicks + e
  <2>1. CASE u = t
    BY <1>4, <1>5, <2>1
  <2>2. CASE u # t
    <3>1. end_val'[u] = end_val[u] /\ repeat_period'[u] = repeat_period[u]
      BY <1>4, <2>2
    <3> QED
      BY <1>6, <3>1 DEF EndsInv
  <2> QED
    BY <2>1, <2>2
<1> QED
  BY <1>1, <1>2, <1>3, <1>6 DEF EndsInv

\* Steps that only make timers idle.
LEMMA IdleEnds ==
    ASSUME EndsInv, UNCHANGED repeat_period, ticks' <= MaxTicks,
           \A u \in Timers : end_val'[u] \in {end_val[u], Idle},
           \/ pc' # "handler"
           \/ UNCHANGED <<pc, p_next>>
    PROVE  EndsInv'
BY DEF EndsInv

LEMMA CallEnds ==
    ASSUME TypeInv, ClockIsRight, EndsInv, NEW t, NEW list, NEW next, Calling(t, list, next)
    PROVE  EndsInv'
<1>1. /\ t \in Timers /\ timer_expire(t, list, next) /\ next \in {"compare1", "update"}
      /\ UNCHANGED <<ticks, repeat_period>>
  BY CallOfExpire
<1>2. ticks \in Nat /\ ticks <= MaxTicks /\ end_val \in [Timers -> Nat] /\ MaxTicks \in Nat
  BY BoundsAssumption DEF TypeInv, TypeOK, RtcTypeOK, EndsInv
<1>3. CASE PutsBack(t, list, next)
  BY <1>1, <1>2, <1>3, IdleEnds DEF PutsBack
<1>4. CASE Expires(t, list, next)
  <2>1. /\ pc' = "handler" /\ p_next' = t /\ end_val[t] <= ticks
        /\ end_val' = IF repeat_period[t] = 0 THEN [end_val EXCEPT ![t] = Idle] ELSE end_val
    BY <1>4 DEF Expires
  <2>2. \A u \in Timers : end_val'[u] # Idle => end_val'[u] = end_val[u]
    BY <1>1, <1>2, <2>1
  <2>3. ASSUME NEW u \in Timers, end_val'[u] # Idle
        PROVE  \E d \in Delays :
                  /\ repeat_period[u] \in {0, d}
                  /\ end_val'[u] <= MaxTicks + 2 * d
                  /\ u = t => end_val'[u] <= MaxTicks + d
    <3>1. PICK d \in Delays : repeat_period[u] \in {0, d} /\ end_val[u] <= MaxTicks + 2 * d
      BY <2>2, <2>3 DEF EndsInv
    <3>2. u = t => end_val[u] <= MaxTicks + d
      BY <1>1, <1>2, <2>1, DelaysAssumption
    <3> QED
      BY <2>2, <2>3, <3>1, <3>2
  <2> QED
    BY <1>1, <1>2, <2>1, <2>3 DEF EndsInv
<1> QED
  BY <1>1, <1>3, <1>4, ExpireCases

LEMMA ReturnEnds ==
    ASSUME TypeInv, EndsInv, HandlerReturn
    PROVE  EndsInv'
<1>1. /\ UNCHANGED <<ticks, repeat_period>> /\ pc' # "handler" /\ pc = "handler" /\ p_next \in Timers
      /\ \/ UNCHANGED end_val
         \/ /\ end_val[p_next] # Idle
            /\ end_val' = [end_val EXCEPT ![p_next] = @ + repeat_period[p_next]]
  BY DEF HandlerReturn, TypeInv, TypeOK, Leaving, rtcVars
<1>2. CASE UNCHANGED end_val
  BY <1>1, <1>2, IdleEnds DEF EndsInv
<1>3. CASE /\ end_val[p_next] # Idle
           /\ end_val' = [end_val EXCEPT ![p_next] = @ + repeat_period[p_next]]
  <2>1. PICK d \in Delays : repeat_period[p_next] \in {0, d} /\ end_val[p_next] <= MaxTicks + d
    BY <1>1, <1>3 DEF EndsInv
  <2>2. end_val \in [Timers -> Nat] /\ d \in Nat /\ MaxTicks \in Nat
    BY DelaysAssumption, BoundsAssumption DEF TypeInv, TypeOK
  <2>3. /\ end_val'[p_next] = end_val[p_next] + repeat_period[p_next]
        /\ \A u \in Timers : u # p_next => end_val'[u] = end_val[u]
    BY <1>1, <1>3, <2>2
  <2>4. end_val'[p_next] <= MaxTicks + 2 * d
    BY <1>1, <2>1, <2>2, <2>3
  <2> QED
    BY <1>1, <2>1, <2>3, <2>4 DEF EndsInv
<1> QED
  BY <1>1, <1>2, <1>3

\* A running timer's end value is below that of an idle one.
THEOREM EndsInvariant == Spec => []EndsInv
<1>1. Init => EndsInv
  BY BoundsAssumption DEF Init, RtcInit, EndsInv
<1>2. ASSUME TypeInv, ClockIsRight, EndsInv, [Next]_vars PROVE EndsInv'
  <2>0. ticks <= MaxTicks /\ ticks \in Nat /\ MaxTicks \in Nat
    BY <1>2, BoundsAssumption DEF EndsInv, TypeInv, TypeOK, RtcTypeOK
  <2>1. CASE Tick
    <3>1. ticks' <= MaxTicks
      BY <2>0, <2>1 DEF Tick, RtcTick
    <3> QED
      BY <1>2, <2>1, <3>1, IdleEnds DEF Tick, irqVars, userVars
  <2>2. CASE \E t \in Timers : \E d \in Delays : app_timer_start(t, d)
    BY <1>2, <2>2, StartEnds
  <2>3. CASE \E t \in Timers : app_timer_stop(t)
    <3>1. PICK t \in Timers : app_timer_stop(t)
      BY <2>3
    <3>2. end_val' = [end_val EXCEPT ![t] = Idle] /\ end_val \in [Timers -> Nat]
      BY <1>2, <3>1 DEF app_timer_stop, TypeInv, TypeOK
    <3>3. UNCHANGED <<ticks, repeat_period, pc, p_next>>
      BY <3>1 DEF app_timer_stop, irqVars
    <3> QED
      BY <1>2, <2>0, <3>2, <3>3, IdleEnds
  <2>4. CASE ReqStopAll
    <3>1. \A u \in Timers : end_val'[u] \in {end_val[u], Idle}
      BY <2>4 DEF ReqStopAll
    <3>2. UNCHANGED <<ticks, repeat_period, pc>> /\ pc # "handler"
      BY <2>4 DEF ReqStopAll, TakeRequest, ReqVars, rtcVars
    <3> QED
      BY <1>2, <2>0, <3>1, <3>2, IdleEnds
  <2>5. CASE app_timer_stop_all \/ ReqStart \/ ReqStop \/ UpdateDrop
             \/ (UpdateActivate /\ pc' = "window") \/ Passes
    <3>1. UNCHANGED <<ticks, repeat_period, end_val>>
      BY <2>5, ActivateCase DEF app_timer_stop_all, ReqStart, ReqStop, TakeRequest, ReqVars,
                                UpdateDrop, Passes, rtcVars, userVars
    <3>2. pc' # "handler" \/ UNCHANGED <<pc, p_next>>
      BY <2>5 DEF app_timer_stop_all, ReqStart, ReqStop, TakeRequest, ReqVars, UpdateDrop,
                  Passes, Advances, Moving, irqVars
    <3> QED
      BY <1>2, <2>0, <3>1, <3>2, IdleEnds
  <2>6. CASE \E t, list, next : Calling(t, list, next)
    BY <1>2, <2>6, CallEnds
  <2>7. CASE HandlerReturn
    BY <1>2, <2>7, ReturnEnds
  <2> QED
    BY <1>2, <2>1, <2>2, <2>3, <2>4, <2>5, <2>6, <2>7, StepCases
<1> QED
  BY <1>1, <1>2, TypeInvariant, ClockCorrect, PTL DEF Spec

-----------------------------------------------------------------------------
(***************************************************************************)
(* Requests are handled before the timers that they start are due.         *)
(***************************************************************************)

\* Every timeout is longer than the time that a start may wait for: the rest of a
\* run of the handler, and the next one.
HandledBeforeDue == \A d \in Delays : d > 2 * Latency

\* The requests of now are handled by this run of the handler, or the next.
Unserved == Early \/ pc = "req"

Remaining == IF Unserved THEN Latency - busy ELSE 2 * Latency - busy

RequestInv ==
    /\ m_req_fifo # <<>> /\ (pc = "idle" \/ ~Unserved) => triggered
    /\ \A t \in Timers : Asked(t) /\ end_val[t] # Idle => end_val[t] > ticks + Remaining

LEMMA AskedIsLast == \A t : Asked(t) <=> LastIs(m_req_fifo, "START", t)
BY DEF Asked, LastIs

LEMMA AskedNotEmpty ==
    ASSUME NEW t, Asked(t) PROVE m_req_fifo # <<>>
BY DEF Asked

LEMMA RemainingTyped ==
    ASSUME TypeInv PROVE Remaining \in 0 .. 2 * Latency /\ busy \in 0 .. Latency
BY BoundsAssumption DEF TypeInv, TypeOK, Remaining

\* Steps that ask for no start and do not defer the requests that wait.
LEMMA NotDeferred ==
    ASSUME TypeInv, TypeInv', RequestInv, ticks' = ticks,
           \A u \in Timers : Asked(u)' /\ end_val'[u] # Idle =>
               Asked(u) /\ end_val[u] # Idle /\ end_val'[u] >= end_val[u],
           \/ UNCHANGED busy
           \/ busy' = 0 /\ pc' = "idle" /\ ~Unserved,
           \/ Unserved => Unserved'
           \/ m_req_fifo' = <<>>,
           m_req_fifo' # <<>> /\ (pc' = "idle" \/ ~Unserved') => triggered'
    PROVE  RequestInv'
<1>1. ASSUME NEW u \in Timers, Asked(u)', end_val'[u] # Idle
      PROVE  end_val'[u] > ticks' + Remaining'
  <2>1. m_req_fifo' # <<>>
    BY <1>1, AskedNotEmpty DEF Asked
  <2>2. Remaining' <= Remaining
    <3>1. Latency \in Nat /\ busy \in 0 .. Latency /\ busy' \in 0 .. Latency
      BY BoundsAssumption DEF TypeInv, TypeOK
    <3>2. CASE UNCHANGED busy
      BY <2>1, <3>1, <3>2 DEF Remaining
    <3>3. CASE busy' = 0 /\ pc' = "idle" /\ ~Unserved
      <4>1. Unserved'
        BY <3>3 DEF Unserved, Early
      <4> QED
        BY <3>1, <3>3, <4>1 DEF Remaining
    <3> QED
      BY <3>2, <3>3
  <2>3. end_val[u] > ticks + Remaining /\ end_val'[u] >= end_val[u]
    BY <1>1 DEF RequestInv
  <2>4. ticks \in Nat /\ end_val[u] \in Nat /\ end_val'[u] \in Nat
    BY DEF TypeInv, TypeOK, RtcTypeOK
  <2>5. Remaining \in Int /\ Remaining' \in Int
    <3>1. Latency \in Nat /\ busy \in 0 .. Latency /\ busy' \in 0 .. Latency
      BY BoundsAssumption DEF TypeInv, TypeOK
    <3> QED
      BY <3>1 DEF Remaining
  <2> QED
    BY <2>2, <2>3, <2>4, <2>5
<1> QED
  BY <1>1 DEF RequestInv

LEMMA TickRequests ==
    ASSUME TypeInv, RequestInv, Tick
    PROVE  RequestInv'
<1>1. /\ UNCHANGED <<pc, ret, m_req_fifo, end_val, triggered>>
      /\ ticks' = ticks + 1
      /\ (RtcPending \/ pc # "idle") => busy' = busy + 1
  BY DEF Tick, RtcTick, irqVars, userVars
<1>2. /\ Latency \in Nat /\ busy \in 0 .. Latency /\ ticks \in Nat
      /\ end_val \in [Timers -> Nat]
  BY BoundsAssumption DEF TypeInv, TypeOK, RtcTypeOK
<1>3. Unserved' <=> Unserved
  BY <1>1 DEF Unserved, Early
<1>4. ASSUME NEW u \in Timers, Asked(u)', end_val'[u] # Idle
      PROVE  end_val'[u] > ticks' + Remaining'
  <2>1. Asked(u) /\ end_val[u] > ticks + Remaining /\ m_req_fifo # <<>>
    BY <1>1, <1>4, SameRequests, AskedNotEmpty DEF RequestInv
  <2>2. RtcPending \/ pc # "idle"
    BY <2>1 DEF RequestInv, RtcPending
  <2>3. Remaining' = Remaining - 1
    BY <1>1, <1>2, <1>3, <2>2 DEF Remaining
  <2>4. Remaining \in Int
    BY <1>2 DEF Remaining
  <2> QED
    BY <1>1, <1>2, <2>1, <2>3, <2>4
<1> QED
  BY <1>1, <1>3, <1>4 DEF RequestInv

LEMMA StartRequests ==
    ASSUME TypeInv, TypeInv', ClockIsRight, RequestInv, HandledBeforeDue,
           NEW t \in Timers, NEW d \in Delays, app_timer_start(t, d)
    PROVE  RequestInv'
<1> DEFINE req == [type |-> "START", timer |-> t]
<1>1. /\ UNCHANGED <<pc, ret, ticks, busy>>
      /\ end_val' = [end_val EXCEPT ![t] = ticks + d]
      /\ \/ m_req_fifo' = Append(m_req_fifo, req) /\ triggered'
         \/ UNCHANGED <<m_req_fifo, triggered>>
  BY DEF app_timer_start, timer_req_schedule, drv_rtc_irq_trigger, irqVars, ClockIsRight
<1>2. /\ req \in Requests /\ req.timer = t /\ m_req_fifo \in Seq(Requests)
      /\ end_val \in [Timers -> Nat] /\ ticks \in Nat /\ d \in Nat /\ Latency \in Nat
      /\ d > 2 * Latency
  BY DelaysAssumption, BoundsAssumption DEF Requests, TypeInv, TypeOK, RtcTypeOK, HandledBeforeDue
<1>3. \A u : u # t /\ Asked(u)' => Asked(u)
  <2>1. CASE m_req_fifo' = Append(m_req_fifo, req)
    <3> HIDE DEF req
    <3>1. \A u : u # t => (LastIs(Append(m_req_fifo, req), "START", u) <=> LastIs(m_req_fifo, "START", u))
      BY <1>2, LastAppended
    <3>2. \A u : Asked(u)' <=> LastIs(m_req_fifo', "START", u)
      BY DEF Asked, LastIs
    <3> QED
      BY <2>1, <3>1, <3>2, AskedIsLast
  <2> QED
    BY <1>1, <2>1, SameRequests
<1>4. (Unserved' <=> Unserved) /\ Remaining' = Remaining
  BY <1>1 DEF Unserved, Early, Remaining
<1>5. end_val'[t] > ticks' + Remaining'
  <2>1. end_val'[t] = ticks + d
    BY <1>1, <1>2
  <2>2. Remaining \in 0 .. 2 * Latency
    BY RemainingTyped
  <2> QED
    BY <1>1, <1>2, <1>4, <2>1, <2>2
<1>6. ASSUME NEW u \in Timers, u # t, Asked(u)', end_val'[u] # Idle
      PROVE  end_val'[u] > ticks' + Remaining'
  BY <1>1, <1>3, <1>4, <1>6 DEF RequestInv
<1>7. m_req_fifo' # <<>> /\ (pc' = "idle" \/ ~Unserved') => triggered'
  BY <1>1, <1>4 DEF RequestInv
<1> QED
  BY <1>5, <1>6, <1>7 DEF RequestInv

\* Stops, of one timer or of all, with the idle timers among those that are left.
LEMMA StopRequests ==
    ASSUME TypeInv, TypeInv', RequestInv, NEW req \in Requests,
           UNCHANGED <<pc, ret, ticks, busy>>, timer_req_schedule(req),
           \A u \in Timers : end_val'[u] # Idle => end_val'[u] = end_val[u] /\ req.timer # u
    PROVE  RequestInv'
<1>1. \/ m_req_fifo' = Append(m_req_fifo, req) /\ triggered'
      \/ UNCHANGED <<m_req_fifo, triggered>>
  BY DEF timer_req_schedule, drv_rtc_irq_trigger
<1>2. \A u : req.timer # u /\ Asked(u)' => Asked(u)
  <2>1. CASE m_req_fifo' = Append(m_req_fifo, req)
    <3>1. m_req_fifo \in Seq(Requests)
      BY DEF TypeInv, TypeOK
    <3>2. \A u : req.timer # u => (LastIs(Append(m_req_fifo, req), "START", u) <=> LastIs(m_req_fifo, "START", u))
      BY <3>1, LastAppended
    <3>3. \A u : Asked(u)' <=> LastIs(m_req_fifo', "START", u)
      BY DEF Asked, LastIs
    <3> QED
      BY <2>1, <3>2, <3>3, AskedIsLast
  <2> QED
    BY <1>1, <2>1, SameRequests
<1>3. Unserved' <=> Unserved
  BY DEF Unserved, Early
<1>4. m_req_fifo' # <<>> /\ (pc' = "idle" \/ ~Unserved') => triggered'
  BY <1>1, <1>3 DEF RequestInv
<1>5. \A u \in Timers : end_val[u] \in Nat
  BY DEF TypeInv, TypeOK
<1>6. \A u \in Timers : Asked(u)' /\ end_val'[u] # Idle =>
         Asked(u) /\ end_val[u] # Idle /\ end_val'[u] >= end_val[u]
  BY <1>2, <1>5
<1> QED
  BY <1>3, <1>4, <1>6, NotDeferred

LEMMA HandleRequests ==
    ASSUME TypeInv, TypeInv', RequestInv, ReqStart \/ ReqStop \/ ReqStopAll
    PROVE  RequestInv'
<1>1. /\ UNCHANGED <<pc, ret, ticks, busy>> /\ pc = "req"
      /\ m_req_fifo # <<>> /\ m_req_fifo' = Tail(m_req_fifo)
      /\ \A u \in Timers : end_val'[u] \in {end_val[u], Idle}
  BY DEF ReqStart, ReqStop, ReqStopAll, TakeRequest, ReqVars, rtcVars
<1>2. \A u : Asked(u)' => Asked(u)
  <2>1. m_req_fifo \in Seq(Requests)
    BY DEF TypeInv, TypeOK
  <2>2. \A u : LastIs(Tail(m_req_fifo), "START", u) => LastIs(m_req_fifo, "START", u)
    BY <1>1, <2>1, LastPopped
  <2>3. \A u : Asked(u)' <=> LastIs(m_req_fifo', "START", u)
    BY DEF Asked, LastIs
  <2> QED
    BY <1>1, <2>2, <2>3, AskedIsLast
<1>3. Unserved' /\ pc' # "idle"
  BY <1>1 DEF Unserved
<1>4. \A u \in Timers : end_val[u] \in Nat
  BY DEF TypeInv, TypeOK
<1>5. \A u \in Timers : Asked(u)' /\ end_val'[u] # Idle =>
         Asked(u) /\ end_val[u] # Idle /\ end_val'[u] >= end_val[u]
  BY <1>1, <1>2, <1>4
<1> QED
  BY <1>1, <1>3, <1>5, NotDeferred

\* With the requests as they are, a timer that is asked for stays so.
LEMMA SameQueue ==
    ASSUME TypeInv, TypeInv', RequestInv, UNCHANGED <<ticks, m_req_fifo>>,
           \A u \in Timers : end_val'[u] # Idle => end_val[u] # Idle /\ end_val'[u] >= end_val[u],
           \/ UNCHANGED busy
           \/ busy' = 0 /\ pc' = "idle" /\ ~Unserved,
           \/ Unserved => Unserved'
           \/ m_req_fifo' = <<>>,
           m_req_fifo' # <<>> /\ (pc' = "idle" \/ ~Unserved') => triggered'
    PROVE  RequestInv'
BY SameRequests, NotDeferred

LEMMA CallRequests ==
    ASSUME TypeInv, TypeInv', ClockIsRight, EndsInv, RequestInv,
           NEW t, NEW list, NEW next, Calling(t, list, next)
    PROVE  RequestInv'
<1>1. /\ t \in Timers /\ timer_expire(t, list, next) /\ next \in {"compare1", "update"}
      /\ next = "compare1" => pc = "compare0"
      /\ next = "update" => pc \in {"update", "write", "check"}
      /\ UNCHANGED <<ticks, busy, triggered, m_req_fifo>>
  BY CallOfExpire
<1>2. Expires(t, list, next) \/ PutsBack(t, list, next)
  BY <1>1, ExpireCases
<1>3. \A u \in Timers : end_val'[u] # Idle => end_val[u] # Idle /\ end_val'[u] >= end_val[u]
  <2>1. end_val \in [Timers -> Nat]
    BY DEF TypeInv, TypeOK
  <2>2. \A u \in Timers : end_val'[u] # Idle => end_val'[u] = end_val[u]
    BY <1>1, <1>2, <2>1 DEF Expires, PutsBack
  <2> QED
    BY <2>1, <2>2
<1>4. /\ next = "compare1" => Unserved' /\ pc' # "idle"
      /\ next = "update" => ~Unserved
  BY <1>1, <1>2 DEF Expires, PutsBack, Unserved, Early
<1> QED
  BY <1>1, <1>3, <1>4, SameQueue DEF RequestInv

LEMMA ReturnRequests ==
    ASSUME TypeInv, TypeInv', RequestInv, HandlerReturn
    PROVE  RequestInv'
<1>1. /\ UNCHANGED <<ticks, busy, triggered, m_req_fifo>>
      /\ pc = "handler" /\ pc' = ret /\ p_next \in Timers
      /\ \/ UNCHANGED end_val
         \/ /\ end_val[p_next] # Idle
            /\ end_val' = [end_val EXCEPT ![p_next] = @ + repeat_period[p_next]]
  BY DEF HandlerReturn, TypeInv, TypeOK, Leaving, rtcVars
<1>2. \A u \in Timers : end_val'[u] # Idle => end_val[u] # Idle /\ end_val'[u] >= end_val[u]
  <2>1. end_val \in [Timers -> Nat] /\ repeat_period \in [Timers -> Nat]
    BY DEF TypeInv, TypeOK
  <2>2. \A a, b \in Nat : a + b >= a
    OBVIOUS
  <2> QED
    BY <1>1, <2>1, <2>2
<1>3. pc' # "idle" /\ (Unserved' <=> Unserved)
  BY <1>1 DEF Unserved, Early, TypeInv, TypeOK
<1> QED
  BY <1>1, <1>2, <1>3, SameQueue DEF RequestInv

LEMMA PassRequests ==
    ASSUME TypeInv, TypeInv', RequestInv,
           UpdateDrop \/ (UpdateActivate /\ pc' = "window") \/ Passes
    PROVE  RequestInv'
<1>1. UNCHANGED <<ticks, m_req_fifo, end_val>>
  BY ActivateCase DEF UpdateDrop, Passes, rtcVars, userVars
<1>2. \A u \in Timers : end_val'[u] # Idle => end_val[u] # Idle /\ end_val'[u] >= end_val[u]
  BY <1>1 DEF TypeInv, TypeOK
<1>3. CASE UpdateDrop \/ (UpdateActivate /\ pc' = "window")
  <2>1. UNCHANGED <<busy, triggered>> /\ pc = "update" /\ pc' \in {"update", "window"}
    BY <1>3, ActivateCase DEF UpdateDrop, rtcVars, irqVars
  <2>2. ~Unserved
    BY <2>1 DEF Unserved, Early
  <2> QED
    BY <1>1, <1>2, <2>1, <2>2, SameQueue DEF RequestInv
<1>4. CASE Passes
  <2>1. \/ UNCHANGED busy
        \/ busy' = 0 /\ pc' = "idle" /\ ~Unserved
    BY <1>4 DEF Passes, Advances, Moving, Unserved, Early
  <2>2. \/ Unserved => Unserved'
        \/ m_req_fifo' = <<>>
    BY <1>4 DEF Passes, Advances, Moving, Unserved, Early
  <2>3. m_req_fifo' # <<>> /\ (pc' = "idle" \/ ~Unserved') => triggered'
    <3>1. CASE pc' = "compare0"
      BY <3>1 DEF Unserved, Early
    <3>2. CASE UNCHANGED triggered
      BY <1>1, <1>4, <3>2 DEF Passes, Advances, Moving, Unserved, Early, RequestInv
    <3> QED
      BY <1>4, <3>1, <3>2 DEF Passes
  <2> QED
    BY <1>1, <1>2, <2>1, <2>2, <2>3, SameQueue
<1> QED
  BY <1>3, <1>4

\* A start that waits is handled before the timer is due, whenever it was asked for:
\* the interrupt is pending, or the handler has not come to the requests yet.
THEOREM RequestsInTime ==
    ASSUME HandledBeforeDue
    PROVE  Spec => []RequestInv
<1>1. Init => RequestInv
  BY DEF Init, RequestInv
<1>2. ASSUME TypeInv, TypeInv', ClockIsRight, EndsInv, RequestInv, [Next]_vars PROVE RequestInv'
  <2>1. CASE Tick
    BY <1>2, <2>1, TickRequests
  <2>2. CASE \E t \in Timers : \E d \in Delays : app_timer_start(t, d)
    BY <1>2, <2>2, StartRequests
  <2>3. CASE \E t \in Timers : app_timer_stop(t)
    <3>1. PICK t \in Timers : app_timer_stop(t)
      BY <2>3
    <3> DEFINE req == [type |-> "STOP", timer |-> t]
    <3>2. /\ UNCHANGED <<pc, ret, ticks, busy>> /\ timer_req_schedule(req)
          /\ end_val' = [end_val EXCEPT ![t] = Idle]
      BY <3>1 DEF app_timer_stop, irqVars
    <3>3. req \in Requests /\ req.timer = t
      BY DEF Requests
    <3>4. \A u \in Timers : end_val'[u] # Idle => end_val'[u] = end_val[u] /\ req.timer # u
      BY <1>2, <3>2 DEF TypeInv, TypeOK
    <3> HIDE DEF req
    <3> QED
      BY <1>2, <3>2, <3>3, <3>4, StopRequests
  <2>4. CASE app_timer_stop_all
    <3> DEFINE req == [type |-> "STOP_ALL", timer |-> None]
    <3>1. UNCHANGED <<pc, ret, ticks, busy, end_val>> /\ timer_req_schedule(req)
      BY <2>4 DEF app_timer_stop_all, irqVars
    <3>2. req \in Requests /\ req.timer = None
      BY DEF Requests
    <3> HIDE DEF req
    <3>3. \A u \in Timers : end_val'[u] # Idle => end_val'[u] = end_val[u] /\ req.timer # u
      BY <3>1, <3>2, TimersAssumption
    <3> QED
      BY <1>2, <3>1, <3>2, <3>3, StopRequests
  <2>5. CASE ReqStart \/ ReqStop \/ ReqStopAll
    BY <1>2, <2>5, HandleRequests
  <2>6. CASE UpdateDrop \/ (UpdateActivate /\ pc' = "window") \/ Passes
    BY <1>2, <2>6, PassRequests
  <2>7. CASE \E t, list, next : Calling(t, list, next)
    BY <1>2, <2>7, CallRequests
  <2>8. CASE HandlerReturn
    BY <1>2, <2>8, ReturnRequests
  <2> QED
    BY <1>2, <2>1, <2>2, <2>3, <2>4, <2>5, <2>6, <2>7, <2>8, StepCases
<1> QED
  BY <1>1, <1>2, TypeInvariant, ClockCorrect, EndsInvariant, PTL DEF Spec

-----------------------------------------------------------------------------
(***************************************************************************)
(* No timer is in two places.                                              *)
(***************************************************************************)

\* The places outside of the list: the compare register, the way to it, and the
\* handler of a repeated timer, which goes back to the list.
Out(t) ==
    \/ mp_active_timer = t /\ pc \in {"idle", "compare0", "compare1", "req", "update"}
    \/ p_next = t /\ (pc \in Moving \/ (pc = "handler" /\ repeat_period[t] # 0))

Present(t) == InList(t) \/ Out(t)

\* A start is requested of a timer only when it is in no place, or when the stop
\* that takes it out is requested before.
OnceInv ==
    /\ Distinct(m_app_timer_sortlist)
    /\ \A t \in Timers :
          /\ ~(InList(t) /\ Out(t))
          /\ Alternates(m_req_fifo, t, Present(t))
          /\ end_val[t] # Idle => LastIs(m_req_fifo, "START", t) \/ FreeOf(m_req_fifo, t)
          /\ end_val[t] = Idle /\ pc # "req" =>
                LastIs(m_req_fifo, "STOP", t) \/ (FreeOf(m_req_fifo, t) /\ ~Present(t))
          /\ end_val[t] = Idle /\ pc = "req" /\ Present(t) => Has(m_req_fifo, "STOP", t)

LEMMA LastIsHas ==
    ASSUME NEW q, NEW t, NEW type, LastIs(q, type, t) PROVE Has(q, type, t)
BY DEF LastIs, Has

\* Steps that leave the requests alone and bring no timer to a place.
LEMMA SteadyOnce ==
    ASSUME OnceInv, UNCHANGED m_req_fifo,
           pc # "req" \/ pc' = "req" \/ m_req_fifo = <<>>,
           Distinct(m_app_timer_sortlist'),
           \A t \in Timers : ~(InList(t)' /\ Out(t)') /\ (Present(t)' => Present(t)),
           \A t \in Timers : end_val'[t] # Idle => end_val[t] # Idle,
           \A t \in Timers : end_val'[t] = Idle =>
               end_val[t] = Idle \/ (FreeOf(m_req_fifo, t) /\ ~Present(t)')
    PROVE  OnceInv'
<1>1. ASSUME NEW t \in Timers
      PROVE  /\ Alternates(m_req_fifo, t, Present(t)')
             /\ end_val'[t] # Idle => LastIs(m_req_fifo, "START", t) \/ FreeOf(m_req_fifo, t)
  BY <1>1, AlternatesLess DEF OnceInv
<1>2. ASSUME NEW t \in Timers, end_val'[t] = Idle, pc' # "req"
      PROVE  LastIs(m_req_fifo, "STOP", t) \/ (FreeOf(m_req_fifo, t) /\ ~Present(t)')
  <2>1. CASE pc # "req"
    BY <1>2, <2>1 DEF OnceInv
  <2>2. CASE pc = "req"
    <3>1. m_req_fifo = <<>> /\ ~Has(m_req_fifo, "STOP", t) /\ FreeOf(m_req_fifo, t)
      BY <1>2, <2>2 DEF Has, FreeOf
    <3> QED
      BY <1>2, <2>2, <3>1 DEF OnceInv
  <2> QED
    BY <2>1, <2>2
<1>3. ASSUME NEW t \in Timers, end_val'[t] = Idle, pc' = "req", Present(t)'
      PROVE  Has(m_req_fifo, "STOP", t)
  <2>1. end_val[t] = Idle /\ Present(t)
    BY <1>3
  <2> QED
    BY <2>1, LastIsHas DEF OnceInv
<1> QED
  BY <1>1, <1>2, <1>3 DEF OnceInv

\* A call of the API.
LEMMA RequestOnce ==
    ASSUME TypeInv, OnceInv, NEW req \in Requests, m_req_fifo' = Append(m_req_fifo, req),
           UNCHANGED <<pc, m_app_timer_sortlist>>, pc # "req",
           \A t \in Timers : Out(t)' <=> Out(t),
           \A t \in Timers : req.timer # t => end_val'[t] = end_val[t],
           \A t \in Timers : req.timer = t =>
               \/ req.type = "START" /\ end_val[t] = Idle /\ end_val'[t] # Idle
               \/ req.type = "STOP" /\ end_val'[t] = Idle
    PROVE  OnceInv'
<1>1. m_req_fifo \in Seq(Requests)
  BY DEF TypeInv, TypeOK
<1>2. \A t \in Timers : (InList(t)' <=> InList(t)) /\ (Present(t)' <=> Present(t))
  BY DEF InList, Present
<1>3. ASSUME NEW t \in Timers
      PROVE  /\ req.timer = t => req = [type |-> req.type, timer |-> t]
             /\ req.timer # t => req # [type |-> "START", timer |-> t]
  BY DEF Requests
<1>4. ASSUME NEW t \in Timers PROVE Alternates(m_req_fifo', t, Present(t))
  <2>1. req = [type |-> "START", timer |-> t] =>
           LastIs(m_req_fifo, "STOP", t) \/ (FreeOf(m_req_fifo, t) /\ ~Present(t))
    BY DEF OnceInv
  <2>2. Alternates(m_req_fifo, t, Present(t))
    BY DEF OnceInv
  <2> QED
    BY <1>1, <2>1, <2>2, AlternatesAppended
<1>5. ASSUME NEW t \in Timers, req.timer = t
      PROVE  /\ end_val'[t] # Idle => LastIs(m_req_fifo', "START", t)
             /\ end_val'[t] = Idle => LastIs(m_req_fifo', "STOP", t)
  BY <1>1, <1>3, <1>5, LastAppended
<1>6. ASSUME NEW t \in Timers, req.timer # t
      PROVE  /\ LastIs(m_req_fifo, "START", t) => LastIs(m_req_fifo', "START", t)
             /\ LastIs(m_req_fifo, "STOP", t) => LastIs(m_req_fifo', "STOP", t)
             /\ FreeOf(m_req_fifo, t) => FreeOf(m_req_fifo', t)
  BY <1>1, <1>6, LastAppended
<1>7. ASSUME NEW t \in Timers
      PROVE  /\ end_val'[t] # Idle => LastIs(m_req_fifo', "START", t) \/ FreeOf(m_req_fifo', t)
             /\ end_val'[t] = Idle =>
                   LastIs(m_req_fifo', "STOP", t) \/ (FreeOf(m_req_fifo', t) /\ ~Present(t))
  <2>1. CASE req.timer = t
    BY <1>5, <2>1
  <2>2. CASE req.timer # t
    BY <1>6, <2>2 DEF OnceInv
  <2> QED
    BY <2>1, <2>2
<1>8. \A t \in Timers : Alternates(m_req_fifo', t, Present(t)')
  BY <1>2, <1>4, AlternatesLess
<1>9. Distinct(m_app_timer_sortlist')
  BY DEF OnceInv
<1> QED
  BY <1>2, <1>7, <1>8, <1>9 DEF OnceInv

\* A request that is handled: the first of those that wait.
LEMMA HandleOnce ==
    ASSUME TypeInv, OnceInv, pc = "req", pc' = "req",
           m_req_fifo # <<>>, m_req_fifo' = Tail(m_req_fifo),
           Distinct(m_app_timer_sortlist'),
           \A t \in Timers : ~(InList(t)' /\ Out(t)'),
           \A t \in Timers : Head(m_req_fifo).timer # t => (Present(t)' => Present(t)),
           \A t \in Timers : Head(m_req_fifo) = [type |-> "STOP", timer |-> t] => ~Present(t)',
           \A t \in Timers : end_val'[t] # Idle => end_val[t] # Idle,
           \A t \in Timers : end_val'[t] = Idle /\ Present(t)' => end_val[t] = Idle /\ Present(t)
    PROVE  OnceInv'
<1> DEFINE req == Head(m_req_fifo)
<1>1. m_req_fifo \in Seq(Requests) /\ req \in Requests
  BY Popped DEF TypeInv, TypeOK
<1>2. ASSUME NEW t \in Timers, req.timer = t
      PROVE  req = [type |-> "START", timer |-> t] \/ req = [type |-> "STOP", timer |-> t]
  BY <1>1, <1>2, TimersAssumption DEF Requests
<1>3. ASSUME NEW t \in Timers PROVE Alternates(m_req_fifo', t, Present(t)')
  <2>1. Alternates(m_req_fifo, t, Present(t))
    BY DEF OnceInv
  <2>2. CASE req.timer # t
    <3>1. Alternates(Tail(m_req_fifo), t, Present(t))
      BY <1>1, <2>1, <2>2, AlternatesPopped
    <3> QED
      BY <2>2, <3>1, AlternatesLess
  <2>3. CASE req = [type |-> "START", timer |-> t]
    <3>1. Alternates(Tail(m_req_fifo), t, TRUE)
      BY <1>1, <2>1, <2>3, AlternatesPopped
    <3> QED
      BY <3>1, AlternatesLess
  <2>4. CASE req = [type |-> "STOP", timer |-> t]
    <3>1. Alternates(Tail(m_req_fifo), t, FALSE)
      BY <1>1, <2>1, <2>4, AlternatesPopped
    <3> QED
      BY <2>4, <3>1, AlternatesLess
  <2> QED
    BY <1>2, <2>2, <2>3, <2>4
<1>4. ASSUME NEW t \in Timers, end_val'[t] # Idle
      PROVE  LastIs(m_req_fifo', "START", t) \/ FreeOf(m_req_fifo', t)
  <2>1. LastIs(m_req_fifo, "START", t) \/ FreeOf(m_req_fifo, t)
    BY <1>4 DEF OnceInv
  <2> QED
    BY <1>1, <2>1, LastPopped
<1>5. ASSUME NEW t \in Timers, end_val'[t] = Idle, Present(t)'
      PROVE  Has(m_req_fifo', "STOP", t)
  <2>1. Has(m_req_fifo, "STOP", t) /\ req # [type |-> "STOP", timer |-> t]
    BY <1>5 DEF OnceInv
  <2> QED
    BY <1>1, <2>1, LastPopped
<1> QED
  BY <1>3, <1>4, <1>5 DEF OnceInv

LEMMA StartOnce ==
    ASSUME ~MayOverflow, TypeInv, ClockIsRight, EndsInv, OnceInv,
           NEW t \in Timers, NEW d \in Delays, app_timer_start(t, d)
    PROVE  OnceInv'
<1> DEFINE req == [type |-> "START", timer |-> t]
<1>1. /\ pc \in {"idle", "handler"} /\ end_val[t] = Idle
      /\ UNCHANGED <<pc, p_next, mp_active_timer, m_app_timer_sortlist>>
      /\ end_val' = [end_val EXCEPT ![t] = ticks + d]
      /\ repeat_period' = [repeat_period EXCEPT ![t] = IF @ = 0 THEN 0 ELSE d]
      /\ m_req_fifo' = Append(m_req_fifo, req)
  BY DEF app_timer_start, timer_req_schedule, MayCall, irqVars, listVars, ClockIsRight
<1>2. /\ d \in Nat \ {0} /\ ticks \in Nat /\ ticks <= MaxTicks /\ ticks + d # Idle
      /\ end_val \in [Timers -> Nat] /\ repeat_period \in [Timers -> Nat]
      /\ req \in Requests /\ req.timer = t /\ req.type = "START"
  <2>1. d \in Nat \ {0} /\ MaxTicks + 2 * d < Idle /\ MaxTicks \in Nat /\ Idle \in Nat
    BY DelaysAssumption, BoundsAssumption
  <2>2. ticks \in Nat /\ ticks <= MaxTicks
    BY DEF TypeInv, TypeOK, RtcTypeOK, EndsInv
  <2>3. ticks + d # Idle
    BY <2>1, <2>2
  <2> QED
    BY <2>1, <2>2, <2>3 DEF TypeInv, TypeOK, Requests
<1>3. \A u \in Timers : repeat_period'[u] = 0 <=> repeat_period[u] = 0
  BY <1>1, <1>2
<1>4. \A u \in Timers : Out(u)' <=> Out(u)
  BY <1>1, <1>3 DEF Out
<1>5. end_val'[t] # Idle /\ \A u \in Timers : u # t => end_val'[u] = end_val[u]
  BY <1>1, <1>2
<1> HIDE DEF req
<1> QED
  BY <1>1, <1>2, <1>4, <1>5, RequestOnce

LEMMA StopOnce ==
    ASSUME ~MayOverflow, TypeInv, OnceInv, NEW t \in Timers, app_timer_stop(t)
    PROVE  OnceInv'
<1> DEFINE req == [type |-> "STOP", timer |-> t]
<1>1. /\ pc \in {"idle", "handler"}
      /\ UNCHANGED <<pc, p_next, mp_active_timer, m_app_timer_sortlist, repeat_period>>
      /\ end_val' = [end_val EXCEPT ![t] = Idle]
      /\ m_req_fifo' = Append(m_req_fifo, req)
  BY DEF app_timer_stop, timer_req_schedule, MayCall, irqVars, listVars
<1>2. end_val \in [Timers -> Nat] /\ req \in Requests /\ req.timer = t /\ req.type = "STOP"
  BY DEF TypeInv, TypeOK, Requests
<1>3. \A u \in Timers : Out(u)' <=> Out(u)
  BY <1>1 DEF Out
<1>4. end_val'[t] = Idle /\ \A u \in Timers : u # t => end_val'[u] = end_val[u]
  BY <1>1, <1>2
<1> HIDE DEF req
<1> QED
  BY <1>1, <1>2, <1>3, <1>4, RequestOnce

LEMMA StopAllOnce ==
    ASSUME ~MayOverflow, TypeInv, OnceInv, app_timer_stop_all
    PROVE  OnceInv'
<1> DEFINE req == [type |-> "STOP_ALL", timer |-> None]
<1>1. /\ pc = "idle"
      /\ UNCHANGED <<pc, p_next, mp_active_timer, m_app_timer_sortlist, repeat_period, end_val>>
      /\ m_req_fifo' = Append(m_req_fifo, req)
  BY DEF app_timer_stop_all, timer_req_schedule, irqVars
<1>2. req \in Requests /\ \A u \in Timers : req.timer # u
  BY TimersAssumption DEF Requests
<1>3. \A u \in Timers : Out(u)' <=> Out(u)
  BY <1>1 DEF Out
<1> HIDE DEF req
<1> QED
  BY <1>1, <1>2, <1>3, RequestOnce

\* The requests are handled between the parts of the handler that move timers.
LEMMA ReqStartOnce ==
    ASSUME TypeInv, OnceInv, ReqStart
    PROVE  OnceInv'
<1> DEFINE req == Head(m_req_fifo)
           t == req.timer
<1>1. /\ pc = "req" /\ pc' = "req" /\ m_req_fifo # <<>> /\ m_req_fifo' = Tail(m_req_fifo)
      /\ req.type = "START"
      /\ UNCHANGED <<p_next, mp_active_timer, end_val, repeat_period>>
      /\ m_app_timer_sortlist' = IF end_val[t] # Idle
                                   THEN sortlist_add(m_app_timer_sortlist, t, end_val)
                                   ELSE m_app_timer_sortlist
  BY DEF ReqStart, TakeRequest, ReqVars
<1>2. m_req_fifo \in Seq(Requests) /\ req \in Requests /\ m_app_timer_sortlist \in Seq(Timers)
  BY <1>1, Popped DEF TypeInv, TypeOK
<1>3. t \in Timers /\ req = [type |-> "START", timer |-> t]
  BY <1>1, <1>2 DEF Requests
<1>4. ~Present(t)
  <2>1. Alternates(m_req_fifo, t, Present(t))
    BY <1>3 DEF OnceInv
  <2> QED
    BY <1>1, <1>2, <1>3, <2>1, AlternatesPopped
<1>5. \A u \in Timers : Out(u)' <=> Out(u)
  BY <1>1 DEF Out
<1> HIDE DEF req, t
<1>6. /\ Distinct(m_app_timer_sortlist')
      /\ \A u : InList(u)' <=> InList(u) \/ (u = t /\ end_val[t] # Idle)
  <2>1. CASE end_val[t] # Idle
    <3>1. m_app_timer_sortlist' = sortlist_add(m_app_timer_sortlist, t, end_val)
      BY <1>1, <2>1
    <3>2. Distinct(m_app_timer_sortlist) /\ ~Contains(m_app_timer_sortlist, t)
      BY <1>4 DEF OnceInv, Present, InList
    <3> QED
      BY <1>2, <1>3, <2>1, <3>1, <3>2, AddDistinct, SortedAdd DEF InList
  <2>2. CASE end_val[t] = Idle
    BY <1>1, <2>2 DEF OnceInv, InList
  <2> QED
    BY <2>1, <2>2
<1>7. \A u \in Timers : /\ ~(InList(u)' /\ Out(u)')
                        /\ u # t => (Present(u)' => Present(u))
                        /\ end_val[u] = Idle /\ Present(u)' => Present(u)
  BY <1>4, <1>5, <1>6 DEF OnceInv, Present
<1>8. \A u \in Timers : /\ req.timer # u => u # t
                        /\ req # [type |-> "STOP", timer |-> u]
  BY <1>1 DEF t
<1> QED
  BY <1>1, <1>6, <1>7, <1>8, HandleOnce DEF req

LEMMA ReqStopOnce ==
    ASSUME TypeInv, OnceInv, ReqStop
    PROVE  OnceInv'
<1> DEFINE req == Head(m_req_fifo)
<1>1. /\ pc = "req" /\ pc' = "req" /\ m_req_fifo # <<>> /\ m_req_fifo' = Tail(m_req_fifo)
      /\ req.type = "STOP"
      /\ UNCHANGED <<p_next, end_val, repeat_period>>
      /\ IF req.timer = mp_active_timer
           THEN mp_active_timer' = None /\ UNCHANGED m_app_timer_sortlist
           ELSE /\ m_app_timer_sortlist' = sortlist_remove(m_app_timer_sortlist, req.timer)
                /\ UNCHANGED mp_active_timer
  BY DEF ReqStop, TakeRequest, ReqVars
<1>2. m_req_fifo \in Seq(Requests) /\ req \in Requests /\ m_app_timer_sortlist \in Seq(Timers)
  BY <1>1, Popped DEF TypeInv, TypeOK
<1>3. PICK t \in Timers : req = [type |-> "STOP", timer |-> t]
  BY <1>1, <1>2 DEF Requests
<1> HIDE DEF req
<1>4. /\ \A u \in Timers : Out(u) <=> u = mp_active_timer
      /\ \A u \in Timers : Out(u)' <=> u = mp_active_timer'
  BY <1>1 DEF Out, Moving
<1>5. /\ Distinct(m_app_timer_sortlist') /\ ~InList(t)' /\ t # mp_active_timer'
      /\ \A u \in Timers : u # t => (InList(u)' <=> InList(u))
      /\ \A u \in Timers : u = mp_active_timer' => u = mp_active_timer
  <2>1. CASE t = mp_active_timer
    <3>1. ~InList(t) /\ Distinct(m_app_timer_sortlist)
      BY <1>3, <1>4, <2>1 DEF OnceInv
    <3>2. mp_active_timer' = None /\ UNCHANGED m_app_timer_sortlist
      BY <1>1, <1>3, <2>1
    <3> QED
      BY <3>1, <3>2, TimersAssumption DEF InList
  <2>2. CASE t # mp_active_timer
    <3>1. /\ m_app_timer_sortlist' = sortlist_remove(m_app_timer_sortlist, t)
          /\ UNCHANGED mp_active_timer
      BY <1>1, <1>3, <2>2
    <3>2. Distinct(m_app_timer_sortlist)
      BY DEF OnceInv
    <3> QED
      BY <1>2, <2>2, <3>1, <3>2, RemoveDistinct, Removed DEF InList
  <2> QED
    BY <2>1, <2>2
<1>6. /\ \A u \in Timers : ~(InList(u)' /\ Out(u)') /\ (Present(u)' => Present(u))
      /\ ~Present(t)'
  BY <1>3, <1>4, <1>5 DEF OnceInv, Present
<1>7. \A u \in Timers : req = [type |-> "STOP", timer |-> u] => u = t
  BY <1>3
<1>8. \A u \in Timers : end_val'[u] = end_val[u]
  BY <1>1
<1> QED
  BY <1>1, <1>5, <1>6, <1>7, <1>8, HandleOnce DEF req

LEMMA ReqStopAllOnce ==
    ASSUME TypeInv, OnceInv, ReqStopAll
    PROVE  OnceInv'
<1>1. /\ pc = "req" /\ pc' = "req" /\ m_req_fifo # <<>> /\ m_req_fifo' = Tail(m_req_fifo)
      /\ Head(m_req_fifo).type = "STOP_ALL"
      /\ UNCHANGED <<p_next, mp_active_timer, repeat_period>>
      /\ m_app_timer_sortlist' = <<>>
      /\ end_val' = [u \in Timers |-> IF InList(u) THEN Idle ELSE end_val[u]]
  BY DEF ReqStopAll, TakeRequest, ReqVars, InList
<1>2. \A u \in Timers : Out(u)' <=> Out(u)
  BY <1>1 DEF Out
<1>3. /\ Distinct(m_app_timer_sortlist') /\ \A u : ~InList(u)'
  BY <1>1 DEF Distinct, InList, Contains
<1>4. \A u \in Timers : Present(u)' => Out(u) /\ Present(u) /\ ~InList(u)
  BY <1>2, <1>3 DEF OnceInv, Present
<1>5. \A u \in Timers : /\ end_val'[u] # Idle => end_val[u] # Idle
                        /\ end_val'[u] = Idle => end_val[u] = Idle \/ InList(u)
  BY <1>1
<1>6. \A u \in Timers : Head(m_req_fifo) # [type |-> "STOP", timer |-> u]
  BY <1>1
<1> QED
  BY <1>1, <1>3, <1>4, <1>5, <1>6, HandleOnce

\* The candidates are the timers of the list and the active one.
LEMMA CandidatesOnce ==
    ASSUME TypeInv, OnceInv, UpdateActivate
    PROVE  LET t == Head(ListWithActive)
               list == Tail(ListWithActive)
           IN /\ Distinct(list) /\ ~Contains(list, t) /\ Present(t)
              /\ \A u \in Timers : Contains(list, u) => Present(u)
<1>1. /\ ListWithActive \in Seq(Timers) /\ ListWithActive # <<>>
      /\ m_app_timer_sortlist \in Seq(Timers) /\ pc = "update"
  BY ListWithActiveTyped DEF TypeInv, TypeOK, UpdateActivate
<1>2. Distinct(ListWithActive) /\ \A u \in Timers : Contains(ListWithActive, u) => Present(u)
  <2>1. CASE mp_active_timer # None /\ end_val[mp_active_timer] # Idle
    <3>1. /\ ListWithActive = sortlist_add(m_app_timer_sortlist, mp_active_timer, end_val)
          /\ mp_active_timer \in Timers
      BY <2>1 DEF ListWithActive, TypeInv, TypeOK
    <3>2. Out(mp_active_timer)
      BY <1>1 DEF Out
    <3>3. Distinct(m_app_timer_sortlist) /\ ~Contains(m_app_timer_sortlist, mp_active_timer)
      BY <3>1, <3>2 DEF OnceInv, InList
    <3> QED
      BY <1>1, <3>1, <3>2, <3>3, AddDistinct, SortedAdd DEF InList, Present
  <2>2. CASE ~(mp_active_timer # None /\ end_val[mp_active_timer] # Idle)
    BY <2>2 DEF ListWithActive, OnceInv, InList, Present
  <2> QED
    BY <2>1, <2>2
<1>3. Head(ListWithActive) \in Timers
  BY <1>1, Shortened
<1> QED
  BY <1>1, <1>2, <1>3, Shortened, TailDistinct

LEMMA ActivateOnce ==
    ASSUME TypeInv, OnceInv, UpdateActivate, pc' = "window"
    PROVE  OnceInv'
<1>1. PICK t : t = Head(ListWithActive)
  OBVIOUS
<1>2. /\ pc = "update" /\ p_next' = t /\ m_app_timer_sortlist' = Tail(ListWithActive)
      /\ UNCHANGED <<m_req_fifo, end_val>>
  BY <1>1, ActivateCase
<1>3. /\ Distinct(m_app_timer_sortlist') /\ Present(t)
      /\ \A u \in Timers : InList(u)' => Present(u) /\ u # t
  BY <1>1, <1>2, CandidatesOnce DEF InList
<1>4. \A u \in Timers : Out(u)' <=> u = t
  BY <1>2 DEF Out, Moving
<1>5. \A u \in Timers : ~(InList(u)' /\ Out(u)') /\ (Present(u)' => Present(u))
  BY <1>3, <1>4 DEF Present
<1> QED
  BY <1>2, <1>3, <1>5, SteadyOnce

LEMMA DropOnce ==
    ASSUME TypeInv, OnceInv, UpdateDrop
    PROVE  OnceInv'
<1>1. /\ m_app_timer_sortlist # <<>> /\ m_app_timer_sortlist' = Tail(m_app_timer_sortlist)
      /\ UNCHANGED <<pc, p_next, mp_active_timer, repeat_period, m_req_fifo, end_val>>
      /\ pc = "update"
  BY DEF UpdateDrop, irqVars, userVars
<1>2. m_app_timer_sortlist \in Seq(Timers)
  BY DEF TypeInv, TypeOK
<1>3. Distinct(m_app_timer_sortlist')
  BY <1>1, <1>2, TailDistinct DEF OnceInv
<1>4. \A u \in Timers : (InList(u)' => InList(u)) /\ (Out(u)' <=> Out(u))
  BY <1>1, <1>2, Shortened DEF InList, Out
<1>5. \A u \in Timers : ~(InList(u)' /\ Out(u)') /\ (Present(u)' => Present(u))
  BY <1>4 DEF OnceInv, Present
<1> QED
  BY <1>1, <1>3, <1>5, SteadyOnce

\* The timer that timer_expire is called with is not in the list.
LEMMA CalledOnce ==
    ASSUME TypeInv, OnceInv, NEW t, NEW list, NEW next, Calling(t, list, next)
    PROVE  /\ Distinct(list) /\ ~Contains(list, t) /\ Present(t)
           /\ \A u \in Timers : Contains(list, u) => Present(u)
<1>1. t \in Timers /\ list \in Seq(Timers)
  BY CallOfExpire
<1>2. CASE on_compare_evt /\ compare0 /\ mp_active_timer # None
           /\ t = mp_active_timer /\ list = m_app_timer_sortlist /\ next = "compare1"
  <2>1. Out(t)
    BY <1>2 DEF on_compare_evt, Out
  <2> QED
    BY <1>1, <1>2, <2>1 DEF OnceInv, Present, InList
<1>3. CASE UpdateActivate /\ pc' # "window"
           /\ t = Head(ListWithActive) /\ list = Tail(ListWithActive) /\ next = "update"
  BY <1>3, CandidatesOnce
<1>4. CASE (Write \/ Check) /\ NotScheduled
           /\ t = p_next /\ list = m_app_timer_sortlist /\ next = "update"
  <2>1. Out(t)
    BY <1>4 DEF Write, Check, Out, Moving
  <2> QED
    BY <1>1, <1>4, <2>1 DEF OnceInv, Present, InList
<1> QED
  BY <1>2, <1>3, <1>4 DEF Calling

\* A single-shot timer that expires was not started again: it would not be due yet.
LEMMA CallOnce ==
    ASSUME TypeInv, ClockIsRight, EndsInv, RequestInv, OnceInv,
           NEW t, NEW list, NEW next, Calling(t, list, next)
    PROVE  OnceInv'
<1>1. /\ t \in Timers /\ list \in Seq(Timers) /\ timer_expire(t, list, next)
      /\ next \in {"compare1", "update"} /\ pc # "req"
      /\ UNCHANGED <<m_req_fifo, repeat_period>>
  BY CallOfExpire
<1>2. /\ Distinct(list) /\ ~Contains(list, t) /\ Present(t)
      /\ \A u \in Timers : Contains(list, u) => Present(u)
  BY CalledOnce
<1>3. CASE PutsBack(t, list, next)
  <2>1. /\ Distinct(m_app_timer_sortlist')
        /\ \A u \in Timers : InList(u)' => Present(u)
    BY <1>1, <1>2, <1>3, AddDistinct, SortedAdd DEF PutsBack, InList
  <2>2. \A u \in Timers : ~Out(u)'
    BY <1>1, <1>3, TimersAssumption DEF PutsBack, Out, Moving
  <2>3. \A u \in Timers : ~(InList(u)' /\ Out(u)') /\ (Present(u)' => Present(u))
    BY <2>1, <2>2 DEF Present
  <2>4. UNCHANGED end_val
    BY <1>3 DEF PutsBack
  <2> QED
    BY <1>1, <2>1, <2>3, <2>4, SteadyOnce
<1>4. CASE Expires(t, list, next)
  <2>1. /\ pc' = "handler" /\ p_next' = t /\ m_app_timer_sortlist' = list
        /\ end_val[t] # Idle /\ end_val[t] <= ticks
        /\ end_val' = IF repeat_period[t] = 0 THEN [end_val EXCEPT ![t] = Idle] ELSE end_val
    BY <1>4 DEF Expires
  <2>2. end_val \in [Timers -> Nat] /\ ticks \in Nat
    BY DEF TypeInv, TypeOK, RtcTypeOK
  <2>3. FreeOf(m_req_fifo, t)
    <3>1. ~Asked(t)
      <4>1. Remaining \in 0 .. 2 * Latency /\ Latency \in Nat
        BY RemainingTyped, BoundsAssumption
      <4>2. Asked(t) => end_val[t] > ticks + Remaining
        BY <1>1, <2>1 DEF RequestInv
      <4> QED
        BY <1>1, <2>1, <2>2, <4>1, <4>2
    <3> QED
      BY <1>1, <2>1, <3>1, AskedIsLast DEF OnceInv
  <2>4. \A u \in Timers : Out(u)' <=> u = t /\ repeat_period[t] # 0
    BY <1>1, <2>1 DEF Out, Moving
  <2>5. \A u \in Timers : ~(InList(u)' /\ Out(u)') /\ (Present(u)' => Present(u))
    BY <1>2, <2>1, <2>4 DEF Present, InList
  <2>6. repeat_period[t] = 0 => ~Present(t)'
    BY <1>1, <1>2, <2>1, <2>4 DEF Present, InList
  <2>7. \A u \in Timers : /\ end_val'[u] # Idle => end_val[u] # Idle
                          /\ end_val'[u] = Idle => end_val[u] = Idle \/ (u = t /\ repeat_period[t] = 0)
    BY <2>1, <2>2
  <2> QED
    BY <1>1, <1>2, <2>1, <2>3, <2>5, <2>6, <2>7, SteadyOnce
<1> QED
  BY <1>1, <1>3, <1>4, ExpireCases

LEMMA ReturnOnce ==
    ASSUME TypeInv, EndsInv, OnceInv, HandlerReturn
    PROVE  OnceInv'
<1>1. PICK t \in Timers : t = p_next
  BY DEF HandlerReturn, TypeInv, TypeOK, Leaving
<1>2. /\ pc = "handler" /\ pc' = ret /\ p_next' = None /\ mp_active_timer' = None
      /\ UNCHANGED <<m_req_fifo, repeat_period>>
      /\ IF repeat_period[t] # 0 /\ end_val[t] # Idle
           THEN /\ end_val' = [end_val EXCEPT ![t] = @ + repeat_period[t]]
                /\ m_app_timer_sortlist' =
                     sortlist_add(m_app_timer_sortlist, t, [end_val EXCEPT ![t] = @ + repeat_period[t]])
           ELSE UNCHANGED <<end_val, m_app_timer_sortlist>>
  BY <1>1 DEF HandlerReturn
<1>3. \A u \in Timers : ~Out(u)'
  BY <1>2, TimersAssumption DEF Out, Moving, TypeInv, TypeOK
<1>4. /\ Distinct(m_app_timer_sortlist')
      /\ \A u \in Timers : InList(u)' => Present(u)
      /\ \A u \in Timers : end_val'[u] # Idle <=> end_val[u] # Idle
  <2>1. CASE repeat_period[t] # 0 /\ end_val[t] # Idle
    <3> DEFINE ends == [end_val EXCEPT ![t] = @ + repeat_period[t]]
    <3>1. /\ end_val' = ends
          /\ m_app_timer_sortlist' = sortlist_add(m_app_timer_sortlist, t, ends)
      BY <1>2, <2>1
    <3>2. \A u \in Timers : ends[u] # Idle <=> end_val[u] # Idle
      <4>1. end_val \in [Timers -> Nat] /\ end_val[t] + repeat_period[t] # Idle
        <5>1. end_val[t] + repeat_period[t] < Idle
          BY <1>1, <1>2, <2>1, EndBelowIdle
        <5>2. end_val[t] \in Nat /\ repeat_period[t] \in Nat /\ Idle \in Nat
          BY BoundsAssumption DEF TypeInv, TypeOK
        <5> QED
          BY <5>1, <5>2 DEF TypeInv, TypeOK
      <4> QED
        BY <2>1, <4>1
    <3> HIDE DEF ends
    <3>3. Out(t) /\ m_app_timer_sortlist \in Seq(Timers)
      BY <1>1, <1>2, <2>1 DEF Out, TypeInv, TypeOK
    <3>4. Distinct(m_app_timer_sortlist) /\ ~Contains(m_app_timer_sortlist, t)
      BY <3>3 DEF OnceInv, InList
    <3> QED
      BY <3>1, <3>2, <3>3, <3>4, AddDistinct, SortedAdd DEF InList, Present
  <2>2. CASE ~(repeat_period[t] # 0 /\ end_val[t] # Idle)
    BY <1>2, <2>2 DEF OnceInv, InList, Present
  <2> QED
    BY <2>1, <2>2
<1>5. \A u \in Timers : ~(InList(u)' /\ Out(u)') /\ (Present(u)' => Present(u))
  BY <1>3, <1>4 DEF Present
<1> QED
  BY <1>2, <1>4, <1>5, SteadyOnce

LEMMA PassOnce ==
    ASSUME TypeInv, OnceInv, Passes
    PROVE  OnceInv'
<1>1. UNCHANGED <<end_val, repeat_period, m_req_fifo, m_app_timer_sortlist>> /\ Advances
  BY DEF Passes
<1>2. \A u \in Timers : Out(u)' => Out(u)
  <2>1. pc \in Moving => p_next \in Timers
    BY DEF TypeInv, TypeOK, Leaving, Moving
  <2> QED
    BY <1>1, <2>1, TimersAssumption DEF Advances, Out, Moving
<1>3. \A u \in Timers : InList(u)' <=> InList(u)
  BY <1>1 DEF InList
<1>4. \A u \in Timers : ~(InList(u)' /\ Out(u)') /\ (Present(u)' => Present(u))
  BY <1>2, <1>3 DEF OnceInv, Present
<1>5. Distinct(m_app_timer_sortlist')
  BY <1>1 DEF OnceInv
<1>6. pc # "req" \/ pc' = "req" \/ m_req_fifo = <<>>
  BY <1>1 DEF Advances, Moving
<1> QED
  BY <1>1, <1>4, <1>5, <1>6, SteadyOnce

\* Every timer is in one place at most, and in none that a start which waits would
\* put it in again, whenever timers are stopped, started and expire.
THEOREM OnceInvariant ==
    ASSUME ~MayOverflow, HandledBeforeDue
    PROVE  Spec => []OnceInv
<1>1. Init => OnceInv
  <2> SUFFICES ASSUME Init PROVE OnceInv
    OBVIOUS
  <2>1. /\ pc = "idle" /\ p_next = None /\ mp_active_timer = None
        /\ m_app_timer_sortlist = <<>> /\ m_req_fifo = <<>>
        /\ end_val = [t \in Timers |-> Idle]
    BY DEF Init
  <2>2. \A t \in Timers : ~InList(t) /\ ~Out(t)
    BY <2>1, TimersAssumption DEF InList, Contains, Out, Moving
  <2> QED
    BY <2>1, <2>2 DEF OnceInv, Distinct, Alternates, FreeOf, Present
<1>2. ASSUME TypeInv, ClockIsRight, EndsInv, RequestInv, OnceInv, [Next]_vars PROVE OnceInv'
  <2>1. CASE Tick
    <3>1. /\ UNCHANGED <<end_val, repeat_period, m_req_fifo, m_app_timer_sortlist, pc, p_next,
                         mp_active_timer>>
      BY <2>1 DEF Tick, irqVars, userVars, listVars
    <3>2. \A t \in Timers : (InList(t)' <=> InList(t)) /\ (Out(t)' <=> Out(t))
      BY <3>1 DEF InList, Out
    <3>3. \A t \in Timers : ~(InList(t)' /\ Out(t)') /\ (Present(t)' => Present(t))
      BY <1>2, <3>2 DEF OnceInv, Present
    <3>4. Distinct(m_app_timer_sortlist')
      BY <1>2, <3>1 DEF OnceInv
    <3> QED
      BY <1>2, <3>1, <3>3, <3>4, SteadyOnce
  <2>2. CASE \E t \in Timers : \E d \in Delays : app_timer_start(t, d)
    BY <1>2, <2>2, StartOnce
  <2>3. CASE \E t \in Timers : app_timer_stop(t)
    BY <1>2, <2>3, StopOnce
  <2>4. CASE app_timer_stop_all
    BY <1>2, <2>4, StopAllOnce
  <2>5. CASE ReqStart \/ ReqStop \/ ReqStopAll
    BY <1>2, <2>5, ReqStartOnce, ReqStopOnce, ReqStopAllOnce
  <2>6. CASE UpdateDrop \/ (UpdateActivate /\ pc' = "window")
    BY <1>2, <2>6, DropOnce, ActivateOnce
  <2>7. CASE \E t, list, next : Calling(t, list, next)
    BY <1>2, <2>7, CallOnce
  <2>8. CASE HandlerReturn
    BY <1>2, <2>8, ReturnOnce
  <2>9. CASE Passes
    BY <1>2, <2>9, PassOnce
  <2> QED
    BY <1>2, <2>1, <2>2, <2>3, <2>4, <2>5, <2>6, <2>7, <2>8, <2>9, StepCases
<1> QED
  BY <1>1, <1>2, TypeInvariant, ClockCorrect, EndsInvariant, RequestsInTime, PTL DEF Spec

\* The linked list never holds a timer twice, nor one that is active or on its way
\* to the compare register: no call of nrf_sortlist_add closes a loop.
THEOREM TimersListedOnce ==
    ASSUME ~MayOverflow, HandledBeforeDue
    PROVE  Spec => []ListedOnce
<1>1. TypeInv /\ OnceInv => ListedOnce
  <2> SUFFICES ASSUME TypeInv, OnceInv, NEW t \in Timers
               PROVE  Listed(t) + (IF InTransit(t) THEN 1 ELSE 0)
                        + (IF mp_active_timer = t /\ pc \in {"idle", "compare0", "req"} THEN 1 ELSE 0)
                      <= 1
    BY DEF ListedOnce
  <2>1. Listed(t) \in {0, 1} /\ (~InList(t) => Listed(t) = 0)
    BY ListedOnceAtMost DEF OnceInv, TypeInv, TypeOK
  <2>2. InTransit(t) \/ (mp_active_timer = t /\ pc \in {"idle", "compare0", "req"}) => Listed(t) = 0
    BY <2>1 DEF OnceInv, InTransit, Out, Moving
  <2>3. ~(InTransit(t) /\ pc \in {"idle", "compare0", "req"})
    BY DEF InTransit
  <2> QED
    BY <2>1, <2>2, <2>3
<1> QED
  BY <1>1, OnceInvariant, TypeInvariant, PTL

-----------------------------------------------------------------------------
(***************************************************************************)
(* What is promised, but for the deadline.                                 *)
(***************************************************************************)

\* No handler of a repeated timer stops or starts its own timer: the period would
\* be added to the timeout that it is started with.
HandlersLeaveOwn == \A t \in Repeated : t \notin HandlerCalls[t]

\* Due without the function.
DueOf(t) ==
    IF pc = "handler" /\ p_next = t /\ repeat_period[t] # 0 /\ end_val[t] # Idle
      THEN end_val[t] + repeat_period[t] ELSE end_val[t]

LEMMA DueIs == /\ \A t \in Timers : Due[t] = DueOf(t)
               /\ \A t \in Timers : Due'[t] = DueOf(t)'
               /\ Due = [t \in Timers |-> DueOf(t)]
               /\ Due' = [t \in Timers |-> DueOf(t)']
BY DEF Due, DueOf

\* A change of the due time of one timer.
LEMMA DueChanges ==
    ASSUME NEW t \in Timers, NEW new,
           DueOf(t)' = new, \A u \in Timers : u # t => DueOf(u)' = DueOf(u)
    PROVE  Due' = [Due EXCEPT ![t] = new]
BY DueIs

LEMMA DueStays ==
    ASSUME \A u \in Timers : DueOf(u)' = DueOf(u)
    PROVE  Due' = Due
BY DueIs

\* Wherever no handler runs a timer is due at its end.
LEMMA DueIsEnd == pc # "handler" => \A t \in Timers : DueOf(t) = end_val[t]
BY DEF DueOf

LEMMA StartServes ==
    ASSUME HandlersLeaveOwn, TypeInv, ClockIsRight, EndsInv,
           NEW t \in Timers, NEW d \in Delays, app_timer_start(t, d)
    PROVE  Service!Next
<1>1. /\ UNCHANGED <<pc, p_next, ticks>> /\ end_val[t] = Idle
      /\ end_val' = [end_val EXCEPT ![t] = ticks + d]
      /\ repeat_period' = [repeat_period EXCEPT ![t] = IF @ = 0 THEN 0 ELSE d]
      /\ pc = "handler" => t \in HandlerCalls[p_next]
  BY DEF app_timer_start, irqVars, ClockIsRight, MayCall
<1>2. /\ end_val \in [Timers -> Nat] /\ repeat_period \in [Timers -> Nat]
      /\ repeat_period[t] = 0 <=> t \notin Repeated
  BY DEF TypeInv, TypeOK, EndsInv
<1>3. repeat_period' = [repeat_period EXCEPT ![t] = IF t \in Repeated THEN d ELSE 0]
  BY <1>1, <1>2
<1>4. DueOf(t) = Idle
  BY <1>1 DEF DueOf
<1>5. DueOf(t)' = ticks + d
  <2>1. ~(pc = "handler" /\ p_next = t /\ repeat_period[t] # 0)
    BY <1>1, <1>2 DEF HandlersLeaveOwn
  <2>2. repeat_period'[t] # 0 => repeat_period[t] # 0
    BY <1>1, <1>2
  <2> QED
    BY <1>1, <1>2, <2>1, <2>2 DEF DueOf
<1>6. \A u \in Timers : u # t => DueOf(u)' = DueOf(u)
  BY <1>1, <1>2 DEF DueOf
<1>7. Due' = [Due EXCEPT ![t] = ticks + d] /\ Due[t] = Idle
  BY <1>4, <1>5, <1>6, DueChanges, DueIs
<1>8. Service!Start(t, d)
  BY <1>1, <1>3, <1>7 DEF Service!Start
<1> QED
  BY <1>8 DEF Service!Next

LEMMA StopServes ==
    ASSUME HandlersLeaveOwn, TypeInv, EndsInv, NEW t \in Timers, app_timer_stop(t)
    PROVE  Service!Next
<1>1. /\ UNCHANGED <<pc, p_next, ticks, repeat_period>> /\ end_val[t] # Idle
      /\ end_val' = [end_val EXCEPT ![t] = Idle]
  BY DEF app_timer_stop, irqVars
<1>2. /\ end_val \in [Timers -> Nat] /\ repeat_period \in [Timers -> Nat] /\ Idle \in Nat
  BY BoundsAssumption DEF TypeInv, TypeOK
<1>3. DueOf(t) # Idle
  <2>1. end_val[t] < Idle /\ (pc = "handler" /\ p_next = t => end_val[t] + repeat_period[t] < Idle)
    BY <1>1, EndBelowIdle
  <2> QED
    BY <1>2, <2>1 DEF DueOf
<1>4. DueOf(t)' = Idle /\ \A u \in Timers : u # t => DueOf(u)' = DueOf(u)
  BY <1>1, <1>2 DEF DueOf
<1>5. Due' = [Due EXCEPT ![t] = Idle] /\ Due[t] # Idle
  BY <1>3, <1>4, DueChanges, DueIs
<1>6. Service!Stop(t)
  BY <1>1, <1>5 DEF Service!Stop
<1> QED
  BY <1>6 DEF Service!Next

LEMMA CallServes ==
    ASSUME TypeInv, ClockIsRight, EndsInv, NEW t, NEW list, NEW next, Calling(t, list, next)
    PROVE  Service!Next \/ UNCHANGED Service!vars
<1>1. /\ t \in Timers /\ timer_expire(t, list, next)
      /\ next \in {"compare1", "update"} /\ pc # "handler"
      /\ UNCHANGED <<ticks, repeat_period>>
  BY CallOfExpire
<1>2. \A u \in Timers : DueOf(u) = end_val[u]
  BY <1>1, DueIsEnd
<1>3. CASE PutsBack(t, list, next)
  <2>1. pc' # "handler" /\ end_val' = end_val
    BY <1>1, <1>3 DEF PutsBack
  <2>2. \A u \in Timers : DueOf(u)' = DueOf(u)
    BY <1>2, <2>1 DEF DueOf
  <2> QED
    BY <1>1, <2>1, <2>2, DueStays DEF Service!vars
<1>4. CASE Expires(t, list, next)
  <2>1. /\ pc' = "handler" /\ p_next' = t /\ end_val[t] # Idle /\ end_val[t] <= ticks
        /\ end_val' = IF repeat_period[t] = 0 THEN [end_val EXCEPT ![t] = Idle] ELSE end_val
    BY <1>4 DEF Expires
  <2>2. /\ end_val \in [Timers -> Nat] /\ (repeat_period[t] = 0 <=> t \notin Repeated)
    BY <1>1 DEF TypeInv, TypeOK, EndsInv
  <2>3. DueOf(t)' = IF t \in Repeated THEN DueOf(t) + repeat_period[t] ELSE Idle
    BY <1>1, <1>2, <2>1, <2>2 DEF DueOf
  <2>4. \A u \in Timers : u # t => DueOf(u)' = DueOf(u)
    BY <1>1, <1>2, <2>1, <2>2 DEF DueOf
  <2>5. /\ Due[t] = end_val[t]
        /\ Due' = [Due EXCEPT ![t] = IF t \in Repeated THEN Due[t] + repeat_period[t] ELSE Idle]
    BY <1>1, <1>2, <2>3, <2>4, DueChanges, DueIs
  <2>6. Service!Expire(t)
    BY <1>1, <2>1, <2>5 DEF Service!Expire
  <2> QED
    BY <1>1, <2>6 DEF Service!Next
<1> QED
  BY <1>1, <1>3, <1>4, ExpireCases

LEMMA ReturnServes ==
    ASSUME TypeInv, EndsInv, HandlerReturn
    PROVE  Service!Next
<1>1. PICK t \in Timers : t = p_next
  BY DEF HandlerReturn, TypeInv, TypeOK, Leaving
<1>2. /\ pc = "handler" /\ pc' # "handler" /\ UNCHANGED <<ticks, repeat_period>>
      /\ end_val' = IF repeat_period[t] # 0 /\ end_val[t] # Idle
                      THEN [end_val EXCEPT ![t] = @ + repeat_period[t]] ELSE end_val
  BY <1>1 DEF HandlerReturn, TypeInv, TypeOK, rtcVars
<1>3. end_val \in [Timers -> Nat]
  BY DEF TypeInv, TypeOK
<1>4. \A u \in Timers : DueOf(u)' = DueOf(u)
  BY <1>1, <1>2, <1>3 DEF DueOf
<1>5. t # None
  BY TimersAssumption
<1>6. Service!Return
  BY <1>1, <1>2, <1>4, <1>5, DueStays DEF Service!Return
<1> QED
  BY <1>6 DEF Service!Next

\* The rest changes nothing that the users of timers see.
LEMMA InnerServes ==
    ASSUME TypeInv, ReqStart \/ ReqStop \/ UpdateDrop \/ (UpdateActivate /\ pc' = "window") \/ Passes
    PROVE  UNCHANGED Service!vars
<1>1. /\ UNCHANGED <<ticks, repeat_period, end_val>>
      /\ (pc = "handler" \/ pc' = "handler") => UNCHANGED <<pc, p_next>>
  BY ActivateCase DEF ReqStart, ReqStop, TakeRequest, ReqVars, UpdateDrop, Passes, Advances,
                      Moving, rtcVars, irqVars, userVars
<1>2. \A u \in Timers : DueOf(u)' = DueOf(u)
  BY <1>1 DEF DueOf
<1> QED
  BY <1>1, <1>2, DueStays DEF Service!vars

LEMMA TickPasses ==
    ASSUME TypeInv, Tick
    PROVE  Service!Pass
<1>1. ticks' = ticks + 1 /\ UNCHANGED <<pc, p_next, repeat_period, end_val>>
  BY DEF Tick, RtcTick, irqVars, userVars
<1>2. \A u \in Timers : DueOf(u)' = DueOf(u)
  BY <1>1 DEF DueOf
<1> QED
  BY <1>1, <1>2, DueStays DEF Service!Pass

LEMMA InitServes ==
    ASSUME Init
    PROVE  Service!Init
<1>1. /\ pc = "idle" /\ end_val = [t \in Timers |-> Idle] /\ ticks = 0
      /\ repeat_period = [t \in Timers |-> IF t \in Repeated THEN 1 ELSE 0]
  BY DEF Init, RtcInit
<1>2. \A t \in Timers : DueOf(t) = Idle
  BY <1>1 DEF DueOf
<1>3. Due = [t \in Timers |-> Idle]
  BY <1>2, DueIs
<1> QED
  BY <1>1, <1>3 DEF Service!Init

\* Every step but that of the counter is one of the service, or none.
LEMMA StepServes ==
    ASSUME HandlersLeaveOwn, ~FullAPI, TypeInv, ClockIsRight, EndsInv, ListInv,
           [Next]_vars, ~Tick
    PROVE  Service!Next \/ UNCHANGED Service!vars
<1>1. ~app_timer_stop_all
  BY DEF app_timer_stop_all
<1>2. ~ReqStopAll
  <2> SUFFICES ASSUME ReqStopAll PROVE FALSE
    OBVIOUS
  <2>1. Head(m_req_fifo) \in UserRequests /\ Head(m_req_fifo).type = "STOP_ALL"
    BY Handling DEF ReqStopAll, TakeRequest, ListInv, ListTypes
  <2> QED
    BY <2>1 DEF UserRequests
<1>3. CASE \E t \in Timers : \E d \in Delays : app_timer_start(t, d)
  BY <1>3, StartServes
<1>4. CASE \E t \in Timers : app_timer_stop(t)
  BY <1>4, StopServes
<1>5. CASE ReqStart \/ ReqStop \/ UpdateDrop \/ (UpdateActivate /\ pc' = "window") \/ Passes
  BY <1>5, InnerServes
<1>6. CASE \E t, list, next : Calling(t, list, next)
  BY <1>6, CallServes
<1>7. CASE HandlerReturn
  BY <1>7, ReturnServes
<1> QED
  BY <1>1, <1>2, <1>3, <1>4, <1>5, <1>6, <1>7, StepCases

\* A timer that was started and not stopped expires once, or once per period, and
\* never before it is due, however many timers there are.
THEOREM TimersExpireOnce ==
    ASSUME HandlersLeaveOwn, ~FullAPI, ~MayOverflow
    PROVE  Spec => Service!LateSpec
<1>1. Init => Service!Init
  BY InitServes
<1>2. ASSUME TypeInv, ClockIsRight, EndsInv, ListInv, [Next]_vars
      PROVE  [Service!Pass \/ Service!Next]_Service!vars
  BY <1>2, StepServes, TickPasses
<1> QED
  BY <1>1, <1>2, TypeInvariant, ClockCorrect, EndsInvariant, ListInvariant, PTL
     DEF Spec, Service!LateSpec
=============================================================================
