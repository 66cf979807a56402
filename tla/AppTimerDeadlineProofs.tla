----------------------- MODULE AppTimerDeadlineProofs -----------------------
(***************************************************************************)
(* Proofs about AppTimer for any instance: no timer is late.               *)
(*                                                                         *)
(* The compare register holds a value of a counter that wraps, and the     *)
(* list is sorted by ends that may change while a timer is in it.  So the  *)
(* deadline rests on two facts: the register is set for a tick, of all     *)
(* that have its value, which is not later than any timer that waits; and  *)
(* the first of the list is the first to end.  The second holds for two    *)
(* timers, which is what the program has; with more it is an assumption.   *)
(***************************************************************************)
EXTENDS AppTimerServiceProofs

-----------------------------------------------------------------------------
(***************************************************************************)
(* The counter and the time.                                               *)
(***************************************************************************)

LEMMA Divides ==
    \A a \in Int : /\ a \div CounterMod \in Int /\ a % CounterMod \in 0 .. MaxCnt
                   /\ a = CounterMod * (a \div CounterMod) + (a % CounterMod)
BY CounterModAssumption DEF MaxCnt

LEMMA TheRest ==
    ASSUME NEW a \in Int, NEW q \in Int, NEW r \in 0 .. MaxCnt, a = CounterMod * q + r
    PROVE  a % CounterMod = r
<1>1. PICK p \in Int : p = a \div CounterMod /\ a = CounterMod * p + (a % CounterMod)
  BY Divides
<1>2. PICK s \in Int : s = a % CounterMod /\ 0 <= s /\ s < CounterMod /\ 0 <= r /\ r < CounterMod
  BY Divides, CounterModAssumption DEF MaxCnt
<1>3. CounterMod * (p - q) = r - s /\ CounterMod \in Nat /\ CounterMod > 2
  BY <1>1, <1>2, CounterModAssumption
<1>4. CASE p - q >= 1
  <2>1. CounterMod * (p - q) >= CounterMod
    BY <1>3, <1>4
  <2> QED
    BY <1>2, <1>3, <2>1
<1>5. CASE p - q <= -1
  <2>1. CounterMod * (p - q) <= -CounterMod
    BY <1>3, <1>5
  <2> QED
    BY <1>2, <1>3, <2>1
<1> QED
  BY <1>1, <1>2, <1>4, <1>5, CounterModAssumption

LEMMA Turns ==
    ASSUME NEW a \in Int, NEW q \in Int
    PROVE  (a + CounterMod * q) % CounterMod = a % CounterMod
<1>1. /\ a = CounterMod * (a \div CounterMod) + (a % CounterMod)
      /\ a \div CounterMod \in Int /\ a % CounterMod \in 0 .. MaxCnt
  BY Divides
<1>2. /\ a + CounterMod * q = CounterMod * ((a \div CounterMod) + q) + (a % CounterMod)
      /\ a + CounterMod * q \in Int /\ (a \div CounterMod) + q \in Int
  BY <1>1, CounterModAssumption
<1> QED
  BY <1>1, <1>2, TheRest

\* What is added to a remainder, or taken from it, is as good as added to the number.
LEMMA RestOfSum ==
    \A a, b \in Int : ((a % CounterMod) + b) % CounterMod = (a + b) % CounterMod
<1> SUFFICES ASSUME NEW a \in Int, NEW b \in Int
             PROVE  ((a % CounterMod) + b) % CounterMod = (a + b) % CounterMod
  OBVIOUS
<1>1. PICK q \in Int : a = CounterMod * q + (a % CounterMod)
  BY Divides
<1>2. PICK r \in Int : r = a % CounterMod
  BY Divides, CounterModAssumption DEF MaxCnt
<1>3. a = CounterMod * q + r
  BY <1>1, <1>2
<1>4. a + b = (r + b) + CounterMod * q /\ r + b \in Int
  BY <1>3, CounterModAssumption
<1>5. (a + b) % CounterMod = (r + b) % CounterMod
  BY <1>4, Turns
<1> QED
  BY <1>2, <1>5

LEMMA RestOfDifference ==
    \A a, b \in Int : (a - (b % CounterMod)) % CounterMod = (a - b) % CounterMod
<1> SUFFICES ASSUME NEW a \in Int, NEW b \in Int
             PROVE  (a - (b % CounterMod)) % CounterMod = (a - b) % CounterMod
  OBVIOUS
<1>1. PICK q \in Int : b = CounterMod * q + (b % CounterMod)
  BY Divides
<1>2. b % CounterMod \in Int
  BY Divides, CounterModAssumption DEF MaxCnt
<1>3. a - (b % CounterMod) = (a - b) + CounterMod * q
  BY <1>1, <1>2, CounterModAssumption
<1> QED
  BY <1>2, <1>3, Turns

LEMMA SmallRest ==
    ASSUME NEW a \in Int, -CounterMod <= a, a < CounterMod
    PROVE  a % CounterMod = IF a >= 0 THEN a ELSE a + CounterMod
<1>1. CounterMod \in Nat /\ MaxCnt = CounterMod - 1
  BY CounterModAssumption DEF MaxCnt
<1>2. CASE a >= 0
  <2>1. a \in 0 .. MaxCnt /\ a = CounterMod * 0 + a
    BY <1>1, <1>2
  <2> QED
    BY <1>2, <2>1, TheRest
<1>3. CASE a < 0
  <2>1. a + CounterMod \in 0 .. MaxCnt /\ a = CounterMod * (-1) + (a + CounterMod)
    BY <1>1, <1>3
  <2> QED
    BY <1>3, <2>1, TheRest
<1> QED
  BY <1>2, <1>3

\* Two times less than a period apart are the same when the counter is.
LEMMA Apart ==
    ASSUME NEW a \in Int, NEW b \in Int, a < b, b - a < CounterMod
    PROVE  a % CounterMod # b % CounterMod
<1>1. CounterMod \in Nat /\ b - a \in 1 .. CounterMod - 1
  BY CounterModAssumption
<1>2. (b - (a % CounterMod)) % CounterMod = b - a
  <2>1. (b - a) % CounterMod = b - a
    BY <1>1, SmallRest
  <2> QED
    BY <2>1, RestOfDifference
<1>3. ASSUME a % CounterMod = b % CounterMod PROVE FALSE
  <2>1. (b - (b % CounterMod)) % CounterMod = 0
    <3>1. (b - b) % CounterMod = 0
      BY <1>1, SmallRest
    <3> QED
      BY <3>1, RestOfDifference
  <2> QED
    BY <1>1, <1>2, <1>3, <2>1
<1> QED
  BY <1>3

\* The distance of two values of the counter is that of the times.
LEMMA TimesApart ==
    ASSUME NEW a \in Int, NEW b \in Int, NEW c \in Int,
           -CounterMod <= a + c - b, a + c - b < CounterMod
    PROVE  ticks_sub((a % CounterMod) + c, b % CounterMod)
             = IF a + c - b >= 0 THEN a + c - b ELSE a + c - b + CounterMod
<1>1. PICK r \in Int : r = a % CounterMod
  BY Divides, CounterModAssumption DEF MaxCnt
<1>2. PICK m \in Int : m = r + c
  BY <1>1
<1>3. PICK d \in Int : d = a + c - b
  OBVIOUS
<1>4. (m - (b % CounterMod)) % CounterMod = (m - b) % CounterMod
  BY RestOfDifference
<1>5. (r + (c - b)) % CounterMod = (a + (c - b)) % CounterMod
  <2>1. ((a % CounterMod) + (c - b)) % CounterMod = (a + (c - b)) % CounterMod
    BY RestOfSum
  <2> QED
    BY <1>1, <2>1
<1>6. r + (c - b) = m - b /\ a + (c - b) = d
  BY <1>2, <1>3
<1>7. d % CounterMod = IF d >= 0 THEN d ELSE d + CounterMod
  BY <1>3, SmallRest
<1>8. ticks_sub(m, b % CounterMod) = IF d >= 0 THEN d ELSE d + CounterMod
  BY <1>4, <1>5, <1>6, <1>7 DEF ticks_sub
<1> QED
  BY <1>1, <1>2, <1>3, <1>8

\* COUNTER counts the ticks, and the driver never leaves a compare value just ahead
\* of it.
CountInv == counter = ticks % CounterMod /\ ~near

LEMMA TickCounts ==
    ASSUME TypeInv, CountInv, Tick
    PROVE  CountInv'
<1>1. /\ counter \in 0 .. MaxCnt /\ ticks \in Nat /\ counter = ticks % CounterMod
      /\ counter' = IF counter = MaxCnt THEN 0 ELSE counter + 1
      /\ ticks' = ticks + 1 /\ ~near'
      /\ CounterMod \in Nat /\ MaxCnt = CounterMod - 1 /\ MaxCnt > 0
  BY CounterModAssumption DEF TypeInv, TypeOK, RtcTypeOK, Tick, RtcTick, CountInv, MaxCnt
<1>2. (ticks + 1) % CounterMod = (counter + 1) % CounterMod
  BY <1>1, RestOfSum
<1>3. CASE counter = MaxCnt
  <2>1. counter + 1 = CounterMod * 1 + 0 /\ 0 \in 0 .. MaxCnt /\ counter + 1 \in Int
    BY <1>1, <1>3
  <2>2. (counter + 1) % CounterMod = 0
    BY <2>1, TheRest
  <2> QED
    BY <1>1, <1>2, <1>3, <2>2 DEF CountInv
<1>4. CASE counter # MaxCnt
  <2>1. (counter + 1) % CounterMod = counter + 1
    BY <1>1, <1>4, SmallRest
  <2> QED
    BY <1>1, <1>2, <1>4, <2>1 DEF CountInv
<1> QED
  BY <1>3, <1>4

\* A value is one ahead only if it was written so.
LEMMA NotNear ==
    ASSUME TypeInv, NEW n \in 0 .. MaxCnt
    PROVE  /\ ticks_sub(n, counter) = 1 <=> ticks_sub(n - 1, counter) = 0
           /\ ticks_sub(n, counter) = 1 => ticks_sub(n + 1, counter) = 2
           /\ ticks_sub(n - 1, counter) = 0 => ~WindowMissed(n)
<1>1. /\ counter \in 0 .. MaxCnt /\ CounterMod \in Nat /\ CounterMod > 2 /\ MaxCnt = CounterMod - 1
      /\ SafeWindow \in 1 .. CounterMod - 2
  BY CounterModAssumption, SafeWindowAssumption DEF TypeInv, TypeOK, RtcTypeOK, MaxCnt
<1>2. \A m \in {n - 1, n} :
         -CounterMod <= m - counter /\ m - counter < CounterMod /\ m - counter \in Int
  BY <1>1
<1>3. \A m \in {n - 1, n} :
         ticks_sub(m, counter) = IF m - counter >= 0 THEN m - counter ELSE m - counter + CounterMod
  BY <1>2, SmallRest DEF ticks_sub
<1>4. ticks_sub(n, counter) = 1 <=> ticks_sub(n - 1, counter) = 0
  BY <1>1, <1>3
<1>5. ASSUME ticks_sub(n, counter) = 1 PROVE ticks_sub(n + 1, counter) = 2
  <2>1. n - counter = 1 \/ n - counter = 1 - CounterMod
    BY <1>1, <1>3, <1>5
  <2>2. n + 1 - counter \in Int /\ -CounterMod <= n + 1 - counter /\ n + 1 - counter < CounterMod
    BY <1>1, <2>1
  <2>3. (n + 1 - counter) % CounterMod
           = IF n + 1 - counter >= 0 THEN n + 1 - counter ELSE n + 1 - counter + CounterMod
    BY <2>2, SmallRest
  <2> QED
    BY <1>1, <2>1, <2>3 DEF ticks_sub
<1> QED
  BY <1>1, <1>4, <1>5 DEF WindowMissed

\* COUNTER is the time, and compare values are written in time for the match.
THEOREM CountInvariant == Spec => []CountInv
<1>1. Init => CountInv
  <2>1. 0 % CounterMod = 0
    BY CounterModAssumption, SmallRest
  <2> QED
    BY <2>1 DEF Init, RtcInit, CountInv
<1>2. ASSUME TypeInv, WindowInv, CountInv, [Next]_vars PROVE CountInv'
  <2>0. cc_val \in 0 .. MaxCnt
    BY <1>2 DEF TypeInv, TypeOK
  <2>10. /\ ticks_sub(cc_val, counter) = 1 <=> ticks_sub(cc_val - 1, counter) = 0
         /\ ticks_sub(cc_val, counter) = 1 => ticks_sub(cc_val + 1, counter) = 2
         /\ ticks_sub(cc_val - 1, counter) = 0 => ~WindowMissed(cc_val)
    BY <1>2, <2>0, NotNear
  <2>1. CASE Tick
    BY <1>2, <2>1, TickCounts
  <2>2. CASE UNCHANGED <<counter, ticks, near, stale>>
    BY <1>2, <2>2 DEF CountInv
  <2>3. CASE Window
    <3>1. UNCHANGED <<counter, ticks>> /\ WindowOpen(cc_val, seen) /\ pc = "window"
      BY <2>3 DEF Window
    <3>2. ticks_sub(seen, counter) # 1
      <4>1. seen \in 0 .. MaxCnt /\ counter \in 0 .. MaxCnt /\ busy \in 0 .. Latency
        BY <1>2 DEF TypeInv, TypeOK, RtcTypeOK
      <4>2. ticks_sub(counter, seen) <= busy
        BY <1>2, <3>1 DEF WindowInv, Since
      <4>3. ticks_sub(counter, seen)
               = IF counter >= seen THEN counter - seen ELSE counter - seen + CounterMod
        BY <4>1, Distance
      <4>4. ticks_sub(seen, counter)
               = IF seen >= counter THEN seen - counter ELSE seen - counter + CounterMod
        BY <4>1, Distance
      <4>5. MaxCnt = CounterMod - 1 /\ CounterMod \in Nat
        BY CounterModAssumption DEF MaxCnt
      <4> QED
        BY <4>1, <4>2, <4>3, <4>4, <4>5, LatencyBounds
    <3>3. ASSUME ticks_sub(cc_val, counter) = 1 PROVE near' = FALSE
      <4>1. near' = (ticks_sub(cc_val + 1, counter) = 1)
        BY <3>1, <3>3 DEF WindowOpen, CcWrite
      <4>2. ticks_sub(cc_val + 1, counter) # 1
        BY <2>10, <3>3
      <4> QED
        BY <4>1, <4>2
    <3>5. ASSUME ticks_sub(cc_val, counter) # 1 PROVE near' = FALSE
      <4>1. near' = (ticks_sub(seen, counter) = 1)
        BY <3>1, <3>5 DEF WindowOpen, CcWrite
      <4> QED
        BY <3>2, <4>1
    <3>4. ~near'
      BY <3>3, <3>5
    <3> QED
      BY <1>2, <3>1, <3>4 DEF CountInv
  <2>4. CASE Write
    <3>1. UNCHANGED <<counter, ticks>>
      BY <2>4 DEF Write, WindowVars
    <3>2. \/ WindowClose(cc_val) /\ CcWrite(cc_val + 1)
          \/ (WindowMissed(cc_val) \/ ~WindowClose(cc_val)) /\ CcWrite(cc_val)
      BY <2>4 DEF Write
    <3>3. \/ near' = (ticks_sub(cc_val + 1, counter) = 1) /\ ticks_sub(cc_val + 1, counter) # 1
          \/ near' = (ticks_sub(cc_val, counter) = 1) /\ ticks_sub(cc_val, counter) # 1
      BY <2>10, <3>2 DEF CcWrite, WindowClose
    <3>5. near' = FALSE
      BY <3>3
    <3>4. ~near'
      BY <3>5
    <3> QED
      BY <1>2, <3>1, <3>4 DEF CountInv
  <2>5. CASE Check \/ HandlerReturn \/ Update
    BY <2>2, <2>5 DEF Check, WindowVars, HandlerReturn, rtcVars, Update, UpdateDrop, UpdateEmpty,
                      UpdateKeep, UpdateActivate
  <2>6. CASE API \/ UNCHANGED vars
    BY <2>2, <2>6 DEF API, app_timer_start, app_timer_stop, app_timer_stop_all, Pause, Resume,
                      vars, rtcVars
  <2>7. CASE on_overflow_evt \/ on_compare_evt \/ on_compare1_evt \/ Request
    BY <2>2, <2>7 DEF on_overflow_evt, on_compare_evt, on_compare1_evt, Request, ReqStart, ReqStop,
                      ReqStopAll, ReqDone, TakeRequest, ReqVars, rtcVars
  <2> QED
    BY <1>2, <2>1, <2>3, <2>4, <2>5, <2>6, <2>7 DEF Next, rtc_irq
<1> QED
  BY <1>1, <1>2, TypeInvariant, WindowInvariant, PTL DEF Spec

-----------------------------------------------------------------------------
(***************************************************************************)
(* The deadline.                                                           *)
(***************************************************************************)

\* A timer that runs, and of which nothing is requested any more.
Settled(t) == end_val[t] # Idle /\ FreeOf(m_req_fifo, t)

\* The timer that is scheduled is none that should come after another: the list is
\* sorted as far as its first timer is concerned.
CandidateFirst ==
    pc = "update" /\ m_app_timer_sortlist # <<>> /\ end_val[Candidate] # Idle =>
        \A t \in Timers : Settled(t) /\ InList(t) => end_val[Candidate] <= end_val[t]

\* The compare register is set for the tick at.  The match is to come, or was seen
\* at most an interrupt before the handler started, or after it looked for it.
Armed(at) ==
    /\ cc0 = at % CounterMod
    /\ ~Matched => ticks < at /\ at <= ticks + MaxCnt
    /\ Matched => /\ at <= ticks /\ ticks <= at + Latency + busy
                  /\ pc \in After => ticks < at + busy

\* The timers that the match is for: the active one, and those listed, unless they
\* were listed just now.
Awaits(t) ==
    /\ Settled(t)
    /\ t = mp_active_timer \/ (InList(t) /\ pc \in Before \cup {"compare1"})

ArmedInv ==
    mp_active_timer # None /\ pc \in Before \cup After =>
        \E at \in Nat : /\ Armed(at)
                        /\ \A t \in Timers : Awaits(t) => at <= end_val[t] + 1

\* The compare value that is being written is that of the tick at, which is not far
\* ahead, not long past, and not later than any timer that is waiting.
AimedAt(at) ==
    /\ cc_val = at % CounterMod
    /\ at <= ticks + (MaxCnt - SafeWindow)
    /\ ticks <= at + busy
    /\ pc = "check" /\ counter = seen => at = ticks + 1 /\ cc0 = (at + 1) % CounterMod

AimedInv ==
    pc \in Moving =>
        \E at \in Nat : /\ AimedAt(at)
                        /\ \A t \in Timers :
                              t = p_next \/ (Settled(t) /\ InList(t)) => at <= end_val[t]

\* Without an active timer there is none in the list when the handler has returned,
\* and with one there is no request left when the list is looked at.
PlacesInv ==
    /\ pc = "idle" /\ mp_active_timer = None => m_app_timer_sortlist = <<>>
    /\ pc = "update" /\ mp_active_timer # None => m_req_fifo = <<>>

\* No timer is late.
ServedInv == \A t \in Timers : Settled(t) => ticks <= end_val[t] + Latency + busy

TimedInv == ServedInv /\ PlacesInv /\ ArmedInv /\ AimedInv

LEMMA TimedTypes ==
    ASSUME TypeInv
    PROVE  /\ ticks \in Nat /\ busy \in 0 .. Latency /\ Latency \in Nat
           /\ end_val \in [Timers -> Nat] /\ Idle \in Nat
           /\ counter \in 0 .. MaxCnt /\ seen \in 0 .. MaxCnt
           /\ CounterMod \in Nat /\ MaxCnt = CounterMod - 1 /\ MaxCnt \in Nat
           /\ SafeWindow \in Nat /\ 2 * Latency < SafeWindow /\ SafeWindow <= CounterMod - 2
<1>1. /\ ticks \in Nat /\ busy \in 0 .. Latency /\ end_val \in [Timers -> Nat]
      /\ counter \in 0 .. MaxCnt /\ seen \in 0 .. MaxCnt
  BY DEF TypeInv, TypeOK, RtcTypeOK
<1>2. Idle \in Nat
  BY BoundsAssumption
<1>3. MaxCnt = CounterMod - 1 /\ MaxCnt \in Nat
  BY CounterModAssumption DEF MaxCnt
<1> QED
  BY <1>1, <1>2, <1>3, LatencyBounds

LEMMA SettledOrAsked ==
    ASSUME OnceInv, NEW t \in Timers, end_val[t] # Idle
    PROVE  Settled(t) \/ LastIs(m_req_fifo, "START", t)
BY DEF OnceInv, Settled

\* A settled timer is in its place.
LEMMA SettledKept ==
    ASSUME ListInv, NEW t \in Timers, Settled(t)
    PROVE  /\ Kept(t)
           /\ Leaving /\ mp_active_timer = t => InList(t) \/ p_next = t
<1>1. ~Asked(t)
  BY DEF Asked, Settled, FreeOf
<1> QED
  BY <1>1 DEF ListInv, RunningInv, ReplacedInv, Settled

\* Steps that leave the compare register and the waiting timers alone.
LEMMA ArmedStays ==
    ASSUME ArmedInv, pc \in Before \cup After, UNCHANGED mp_active_timer,
           \A at \in Nat : mp_active_timer # None /\ Armed(at) => Armed(at)',
           \A t \in Timers : Awaits(t)' => Awaits(t) /\ end_val'[t] = end_val[t]
    PROVE  ArmedInv'
<1> SUFFICES ASSUME mp_active_timer # None
             PROVE  \E at \in Nat : /\ Armed(at)'
                                    /\ \A t \in Timers : Awaits(t)' => at <= end_val'[t] + 1
  BY DEF ArmedInv
<1>1. PICK at \in Nat : /\ Armed(at)
                        /\ \A t \in Timers : Awaits(t) => at <= end_val[t] + 1
  BY DEF ArmedInv
<1> QED
  BY <1>1

-----------------------------------------------------------------------------
(***************************************************************************)
(* A tick.                                                                 *)
(***************************************************************************)

LEMMA TickPlaces ==
    ASSUME TypeInv, Tick
    PROVE  /\ UNCHANGED <<pc, p_next, cc_val, seen, cc0, mp_active_timer, m_app_timer_sortlist,
                          m_req_fifo, end_val, inten0>>
           /\ ticks' = ticks + 1
           /\ RtcPending \/ pc # "idle" => busy' = busy + 1
           /\ busy' \in 0 .. Latency
           /\ \A t : (Settled(t)' <=> Settled(t)) /\ (InList(t)' <=> InList(t))
<1>1. /\ UNCHANGED <<pc, p_next, cc_val, seen, cc0, mp_active_timer, m_app_timer_sortlist,
                     m_req_fifo, end_val, inten0>>
      /\ ticks' = ticks + 1
      /\ IF RtcPending \/ pc # "idle" THEN busy < Latency /\ busy' = busy + 1 ELSE busy' = 0
  BY DEF Tick, RtcTick, irqVars, userVars, listVars
<1>2. \A t : (Settled(t)' <=> Settled(t)) /\ (InList(t)' <=> InList(t))
  BY <1>1 DEF Settled, InList
<1> QED
  BY <1>1, <1>2, TimedTypes

LEMMA TickServed ==
    ASSUME TypeInv, ListInv, WindowInv, TimedInv, Latency > 0, Tick
    PROVE  ServedInv'
<1>1. /\ UNCHANGED <<pc, mp_active_timer, end_val>> /\ ticks' = ticks + 1
      /\ RtcPending \/ pc # "idle" => busy' = busy + 1
      /\ busy' \in 0 .. Latency
      /\ \A t : Settled(t)' <=> Settled(t)
  BY TickPlaces
<1>2. PICK b \in Nat : b = busy'
  BY <1>1, TimedTypes
<1>3. ASSUME NEW t \in Timers, Settled(t)
      PROVE  ticks + 1 <= end_val[t] + Latency + b
  <2>1. /\ ticks \in Nat /\ busy \in Nat /\ Latency \in Nat /\ end_val[t] \in Nat
        /\ ticks <= end_val[t] + Latency + busy
    BY <1>3, TimedTypes DEF TimedInv, ServedInv
  <2>2. CASE RtcPending \/ pc # "idle"
    BY <1>1, <1>2, <2>1, <2>2
  <2>3. CASE ~RtcPending /\ pc = "idle"
    <3>1. Kept(t) /\ p_next = None
      BY <1>3, <2>3, SettledKept DEF TypeInv, Leaving
    <3>2. InList(t) \/ mp_active_timer = t
      BY <3>1, TimersAssumption DEF Kept
    <3>3. mp_active_timer # None
      <4>1. mp_active_timer = None => ~InList(t)
        BY <2>3 DEF TimedInv, PlacesInv, InList, Contains
      <4> QED
        BY <3>2, <4>1, TimersAssumption
    <3>4. Awaits(t)
      BY <1>3, <2>3, <3>2 DEF Awaits, Before
    <3>5. PICK at \in Nat : Armed(at) /\ at <= end_val[t] + 1
      BY <2>3, <3>3, <3>4 DEF TimedInv, ArmedInv, Before
    <3>6. ~Matched
      BY <2>3, <3>3 DEF WindowInv, RtcPending, Matched, Before
    <3>7. ticks < at
      BY <3>5, <3>6 DEF Armed
    <3> QED
      BY <1>2, <2>1, <3>5, <3>7
  <2> QED
    BY <2>2, <2>3
<1> QED
  BY <1>1, <1>2, <1>3 DEF ServedInv

LEMMA TickArmed ==
    ASSUME TypeInv, WindowInv, CountInv, TimedInv, Tick
    PROVE  ArmedInv'
<1>1. /\ UNCHANGED <<pc, cc0, mp_active_timer, end_val, inten0>> /\ ticks' = ticks + 1
      /\ RtcPending \/ pc # "idle" => busy' = busy + 1
      /\ busy' \in 0 .. Latency
      /\ \A t : (Settled(t)' <=> Settled(t)) /\ (InList(t)' <=> InList(t))
  BY TickPlaces
<1>2. /\ ticks \in Nat /\ busy \in Nat /\ Latency \in Nat
      /\ CounterMod \in Nat /\ MaxCnt = CounterMod - 1 /\ MaxCnt \in Nat
  BY TimedTypes
<1> SUFFICES ASSUME mp_active_timer # None, pc \in Before \cup After
             PROVE  ArmedInv'
  BY <1>1 DEF ArmedInv
<1>3. inten0
  BY DEF WindowInv
<1>4. Matched' <=> Matched \/ counter' = cc0
  BY <1>3 DEF Tick, RtcTick, CountInv, Matched
<1>5. counter' = (ticks + 1) % CounterMod
  BY <1>1, TickCounts DEF CountInv
<1>6. PICK b \in Nat : b = busy'
  BY <1>1, <1>2
<1>7. ASSUME NEW at \in Nat, Armed(at) PROVE Armed(at)'
  <2>1. CASE Matched
    <3>1. RtcPending /\ Matched'
      BY <1>3, <1>4, <2>1 DEF RtcPending, Matched
    <3>2. b = busy + 1
      BY <1>1, <1>6, <3>1
    <3>3. at <= ticks + 1 /\ ticks + 1 <= at + Latency + b /\ (pc \in After => ticks + 1 < at + b)
      BY <1>2, <1>7, <2>1, <3>2 DEF Armed
    <3> QED
      BY <1>1, <1>6, <1>7, <3>1, <3>3 DEF Armed
  <2>2. CASE ~Matched
    <3>1. cc0 = at % CounterMod /\ ticks < at /\ at <= ticks + MaxCnt
      BY <1>7, <2>2 DEF Armed
    <3>2. counter' = cc0 <=> at = ticks + 1
      <4>1. PICK next \in Int : next = ticks + 1
        BY <1>2
      <4>2. at # next => next < at /\ at - next < CounterMod
        BY <1>2, <3>1, <4>1
      <4>3. at # next => next % CounterMod # at % CounterMod
        <5> SUFFICES ASSUME at # next PROVE next % CounterMod # at % CounterMod
          OBVIOUS
        <5>1. at \in Int /\ next < at /\ at - next < CounterMod
          BY <4>2
        <5> QED
          BY <5>1, Apart
      <4> QED
        BY <1>5, <3>1, <4>1, <4>3
    <3>3. CASE at = ticks + 1
      <4>1. Matched'
        BY <1>4, <3>2, <3>3
      <4>2. pc \in After => b = busy + 1
        BY <1>1, <1>6 DEF After
      <4>3. at <= ticks + 1 /\ ticks + 1 <= at + Latency + b /\ (pc \in After => ticks + 1 < at + b)
        BY <1>2, <3>3, <4>2
      <4> QED
        BY <1>1, <1>6, <3>1, <4>1, <4>3 DEF Armed
    <3>4. CASE at # ticks + 1
      <4>1. ~Matched'
        BY <1>4, <2>2, <3>2, <3>4
      <4>2. ticks + 1 < at /\ at <= (ticks + 1) + MaxCnt
        BY <1>2, <3>1, <3>4
      <4> QED
        BY <1>1, <3>1, <4>1, <4>2 DEF Armed
    <3> QED
      BY <3>3, <3>4
  <2> QED
    BY <2>1, <2>2
<1>8. \A t \in Timers : Awaits(t)' => Awaits(t) /\ end_val'[t] = end_val[t]
  BY <1>1 DEF Awaits
<1> QED
  BY <1>1, <1>7, <1>8, ArmedStays DEF TimedInv

LEMMA TickAimed ==
    ASSUME TypeInv, WindowInv, TimedInv, Tick
    PROVE  AimedInv'
<1>1. /\ UNCHANGED <<pc, p_next, cc_val, seen, end_val>> /\ ticks' = ticks + 1
      /\ RtcPending \/ pc # "idle" => busy' = busy + 1
      /\ \A t : (Settled(t)' <=> Settled(t)) /\ (InList(t)' <=> InList(t))
  BY TickPlaces
<1> SUFFICES ASSUME pc \in Moving PROVE AimedInv'
  BY <1>1 DEF AimedInv
<1>2. PICK at \in Nat : /\ AimedAt(at)
                        /\ \A t \in Timers :
                              t = p_next \/ (Settled(t) /\ InList(t)) => at <= end_val[t]
  BY DEF TimedInv, AimedInv
<1>3. /\ ticks \in Nat /\ busy \in 0 .. Latency /\ Latency \in Nat
      /\ CounterMod \in Nat /\ MaxCnt = CounterMod - 1 /\ SafeWindow \in Nat
      /\ 2 * Latency < SafeWindow /\ SafeWindow <= CounterMod - 2 /\ seen \in 0 .. MaxCnt
  BY TimedTypes
<1>4. busy' = busy + 1
  BY <1>1 DEF Moving
<1>5. at <= (ticks + 1) + (MaxCnt - SafeWindow) /\ ticks + 1 <= at + (busy + 1)
  BY <1>2, <1>3 DEF AimedAt
<1>6. pc = "check" => counter' # seen
  <2> SUFFICES ASSUME pc = "check" PROVE counter' # seen
    OBVIOUS
  <2>1. Since(seen) <= busy
    BY DEF WindowInv
  <2>2. busy \in Nat /\ busy < CounterMod - 1 /\ RtcTick
    BY <1>3 DEF Tick
  <2> QED
    BY <1>3, <2>1, <2>2, OneFurther
<1>7. AimedAt(at)'
  BY <1>1, <1>2, <1>4, <1>5, <1>6 DEF AimedAt
<1>8. \A t \in Timers : t = p_next' \/ (Settled(t)' /\ InList(t)') => at <= end_val'[t]
  BY <1>1, <1>2
<1> QED
  BY <1>7, <1>8 DEF AimedInv

LEMMA TickTimed ==
    ASSUME TypeInv, ListInv, WindowInv, CountInv, TimedInv, Latency > 0, Tick
    PROVE  TimedInv'
<1>1. PlacesInv'
  BY TickPlaces DEF TimedInv, PlacesInv
<1> QED
  BY <1>1, TickServed, TickArmed, TickAimed DEF TimedInv

-----------------------------------------------------------------------------
(***************************************************************************)
(* The calls of the API, and their requests.                               *)
(***************************************************************************)

LEMMA FreeAppended ==
    ASSUME NEW q \in Seq(Requests), NEW req \in Requests, NEW t, FreeOf(Append(q, req), t)
    PROVE  FreeOf(q, t) /\ req.timer # t
<1>1. /\ Len(q) \in Nat /\ Len(Append(q, req)) = Len(q) + 1
      /\ Append(q, req)[Len(q) + 1] = req
      /\ \A i \in 1 .. Len(q) : Append(q, req)[i] = q[i]
  BY Appended
<1>2. Len(q) + 1 \in 1 .. Len(Append(q, req))
      /\ \A i \in 1 .. Len(q) : i \in 1 .. Len(Append(q, req))
  BY <1>1
<1> QED
  BY <1>1, <1>2 DEF FreeOf

\* Steps between two runs of the handler, or in a timer's handler, that leave the
\* list and the compare register alone.
LEMMA OutsideTimed ==
    ASSUME TimedInv, pc \in {"idle", "handler"},
           UNCHANGED <<ticks, busy, cc0, compare0, early, pc, mp_active_timer, m_app_timer_sortlist>>,
           \A t \in Timers : Settled(t)' => Settled(t) /\ end_val'[t] = end_val[t]
    PROVE  TimedInv'
<1>1. ServedInv'
  BY DEF TimedInv, ServedInv
<1>2. PlacesInv'
  BY DEF TimedInv, PlacesInv
<1>3. ArmedInv'
  <2>1. CASE pc = "handler"
    BY <2>1 DEF ArmedInv, Before, After
  <2>2. CASE pc = "idle"
    <3>1. \A at \in Nat : Armed(at) => Armed(at)'
      BY DEF Armed, Matched
    <3>2. \A t \in Timers : Awaits(t)' => Awaits(t) /\ end_val'[t] = end_val[t]
      BY DEF Awaits, InList
    <3>3. pc \in Before \cup After
      BY <2>2 DEF Before
    <3> QED
      BY <3>1, <3>2, <3>3, ArmedStays DEF TimedInv
  <2> QED
    BY <2>1, <2>2
<1>4. AimedInv'
  BY DEF AimedInv, Moving
<1> QED
  BY <1>1, <1>2, <1>3, <1>4 DEF TimedInv

LEMMA StartTimed ==
    ASSUME TypeInv, OnceInv, TimedInv, ~MayOverflow,
           NEW t \in Timers, NEW d \in Delays, app_timer_start(t, d)
    PROVE  TimedInv'
<1> DEFINE req == [type |-> "START", timer |-> t]
<1>1. /\ pc \in {"idle", "handler"} /\ req \in Requests
      /\ UNCHANGED <<ticks, busy, cc0, compare0, early, pc, mp_active_timer, m_app_timer_sortlist>>
      /\ m_req_fifo' = Append(m_req_fifo, req)
      /\ m_req_fifo \in Seq(Requests)
  BY DEF app_timer_start, MayCall, timer_req_schedule, irqVars, listVars, Requests, TypeInv, TypeOK
<1>2. \A u \in Timers : u # t => end_val'[u] = end_val[u]
  BY DEF app_timer_start, TypeInv, TypeOK
<1>3. ASSUME NEW u \in Timers, Settled(u)' PROVE Settled(u) /\ end_val'[u] = end_val[u]
  <2>1. FreeOf(m_req_fifo, u) /\ u # t
    BY <1>1, <1>3, FreeAppended DEF Settled
  <2> QED
    BY <1>2, <1>3, <2>1 DEF Settled
<1> QED
  BY <1>1, <1>3, OutsideTimed

LEMMA StopTimed ==
    ASSUME TypeInv, OnceInv, TimedInv, ~MayOverflow, NEW t \in Timers, app_timer_stop(t)
    PROVE  TimedInv'
<1> DEFINE req == [type |-> "STOP", timer |-> t]
<1>1. /\ pc \in {"idle", "handler"} /\ req \in Requests
      /\ UNCHANGED <<ticks, busy, cc0, compare0, early, pc, mp_active_timer, m_app_timer_sortlist>>
      /\ m_req_fifo' = Append(m_req_fifo, req)
      /\ m_req_fifo \in Seq(Requests)
  BY DEF app_timer_stop, MayCall, timer_req_schedule, irqVars, listVars, Requests, TypeInv, TypeOK
<1>2. \A u \in Timers : u # t => end_val'[u] = end_val[u]
  BY DEF app_timer_stop, TypeInv, TypeOK
<1>3. ASSUME NEW u \in Timers, Settled(u)' PROVE Settled(u) /\ end_val'[u] = end_val[u]
  <2>1. FreeOf(m_req_fifo, u) /\ u # t
    BY <1>1, <1>3, FreeAppended DEF Settled
  <2> QED
    BY <1>2, <1>3, <2>1 DEF Settled
<1> QED
  BY <1>1, <1>3, OutsideTimed

\* A request that is handled: a timer that it starts is not due yet, and it is not
\* the active one.
LEMMA RequestTimed ==
    ASSUME TypeInv, RequestInv, OnceInv, TimedInv, ReqStart \/ ReqStop
    PROVE  TimedInv'
<1>1. /\ UNCHANGED <<ticks, busy, cc0, compare0, early, pc, end_val>>
      /\ pc = "req" /\ m_req_fifo # <<>> /\ m_req_fifo' = Tail(m_req_fifo)
      /\ mp_active_timer' \in {mp_active_timer, None}
  BY DEF ReqStart, ReqStop, TakeRequest, ReqVars, rtcVars
<1>2. m_req_fifo \in Seq(Requests)
  BY DEF TypeInv, TypeOK
<1>3. ASSUME NEW t \in Timers, Settled(t)'
      PROVE  \/ Settled(t)
             \/ LastIs(m_req_fifo, "START", t) /\ Head(m_req_fifo) = [type |-> "START", timer |-> t]
  <2>1. end_val[t] # Idle /\ FreeOf(Tail(m_req_fifo), t)
    BY <1>1, <1>3 DEF Settled
  <2>2. ~LastIs(Tail(m_req_fifo), "START", t)
    BY <2>1 DEF LastIs, FreeOf
  <2>3. Settled(t) \/ LastIs(m_req_fifo, "START", t)
    BY <2>1, SettledOrAsked
  <2> QED
    BY <1>1, <1>2, <2>2, <2>3, LastPopped
<1>4. ServedInv'
  <2> SUFFICES ASSUME NEW t \in Timers, Settled(t)'
               PROVE  ticks <= end_val[t] + Latency + busy
    BY <1>1 DEF ServedInv
  <2>1. CASE Settled(t)
    BY <2>1 DEF TimedInv, ServedInv
  <2>2. CASE LastIs(m_req_fifo, "START", t)
    <3>1. end_val[t] > ticks + Remaining
      BY <1>1, <2>2, AskedIsLast DEF RequestInv, Settled
    <3>2. end_val[t] \in Nat /\ Remaining \in Nat
      BY RemainingTyped, TimedTypes
    <3> QED
      BY <3>1, <3>2, TimedTypes
  <2> QED
    BY <1>3, <2>1, <2>2
<1>5. ArmedInv'
  <2>1. CASE mp_active_timer' = None
    BY <2>1 DEF ArmedInv
  <2>2. CASE mp_active_timer' # None
    <3>1. \A at \in Nat : Armed(at) => Armed(at)'
      BY <1>1 DEF Armed, Matched
    <3>2. UNCHANGED mp_active_timer /\ mp_active_timer # None /\ pc \in Before \cup After
      BY <1>1, <2>2 DEF After
    <3>3. \A t \in Timers : Awaits(t)' => t = mp_active_timer /\ Settled(t)'
      BY <1>1, <3>2 DEF Awaits, Before
    <3>4. ASSUME NEW t \in Timers, t = mp_active_timer, Settled(t)' PROVE Settled(t)
      <4>1. Present(t)
        BY <1>1, <3>4 DEF Present, Out
      <4>2. Alternates(m_req_fifo, t, TRUE)
        BY <4>1, AlternatesLess DEF OnceInv
      <4>3. Head(m_req_fifo) # [type |-> "START", timer |-> t]
        BY <1>1, <1>2, <4>2, AlternatesPopped
      <4> QED
        BY <1>3, <3>4, <4>3
    <3>5. \A t \in Timers : Awaits(t)' => Awaits(t) /\ end_val'[t] = end_val[t]
      BY <1>1, <3>3, <3>4 DEF Awaits
    <3> QED
      BY <3>1, <3>2, <3>5, ArmedStays DEF TimedInv
  <2> QED
    BY <2>1, <2>2
<1>6. PlacesInv' /\ AimedInv'
  BY <1>1 DEF PlacesInv, AimedInv, Moving
<1> QED
  BY <1>4, <1>5, <1>6 DEF TimedInv

-----------------------------------------------------------------------------
(***************************************************************************)
(* The handler goes from one part to the next.                             *)
(***************************************************************************)

\* The places from which a match is looked for before the list is looked at.
Ahead == Before \cup {"compare1"}

\* The handler goes on; the match, if any, stays as it is.
Continues ==
    /\ UNCHANGED <<ticks, busy, cc0, end_val, m_req_fifo, mp_active_timer>>
    /\ pc \in Before \cup After /\ pc' \in Before \cup After
    /\ pc' \in Ahead => pc \in Ahead /\ UNCHANGED m_app_timer_sortlist
    /\ pc' = "idle" => pc = "idle"
    /\ pc' = "update" /\ pc # "update" => m_req_fifo = <<>>
    /\ mp_active_timer # None =>
          (Matched' <=> Matched) /\ (pc' \in After /\ pc \notin After => ~Matched)

LEMMA ContinuesTimed ==
    ASSUME TypeInv, TimedInv, Continues
    PROVE  TimedInv'
<1>1. \A t : Settled(t)' <=> Settled(t)
  BY DEF Continues, Settled
<1>2. ServedInv'
  BY <1>1 DEF TimedInv, ServedInv, Continues
<1>3. PlacesInv'
  BY DEF TimedInv, PlacesInv, Continues, Ahead, Before
<1>4. \A at \in Nat : mp_active_timer # None /\ Armed(at) => Armed(at)'
  BY DEF Armed, Continues
<1>5. \A t \in Timers : Awaits(t)' => Awaits(t) /\ end_val'[t] = end_val[t]
  BY <1>1 DEF Awaits, InList, Continues, Ahead
<1>6. ArmedInv'
  BY <1>4, <1>5, ArmedStays DEF TimedInv, Continues
<1>7. AimedInv'
  BY DEF AimedInv, Continues, Moving, Before, After
<1> QED
  BY <1>2, <1>3, <1>6, <1>7 DEF TimedInv

\* The steps that only go on.
LEMMA GoOn ==
    ASSUME TypeInv,
           \/ on_overflow_evt \/ on_compare1_evt \/ ReqDone \/ UpdateDrop \/ Pause \/ Resume
           \/ on_compare_evt /\ ~(compare0 /\ mp_active_timer # None)
    PROVE  Continues
<1> USE DEF Continues, Ahead, Before, After, Matched
<1>1. CASE on_overflow_evt
  BY <1>1 DEF on_overflow_evt, userVars, listVars
<1>2. CASE on_compare1_evt
  BY <1>2 DEF on_compare1_evt, userVars, listVars
<1>3. CASE ReqDone
  BY <1>3 DEF ReqDone, ReqVars, rtcVars, userVars, listVars
<1>4. CASE UpdateDrop
  BY <1>4 DEF UpdateDrop, rtcVars, irqVars, userVars
<1>5. CASE Pause \/ Resume
  BY <1>5 DEF Pause, Resume, irqVars, userVars, listVars
<1>6. CASE on_compare_evt /\ ~(compare0 /\ mp_active_timer # None)
  BY <1>6 DEF on_compare_evt, TypeInv, TypeOK, RtcTypeOK
<1> QED
  BY <1>1, <1>2, <1>3, <1>4, <1>5, <1>6

\* The active timer has expired, or was put back, or its handler returns.
LEMMA LeavesTimed ==
    ASSUME TypeInv, TypeInv', TimedInv, UNCHANGED <<ticks, busy, m_req_fifo>>,
           pc' \in {"handler", "compare1", "update"},
           pc' # "handler" => mp_active_timer' = None,
           \A t \in Timers : end_val'[t] # Idle => end_val[t] # Idle /\ end_val'[t] >= end_val[t]
    PROVE  TimedInv'
<1>1. ASSUME NEW t \in Timers, Settled(t)'
      PROVE  ticks <= end_val'[t] + Latency + busy
  <2>1. Settled(t) /\ end_val'[t] >= end_val[t]
    BY <1>1 DEF Settled
  <2>2. ticks <= end_val[t] + Latency + busy
    BY <2>1 DEF TimedInv, ServedInv
  <2>3. PICK e \in Nat : e = end_val'[t]
    BY DEF TypeInv, TypeOK
  <2> QED
    BY <2>1, <2>2, <2>3, TimedTypes
<1>2. ServedInv'
  BY <1>1 DEF ServedInv
<1> QED
  BY <1>2 DEF TimedInv, PlacesInv, ArmedInv, AimedInv, Before, After, Moving

-----------------------------------------------------------------------------
(***************************************************************************)
(* The handler returns with the active timer it has.                       *)
(***************************************************************************)

\* What is known of the active timer when the list has been looked at.
LEMMA ActiveSoon ==
    ASSUME TypeInv, TimedInv, pc = "update", NEW t \in Timers, t = mp_active_timer, Settled(t)
    PROVE  ticks <= end_val[t] + Latency
<1>1. mp_active_timer # None /\ pc \in After /\ Awaits(t)
  BY TimersAssumption DEF Awaits, After
<1>2. PICK at \in Nat : Armed(at) /\ at <= end_val[t] + 1
  BY <1>1 DEF TimedInv, ArmedInv
<1>3. ticks < at + busy \/ ticks < at
  BY <1>1, <1>2 DEF Armed, Matched
<1>4. ticks \in Nat /\ busy \in 0 .. Latency /\ end_val[t] \in Nat /\ Latency \in Nat
  BY TimedTypes
<1> QED
  BY <1>2, <1>3, <1>4

\* A match that the handler has not looked at waits for the next run.
LEMMA ArmedReturns ==
    ASSUME TypeInv, pc \in After, pc' = "idle", busy' = 0, UNCHANGED <<ticks, cc0, compare0, early>>,
           NEW at \in Nat, Armed(at)
    PROVE  Armed(at)'
<1>1. ticks \in Nat /\ busy \in 0 .. Latency /\ Latency \in Nat
  BY TimedTypes
<1>2. Matched => ticks <= at + Latency + 0
  BY <1>1 DEF Armed
<1> QED
  BY <1>2 DEF Armed, Matched, After

LEMMA EmptyTimed ==
    ASSUME TypeInv, ListInv, TimedInv, UpdateEmpty
    PROVE  TimedInv'
<1>1. /\ UNCHANGED <<ticks, cc0, compare0, early, end_val, m_req_fifo, mp_active_timer,
                     m_app_timer_sortlist>>
      /\ pc = "update" /\ pc' = "idle" /\ busy' = 0 /\ m_app_timer_sortlist = <<>>
  BY DEF UpdateEmpty, IrqReturn, userVars, listVars
<1>2. \A t : (Settled(t)' <=> Settled(t)) /\ ~InList(t) /\ ~InList(t)'
  BY <1>1 DEF Settled, InList, Contains
<1>3. ServedInv'
  <2> SUFFICES ASSUME NEW t \in Timers, Settled(t)
               PROVE  ticks <= end_val[t] + Latency + 0
    BY <1>1, <1>2 DEF ServedInv
  <2>1. p_next = None /\ t # None
    BY <1>1, TimersAssumption DEF TypeInv, Leaving
  <2>2. t = mp_active_timer
    BY <1>2, <2>1, SettledKept DEF Kept
  <2>3. ticks <= end_val[t] + Latency
    BY <1>1, <2>2, ActiveSoon
  <2> QED
    BY <2>3, TimedTypes
<1>4. ArmedInv'
  <2>1. \A at \in Nat : Armed(at) => Armed(at)'
    BY <1>1, ArmedReturns DEF After
  <2>2. \A t \in Timers : Awaits(t)' => Awaits(t) /\ end_val'[t] = end_val[t]
    BY <1>1, <1>2 DEF Awaits
  <2>3. pc \in Before \cup After
    BY <1>1 DEF After
  <2> QED
    BY <1>1, <2>1, <2>2, <2>3, ArmedStays DEF TimedInv
<1>5. PlacesInv' /\ AimedInv'
  BY <1>1 DEF PlacesInv, AimedInv, Moving
<1> QED
  BY <1>3, <1>4, <1>5 DEF TimedInv

\* No timer of the list comes before the active one.
LEMMA KeepTimed ==
    ASSUME TypeInv, EndsInv, ListInv, OnceInv, TimedInv, CandidateFirst, UpdateKeep
    PROVE  TimedInv'
<1>1. /\ UNCHANGED <<ticks, cc0, compare0, early, end_val, m_req_fifo, mp_active_timer,
                     m_app_timer_sortlist>>
      /\ pc = "update" /\ pc' = "idle" /\ busy' = 0 /\ m_app_timer_sortlist # <<>>
      /\ end_val[Candidate] # Idle /\ ~Preempts
  BY DEF UpdateKeep, IrqReturn, userVars, listVars, rtcVars
<1>2. \A t : (Settled(t)' <=> Settled(t)) /\ (InList(t)' <=> InList(t))
  BY <1>1 DEF Settled, InList
<1>3. PICK c \in Timers : c = Candidate
  BY <1>1, Shortened DEF Candidate, TypeInv, TypeOK
<1>4. PICK a \in Timers : a = mp_active_timer /\ ~(end_val[c] < end_val[a])
  BY <1>1, <1>3 DEF Preempts, TypeInv, TypeOK
<1>5. Settled(a) /\ end_val[a] <= end_val[c] /\ end_val[a] \in Nat /\ end_val[c] \in Nat
  <2>1. end_val[a] <= end_val[c] /\ end_val[a] \in Nat /\ end_val[c] \in Nat /\ Idle \in Nat
    BY <1>4, TimedTypes
  <2>2. end_val[c] < Idle
    BY <1>1, <1>3, EndBelowIdle
  <2>3. end_val[a] # Idle
    BY <2>1, <2>2
  <2>4. mp_active_timer # None
    BY <1>4, TimersAssumption
  <2>5. m_req_fifo = <<>>
    BY <1>1, <2>4 DEF TimedInv, PlacesInv
  <2> QED
    BY <2>1, <2>3, <2>5 DEF Settled, FreeOf
<1>6. ASSUME NEW t \in Timers, Settled(t), t = a \/ InList(t)
      PROVE  end_val[a] <= end_val[t] /\ end_val[t] \in Nat
  <2>1. end_val[t] \in Nat
    BY TimedTypes
  <2>2. InList(t) => end_val[c] <= end_val[t]
    BY <1>1, <1>3, <1>6 DEF CandidateFirst
  <2> QED
    BY <1>5, <1>6, <2>1, <2>2
<1>7. ServedInv'
  <2> SUFFICES ASSUME NEW t \in Timers, Settled(t)
               PROVE  ticks <= end_val[t] + Latency + 0
    BY <1>1, <1>2 DEF ServedInv
  <2>1. p_next = None /\ t # None
    BY <1>1, TimersAssumption DEF TypeInv, Leaving
  <2>2. t = a \/ InList(t)
    BY <1>4, <2>1, SettledKept DEF Kept
  <2>3. end_val[a] <= end_val[t] /\ end_val[t] \in Nat
    BY <1>6, <2>2
  <2>4. ticks <= end_val[a] + Latency
    BY <1>1, <1>4, <1>5, ActiveSoon
  <2> QED
    BY <1>5, <2>3, <2>4, TimedTypes
<1>8. ArmedInv'
  <2>1. mp_active_timer # None /\ pc \in Before \cup After /\ Awaits(a)
    BY <1>1, <1>4, <1>5, TimersAssumption DEF Awaits, After
  <2>2. PICK at \in Nat : Armed(at) /\ at <= end_val[a] + 1
    BY <2>1 DEF TimedInv, ArmedInv
  <2>3. Armed(at)'
    BY <1>1, <2>2, ArmedReturns DEF After
  <2>4. ASSUME NEW t \in Timers, Awaits(t)' PROVE at <= end_val'[t] + 1
    <3>1. Settled(t) /\ (t = a \/ InList(t))
      BY <1>1, <1>2, <1>4, <2>4 DEF Awaits
    <3>2. end_val[a] <= end_val[t] /\ end_val[t] \in Nat
      BY <1>6, <3>1
    <3>3. at <= end_val[t] + 1
      BY <1>5, <2>2, <3>2
    <3> QED
      BY <1>1, <3>3
  <2> QED
    BY <2>3, <2>4 DEF ArmedInv
<1>9. PlacesInv' /\ AimedInv'
  BY <1>1, <1>4, TimersAssumption DEF PlacesInv, AimedInv, Moving
<1> QED
  BY <1>7, <1>8, <1>9 DEF TimedInv

-----------------------------------------------------------------------------
(***************************************************************************)
(* The next active timer, and its compare value.                           *)
(***************************************************************************)

\* An active timer that is preempted goes back behind the candidate.
LEMMA CandidateStaysFirst ==
    ASSUME TypeInv, UpdateActivate
    PROVE  /\ Candidate \in Timers /\ Head(ListWithActive) = Candidate
           /\ \A t \in Timers : Contains(ListWithActive, t) =>
                 InList(t) \/ end_val[Candidate] < end_val[t]
<1> DEFINE list == m_app_timer_sortlist
           c == Candidate
<1>1. list \in Seq(Timers) /\ list # <<>> /\ end_val[c] # Idle /\ Preempts
  BY DEF UpdateActivate, TypeInv, TypeOK
<1>2. c = list[1] /\ c \in Timers /\ Len(list) \in Nat /\ 1 <= Len(list)
  BY <1>1 DEF Candidate
<1>3. CASE mp_active_timer # None /\ end_val[mp_active_timer] # Idle
  <2>1. PICK a \in Timers : a = mp_active_timer
    BY <1>3 DEF TypeInv, TypeOK
  <2>2. ListWithActive = sortlist_add(list, a, end_val) /\ end_val[c] < end_val[a]
    BY <1>1, <1>3, <2>1 DEF ListWithActive, Preempts
  <2>3. PICK i \in 1 .. Len(list) + 1 :
           /\ sortlist_add(list, a, end_val) = InsertAt(list, i, a)
           /\ i <= Len(list) => end_val[list[i]] > end_val[a]
    BY <1>1, SortedPlace
  <2>4. end_val[c] \in Nat /\ end_val[a] \in Nat
    BY <1>2, TimedTypes
  <2>5. i # 1
    BY <1>2, <2>2, <2>3, <2>4
  <2>6. /\ ListWithActive \in Seq(Timers) /\ Len(ListWithActive) = Len(list) + 1
        /\ \A j \in 1 .. i - 1 : ListWithActive[j] = list[j]
        /\ \A u : Contains(ListWithActive, u) <=> Contains(list, u) \/ u = a
    BY <1>1, <2>2, <2>3, Inserted
  <2>7. 1 \in 1 .. i - 1
    BY <1>2, <2>3, <2>5
  <2>8. ListWithActive[1] = c
    BY <1>2, <2>6, <2>7
  <2>9. Head(ListWithActive) = c
    <3>1. PICK all \in Seq(Timers) : all = ListWithActive
      BY <2>6
    <3>2. Head(all) = all[1]
      BY <3>1
    <3> QED
      BY <2>8, <3>1, <3>2
  <2> QED
    BY <1>2, <2>2, <2>6, <2>9 DEF InList
<1>4. CASE ~(mp_active_timer # None /\ end_val[mp_active_timer] # Idle)
  BY <1>2, <1>4 DEF ListWithActive, Candidate, InList
<1> QED
  BY <1>3, <1>4

LEMMA ActivateTimed ==
    ASSUME TypeInv, ClockIsRight, CountInv, TimedInv, CandidateFirst, UpdateActivate, pc' = "window"
    PROVE  TimedInv'
<1>1. PICK c \in Timers : c = Candidate /\ c = Head(ListWithActive)
  BY CandidateStaysFirst
<1> DEFINE most == MaxCnt - SafeWindow
<1>2. /\ pc = "update" /\ p_next' = c /\ m_app_timer_sortlist' = Tail(ListWithActive)
      /\ end_val[c] - Now > 0
      /\ cc_val' = (IF end_val[c] - Now > MaxCnt - SafeWindow
                      THEN counter + (MaxCnt - SafeWindow) ELSE end_val[c]) % CounterMod
      /\ UNCHANGED <<ticks, busy, m_req_fifo, end_val, mp_active_timer, counter>>
  BY <1>1, ActivateCase
<1>3. /\ ticks \in Nat /\ busy \in Nat /\ end_val[c] \in Nat /\ Now = ticks
      /\ MaxCnt - SafeWindow \in Nat /\ counter = ticks % CounterMod
  BY TimedTypes DEF ClockIsRight, CountInv
<1>4. \A t : Settled(t)' <=> Settled(t)
  BY <1>2 DEF Settled
<1>5. ASSUME NEW t \in Timers, t = c \/ (Settled(t) /\ Contains(Tail(ListWithActive), t))
      PROVE  end_val[c] <= end_val[t]
  <2>1. end_val[t] \in Nat
    BY TimedTypes
  <2>2. CASE t = c
    BY <1>3, <2>2
  <2>3. CASE Settled(t) /\ Contains(Tail(ListWithActive), t)
    <3>1. Contains(ListWithActive, t)
      BY <2>3, ListWithActiveTyped, Shortened
    <3>2. InList(t) \/ end_val[c] < end_val[t]
      BY <1>1, <3>1, CandidateStaysFirst
    <3>3. m_app_timer_sortlist # <<>> /\ end_val[Candidate] # Idle
      BY DEF UpdateActivate
    <3>4. InList(t) => end_val[c] <= end_val[t]
      BY <1>1, <1>2, <2>3, <3>3 DEF CandidateFirst
    <3> QED
      BY <1>3, <2>1, <3>2, <3>4
  <2> QED
    BY <1>5, <2>2, <2>3
<1>6. \E at \in Nat : /\ cc_val' = at % CounterMod /\ at <= ticks + (MaxCnt - SafeWindow)
                      /\ ticks <= at + busy /\ at <= end_val[c]
  <2>1. PICK far \in Nat : far = MaxCnt - SafeWindow
    BY <1>3
  <2>2. CASE end_val[c] - ticks > far
    <3>1. cc_val' = (counter + far) % CounterMod
      BY <1>2, <1>3, <2>1, <2>2
    <3>2. (counter + far) % CounterMod = (ticks + far) % CounterMod
      BY <1>3, <2>1, RestOfSum
    <3>3. ticks + far \in Nat /\ ticks <= (ticks + far) + busy /\ ticks + far <= end_val[c]
      BY <1>3, <2>1, <2>2
    <3> QED
      BY <2>1, <3>1, <3>2, <3>3
  <2>3. CASE ~(end_val[c] - ticks > far)
    <3>1. cc_val' = end_val[c] % CounterMod
      BY <1>2, <1>3, <2>1, <2>3
    <3>2. end_val[c] <= ticks + far /\ ticks <= end_val[c] + busy
      BY <1>2, <1>3, <2>1, <2>3
    <3> QED
      BY <1>3, <2>1, <3>1, <3>2
  <2> QED
    BY <2>2, <2>3
<1>7. PICK at \in Nat : /\ cc_val' = at % CounterMod /\ at <= ticks + (MaxCnt - SafeWindow)
                        /\ ticks <= at + busy /\ at <= end_val[c]
  BY <1>6
<1>8. AimedAt(at)'
  BY <1>2, <1>7 DEF AimedAt
<1>9. ASSUME NEW t \in Timers, t = p_next' \/ (Settled(t)' /\ InList(t)')
      PROVE  at <= end_val'[t]
  <2>1. end_val[c] <= end_val[t] /\ end_val[t] \in Nat
    BY <1>2, <1>4, <1>5, <1>9, TimedTypes DEF InList
  <2> QED
    BY <1>2, <1>3, <1>7, <2>1
<1>10. AimedInv'
  BY <1>8, <1>9 DEF AimedInv
<1>11. ServedInv'
  BY <1>2, <1>4 DEF TimedInv, ServedInv
<1>12. PlacesInv' /\ ArmedInv'
  BY DEF PlacesInv, ArmedInv, Before, After
<1> QED
  BY <1>10, <1>11, <1>12 DEF TimedInv

-----------------------------------------------------------------------------
(***************************************************************************)
(* The compare value is written.                                           *)
(***************************************************************************)

\* The distances that the driver looks at are those of the times.
LEMMA AimDistance ==
    ASSUME TypeInv, CountInv, NEW at \in Nat, AimedAt(at)
    PROVE  /\ at - ticks \in Int /\ at - ticks <= MaxCnt - SafeWindow /\ at - ticks >= -busy
           /\ ticks_sub(cc_val, counter)
                = IF at - ticks >= 0 THEN at - ticks ELSE at - ticks + CounterMod
           /\ ticks_sub(cc_val - 1, counter)
                = IF at - ticks >= 1 THEN at - ticks - 1 ELSE at - ticks - 1 + CounterMod
<1>1. /\ ticks \in Int /\ busy \in 0 .. Latency /\ Latency \in Nat /\ CounterMod \in Nat
      /\ MaxCnt = CounterMod - 1 /\ SafeWindow \in Nat
      /\ 2 * Latency < SafeWindow /\ SafeWindow <= CounterMod - 2
      /\ cc_val \in 0 .. MaxCnt
  BY TimedTypes DEF TypeInv, TypeOK
<1>2. cc_val = at % CounterMod /\ counter = ticks % CounterMod
  BY DEF AimedAt, CountInv
<1>3. PICK d \in Int : d = at - ticks /\ d <= MaxCnt - SafeWindow /\ d >= -busy
  BY <1>1 DEF AimedAt
<1>4. ticks_sub(cc_val, counter) = IF d >= 0 THEN d ELSE d + CounterMod
  <2>1. PICK c \in Int : c = 0 /\ at + c - ticks = d /\ -CounterMod <= d /\ d < CounterMod
    BY <1>1, <1>3
  <2>2. -CounterMod <= at + c - ticks /\ at + c - ticks < CounterMod /\ at \in Int
    BY <2>1
  <2>3. ticks_sub((at % CounterMod) + c, ticks % CounterMod)
          = IF at + c - ticks >= 0 THEN at + c - ticks ELSE at + c - ticks + CounterMod
    BY <1>1, <2>2, TimesApart
  <2>4. cc_val + c = cc_val
    BY <1>1, <2>1
  <2> QED
    BY <1>2, <2>1, <2>3, <2>4
<1>5. ticks_sub(cc_val - 1, counter) = IF d >= 1 THEN d - 1 ELSE d - 1 + CounterMod
  <2>1. PICK c \in Int :
           c = -1 /\ at + c - ticks = d - 1 /\ -CounterMod <= d - 1 /\ d - 1 < CounterMod
    BY <1>1, <1>3
  <2>2. -CounterMod <= at + c - ticks /\ at + c - ticks < CounterMod /\ at \in Int
    BY <2>1
  <2>3. ticks_sub((at % CounterMod) + c, ticks % CounterMod)
          = IF at + c - ticks >= 0 THEN at + c - ticks ELSE at + c - ticks + CounterMod
    BY <1>1, <2>2, TimesApart
  <2>4. cc_val + c = cc_val - 1 /\ (d - 1 >= 0 <=> d >= 1)
    BY <1>1, <1>3, <2>1
  <2> QED
    BY <1>2, <2>1, <2>3, <2>4
<1> QED
  BY <1>3, <1>4, <1>5

\* Steps that leave the compare value as it is meant.
LEMMA AimStays ==
    ASSUME TimedInv, pc \in Moving, pc' \in Moving,
           UNCHANGED <<ticks, busy, end_val, m_req_fifo, m_app_timer_sortlist, cc_val, p_next>>,
           \A at \in Nat : AimedAt(at) /\ pc' = "check" =>
               at = ticks + 1 /\ cc0' = (at + 1) % CounterMod
    PROVE  TimedInv'
<1>1. \A t : (Settled(t)' <=> Settled(t)) /\ (InList(t)' <=> InList(t))
  BY DEF Settled, InList
<1>2. ServedInv'
  BY <1>1 DEF TimedInv, ServedInv
<1>3. PICK at \in Nat : /\ AimedAt(at)
                        /\ \A t \in Timers :
                              t = p_next \/ (Settled(t) /\ InList(t)) => at <= end_val[t]
  BY DEF TimedInv, AimedInv
<1>4. AimedAt(at)'
  BY <1>3 DEF AimedAt
<1>5. AimedInv'
  BY <1>1, <1>3, <1>4 DEF AimedInv
<1>6. PlacesInv' /\ ArmedInv'
  BY DEF PlacesInv, ArmedInv, Moving, Before, After
<1> QED
  BY <1>2, <1>5, <1>6 DEF TimedInv

\* The value written is that of a tick to come, and the timer becomes the active one.
LEMMA ScheduledTimed ==
    ASSUME TypeInv, ListInv, TimedInv, pc \in Moving, Scheduled,
           UNCHANGED <<ticks, m_req_fifo>>, ~Matched',
           \A at \in Nat : AimedAt(at) =>
               \E next \in {at, at + 1} :
                   cc0' = next % CounterMod /\ ticks < next /\ next <= ticks + MaxCnt
    PROVE  TimedInv'
<1>1. /\ mp_active_timer' = p_next /\ p_next' = None /\ pc' = "idle" /\ busy' = 0
      /\ UNCHANGED <<end_val, m_app_timer_sortlist>>
  BY DEF Scheduled, IrqReturn
<1>2. \A t : (Settled(t)' <=> Settled(t)) /\ (InList(t)' <=> InList(t))
  BY <1>1 DEF Settled, InList
<1>3. PICK at \in Nat : /\ AimedAt(at)
                        /\ \A t \in Timers :
                              t = p_next \/ (Settled(t) /\ InList(t)) => at <= end_val[t]
  BY DEF TimedInv, AimedInv
<1>4. /\ ticks \in Nat /\ busy \in 0 .. Latency /\ Latency \in Nat /\ end_val \in [Timers -> Nat]
  BY TimedTypes
<1>5. Leaving /\ p_next # None
  BY DEF TypeInv, Leaving, Moving
<1>6. ServedInv'
  <2> SUFFICES ASSUME NEW t \in Timers, Settled(t)
               PROVE  ticks <= end_val[t] + Latency + 0
    BY <1>1, <1>2 DEF ServedInv
  <2>1. t = p_next \/ InList(t)
    BY <1>5, SettledKept DEF Kept
  <2>2. at <= end_val[t] /\ end_val[t] \in Nat
    BY <1>3, <1>4, <2>1
  <2>3. ticks <= at + busy
    BY <1>3 DEF AimedAt
  <2> QED
    BY <1>4, <2>2, <2>3
<1>7. ArmedInv'
  <2>1. PICK next \in {at, at + 1} :
            cc0' = next % CounterMod /\ ticks < next /\ next <= ticks + MaxCnt
    BY <1>3
  <2>2. next \in Nat /\ next <= at + 1
    BY <2>1
  <2>3. Armed(next)'
    BY <2>1 DEF Armed
  <2>4. ASSUME NEW t \in Timers, Awaits(t)' PROVE next <= end_val'[t] + 1
    <3>1. Settled(t) /\ (t = p_next \/ InList(t))
      BY <1>1, <1>2, <2>4 DEF Awaits
    <3>2. at <= end_val[t] /\ end_val[t] \in Nat
      BY <1>3, <1>4, <3>1
    <3>3. next <= end_val[t] + 1
      BY <2>2, <3>2
    <3> QED
      BY <1>1, <3>3
  <2> QED
    BY <2>2, <2>3, <2>4 DEF ArmedInv
<1>8. PlacesInv' /\ AimedInv'
  BY <1>1, <1>5 DEF PlacesInv, AimedInv, Moving
<1> QED
  BY <1>6, <1>7, <1>8 DEF TimedInv

LEMMA WindowTimed ==
    ASSUME TypeInv, CountInv, TimedInv, Window
    PROVE  TimedInv'
<1>1. /\ UNCHANGED <<ticks, busy, end_val, m_req_fifo, m_app_timer_sortlist, cc_val, p_next>>
      /\ pc \in Moving /\ pc' \in Moving
      /\ pc' = "check" =>
            ticks_sub(cc_val, counter) = 1 /\ cc0' = (cc_val + 1) % CounterMod
  BY DEF Window, WindowOpen, CcWrite, userVars, listVars, Moving
<1>2. ASSUME NEW at \in Nat, AimedAt(at), pc' = "check"
      PROVE  at = ticks + 1 /\ cc0' = (at + 1) % CounterMod
  <2>1. PICK d \in Int : /\ d = at - ticks /\ d >= -busy
                         /\ ticks_sub(cc_val, counter) = IF d >= 0 THEN d ELSE d + CounterMod
    BY <1>2, AimDistance
  <2>2. ticks \in Nat /\ busy \in 0 .. Latency /\ Latency \in Nat /\ CounterMod \in Nat
        /\ SafeWindow \in Nat /\ 2 * Latency < SafeWindow /\ SafeWindow <= CounterMod - 2
    BY TimedTypes
  <2>3. d = 1
    BY <1>1, <1>2, <2>1, <2>2
  <2>4. ((at % CounterMod) + 1) % CounterMod = (at + 1) % CounterMod
    BY RestOfSum
  <2> QED
    BY <1>1, <1>2, <2>1, <2>2, <2>3, <2>4 DEF AimedAt
<1> QED
  BY <1>1, <1>2, AimStays

LEMMA WriteTimed ==
    ASSUME TypeInv, ListInv, WindowInv, CountInv, TimedInv, Write, ~NotScheduled
    PROVE  TimedInv'
<1>1. /\ UNCHANGED <<ticks, m_req_fifo>> /\ pc = "write" /\ pc \in Moving /\ ~Matched'
      /\ ~WindowMissed(cc_val)
      /\ cc_val \in 0 .. MaxCnt
  BY DEF Write, WindowVars, Moving, WindowInv, Matched, TypeInv, TypeOK
<1>2. /\ ticks \in Nat /\ busy \in 0 .. Latency /\ Latency \in Nat /\ CounterMod \in Nat
      /\ MaxCnt = CounterMod - 1 /\ MaxCnt \in Nat
      /\ SafeWindow \in Nat /\ 2 * Latency < SafeWindow /\ SafeWindow <= CounterMod - 2
  BY TimedTypes
<1>3. ASSUME NEW at \in Nat, AimedAt(at)
      PROVE  at > ticks /\ (WindowClose(cc_val) <=> at = ticks + 1)
  <2>1. PICK d \in Int :
           /\ d = at - ticks /\ d <= MaxCnt - SafeWindow /\ d >= -busy
           /\ ticks_sub(cc_val - 1, counter) = IF d >= 1 THEN d - 1 ELSE d - 1 + CounterMod
    BY <1>3, AimDistance
  <2>2. d >= 1
    BY <1>1, <1>2, <2>1 DEF WindowMissed
  <2>3. ticks_sub(cc_val - 1, counter) = d - 1
    BY <2>1, <2>2
  <2> QED
    BY <1>2, <2>1, <2>2, <2>3 DEF WindowClose
<1>4. CASE WindowClose(cc_val)
  <2>1. /\ cc0' = (cc_val + 1) % CounterMod /\ pc' = "check"
        /\ UNCHANGED <<p_next, cc_val, end_val, m_app_timer_sortlist, busy>>
    BY <1>1, <1>4 DEF Write, CcWrite
  <2>2. ASSUME NEW at \in Nat, AimedAt(at)
        PROVE  at = ticks + 1 /\ cc0' = (at + 1) % CounterMod
    <3>1. ((at % CounterMod) + 1) % CounterMod = (at + 1) % CounterMod
      BY RestOfSum
    <3> QED
      BY <1>3, <1>4, <2>1, <2>2, <3>1 DEF AimedAt
  <2>3. pc' \in Moving
    BY <2>1 DEF Moving
  <2> QED
    BY <1>1, <2>1, <2>2, <2>3, AimStays
<1>5. CASE ~WindowClose(cc_val)
  <2>1. cc0' = cc_val % CounterMod /\ Scheduled
    BY <1>1, <1>5 DEF Write, CcWrite
  <2>2. cc_val % CounterMod = cc_val
    BY <1>1, <1>2, SmallRest
  <2>3. ASSUME NEW at \in Nat, AimedAt(at)
        PROVE  \E next \in {at, at + 1} :
                   cc0' = next % CounterMod /\ ticks < next /\ next <= ticks + MaxCnt
    <3>1. cc0' = at % CounterMod /\ at <= ticks + (MaxCnt - SafeWindow)
      BY <2>1, <2>2, <2>3 DEF AimedAt
    <3>2. ticks < at /\ at <= ticks + MaxCnt
      BY <1>2, <1>3, <2>3, <3>1
    <3> QED
      BY <3>1, <3>2
  <2> QED
    BY <1>1, <2>1, <2>3, ScheduledTimed
<1> QED
  BY <1>4, <1>5

LEMMA CheckTimed ==
    ASSUME TypeInv, ListInv, WindowInv, TimedInv, Check, ~NotScheduled
    PROVE  TimedInv'
<1>1. /\ UNCHANGED <<ticks, m_req_fifo, compare0, early, cc0>> /\ pc = "check" /\ pc \in Moving
      /\ counter = seen /\ Scheduled
  BY DEF Check, WindowVars, Moving
<1>2. ~Matched'
  BY <1>1 DEF WindowInv, Matched
<1>3. ticks \in Nat /\ MaxCnt \in Nat /\ MaxCnt >= 2
  BY TimedTypes, CounterModAssumption DEF MaxCnt
<1>4. ASSUME NEW at \in Nat, AimedAt(at)
      PROVE  \E next \in {at, at + 1} :
                 cc0' = next % CounterMod /\ ticks < next /\ next <= ticks + MaxCnt
  <2>1. at = ticks + 1 /\ cc0' = (at + 1) % CounterMod
    BY <1>1, <1>4 DEF AimedAt
  <2>2. ticks < at + 1 /\ at + 1 <= ticks + MaxCnt
    BY <1>3, <2>1
  <2> QED
    BY <2>1, <2>2
<1> QED
  BY <1>1, <1>2, <1>4, ScheduledTimed

-----------------------------------------------------------------------------
(***************************************************************************)
(* Every step keeps the deadline.                                          *)
(***************************************************************************)

LEMMA CallTimed ==
    ASSUME TypeInv, TypeInv', ClockIsRight, EndsInv, TimedInv,
           NEW t, NEW list, NEW next, Calling(t, list, next)
    PROVE  TimedInv'
<1>1. /\ t \in Timers /\ timer_expire(t, list, next)
      /\ next \in {"compare1", "update"}
      /\ UNCHANGED <<ticks, busy, m_req_fifo>>
  BY CallOfExpire
<1>2. end_val \in [Timers -> Nat]
  BY TimedTypes
<1>3. CASE PutsBack(t, list, next)
  <2>1. pc' = next /\ mp_active_timer' = None /\ end_val' = end_val
    BY <1>3 DEF PutsBack
  <2> QED
    BY <1>1, <1>2, <2>1, LeavesTimed
<1>4. CASE Expires(t, list, next)
  <2>1. /\ pc' = "handler"
        /\ end_val' = IF repeat_period[t] = 0 THEN [end_val EXCEPT ![t] = Idle] ELSE end_val
    BY <1>4 DEF Expires
  <2>2. \A u \in Timers : end_val'[u] # Idle => end_val'[u] = end_val[u]
    BY <1>1, <1>2, <2>1
  <2> QED
    BY <1>1, <1>2, <2>1, <2>2, LeavesTimed
<1> QED
  BY <1>1, <1>3, <1>4, ExpireCases

LEMMA ReturnTimed ==
    ASSUME TypeInv, TypeInv', TimedInv, HandlerReturn
    PROVE  TimedInv'
<1>1. PICK p \in Timers : p = p_next
  BY DEF HandlerReturn, TypeInv, TypeOK, Leaving
<1>2. /\ pc' \in {"compare1", "update"} /\ mp_active_timer' = None
      /\ UNCHANGED <<ticks, busy, m_req_fifo>>
      /\ end_val' = IF repeat_period[p] # 0 /\ end_val[p] # Idle
                      THEN [end_val EXCEPT ![p] = @ + repeat_period[p]] ELSE end_val
  BY <1>1 DEF HandlerReturn, rtcVars, TypeInv, TypeOK
<1>3. end_val \in [Timers -> Nat] /\ repeat_period \in [Timers -> Nat]
  BY DEF TypeInv, TypeOK
<1>4. \A u \in Timers : end_val'[u] # Idle => end_val[u] # Idle /\ end_val'[u] >= end_val[u]
  BY <1>1, <1>2, <1>3
<1> QED
  BY <1>2, <1>4, LeavesTimed

LEMMA StoppingAllNever ==
    ASSUME ~FullAPI, ListInv
    PROVE  ~app_timer_stop_all /\ ~ReqStopAll
<1>1. ASSUME ReqStopAll PROVE FALSE
  <2>1. Head(m_req_fifo) \in UserRequests /\ Head(m_req_fifo).type = "STOP_ALL"
    BY <1>1, Handling DEF ReqStopAll, TakeRequest, ListInv, ListTypes
  <2> QED
    BY <2>1 DEF UserRequests
<1> QED
  BY <1>1 DEF app_timer_stop_all

LEMMA StepTimed ==
    ASSUME ~FullAPI, ~MayOverflow, Latency > 0,
           TypeInv, TypeInv', ClockIsRight, EndsInv, RequestInv, ListInv, OnceInv, WindowInv,
           CountInv, CandidateFirst, TimedInv, [Next]_vars
    PROVE  TimedInv'
<1>1. CASE Tick
  BY <1>1, TickTimed
<1>2. CASE UNCHANGED vars
  <2>1. /\ UNCHANGED <<ticks, busy, cc0, compare0, early, pc, mp_active_timer, m_app_timer_sortlist,
                       end_val, m_req_fifo, p_next, cc_val, seen, counter>>
    BY <1>2 DEF vars, rtcVars, irqVars, userVars, listVars
  <2> QED
    BY <2>1 DEF TimedInv, ServedInv, PlacesInv, ArmedInv, AimedInv, Settled, Awaits, InList,
                Armed, AimedAt, Matched
<1>3. CASE \E t \in Timers : app_timer_stop(t) \/ \E d \in Delays : app_timer_start(t, d)
  BY <1>3, StartTimed, StopTimed
<1>4. CASE \/ on_overflow_evt \/ on_compare1_evt \/ ReqDone \/ UpdateDrop \/ Pause \/ Resume
           \/ on_compare_evt /\ ~(compare0 /\ mp_active_timer # None)
  BY <1>4, GoOn, ContinuesTimed
<1>5. CASE ReqStart \/ ReqStop
  BY <1>5, RequestTimed
<1>6. CASE UpdateEmpty \/ UpdateKeep
  BY <1>6, EmptyTimed, KeepTimed
<1>7. CASE UpdateActivate /\ pc' = "window"
  BY <1>7, ActivateTimed
<1>8. CASE Window
  BY <1>8, WindowTimed
<1>9. CASE (Write \/ Check) /\ ~NotScheduled
  BY <1>9, WriteTimed, CheckTimed
<1>10. CASE \E t, list, next : Calling(t, list, next)
  BY <1>10, CallTimed
<1>11. CASE HandlerReturn
  BY <1>11, ReturnTimed
<1>12. on_compare_evt /\ compare0 /\ mp_active_timer # None =>
          \E t, list, next : Calling(t, list, next)
  BY DEF Calling
<1>13. UpdateActivate /\ pc' # "window" => \E t, list, next : Calling(t, list, next)
  BY DEF Calling
<1>14. (Write \/ Check) /\ NotScheduled => \E t, list, next : Calling(t, list, next)
  BY DEF Calling
<1> QED
  BY <1>1, <1>2, <1>3, <1>4, <1>5, <1>6, <1>7, <1>8, <1>9, <1>10, <1>11, <1>12, <1>13, <1>14,
     StoppingAllNever DEF Next, API, rtc_irq, Request, Update

LEMMA InitTimed ==
    ASSUME Init
    PROVE  TimedInv
<1>1. /\ pc = "idle" /\ mp_active_timer = None /\ end_val = [t \in Timers |-> Idle]
      /\ m_app_timer_sortlist = <<>>
  BY DEF Init
<1>2. \A t \in Timers : ~Settled(t)
  BY <1>1 DEF Settled
<1> QED
  BY <1>1, <1>2 DEF TimedInv, ServedInv, PlacesInv, ArmedInv, AimedInv, Moving

\* As long as the first of the list is the first to end, no timer that runs is later
\* than two latencies.
THEOREM TimedInvariant ==
    ASSUME ~FullAPI, ~MayOverflow, HandledBeforeDue, Latency > 0
    PROVE  Spec /\ []CandidateFirst => []TimedInv
<1>1. Init => TimedInv
  BY InitTimed
<1>2. ASSUME TypeInv, TypeInv', ClockIsRight, EndsInv, RequestInv, ListInv, OnceInv, WindowInv,
             CountInv, CandidateFirst, TimedInv, [Next]_vars
      PROVE  TimedInv'
  BY <1>2, StepTimed
<1> QED
  BY <1>1, <1>2, TypeInvariant, ClockCorrect, EndsInvariant, RequestsInTime, ListInvariant,
     OnceInvariant, WindowInvariant, CountInvariant, PTL DEF Spec

\* The counter goes on only when no timer is late.
LEMMA TickInTime ==
    ASSUME TypeInv, RequestInv, ListInv, OnceInv, WindowInv, CountInv, TimedInv, Latency > 0, Tick
    PROVE  Service!Tick
<1>1. /\ ticks' = ticks + 1 /\ busy' \in 0 .. Latency /\ UNCHANGED end_val
      /\ \A t : Settled(t)' <=> Settled(t)
  BY TickPlaces
<1>2. PICK b \in 0 .. Latency : b = busy'
  BY <1>1
<1>3. /\ ticks \in Nat /\ Latency \in Nat /\ end_val \in [Timers -> Nat]
      /\ repeat_period \in [Timers -> Nat]
  BY TimedTypes DEF TypeInv, TypeOK
<1>4. ServedInv'
  BY TickServed
<1>5. ASSUME NEW t \in Timers, end_val[t] # Idle
      PROVE  ticks < end_val[t] + 2 * Latency
  <2>1. CASE Settled(t)
    <3>1. ticks + 1 <= end_val[t] + Latency + b
      BY <1>1, <1>2, <1>4, <2>1 DEF ServedInv
    <3> QED
      BY <1>2, <1>3, <3>1
  <2>2. CASE LastIs(m_req_fifo, "START", t)
    <3>1. end_val[t] > ticks + Remaining /\ Remaining \in Nat
      BY <1>5, <2>2, AskedIsLast, RemainingTyped DEF RequestInv
    <3> QED
      BY <1>3, <3>1
  <2> QED
    BY <1>5, <2>1, <2>2, SettledOrAsked
<1>6. ASSUME NEW t \in Timers, Due[t] # Idle
      PROVE  ticks < Due[t] + 2 * Latency
  <2>1. PICK due \in Nat : due = DueOf(t) /\ due >= end_val[t] /\ (due # Idle => end_val[t] # Idle)
    BY <1>3 DEF DueOf
  <2>2. ticks < end_val[t] + 2 * Latency
    BY <1>5, <1>6, <2>1, DueIs
  <2>3. ticks < due + 2 * Latency
    BY <1>3, <2>1, <2>2
  <2> QED
    BY <2>1, <2>3, DueIs
<1> QED
  BY <1>6, TickPasses DEF Service!Tick, Service!InTime

\* So the timers keep every promise: a timer that was started and not stopped
\* expires once, or once per period, not before it is due, and less than two
\* latencies after it.
THEOREM TimersServedInTime ==
    ASSUME HandlersLeaveOwn, ~FullAPI, ~MayOverflow, HandledBeforeDue, Latency > 0
    PROVE  Spec /\ []CandidateFirst => ImplementsService
<1>1. Init => Service!Init
  BY InitServes
<1>2. ASSUME TypeInv, ClockIsRight, EndsInv, RequestInv, ListInv, OnceInv, WindowInv, CountInv,
             TimedInv, [Next]_vars
      PROVE  [Service!Next]_Service!vars
  <2>1. CASE Tick
    BY <1>2, <2>1, TickInTime DEF Service!Next
  <2>2. CASE ~Tick
    BY <1>2, <2>2, StepServes
  <2> QED
    BY <2>1, <2>2
<1> QED
  BY <1>1, <1>2, TypeInvariant, ClockCorrect, EndsInvariant, RequestsInTime, ListInvariant,
     OnceInvariant, WindowInvariant, CountInvariant, TimedInvariant, PTL
     DEF Spec, ImplementsService, Service!Spec

-----------------------------------------------------------------------------
(***************************************************************************)
(* Two timers.                                                             *)
(***************************************************************************)

\* The program has two timers, the one of app_button.c and the one of
\* ble_conn_params.c.
TwoTimers == \E a, b : Timers = {a, b}

\* The list is sorted by what the timers end at now.
InOrder(list, ends) ==
    \A i, j \in 1 .. Len(list) : i < j => ends[list[i]] <= ends[list[j]]

\* The end of a listed timer changes only when there is no other in the list.
PairInv ==
    /\ pc = "idle" /\ mp_active_timer = None => m_app_timer_sortlist = <<>>
    /\ pc = "handler" => ~InList(p_next)
    /\ InOrder(m_app_timer_sortlist, end_val)

LEMMA AtMostTwo ==
    ASSUME TwoTimers, NEW list \in Seq(Timers), Distinct(list)
    PROVE  Len(list) <= 2
<1>1. PICK a, b : Timers = {a, b}
  BY DEF TwoTimers
<1>2. Len(list) \in Nat /\ \A i \in 1 .. Len(list) : list[i] = a \/ list[i] = b
  BY <1>1
<1> SUFFICES ASSUME Len(list) > 2 PROVE FALSE
  BY <1>2
<1>3. 1 \in 1 .. Len(list) /\ 2 \in 1 .. Len(list) /\ 3 \in 1 .. Len(list)
  BY <1>2
<1> QED
  BY <1>2, <1>3 DEF Distinct

LEMMA OneBut ==
    ASSUME TwoTimers, NEW list \in Seq(Timers), Distinct(list),
           NEW t \in Timers, ~Contains(list, t)
    PROVE  Len(list) <= 1
<1>1. PICK a, b : Timers = {a, b}
  BY DEF TwoTimers
<1>2. Len(list) \in Nat /\ \A i \in 1 .. Len(list) : (list[i] = a \/ list[i] = b) /\ list[i] # t
  BY <1>1 DEF Contains
<1> SUFFICES ASSUME Len(list) > 1 PROVE FALSE
  BY <1>2
<1>3. 1 \in 1 .. Len(list) /\ 2 \in 1 .. Len(list)
  BY <1>2
<1> QED
  BY <1>1, <1>2, <1>3 DEF Distinct

LEMMA ShortInOrder ==
    ASSUME NEW list \in Seq(Timers), Len(list) <= 1, NEW ends
    PROVE  InOrder(list, ends)
<1>1. Len(list) \in Nat
  OBVIOUS
<1> QED
  BY <1>1 DEF InOrder

LEMMA AddInOrder ==
    ASSUME NEW list \in Seq(Timers), Len(list) <= 1, NEW t \in Timers, NEW ends \in [Timers -> Nat]
    PROVE  InOrder(sortlist_add(list, t, ends), ends)
<1>3. Len(list) = 0 \/ Len(list) = 1
  <2>1. Len(list) \in Nat
    OBVIOUS
  <2>2. \A n \in Nat : n <= 1 => n = 0 \/ n = 1
    OBVIOUS
  <2> QED
    BY <2>1, <2>2
<1>1. PICK i \in 1 .. Len(list) + 1 :
         /\ sortlist_add(list, t, ends) = InsertAt(list, i, t)
         /\ \A j \in 1 .. i - 1 : ~(ends[list[j]] > ends[t])
         /\ i <= Len(list) => ends[list[i]] > ends[t]
  BY SortedPlace
<1>2. PICK all \in Seq(Timers) :
         /\ all = sortlist_add(list, t, ends) /\ Len(all) = Len(list) + 1
         /\ all[i] = t
         /\ \A j \in 1 .. i - 1 : all[j] = list[j]
         /\ \A j \in i + 1 .. Len(list) + 1 : all[j] = list[j - 1]
  BY <1>1, Inserted
<1>4. CASE Len(list) = 0
  <2>1. Len(all) <= 1
    BY <1>2, <1>4
  <2>2. InOrder(all, ends)
    BY <2>1, ShortInOrder
  <2> QED
    BY <1>2, <2>2
<1>5. CASE Len(list) = 1
  <2>0. 1 \in 1 .. Len(list)
    BY <1>5
  <2>1. list[1] \in Timers /\ ends[list[1]] \in Nat /\ ends[t] \in Nat
    BY <2>0
  <2>2. ends[all[1]] <= ends[all[2]]
    <3>1. CASE i = 1
      <4>1. all[2] = list[1] /\ ends[list[1]] > ends[t]
        BY <1>1, <1>2, <1>5, <3>1
      <4> QED
        BY <1>2, <2>1, <3>1, <4>1
    <3>2. CASE i = 2
      <4>1. all[1] = list[1] /\ ~(ends[list[1]] > ends[t])
        BY <1>1, <1>2, <3>2
      <4> QED
        BY <1>2, <2>1, <3>2, <4>1
    <3> QED
      BY <1>5, <3>1, <3>2
  <2>3. \A k, j \in 1 .. Len(all) : k < j => k = 1 /\ j = 2
    BY <1>2, <1>5
  <2> QED
    BY <1>2, <2>2, <2>3 DEF InOrder
<1> QED
  BY <1>3, <1>4, <1>5

\* An invariant that is stronger than what the deadline needs.
LEMMA FirstOfPair ==
    ASSUME TypeInv, PairInv
    PROVE  CandidateFirst
<1> SUFFICES ASSUME m_app_timer_sortlist # <<>>, NEW t \in Timers, InList(t)
             PROVE  end_val[Candidate] <= end_val[t]
  BY DEF CandidateFirst
<1>1. PICK list \in Seq(Timers) : list = m_app_timer_sortlist /\ list # <<>>
  BY DEF TypeInv, TypeOK
<1>2. PICK j \in 1 .. Len(list) : list[j] = t
  BY <1>1 DEF InList, Contains
<1>3. Candidate = list[1] /\ 1 \in 1 .. Len(list) /\ Len(list) \in Nat
  BY <1>1 DEF Candidate
<1>4. end_val[t] \in Nat
  BY TimedTypes
<1>5. CASE j = 1
  BY <1>2, <1>3, <1>4, <1>5
<1>6. CASE j > 1
  BY <1>1, <1>2, <1>3, <1>6 DEF PairInv, InOrder
<1> QED
  BY <1>3, <1>5, <1>6

\* Between two runs of the handler, and in a timer's handler, one timer is listed at
\* most: the other is active, or its handler runs.
LEMMA OneOutside ==
    ASSUME TwoTimers, TypeInv, OnceInv, PairInv, pc \in {"idle", "handler"}
    PROVE  m_app_timer_sortlist \in Seq(Timers) /\ Len(m_app_timer_sortlist) <= 1
<1>1. m_app_timer_sortlist \in Seq(Timers) /\ Distinct(m_app_timer_sortlist)
  BY DEF TypeInv, TypeOK, OnceInv
<1>2. CASE pc = "idle" /\ mp_active_timer = None
  BY <1>1, <1>2 DEF PairInv
<1>3. CASE pc = "idle" /\ mp_active_timer # None
  <2>1. PICK t \in Timers : t = mp_active_timer
    BY <1>3 DEF TypeInv, TypeOK
  <2>2. ~InList(t)
    BY <1>3, <2>1 DEF OnceInv, Out
  <2> QED
    BY <1>1, <2>2, OneBut DEF InList
<1>4. CASE pc = "handler"
  <2>1. PICK t \in Timers : t = p_next
    BY <1>4 DEF TypeInv, TypeOK, Leaving
  <2> QED
    BY <1>1, <1>4, <2>1, OneBut DEF PairInv, InList
<1> QED
  BY <1>2, <1>3, <1>4

LEMMA ReturnsCase ==
    ASSUME TypeInv, [Next]_vars, pc = "update", pc' = "idle"
    PROVE  UpdateEmpty \/ UpdateKeep
<1>1. ~Tick /\ ~API /\ ~UNCHANGED vars
  BY DEF Tick, API, app_timer_start, app_timer_stop, app_timer_stop_all, Pause, Resume,
         vars, irqVars
<1>2. ~on_overflow_evt /\ ~on_compare_evt /\ ~on_compare1_evt /\ ~Request /\ ~HandlerReturn
  BY DEF on_overflow_evt, on_compare_evt, on_compare1_evt, Request, ReqStart, ReqStop, ReqStopAll,
         ReqDone, TakeRequest, HandlerReturn
<1>3. ~Window /\ ~Write /\ ~Check
  BY DEF Window, Write, Check
<1>4. ~UpdateDrop /\ ~UpdateActivate
  BY DEF UpdateDrop, irqVars, UpdateActivate, timer_expire
<1> QED
  BY <1>1, <1>2, <1>3, <1>4 DEF Next, rtc_irq, Update

LEMMA PairReqStart ==
    ASSUME TwoTimers, TypeInv, OnceInv', PairInv, ReqStart
    PROVE  PairInv'
<1>1. /\ pc = "req" /\ pc' = "req" /\ UNCHANGED end_val /\ m_req_fifo # <<>>
      /\ Head(m_req_fifo).type = "START"
      /\ \/ UNCHANGED m_app_timer_sortlist
         \/ m_app_timer_sortlist' =
              sortlist_add(m_app_timer_sortlist, Head(m_req_fifo).timer, end_val)
  BY DEF ReqStart, TakeRequest, ReqVars
<1>2. PICK t \in Timers : t = Head(m_req_fifo).timer
  <2>1. m_req_fifo \in Seq(Requests) /\ Head(m_req_fifo) \in Requests
    BY <1>1, Popped DEF TypeInv, TypeOK
  <2> QED
    BY <1>1, <2>1 DEF Requests
<1>3. PICK list \in Seq(Timers) : list = m_app_timer_sortlist
  BY DEF TypeInv, TypeOK
<1>4. InOrder(m_app_timer_sortlist, end_val) /\ end_val \in [Timers -> Nat]
  BY TimedTypes DEF PairInv
<1>5. CASE m_app_timer_sortlist' = sortlist_add(list, t, end_val)
  <2>1. PICK i \in 1 .. Len(list) + 1 : sortlist_add(list, t, end_val) = InsertAt(list, i, t)
    BY SortedPlace
  <2>2. PICK all \in Seq(Timers) : all = m_app_timer_sortlist' /\ Len(all) = Len(list) + 1
    BY <1>5, <2>1, Inserted
  <2>3. Len(all) <= 2
    BY <2>2, AtMostTwo DEF OnceInv
  <2>4. Len(list) <= 1
    BY <2>2, <2>3
  <2>5. InOrder(sortlist_add(list, t, end_val), end_val)
    BY <1>4, <2>4, AddInOrder
  <2> QED
    BY <1>1, <1>5, <2>5 DEF PairInv
<1> QED
  BY <1>1, <1>2, <1>3, <1>4, <1>5 DEF PairInv

LEMMA PairReqStop ==
    ASSUME TwoTimers, TypeInv, OnceInv, PairInv, ReqStop
    PROVE  PairInv'
<1>1. /\ pc = "req" /\ pc' = "req" /\ UNCHANGED end_val /\ m_req_fifo # <<>>
      /\ Head(m_req_fifo).type = "STOP"
      /\ \/ UNCHANGED m_app_timer_sortlist
         \/ m_app_timer_sortlist' = sortlist_remove(m_app_timer_sortlist, Head(m_req_fifo).timer)
  BY DEF ReqStop, TakeRequest, ReqVars
<1>2. PICK t \in Timers : t = Head(m_req_fifo).timer
  <2>1. m_req_fifo \in Seq(Requests) /\ Head(m_req_fifo) \in Requests
    BY <1>1, Popped DEF TypeInv, TypeOK
  <2> QED
    BY <1>1, <2>1 DEF Requests
<1>3. PICK list \in Seq(Timers) : list = m_app_timer_sortlist /\ Distinct(list)
  BY DEF TypeInv, TypeOK, OnceInv
<1>4. CASE m_app_timer_sortlist' = sortlist_remove(list, t)
  <2>1. PICK rest \in Seq(Timers) :
           rest = m_app_timer_sortlist' /\ Distinct(rest) /\ ~Contains(rest, t)
    BY <1>3, <1>4, Removed, RemoveDistinct
  <2>2. InOrder(rest, end_val)
    BY <2>1, OneBut, ShortInOrder
  <2> QED
    BY <1>1, <2>1, <2>2 DEF PairInv
<1>5. InOrder(m_app_timer_sortlist, end_val)
  BY DEF PairInv
<1> QED
  BY <1>1, <1>2, <1>3, <1>4, <1>5 DEF PairInv

LEMMA PairCall ==
    ASSUME TwoTimers, TypeInv, TypeInv', ClockIsRight, EndsInv, OnceInv, PairInv,
           NEW t, NEW list, NEW next, Calling(t, list, next)
    PROVE  PairInv'
<1>1. /\ t \in Timers /\ list \in Seq(Timers) /\ timer_expire(t, list, next)
      /\ next \in {"compare1", "update"}
  BY CallOfExpire
<1>2. Distinct(list) /\ ~Contains(list, t)
  BY CalledOnce
<1>3. Len(list) <= 1
  BY <1>1, <1>2, OneBut
<1>4. end_val \in [Timers -> Nat]
  BY TimedTypes
<1>5. CASE PutsBack(t, list, next)
  <2>1. /\ pc' = next /\ UNCHANGED end_val
        /\ m_app_timer_sortlist' \in {list, sortlist_add(list, t, end_val)}
    BY <1>5 DEF PutsBack
  <2>2. InOrder(list, end_val) /\ InOrder(sortlist_add(list, t, end_val), end_val)
    BY <1>1, <1>3, <1>4, ShortInOrder, AddInOrder
  <2> QED
    BY <1>1, <2>1, <2>2 DEF PairInv
<1>6. CASE Expires(t, list, next)
  <2>1. pc' = "handler" /\ p_next' = t /\ m_app_timer_sortlist' = list
    BY <1>6 DEF Expires
  <2>2. \A ends : InOrder(list, ends)
    BY <1>1, <1>3, ShortInOrder
  <2> QED
    BY <1>2, <2>1, <2>2 DEF PairInv, InList
<1> QED
  BY <1>1, <1>5, <1>6, ExpireCases

LEMMA PairReturn ==
    ASSUME TwoTimers, TypeInv, TypeInv', OnceInv, PairInv, HandlerReturn
    PROVE  PairInv'
<1>1. PICK p \in Timers : p = p_next
  BY DEF HandlerReturn, TypeInv, TypeOK, Leaving
<1>2. /\ pc = "handler" /\ pc' \in {"compare1", "update"}
      /\ \/ m_app_timer_sortlist' = sortlist_add(m_app_timer_sortlist, p, end_val')
         \/ UNCHANGED m_app_timer_sortlist
  BY <1>1 DEF HandlerReturn, TypeInv, TypeOK
<1>3. PICK list \in Seq(Timers) : list = m_app_timer_sortlist /\ Len(list) <= 1
  BY <1>2, OneOutside
<1>4. PICK ends \in [Timers -> Nat] : ends = end_val'
  BY DEF TypeInv, TypeOK
<1>5. InOrder(list, ends) /\ InOrder(sortlist_add(list, p, ends), ends)
  BY <1>3, ShortInOrder, AddInOrder
<1> QED
  BY <1>2, <1>3, <1>4, <1>5 DEF PairInv

\* Steps of the handler that take timers from the list, or leave it alone.
LEMMA PairRest ==
    ASSUME TwoTimers, TypeInv, OnceInv, PairInv, [Next]_vars,
           UpdateDrop \/ (UpdateActivate /\ pc' = "window") \/ Passes
    PROVE  PairInv'
<1>1. CASE UpdateDrop
  <2>1. /\ m_app_timer_sortlist # <<>> /\ m_app_timer_sortlist' = Tail(m_app_timer_sortlist)
        /\ pc = "update" /\ pc' = "update"
    BY <1>1 DEF UpdateDrop, irqVars
  <2>2. PICK list \in Seq(Timers) : list = m_app_timer_sortlist /\ list # <<>> /\ Distinct(list)
    BY <2>1 DEF TypeInv, TypeOK, OnceInv
  <2>3. Tail(list) \in Seq(Timers) /\ Len(Tail(list)) <= 1
    <3>1. /\ Tail(list) \in Seq(Timers) /\ Head(list) \in Timers
          /\ Distinct(Tail(list)) /\ ~Contains(Tail(list), Head(list))
      BY <2>2, Shortened, TailDistinct
    <3> QED
      BY <3>1, OneBut
  <2>4. \A ends : InOrder(Tail(list), ends)
    BY <2>3, ShortInOrder
  <2> QED
    BY <2>1, <2>2, <2>4 DEF PairInv
<1>2. CASE UpdateActivate /\ pc' = "window"
  <2>1. PICK t \in Timers : t = Head(ListWithActive)
    BY <1>2, ListWithActiveTyped, Shortened
  <2>2. PICK list \in Seq(Timers) :
           list = Tail(ListWithActive) /\ Distinct(list) /\ ~Contains(list, t)
    BY <1>2, <2>1, CandidatesOnce, ListWithActiveTyped, Shortened
  <2>3. \A ends : InOrder(list, ends)
    BY <2>2, OneBut, ShortInOrder
  <2>4. m_app_timer_sortlist' = list
    BY <1>2, <2>2, ActivateCase
  <2> QED
    BY <1>2, <2>3, <2>4 DEF PairInv
<1>3. CASE Passes
  <2>1. UNCHANGED <<end_val, m_app_timer_sortlist>> /\ Advances
    BY <1>3 DEF Passes
  <2>2. pc' = "handler" => ~InList(p_next)'
    BY <2>1 DEF Advances, Moving, PairInv, InList
  <2>3. ASSUME pc' = "idle", mp_active_timer' = None PROVE m_app_timer_sortlist = <<>>
    <3>1. CASE pc = "idle"
      BY <2>1, <2>3, <3>1 DEF Advances, Moving, PairInv
    <3>2. CASE pc = "update"
      <4>1. UpdateEmpty \/ UpdateKeep
        BY <2>3, <3>2, ReturnsCase
      <4> QED
        BY <2>3, <4>1 DEF UpdateEmpty, UpdateKeep, Preempts, listVars
    <3>3. CASE pc \in Moving
      BY <2>1, <2>3, <3>3 DEF Advances, Moving, TypeInv, Leaving
    <3> QED
      BY <2>1, <2>3, <3>1, <3>2, <3>3 DEF Advances
  <2> QED
    BY <2>1, <2>2, <2>3 DEF PairInv
<1> QED
  BY <1>1, <1>2, <1>3

LEMMA StepPair ==
    ASSUME ~FullAPI, TwoTimers, TypeInv, TypeInv', ClockIsRight, EndsInv, ListInv,
           OnceInv, OnceInv', PairInv, [Next]_vars
    PROVE  PairInv'
<1>1. CASE Tick
  <2>1. UNCHANGED <<pc, p_next, mp_active_timer, m_app_timer_sortlist, end_val>>
    BY <1>1, TickPlaces
  <2> QED
    BY <2>1 DEF PairInv, InList, InOrder
<1>2. CASE \E t \in Timers : app_timer_stop(t) \/ \E d \in Delays : app_timer_start(t, d)
  <2>1. /\ pc \in {"idle", "handler"}
        /\ UNCHANGED <<pc, p_next, mp_active_timer, m_app_timer_sortlist>>
    BY <1>2 DEF app_timer_start, app_timer_stop, MayCall, irqVars, listVars
  <2>2. \A ends : InOrder(m_app_timer_sortlist, ends)
    BY <2>1, OneOutside, ShortInOrder
  <2> QED
    BY <2>1, <2>2 DEF PairInv, InList
<1>3. CASE ReqStart \/ ReqStop
  BY <1>3, PairReqStart, PairReqStop
<1>4. CASE UpdateDrop \/ (UpdateActivate /\ pc' = "window") \/ Passes
  BY <1>4, PairRest
<1>5. CASE \E t, list, next : Calling(t, list, next)
  BY <1>5, PairCall
<1>6. CASE HandlerReturn
  BY <1>6, PairReturn
<1> QED
  BY <1>1, <1>2, <1>3, <1>4, <1>5, <1>6, StoppingAllNever, StepCases

\* Of two timers the list is always sorted, whatever was stopped and started again.
THEOREM PairInvariant ==
    ASSUME TwoTimers, ~FullAPI, ~MayOverflow, HandledBeforeDue
    PROVE  Spec => []PairInv
<1>1. Init => PairInv
  BY DEF Init, PairInv, InOrder
<1>2. ASSUME TypeInv, TypeInv', ClockIsRight, EndsInv, ListInv, OnceInv, OnceInv', PairInv,
             [Next]_vars
      PROVE  PairInv'
  BY <1>2, StepPair
<1> QED
  BY <1>1, <1>2, TypeInvariant, ClockCorrect, EndsInvariant, ListInvariant, OnceInvariant, PTL
     DEF Spec

\* So the two timers of the program implement the service without reservation.
THEOREM TwoTimersServed ==
    ASSUME TwoTimers, HandlersLeaveOwn, ~FullAPI, ~MayOverflow, HandledBeforeDue, Latency > 0
    PROVE  Spec => ImplementsService
<1>1. TypeInv /\ PairInv => CandidateFirst
  BY FirstOfPair
<1> QED
  BY <1>1, TypeInvariant, PairInvariant, TimersServedInTime, PTL

\* What is expected of timers that were stopped and started again holds for two: once
\* the requests are handled, the list is sorted.
THEOREM TwoTimersSorted ==
    ASSUME TwoTimers, ~FullAPI, ~MayOverflow, HandledBeforeDue
    PROVE  Spec => []SortedOut
<1>1. TypeInv /\ PairInv => SortedOut
  <2> SUFFICES ASSUME TypeInv, PairInv PROVE SortedOut
    OBVIOUS
  <2>1. DOMAIN m_app_timer_sortlist = 1 .. Len(m_app_timer_sortlist)
    BY DEF TypeInv, TypeOK
  <2> QED
    BY <2>1 DEF SortedOut, PairInv, InOrder
<1> QED
  BY <1>1, TypeInvariant, PairInvariant, PTL
=============================================================================
