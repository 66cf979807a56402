--------------------------- MODULE AppTimerProofs ---------------------------
(***************************************************************************)
(* Proofs about AppTimer for any instance: the types, the time stamp and   *)
(* the safe window of the compare register, for any period of the counter, *)
(* any set of timers, delays and handlers, any size of the queue and every *)
(* call, as long as interrupts are served in time (LatencyAssumption).     *)
(***************************************************************************)
EXTENDS AppTimerListProofs

-----------------------------------------------------------------------------
(***************************************************************************)
(* The time stamp.                                                         *)
(***************************************************************************)

\* Half a period is longer than two interrupts and shorter than the period.
LEMMA MiddleBounds ==
    /\ CounterMod \in Nat /\ MaxCnt \in Nat /\ Middle \in Nat /\ Latency \in Nat
    /\ MaxCnt = CounterMod - 1
    /\ 2 * Middle <= MaxCnt
    /\ 2 * Latency < Middle
BY CounterModAssumption, BoundsAssumption, LatencyAssumption DEF MaxCnt, Middle

\* The interrupt handler has not come to compare 1 yet.
Early == pc \in {"idle", "compare0", "compare1"} \/ (pc = "handler" /\ ret = "compare1")

\* When the period began that the counter is in, pending overflow or not.
PeriodStart == m_base_counter + (IF ovrflw THEN CounterMod ELSE 0)

\* How many ticks an interrupt may still wait before the handler gets to it.
OverflowSlack == IF pc = "idle" THEN Latency ELSE 0
CompareSlack  == IF Early THEN Latency ELSE 0

ClockTypes ==
    /\ counter \in 0 .. MaxCnt
    /\ busy \in 0 .. Latency
    /\ m_base_counter \in Nat
    /\ m_stamp64 \in Nat
    /\ ticks \in Nat
    /\ ret \in {"compare1", "update"}

\* An overflow is served before the counter has gone far, and so is compare 1;
\* the stamp is taken in the second half of every period, before it ends.
ClockInv ==
    /\ ClockTypes
    /\ ticks = PeriodStart + counter
    /\ ovrflw => counter <= busy + OverflowSlack
    /\ compare1 => /\ Middle <= counter
                   /\ counter <= Middle + busy + CompareSlack
    /\ m_stamp64 <= ticks
    /\ PeriodStart >= CounterMod => m_stamp64 >= PeriodStart - CounterMod + Middle
    /\ (counter >= Middle /\ ~compare1) => m_stamp64 >= PeriodStart + Middle

LEMMA SlackBounds ==
    /\ OverflowSlack \in {0, Latency} /\ OverflowSlack' \in {0, Latency}
    /\ CompareSlack \in {0, Latency} /\ CompareSlack' \in {0, Latency}
BY DEF OverflowSlack, CompareSlack

\* The time stamp is right wherever the invariant holds.
LEMMA InvGivesClock == ClockInv => ClockIsRight
<1> SUFFICES ASSUME ClockInv PROVE Now = ticks
  BY DEF ClockIsRight
<1>1. CASE ovrflw
  <2>1. counter < Middle
    BY <1>1, MiddleBounds, SlackBounds DEF ClockInv, ClockTypes
  <2>2. m_base_counter + counter < m_stamp64
    BY <1>1, <2>1, MiddleBounds DEF ClockInv, ClockTypes, PeriodStart
  <2> QED
    BY <1>1, <2>2, MiddleBounds DEF ClockInv, ClockTypes, PeriodStart, Now
<1>2. CASE ~ovrflw
  BY <1>2, MiddleBounds DEF ClockInv, ClockTypes, PeriodStart, Now
<1> QED
  BY <1>1, <1>2

-----------------------------------------------------------------------------
(***************************************************************************)
(* Steps that leave the clock alone.                                       *)
(***************************************************************************)

clock == <<counter, ovrflw, compare1, ticks, m_base_counter, m_stamp64>>

\* The handler goes on, or is not running, and does not pass compare 1.
GoesOn ==
    /\ UNCHANGED clock
    /\ busy' = busy
    /\ ret' \in {"compare1", "update"}
    /\ pc' = "idle" <=> pc = "idle"
    /\ Early => Early'

\* The handler returns, from a place after compare 1.
Returns ==
    /\ UNCHANGED clock
    /\ busy' = 0
    /\ ret' = ret
    /\ pc' = "idle"
    /\ pc # "idle"
    /\ ~Early

LEMMA GoesOnKeeps == ClockInv /\ GoesOn => ClockInv'
<1> SUFFICES ASSUME ClockInv, GoesOn PROVE ClockInv'
  OBVIOUS
<1>1. ClockTypes' /\ PeriodStart' = PeriodStart
  BY DEF ClockInv, GoesOn, ClockTypes, PeriodStart, clock
<1>2. OverflowSlack' = OverflowSlack
  BY DEF GoesOn, OverflowSlack
<1>3. compare1' => /\ Middle <= counter'
                   /\ counter' <= Middle + busy' + CompareSlack'
  <2>1. CASE Early
    BY <2>1 DEF ClockInv, GoesOn, clock, CompareSlack
  <2>2. CASE ~Early
    BY <2>2, MiddleBounds DEF ClockInv, ClockTypes, GoesOn, clock, CompareSlack
  <2> QED
    BY <2>1, <2>2
<1> QED
  BY <1>1, <1>2, <1>3 DEF ClockInv, GoesOn, clock

LEMMA ReturnsKeeps == ClockInv /\ Returns => ClockInv'
<1> SUFFICES ASSUME ClockInv, Returns PROVE ClockInv'
  OBVIOUS
<1>1. ClockTypes' /\ PeriodStart' = PeriodStart
  BY MiddleBounds DEF ClockInv, Returns, ClockTypes, PeriodStart, clock
<1>2. Early'
  BY DEF Returns, Early
<1>3. OverflowSlack' = Latency /\ OverflowSlack = 0
  BY DEF Returns, OverflowSlack
<1>4. CompareSlack' = Latency /\ CompareSlack = 0
  BY <1>2 DEF Returns, CompareSlack
<1>5. ovrflw' => counter' <= Latency
  BY <1>3, MiddleBounds DEF ClockInv, ClockTypes, Returns, clock
<1>6. compare1' => Middle <= counter' /\ counter' <= Middle + Latency
  BY <1>4, MiddleBounds DEF ClockInv, ClockTypes, Returns, clock
<1> QED
  BY <1>1, <1>3, <1>4, <1>5, <1>6, MiddleBounds DEF ClockInv, Returns, clock

-----------------------------------------------------------------------------
(***************************************************************************)
(* Steps of the clock.                                                     *)
(***************************************************************************)

\* The tick that ends a period, or starts its second half, is the only one that
\* raises the event of it.
LEMMA TickEvents ==
    ASSUME ClockInv, RtcTick
    PROVE  /\ counter' = IF counter = MaxCnt THEN 0 ELSE counter + 1
           /\ ticks' = ticks + 1
           /\ ovrflw' <=> (ovrflw \/ counter' = 0)
           /\ compare1' <=> (compare1 \/ counter' = Middle)
BY DEF RtcTick

LEMMA TickKeeps == ClockInv /\ Tick => ClockInv'
<1> SUFFICES ASSUME ClockInv, Tick PROVE ClockInv'
  OBVIOUS
<1>1. /\ pc' = pc /\ ret' = ret
      /\ m_base_counter' = m_base_counter /\ m_stamp64' = m_stamp64
      /\ Early' <=> Early
  BY DEF Tick, irqVars, clockVars, Early
<1>2. busy' \in 0 .. Latency
  BY MiddleBounds DEF Tick, ClockInv, ClockTypes
<1>3. (pc # "idle" \/ ovrflw \/ compare1) => busy' = busy + 1
  BY DEF Tick, RtcPending
<1>4. /\ counter' = IF counter = MaxCnt THEN 0 ELSE counter + 1
      /\ ticks' = ticks + 1
      /\ ovrflw' <=> (ovrflw \/ counter' = 0)
      /\ compare1' <=> (compare1 \/ counter' = Middle)
  BY TickEvents DEF Tick
<1>5. ClockTypes'
  BY <1>1, <1>2, <1>4, MiddleBounds DEF ClockInv, ClockTypes
<1>6. CASE counter = MaxCnt
  <2>1. ~ovrflw /\ ~compare1
    BY <1>6, MiddleBounds, SlackBounds DEF ClockInv, ClockTypes
  <2>2. counter' = 0 /\ ovrflw' /\ ~compare1'
    BY <1>4, <1>6, <2>1, MiddleBounds
  <2>3. PeriodStart' = PeriodStart + CounterMod
    BY <1>1, <2>1, <2>2, MiddleBounds DEF PeriodStart, ClockInv, ClockTypes
  <2>4. m_stamp64 >= PeriodStart + Middle
    BY <1>6, <2>1, MiddleBounds DEF ClockInv
  <2>5. PeriodStart \in Nat
    BY MiddleBounds DEF PeriodStart, ClockInv, ClockTypes
  <2>6. ticks' = PeriodStart' + counter'
    BY <1>4, <1>6, <2>2, <2>3, <2>5, MiddleBounds DEF ClockInv, ClockTypes
  <2>7. counter' <= busy' + OverflowSlack'
    <3>1. busy' \in Nat /\ OverflowSlack' \in Nat
      BY <1>2, SlackBounds, MiddleBounds
    <3>2. \A a, b \in Nat : 0 <= a + b
      OBVIOUS
    <3>3. 0 <= busy' + OverflowSlack'
      BY <3>1, <3>2
    <3>4. counter' = 0
      BY <2>2
    <3> QED
      BY <3>3, <3>4
  <2>8. m_stamp64' <= ticks'
    BY <1>1, <1>4 DEF ClockInv, ClockTypes
  <2>9. m_stamp64' >= PeriodStart' - CounterMod + Middle
    BY <1>1, <2>3, <2>4, <2>5, MiddleBounds DEF ClockInv, ClockTypes
  <2>10. ~(counter' >= Middle)
    BY <2>2, MiddleBounds
  <2> QED
    BY <1>5, <2>2, <2>6, <2>7, <2>8, <2>9, <2>10 DEF ClockInv
<1>7. CASE counter # MaxCnt
  <2>1. counter' = counter + 1 /\ counter \in Nat
    BY <1>4, <1>7, MiddleBounds DEF ClockInv, ClockTypes
  <2>2. ovrflw' <=> ovrflw
    BY <1>4, <2>1
  <2>3. PeriodStart' = PeriodStart /\ PeriodStart \in Nat
    BY <1>1, <2>2, MiddleBounds DEF PeriodStart, ClockInv, ClockTypes
  <2>4. ticks' = PeriodStart' + counter' /\ m_stamp64' <= ticks'
    BY <1>1, <1>4, <2>1, <2>3 DEF ClockInv, ClockTypes
  <2>5. ovrflw' => counter' <= busy' + OverflowSlack'
    BY <1>1, <1>2, <1>3, <2>1, <2>2, MiddleBounds DEF ClockInv, ClockTypes, OverflowSlack
  <2>6. compare1' => /\ Middle <= counter'
                     /\ counter' <= Middle + busy' + CompareSlack'
    <3>1. CASE compare1
      BY <1>1, <1>2, <1>3, <2>1, <3>1, MiddleBounds DEF ClockInv, ClockTypes, CompareSlack
    <3>2. CASE ~compare1 /\ counter' = Middle
      <4>1. busy' \in Nat /\ CompareSlack' \in Nat
        BY <1>2, SlackBounds, MiddleBounds
      <4>2. \A a, b, c \in Nat : a <= a + b + c
        OBVIOUS
      <4>3. Middle <= Middle + busy' + CompareSlack'
        BY <4>1, <4>2, MiddleBounds
      <4>4. counter' = Middle
        BY <3>2
      <4> QED
        BY <4>3, <4>4, MiddleBounds
    <3> QED
      BY <1>4, <3>1, <3>2
  <2>7. PeriodStart' >= CounterMod => m_stamp64' >= PeriodStart' - CounterMod + Middle
    BY <1>1, <2>3 DEF ClockInv
  <2>8. (counter' >= Middle /\ ~compare1') => m_stamp64' >= PeriodStart' + Middle
    BY <1>1, <1>4, <2>1, <2>3, MiddleBounds DEF ClockInv
  <2> QED
    BY <1>5, <2>4, <2>5, <2>6, <2>7, <2>8 DEF ClockInv
<1> QED
  BY <1>6, <1>7

LEMMA OverflowKeeps == ClockInv /\ on_overflow_evt => ClockInv'
<1> SUFFICES ASSUME ClockInv, on_overflow_evt PROVE ClockInv'
  OBVIOUS
<1>1. /\ pc = "idle" /\ pc' = "compare0" /\ ~ovrflw'
      /\ m_base_counter' = m_base_counter + (IF ovrflw THEN CounterMod ELSE 0)
      /\ counter' = counter /\ compare1' = compare1 /\ ticks' = ticks
      /\ ret' = ret /\ m_stamp64' = m_stamp64 /\ busy' = busy
  BY DEF on_overflow_evt
<1>2. PeriodStart' = PeriodStart /\ PeriodStart \in Nat
  BY <1>1, MiddleBounds DEF PeriodStart, ClockInv, ClockTypes
<1>3. ClockTypes'
  BY <1>1, MiddleBounds DEF ClockInv, ClockTypes
<1>4. CompareSlack' = CompareSlack
  BY <1>1 DEF CompareSlack, Early
<1> QED
  BY <1>1, <1>2, <1>3, <1>4 DEF ClockInv

LEMMA CompareOneKeeps == ClockInv /\ on_compare1_evt => ClockInv'
<1> SUFFICES ASSUME ClockInv, on_compare1_evt PROVE ClockInv'
  OBVIOUS
<1>1. /\ pc = "compare1" /\ pc' = "req" /\ ~compare1'
      /\ m_stamp64' = IF compare1 THEN Now ELSE m_stamp64
      /\ counter' = counter /\ ovrflw' = ovrflw /\ ticks' = ticks
      /\ ret' = ret /\ m_base_counter' = m_base_counter /\ busy' = busy
  BY DEF on_compare1_evt
<1>2. Now = ticks
  BY InvGivesClock DEF ClockIsRight
<1>3. PeriodStart' = PeriodStart /\ PeriodStart \in Nat
  BY <1>1, MiddleBounds DEF PeriodStart, ClockInv, ClockTypes
<1>4. ClockTypes'
  BY <1>1, <1>2, MiddleBounds DEF ClockInv, ClockTypes
<1>5. OverflowSlack' = OverflowSlack
  BY <1>1 DEF OverflowSlack
<1>6. CASE compare1
  <2>1. m_stamp64' = ticks /\ Middle <= counter
    BY <1>1, <1>2, <1>6 DEF ClockInv
  <2> QED
    BY <1>1, <1>3, <1>4, <1>5, <2>1, MiddleBounds DEF ClockInv, ClockTypes
<1>7. CASE ~compare1
  BY <1>1, <1>3, <1>4, <1>5, <1>7, MiddleBounds DEF ClockInv, ClockTypes
<1> QED
  BY <1>6, <1>7

-----------------------------------------------------------------------------
(***************************************************************************)
(* Every other step leaves the clock alone.                                *)
(***************************************************************************)

\* Where timer_expire goes on from.
LEMMA ExpireGoesOn ==
    ASSUME ClockTypes, NEW t, NEW list, NEW next,
           timer_expire(t, list, next),
           \/ next = "compare1" /\ pc = "compare0"
           \/ next = "update" /\ pc \in {"update", "write", "check"}
    PROVE  /\ pc' # "idle" /\ pc # "idle"
           /\ ret' \in {"compare1", "update"}
           /\ Early => Early'
BY DEF timer_expire, Early, ClockTypes

LEMMA ApiGoesOn == ClockTypes /\ API => GoesOn
<1> SUFFICES ASSUME ClockTypes, API PROVE GoesOn
  OBVIOUS
<1>1. UNCHANGED <<clock, pc, ret, busy>>
  BY DEF API, app_timer_start, app_timer_stop, app_timer_stop_all, Pause, Resume,
         clock, clockVars, irqVars
<1> QED
  BY <1>1 DEF GoesOn, ClockTypes, Early

LEMMA CompareGoesOn == ClockTypes /\ on_compare_evt => GoesOn
<1> SUFFICES ASSUME ClockTypes, on_compare_evt PROVE GoesOn
  OBVIOUS
<1>1. UNCHANGED <<clock, busy>> /\ pc = "compare0"
  BY DEF on_compare_evt, clock, clockVars
<1>2. CASE timer_expire(mp_active_timer, m_app_timer_sortlist, "compare1")
  <2>1. /\ pc' # "idle" /\ pc # "idle"
        /\ ret' \in {"compare1", "update"}
        /\ Early => Early'
    BY <1>1, <1>2 DEF timer_expire, Early, ClockTypes
  <2> QED
    BY <1>1, <2>1 DEF GoesOn
<1>3. CASE pc' = "compare1" /\ ret' = ret
  BY <1>1, <1>3 DEF GoesOn, Early, ClockTypes
<1> QED
  BY <1>2, <1>3 DEF on_compare_evt

LEMMA HandlerReturnGoesOn == ClockTypes /\ HandlerReturn => GoesOn
BY DEF HandlerReturn, GoesOn, ClockTypes, Early, clock, clockVars, rtcVars

LEMMA RequestGoesOn == ClockTypes /\ Request => GoesOn
BY DEF Request, ReqStart, ReqStop, ReqStopAll, ReqDone, TakeRequest, ReqVars,
       GoesOn, ClockTypes, Early, clock, clockVars, rtcVars

LEMMA UpdateQuiet == ClockTypes /\ Update => GoesOn \/ Returns
<1> SUFFICES ASSUME ClockTypes, Update PROVE GoesOn \/ Returns
  OBVIOUS
<1>1. CASE UpdateDrop
  BY <1>1 DEF UpdateDrop, GoesOn, ClockTypes, Early, clock, clockVars, rtcVars, irqVars
<1>2. CASE UpdateEmpty
  BY <1>2 DEF UpdateEmpty, IrqReturn, Returns, Early, clock, clockVars
<1>3. CASE UpdateKeep
  BY <1>3 DEF UpdateKeep, IrqReturn, Returns, Early, clock, clockVars, rtcVars
<1>4. CASE UpdateActivate
  <2>1. UNCHANGED <<clock, busy>> /\ pc = "update"
    BY <1>4 DEF UpdateActivate, clock, clockVars
  <2>2. \/ pc' = "window" /\ ret' = ret
        \/ timer_expire(Head(ListWithActive), Tail(ListWithActive), "update")
    BY <1>4 DEF UpdateActivate
  <2> QED
    BY <2>1, <2>2, ExpireGoesOn DEF GoesOn, ClockTypes, Early
<1> QED
  BY <1>1, <1>2, <1>3, <1>4 DEF Update

LEMMA SchedulingQuiet == ClockTypes /\ (Window \/ Write \/ Check) => GoesOn \/ Returns
<1> SUFFICES ASSUME ClockTypes, Window \/ Write \/ Check PROVE GoesOn \/ Returns
  OBVIOUS
<1>1. CASE Window
  BY <1>1 DEF Window, GoesOn, ClockTypes, Early, clock, clockVars
<1>2. CASE Write
  <2>1. UNCHANGED clock /\ pc = "write"
    BY <1>2 DEF Write, WindowVars, clock, clockVars
  <2>2. \/ NotScheduled
        \/ pc' = "check" /\ UNCHANGED <<ret, busy>>
        \/ Scheduled
    BY <1>2 DEF Write
  <2>3. CASE NotScheduled
    BY <2>1, <2>3, ExpireGoesOn DEF NotScheduled, GoesOn
  <2> QED
    BY <2>1, <2>2, <2>3 DEF Scheduled, IrqReturn, Returns, GoesOn, ClockTypes, Early
<1>3. CASE Check
  <2>1. UNCHANGED clock /\ pc = "check"
    BY <1>3 DEF Check, WindowVars, clock, clockVars
  <2>2. NotScheduled \/ Scheduled
    BY <1>3 DEF Check
  <2>3. CASE NotScheduled
    BY <2>1, <2>3, ExpireGoesOn DEF NotScheduled, GoesOn
  <2> QED
    BY <2>1, <2>2, <2>3 DEF Scheduled, IrqReturn, Returns, Early
<1> QED
  BY <1>1, <1>2, <1>3

-----------------------------------------------------------------------------

\* The base, the pending overflow and the counter always add up to the time, the
\* stamp is of this period or the one before, and both events are served early in
\* their half of the period.
THEOREM ClockInvariant == Spec => []ClockInv
<1>1. Init => ClockInv
  BY MiddleBounds DEF Init, RtcInit, ClockInv, ClockTypes, PeriodStart
<1>2. ASSUME ClockInv, [Next]_vars PROVE ClockInv'
  <2>0. ClockTypes
    BY <1>2 DEF ClockInv
  <2>1. CASE Tick
    BY <1>2, <2>1, TickKeeps
  <2>2. CASE API
    BY <1>2, <2>0, <2>2, ApiGoesOn, GoesOnKeeps
  <2>3. CASE on_overflow_evt
    BY <1>2, <2>3, OverflowKeeps
  <2>4. CASE on_compare_evt
    BY <1>2, <2>0, <2>4, CompareGoesOn, GoesOnKeeps
  <2>5. CASE on_compare1_evt
    BY <1>2, <2>5, CompareOneKeeps
  <2>6. CASE Request
    BY <1>2, <2>0, <2>6, RequestGoesOn, GoesOnKeeps
  <2>7. CASE Update
    BY <1>2, <2>0, <2>7, UpdateQuiet, GoesOnKeeps, ReturnsKeeps
  <2>8. CASE Window \/ Write \/ Check
    BY <1>2, <2>0, <2>8, SchedulingQuiet, GoesOnKeeps, ReturnsKeeps
  <2>9. CASE HandlerReturn
    BY <1>2, <2>0, <2>9, HandlerReturnGoesOn, GoesOnKeeps
  <2>10. CASE UNCHANGED vars
    <3>1. GoesOn
      BY <2>0, <2>10 DEF vars, rtcVars, irqVars, clockVars, GoesOn, ClockTypes, Early, clock
    <3> QED
      BY <1>2, <3>1, GoesOnKeeps
  <2> QED
    BY <1>2, <2>1, <2>2, <2>3, <2>4, <2>5, <2>6, <2>7, <2>8, <2>9, <2>10 DEF Next, rtc_irq
<1> QED
  BY <1>1, <1>2, PTL DEF Spec

\* get_now returns the time at every moment: a stamp per period is enough to tell
\* that an overflow is pending, for any period and any timers.
THEOREM ClockCorrect == Spec => []ClockIsRight
BY ClockInvariant, InvGivesClock, PTL

-----------------------------------------------------------------------------
(***************************************************************************)
(* Types: the registers and the parts that the actions share.              *)
(***************************************************************************)

RtcFlags ==
    /\ running \in BOOLEAN /\ evten0 \in BOOLEAN /\ inten0 \in BOOLEAN
    /\ near \in BOOLEAN /\ stale \in BOOLEAN /\ early \in BOOLEAN
    /\ compare0 \in BOOLEAN /\ compare1 \in BOOLEAN
    /\ ovrflw \in BOOLEAN /\ triggered \in BOOLEAN

LEMMA Masked == \A a \in Int : a % CounterMod \in 0 .. MaxCnt
BY CounterModAssumption DEF MaxCnt

LEMMA Flags == RtcTypeOK <=> /\ counter \in 0 .. MaxCnt /\ cc0 \in 0 .. MaxCnt
                             /\ ticks \in Nat /\ RtcFlags
BY DEF RtcTypeOK, RtcFlags

LEMMA TickFlags == RtcFlags /\ RtcTick => RtcFlags'
<1> SUFFICES ASSUME RtcFlags, RtcTick PROVE RtcFlags'
  OBVIOUS
<1>1. ovrflw' \in BOOLEAN /\ compare1' \in BOOLEAN
  BY DEF RtcTick
<1>2. compare0' \in BOOLEAN /\ early' \in BOOLEAN
  BY DEF RtcTick
<1>3. near' \in BOOLEAN /\ stale' \in BOOLEAN /\ UNCHANGED <<running, evten0, inten0, triggered>>
  BY DEF RtcTick
<1> QED
  BY <1>1, <1>2, <1>3 DEF RtcFlags

LEMMA WriteFlag == \A v : CcWrite(v) => near' \in BOOLEAN
BY DEF CcWrite

TypeInv == TypeOK /\ (Leaving <=> p_next # None)

LEMMA NowIsNat == TypeOK => Now \in Nat
BY CounterModAssumption DEF TypeOK, RtcTypeOK, MaxCnt, Now

LEMMA RequestTyped ==
    ASSUME TypeOK, NEW req \in Requests, timer_req_schedule(req)
    PROVE  m_req_fifo' \in Seq(Requests) /\ triggered' \in BOOLEAN
<1>1. m_req_fifo \in Seq(Requests) /\ triggered \in BOOLEAN
  BY Flags DEF TypeOK, RtcFlags
<1>2. m_req_fifo' \in {m_req_fifo, Append(m_req_fifo, req)}
  BY DEF timer_req_schedule
<1>3. m_req_fifo' \in Seq(Requests)
  BY <1>1, <1>2
<1>4. triggered' = triggered \/ triggered' = TRUE
  BY DEF timer_req_schedule, drv_rtc_irq_trigger
<1> QED
  BY <1>1, <1>3, <1>4

LEMMA ExpireTyped ==
    ASSUME TypeInv, NEW t \in Timers, NEW list \in Seq(Timers),
           NEW next \in {"compare1", "update"}, timer_expire(t, list, next)
    PROVE  /\ pc' \in Places /\ ret' \in {"compare1", "update"}
           /\ p_next' \in Timers \cup {None} /\ (Leaving <=> p_next # None)'
           /\ mp_active_timer' \in Timers \cup {None}
           /\ m_app_timer_sortlist' \in Seq(Timers)
           /\ end_val' \in [Timers -> Nat]
<1>1. t # None /\ Idle \in Nat
  BY TimersAssumption, BoundsAssumption
<1>2. CASE m_global_active /\ Now >= end_val[t]
  <2>1. /\ pc' = "handler" /\ ret' = next /\ p_next' = t
        /\ m_app_timer_sortlist' = list /\ UNCHANGED mp_active_timer
        /\ end_val' \in {[end_val EXCEPT ![t] = Idle], end_val}
    BY <1>2 DEF timer_expire
  <2>2. end_val' \in [Timers -> Nat]
    BY <1>1, <2>1 DEF TypeInv, TypeOK
  <2> QED
    BY <1>1, <2>1, <2>2 DEF TypeInv, TypeOK, Places, Leaving
<1>3. CASE ~(m_global_active /\ Now >= end_val[t])
  <2>1. /\ m_app_timer_sortlist' \in {sortlist_add(list, t, end_val), list}
        /\ pc' = next /\ p_next' = None /\ mp_active_timer' = None
        /\ UNCHANGED <<end_val, ret>>
    BY <1>3 DEF timer_expire
  <2>2. m_app_timer_sortlist' \in Seq(Timers)
    BY <2>1, SortedAdd
  <2> QED
    BY <2>1, <2>2 DEF TypeInv, TypeOK, Places, Leaving
<1> QED
  BY <1>2, <1>3

LEMMA TickTyped ==
    ASSUME TypeInv, Tick
    PROVE  TypeInv'
<1>1. /\ counter' \in 0 .. MaxCnt /\ ticks' \in Nat /\ UNCHANGED cc0
  BY CounterModAssumption DEF Tick, RtcTick, TypeInv, TypeOK, RtcTypeOK, MaxCnt
<1>2. RtcTypeOK'
  BY <1>1, Flags, TickFlags DEF Tick, TypeInv, TypeOK, RtcTypeOK, RtcFlags
<1>3. busy' \in 0 .. Latency
  BY BoundsAssumption DEF Tick, TypeInv, TypeOK
<1>4. UNCHANGED <<irqVars, clockVars, userVars, listVars>>
  BY DEF Tick
<1> QED
  BY <1>2, <1>3, <1>4 DEF TypeInv, TypeOK, Leaving, irqVars, clockVars, userVars, listVars

LEMMA StartTyped ==
    ASSUME TypeInv, NEW t \in Timers, NEW d \in Delays, app_timer_start(t, d)
    PROVE  TypeInv'
<1>1. Now + d \in Nat /\ d \in Nat
  BY NowIsNat, DelaysAssumption DEF TypeInv
<1>2. end_val' \in [Timers -> Nat] /\ repeat_period' \in [Timers -> Nat]
  BY <1>1 DEF app_timer_start, TypeInv, TypeOK
<1>3. m_req_fifo' \in Seq(Requests) /\ triggered' \in BOOLEAN
  <2>1. [type |-> "START", timer |-> t] \in Requests
    BY DEF Requests
  <2> QED
    BY <2>1, RequestTyped DEF app_timer_start, TypeInv
<1>4. UNCHANGED <<counter, running, cc0, evten0, inten0, near, stale, compare0, early, compare1,
                  ovrflw, ticks, irqVars, clockVars, listVars, busy>>
  BY DEF app_timer_start
<1>5. RtcTypeOK'
  BY <1>3, <1>4, Flags DEF TypeInv, TypeOK, RtcTypeOK, RtcFlags
<1> QED
  BY <1>2, <1>3, <1>4, <1>5 DEF TypeInv, TypeOK, Leaving, irqVars, clockVars, listVars

LEMMA StopTyped ==
    ASSUME TypeInv, NEW t \in Timers, app_timer_stop(t)
    PROVE  TypeInv'
<1>1. end_val' \in [Timers -> Nat]
  BY BoundsAssumption DEF app_timer_stop, TypeInv, TypeOK
<1>2. m_req_fifo' \in Seq(Requests) /\ triggered' \in BOOLEAN
  <2>1. [type |-> "STOP", timer |-> t] \in Requests
    BY DEF Requests
  <2> QED
    BY <2>1, RequestTyped DEF app_timer_stop, TypeInv
<1>3. UNCHANGED <<counter, running, cc0, evten0, inten0, near, stale, compare0, early, compare1,
                  ovrflw, ticks, irqVars, clockVars, listVars, busy, repeat_period>>
  BY DEF app_timer_stop
<1>4. RtcTypeOK'
  BY <1>2, <1>3, Flags DEF TypeInv, TypeOK, RtcTypeOK, RtcFlags
<1> QED
  BY <1>1, <1>2, <1>3, <1>4 DEF TypeInv, TypeOK, Leaving, irqVars, clockVars, listVars

LEMMA StopAllTyped ==
    ASSUME TypeInv, app_timer_stop_all
    PROVE  TypeInv'
<1>1. m_req_fifo' \in Seq(Requests) /\ triggered' \in BOOLEAN
  <2>1. [type |-> "STOP_ALL", timer |-> None] \in Requests
    BY DEF Requests
  <2> QED
    BY <2>1, RequestTyped DEF app_timer_stop_all, TypeInv
<1>2. /\ UNCHANGED <<counter, running, cc0, evten0, inten0, near, stale, compare0, early,
                     compare1, ovrflw, ticks, irqVars, clockVars, mp_active_timer,
                     m_app_timer_sortlist, end_val, repeat_period, busy>>
      /\ m_global_active' = FALSE
  BY DEF app_timer_stop_all
<1>3. RtcTypeOK'
  BY <1>1, <1>2, Flags DEF TypeInv, TypeOK, RtcTypeOK, RtcFlags
<1> QED
  BY <1>1, <1>2, <1>3 DEF TypeInv, TypeOK, Leaving, irqVars, clockVars

LEMMA PauseTyped ==
    ASSUME TypeInv, Pause \/ Resume
    PROVE  TypeInv'
<1>1. /\ running' \in BOOLEAN
      /\ UNCHANGED <<counter, cc0, evten0, inten0, near, stale, compare0, early, compare1,
                     ovrflw, triggered, ticks, irqVars, clockVars, userVars, listVars, busy>>
  BY DEF Pause, Resume, drv_rtc_start, drv_rtc_stop
<1>2. RtcTypeOK'
  BY <1>1, Flags DEF TypeInv, TypeOK, RtcTypeOK, RtcFlags
<1> QED
  BY <1>1, <1>2 DEF TypeInv, TypeOK, Leaving, irqVars, clockVars, userVars, listVars

LEMMA OverflowTyped ==
    ASSUME TypeInv, on_overflow_evt
    PROVE  TypeInv'
<1>1. m_base_counter' \in Nat
  BY CounterModAssumption DEF on_overflow_evt, TypeInv, TypeOK
<1>2. /\ ovrflw' = FALSE /\ triggered' = FALSE /\ pc = "idle" /\ pc' = "compare0"
      /\ UNCHANGED <<counter, running, cc0, evten0, inten0, near, stale, compare0, early,
                     compare1, ticks, ret, p_next, cc_val, seen, m_stamp64, userVars, listVars,
                     busy>>
  BY DEF on_overflow_evt
<1>3. RtcTypeOK'
  BY <1>2, Flags DEF TypeInv, TypeOK, RtcTypeOK, RtcFlags
<1> QED
  BY <1>1, <1>2, <1>3 DEF TypeInv, TypeOK, Leaving, Places, userVars, listVars

LEMMA CompareTyped ==
    ASSUME TypeInv, on_compare_evt
    PROVE  TypeInv'
<1>1. /\ compare0' = FALSE /\ early' = FALSE /\ pc = "compare0"
      /\ UNCHANGED <<counter, running, cc0, evten0, inten0, near, stale, compare1, ovrflw,
                     triggered, ticks, cc_val, seen, clockVars, busy, m_global_active,
                     m_req_fifo, repeat_period>>
  BY DEF on_compare_evt
<1>2. RtcTypeOK'
  BY <1>1, Flags DEF TypeInv, TypeOK, RtcTypeOK, RtcFlags
<1>3. CASE compare0 /\ mp_active_timer # None
  <2>1. /\ timer_expire(mp_active_timer, m_app_timer_sortlist, "compare1")
        /\ mp_active_timer \in Timers /\ m_app_timer_sortlist \in Seq(Timers)
    BY <1>3 DEF on_compare_evt, TypeInv, TypeOK
  <2> QED
    BY <1>1, <1>2, <2>1, ExpireTyped DEF TypeInv, TypeOK, clockVars
<1>4. CASE ~(compare0 /\ mp_active_timer # None)
  <2>1. /\ pc' = "compare1"
        /\ UNCHANGED <<ret, p_next, end_val, mp_active_timer, m_app_timer_sortlist>>
    BY <1>4 DEF on_compare_evt
  <2> QED
    BY <1>1, <1>2, <2>1 DEF TypeInv, TypeOK, Leaving, Places, clockVars
<1> QED
  BY <1>3, <1>4

LEMMA Compare1Typed ==
    ASSUME TypeInv, on_compare1_evt
    PROVE  TypeInv'
<1>1. /\ compare1' = FALSE /\ pc = "compare1" /\ pc' = "req"
      /\ UNCHANGED <<counter, running, cc0, evten0, inten0, near, stale, compare0, early,
                     ovrflw, triggered, ticks, ret, p_next, cc_val, seen, m_base_counter,
                     userVars, listVars, busy>>
  BY DEF on_compare1_evt
<1>2. m_stamp64' \in Nat
  BY NowIsNat DEF on_compare1_evt, TypeInv, TypeOK
<1>3. RtcTypeOK'
  BY <1>1, Flags DEF TypeInv, TypeOK, RtcTypeOK, RtcFlags
<1> QED
  BY <1>1, <1>2, <1>3 DEF TypeInv, TypeOK, Leaving, Places, userVars, listVars

LEMMA RequestsTyped ==
    ASSUME TypeInv, Request
    PROVE  TypeInv'
<1>1. /\ UNCHANGED <<rtcVars, ret, p_next, cc_val, seen, clockVars, repeat_period, busy>>
      /\ pc = "req" /\ pc' \in {"req", "update"}
      /\ m_req_fifo' \in Seq(Requests)
      /\ m_req_fifo # <<>> => Head(m_req_fifo) \in Requests
  <2>1. /\ UNCHANGED <<rtcVars, ret, p_next, cc_val, seen, clockVars, repeat_period, busy>>
        /\ pc = "req" /\ pc' \in {"req", "update"}
        /\ \/ m_req_fifo # <<>> /\ m_req_fifo' = Tail(m_req_fifo)
           \/ UNCHANGED m_req_fifo
    BY DEF Request, ReqStart, ReqStop, ReqStopAll, ReqDone, TakeRequest, ReqVars, userVars
  <2>2. m_req_fifo \in Seq(Requests)
    BY DEF TypeInv, TypeOK
  <2> QED
    BY <2>1, <2>2
<1>2. RtcTypeOK'
  BY <1>1 DEF TypeInv, TypeOK, RtcTypeOK, rtcVars
<1>3. /\ m_app_timer_sortlist' \in Seq(Timers)
      /\ end_val' \in [Timers -> Nat]
      /\ mp_active_timer' \in Timers \cup {None}
      /\ m_global_active' \in BOOLEAN
  <2>1. CASE ReqStart
    <3>1. /\ Head(m_req_fifo).timer \in Timers
          /\ m_app_timer_sortlist' \in {m_app_timer_sortlist,
                sortlist_add(m_app_timer_sortlist, Head(m_req_fifo).timer, end_val)}
          /\ UNCHANGED <<mp_active_timer, m_global_active, end_val>>
      BY <1>1, <2>1 DEF ReqStart, TakeRequest, Requests
    <3> QED
      BY <3>1, SortedAdd DEF TypeInv, TypeOK
  <2>2. CASE ReqStop
    <3>1. /\ m_app_timer_sortlist' \in {m_app_timer_sortlist,
                sortlist_remove(m_app_timer_sortlist, Head(m_req_fifo).timer)}
          /\ mp_active_timer' \in {mp_active_timer, None}
          /\ UNCHANGED <<m_global_active, end_val>>
      BY <2>2 DEF ReqStop
    <3> QED
      BY <3>1, Removed DEF TypeInv, TypeOK
  <2>3. CASE ReqStopAll
    <3>1. /\ m_app_timer_sortlist' = <<>> /\ m_global_active' = TRUE /\ UNCHANGED mp_active_timer
          /\ end_val' \in [Timers -> Nat]
      BY <2>3, BoundsAssumption DEF ReqStopAll, TypeInv, TypeOK
    <3> QED
      BY <3>1 DEF TypeInv, TypeOK
  <2>4. CASE ReqDone
    BY <2>4 DEF ReqDone, userVars, listVars, TypeInv, TypeOK
  <2> QED
    BY <2>1, <2>2, <2>3, <2>4 DEF Request
<1> QED
  BY <1>1, <1>2, <1>3 DEF TypeInv, TypeOK, Leaving, Places, clockVars

LEMMA UpdateTyped ==
    ASSUME TypeInv, UpdateDrop \/ UpdateEmpty \/ UpdateKeep
    PROVE  TypeInv'
<1>1. /\ running' = running \/ running' = FALSE
      /\ UNCHANGED <<counter, cc0, evten0, inten0, near, stale, compare0, early, compare1,
                     ovrflw, triggered, ticks, ret, p_next, cc_val, seen, clockVars, userVars,
                     mp_active_timer, m_global_active>>
      /\ pc = "update" /\ pc' \in {"update", "idle"}
      /\ busy' \in {busy, 0}
      /\ \/ UNCHANGED m_app_timer_sortlist
         \/ m_app_timer_sortlist # <<>> /\ m_app_timer_sortlist' = Tail(m_app_timer_sortlist)
  <2>1. CASE UpdateDrop
    BY <2>1 DEF UpdateDrop, rtcVars, irqVars
  <2>2. CASE UpdateEmpty
    BY <2>2 DEF UpdateEmpty, IrqReturn, drv_rtc_stop, listVars
  <2>3. CASE UpdateKeep
    BY <2>3 DEF UpdateKeep, IrqReturn, rtcVars, listVars
  <2> QED
    BY <2>1, <2>2, <2>3
<1>2. m_app_timer_sortlist' \in Seq(Timers) /\ busy' \in 0 .. Latency
  <2>1. m_app_timer_sortlist \in Seq(Timers) /\ busy \in 0 .. Latency
    BY DEF TypeInv, TypeOK
  <2>2. m_app_timer_sortlist' \in Seq(Timers)
    BY <1>1, <2>1
  <2>3. busy' \in 0 .. Latency
    BY <1>1, <2>1, BoundsAssumption
  <2> QED
    BY <2>2, <2>3
<1>3. RtcTypeOK'
  BY <1>1, Flags DEF TypeInv, TypeOK, RtcTypeOK, RtcFlags
<1> QED
  BY <1>1, <1>2, <1>3 DEF TypeInv, TypeOK, Leaving, Places, clockVars, userVars

LEMMA ActivateTyped ==
    ASSUME TypeInv, UpdateActivate
    PROVE  TypeInv'
<1> DEFINE t == Head(ListWithActive)
           list == Tail(ListWithActive)
           remaining == end_val[t] - Now
<1>1. /\ UNCHANGED <<counter, running, cc0, near, stale, compare0, early, compare1, ovrflw,
                     triggered, ticks, clockVars, busy, m_global_active, m_req_fifo,
                     repeat_period>>
      /\ seen' \in {seen, counter}
      /\ pc = "update" /\ m_app_timer_sortlist # <<>>
  BY DEF UpdateActivate
<1>2. t \in Timers /\ list \in Seq(Timers)
  <2>1. ListWithActive \in Seq(Timers) /\ ListWithActive # <<>>
    <3>1. CASE mp_active_timer # None /\ end_val[mp_active_timer] # Idle
      <4>1. /\ ListWithActive = sortlist_add(m_app_timer_sortlist, mp_active_timer, end_val)
            /\ mp_active_timer \in Timers /\ m_app_timer_sortlist \in Seq(Timers)
        BY <3>1 DEF ListWithActive, TypeInv, TypeOK
      <4> QED
        BY <4>1, SortedAdd DEF Contains
    <3>2. CASE ~(mp_active_timer # None /\ end_val[mp_active_timer] # Idle)
      BY <1>1, <3>2 DEF ListWithActive, TypeInv, TypeOK
    <3> QED
      BY <3>1, <3>2
  <2> QED
    BY <2>1, Shortened
<1>5. seen' \in 0 .. MaxCnt
  BY <1>1 DEF TypeInv, TypeOK, RtcTypeOK
<1>3. CASE remaining > 0
  <2>1. /\ cc_val' = (IF remaining > MaxCnt - SafeWindow
                        THEN counter + (MaxCnt - SafeWindow) ELSE end_val[t]) % CounterMod
        /\ pc' = "window" /\ p_next' = t /\ m_app_timer_sortlist' = list
        /\ UNCHANGED <<evten0, inten0, ret, end_val, mp_active_timer>>
    BY <1>3 DEF UpdateActivate
  <2>2. /\ counter + (MaxCnt - SafeWindow) \in Int /\ end_val[t] \in Int
    BY <1>2, CounterModAssumption, SafeWindowAssumption DEF TypeInv, TypeOK, RtcTypeOK, MaxCnt
  <2>3. cc_val' \in 0 .. MaxCnt
    BY <2>1, <2>2, Masked
  <2>4. RtcTypeOK'
    BY <1>1, <2>1, Flags DEF TypeInv, TypeOK, RtcTypeOK, RtcFlags
  <2> HIDE DEF t, list
  <2> QED
    BY <1>1, <1>2, <1>5, <2>1, <2>3, <2>4, TimersAssumption
       DEF TypeInv, TypeOK, Leaving, Places, clockVars
<1>4. CASE ~(remaining > 0)
  <2>1. /\ timer_expire(t, list, "update")
        /\ evten0' = FALSE /\ inten0' = FALSE
        /\ UNCHANGED cc_val
    BY <1>4 DEF UpdateActivate, drv_rtc_compare_disable
  <2>2. RtcTypeOK'
    BY <1>1, <2>1, Flags DEF TypeInv, TypeOK, RtcTypeOK, RtcFlags
  <2> HIDE DEF t, list
  <2> QED
    BY <1>1, <1>2, <1>5, <2>1, <2>2, ExpireTyped DEF TypeInv, TypeOK, clockVars
<1> QED
  BY <1>3, <1>4

LEMMA WindowTyped ==
    ASSUME TypeInv, Window
    PROVE  TypeInv'
<1>1. /\ compare0' = FALSE /\ early' = FALSE /\ evten0' = TRUE /\ inten0' = FALSE
      /\ CcWrite(IF ticks_sub(cc_val, counter) = 1 THEN cc_val + 1 ELSE seen)
      /\ stale' \in BOOLEAN
      /\ seen' = counter
      /\ pc = "window" /\ pc' \in {"check", "write"}
      /\ UNCHANGED <<counter, running, compare1, ovrflw, triggered, ticks, ret, p_next,
                     cc_val, clockVars, userVars, listVars, busy>>
  BY DEF Window, WindowOpen
<1>2. cc_val + 1 \in Int /\ seen \in Int
  BY CounterModAssumption DEF TypeInv, TypeOK, RtcTypeOK, MaxCnt
<1>3. cc0' \in 0 .. MaxCnt /\ near' \in BOOLEAN
  BY <1>1, <1>2, Masked, WriteFlag DEF CcWrite
<1>4. RtcTypeOK'
  BY <1>1, <1>3, Flags DEF TypeInv, TypeOK, RtcTypeOK, RtcFlags
<1> QED
  BY <1>1, <1>4 DEF TypeInv, TypeOK, RtcTypeOK, Leaving, Places, clockVars, userVars, listVars

\* The end of rtc_schedule, with the compare register as it was left.
LEMMA EndTyped ==
    ASSUME TypeInv, pc \in {"write", "check"}, Scheduled \/ NotScheduled,
           UNCHANGED <<WindowVars, compare0, early>>, cc0' \in 0 .. MaxCnt,
           near' \in BOOLEAN, stale' \in BOOLEAN
    PROVE  TypeInv'
<1>1. UNCHANGED <<counter, evten0, compare1, ovrflw, triggered, ticks, clockVars,
                  m_global_active, m_req_fifo, repeat_period, compare0, early>>
  BY DEF WindowVars
<1>2. p_next \in Timers /\ m_app_timer_sortlist \in Seq(Timers)
  BY DEF TypeInv, TypeOK, Leaving
<1>3. cc_val' = 0 /\ seen' = 0 /\ 0 \in 0 .. MaxCnt
  BY CounterModAssumption DEF Scheduled, NotScheduled, NoLocals, MaxCnt
<1>4. CASE Scheduled
  <2>1. /\ inten0' = TRUE /\ running' = (running \/ mp_active_timer = None)
        /\ mp_active_timer' = p_next /\ p_next' = None
        /\ pc' = "idle" /\ busy' = 0
        /\ UNCHANGED <<ret, end_val, m_app_timer_sortlist>>
    BY <1>4 DEF Scheduled, IrqReturn
  <2>2. running' \in BOOLEAN
    BY <2>1
  <2>3. RtcTypeOK'
    BY <1>1, <2>1, <2>2, Flags DEF TypeInv, TypeOK, RtcTypeOK, RtcFlags
  <2>4. busy' \in 0 .. Latency
    BY <2>1, BoundsAssumption
  <2> QED
    BY <1>1, <1>2, <1>3, <2>1, <2>3, <2>4 DEF TypeInv, TypeOK, Leaving, Places, clockVars
<1>5. CASE NotScheduled
  <2>1. /\ timer_expire(p_next, m_app_timer_sortlist, "update")
        /\ UNCHANGED <<inten0, running, busy>>
    BY <1>5 DEF NotScheduled
  <2>2. RtcTypeOK'
    BY <1>1, <2>1, Flags DEF TypeInv, TypeOK, RtcTypeOK, RtcFlags
  <2> QED
    BY <1>1, <1>2, <1>3, <2>1, <2>2, ExpireTyped DEF TypeInv, TypeOK, clockVars
<1> QED
  BY <1>4, <1>5

LEMMA WriteTyped ==
    ASSUME TypeInv, Write
    PROVE  TypeInv'
<1>1. cc_val \in Int /\ cc_val + 1 \in Int
  BY CounterModAssumption DEF TypeInv, TypeOK, MaxCnt
<1>2. /\ pc = "write" /\ UNCHANGED <<WindowVars, compare0, early>>
      /\ CcWrite(cc_val) \/ CcWrite(cc_val + 1)
      /\ stale' = stale \/ stale' = TRUE
  BY DEF Write
<1>3. cc0' \in 0 .. MaxCnt /\ near' \in BOOLEAN
  BY <1>1, <1>2, Masked, WriteFlag DEF CcWrite
<1>6. stale' \in BOOLEAN
  BY <1>2, Flags DEF TypeInv, TypeOK, RtcFlags
<1>4. CASE Scheduled \/ NotScheduled
  BY <1>2, <1>3, <1>4, <1>6, EndTyped
<1>5. CASE /\ seen' = counter /\ pc' = "check"
           /\ UNCHANGED <<inten0, running, ret, p_next, cc_val, mp_active_timer, end_val,
                          m_app_timer_sortlist, busy>>
  <2>1. RtcTypeOK'
    BY <1>2, <1>3, <1>5, <1>6, Flags DEF TypeInv, TypeOK, RtcTypeOK, RtcFlags, WindowVars
  <2> QED
    BY <1>2, <1>5, <2>1 DEF TypeInv, TypeOK, RtcTypeOK, Leaving, Places, WindowVars, clockVars
<1> QED
  BY <1>4, <1>5 DEF Write

LEMMA CheckTyped ==
    ASSUME TypeInv, Check
    PROVE  TypeInv'
<1>1. /\ pc = "check" /\ UNCHANGED <<WindowVars, compare0, early, cc0, near, stale>>
      /\ Scheduled \/ NotScheduled
  BY DEF Check
<1>2. cc0' \in 0 .. MaxCnt /\ near' \in BOOLEAN /\ stale' \in BOOLEAN
  BY <1>1, Flags DEF TypeInv, TypeOK, RtcTypeOK, RtcFlags
<1> QED
  BY <1>1, <1>2, EndTyped

LEMMA HandlerReturnTyped ==
    ASSUME TypeInv, HandlerReturn
    PROVE  TypeInv'
<1> DEFINE ends == [end_val EXCEPT ![p_next] = @ + repeat_period[p_next]]
<1>1. /\ UNCHANGED <<rtcVars, clockVars, cc_val, seen, busy, m_global_active, m_req_fifo,
                     repeat_period>>
      /\ pc = "handler" /\ pc' = ret /\ ret' = "update" /\ p_next' = None
      /\ mp_active_timer' = None
      /\ end_val' \in {end_val, ends}
      /\ m_app_timer_sortlist' \in {m_app_timer_sortlist,
                                    sortlist_add(m_app_timer_sortlist, p_next, ends)}
  BY DEF HandlerReturn
<1>2. p_next \in Timers /\ m_app_timer_sortlist \in Seq(Timers)
  BY <1>1 DEF TypeInv, TypeOK, Leaving
<1>3. end_val' \in [Timers -> Nat]
  <2>1. end_val \in [Timers -> Nat] /\ repeat_period \in [Timers -> Nat]
    BY DEF TypeInv, TypeOK
  <2>2. end_val[p_next] + repeat_period[p_next] \in Nat
    BY <1>2, <2>1
  <2>3. ends \in [Timers -> Nat]
    BY <2>1, <2>2
  <2> QED
    BY <1>1, <2>1, <2>3
<1> HIDE DEF ends
<1>4. m_app_timer_sortlist' \in Seq(Timers)
  BY <1>1, <1>2, SortedAdd
<1>5. RtcTypeOK'
  BY <1>1 DEF TypeInv, TypeOK, RtcTypeOK, rtcVars
<1> QED
  BY <1>1, <1>3, <1>4, <1>5 DEF TypeInv, TypeOK, Leaving, Places, clockVars

\* The types of the counter, the module's variables and the timers, whichever
\* calls are made and whether or not a request is refused.
THEOREM TypeInvariant == Spec => []TypeInv
<1>1. Init => TypeInv
  <2> SUFFICES ASSUME Init PROVE TypeInv
    OBVIOUS
  <2>1. /\ 0 \in 0 .. MaxCnt /\ 0 \in 0 .. Latency /\ Idle \in Nat
    BY CounterModAssumption, BoundsAssumption DEF MaxCnt
  <2>2. RtcTypeOK
    BY <2>1 DEF Init, RtcInit, RtcTypeOK
  <2>3. <<>> \in Seq(Timers) /\ <<>> \in Seq(Requests)
    OBVIOUS
  <2>4. /\ end_val \in [Timers -> Nat]
        /\ repeat_period \in [Timers -> Nat]
    BY <2>1 DEF Init
  <2> QED
    BY <2>1, <2>2, <2>3, <2>4 DEF Init, TypeInv, TypeOK, Leaving, Places
<1>2. ASSUME TypeInv, [Next]_vars PROVE TypeInv'
  <2>1. CASE UNCHANGED vars
    BY <1>2, <2>1 DEF vars, rtcVars, irqVars, clockVars, userVars, listVars,
                      TypeInv, TypeOK, RtcTypeOK, Leaving
  <2>2. CASE Tick
    BY <1>2, <2>2, TickTyped
  <2>3. CASE API
    BY <1>2, <2>3, StartTyped, StopTyped, StopAllTyped, PauseTyped DEF API
  <2>4. CASE rtc_irq
    BY <1>2, <2>4, OverflowTyped, CompareTyped, Compare1Typed, RequestsTyped, UpdateTyped,
       ActivateTyped, WindowTyped, WriteTyped, CheckTyped, HandlerReturnTyped
       DEF rtc_irq, Update
  <2> QED
    BY <1>2, <2>1, <2>2, <2>3, <2>4 DEF Next
<1> QED
  BY <1>1, <1>2, PTL DEF Spec

\* In particular, the types that the runs check.
THEOREM TimerTypes == Spec => []TypeOK
BY TypeInvariant, PTL DEF TypeInv

-----------------------------------------------------------------------------
(***************************************************************************)
(* The safe window of the compare register.                                *)
(***************************************************************************)

\* How far the counter is past a value of it.
Since(value) == ticks_sub(counter, value)

Before == {"idle", "compare0"}
After  == {"compare1", "req", "update"}

\* A match of the active timer's value is served in the run of the handler that it
\* makes pending, or in the next one when it comes after compare 0 was looked at.
\* While the compare value is written, the channel matches nothing: an event then,
\* as one that comes before its match later, is of a value that was overwritten.
WindowInv ==
    /\ mp_active_timer # None /\ pc \in Before \cup After => inten0
    /\ mp_active_timer # None /\ Matched /\ pc \in Before => Since(cc0) <= Latency + busy
    /\ mp_active_timer # None /\ Matched /\ pc \in After => Since(cc0) < busy
    /\ pc = "window" => Since(seen) <= busy
    /\ pc = "write" => ~Matched /\ Since(cc0) <= busy
    /\ pc = "check" => Since(seen) <= busy /\ (Matched => counter # seen)

\* The distance of two values of the counter, without the remainder.
LEMMA Distance ==
    ASSUME NEW a \in 0 .. MaxCnt, NEW b \in 0 .. MaxCnt
    PROVE  ticks_sub(a, b) = IF a >= b THEN a - b ELSE a - b + CounterMod
<1>1. /\ CounterMod \in Nat /\ a \in Int /\ b \in Int
      /\ a < CounterMod /\ b < CounterMod /\ 0 <= a /\ 0 <= b
  BY CounterModAssumption DEF MaxCnt
<1>2. CASE a >= b
  BY <1>1, <1>2 DEF ticks_sub
<1>3. CASE a < b
  BY <1>1, <1>3 DEF ticks_sub
<1> QED
  BY <1>1, <1>2, <1>3

\* A tick adds one to every distance that is not about to wrap, and so a match is
\* with a value that the counter has not just left.
LEMMA OneFurther ==
    ASSUME TypeInv, RtcTick, NEW v \in 0 .. MaxCnt, NEW n \in Nat, n < CounterMod - 1
    PROVE  /\ Since(v) \in Nat
           /\ counter' = v => Since(v)' = 0
           /\ Since(v) <= n => Since(v)' = Since(v) + 1 /\ counter' # v
<1>1. /\ counter \in 0 .. MaxCnt /\ counter' \in 0 .. MaxCnt
      /\ counter' = IF counter = MaxCnt THEN 0 ELSE counter + 1
      /\ CounterMod \in Nat /\ MaxCnt = CounterMod - 1
  BY CounterModAssumption DEF TypeInv, TypeOK, RtcTypeOK, RtcTick, MaxCnt
<1>2. Since(v) = IF counter >= v THEN counter - v ELSE counter - v + CounterMod
  BY <1>1, Distance DEF Since
<1>3. Since(v)' = IF counter' >= v THEN counter' - v ELSE counter' - v + CounterMod
  BY <1>1, Distance DEF Since
<1> QED
  BY <1>1, <1>2, <1>3

LEMMA LatencyBounds ==
    /\ Latency \in Nat /\ CounterMod \in Nat /\ SafeWindow \in Nat
    /\ 2 * Latency < SafeWindow /\ SafeWindow <= CounterMod - 2
BY CounterModAssumption, SafeWindowAssumption, LatencyAssumption, BoundsAssumption

\* A tick makes an event that is a match of the value in the register, or leaves
\* one that was.
LEMMA TickMatches == RtcTick /\ Matched' => Matched \/ counter' = cc0
<1> SUFFICES ASSUME RtcTick, compare0', ~early' PROVE Matched \/ counter' = cc0
  BY DEF Matched
<1> QED
  BY DEF RtcTick, Matched

LEMMA TickInWindow ==
    ASSUME TypeInv, WindowInv, Tick
    PROVE  WindowInv'
<1>1. /\ UNCHANGED <<pc, seen, cc0, inten0, evten0, mp_active_timer>>
      /\ RtcTick
  BY DEF Tick, RtcTick, irqVars, listVars
<1>2. /\ Matched' => Matched \/ counter' = cc0
      /\ cc0 \in 0 .. MaxCnt /\ seen \in 0 .. MaxCnt /\ busy \in 0 .. Latency
  BY <1>1, TickMatches DEF TypeInv, TypeOK, RtcTypeOK
<1>3. /\ pc # "idle" => busy' = busy + 1
      /\ RtcPending => busy' = busy + 1
      /\ busy' \in 0 .. Latency
  BY LatencyBounds, <1>2 DEF Tick
<1>4. \A v : (Since(v))' = ticks_sub(counter', v)
  BY DEF Since
<1>5. ASSUME NEW n \in Nat, n <= 2 * Latency, NEW v \in {cc0, seen}
      PROVE  /\ Since(v) \in Nat
             /\ counter' = v => ticks_sub(counter', v) = 0
             /\ Since(v) <= n => ticks_sub(counter', v) = Since(v) + 1 /\ counter' # v
  <2>1. n < CounterMod - 1 /\ v \in 0 .. MaxCnt
    BY <1>2, <1>5, LatencyBounds
  <2> QED
    BY <1>1, <1>4, <2>1, OneFurther
<1>6. mp_active_timer' # None /\ Matched' /\ pc' \in Before =>
         (Since(cc0))' <= Latency + busy'
  <2> SUFFICES ASSUME mp_active_timer # None, Matched', pc \in Before
               PROVE  ticks_sub(counter', cc0) <= Latency + busy'
    BY <1>1 DEF Since
  <2>1. CASE counter' = cc0
    BY <1>2, <1>3, <1>5, <2>1, LatencyBounds
  <2>2. CASE counter' # cc0
    <3>1. Matched /\ inten0 /\ Since(cc0) <= Latency + busy
      BY <1>2, <2>2 DEF WindowInv
    <3>2. busy' = busy + 1
      BY <1>3, <3>1 DEF RtcPending, Matched
    <3> QED
      BY <1>2, <1>5, <3>1, <3>2, LatencyBounds
  <2> QED
    BY <2>1, <2>2
<1>7. mp_active_timer' # None /\ Matched' /\ pc' \in After => (Since(cc0))' < busy'
  <2> SUFFICES ASSUME mp_active_timer # None, Matched', pc \in After
               PROVE  ticks_sub(counter', cc0) < busy'
    BY <1>1 DEF Since
  <2>1. busy' = busy + 1
    BY <1>3 DEF After
  <2>2. CASE counter' = cc0
    BY <1>2, <1>5, <2>1, <2>2, LatencyBounds
  <2>3. CASE counter' # cc0
    <3>1. Since(cc0) < busy
      BY <1>2, <2>3 DEF WindowInv
    <3> QED
      BY <1>2, <1>5, <2>1, <3>1, LatencyBounds
  <2> QED
    BY <2>2, <2>3
<1>8. pc' = "write" => ~Matched' /\ (Since(cc0))' <= busy'
  <2> SUFFICES ASSUME pc = "write"
               PROVE  ~Matched' /\ ticks_sub(counter', cc0) <= busy'
    BY <1>1 DEF Since
  <2>1. ~Matched /\ Since(cc0) <= busy /\ busy' = busy + 1
    BY <1>3 DEF WindowInv
  <2> QED
    BY <1>2, <1>5, <2>1, LatencyBounds
<1>9. pc' = "check" => (Since(seen))' <= busy' /\ (Matched' => counter' # seen')
  <2> SUFFICES ASSUME pc = "check"
               PROVE  ticks_sub(counter', seen) <= busy' /\ counter' # seen
    BY <1>1 DEF Since
  <2>1. Since(seen) <= busy /\ busy' = busy + 1
    BY <1>3 DEF WindowInv
  <2> QED
    BY <1>2, <1>5, <2>1, LatencyBounds
<1>11. pc' = "window" => (Since(seen))' <= busy'
  <2> SUFFICES ASSUME pc = "window"
               PROVE  ticks_sub(counter', seen) <= busy'
    BY <1>1 DEF Since
  <2>1. Since(seen) <= busy /\ busy' = busy + 1
    BY <1>3 DEF WindowInv
  <2> QED
    BY <1>2, <1>5, <2>1, LatencyBounds
<1>10. mp_active_timer' # None /\ pc' \in Before \cup After => inten0'
  BY <1>1 DEF WindowInv
<1> QED
  BY <1>6, <1>7, <1>8, <1>9, <1>10, <1>11 DEF WindowInv

\* A step that leaves the counter and the channel alone, and the place too or one
\* where nothing is said about them.
LEMMA ElsewhereInWindow ==
    ASSUME WindowInv,
           UNCHANGED <<counter, cc0, inten0, compare0, early, busy, seen>>,
           \/ UNCHANGED <<pc, mp_active_timer>>
           \/ pc' = pc /\ pc \in Before \cup After /\ mp_active_timer' = None
           \/ pc' \in After /\ (mp_active_timer' = None \/ (UNCHANGED mp_active_timer /\ pc \in After))
           \/ pc' = "handler"
    PROVE  WindowInv'
<1>1. (\A v : (Since(v))' = Since(v)) /\ Matched' = Matched
  BY DEF Since, Matched
<1> QED
  BY <1>1 DEF WindowInv, Before, After

LEMMA RequestsInWindow ==
    ASSUME WindowInv, Request
    PROVE  WindowInv'
<1>1. /\ UNCHANGED <<counter, cc0, inten0, compare0, early, busy, seen>>
      /\ pc = "req" /\ pc' \in {"req", "update"}
      /\ mp_active_timer' \in {mp_active_timer, None}
  BY DEF Request, ReqStart, ReqStop, ReqStopAll, ReqDone, TakeRequest, ReqVars, rtcVars, listVars
<1> QED
  BY <1>1, ElsewhereInWindow DEF After

\* Where timer_expire leads, nothing is said about the compare register.
LEMMA ExpireInWindow ==
    ASSUME WindowInv, NEW t, NEW list, NEW next \in {"compare1", "update"},
           timer_expire(t, list, next)
    PROVE  pc' = "handler" \/ (pc' \in After /\ mp_active_timer' = None)
BY DEF timer_expire, After

\* Places where nothing is said about the compare register.
LEMMA NothingSaid ==
    ASSUME pc' = "handler" \/ (pc' \in After /\ mp_active_timer' = None)
    PROVE  WindowInv'
BY DEF WindowInv, Before, After

\* The handler returns: a match that it did not look at is not older than the run.
LEMMA ReturnInWindow ==
    ASSUME TypeInv, WindowInv, UpdateEmpty \/ UpdateKeep
    PROVE  WindowInv'
<1>1. /\ UNCHANGED <<counter, cc0, inten0, compare0, early, mp_active_timer>>
      /\ pc = "update" /\ pc' = "idle" /\ busy' = 0
  BY DEF UpdateEmpty, UpdateKeep, IrqReturn, rtcVars, listVars
<1>2. ASSUME mp_active_timer # None, Matched
      PROVE  Since(cc0) <= Latency
  <2>1. Since(cc0) < busy /\ busy \in 0 .. Latency
    BY <1>1, <1>2 DEF WindowInv, After, TypeInv, TypeOK
  <2>2. Since(cc0) \in Int
    BY Masked, CounterModAssumption DEF Since, ticks_sub, TypeInv, TypeOK, RtcTypeOK, MaxCnt
  <2> QED
    BY <2>1, <2>2, LatencyBounds
<1>3. (Since(cc0))' = Since(cc0) /\ Matched' = Matched
  BY <1>1 DEF Since, Matched
<1> QED
  BY <1>1, <1>2, <1>3, LatencyBounds DEF WindowInv, Before, After

LEMMA SchedulingInWindow ==
    ASSUME TypeInv, WindowInv, Window \/ Write \/ Check
    PROVE  WindowInv'
<1> USE DEF Before, After
<1>0. /\ counter \in 0 .. MaxCnt /\ cc_val \in 0 .. MaxCnt /\ seen \in 0 .. MaxCnt
      /\ busy \in 0 .. Latency
  BY DEF TypeInv, TypeOK, RtcTypeOK
<1>1. ticks_sub(counter, counter) = 0 /\ 0 <= busy
  BY <1>0, Distance, LatencyBounds
<1>2. CASE Window
  <2>1. /\ ~Matched' /\ seen' = counter /\ counter' = counter /\ busy' = busy
        /\ CcWrite(IF ticks_sub(cc_val, counter) = 1 THEN cc_val + 1 ELSE seen)
        /\ pc' = IF ticks_sub(cc_val, counter) = 1 THEN "check" ELSE "write"
        /\ Since(seen) <= busy
    BY <1>2 DEF Window, WindowOpen, WindowInv, Matched
  <2>2. CASE ticks_sub(cc_val, counter) = 1
    <3>1. (Since(seen))' = 0
      BY <1>1, <2>1 DEF Since
    <3> QED
      BY <1>1, <2>1, <2>2, <3>1 DEF WindowInv
  <2>3. CASE ticks_sub(cc_val, counter) # 1
    <3>1. cc0' = seen
      BY <1>0, <2>1, <2>3, CounterModAssumption DEF CcWrite, MaxCnt
    <3>2. (Since(cc0))' <= busy
      BY <2>1, <3>1 DEF Since
    <3> QED
      BY <1>1, <2>1, <2>3, <3>2 DEF WindowInv
  <2> QED
    BY <2>2, <2>3
<1>3. CASE (Write \/ Check) /\ NotScheduled
  BY <1>3, ExpireInWindow, NothingSaid DEF NotScheduled
<1>4. CASE (Write \/ Check) /\ Scheduled /\ ~Matched
  BY <1>4 DEF WindowInv, Matched, Write, Check, Scheduled, IrqReturn
<1>5. CASE Write /\ ~NotScheduled /\ ~Scheduled
  <2>1. /\ pc = "write" /\ pc' = "check" /\ seen' = counter
        /\ UNCHANGED <<counter, compare0, early, busy>>
    BY <1>5 DEF Write, WindowVars
  <2>2. (Since(seen))' = 0 /\ ~Matched'
    BY <1>1, <2>1 DEF Since, WindowInv, Matched
  <2> QED
    BY <1>1, <2>1, <2>2 DEF WindowInv
<1>6. (Write \/ Check) /\ Scheduled /\ ~NotScheduled => ~Matched
  BY DEF Write, Check, WindowInv
<1>7. Check => Scheduled \/ NotScheduled
  BY DEF Check
<1> QED
  BY <1>2, <1>3, <1>4, <1>5, <1>6, <1>7

\* A match of the value in the compare register is served within two latencies, and
\* the value is not taken for one that matches again a period later.
THEOREM WindowInvariant == Spec => []WindowInv
<1>1. Init => WindowInv
  BY DEF Init, RtcInit, WindowInv, Matched
<1>2. ASSUME TypeInv, WindowInv, [Next]_vars PROVE WindowInv'
  <2>1. CASE Tick
    BY <1>2, <2>1, TickInWindow
  <2>2. CASE API \/ UNCHANGED vars
    <3>1. UNCHANGED <<counter, cc0, inten0, compare0, early, busy, seen, pc, mp_active_timer>>
      BY <2>2 DEF API, app_timer_start, app_timer_stop, app_timer_stop_all, Pause, Resume,
                  vars, rtcVars, irqVars, listVars
    <3> QED
      BY <1>2, <3>1, ElsewhereInWindow
  <2>3. CASE on_overflow_evt
    <3>1. /\ UNCHANGED <<counter, cc0, inten0, compare0, early, busy, mp_active_timer>>
          /\ pc = "idle" /\ pc' = "compare0"
      BY <2>3 DEF on_overflow_evt, listVars
    <3>2. (Since(cc0))' = Since(cc0) /\ Matched' = Matched
      BY <3>1 DEF Since, Matched
    <3> QED
      BY <1>2, <3>1, <3>2 DEF WindowInv, Before, After
  <2>4. CASE on_compare_evt
    <3>1. ~Matched' /\ UNCHANGED inten0 /\ pc = "compare0"
      BY <2>4 DEF on_compare_evt, Matched
    <3>2. \/ timer_expire(mp_active_timer, m_app_timer_sortlist, "compare1")
          \/ pc' = "compare1" /\ UNCHANGED mp_active_timer
      BY <2>4 DEF on_compare_evt
    <3>3. CASE timer_expire(mp_active_timer, m_app_timer_sortlist, "compare1")
      BY <1>2, <3>3, ExpireInWindow, NothingSaid
    <3>4. CASE pc' = "compare1" /\ UNCHANGED mp_active_timer
      BY <1>2, <3>1, <3>4 DEF WindowInv, Before, After
    <3> QED
      BY <3>2, <3>3, <3>4
  <2>5. CASE on_compare1_evt \/ UpdateDrop
    <3>1. /\ UNCHANGED <<counter, cc0, inten0, compare0, early, busy, seen, mp_active_timer>>
          /\ pc \in After /\ pc' \in After
      BY <2>5 DEF on_compare1_evt, UpdateDrop, rtcVars, irqVars, listVars, After
    <3> QED
      BY <1>2, <3>1, ElsewhereInWindow
  <2>6. CASE Request
    BY <1>2, <2>6, RequestsInWindow
  <2>7. CASE UpdateEmpty \/ UpdateKeep
    BY <1>2, <2>7, ReturnInWindow
  <2>8. CASE UpdateActivate
    <3>1. \/ pc' = "window" /\ seen' = counter /\ UNCHANGED <<counter, busy>>
          \/ timer_expire(Head(ListWithActive), Tail(ListWithActive), "update")
      BY <2>8 DEF UpdateActivate
    <3>2. CASE pc' = "window" /\ seen' = counter /\ UNCHANGED <<counter, busy>>
      <4>1. ticks_sub(counter, counter) = 0 /\ 0 <= busy
        BY <1>2, Distance, LatencyBounds DEF TypeInv, TypeOK, RtcTypeOK
      <4>2. (Since(seen))' <= busy'
        BY <3>2, <4>1 DEF Since
      <4> QED
        BY <3>2, <4>2 DEF WindowInv, Before, After
    <3>3. CASE timer_expire(Head(ListWithActive), Tail(ListWithActive), "update")
      BY <1>2, <3>3, ExpireInWindow, NothingSaid
    <3> QED
      BY <3>1, <3>2, <3>3
  <2>9. CASE Window \/ Write \/ Check
    BY <1>2, <2>9, SchedulingInWindow
  <2>10. CASE HandlerReturn
    <3>1. mp_active_timer' = None /\ pc' \in After
      BY <1>2, <2>10 DEF HandlerReturn, TypeInv, TypeOK, After
    <3> QED
      BY <3>1, NothingSaid
  <2> QED
    BY <1>2, <2>1, <2>2, <2>3, <2>4, <2>5, <2>6, <2>7, <2>8, <2>9, <2>10
       DEF Next, rtc_irq, Update
<1> QED
  BY <1>1, <1>2, TypeInvariant, PTL DEF Spec

\* So the ASSERT of on_compare_evt fails at no match of the value that is in the
\* compare register: what can fail it is an event that comes before its match.
THEOREM MatchesServedInWindow == Spec => []MatchInWindow
<1>1. TypeInv /\ WindowInv => MatchInWindow
  <2> SUFFICES ASSUME TypeInv, WindowInv, pc = "compare0", Matched, mp_active_timer # None
               PROVE  ticks_sub(counter, cc0) < SafeWindow
    BY DEF MatchInWindow
  <2>1. Since(cc0) <= Latency + busy /\ busy \in 0 .. Latency
    BY DEF WindowInv, Before, TypeInv, TypeOK
  <2>2. Since(cc0) \in Int
    BY Masked, CounterModAssumption DEF Since, ticks_sub, TypeInv, TypeOK, RtcTypeOK, MaxCnt
  <2>3. Since(cc0) < SafeWindow
    BY <2>1, <2>2, LatencyBounds
  <2> QED
    BY <2>3 DEF Since
<1> QED
  BY <1>1, TypeInvariant, WindowInvariant, PTL
=============================================================================
