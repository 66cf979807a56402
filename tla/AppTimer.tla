----------------------------- MODULE AppTimer -----------------------------
(***************************************************************************)
(* app_timer2.c: timers on one compare register of a counter that wraps.   *)
(*                                                                         *)
(* The callers only queue requests.  The interrupt handler, rtc_irq, does  *)
(* everything else: it keeps the running timers in a list sorted by end    *)
(* value, takes the first of it as the active timer and programs the       *)
(* counter for it.  A timeout further ahead than the counter can tell from *)
(* one that is past is reached in several partial timeouts.                *)
(*                                                                         *)
(* The callers run at the priority of rtc_irq or below, so an API call is  *)
(* one action and comes between two runs of rtc_irq, or from the handler   *)
(* of a timer.  The counter goes on while rtc_irq runs: pc is the place it *)
(* has reached.                                                            *)
(***************************************************************************)
EXTENDS Rtc, Sequences, FiniteSets, SequencesExt

CONSTANTS
    Timers,         \* the timers that app_timer_create was called for
    Repeated,       \* those created with APP_TIMER_MODE_REPEATED
    Delays,         \* the timeouts that timers are started with
    HandlerCalls,   \* HandlerCalls[t]: the timers that t's handler starts and stops
    FullAPI,        \* whether stop_all, pause and resume are used
    QueueSize,      \* APP_TIMER_CONFIG_OP_QUEUE_SIZE
    MayOverflow,    \* whether more requests than that may be outstanding
    Latency,        \* how many ticks a run of rtc_irq may start and take in all
    MaxTicks,       \* bound: no tick after these
    Idle,           \* APP_TIMER_IDLE_VAL, beyond any end value
    None            \* the null pointer

VARIABLES
    pc,             \* the part of rtc_irq that is next; idle outside of it
    ret,            \* where timer_expire returns to after the handler
    p_next,         \* the timer being scheduled, or whose handler runs
    cc_val,         \* the compare value being programmed
    seen,           \* COUNTER as drv_rtc_windowed_compare_set read it
    busy,           \* ticks since the interrupt became pending or last ran
    mp_active_timer, m_global_active, m_base_counter, m_stamp64,
    m_app_timer_sortlist, m_req_fifo, end_val, repeat_period

irqVars   == <<pc, ret, p_next, cc_val, seen>>
clockVars == <<m_base_counter, m_stamp64>>
userVars  == <<end_val, repeat_period, m_req_fifo>>
listVars  == <<mp_active_timer, m_global_active, m_app_timer_sortlist>>
vars      == <<rtcVars, irqVars, clockVars, userVars, listVars, busy>>

ASSUME TimersAssumption ==
    /\ Repeated \subseteq Timers
    /\ None \notin Timers
    /\ HandlerCalls \in [Timers -> SUBSET Timers]
ASSUME DelaysAssumption == Delays \subseteq Nat \ {0}
ASSUME BoundsAssumption ==
    /\ QueueSize \in Nat /\ Latency \in Nat /\ MaxTicks \in Nat
    /\ Idle \in Nat /\ MaxTicks < Idle
    /\ \A delay \in Delays : MaxTicks + 2 * delay < Idle
ASSUME FlagsAssumption == FullAPI \in BOOLEAN /\ MayOverflow \in BOOLEAN

\* An interrupt is over well before the counter has gone half its period.
ASSUME LatencyAssumption == 2 * Latency < Middle /\ 2 * Latency < SafeWindow

Places   == {"idle", "compare0", "compare1", "req", "update", "window",
             "write", "check", "handler"}
Requests == [type : {"START", "STOP"}, timer : Timers] \cup
            [type : {"STOP_ALL"}, timer : {None}]

TypeOK ==
    /\ RtcTypeOK
    /\ pc \in Places
    /\ ret \in {"compare1", "update"}
    /\ p_next \in Timers \cup {None}
    /\ cc_val \in 0 .. MaxCnt
    /\ seen \in 0 .. MaxCnt
    /\ busy \in 0 .. Latency
    /\ mp_active_timer \in Timers \cup {None}
    /\ m_global_active \in BOOLEAN
    /\ m_base_counter \in Nat
    /\ m_stamp64 \in Nat
    /\ m_app_timer_sortlist \in Seq(Timers)
    /\ m_req_fifo \in Seq(Requests)
    /\ end_val \in [Timers -> Nat]
    /\ repeat_period \in [Timers -> Nat]

\* app_timer_init, and app_timer_create for every timer.
Init ==
    /\ RtcInit
    /\ pc = "idle"
    /\ ret = "update"
    /\ p_next = None
    /\ cc_val = 0
    /\ seen = 0
    /\ busy = 0
    /\ mp_active_timer = None
    /\ m_global_active = TRUE
    /\ m_base_counter = 0
    /\ m_stamp64 = 0
    /\ m_app_timer_sortlist = <<>>
    /\ m_req_fifo = <<>>
    /\ end_val = [t \in Timers |-> Idle]
    /\ repeat_period = [t \in Timers |-> IF t \in Repeated THEN 1 ELSE 0]

-----------------------------------------------------------------------------
(***************************************************************************)
(* Time, and the time stamp.                                               *)
(***************************************************************************)

\* The counter goes on, and interrupts are served in time.
Tick ==
    /\ ticks < MaxTicks
    /\ IF RtcPending \/ pc # "idle" THEN busy < Latency /\ busy' = busy + 1
                                    ELSE busy' = 0
    /\ RtcTick
    /\ UNCHANGED <<irqVars, clockVars, userVars, listVars>>

\* Mutant: an overflow whose interrupt is not served yet is not noticed.
NowIgnoresStamp == m_base_counter + counter

\* get_now.
Now ==
    LET now == m_base_counter + counter
    IN  IF now < m_stamp64 THEN now + CounterMod ELSE now

-----------------------------------------------------------------------------
(***************************************************************************)
(* nrf_sortlist and nrf_atfifo.                                            *)
(***************************************************************************)

\* Mutant: an item is linked behind the first that ends later.
sortlist_add_behind(list, t, ends) ==
    LET later == SelectInSeq(list, LAMBDA u : ends[u] > ends[t])
    IN  InsertAt(list, (IF later = 0 THEN Len(list) ELSE later) + 1, t)

\* nrf_sortlist_add: before the first that ends later.
sortlist_add(list, t, ends) ==
    LET later == SelectInSeq(list, LAMBDA u : ends[u] > ends[t])
    IN  InsertAt(list, IF later = 0 THEN Len(list) + 1 ELSE later, t)

\* nrf_sortlist_remove, which finds the first.
sortlist_remove(list, t) == RemoveFirst(list, t)

-----------------------------------------------------------------------------
(***************************************************************************)
(* The API, called between two runs of rtc_irq or by a timer's handler.    *)
(***************************************************************************)

MayCall(t) ==
    \/ pc = "idle"
    \/ pc = "handler" /\ t \in HandlerCalls[p_next]

\* timer_req_schedule; with the queue full the request is refused.
timer_req_schedule(req) ==
    IF Len(m_req_fifo) < QueueSize
      THEN m_req_fifo' = Append(m_req_fifo, req) /\ drv_rtc_irq_trigger
      ELSE MayOverflow /\ UNCHANGED <<m_req_fifo, triggered>>

\* app_timer_start of an idle timer; it does nothing to any other.
app_timer_start(t, timeout_ticks) ==
    /\ MayCall(t)
    /\ end_val[t] = Idle
    /\ end_val' = [end_val EXCEPT ![t] = Now + timeout_ticks]
    /\ repeat_period' = [repeat_period EXCEPT ![t] = IF @ = 0 THEN 0 ELSE timeout_ticks]
    /\ timer_req_schedule([type |-> "START", timer |-> t])
    /\ UNCHANGED <<counter, running, cc0, evten0, inten0, near, stale, compare0, early,
                   compare1, ovrflw, ticks, irqVars, clockVars, listVars, busy>>

\* app_timer_stop of a timer that is not idle; it does nothing to one that is.
app_timer_stop(t) ==
    /\ MayCall(t)
    /\ end_val[t] # Idle
    /\ end_val' = [end_val EXCEPT ![t] = Idle]
    /\ timer_req_schedule([type |-> "STOP", timer |-> t])
    /\ UNCHANGED <<counter, running, cc0, evten0, inten0, near, stale, compare0, early,
                   compare1, ovrflw, ticks, irqVars, clockVars, listVars, busy, repeat_period>>

app_timer_stop_all ==
    /\ FullAPI
    /\ pc = "idle"
    /\ m_global_active' = FALSE
    /\ timer_req_schedule([type |-> "STOP_ALL", timer |-> None])
    /\ UNCHANGED <<counter, running, cc0, evten0, inten0, near, stale, compare0, early,
                   compare1, ovrflw, ticks, irqVars, clockVars, mp_active_timer,
                   m_app_timer_sortlist, end_val, repeat_period, busy>>

\* app_timer_pause and app_timer_resume.
Pause ==
    /\ FullAPI
    /\ pc = "idle"
    /\ drv_rtc_stop
    /\ UNCHANGED <<counter, cc0, evten0, inten0, near, stale, compare0, early, compare1,
                   ovrflw, triggered, ticks, irqVars, clockVars, userVars, listVars, busy>>

Resume ==
    /\ FullAPI
    /\ pc = "idle"
    /\ drv_rtc_start
    /\ UNCHANGED <<counter, cc0, evten0, inten0, near, stale, compare0, early, compare1,
                   ovrflw, triggered, ticks, irqVars, clockVars, userVars, listVars, busy>>

-----------------------------------------------------------------------------
(***************************************************************************)
(* timer_expire.                                                           *)
(***************************************************************************)

\* timer_expire(t) down to the call of the handler, and the rest of it when no
\* handler is called.  Both callers then have no active timer and go on at
\* next; list is the sorted list that they leave to timer_expire.
timer_expire(t, list, next) ==
    IF m_global_active /\ Now >= end_val[t]
      THEN /\ end_val' = IF repeat_period[t] = 0 THEN [end_val EXCEPT ![t] = Idle]
                                                 ELSE end_val
           /\ m_app_timer_sortlist' = list
           /\ pc' = "handler" /\ ret' = next /\ p_next' = t
           /\ UNCHANGED mp_active_timer
      ELSE /\ m_app_timer_sortlist' = IF m_global_active /\ end_val[t] # Idle
                                        THEN sortlist_add(list, t, end_val) ELSE list
           /\ pc' = next /\ p_next' = None /\ mp_active_timer' = None
           /\ UNCHANGED <<end_val, ret>>

\* The rest of timer_expire, after the handler: a repeated timer that was not
\* stopped is put back into the list.
HandlerReturn ==
    /\ pc = "handler"
    /\ IF repeat_period[p_next] # 0 /\ end_val[p_next] # Idle
         THEN /\ end_val' = [end_val EXCEPT ![p_next] = @ + repeat_period[p_next]]
              /\ m_app_timer_sortlist' =
                   sortlist_add(m_app_timer_sortlist, p_next,
                                [end_val EXCEPT ![p_next] = @ + repeat_period[p_next]])
         ELSE UNCHANGED <<end_val, m_app_timer_sortlist>>
    /\ pc' = ret /\ ret' = "update" /\ p_next' = None /\ mp_active_timer' = None
    /\ UNCHANGED <<rtcVars, clockVars, cc_val, seen, busy, m_global_active,
                   m_req_fifo, repeat_period>>

-----------------------------------------------------------------------------
(***************************************************************************)
(* rtc_irq: overflow, compare 0, compare 1, requests, update.              *)
(***************************************************************************)

on_overflow_evt ==
    /\ pc = "idle"
    /\ RtcPending
    /\ m_base_counter' = m_base_counter + (IF ovrflw THEN CounterMod ELSE 0)
    /\ ovrflw' = FALSE
    /\ triggered' = FALSE
    /\ pc' = "compare0"
    /\ UNCHANGED <<counter, running, cc0, evten0, inten0, near, stale, compare0, early,
                   compare1, ticks, ret, p_next, cc_val, seen, m_stamp64, userVars, listVars, busy>>

on_compare_evt ==
    /\ pc = "compare0"
    /\ compare0' = FALSE
    /\ early' = FALSE
    /\ IF compare0 /\ mp_active_timer # None
         THEN timer_expire(mp_active_timer, m_app_timer_sortlist, "compare1")
         ELSE /\ pc' = "compare1"
              /\ UNCHANGED <<ret, p_next, end_val, mp_active_timer, m_app_timer_sortlist>>
    /\ UNCHANGED <<counter, running, cc0, evten0, inten0, near, stale, compare1, ovrflw,
                   triggered, ticks, cc_val, seen, clockVars, busy, m_global_active, m_req_fifo,
                   repeat_period>>

on_compare1_evt ==
    /\ pc = "compare1"
    /\ compare1' = FALSE
    /\ m_stamp64' = IF compare1 THEN Now ELSE m_stamp64
    /\ pc' = "req"
    /\ UNCHANGED <<counter, running, cc0, evten0, inten0, near, stale, compare0, early,
                   ovrflw, triggered, ticks, ret, p_next, cc_val, seen, m_base_counter, userVars,
                   listVars, busy>>

-----------------------------------------------------------------------------
(***************************************************************************)
(* timer_req_process: one request after the other.                         *)
(***************************************************************************)

ReqVars == <<rtcVars, ret, p_next, cc_val, seen, clockVars, repeat_period, busy>>

TakeRequest(type) ==
    /\ pc = "req"
    /\ m_req_fifo # <<>>
    /\ Head(m_req_fifo).type = type
    /\ m_req_fifo' = Tail(m_req_fifo)
    /\ UNCHANGED <<ReqVars, pc>>

ReqStart ==
    /\ TakeRequest("START")
    /\ m_app_timer_sortlist' =
         LET t == Head(m_req_fifo).timer
         IN  IF end_val[t] # Idle THEN sortlist_add(m_app_timer_sortlist, t, end_val)
                                  ELSE m_app_timer_sortlist
    /\ UNCHANGED <<mp_active_timer, m_global_active, end_val>>

\* Mutant: the timer that was stopped stays the active one.
ReqStopListed ==
    /\ TakeRequest("STOP")
    /\ m_app_timer_sortlist' =
         sortlist_remove(m_app_timer_sortlist, Head(m_req_fifo).timer)
    /\ UNCHANGED <<mp_active_timer, m_global_active, end_val>>

ReqStop ==
    /\ TakeRequest("STOP")
    /\ LET t == Head(m_req_fifo).timer
       IN  IF t = mp_active_timer
             THEN mp_active_timer' = None /\ UNCHANGED m_app_timer_sortlist
             ELSE /\ m_app_timer_sortlist' = sortlist_remove(m_app_timer_sortlist, t)
                  /\ UNCHANGED mp_active_timer
    /\ UNCHANGED <<m_global_active, end_val>>

\* sorted_list_stop_all.
ReqStopAll ==
    /\ TakeRequest("STOP_ALL")
    /\ end_val' = [t \in Timers |-> IF Contains(m_app_timer_sortlist, t)
                                    THEN Idle ELSE end_val[t]]
    /\ m_app_timer_sortlist' = <<>>
    /\ m_global_active' = TRUE
    /\ UNCHANGED mp_active_timer

ReqDone ==
    /\ pc = "req"
    /\ m_req_fifo = <<>>
    /\ pc' = "update"
    /\ UNCHANGED <<ReqVars, userVars, listVars>>

-----------------------------------------------------------------------------
(***************************************************************************)
(* rtc_update: one pass of its loop after the other.                       *)
(***************************************************************************)

\* The end of rtc_irq.
IrqReturn == pc' = "idle" /\ busy' = 0

Candidate == Head(m_app_timer_sortlist)

\* Mutant: the timer that was stopped is only looked at.
UpdateDropKeeps ==
    /\ pc = "update"
    /\ m_app_timer_sortlist # <<>>
    /\ end_val[Candidate] = Idle
    /\ UNCHANGED vars

\* A timer that was stopped is removed.
UpdateDrop ==
    /\ pc = "update"
    /\ m_app_timer_sortlist # <<>>
    /\ end_val[Candidate] = Idle
    /\ m_app_timer_sortlist' = Tail(m_app_timer_sortlist)
    /\ UNCHANGED <<rtcVars, irqVars, clockVars, userVars, busy, mp_active_timer,
                   m_global_active>>

\* There is no candidate: without an active timer the counter stops.
UpdateEmpty ==
    /\ pc = "update"
    /\ m_app_timer_sortlist = <<>>
    /\ IF mp_active_timer = None THEN drv_rtc_stop ELSE UNCHANGED running
    /\ IrqReturn
    /\ UNCHANGED <<counter, cc0, evten0, inten0, near, stale, compare0, early, compare1,
                   ovrflw, triggered, ticks, ret, p_next, cc_val, seen, clockVars, userVars,
                   listVars>>

\* The candidate becomes the active timer.
Preempts ==
    mp_active_timer # None => end_val[Candidate] < end_val[mp_active_timer]

UpdateKeep ==
    /\ pc = "update"
    /\ m_app_timer_sortlist # <<>>
    /\ end_val[Candidate] # Idle
    /\ ~Preempts
    /\ IrqReturn
    /\ UNCHANGED <<rtcVars, ret, p_next, cc_val, seen, clockVars, userVars, listVars>>

\* Mutant: the timer that is preempted is forgotten.
ListWithoutActive == m_app_timer_sortlist

\* The list once the active timer is back in it, unless that was stopped.
ListWithActive ==
    IF mp_active_timer # None /\ end_val[mp_active_timer] # Idle
      THEN sortlist_add(m_app_timer_sortlist, mp_active_timer, end_val)
      ELSE m_app_timer_sortlist

\* The choice of the next active timer, and rtc_schedule down to the driver's
\* first reading of the counter.
UpdateActivate ==
    /\ pc = "update"
    /\ m_app_timer_sortlist # <<>>
    /\ end_val[Candidate] # Idle
    /\ Preempts
    /\ LET t         == Head(ListWithActive)
           list      == Tail(ListWithActive)
           remaining == end_val[t] - Now
       IN  IF remaining > 0
             THEN /\ seen' = counter
                  /\ cc_val' = (IF remaining > MaxCnt - SafeWindow
                                  THEN counter + (MaxCnt - SafeWindow)
                                  ELSE end_val[t]) % CounterMod
                  /\ pc' = "window" /\ p_next' = t
                  /\ m_app_timer_sortlist' = list
                  /\ UNCHANGED <<evten0, inten0, ret, end_val, mp_active_timer>>
             ELSE /\ drv_rtc_compare_disable
                  /\ timer_expire(t, list, "update")
                  /\ UNCHANGED <<cc_val, seen>>
    /\ UNCHANGED <<counter, running, cc0, near, stale, compare0, early, compare1, ovrflw,
                   triggered, ticks, clockVars, busy, m_global_active, m_req_fifo,
                   repeat_period>>

\* The locals of a call that returned are reset.
NoLocals == cc_val' = 0 /\ seen' = 0

\* The compare value is set: the end of rtc_schedule and of rtc_update.
Scheduled ==
    /\ inten0' = TRUE
    /\ mp_active_timer' = p_next
    /\ running' = (running \/ mp_active_timer = None)
    /\ p_next' = None
    /\ NoLocals
    /\ IrqReturn
    /\ UNCHANGED <<ret, end_val, m_app_timer_sortlist>>

\* The compare value passed while it was being set.
NotScheduled ==
    /\ timer_expire(p_next, m_app_timer_sortlist, "update")
    /\ NoLocals
    /\ UNCHANGED <<inten0, running, busy>>

WindowVars == <<counter, evten0, compare1, ovrflw, triggered, ticks, clockVars,
                m_global_active, m_req_fifo, repeat_period>>

\* drv_rtc_windowed_compare_set, up to the write of the compare value.
Window ==
    /\ pc = "window"
    /\ WindowOpen(cc_val, seen)
    /\ seen' = counter
    /\ pc' = IF ticks_sub(cc_val, counter) = 1 THEN "check" ELSE "write"
    /\ UNCHANGED <<counter, running, compare1, ovrflw, triggered, ticks, ret, p_next,
                   cc_val, clockVars, userVars, listVars, busy>>

\* The write, and a look at the counter after it.  A value one tick ahead is
\* overwritten at once, and nothing waits for its match.
Write ==
    /\ pc = "write"
    /\ IF WindowMissed(cc_val) THEN CcWrite(cc_val) /\ NotScheduled /\ UNCHANGED stale
       ELSE IF WindowClose(cc_val)
         THEN /\ CcWrite(cc_val + 1)
              /\ stale' = TRUE
              /\ seen' = counter
              /\ pc' = "check"
              /\ UNCHANGED <<inten0, running, ret, p_next, cc_val, mp_active_timer, end_val,
                             m_app_timer_sortlist, busy>>
         ELSE CcWrite(cc_val) /\ Scheduled /\ UNCHANGED stale
    /\ UNCHANGED <<WindowVars, compare0, early>>

\* The value is one tick late: did a tick pass since the counter was read?
Check ==
    /\ pc = "check"
    /\ IF counter # seen THEN NotScheduled ELSE Scheduled
    /\ UNCHANGED <<WindowVars, compare0, early, cc0, near, stale>>

-----------------------------------------------------------------------------

Request == ReqStart \/ ReqStop \/ ReqStopAll \/ ReqDone

Update == UpdateDrop \/ UpdateEmpty \/ UpdateKeep \/ UpdateActivate

rtc_irq ==
    \/ on_overflow_evt \/ on_compare_evt \/ on_compare1_evt
    \/ Request \/ Update \/ Window \/ Write \/ Check
    \/ HandlerReturn

API ==
    \/ \E t \in Timers : app_timer_stop(t) \/ \E d \in Delays : app_timer_start(t, d)
    \/ app_timer_stop_all \/ Pause \/ Resume

Next == Tick \/ API \/ rtc_irq

Spec == Init /\ [][Next]_vars

\* The interrupt handler runs; a timer's handler returns.
FairSpec == Spec /\ WF_vars(rtc_irq)

-----------------------------------------------------------------------------
(***************************************************************************)
(* Properties.                                                             *)
(***************************************************************************)

\* get_now is the time, also while an overflow is pending and the base is still
\* that of the period before.
ClockIsRight == Now = ticks

\* The handler of a match of the active timer's value is not so late that the
\* match could be taken for one that is still to come: what the ASSERT of
\* on_compare_evt says, of every event but an early one.
MatchInWindow ==
    pc = "compare0" /\ Matched /\ mp_active_timer # None =>
        ticks_sub(counter, cc0) < SafeWindow

\* The ASSERT of on_compare_evt as it stands (app_timer2.c:320-322).
SafeWindowHolds ==
    pc = "compare0" /\ compare0 /\ mp_active_timer # None =>
        ticks_sub(counter, cc0) < SafeWindow

\* The places where a timer can be pending: listed, active, or on its way from
\* the list to the compare register.
Listed(t) == Cardinality({i \in DOMAIN m_app_timer_sortlist : m_app_timer_sortlist[i] = t})

InTransit(t) == pc \in {"window", "write", "check"} /\ p_next = t

Requested(t, type) ==
    \E i \in DOMAIN m_req_fifo : m_req_fifo[i] = [type |-> type, timer |-> t]

\* A timer that is not idle is listed, active, on its way, in its handler or
\* requested: it cannot be forgotten, whatever was stopped and started meanwhile.
NeverForgotten ==
    \A t \in Timers : end_val[t] # Idle =>
        \/ Listed(t) > 0
        \/ mp_active_timer = t
        \/ p_next = t
        \/ Requested(t, "START")

\* The linked list holds no timer twice, nor the active one: adding an item
\* that is linked already would close a loop.
ListedOnce ==
    \A t \in Timers :
        Listed(t) + (IF InTransit(t) THEN 1 ELSE 0)
          + (IF mp_active_timer = t /\ pc \in {"idle", "compare0", "req"} THEN 1 ELSE 0) <= 1

\* app_timer2.c:363-364, of a timer in the list that was stopped and started
\* again, "it will all be sorted out when stop and start requests are handled":
\* the list is in order when it is looked at next.  With three timers it may not
\* be, as one that is put back before its requests are handled may be put where
\* the order was out already.
SortedOut ==
    pc = "update" /\ m_req_fifo = <<>> =>
        \A i, j \in DOMAIN m_app_timer_sortlist :
            i < j => end_val[m_app_timer_sortlist[i]] <= end_val[m_app_timer_sortlist[j]]

\* rtc_irq comes to an end.
IrqReturns == pc # "idle" ~> pc = "idle"

\* When a timer expires next: a repeated one that is in its handler has not had
\* its period added yet.
Due ==
    [t \in Timers |->
        IF pc = "handler" /\ p_next = t /\ repeat_period[t] # 0 /\ end_val[t] # Idle
          THEN end_val[t] + repeat_period[t] ELSE end_val[t]]

Service == INSTANCE TimerService WITH
    now <- ticks, due <- Due, period <- repeat_period,
    handling <- IF pc = "handler" THEN p_next ELSE None,
    Slack <- 2 * Latency

\* Every timer expires when it should, once, and never after it was stopped.
ImplementsService == Service!Spec
=============================================================================
