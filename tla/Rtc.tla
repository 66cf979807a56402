-------------------------------- MODULE Rtc --------------------------------
(***************************************************************************)
(* The real-time counter that app_timer2.c runs on, and its driver,        *)
(* drv_rtc.c.  The counter wraps; it reports the overflow, a match with    *)
(* compare register 0, which the next timeout is programmed into, and a    *)
(* match with compare register 1, which stays at the middle of the period. *)
(*                                                                         *)
(* A match may be missed when the compare value was written in the tick    *)
(* before it.  A value that is overwritten in the tick before its match    *)
(* may still raise the event at that tick: the event is then early, as it  *)
(* comes before the match of the value that replaced it.                   *)
(***************************************************************************)
EXTENDS Integers

CONSTANTS
    CounterMod,     \* DRV_RTC_MAX_CNT + 1, the period of the counter
    SafeWindow      \* APP_TIMER_SAFE_WINDOW: how far past is not yet future

VARIABLES
    counter,        \* COUNTER
    running,        \* START was triggered, and STOP was not
    cc0,            \* CC[0]
    evten0,         \* EVTEN.COMPARE0
    inten0,         \* INTEN.COMPARE0
    near,           \* CC[0] is COUNTER + 1, and was written in this tick
    stale,          \* CC[0] was COUNTER + 1 earlier in this tick, and may still match
    compare0,       \* EVENTS_COMPARE[0]
    compare1,       \* EVENTS_COMPARE[1], always an interrupt source
    ovrflw,         \* EVENTS_OVRFLW, always an interrupt source
    triggered,      \* the interrupt was made pending by software
    early,          \* history: EVENTS_COMPARE[0] is of an overwritten value alone
    ticks           \* history: the ticks since the counter was at 0

rtcVars == <<counter, running, cc0, evten0, inten0, near, stale, compare0, early,
             compare1, ovrflw, triggered, ticks>>

ASSUME CounterModAssumption == CounterMod \in Nat /\ CounterMod > 2
ASSUME SafeWindowAssumption == SafeWindow \in 1 .. CounterMod - 2

MaxCnt == CounterMod - 1

\* app_timer_init writes DRV_RTC_MAX_CNT >> 1 to CC[1].
Middle == MaxCnt \div 2

RtcTypeOK ==
    /\ counter \in 0 .. MaxCnt
    /\ cc0 \in 0 .. MaxCnt
    /\ {running, evten0, inten0, near, stale, compare0, early, compare1, ovrflw,
        triggered} \subseteq BOOLEAN
    /\ ticks \in Nat

\* drv_rtc_init and the calls of app_timer_init.
RtcInit ==
    /\ counter = 0
    /\ cc0 = 0
    /\ running = FALSE
    /\ evten0 = FALSE
    /\ inten0 = FALSE
    /\ near = FALSE
    /\ stale = FALSE
    /\ compare0 = FALSE
    /\ early = FALSE
    /\ compare1 = FALSE
    /\ ovrflw = FALSE
    /\ triggered = FALSE
    /\ ticks = 0

\* The event is the match of the value that is in CC[0], or of one before it.
Matched == compare0 /\ ~early

RtcPending == ovrflw \/ compare1 \/ (compare0 /\ inten0) \/ triggered

\* One tick of the low-frequency clock.
RtcTick ==
    /\ running
    /\ counter' = IF counter = MaxCnt THEN 0 ELSE counter + 1
    /\ ticks' = ticks + 1
    /\ ovrflw' = (ovrflw \/ counter' = 0)
    /\ compare1' = (compare1 \/ counter' = Middle)
    /\ \E missed \in IF near THEN BOOLEAN ELSE {FALSE},
          fires \in IF stale THEN BOOLEAN ELSE {FALSE} :
         LET enabled == evten0 \/ inten0
             match   == counter' = cc0 /\ enabled /\ ~missed
         IN  /\ compare0' = (compare0 \/ match \/ (fires /\ enabled))
             /\ early' = (~match /\ (early \/ (fires /\ enabled /\ ~compare0)))
    /\ near' = FALSE
    /\ stale' = FALSE
    /\ UNCHANGED <<running, cc0, evten0, inten0, triggered>>

-----------------------------------------------------------------------------
(***************************************************************************)
(* Register accesses of the driver, as updates of the named registers.     *)
(***************************************************************************)

ticks_sub(a, b) == (a - b) % CounterMod

drv_rtc_start       == running' = TRUE
drv_rtc_stop        == running' = FALSE
drv_rtc_irq_trigger == triggered' = TRUE

drv_rtc_compare_disable ==
    /\ evten0' = FALSE
    /\ inten0' = FALSE

\* Mutant: the value is not masked.
CcWriteUnmasked(value) ==
    /\ cc0' = value
    /\ near' = (ticks_sub(value, counter) = 1)

\* Writing CC[0].
CcWrite(value) ==
    /\ cc0' = value % CounterMod
    /\ near' = (ticks_sub(value, counter) = 1)

\* The value in CC[0] is overwritten in the tick before its match.
Overwritten == ticks_sub(cc0, counter) = 1

\* Mutant: a value one tick ahead is programmed as it is.
WindowOpenTooClose(abs, now) ==
    LET close == ticks_sub(abs, counter) = 1
        waits == ticks_sub(cc0, now) = 1 \/ close
    IN  /\ compare0' = FALSE
        /\ early' = FALSE
        /\ stale' = (~waits /\ (stale \/ Overwritten))
        /\ evten0' = TRUE
        /\ inten0' = FALSE
        /\ CcWrite(IF close THEN abs ELSE now)

\* Mutant: the event of the value before stays.
WindowOpenKeepsEvent(abs, now) ==
    LET close == ticks_sub(abs, counter) = 1
        waits == ticks_sub(cc0, now) = 1 \/ close
    IN  /\ stale' = (~waits /\ (stale \/ Overwritten))
        /\ evten0' = TRUE
        /\ inten0' = FALSE
        /\ CcWrite(IF close THEN abs + 1 ELSE now)
        /\ UNCHANGED <<compare0, early>>

\* drv_rtc_windowed_compare_set from its first write, of the counter as it was
\* read before, to the test of the distance.  The channel is silenced, and a value
\* one tick ahead is replaced by the one after it.  Half a tick is waited when the
\* value before was one tick ahead of that reading, and its event is then cleared;
\* and when the new one is, and then the call fails if a tick passes (Check), so
\* that an event of that tick, without an active timer, means nothing.
WindowOpen(abs, now) ==
    LET close == ticks_sub(abs, counter) = 1
        waits == ticks_sub(cc0, now) = 1 \/ close
    IN  /\ compare0' = FALSE
        /\ early' = FALSE
        /\ stale' = (~waits /\ (stale \/ Overwritten))
        /\ evten0' = TRUE
        /\ inten0' = FALSE
        /\ CcWrite(IF close THEN abs + 1 ELSE now)

\* The value was written, and is in the past by the time of the test after it.
WindowMissed(abs) == ticks_sub(abs - 1, counter) > MaxCnt - SafeWindow

\* The value was written, and the counter came within one tick of it.
WindowClose(abs) == ticks_sub(abs - 1, counter) = 0
=============================================================================
