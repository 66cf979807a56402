---------------------------- MODULE TimerService ----------------------------
(***************************************************************************)
(* What app_timer promises to those who start and stop timers, with no     *)
(* queue, list, counter or interrupt in it: a timer that was started and   *)
(* not stopped expires once, or once per period, not before it is due and  *)
(* less than Slack ticks after.                                            *)
(***************************************************************************)
EXTENDS Integers

CONSTANTS
    Timers,
    Repeated,       \* the timers created in repeated mode
    Delays,         \* the timeouts that timers are started with
    Idle,           \* the due time of a timer that is not running
    None,           \* no timer
    Slack           \* how many ticks past its due time a timer expires, at most

VARIABLES
    now,            \* the ticks that passed
    due,            \* when each timer expires next
    period,         \* the period of each repeated timer
    handling        \* the timer whose handler runs

vars == <<now, due, period, handling>>

Init ==
    /\ now = 0
    /\ due = [t \in Timers |-> Idle]
    /\ period = [t \in Timers |-> IF t \in Repeated THEN 1 ELSE 0]
    /\ handling = None

\* Time does not pass a timer that has been due for Slack ticks.
InTime == \A t \in Timers : due[t] # Idle => now < due[t] + Slack

Pass ==
    /\ now' = now + 1
    /\ UNCHANGED <<due, period, handling>>

Tick == InTime /\ Pass

Start(t, delay) ==
    /\ due[t] = Idle
    /\ due' = [due EXCEPT ![t] = now + delay]
    /\ period' = [period EXCEPT ![t] = IF t \in Repeated THEN delay ELSE 0]
    /\ UNCHANGED <<now, handling>>

Stop(t) ==
    /\ due[t] # Idle
    /\ due' = [due EXCEPT ![t] = Idle]
    /\ UNCHANGED <<now, period, handling>>

Expire(t) ==
    /\ handling = None
    /\ due[t] # Idle
    /\ due[t] <= now
    /\ due' = [due EXCEPT ![t] = IF t \in Repeated THEN @ + period[t] ELSE Idle]
    /\ handling' = t
    /\ UNCHANGED <<now, period>>

Return ==
    /\ handling # None
    /\ handling' = None
    /\ UNCHANGED <<now, due, period>>

Next ==
    \/ Tick
    \/ \E t \in Timers : Stop(t) \/ Expire(t) \/ \E delay \in Delays : Start(t, delay)
    \/ Return

Spec == Init /\ [][Next]_vars

\* The same with no bound on how late a timer expires.
LateSpec == Init /\ [][Pass \/ Next]_vars
=============================================================================
