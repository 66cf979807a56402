----------------------------- MODULE AppButton -----------------------------
(***************************************************************************)
(* app_button.c: debouncing the buttons by polling, between the GPIOTE     *)
(* driver that notices an edge and the handler that is told of a push or a *)
(* release.  The levels of the pins are the environment: they may change,  *)
(* and bounce, at any moment.                                              *)
(*                                                                         *)
(* The GPIOTE and the app_timer handlers run at the same priority, and so  *)
(* does whoever calls app_button_disable, so a poll, a port event of one   *)
(* pin and a call of the API are one action each.                          *)
(***************************************************************************)
EXTENDS Naturals

CONSTANTS
    Pins,           \* mp_buttons: the pins of the configured buttons
    active_state    \* active_state[pin]: the level of a pressed button

VARIABLES
    level,          \* the electrical level of each pin
    sense,          \* SENSE field of each pin: the level that raises DETECT
    latch,          \* LATCH bit of each pin: DETECT was raised since
    pin_state,      \* m_pin_states
    pin_active,     \* m_pin_active
    timer,          \* m_detection_delay_timer_id is running
    enabled,        \* history: app_button_enable was called, and not disable since
    disabled,       \* history: app_button_disable was called, as main.c never does
    reported,       \* history: the last event each button's handler got
    sampled         \* history: the value of each button at the last two polls

gpioVars    == <<level, sense, latch>>
stateVars   == <<pin_state, pin_active, timer>>
historyVars == <<enabled, disabled, reported, sampled>>
vars        == <<gpioVars, stateVars, historyVars>>

Levels    == {"LOW", "HIGH"}
BtnStates == {"IDLE", "PRESS_ARMED", "PRESS_DETECTED", "PRESSED", "RELEASE_DETECTED"}

ASSUME ActiveStateAssumption == active_state \in [Pins -> Levels]

TypeOK ==
    /\ level \in [Pins -> Levels]
    /\ sense \in [Pins -> Levels \cup {"NOSENSE"}]
    /\ latch \in [Pins -> BOOLEAN]
    /\ pin_state \in [Pins -> BtnStates]
    /\ pin_active \subseteq Pins
    /\ timer \in BOOLEAN
    /\ {enabled, disabled} \subseteq BOOLEAN
    /\ reported \in [Pins -> {"NONE", "PUSH", "RELEASE"}]
    /\ sampled \in [Pins -> BOOLEAN \X BOOLEAN]

\* app_button_init.
Init ==
    /\ level \in [Pins -> Levels]
    /\ sense = [pin \in Pins |-> "NOSENSE"]
    /\ latch = [pin \in Pins |-> FALSE]
    /\ pin_state = [pin \in Pins |-> "IDLE"]
    /\ pin_active = {}
    /\ timer = FALSE
    /\ enabled = FALSE
    /\ disabled = FALSE
    /\ reported = [pin \in Pins |-> "NONE"]
    /\ sampled = [pin \in Pins |-> <<FALSE, FALSE>>]

IsActive(pin) == level[pin] = active_state[pin]

-----------------------------------------------------------------------------
(***************************************************************************)
(* The pins and the GPIOTE driver.                                         *)
(***************************************************************************)

Opposite(l) == IF l = "HIGH" THEN "LOW" ELSE "HIGH"

\* A button is pressed or released, or bounces.
LevelChange(pin) ==
    /\ level' = [level EXCEPT ![pin] = Opposite(@)]
    /\ latch' = [latch EXCEPT ![pin] = @ \/ level'[pin] = sense[pin]]
    /\ UNCHANGED <<sense, stateVars, historyVars>>

\* app_timer_start does nothing when the timer already runs.
timer_start == timer' = TRUE

\* Mutant: an edge during the processing of the one before is forgotten.
PortEventClearsLatch(pin) ==
    /\ latch[pin]
    /\ sense' = [sense EXCEPT ![pin] = Opposite(@)]
    /\ latch' = [latch EXCEPT ![pin] = FALSE]
    /\ IF IsActive(pin) /\ pin_active = {} THEN timer_start ELSE UNCHANGED timer
    /\ UNCHANGED <<level, pin_state, pin_active, historyVars>>

\* port_event_handle for one pin, and the handler it calls.  The pin is left
\* sensing the opposite of what it sensed, be that NOSENSE, and its LATCH bit
\* cannot be cleared while the level is the sensed one.
PortEvent(pin) ==
    /\ latch[pin]
    /\ sense' = [sense EXCEPT ![pin] = Opposite(@)]
    /\ latch' = [latch EXCEPT ![pin] = level[pin] = sense'[pin]]
    /\ IF IsActive(pin) /\ pin_active = {} THEN timer_start ELSE UNCHANGED timer
    /\ UNCHANGED <<level, pin_state, pin_active, historyVars>>

-----------------------------------------------------------------------------
(***************************************************************************)
(* evt_handle, for every button at once.                                   *)
(***************************************************************************)

\* Mutant: the second sample in a row is not waited for.
NextStateUndebounced(pin, value) ==
    IF value
      THEN IF pin_state[pin] = "IDLE" \/ pin_state[pin] = "PRESS_ARMED"
             THEN "PRESS_DETECTED" ELSE "PRESSED"
      ELSE IF pin_state[pin] = "PRESS_DETECTED" THEN "PRESS_DETECTED"
           ELSE IF pin_state[pin] = "PRESSED" THEN "RELEASE_DETECTED" ELSE "IDLE"

\* Mutant: the state is counted up, past the last one when a release bounces.
NextStateCounted(pin, value) ==
    IF value
      THEN IF pin_state[pin] = "IDLE" THEN "PRESS_ARMED"
           ELSE IF pin_state[pin] = "PRESS_ARMED" THEN "PRESS_DETECTED"
           ELSE IF pin_state[pin] = "RELEASE_DETECTED" THEN "INVALID" ELSE "PRESSED"
      ELSE IF pin_state[pin] = "PRESS_DETECTED" THEN "PRESS_ARMED"
           ELSE IF pin_state[pin] = "PRESSED" THEN "RELEASE_DETECTED" ELSE "IDLE"

\* Mutant: the second sample is the one that counts, but the event is missed.
NextStateDropsPress(pin, value) ==
    IF value
      THEN IF pin_state[pin] = "IDLE" THEN "PRESS_ARMED" ELSE "PRESSED"
      ELSE IF pin_state[pin] = "PRESS_DETECTED" THEN "PRESS_ARMED"
           ELSE IF pin_state[pin] = "PRESSED" THEN "RELEASE_DETECTED" ELSE "IDLE"

\* The state that follows a sample.
NextState(pin, value) ==
    IF value
      THEN IF pin_state[pin] = "IDLE" THEN "PRESS_ARMED"
           ELSE IF pin_state[pin] = "PRESS_ARMED" THEN "PRESS_DETECTED" ELSE "PRESSED"
      ELSE IF pin_state[pin] = "PRESS_DETECTED" THEN "PRESS_ARMED"
           ELSE IF pin_state[pin] = "PRESSED" THEN "RELEASE_DETECTED" ELSE "IDLE"

\* The calls of usr_event.
Pushed(pin)   == pin_state[pin] = "PRESS_DETECTED" /\ IsActive(pin)
Released(pin) == pin_state[pin] = "RELEASE_DETECTED" /\ ~IsActive(pin)

\* Mutant: the pin leaves m_pin_active as soon as a release is detected.
NextActiveTooEarly ==
    (pin_active \cup {pin \in Pins : pin_state[pin] = "IDLE" /\ IsActive(pin)})
        \ {pin \in Pins : pin_state[pin] = "PRESSED" /\ ~IsActive(pin)}

\* Pins join m_pin_active when they leave IDLE, and leave it when a release is
\* reported.
NextActive ==
    (pin_active \cup {pin \in Pins : pin_state[pin] = "IDLE" /\ IsActive(pin)})
        \ {pin \in Pins : Released(pin)}

\* detection_delay_timeout_handler.  The single-shot timer is idle by the time
\* its handler is called.
Timeout ==
    /\ timer
    /\ pin_state' = [pin \in Pins |-> NextState(pin, IsActive(pin))]
    /\ pin_active' = NextActive
    /\ timer' = (pin_active' # {})
    /\ reported' = [pin \in Pins |-> IF Pushed(pin) THEN "PUSH"
                                     ELSE IF Released(pin) THEN "RELEASE"
                                     ELSE reported[pin]]
    /\ sampled' = [pin \in Pins |-> <<sampled[pin][2], IsActive(pin)>>]
    /\ UNCHANGED <<gpioVars, enabled, disabled>>

-----------------------------------------------------------------------------

\* app_button_enable: each pin senses the opposite of its level.
Enable ==
    /\ ~enabled
    /\ enabled' = TRUE
    /\ sense' = [pin \in Pins |-> Opposite(level[pin])]
    /\ UNCHANGED <<level, latch, stateVars, disabled, reported, sampled>>

\* app_button_disable.  The states of the pins and the LATCH bits stay.
Disable ==
    /\ enabled
    /\ enabled' = FALSE
    /\ disabled' = TRUE
    /\ sense' = [pin \in Pins |-> "NOSENSE"]
    /\ pin_active' = {}
    /\ timer' = FALSE
    /\ UNCHANGED <<level, latch, pin_state, reported, sampled>>

Next ==
    \/ \E pin \in Pins : LevelChange(pin) \/ PortEvent(pin)
    \/ Timeout
    \/ Enable
    \/ Disable

Spec == Init /\ [][Next]_vars

\* main enables the buttons; a latched pin interrupts; a running timer expires.
\* Nothing makes a user press or release.
Fairness ==
    /\ WF_vars(Enable)
    /\ \A pin \in Pins : WF_vars(PortEvent(pin))
    /\ WF_vars(Timeout)

FairSpec == Spec /\ Fairness

-----------------------------------------------------------------------------
(***************************************************************************)
(* Properties.                                                             *)
(***************************************************************************)

\* A button that is not idle is being polled: its pin is in m_pin_active and
\* the timer runs.  Otherwise it would be stuck, because gpiote_event_handler
\* only starts the timer when no pin is active.  It is, once app_button_disable
\* was called on a button that is not idle: the state stays.
PolledUntilIdle ==
    ~disabled => \A pin \in Pins : pin_state[pin] # "IDLE" => pin \in pin_active /\ timer

\* The handler was last told of a push exactly while the debounced state is
\* pressed: no event is missing, and none comes twice.
ToldWhatIs ==
    \A pin \in Pins :
        reported[pin] = "PUSH" <=> pin_state[pin] \in {"PRESSED", "RELEASE_DETECTED"}

\* Bounces are filtered out: an event is only reported when two polls in a row
\* agree with it.
Debounced ==
    [][\A pin \in Pins : reported'[pin] # reported[pin] =>
          sampled'[pin] = IF reported'[pin] = "PUSH" THEN <<TRUE, TRUE>>
                                                     ELSE <<FALSE, FALSE>>]_vars

\* The edge that enables polling is never lost, however the pin bounced before
\* and whatever the other pins do: a button pressed after app_button_enable and
\* held is reported, and so is its release, if the buttons are never disabled.
HeldIsReported ==
    []~disabled => \A pin \in Pins :
        [](enabled /\ ~IsActive(pin) /\ <>[]IsActive(pin) => <>[](reported[pin] = "PUSH"))

ReleaseIsReported ==
    []~disabled => \A pin \in Pins : <>[]~IsActive(pin) => <>[](reported[pin] # "PUSH")

\* app_button.c:62-63, "Timer is stopped when there is no active buttons (all
\* buttons are in idle state)".  A press that ends in PRESS_ARMED leaves its
\* bit in m_pin_active.
TimerStopsWhenIdle ==
    <>[](\A pin \in Pins : pin_state[pin] = "IDLE") => <>[]~timer

\* app_button.h:119, app_button_disable is the "Function for disabling button
\* detection".  A LATCH bit that is pending at the call makes the GPIOTE driver
\* sense the pin again.
DisabledIsQuiet ==
    [][~enabled => reported' = reported]_vars
=============================================================================
