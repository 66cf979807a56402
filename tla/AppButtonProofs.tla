-------------------------- MODULE AppButtonProofs --------------------------
(***************************************************************************)
(* Proofs about AppButton, for any set of buttons of either polarity.      *)
(***************************************************************************)
EXTENDS AppButton, TLAPS

\* The state machine stays inside its states, whatever is sampled.
LEMMA NextStateType ==
    ASSUME TypeOK, NEW pin \in Pins, NEW value \in BOOLEAN
    PROVE  NextState(pin, value) \in BtnStates
BY DEF NextState, TypeOK, BtnStates

\* The variables of app_button.c, the SENSE fields and the LATCH bits keep their
\* ranges: no sequence of edges, polls, enables and disables leaves them.
THEOREM TypeCorrect == Spec => []TypeOK
<1>1. ASSUME Init PROVE TypeOK
  <2>1. /\ level \in [Pins -> Levels]
        /\ sense \in [Pins -> Levels \cup {"NOSENSE"}]
        /\ pin_state \in [Pins -> BtnStates]
        /\ reported \in [Pins -> {"NONE", "PUSH", "RELEASE"}]
        /\ pin_active \subseteq Pins
    BY <1>1 DEF Init, Levels, BtnStates
  <2>2. latch \in [Pins -> BOOLEAN] /\ {timer, enabled, disabled} \subseteq BOOLEAN
    BY <1>1, Zenon DEF Init
  <2>3. <<FALSE, FALSE>> \in BOOLEAN \X BOOLEAN
    BY Zenon
  <2>4. sampled \in [Pins -> BOOLEAN \X BOOLEAN]
    BY <1>1, <2>3 DEF Init
  <2> QED
    BY <2>1, <2>2, <2>4 DEF TypeOK
<1>2. ASSUME TypeOK, [Next]_vars PROVE TypeOK'
  <2> USE <1>2 DEF Levels
  <2>1. ASSUME NEW pin \in Pins, LevelChange(pin) PROVE TypeOK'
    BY <2>1 DEF TypeOK, LevelChange, Opposite, stateVars, historyVars
  <2>2. ASSUME NEW pin \in Pins, PortEvent(pin) PROVE TypeOK'
    BY <2>2 DEF TypeOK, PortEvent, Opposite, timer_start, historyVars
  <2>3. CASE Timeout
    <3>1. pin_state' \in [Pins -> BtnStates]
      BY <2>3, NextStateType DEF Timeout, IsActive
    <3>2. pin_active' \subseteq Pins /\ timer' \in BOOLEAN
      BY <2>3 DEF Timeout, NextActive, TypeOK
    <3>3. reported' \in [Pins -> {"NONE", "PUSH", "RELEASE"}]
      BY <2>3 DEF Timeout, TypeOK
    <3>4. sampled' \in [Pins -> BOOLEAN \X BOOLEAN]
      BY <2>3 DEF Timeout, TypeOK, IsActive
    <3>5. /\ level' \in [Pins -> Levels]
          /\ sense' \in [Pins -> Levels \cup {"NOSENSE"}]
          /\ latch' \in [Pins -> BOOLEAN]
          /\ {enabled', disabled'} \subseteq BOOLEAN
      BY <2>3 DEF Timeout, TypeOK, gpioVars
    <3> QED
      BY <3>1, <3>2, <3>3, <3>4, <3>5 DEF TypeOK
  <2>4. CASE Enable
    BY <2>4 DEF TypeOK, Enable, Opposite, stateVars
  <2>5. CASE Disable
    BY <2>5 DEF TypeOK, Disable
  <2>6. CASE UNCHANGED vars
    BY <2>6 DEF TypeOK, vars, gpioVars, stateVars, historyVars
  <2> QED
    BY <2>1, <2>2, <2>3, <2>4, <2>5, <2>6 DEF Next
<1> QED
  BY <1>1, <1>2, PTL DEF Spec

\* A poll keeps what the handlers were told in step with the debounced states.
LEMMA TimeoutTells ==
    ASSUME TypeOK, ToldWhatIs, Timeout
    PROVE  ToldWhatIs'
<1> SUFFICES ASSUME NEW pin \in Pins
             PROVE  reported'[pin] = "PUSH"
                       <=> pin_state'[pin] \in {"PRESSED", "RELEASE_DETECTED"}
  BY DEF ToldWhatIs
<1>1. /\ pin_state'[pin] = NextState(pin, IsActive(pin))
      /\ reported'[pin] = IF Pushed(pin) THEN "PUSH"
                          ELSE IF Released(pin) THEN "RELEASE"
                          ELSE reported[pin]
  BY DEF Timeout
<1>2. pin_state[pin] \in BtnStates
  BY DEF TypeOK
<1>3. reported[pin] = "PUSH" <=> pin_state[pin] \in {"PRESSED", "RELEASE_DETECTED"}
  BY DEF ToldWhatIs
<1> QED
  BY <1>1, <1>2, <1>3 DEF NextState, Pushed, Released, BtnStates

\* Whatever the pins do, and whether or not the buttons are disabled meanwhile,
\* the last event of a button is a push exactly while its debounced state is
\* pressed: no push or release is reported twice or left out.
THEOREM TellsWhatIs == Spec => []ToldWhatIs
<1>1. Init => ToldWhatIs
  BY DEF Init, ToldWhatIs
<1>2. ASSUME TypeOK, ToldWhatIs, [Next]_vars PROVE ToldWhatIs'
  <2>1. CASE Timeout
    BY <1>2, <2>1, TimeoutTells
  <2>2. CASE UNCHANGED <<pin_state, reported>>
    BY <1>2, <2>2 DEF ToldWhatIs
  <2> QED
    BY <1>2, <2>1, <2>2 DEF Next, LevelChange, PortEvent, Enable, Disable, vars,
       stateVars, historyVars
<1> QED
  BY <1>1, <1>2, TypeCorrect, PTL DEF Spec

-----------------------------------------------------------------------------

\* The timer runs for as long as a pin is in m_pin_active, and every button that
\* is not idle has its pin there.
PollInv ==
    /\ \A pin \in Pins : pin_state[pin] # "IDLE" => pin \in pin_active
    /\ pin_active # {} => timer

\* As long as the buttons are not disabled, and this program never does, a button
\* that has left the idle state is polled until it is back: no port event is needed, and
\* none could restart the timer, as long as some pin is active.
THEOREM NeverStuck == Spec => []PolledUntilIdle
<1> DEFINE Inv == disabled \/ PollInv
<1>1. Init => Inv
  BY DEF Init, PollInv
<1>2. ASSUME TypeOK, PollInv, [Next]_vars, ~Disable PROVE PollInv'
  <2>1. CASE Timeout
    <3>1. ASSUME NEW pin \in Pins, pin_state'[pin] # "IDLE" PROVE pin \in pin_active'
      <4>1. pin_state'[pin] = NextState(pin, IsActive(pin)) /\ pin_active' = NextActive
        BY <2>1 DEF Timeout
      <4>2. pin_state[pin] \in BtnStates /\ (pin_state[pin] # "IDLE" => pin \in pin_active)
        BY <1>2 DEF TypeOK, PollInv
      <4> QED
        BY <3>1, <4>1, <4>2 DEF NextState, NextActive, Released, BtnStates
    <3>2. pin_active' # {} => timer'
      BY <2>1 DEF Timeout
    <3> QED
      BY <3>1, <3>2 DEF PollInv
  <2>2. ASSUME NEW pin \in Pins, PortEvent(pin) PROVE PollInv'
    BY <1>2, <2>2 DEF PollInv, PortEvent, timer_start
  <2>3. CASE UNCHANGED stateVars
    BY <1>2, <2>3 DEF PollInv, stateVars
  <2> QED
    BY <1>2, <2>1, <2>2, <2>3 DEF Next, LevelChange, Enable, vars
<1>3. ASSUME TypeOK, Inv, [Next]_vars PROVE Inv'
  <2>1. Disable => disabled'
    BY DEF Disable
  <2>2. disabled => disabled'
    BY <1>3 DEF Next, LevelChange, PortEvent, Timeout, Enable, Disable, historyVars, vars
  <2> QED
    BY <1>2, <1>3, <2>1, <2>2
<1>4. Inv => PolledUntilIdle
  BY DEF PollInv, PolledUntilIdle
<1> QED
  BY <1>1, <1>3, <1>4, TypeCorrect, PTL DEF Spec

-----------------------------------------------------------------------------

\* A button whose press or release has been detected but not reported yet was
\* sampled so at the last poll.
SampleInv ==
    \A pin \in Pins :
        /\ pin_state[pin] = "PRESS_DETECTED" => sampled[pin][2] = TRUE
        /\ pin_state[pin] = "RELEASE_DETECTED" => sampled[pin][2] = FALSE

\* What Debounced says of a step.
DebouncedStep ==
    \A pin \in Pins : reported'[pin] # reported[pin] =>
        sampled'[pin] = IF reported'[pin] = "PUSH" THEN <<TRUE, TRUE>>
                                                   ELSE <<FALSE, FALSE>>

\* A poll keeps the last sample in step with the detected states.
LEMMA TimeoutSamples ==
    ASSUME TypeOK, SampleInv, Timeout
    PROVE  SampleInv'
<1> SUFFICES ASSUME NEW pin \in Pins
             PROVE  /\ pin_state'[pin] = "PRESS_DETECTED" => sampled'[pin][2] = TRUE
                    /\ pin_state'[pin] = "RELEASE_DETECTED" => sampled'[pin][2] = FALSE
  BY DEF SampleInv
<1>1. /\ pin_state'[pin] = NextState(pin, IsActive(pin))
      /\ sampled'[pin][2] = IsActive(pin)
  BY DEF Timeout
<1>2. pin_state[pin] \in BtnStates
  BY DEF TypeOK
<1>3. pin_state'[pin] = "PRESS_DETECTED" => IsActive(pin)
  BY <1>1, <1>2 DEF NextState, BtnStates
<1>4. pin_state'[pin] = "RELEASE_DETECTED" => ~IsActive(pin)
  BY <1>1, <1>2 DEF NextState, BtnStates
<1>5. IsActive(pin) \in BOOLEAN
  BY Zenon DEF IsActive
<1> QED
  BY <1>1, <1>3, <1>4, <1>5, Zenon

\* A poll reports what its own sample and the one before agree on.
LEMMA TimeoutDebounces ==
    ASSUME TypeOK, SampleInv, Timeout
    PROVE  DebouncedStep
<1> SUFFICES ASSUME NEW pin \in Pins, reported'[pin] # reported[pin]
             PROVE  sampled'[pin] = IF reported'[pin] = "PUSH" THEN <<TRUE, TRUE>>
                                                               ELSE <<FALSE, FALSE>>
  BY DEF DebouncedStep
<1>1. sampled'[pin] = <<sampled[pin][2], IsActive(pin)>>
  BY DEF Timeout
<1>2. CASE Pushed(pin)
  <2>1. reported'[pin] = "PUSH"
    BY <1>2 DEF Timeout
  <2>2. IsActive(pin) = TRUE /\ sampled[pin][2] = TRUE
    BY <1>2, Zenon DEF Pushed, SampleInv, IsActive
  <2> QED
    BY <1>1, <2>1, <2>2, Zenon
<1>3. CASE ~Pushed(pin) /\ Released(pin)
  <2>1. reported'[pin] = "RELEASE"
    BY <1>3 DEF Timeout
  <2>2. IsActive(pin) = FALSE /\ sampled[pin][2] = FALSE
    BY <1>3, Zenon DEF Released, SampleInv, IsActive
  <2>3. reported'[pin] # "PUSH"
    BY <2>1
  <2> QED
    BY <1>1, <2>2, <2>3, Zenon
<1>4. CASE ~Pushed(pin) /\ ~Released(pin)
  BY <1>4 DEF Timeout
<1> QED
  BY <1>2, <1>3, <1>4

\* However the pins bounce, an event is only reported when two polls in a row
\* agree with it.
THEOREM Debounces == Spec => Debounced
<1>1. Init => SampleInv
  BY DEF Init, SampleInv
<1>2. ASSUME TypeOK, SampleInv, [Next]_vars PROVE SampleInv' /\ DebouncedStep
  <2>1. CASE Timeout
    BY <1>2, <2>1, TimeoutSamples, TimeoutDebounces
  <2>2. CASE UNCHANGED <<pin_state, reported, sampled>>
    BY <1>2, <2>2 DEF SampleInv, DebouncedStep
  <2> QED
    BY <1>2, <2>1, <2>2 DEF Next, LevelChange, PortEvent, Enable, Disable, vars,
       stateVars, historyVars
<1> QED
  BY <1>1, <1>2, TypeCorrect, PTL DEF Spec, Debounced, DebouncedStep
=============================================================================
