--------------------------- MODULE WavFormatProofs ---------------------------
(***************************************************************************)
(* Proofs about WavFormat, for any number of tracks with any headers.      *)
(***************************************************************************)
EXTENDS WavFormat, TLAPS

-----------------------------------------------------------------------------
(***************************************************************************)
(* The clock of a rate, and what the setters make of a header.             *)
(***************************************************************************)

\* The clock that is chosen for a rate is that of the rate.
LEMMA ClockFound ==
    ASSUME NEW rate, Supported(rate)
    PROVE  ClockOf(rate) \in Clocks /\ ClockOf(rate).rate = rate
BY DEF Supported, ClockOf

\* Every ratio is one that nrf_i2s_configure takes with 8 and with 16 bits.
LEMMA ClockTypes ==
    ASSUME NEW clock \in Clocks
    PROVE  clock.mck \in Nat /\ clock.ratio \in {32, 64, 96}
BY DEF Clocks

LEMMA SettersTyped ==
    ASSUME NEW wav, config \in Configs
    PROVE  Configured(wav) \in Configs
<1> DEFINE channels == wav.NumChannels \in {1, 2}
           rate     == channels /\ Supported(wav.SampleRate)
           width    == rate /\ wav.BitsPerSample \in {8, 16, 24}
           c == [config EXCEPT !.channels = IF channels THEN wav.NumChannels ELSE @,
                               !.mck      = IF rate THEN ClockOf(wav.SampleRate).mck ELSE @,
                               !.ratio    = IF rate THEN ClockOf(wav.SampleRate).ratio ELSE @,
                               !.width    = IF width THEN wav.BitsPerSample ELSE @]
<1>1. Configured(wav) = c
  BY DEF Configured
<1>2. rate => ClockOf(wav.SampleRate).mck \in Nat /\ ClockOf(wav.SampleRate).ratio \in Nat
  <2> SUFFICES ASSUME Supported(wav.SampleRate)
               PROVE  ClockOf(wav.SampleRate).mck \in Nat /\ ClockOf(wav.SampleRate).ratio \in Nat
    OBVIOUS
  <2>1. /\ ClockOf(wav.SampleRate).mck \in Nat
        /\ ClockOf(wav.SampleRate).ratio \in {32, 64, 96}
    BY ClockFound, ClockTypes
  <2> QED
    BY <2>1
<1>3. c \in Configs
  <2> HIDE DEF rate
  <2> QED
    BY <1>2 DEF Configs
<1> QED
  BY <1>1, <1>3

\* When no setter fails the configuration is that of the header.
LEMMA SettersDone ==
    ASSUME NEW wav, config \in Configs, ~SettersFail(wav)
    PROVE  /\ Configured(wav).channels = wav.NumChannels
           /\ Configured(wav).width = wav.BitsPerSample
           /\ Configured(wav).mck = ClockOf(wav.SampleRate).mck
           /\ Configured(wav).ratio = ClockOf(wav.SampleRate).ratio
<1>1. /\ wav.NumChannels \in {1, 2} /\ Supported(wav.SampleRate)
      /\ wav.BitsPerSample \in {8, 16, 24}
  BY DEF SettersFail
<1>2. Configured(wav) = [config EXCEPT !.channels = wav.NumChannels,
                                       !.mck      = ClockOf(wav.SampleRate).mck,
                                       !.ratio    = ClockOf(wav.SampleRate).ratio,
                                       !.width    = wav.BitsPerSample]
  BY <1>1 DEF Configured
<1> QED
  BY <1>2 DEF Configs

\* Of every clock but those of 44100 and 48000 Hz the frame rate is near the rate.
LEMMA FrameRateNear ==
    ASSUME NEW clock \in Clocks, clock.rate \notin {44100, 48000}
    PROVE  Near(FrameRate(clock), clock.rate)
<1>1. CASE clock = [rate |-> 8000, mck |-> 125, ratio |-> 32]
  <2>1. FrameRate(clock) = 8000
    BY <1>1 DEF FrameRate
  <2> QED
    BY <1>1, <2>1 DEF Near, TolerancePercent
<1>2. CASE clock = [rate |-> 11025, mck |-> 30, ratio |-> 96]
  <2>1. FrameRate(clock) = 11111
    BY <1>2 DEF FrameRate
  <2> QED
    BY <1>2, <2>1 DEF Near, TolerancePercent
<1>3. CASE clock = [rate |-> 16000, mck |-> 63, ratio |-> 32]
  <2>1. FrameRate(clock) = 15873
    BY <1>3 DEF FrameRate
  <2> QED
    BY <1>3, <2>1 DEF Near, TolerancePercent
<1>4. CASE clock = [rate |-> 22050, mck |-> 15, ratio |-> 96]
  <2>1. FrameRate(clock) = 22222
    BY <1>4 DEF FrameRate
  <2> QED
    BY <1>4, <2>1 DEF Near, TolerancePercent
<1>5. CASE clock = [rate |-> 32000, mck |-> 16, ratio |-> 64]
  <2>1. FrameRate(clock) = 31250
    BY <1>5 DEF FrameRate
  <2> QED
    BY <1>5, <2>1 DEF Near, TolerancePercent
<1> QED
  BY <1>1, <1>2, <1>3, <1>4, <1>5 DEF Clocks

-----------------------------------------------------------------------------
(***************************************************************************)
(* The theorems.                                                           *)
(***************************************************************************)

LEMMA OpenTyped ==
    ASSUME TypeOK, NEW t \in Tracks, OpenWAV(t)
    PROVE  TypeOK'
<1>1. config' \in Configs
  BY SettersTyped DEF OpenWAV, TypeOK
<1>2. result' \in Results
  BY DEF OpenWAV, Results
<1>3. CONFIG' \in Configs \cup {Unset}
  BY <1>1 DEF OpenWAV, TypeOK
<1> QED
  BY <1>1, <1>2, <1>3 DEF OpenWAV, TypeOK

\* The configuration is always one of the peripheral, of whatever headers and
\* failed opens it is made.
THEOREM WavTypes == Spec => []TypeOK
<1>1. Init => TypeOK
  BY DEF Init, TypeOK, DefaultConfig, Configs
<1>2. ASSUME TypeOK, [Next]_vars PROVE TypeOK'
  <2>1. CASE WAV_Init
    BY <1>2, <2>1 DEF WAV_Init, TypeOK, Results
  <2>2. CASE \E t \in Tracks : OpenWAV(t)
    BY <1>2, <2>2, OpenTyped
  <2>3. CASE Stop
    BY <1>2, <2>3 DEF Stop, TypeOK
  <2>4. CASE UNCHANGED vars
    BY <1>2, <2>4 DEF vars, TypeOK
  <2> QED
    BY <1>2, <2>1, <2>2, <2>3, <2>4 DEF Next
<1> QED
  BY <1>1, <1>2, PTL DEF Spec

\* A track that is opened plays with its own channels and width, whatever was left
\* by the opens before it, and near its own rate if that is not one of the two
\* whose divisors are wrong.
THEOREM OpenedAsAsked ==
    ASSUME Rates \cap {44100, 48000} = {}
    PROVE  Spec => OpensAsAsked
<1>1. ASSUME TypeOK, NEW t \in Tracks, OpenWAV(t), result' = "SUCCESS"
      PROVE  /\ CONFIG'.channels = header[t].NumChannels
             /\ CONFIG'.width = header[t].BitsPerSample
             /\ Near(FrameRate(CONFIG'), header[t].SampleRate)
  <2> DEFINE wav == header[t]
             clock == ClockOf(wav.SampleRate)
  <2>1. ~SettersFail(wav) /\ CONFIG' = Configured(wav) /\ config \in Configs
    BY <1>1 DEF OpenWAV, TypeOK
  <2>2. Supported(wav.SampleRate) /\ wav.SampleRate \in Rates
    BY <1>1, <2>1 DEF SettersFail, TypeOK, Headers
  <2>3. clock \in Clocks /\ clock.rate = wav.SampleRate
    BY <2>2, ClockFound
  <2> HIDE DEF wav, clock
  <2>4. /\ CONFIG'.channels = wav.NumChannels /\ CONFIG'.width = wav.BitsPerSample
        /\ CONFIG'.mck = clock.mck /\ CONFIG'.ratio = clock.ratio
    BY <2>1, SettersDone DEF clock
  <2>5. clock.rate \notin {44100, 48000}
    BY <2>2, <2>3
  <2>6. FrameRate(CONFIG') = FrameRate(clock)
    BY <2>4 DEF FrameRate
  <2>7. Near(FrameRate(clock), clock.rate)
    BY <2>3, <2>5, FrameRateNear
  <2> QED
    BY <2>3, <2>4, <2>6, <2>7 DEF wav
<1>2. TypeOK => [\A t \in Tracks :
          OpenWAV(t) /\ result' = "SUCCESS" =>
              /\ CONFIG'.channels = header[t].NumChannels
              /\ CONFIG'.width = header[t].BitsPerSample
              /\ Near(FrameRate(CONFIG'), header[t].SampleRate)]_vars
  BY <1>1
<1> QED
  BY <1>2, WavTypes, PTL DEF OpensAsAsked

\* What WAV_Init accepts and the player has a clock for, the driver takes.
THEOREM ValidTaken == Spec => ValidIsTaken
<1>1. ASSUME TypeOK, NEW t \in Tracks, OpenWAV(t), CONFIG = Unset,
             ValidWavData(header[t]), Supported(header[t].SampleRate)
      PROVE  result' = "SUCCESS"
  <2> DEFINE wav == header[t]
             clock == ClockOf(wav.SampleRate)
  <2>1. ~SettersFail(wav) /\ wav.BitsPerSample \in {8, 16}
    BY <1>1 DEF ValidWavData, SettersFail
  <2>2. config' = Configured(wav) /\ config \in Configs
    BY <1>1 DEF OpenWAV, TypeOK
  <2>3. clock \in Clocks
    BY <1>1, ClockFound
  <2>4. clock.ratio \in {32, 64, 96}
    BY <2>3, ClockTypes
  <2>5. config'.width = wav.BitsPerSample /\ config'.ratio = clock.ratio
    BY <2>1, <2>2, SettersDone
  <2> HIDE DEF clock
  <2>6. config'.width \in {8, 16} /\ config'.ratio \in {32, 64, 96}
    BY <2>1, <2>4, <2>5
  <2>7. Accepts(config')
    <3>1. \A c : c.width \in {8, 16} /\ c.ratio \in {32, 64, 96} => Accepts(c)
      BY DEF Accepts
    <3> QED
      BY <2>6, <3>1
  <2> QED
    BY <1>1, <2>1, <2>7 DEF OpenWAV
<1>2. TypeOK => [\A t \in Tracks :
          /\ OpenWAV(t) /\ CONFIG = Unset
          /\ ValidWavData(header[t]) /\ Supported(header[t].SampleRate)
          => result' = "SUCCESS"]_vars
  BY <1>1
<1> QED
  BY <1>2, WavTypes, PTL DEF ValidIsTaken
=============================================================================
