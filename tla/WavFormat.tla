----------------------------- MODULE WavFormat -----------------------------
(***************************************************************************)
(* From a WAV header to the registers of the I2S peripheral: WAV_Init and  *)
(* ValidWavData of wav_db.c, the setters of sound_player.c that            *)
(* SoundPlayer_OpenWAV calls, nrfx_i2s_init and nrf_i2s_configure.         *)
(*                                                                         *)
(* The setters write one static configuration, each its own part of it, so *)
(* that an open that fails halfway leaves a mixture for the next one.  The *)
(* transfer itself is the matter of module SoundPlayer.                    *)
(***************************************************************************)
EXTENDS Integers

CONSTANTS
    Tracks,         \* the entries of sounds_library, 1 .. SOUNDS_COUNT
    Rates,          \* the sample rates that a header may have
    Unset           \* no configuration, no result

VARIABLES
    header,         \* header[t]: the header of sounds_library[t]
    checked,        \* what WAV_Init returned
    config,         \* the static config of sound_player.c
    CONFIG,         \* the registers of the initialised driver, or Unset
    result          \* what the last OpenWAV returned

vars == <<header, checked, config, CONFIG, result>>

ASSUME TracksAssumption == Tracks \subseteq Nat
ASSUME RatesAssumption == Rates \subseteq Nat \ {0}

\* tags: the section names and the PCM fields are the expected ones.
Headers == [tags : BOOLEAN, NumChannels : {1, 2, 3}, SampleRate : Rates,
            BitsPerSample : {8, 16, 24, 32}]

Results == {"SUCCESS", "INVALID_DATA", "INVALID_PARAM", "INVALID_STATE"}

\* One channel is the left one; the clock is 32 MHz / mck, the frame mck / ratio.
Configs == [channels : {1, 2}, mck : Nat, ratio : Nat, width : {8, 16, 24}]

\* NRF_DRV_I2S_DEFAULT_CONFIG.  There is no ratio of 2000, so it must not be
\* what a track is played with.
DefaultConfig == [channels |-> 1, mck |-> 8, ratio |-> 2000, width |-> 16]

TypeOK ==
    /\ header \in [Tracks -> Headers]
    /\ checked \in Results \cup {Unset}
    /\ config \in Configs
    /\ CONFIG \in Configs \cup {Unset}
    /\ result \in Results \cup {Unset}

Init ==
    /\ header \in [Tracks -> Headers]
    /\ checked = Unset
    /\ config = DefaultConfig
    /\ CONFIG = Unset
    /\ result = Unset

-----------------------------------------------------------------------------

ValidWavData(wav) ==
    /\ wav.tags
    /\ wav.NumChannels \in {1, 2}
    /\ wav.SampleRate <= 48000
    /\ wav.BitsPerSample \in {8, 16}

\* main does not look at the result, so it keeps nothing from being played.
WAV_Init ==
    /\ checked = Unset
    /\ checked' = IF \A t \in Tracks : ValidWavData(header[t])
                    THEN "SUCCESS" ELSE "INVALID_DATA"
    /\ UNCHANGED <<header, config, CONFIG, result>>

\* The switch of SoundPlayer_SetSampleRate: the divisor of the 32 MHz clock and
\* the ratio of a frame to it.
Clocks == {
    [rate |-> 8000,  mck |-> 125, ratio |-> 32],
    [rate |-> 11025, mck |-> 30,  ratio |-> 96],
    [rate |-> 16000, mck |-> 63,  ratio |-> 32],
    [rate |-> 22050, mck |-> 15,  ratio |-> 96],
    [rate |-> 32000, mck |-> 16,  ratio |-> 64],
    [rate |-> 44100, mck |-> 21,  ratio |-> 96],
    [rate |-> 48000, mck |-> 32,  ratio |-> 64]}

Supported(rate) == \E clock \in Clocks : clock.rate = rate

\* Mutant: 22050 Hz with the divisor and the ratio of 32MDIV30 and 48X.
ClockOf48(rate) ==
    IF rate = 22050 THEN [rate |-> 22050, mck |-> 30, ratio |-> 48]
    ELSE CHOOSE clock \in Clocks : clock.rate = rate

ClockOf(rate) == CHOOSE clock \in Clocks : clock.rate = rate

\* Mutant: channels and width are written without a check.
ConfiguredRaw(wav) ==
    [config EXCEPT !.channels = wav.NumChannels, !.width = wav.BitsPerSample]

\* SoundPlayer_SetChannels, SetSampleRate and SetBitsPerSample, each called when
\* the one before it succeeded.
Configured(wav) ==
    LET channels == wav.NumChannels \in {1, 2}
        rate     == channels /\ Supported(wav.SampleRate)
        width    == rate /\ wav.BitsPerSample \in {8, 16, 24}
    IN  [config EXCEPT !.channels = IF channels THEN wav.NumChannels ELSE @,
                       !.mck      = IF rate THEN ClockOf(wav.SampleRate).mck ELSE @,
                       !.ratio    = IF rate THEN ClockOf(wav.SampleRate).ratio ELSE @,
                       !.width    = IF width THEN wav.BitsPerSample ELSE @]

\* Mutant: the result of SoundPlayer_SetSampleRate is lost.
SettersFailForgetsRate(wav) ==
    wav.NumChannels \notin {1, 2} \/ wav.BitsPerSample \notin {8, 16, 24}

SettersFail(wav) ==
    \/ wav.NumChannels \notin {1, 2}
    \/ ~Supported(wav.SampleRate)
    \/ wav.BitsPerSample \notin {8, 16, 24}

\* nrf_i2s_configure, of a master: the ratio must be a multiple of two samples.
Accepts(c) ==
    ~ \/ c.width = 16 /\ c.ratio = 48
      \/ c.width = 24 /\ c.ratio \in {32, 64, 128, 256, 512}

\* SoundPlayer_OpenWAV, of a track that a command asks for, with nrfx_i2s_init.
OpenWAV(t) ==
    /\ checked # Unset
    /\ config' = Configured(header[t])
    /\ result' = IF SettersFail(header[t]) THEN "INVALID_PARAM"
                 ELSE IF CONFIG # Unset THEN "INVALID_STATE"
                 ELSE IF Accepts(config') THEN "SUCCESS" ELSE "INVALID_PARAM"
    /\ CONFIG' = IF result' = "SUCCESS" THEN config' ELSE CONFIG
    /\ UNCHANGED <<header, checked>>

\* SoundPlayer_Stop, nrfx_i2s_uninit.
Stop ==
    /\ checked # Unset
    /\ CONFIG' = Unset
    /\ UNCHANGED <<header, checked, config, result>>

Next == WAV_Init \/ (\E t \in Tracks : OpenWAV(t)) \/ Stop

Spec == Init /\ [][Next]_vars

-----------------------------------------------------------------------------
(***************************************************************************)
(* Properties.                                                             *)
(***************************************************************************)

\* The frame rate of the word select signal, in Hz.
FrameRate(c) == 32000000 \div (c.mck * c.ratio)

\* How far off the rate may be; the clock cannot be divided to each of them.
TolerancePercent == 3

Near(rate, asked) ==
    /\ (rate - asked) * 100 <= TolerancePercent * asked
    /\ (asked - rate) * 100 <= TolerancePercent * asked

\* A track that is opened is played with its own channels, sample width and
\* sample rate, whatever track was opened before it and however that failed.
OpensAsAsked ==
    [][\A t \in Tracks :
          OpenWAV(t) /\ result' = "SUCCESS" =>
              /\ CONFIG'.channels = header[t].NumChannels
              /\ CONFIG'.width = header[t].BitsPerSample
              /\ Near(FrameRate(CONFIG'), header[t].SampleRate)]_vars

\* The three places that judge a header agree: what ValidWavData accepts, and
\* the player has a clock for, the driver takes.
ValidIsTaken ==
    [][\A t \in Tracks :
          /\ OpenWAV(t) /\ CONFIG = Unset
          /\ ValidWavData(header[t]) /\ Supported(header[t].SampleRate)
          => result' = "SUCCESS"]_vars
=============================================================================
