---------------------------- MODULE SoundPlayer ----------------------------
(***************************************************************************)
(* sound_player.c on top of the I2S driver, and the two users of its API:  *)
(* snd_cmd_write_handler in ble_handlers.c, reached from the BLE command   *)
(* characteristic and from the buttons.                                    *)
(*                                                                         *)
(* The BLE event dispatch, the app_timer handlers (buttons) and the I2S    *)
(* interrupt all run at interrupt priority 6, so a command handler and the *)
(* I2S handler never preempt each other; what runs concurrently with both  *)
(* is the peripheral.  A "play" command is two actions, OpenWAV and Play,  *)
(* and an interrupt is two, the driver's half and data_handler, with the   *)
(* peripheral free to act between the two.                                 *)
(*                                                                         *)
(* A block of audio data is not copied byte by byte: a buffer holds the    *)
(* chunk [track, off, len] of the track it was filled from.                *)
(***************************************************************************)
EXTENDS I2sDriver, Naturals

CONSTANTS
    I2S_TX_BUFFERS_COUNT,
    BlockBytes,     \* I2S_BUFFER_SIZE
    Tracks,         \* the entries of sounds_library
    Fmt,            \* Fmt[t]: the I2S format the WAV header of t asks for
    DataSize,       \* DataSize[t]: the DataSize field of that header
    Silence,        \* the contents of a buffer that was only memset
    NoData,         \* data_to_play_ptr = NULL
    HwOutruns       \* whether the peripheral can finish a block before the
                    \* interrupt for the previous boundary has been served

VARIABLES
    i2s_tx_buffers,         \* contents of each buffer
    active_buffer_index,
    data_size_to_play,
    data_to_play_ptr,       \* [track, off] or NoData
    opened,                 \* a play command is between OpenWAV and Play
    fault                   \* an APP_ERROR_CHECK failed: the system resets

playerVars == <<i2s_tx_buffers, active_buffer_index, data_size_to_play,
                data_to_play_ptr, opened, fault>>
vars == <<drvVars, playerVars>>

ASSUME BuffersAssumption ==
    /\ I2S_TX_BUFFERS_COUNT \in Nat
    /\ I2S_TX_BUFFERS_COUNT >= 2
    /\ Buffers = 0 .. (I2S_TX_BUFFERS_COUNT - 1)
    /\ BlockBytes \in Nat \ {0}

ASSUME TracksAssumption ==
    /\ Fmt \in [Tracks -> Formats]
    /\ DataSize \in [Tracks -> Nat]
    /\ Configurable \subseteq Formats

ASSUME NullsAssumption ==
    /\ NoBuf \notin Buffers
    /\ NullPtr \notin Buffers \cup {NoBuf}
    /\ NoCall \notin Buffers \cup {NoBuf, NullPtr}
    /\ NoFormat \notin Formats
    /\ Silence \notin [track : Tracks, off : Nat, len : Nat]
    /\ NoData \notin Tracks \cup [track : Tracks, off : Nat]
    /\ HwOutruns \in BOOLEAN

Chunks    == [track : Tracks, off : Nat, len : Nat]
Positions == [track : Tracks, off : Nat]

PlayerTypeOK ==
    /\ i2s_tx_buffers \in [Buffers -> Chunks \cup {Silence}]
    /\ active_buffer_index \in Buffers
    /\ data_size_to_play \in Nat
    /\ data_to_play_ptr \in Positions \cup {NoData}
    /\ opened \in BOOLEAN
    /\ fault \in BOOLEAN

TypeOK == DriverTypeOK /\ PlayerTypeOK

\* SoundPlayer_Init clears the buffers; the rest are the static initialisers.
Init ==
    /\ DriverInit
    /\ i2s_tx_buffers = [b \in Buffers |-> Silence]
    /\ active_buffer_index = 0
    /\ data_size_to_play = 0
    /\ data_to_play_ptr = NoData
    /\ opened = FALSE
    /\ fault = FALSE

-----------------------------------------------------------------------------

\* Mutant: a last block is not recognised.
WholeBlockAvailable == data_size_to_play > BlockBytes /\ data_to_play_ptr # NoData

\* SoundPlayer_SetNextDataBlock returns an error when nothing is left to play.
BlockAvailable == data_size_to_play > 0 /\ data_to_play_ptr # NoData

\* Its effect otherwise: up to BlockBytes bytes go into a buffer.  The pointer
\* does not move past the last block.
NextChunk ==
    [track |-> data_to_play_ptr.track,
     off   |-> data_to_play_ptr.off,
     len   |-> IF data_size_to_play > BlockBytes
                 THEN BlockBytes ELSE data_size_to_play]

\* Mutant: the size is decreased by a whole block each time.
SetBlockUnclamped(buffer) ==
    /\ i2s_tx_buffers' = [i2s_tx_buffers EXCEPT ![buffer] = NextChunk]
    /\ data_size_to_play' = data_size_to_play - BlockBytes
    /\ data_to_play_ptr' = [track |-> data_to_play_ptr.track,
                            off   |-> data_to_play_ptr.off + BlockBytes]

\* Mutant: the pointer does not move.
SetBlockInPlace(buffer) ==
    /\ i2s_tx_buffers' = [i2s_tx_buffers EXCEPT ![buffer] = NextChunk]
    /\ data_size_to_play' = IF data_size_to_play > BlockBytes
                              THEN data_size_to_play - BlockBytes ELSE 0
    /\ UNCHANGED data_to_play_ptr

SetNextDataBlock(buffer) ==
    /\ i2s_tx_buffers' = [i2s_tx_buffers EXCEPT ![buffer] = NextChunk]
    /\ IF data_size_to_play > BlockBytes
         THEN /\ data_size_to_play' = data_size_to_play - BlockBytes
              /\ data_to_play_ptr' = [track |-> data_to_play_ptr.track,
                                      off   |-> data_to_play_ptr.off + BlockBytes]
         ELSE /\ data_size_to_play' = 0
              /\ UNCHANGED data_to_play_ptr

\* SET_NEXT_ACTIVE_BUFF
NextActive ==
    IF active_buffer_index + 1 = I2S_TX_BUFFERS_COUNT
      THEN 0 ELSE active_buffer_index + 1

\* No handler of priority 6 is running.
ThreadLevel == released = NoCall /\ ~opened /\ ~fault

-----------------------------------------------------------------------------
(***************************************************************************)
(* Commands.  snd_play_track ignores the result of both calls it makes.    *)
(***************************************************************************)

\* Mutant: the pointer is only set when the driver took the configuration.
OpenChecksError(track) ==
    /\ ThreadLevel
    /\ opened' = TRUE
    /\ data_size_to_play' = DataSize[track]
    /\ data_to_play_ptr' = IF drv_state = "UNINITIALIZED"
                             THEN [track |-> track, off |-> 0] ELSE data_to_play_ptr
    /\ nrfx_i2s_init(Fmt[track])
    /\ UNCHANGED <<i2s_tx_buffers, active_buffer_index, fault, released>>

\* snd_play_track, first call.  The track is replaced even when the driver
\* refuses the new configuration.
OpenWAV(track) ==
    /\ ThreadLevel
    /\ opened' = TRUE
    /\ data_size_to_play' = DataSize[track]
    /\ data_to_play_ptr' = [track |-> track, off |-> 0]
    /\ nrfx_i2s_init(Fmt[track])
    /\ UNCHANGED <<i2s_tx_buffers, active_buffer_index, fault, released>>

\* snd_play_track, second call.  The active buffer is overwritten whether or
\* not the driver then accepts the start.
Play ==
    /\ opened
    /\ opened' = FALSE
    /\ IF BlockAvailable
         THEN /\ SetNextDataBlock(active_buffer_index)
              /\ nrfx_i2s_start(active_buffer_index)
         ELSE UNCHANGED <<i2s_tx_buffers, data_size_to_play, data_to_play_ptr,
                          cbVars, periphVars>>
    /\ UNCHANGED <<active_buffer_index, fault, released>>

\* The stop command.
Stop ==
    /\ ThreadLevel
    /\ nrfx_i2s_stop_and_uninit
    /\ UNCHANGED <<released, playerVars>>

-----------------------------------------------------------------------------
(***************************************************************************)
(* The I2S interrupt.                                                      *)
(***************************************************************************)

Interrupt ==
    /\ ThreadLevel
    /\ nrfx_i2s_irq_handler
    /\ UNCHANGED playerVars

\* data_handler on the first boundary of a transfer, where both pointers are
\* NULL: it returns without supplying the next buffer.
HandlerNothingReleased ==
    /\ released = NoBuf
    /\ released' = NoCall
    /\ UNCHANGED <<cbVars, periphVars, playerVars>>

\* p_released->p_tx_buffer is not NULL.  In a build without assertions this
\* includes p_released = NULL: the field is then read from the vector table at
\* the bottom of the flash, which is not 0.
SomethingReleased == released \notin {NoBuf, NoCall}

HandlerNextBlock ==
    /\ SomethingReleased
    /\ BlockAvailable
    /\ released' = NoCall
    /\ active_buffer_index' = NextActive
    /\ SetNextDataBlock(NextActive)
    /\ nrfx_i2s_next_buffers_set(NextActive)
    /\ fault' = ~NextBuffersAccepted
    /\ UNCHANGED opened

\* Mutant: the player does not stop at the end of the track.
EndWithoutStop ==
    /\ SomethingReleased
    /\ ~BlockAvailable
    /\ released' = NoCall
    /\ active_buffer_index' = NextActive
    /\ UNCHANGED <<cbVars, periphVars, i2s_tx_buffers, data_size_to_play,
                   data_to_play_ptr, opened, fault>>

HandlerEndOfTrack ==
    /\ SomethingReleased
    /\ ~BlockAvailable
    /\ released' = NoCall
    /\ active_buffer_index' = NextActive
    /\ nrfx_i2s_stop_and_uninit
    /\ UNCHANGED <<i2s_tx_buffers, data_size_to_play, data_to_play_ptr,
                   opened, fault>>

data_handler ==
    HandlerNothingReleased \/ HandlerNextBlock \/ HandlerEndOfTrack

-----------------------------------------------------------------------------

\* When blocks last longer than any interrupt latency, the boundary before has
\* always been served by the time the next one comes.
HwBlockDone ==
    /\ HwOutruns \/ (~ev_tx /\ released = NoCall)
    /\ BlockDone
    /\ UNCHANGED <<cbVars, released, playerVars>>

HwSpuriousEvent ==
    /\ SpuriousEvent
    /\ UNCHANGED <<cbVars, released, playerVars>>

HwStopDone ==
    /\ StopDone
    /\ UNCHANGED <<cbVars, released, playerVars>>

Next ==
    \/ \E track \in Tracks : OpenWAV(track)
    \/ Play
    \/ Stop
    \/ Interrupt
    \/ data_handler
    \/ HwBlockDone
    \/ HwSpuriousEvent
    \/ HwStopDone

Spec == Init /\ [][Next]_vars

\* A handler that was entered runs to its end, a requested interrupt is taken,
\* and the peripheral keeps transmitting and finishes stopping.  Nothing makes
\* a user send commands.
Fairness ==
    /\ WF_vars(Play)
    /\ WF_vars(Interrupt)
    /\ WF_vars(data_handler)
    /\ WF_vars(HwBlockDone)
    /\ WF_vars(HwStopDone)

FairSpec == Spec /\ Fairness

-----------------------------------------------------------------------------
(***************************************************************************)
(* Properties.                                                             *)
(***************************************************************************)

Filled(b) == i2s_tx_buffers[b] # Silence

\* Nothing outside a track's data is ever copied, and the bytes left are always
\* those that follow the ones already copied: the size and the pointer, which
\* SetNextDataBlock and OpenWAV write separately, never drift apart.
InBounds ==
    /\ \A b \in Buffers : Filled(b) =>
          /\ i2s_tx_buffers[b].len \in 1 .. BlockBytes
          /\ i2s_tx_buffers[b].off + i2s_tx_buffers[b].len
                <= DataSize[i2s_tx_buffers[b].track]
    /\ data_size_to_play > 0 =>
          /\ data_to_play_ptr # NoData
          /\ data_to_play_ptr.off + data_size_to_play
                = DataSize[data_to_play_ptr.track]

\* A transfer that runs is one the driver knows of and can still be told to
\* stop: it is never left running with the driver uninitialised, the interrupt
\* off or the events masked, whatever commands hit a transfer that is stopping.
NoOrphanTransfer ==
    run = "running" =>
        /\ drv_state = "POWERED_ON"
        /\ enabled /\ irq_enabled /\ int_tx /\ int_stopped
        /\ Filled(dma) /\ Filled(txd_ptr)

\* A driver that believes a transfer is on, while none is, has the interrupt
\* that will correct it on its way.
NoStaleDriverState ==
    (drv_state = "POWERED_ON" /\ run = "idle") =>
        ev_stopped /\ int_stopped /\ irq_enabled

\* data_handler is only called with NEXT_BUFFERS_NEEDED when the driver will
\* take a buffer, so the APP_ERROR_CHECK around nrf_drv_i2s_next_buffers_set
\* never resets the system.
NoReset == ~fault

\* A transfer that is really running: not one whose STOPPED event, left by the
\* transfer before it, is about to make the driver switch it off.
Transmitting == run = "running" /\ ~ev_stopped

\* nrfx_i2s.h, p_released: the buffers passed to the data handler are no longer
\* used by the driver.  Neither is the buffer that data_handler fills next.
ReleasedNotInUse ==
    (SomethingReleased /\ Transmitting) =>
        /\ released # dma
        /\ BlockAvailable => NextActive # dma

\* The driver's idea of the buffers matches the peripheral's between interrupts:
\* the current buffer is the one in transmission and the next one, when there is
\* one, is in the pointer register, where the player also believes it to be.  (No
\* buffer is current after a first boundary reported as a reuse.)
DoubleBuffering ==
    (Transmitting /\ released = NoCall) =>
        /\ txd_ptr = active_buffer_index
        /\ ev_tx => txd_ptr = dma
        /\ (~ev_tx /\ ~buffers_needed) =>
              current_buffers \in {dma, NoBuf} /\ next_buffers = txd_ptr /\ txd_ptr # dma
        /\ buffers_needed =>
              current_buffers = dma /\ next_buffers = NoBuf /\ txd_ptr = dma

\* The player ends a transfer of its own accord only while the last chunk of the
\* track is on the wire, or when an empty track was opened meanwhile.
EndsOnLastChunk ==
    [][(HandlerEndOfTrack /\ Transmitting) =>
          \/ DataSize[data_to_play_ptr.track] = 0
          \/ i2s_tx_buffers[dma].off + i2s_tx_buffers[dma].len
                = DataSize[i2s_tx_buffers[dma].track]]_vars

\* AudioStream, seen through the buffer the peripheral transmits and the one
\* the player filled last.
OnTheWire == IF Transmitting THEN i2s_tx_buffers[dma] ELSE Silence

Waiting ==
    IF /\ drv_state = "POWERED_ON"
       /\ ~(Transmitting /\ dma = active_buffer_index)
       /\ i2s_tx_buffers[active_buffer_index].off = 0
    THEN i2s_tx_buffers[active_buffer_index].track
    ELSE NoData

\* The place of that block among those the transfer has sent.
SentSinceSilence == IF Transmitting THEN sending ELSE "none"

Stream == INSTANCE AudioStream WITH
    wire <- OnTheWire, pending <- Waiting, sending <- SentSinceSilence,
    Silent <- Silence, NoTrack <- NoData

\* What is on the wire is the track asked for, chunk after chunk in order and none
\* left out.  One of the first two blocks of each transfer is sent twice and no
\* other is.  A block that is being sent is only ever replaced by a play command,
\* with the first block of the track it asks for.
ImplementsStream == Stream!StreamSpec

\* Once no more tracks are opened the wire falls silent for good and the driver
\* is not left believing in a transfer.
QuietInTheEnd ==
    <>[][\A track \in Tracks : ~OpenWAV(track)]_vars =>
        <>[](run = "idle" /\ drv_state # "POWERED_ON")

-----------------------------------------------------------------------------
(***************************************************************************)
(* Inductive invariants.                                                   *)
(***************************************************************************)

\* How the state of the driver, of the peripheral and of the handlers hang
\* together, with every command and interrupt allowed at every moment.  It is
\* inductive; NoOrphanTransfer, NoStaleDriverState and NoReset follow from it.
ControlInv ==
    /\ opened => released = NoCall
    /\ released # NoCall => buffers_needed
    /\ ~fault
    /\ drv_state # "UNINITIALIZED" => irq_enabled
    /\ drv_state = "POWERED_ON" => enabled /\ int_tx /\ int_stopped
    /\ drv_state = "POWERED_ON" => ~tx_ready
    /\ run \in {"running", "restart"} => drv_state = "POWERED_ON"
    /\ (drv_state = "POWERED_ON" /\ run = "idle") => ev_stopped

\* The buffers the peripheral holds have been filled, and the pointer register
\* of a started transfer is the active buffer.
FilledInv ==
    /\ drv_state = "POWERED_ON" =>
          txd_ptr = active_buffer_index /\ Filled(active_buffer_index)
    /\ run = "running" => dma \in Buffers /\ Filled(dma)

\* What interrupts served in time add: the driver's three buffer fields follow
\* the peripheral's two through every phase of a block.  Inductive together with
\* ControlInv and FilledInv when HwOutruns = FALSE.
BoundaryPending ==
    ev_tx =>
        /\ released = NoCall
        /\ txd_ptr = dma

NothingQueued ==
    (buffers_needed /\ released = NoCall) =>
        current_buffers = dma /\ next_buffers = NoBuf /\ txd_ptr = dma

NextQueued ==
    ~buffers_needed =>
        /\ next_buffers = txd_ptr
        /\ ev_tx => current_buffers # dma
        /\ ~ev_tx => current_buffers \in {dma, NoBuf} /\ txd_ptr # dma

HandlerRunning ==
    released # NoCall =>
        /\ txd_ptr = dma
        /\ released # dma
        /\ \/ current_buffers = dma /\ next_buffers = NoBuf
           \/ released = NullPtr /\ current_buffers = NoBuf

StaleReuse == buffers_reused => ev_tx /\ current_buffers = NoBuf /\ sending = "first"

\* Only the handler's first call of a transfer supplies no buffer, and a flag left
\* from the transfer before can put that off by one block: the pointer register
\* still holds the block on the wire at the end of the first block or of the second.
OneRepetition ==
    /\ (released = NoBuf \/ current_buffers = NoBuf) => sending \in {"first", "second"}
    /\ (~ev_tx /\ released = NoCall /\ txd_ptr = dma) => sending \in {"first", "second"}
    /\ (ev_tx /\ buffers_needed) => sending = "again"
    /\ (sending \in {"first", "second"} /\ current_buffers # NoBuf) =>
          ~ev_tx /\ buffers_needed /\ released \in {NoBuf, NoCall}
    /\ (sending = "second" /\ current_buffers = NoBuf) =>
          ev_tx /\ ~buffers_needed /\ ~buffers_reused

PhaseInv ==
    Transmitting =>
        /\ BoundaryPending /\ NothingQueued /\ NextQueued /\ HandlerRunning /\ StaleReuse
        /\ OneRepetition

\* What the buffers and the pointer hold, in terms of the tracks: every filled
\* buffer holds a whole chunk; between OpenWAV and Play the pointer is at the
\* start of a track; in a started transfer the pointer continues the active
\* buffer; and the queued buffer continues the one in transmission or starts a
\* track.
ChunksWhole ==
    \A b \in Buffers : Filled(b) =>
        /\ i2s_tx_buffers[b].off < DataSize[i2s_tx_buffers[b].track]
        /\ i2s_tx_buffers[b]
              = Stream!ChunkAt(i2s_tx_buffers[b].track, i2s_tx_buffers[b].off)

PointerAtStart ==
    opened => /\ data_to_play_ptr # NoData
              /\ data_to_play_ptr.off = 0
              /\ data_size_to_play = DataSize[data_to_play_ptr.track]

PointerContinues ==
    (drv_state = "POWERED_ON" /\ ~opened /\ data_size_to_play > 0) =>
        LET last == i2s_tx_buffers[active_buffer_index]
        IN  data_to_play_ptr = [track |-> last.track, off |-> last.off + last.len]

QueuedContinues ==
    (Transmitting /\ txd_ptr # dma) =>
        LET sent == i2s_tx_buffers[dma]
            next == i2s_tx_buffers[txd_ptr]
        IN  \/ next.off = 0
            \/ next.track = sent.track /\ next.off = sent.off + sent.len

ContentInv == ChunksWhole /\ PointerAtStart /\ PointerContinues /\ QueuedContinues

\* The strengthening that the theorems about the player rest on: with interrupts
\* served in time every step preserves it.
InductiveInv == ControlInv /\ FilledInv /\ PhaseInv /\ ContentInv
=============================================================================
