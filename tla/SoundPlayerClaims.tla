------------------------- MODULE SoundPlayerClaims -------------------------
(***************************************************************************)
(* What comments and assertions in the source say of the player and its    *)
(* driver, and the code does not do.  Each is the property of a run of its *)
(* own whose counterexample shows how it comes about.                      *)
(***************************************************************************)
EXTENDS SoundPlayer

\* sound_player.c:258, ASSERT(p_released): the player always supplies the next
\* buffer before the peripheral needs it, so it is never told of a reuse.  It
\* does not: on the first call of data_handler it supplies none.
NeverToldOfReuse == released # NullPtr

\* nrfx_i2s.h:136-141: the buffers passed to the data handler are those that will no
\* longer be accessed, so any other may still be.  Play fills the active buffer
\* without asking whether the peripheral is sending it.
WireNotOverwritten ==
    [][(Play /\ Transmitting) => i2s_tx_buffers'[dma] = i2s_tx_buffers[dma]]_vars

\* nrfx_i2s.h:149-151: in the first call of the data handler after a start both
\* pointers in *p_released are NULL, so p_released itself is not.  The flag
\* buffers_reused, which start does not reset, can be left from a stopped
\* transfer.
FirstCallHasNoBuffers ==
    (drv_state = "POWERED_ON" /\ current_buffers = NoBuf) => released # NullPtr

\* nrfx_i2s.c:344, NRFX_ASSERT(m_cb.state != NRFX_DRV_STATE_UNINITIALIZED): the
\* driver is not stopped while it is uninitialised.  The stop command does not
\* ask whether anything is being played.
NeverStoppedTwice ==
    [][Stop => drv_state # "UNINITIALIZED"]_vars

\* sound_player.c:58, "Configures the I2S interface according to the WAV header":
\* what is transmitted is transmitted in its own format.
PlayedInItsFormat ==
    Transmitting => config = Fmt[i2s_tx_buffers[dma].track]

\* sound_player.c:84, "Start playback of the opened sound file": a transfer that
\* was started goes on until the player stops it.
OnlyStopEndsTransfer ==
    [][drv_state = "POWERED_ON" => drv_state' # "INITIALIZED"]_vars

\* nrfx_i2s.c:388, "When stopped, release all buffers": the end of a transfer is
\* noticed by the driver, which then disables the peripheral.
StoppedIsHandled == (ev_stopped /\ enabled) ~> ~ev_stopped
=============================================================================
