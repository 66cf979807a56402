----------------------------- MODULE I2sDriver -----------------------------
(***************************************************************************)
(* nrfx_i2s.c: the control block m_cb and one operator per function of the *)
(* driver.  A client module composes them into actions; each operator says *)
(* what the call leaves in every variable of the driver and of the         *)
(* peripheral.                                                             *)
(*                                                                         *)
(* The interrupt handler calls the client's data handler as the last thing *)
(* it does on the paths that need buffers, so it ends here by setting      *)
(* `released' to the argument of that call: the client's own action runs   *)
(* the handler and puts NoCall back.                                       *)
(***************************************************************************)
EXTENDS I2sPeripheral

CONSTANTS
    NullPtr,        \* p_released = NULL
    NoCall,         \* no call of the data handler is in progress
    Configurable    \* the formats that the setters and nrf_i2s_configure accept

VARIABLES
    drv_state,          \* m_cb.state
    tx_ready,           \* m_cb.tx_ready
    buffers_needed,     \* m_cb.buffers_needed
    buffers_reused,     \* m_cb.buffers_reused
    next_buffers,       \* m_cb.next_buffers.p_tx_buffer
    current_buffers,    \* m_cb.current_buffers.p_tx_buffer
    released            \* p_released of the data handler call in progress

cbVars  == <<drv_state, tx_ready, buffers_needed, buffers_reused,
             next_buffers, current_buffers>>
drvVars == <<cbVars, released, periphVars>>

DriverTypeOK ==
    /\ PeripheralTypeOK
    /\ drv_state \in {"UNINITIALIZED", "INITIALIZED", "POWERED_ON"}
    /\ tx_ready \in BOOLEAN
    /\ buffers_needed \in BOOLEAN
    /\ buffers_reused \in BOOLEAN
    /\ next_buffers \in Buffers \cup {NoBuf}
    /\ current_buffers \in Buffers \cup {NoBuf}
    /\ released \in Buffers \cup {NoBuf, NullPtr, NoCall}

DriverInit ==
    /\ PeripheralInit
    /\ drv_state = "UNINITIALIZED"
    /\ tx_ready = FALSE
    /\ buffers_needed = FALSE
    /\ buffers_reused = FALSE
    /\ next_buffers = NoBuf
    /\ current_buffers = NoBuf
    /\ released = NoCall

-----------------------------------------------------------------------------

\* nrfx_i2s_init.  On either error nothing is touched.
nrfx_i2s_init(format) ==
    /\ IF drv_state = "UNINITIALIZED" /\ format \in Configurable
         THEN /\ config' = format
              /\ irq_enabled' = TRUE
              /\ drv_state' = "INITIALIZED"
         ELSE UNCHANGED <<config, irq_enabled, drv_state>>
    /\ UNCHANGED <<enabled, run, txd_ptr, dma, sending, eventVars, int_tx, int_stopped,
                   nvic_pending, tx_ready, buffers_needed, buffers_reused,
                   next_buffers, current_buffers>>

\* Mutant: the state is not checked.
StartWithoutStateCheck(buffer) ==
    /\ drv_state' = "POWERED_ON"
    /\ tx_ready' = FALSE
    /\ buffers_needed' = FALSE
    /\ next_buffers' = buffer
    /\ current_buffers' = NoBuf
    /\ TaskStart(buffer)
    /\ UNCHANGED buffers_reused

\* Mutant: the request for buffers of the transfer before is kept.
StartKeepsNeed(buffer) ==
    IF drv_state = "INITIALIZED"
      THEN /\ drv_state' = "POWERED_ON"
           /\ tx_ready' = FALSE
           /\ next_buffers' = buffer
           /\ current_buffers' = NoBuf
           /\ TaskStart(buffer)
           /\ UNCHANGED <<buffers_needed, buffers_reused>>
      ELSE UNCHANGED <<cbVars, periphVars>>

\* nrfx_i2s_start.  buffers_reused is the one flag it does not reset.
nrfx_i2s_start(buffer) ==
    IF drv_state = "INITIALIZED"
      THEN /\ drv_state' = "POWERED_ON"
           /\ tx_ready' = FALSE
           /\ buffers_needed' = FALSE
           /\ next_buffers' = buffer
           /\ current_buffers' = NoBuf
           /\ TaskStart(buffer)
           /\ UNCHANGED buffers_reused
      ELSE UNCHANGED <<cbVars, periphVars>>

\* nrfx_i2s_next_buffers_set succeeds only while the driver waits for buffers.
NextBuffersAccepted == buffers_needed

\* Mutant: the register is written and the buffer not remembered.
SetRegisterOnly(buffer) ==
    IF NextBuffersAccepted
      THEN /\ txd_ptr' = buffer
           /\ buffers_needed' = FALSE
           /\ UNCHANGED <<enabled, run, config, dma, sending, eventVars, irqVars, next_buffers,
                          drv_state, tx_ready, buffers_reused, current_buffers>>
      ELSE UNCHANGED <<cbVars, periphVars>>

nrfx_i2s_next_buffers_set(buffer) ==
    IF NextBuffersAccepted
      THEN /\ txd_ptr' = buffer
           /\ next_buffers' = buffer
           /\ buffers_needed' = FALSE
           /\ UNCHANGED <<enabled, run, config, dma, sending, eventVars, irqVars,
                          drv_state, tx_ready, buffers_reused, current_buffers>>
      ELSE UNCHANGED <<cbVars, periphVars>>

\* nrfx_i2s_stop followed by nrfx_i2s_uninit, which calls nrfx_i2s_stop again:
\* the second STOP changes nothing.  No caller separates the two functions, and
\* neither looks at the state in a build without assertions.
nrfx_i2s_stop_and_uninit ==
    /\ buffers_needed' = FALSE
    /\ TaskStop
    /\ irq_enabled' = FALSE
    /\ drv_state' = "UNINITIALIZED"
    /\ UNCHANGED <<tx_ready, buffers_reused, next_buffers, current_buffers>>

-----------------------------------------------------------------------------
(***************************************************************************)
(* nrfx_i2s_irq_handler, up to its call of the data handler.               *)
(***************************************************************************)

\* A TXPTRUPD while the driver is still waiting for buffers.
ReuseSeen == buffers_reused \/ (ev_tx /\ buffers_needed)

\* Mutant: the driver does not leave the powered on state.
StoppedKeepsState ==
    /\ ev_stopped
    /\ ev_stopped' = FALSE
    /\ int_stopped' = FALSE
    /\ enabled' = FALSE
    /\ run' = "idle"
    /\ tx_ready' = (tx_ready \/ ev_tx)
    /\ buffers_reused' = ReuseSeen
    /\ UNCHANGED <<drv_state, buffers_needed, next_buffers, current_buffers, released>>

\* The STOPPED branch.  Its two calls of the data handler carry no
\* NEXT_BUFFERS_NEEDED, on which the handler returns at once.
IrqStopped ==
    /\ ev_stopped
    /\ ev_stopped' = FALSE
    /\ int_stopped' = FALSE
    /\ enabled' = FALSE
    /\ run' = "idle"
    /\ tx_ready' = (tx_ready \/ ev_tx)
    /\ buffers_reused' = ReuseSeen
    /\ drv_state' = "INITIALIZED"
    /\ UNCHANGED <<buffers_needed, next_buffers, current_buffers, released>>

\* Mutant: after a reuse the driver does not ask for buffers again.
ReusedWithoutNeed ==
    /\ ~ev_stopped
    /\ tx_ready \/ ev_tx
    /\ ReuseSeen
    /\ tx_ready' = FALSE
    /\ buffers_reused' = FALSE
    /\ released' = NullPtr
    /\ UNCHANGED <<drv_state, buffers_needed, next_buffers, current_buffers, enabled,
                   run, ev_stopped, int_stopped>>

\* The buffers in use could not be replaced in time: nothing is released.
IrqReused ==
    /\ ~ev_stopped
    /\ tx_ready \/ ev_tx
    /\ ReuseSeen
    /\ tx_ready' = FALSE
    /\ buffers_reused' = FALSE
    /\ buffers_needed' = TRUE
    /\ released' = NullPtr
    /\ UNCHANGED <<drv_state, next_buffers, current_buffers, enabled, run,
                   ev_stopped, int_stopped>>

\* Mutant: the buffer that has just become current is the one released.
AdvancedReleasesNext ==
    /\ ~ev_stopped
    /\ tx_ready \/ ev_tx
    /\ ~ReuseSeen
    /\ tx_ready' = FALSE
    /\ buffers_needed' = TRUE
    /\ released' = next_buffers
    /\ current_buffers' = next_buffers
    /\ next_buffers' = NoBuf
    /\ UNCHANGED <<drv_state, buffers_reused, enabled, run, ev_stopped, int_stopped>>

\* The current buffers are done and the scheduled ones become current.
IrqAdvanced ==
    /\ ~ev_stopped
    /\ tx_ready \/ ev_tx
    /\ ~ReuseSeen
    /\ tx_ready' = FALSE
    /\ buffers_needed' = TRUE
    /\ released' = current_buffers
    /\ current_buffers' = next_buffers
    /\ next_buffers' = NoBuf
    /\ UNCHANGED <<drv_state, buffers_reused, enabled, run, ev_stopped, int_stopped>>

\* A request latched by the NVIC whose event has been cleared since.
IrqSpurious ==
    /\ ~ev_stopped
    /\ ~(tx_ready \/ ev_tx)
    /\ UNCHANGED <<cbVars, released, enabled, run, ev_stopped, int_stopped>>

nrfx_i2s_irq_handler ==
    /\ InterruptRequested
    /\ nvic_pending' = FALSE
    /\ ev_tx' = FALSE
    /\ IrqStopped \/ IrqReused \/ IrqAdvanced \/ IrqSpurious
    /\ UNCHANGED <<config, txd_ptr, dma, sending, int_tx, irq_enabled>>
=============================================================================
