--------------------------- MODULE I2sPeripheral ---------------------------
(***************************************************************************)
(* The nRF52840 I2S peripheral and its NVIC line, as the driver in         *)
(* nrfx_i2s.c sees them: the registers it writes, the tasks it triggers    *)
(* and the events it reads.  The peripheral is hardware, so every          *)
(* definition here is external to the source; it says no more than the     *)
(* driver relies on, and where the driver's comments leave the hardware's  *)
(* behaviour open the outcome is nondeterministic.                         *)
(*                                                                         *)
(* Only transmission is modelled: the one client of the driver never       *)
(* passes a receive buffer.                                                *)
(***************************************************************************)

CONSTANTS
    Buffers,    \* the RAM buffers a client may hand to the peripheral
    NoBuf,      \* a NULL buffer pointer
    Formats,    \* the register contents nrf_i2s_configure can be asked for
    NoFormat    \* the CONFIG registers before the first configuration

VARIABLES
    enabled,        \* ENABLE register
    run,            \* what the transfer engine is doing
    config,         \* CONFIG registers
    txd_ptr,        \* TXD.PTR, double buffered: latched at each block boundary
    dma,            \* the latched pointer: the buffer being transmitted
    sending,        \* how the block being transmitted follows the one before it
    ev_tx,          \* EVENTS_TXPTRUPD
    ev_stopped,     \* EVENTS_STOPPED
    int_tx,         \* TXPTRUPD bit of INTEN
    int_stopped,    \* STOPPED bit of INTEN
    irq_enabled,    \* NVIC: the I2S interrupt is enabled
    nvic_pending    \* NVIC: the interrupt was requested by a line that dropped since

engineVars == <<enabled, run, config, txd_ptr, dma, sending>>
eventVars  == <<ev_tx, ev_stopped>>
irqVars    == <<int_tx, int_stopped, irq_enabled, nvic_pending>>
periphVars == <<engineVars, eventVars, irqVars>>

\* "stopping": the STOP task was triggered and STOPPED is still to come.
\* "restart": START was triggered meanwhile and takes effect after STOPPED.
RunStates == {"idle", "running", "stopping", "restart"}

\* The place of a block in its transfer, which no register holds: "first" and
\* "second" are sent once so far, "again" is one of those two for the second time,
\* "later" any other block for the first time, "repeated" any other repetition.
SendStates == {"none", "first", "second", "again", "later", "repeated"}

PeripheralTypeOK ==
    /\ enabled \in BOOLEAN
    /\ run \in RunStates
    /\ config \in Formats \cup {NoFormat}
    /\ txd_ptr \in Buffers \cup {NoBuf}
    /\ dma \in Buffers \cup {NoBuf}
    /\ sending \in SendStates
    /\ ev_tx \in BOOLEAN
    /\ ev_stopped \in BOOLEAN
    /\ int_tx \in BOOLEAN
    /\ int_stopped \in BOOLEAN
    /\ irq_enabled \in BOOLEAN
    /\ nvic_pending \in BOOLEAN

PeripheralInit ==
    /\ enabled = FALSE
    /\ run = "idle"
    /\ config = NoFormat
    /\ txd_ptr = NoBuf
    /\ dma = NoBuf
    /\ sending = "none"
    /\ ev_tx = FALSE
    /\ ev_stopped = FALSE
    /\ int_tx = FALSE
    /\ int_stopped = FALSE
    /\ irq_enabled = FALSE
    /\ nvic_pending = FALSE

-----------------------------------------------------------------------------

\* The interrupt line: an event whose interrupt is enabled.
Line == (ev_tx /\ int_tx) \/ (ev_stopped /\ int_stopped)

\* NVIC_EnableIRQ does not clear a pending request, and a request stays pending
\* when the line drops before the handler has run.
LatchLine == nvic_pending' = (nvic_pending \/ Line)

InterruptRequested == irq_enabled /\ (Line \/ nvic_pending)

\* Writing TXD.PTR and ENABLE, clearing the events, enabling the interrupts and
\* triggering START.  A START while the previous transfer is still stopping is
\* either lost or takes effect once it has stopped: the driver has no say in it.
TaskStart(buffer) ==
    /\ txd_ptr' = buffer
    /\ enabled' = TRUE
    /\ ev_stopped' = FALSE
    /\ int_tx' = TRUE
    /\ int_stopped' = TRUE
    /\ LatchLine
    /\ \/ /\ run = "idle"
          /\ run' = "running"
          /\ dma' = buffer
          /\ sending' = "first"
          /\ ev_tx' = TRUE
       \/ /\ run # "idle"
          /\ run' \in IF run = "stopping" THEN {"stopping", "restart"} ELSE {run}
          /\ UNCHANGED <<dma, sending>>
          /\ ev_tx' = FALSE
    /\ UNCHANGED <<config, irq_enabled>>

\* Disabling the TXPTRUPD interrupt and triggering STOP.
TaskStop ==
    /\ int_tx' = FALSE
    /\ run' = IF run = "idle" THEN "idle" ELSE "stopping"
    /\ LatchLine
    /\ UNCHANGED <<enabled, config, txd_ptr, dma, sending, eventVars, int_stopped>>

\* The block in transmission ends: the pointer register is latched for the next
\* one, and TXPTRUPD tells that the register may be written again.
BlockDone ==
    /\ run = "running"
    /\ dma' = txd_ptr
    /\ sending' = IF txd_ptr = dma
                    THEN IF sending \in {"first", "second"} THEN "again" ELSE "repeated"
                    ELSE IF sending = "first" THEN "second" ELSE "later"
    /\ ev_tx' = TRUE
    /\ UNCHANGED <<enabled, run, config, txd_ptr, ev_stopped, irqVars>>

\* Anomaly 55: TXPTRUPD may still come after STOP.
SpuriousEvent ==
    /\ run \in {"stopping", "restart"}
    /\ ~ev_tx
    /\ ev_tx' = TRUE
    /\ UNCHANGED <<engineVars, ev_stopped, irqVars>>

\* The transfer has stopped.  A latched START begins the next one.
StopDone ==
    /\ ev_stopped' = TRUE
    /\ \/ /\ run = "stopping"
          /\ run' = "idle"
          /\ UNCHANGED <<dma, sending, ev_tx>>
       \/ /\ run = "restart"
          /\ run' = "running"
          /\ dma' = txd_ptr
          /\ sending' = "first"
          /\ ev_tx' = TRUE
    /\ UNCHANGED <<enabled, config, txd_ptr, irqVars>>
=============================================================================
