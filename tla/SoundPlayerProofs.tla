------------------------- MODULE SoundPlayerProofs -------------------------
(***************************************************************************)
(* What holds of the sound player for any number of buffers, any library   *)
(* of tracks and any block size: first whether or not interrupts are       *)
(* served in time, then when every interrupt is served before the block in *)
(* transmission ends.  Then the player implements AudioStream: what is on  *)
(* the wire is the track asked for, from its first byte, each chunk        *)
(* continuing the one before, with one block near the start of a transfer  *)
(* sent twice and the one on the wire sometimes replaced by a command.     *)
(***************************************************************************)
EXTENDS SoundPlayer, TLAPS

-----------------------------------------------------------------------------
(***************************************************************************)
(* Type correctness.                                                       *)
(***************************************************************************)

\* SET_NEXT_ACTIVE_BUFF stays within the buffers, and moves.
LEMMA NextActiveInBuffers ==
    ASSUME active_buffer_index \in Buffers
    PROVE  NextActive \in Buffers /\ NextActive # active_buffer_index
BY BuffersAssumption DEF NextActive

\* What SetNextDataBlock copies is a chunk of a track.
LEMMA NextChunkType ==
    ASSUME PlayerTypeOK, BlockAvailable
    PROVE  NextChunk \in Chunks
BY BuffersAssumption DEF PlayerTypeOK, BlockAvailable, NextChunk, Chunks, Positions

\* The part of the player's state that the commands and the handler compute with.
DataTypeOK ==
    /\ i2s_tx_buffers \in [Buffers -> Chunks \cup {Silence}]
    /\ active_buffer_index \in Buffers
    /\ data_size_to_play \in Nat
    /\ data_to_play_ptr \in Positions \cup {NoData}

\* Filling a buffer leaves the player's data well typed.
LEMMA SetNextDataBlockType ==
    ASSUME PlayerTypeOK, BlockAvailable,
           NEW b \in Buffers, SetNextDataBlock(b),
           active_buffer_index' \in Buffers
    PROVE  DataTypeOK'
<1>1. NextChunk \in Chunks
  BY NextChunkType
<1>2. i2s_tx_buffers' \in [Buffers -> Chunks \cup {Silence}]
  BY <1>1 DEF SetNextDataBlock, PlayerTypeOK
<1>3. /\ data_size_to_play' \in Nat
      /\ data_to_play_ptr' \in Positions \cup {NoData}
  BY BuffersAssumption DEF SetNextDataBlock, PlayerTypeOK, BlockAvailable, Positions
<1> QED
  BY <1>2, <1>3 DEF DataTypeOK

\* Stopping and uninitialising keeps the driver well typed.
LEMMA StopType ==
    ASSUME DriverTypeOK, nrfx_i2s_stop_and_uninit,
           released' \in Buffers \cup {NoBuf, NullPtr, NoCall}
    PROVE  DriverTypeOK'
<1>1. PeripheralTypeOK'
  BY Zenon DEF DriverTypeOK, PeripheralTypeOK, RunStates, SendStates,
               nrfx_i2s_stop_and_uninit, TaskStop, LatchLine, Line, eventVars
<1> QED
  BY <1>1 DEF DriverTypeOK, nrfx_i2s_stop_and_uninit

LEMMA TypeInit == Init => TypeOK
<1> SUFFICES ASSUME Init
             PROVE  TypeOK
  OBVIOUS
<1>1. PeripheralTypeOK
  BY DEF Init, DriverInit, PeripheralInit, PeripheralTypeOK, RunStates, SendStates
<1>2. DriverTypeOK
  BY <1>1 DEF Init, DriverInit, DriverTypeOK
<1>3. opened \in BOOLEAN /\ fault \in BOOLEAN
  BY DEF Init
<1>4. DataTypeOK
  BY BuffersAssumption DEF Init, DataTypeOK
<1> QED
  BY <1>2, <1>3, <1>4 DEF TypeOK, PlayerTypeOK, DataTypeOK

\* The commands keep the types.
LEMMA TypeCommands ==
    ASSUME TypeOK,
           Play \/ Stop \/ \E track \in Tracks : OpenWAV(track)
    PROVE  TypeOK'
<1> USE DEF TypeOK
<1>1. ASSUME NEW track \in Tracks, OpenWAV(track)
      PROVE  TypeOK'
  <2>1. PeripheralTypeOK'
    BY <1>1, TracksAssumption DEF OpenWAV, nrfx_i2s_init, eventVars,
       DriverTypeOK, PeripheralTypeOK
  <2>2. DriverTypeOK'
    BY <1>1, <2>1 DEF OpenWAV, nrfx_i2s_init, DriverTypeOK
  <2>3. opened' \in BOOLEAN /\ fault' \in BOOLEAN
    BY <1>1 DEF OpenWAV, PlayerTypeOK
  <2>4. DataTypeOK'
    BY <1>1, TracksAssumption DEF OpenWAV, PlayerTypeOK, DataTypeOK, Positions
  <2> QED
    BY <2>2, <2>3, <2>4 DEF PlayerTypeOK, DataTypeOK
<1>2. CASE Play
  <2>1. DataTypeOK'
    BY <1>2, SetNextDataBlockType DEF Play, PlayerTypeOK, DataTypeOK
  <2>2. opened' \in BOOLEAN /\ fault' \in BOOLEAN
    BY <1>2 DEF Play, PlayerTypeOK
  <2>3. CASE BlockAvailable /\ drv_state = "INITIALIZED"
    <3>1. PeripheralTypeOK'
      BY <1>2, <2>3, Zenon DEF Play, nrfx_i2s_start, TaskStart, LatchLine, Line,
         PlayerTypeOK, DriverTypeOK, PeripheralTypeOK, RunStates, SendStates
    <3>2. DriverTypeOK'
      BY <1>2, <2>3, <3>1 DEF Play, nrfx_i2s_start, PlayerTypeOK, DriverTypeOK
    <3> QED
      BY <2>1, <2>2, <3>2 DEF PlayerTypeOK, DataTypeOK
  <2>4. CASE ~(BlockAvailable /\ drv_state = "INITIALIZED")
    <3>1. UNCHANGED drvVars
      BY <1>2, <2>4 DEF Play, nrfx_i2s_start, drvVars
    <3>2. DriverTypeOK'
      BY <3>1 DEF drvVars, cbVars, periphVars, engineVars, eventVars, irqVars,
         DriverTypeOK, PeripheralTypeOK
    <3> QED
      BY <2>1, <2>2, <3>2 DEF PlayerTypeOK, DataTypeOK
  <2> QED
    BY <2>3, <2>4
<1>3. CASE Stop
  <2>1. PlayerTypeOK'
    BY <1>3 DEF Stop, playerVars, PlayerTypeOK
  <2>2. released' \in Buffers \cup {NoBuf, NullPtr, NoCall}
    BY <1>3 DEF Stop, DriverTypeOK
  <2>3. DriverTypeOK'
    BY <1>3, <2>2, StopType DEF Stop
  <2> QED
    BY <2>1, <2>3
<1> QED
  BY <1>1, <1>2, <1>3

\* The driver's half of the interrupt keeps the types.
LEMMA TypeInterrupt ==
    ASSUME TypeOK, Interrupt
    PROVE  TypeOK'
<1> USE DEF TypeOK
<1>1. PlayerTypeOK'
  BY DEF Interrupt, playerVars, PlayerTypeOK
<1>2. PeripheralTypeOK'
  BY Zenon DEF Interrupt, nrfx_i2s_irq_handler, IrqStopped, IrqReused, IrqAdvanced,
               IrqSpurious, DriverTypeOK, PeripheralTypeOK, RunStates, SendStates
<1>3. DriverTypeOK'
  BY <1>2, Zenon DEF Interrupt, nrfx_i2s_irq_handler, IrqStopped, IrqReused,
                     IrqAdvanced, IrqSpurious, ReuseSeen, cbVars,
                     DriverTypeOK, PeripheralTypeOK
<1> QED
  BY <1>1, <1>3

\* The player's half of the interrupt keeps the types.
LEMMA TypeHandler ==
    ASSUME TypeOK, data_handler
    PROVE  TypeOK'
<1> USE DEF TypeOK
<1>1. CASE HandlerNothingReleased
  <2>1. PlayerTypeOK'
    BY <1>1 DEF HandlerNothingReleased, playerVars, PlayerTypeOK
  <2>2. DriverTypeOK'
    BY <1>1 DEF HandlerNothingReleased, cbVars, periphVars, engineVars, eventVars,
       irqVars, DriverTypeOK, PeripheralTypeOK
  <2> QED
    BY <2>1, <2>2
<1>2. CASE HandlerNextBlock
  <2>1. NextActive \in Buffers
    BY NextActiveInBuffers DEF PlayerTypeOK
  <2>2. DataTypeOK'
    BY <1>2, <2>1, SetNextDataBlockType DEF HandlerNextBlock
  <2>3. opened' \in BOOLEAN /\ fault' \in BOOLEAN
    BY <1>2 DEF HandlerNextBlock, PlayerTypeOK
  <2>4. PeripheralTypeOK'
    BY <1>2, <2>1, Zenon DEF HandlerNextBlock, nrfx_i2s_next_buffers_set, periphVars,
       engineVars, eventVars, irqVars, DriverTypeOK, PeripheralTypeOK
  <2>5. DriverTypeOK'
    BY <1>2, <2>1, <2>4, Zenon DEF HandlerNextBlock, nrfx_i2s_next_buffers_set, cbVars,
       DriverTypeOK
  <2> QED
    BY <2>2, <2>3, <2>5 DEF PlayerTypeOK, DataTypeOK
<1>3. CASE HandlerEndOfTrack
  <2>1. PlayerTypeOK'
    BY <1>3, NextActiveInBuffers DEF HandlerEndOfTrack, PlayerTypeOK
  <2>2. DriverTypeOK'
    BY <1>3, StopType DEF HandlerEndOfTrack
  <2> QED
    BY <2>1, <2>2
<1> QED
  BY <1>1, <1>2, <1>3 DEF data_handler

\* The peripheral's own steps keep the types.
LEMMA TypeHardware ==
    ASSUME TypeOK, HwBlockDone \/ HwSpuriousEvent \/ HwStopDone
    PROVE  TypeOK'
<1>1. PlayerTypeOK'
  BY DEF TypeOK, HwBlockDone, HwSpuriousEvent, HwStopDone, playerVars, PlayerTypeOK
<1>2. PeripheralTypeOK'
  BY Zenon DEF TypeOK, HwBlockDone, HwSpuriousEvent, HwStopDone, BlockDone,
               SpuriousEvent, StopDone, engineVars, irqVars,
               DriverTypeOK, PeripheralTypeOK, RunStates, SendStates
<1>3. DriverTypeOK'
  BY <1>2, Zenon DEF TypeOK, HwBlockDone, HwSpuriousEvent, HwStopDone, cbVars,
                     DriverTypeOK
<1> QED
  BY <1>1, <1>3 DEF TypeOK

LEMMA TypeNext == TypeOK /\ [Next]_vars => TypeOK'
<1> SUFFICES ASSUME TypeOK, [Next]_vars
             PROVE  TypeOK'
  OBVIOUS
<1>1. CASE Next
  BY <1>1, TypeCommands, TypeInterrupt, TypeHandler, TypeHardware DEF Next
<1>2. CASE UNCHANGED vars
  BY <1>2 DEF vars, drvVars, cbVars, periphVars, engineVars, eventVars, irqVars,
     playerVars, TypeOK, PlayerTypeOK, DriverTypeOK, PeripheralTypeOK
<1> QED
  BY <1>1, <1>2

\* Every variable of the player, the driver and the peripheral keeps its type.
THEOREM TypeCorrect == Spec => []TypeOK
<1> QED
  BY TypeInit, TypeNext, PTL DEF Spec

-----------------------------------------------------------------------------
(***************************************************************************)
(* The control invariant.                                                  *)
(***************************************************************************)

LEMMA ControlInit == Init => ControlInv
BY DEF Init, DriverInit, PeripheralInit, ControlInv

\* A command never runs while the data handler does, and whatever it does to the
\* driver leaves the peripheral under its control.
LEMMA ControlCommands ==
    ASSUME TypeOK, ControlInv,
           Play \/ Stop \/ \E track \in Tracks : OpenWAV(track)
    PROVE  ControlInv'
<1>1. ASSUME NEW track \in Tracks, OpenWAV(track)
      PROVE  ControlInv'
  BY <1>1, Zenon DEF OpenWAV, ThreadLevel, nrfx_i2s_init, eventVars, ControlInv
<1>2. CASE Play
  <2>1. CASE BlockAvailable /\ drv_state = "INITIALIZED"
    <3>1. run \in {"idle", "stopping"}
      BY <2>1 DEF ControlInv, TypeOK, DriverTypeOK, PeripheralTypeOK, RunStates
    <3>2. /\ nrfx_i2s_start(active_buffer_index)
          /\ opened' = FALSE
          /\ released' = released
          /\ fault' = fault
      BY <1>2, <2>1 DEF Play
    <3>3. TaskStart(active_buffer_index) /\ drv_state' = "POWERED_ON"
      BY <2>1, <3>2 DEF nrfx_i2s_start
    <3>4. run' # "idle" /\ run' \in {"running", "stopping", "restart"}
      BY <3>1, <3>3, Zenon DEF TaskStart
    <3>5. released' = NoCall
      BY <1>2, <3>2 DEF ControlInv, Play
    <3>6. irq_enabled' /\ enabled' /\ int_tx' /\ int_stopped' /\ ~tx_ready'
      BY <2>1, <3>2, <3>3 DEF nrfx_i2s_start, TaskStart, ControlInv
    <3> QED
      BY <3>2, <3>3, <3>4, <3>5, <3>6 DEF ControlInv
  <2>2. CASE ~(BlockAvailable /\ drv_state = "INITIALIZED")
    <3>1. UNCHANGED <<drvVars, fault>> /\ opened' = FALSE
      BY <1>2, <2>2 DEF Play, nrfx_i2s_start, drvVars
    <3> QED
      BY <3>1, Zenon DEF drvVars, cbVars, periphVars, engineVars, eventVars, irqVars,
         ControlInv
  <2> QED
    BY <2>1, <2>2
<1>3. CASE Stop
  BY <1>3, Zenon DEF Stop, ThreadLevel, nrfx_i2s_stop_and_uninit, TaskStop, playerVars,
     ControlInv
<1> QED
  BY <1>1, <1>2, <1>3

LEMMA ControlInterrupt ==
    ASSUME TypeOK, ControlInv, Interrupt
    PROVE  ControlInv'
<1>1. CASE IrqStopped
  <2>1. irq_enabled'
    BY DEF Interrupt, nrfx_i2s_irq_handler, InterruptRequested
  <2> QED
    BY <1>1, <2>1 DEF Interrupt, ThreadLevel, nrfx_i2s_irq_handler, IrqStopped,
       playerVars, ControlInv
<1>2. CASE IrqReused \/ IrqAdvanced
  BY <1>2, Zenon DEF Interrupt, ThreadLevel, nrfx_i2s_irq_handler, IrqReused, IrqAdvanced,
     playerVars, ControlInv
<1>3. CASE IrqSpurious
  BY <1>3, Zenon DEF Interrupt, ThreadLevel, nrfx_i2s_irq_handler, IrqSpurious, cbVars,
     playerVars, ControlInv
<1> QED
  BY <1>1, <1>2, <1>3 DEF Interrupt, nrfx_i2s_irq_handler

\* data_handler finds the driver ready to take a buffer, so the call that would
\* reset the system on an error never returns one.
LEMMA ControlHandler ==
    ASSUME TypeOK, ControlInv, data_handler
    PROVE  ControlInv'
<1>1. CASE HandlerNothingReleased
  BY <1>1, Zenon DEF HandlerNothingReleased, cbVars, periphVars, engineVars, eventVars,
     irqVars, playerVars, ControlInv
<1>2. CASE HandlerNextBlock
  <2>1. NextBuffersAccepted
    BY <1>2 DEF HandlerNextBlock, SomethingReleased, ControlInv, NextBuffersAccepted
  <2> QED
    BY <1>2, <2>1, Zenon DEF HandlerNextBlock, nrfx_i2s_next_buffers_set, eventVars, irqVars,
       ControlInv
<1>3. CASE HandlerEndOfTrack
  BY <1>3, Zenon DEF HandlerEndOfTrack, nrfx_i2s_stop_and_uninit, TaskStop, ControlInv
<1> QED
  BY <1>1, <1>2, <1>3 DEF data_handler

LEMMA ControlHardware ==
    ASSUME TypeOK, ControlInv, HwBlockDone \/ HwSpuriousEvent \/ HwStopDone
    PROVE  ControlInv'
<1>1. CASE HwBlockDone
  BY <1>1, Zenon DEF HwBlockDone, BlockDone, cbVars, irqVars, playerVars, ControlInv
<1>2. CASE HwSpuriousEvent
  BY <1>2, Zenon DEF HwSpuriousEvent, SpuriousEvent, engineVars, cbVars, irqVars, playerVars,
     ControlInv
<1>3. CASE HwStopDone
  BY <1>3, Zenon DEF HwStopDone, StopDone, cbVars, irqVars, playerVars, ControlInv
<1> QED
  BY <1>1, <1>2, <1>3

LEMMA ControlNext == TypeOK /\ ControlInv /\ [Next]_vars => ControlInv'
<1> SUFFICES ASSUME TypeOK, ControlInv, [Next]_vars
             PROVE  ControlInv'
  OBVIOUS
<1>1. CASE Next
  BY <1>1, ControlCommands, ControlInterrupt, ControlHandler, ControlHardware DEF Next
<1>2. CASE UNCHANGED vars
  BY <1>2, Zenon DEF vars, drvVars, cbVars, periphVars, engineVars, eventVars, irqVars,
     playerVars, ControlInv
<1> QED
  BY <1>1, <1>2

THEOREM ControlCorrect == Spec => []ControlInv
<1>1. TypeOK /\ ControlInv /\ [Next]_vars => (TypeOK /\ ControlInv)'
  BY TypeNext, ControlNext
<1>2. Init => TypeOK /\ ControlInv
  BY TypeInit, ControlInit
<1> QED
  BY <1>1, <1>2, PTL DEF Spec

\* The APP_ERROR_CHECK in data_handler never fails, in any interleaving of
\* commands, interrupts and block boundaries.
THEOREM NeverResets == Spec => []NoReset
<1>1. ControlInv => NoReset
  BY DEF ControlInv, NoReset
<1> QED
  BY <1>1, ControlCorrect, PTL

\* A driver that wrongly believes in a transfer is about to be corrected.
THEOREM DriverStateNotStale == Spec => []NoStaleDriverState
<1>1. ControlInv => NoStaleDriverState
  BY Zenon DEF ControlInv, NoStaleDriverState
<1> QED
  BY <1>1, ControlCorrect, PTL

-----------------------------------------------------------------------------
(***************************************************************************)
(* What is in the buffers.                                                 *)
(***************************************************************************)

\* SetNextDataBlock fills the one buffer it is given and touches no other.
LEMMA FillsOneBuffer ==
    ASSUME TypeOK, BlockAvailable, NEW b \in Buffers, SetNextDataBlock(b)
    PROVE  /\ i2s_tx_buffers'[b] = NextChunk
           /\ NextChunk # Silence
           /\ \A c \in Buffers : c # b => i2s_tx_buffers'[c] = i2s_tx_buffers[c]
<1>1. i2s_tx_buffers \in [Buffers -> Chunks \cup {Silence}]
  BY DEF TypeOK, PlayerTypeOK
<1>2. NextChunk \in Chunks
  BY NextChunkType DEF TypeOK
<1>3. NextChunk # Silence
  BY <1>2, NullsAssumption DEF Chunks
<1> QED
  BY <1>1, <1>3 DEF SetNextDataBlock

LEMMA FilledKept ==
    ASSUME TypeOK, BlockAvailable, NEW b \in Buffers, SetNextDataBlock(b)
    PROVE  \A c \in Buffers : c = b \/ Filled(c) => Filled(c)'
BY FillsOneBuffer DEF Filled

LEMMA FilledInit == Init => FilledInv
BY DEF Init, DriverInit, PeripheralInit, FilledInv

LEMMA FilledCommands ==
    ASSUME TypeOK, ControlInv, FilledInv,
           Play \/ Stop \/ \E track \in Tracks : OpenWAV(track)
    PROVE  FilledInv'
<1>1. ASSUME NEW track \in Tracks, OpenWAV(track)
      PROVE  FilledInv'
  BY <1>1 DEF OpenWAV, nrfx_i2s_init, FilledInv, Filled
<1>2. CASE Play
  <2>0. active_buffer_index \in Buffers /\ active_buffer_index' = active_buffer_index
    BY <1>2 DEF Play, TypeOK, PlayerTypeOK
  <2>1. CASE BlockAvailable /\ drv_state = "INITIALIZED"
    <3>1. TaskStart(active_buffer_index)
      BY <1>2, <2>1 DEF Play, nrfx_i2s_start
    <3>2. Filled(active_buffer_index)'
      BY <1>2, <2>0, <2>1, FilledKept DEF Play, Filled
    <3>3. txd_ptr' = active_buffer_index
      BY <3>1 DEF TaskStart
    <3>4. run # "running"
      BY <2>1 DEF ControlInv
    <3>5. run' = "running" => dma' = active_buffer_index
      BY <3>1, <3>4 DEF TaskStart
    <3> QED
      BY <2>0, <3>2, <3>3, <3>5 DEF FilledInv, Filled
  <2>2. CASE BlockAvailable /\ drv_state # "INITIALIZED"
    <3>1. UNCHANGED <<drv_state, run, txd_ptr, dma>>
      BY <1>2, <2>2 DEF Play, nrfx_i2s_start, cbVars, periphVars, engineVars
    <3>2. \A c \in Buffers : Filled(c) => Filled(c)'
      BY <1>2, <2>0, <2>2, FilledKept DEF Play
    <3> QED
      BY <2>0, <3>1, <3>2 DEF FilledInv, Filled
  <2>3. CASE ~BlockAvailable
    BY <1>2, <2>3 DEF Play, cbVars, periphVars, engineVars, FilledInv, Filled
  <2> QED
    BY <2>1, <2>2, <2>3
<1>3. CASE Stop
  BY <1>3 DEF Stop, nrfx_i2s_stop_and_uninit, TaskStop, FilledInv
<1> QED
  BY <1>1, <1>2, <1>3

LEMMA FilledInterrupt ==
    ASSUME FilledInv, Interrupt
    PROVE  FilledInv'
<1>1. /\ UNCHANGED <<txd_ptr, dma, i2s_tx_buffers, active_buffer_index>>
      /\ drv_state' \in {drv_state, "INITIALIZED"}
      /\ run' \in {run, "idle"}
  BY DEF Interrupt, nrfx_i2s_irq_handler, IrqStopped, IrqReused, IrqAdvanced,
         IrqSpurious, cbVars, playerVars
<1> QED
  BY <1>1 DEF FilledInv, Filled

LEMMA FilledHandler ==
    ASSUME TypeOK, ControlInv, FilledInv, data_handler
    PROVE  FilledInv'
<1>1. CASE HandlerNothingReleased
  BY <1>1 DEF HandlerNothingReleased, cbVars, periphVars, engineVars, playerVars,
              FilledInv, Filled
<1>2. CASE HandlerNextBlock
  <2>1. NextActive \in Buffers
    BY NextActiveInBuffers DEF TypeOK, PlayerTypeOK
  <2>2. \A c \in Buffers : c = NextActive \/ Filled(c) => Filled(c)'
    BY <1>2, <2>1, FilledKept DEF HandlerNextBlock
  <2>3. /\ txd_ptr' = NextActive
        /\ active_buffer_index' = NextActive
        /\ UNCHANGED <<run, dma>>
    BY <1>2 DEF HandlerNextBlock, nrfx_i2s_next_buffers_set, NextBuffersAccepted,
                SomethingReleased, ControlInv
  <2> QED
    BY <2>1, <2>2, <2>3 DEF FilledInv, Filled
<1>3. CASE HandlerEndOfTrack
  BY <1>3 DEF HandlerEndOfTrack, nrfx_i2s_stop_and_uninit, TaskStop, FilledInv
<1> QED
  BY <1>1, <1>2, <1>3 DEF data_handler

LEMMA FilledHardware ==
    ASSUME TypeOK, ControlInv, FilledInv, HwBlockDone \/ HwSpuriousEvent \/ HwStopDone
    PROVE  FilledInv'
<1>1. UNCHANGED <<i2s_tx_buffers, active_buffer_index, drv_state, txd_ptr>>
  BY DEF HwBlockDone, BlockDone, HwSpuriousEvent, SpuriousEvent, HwStopDone, StopDone,
         engineVars, cbVars, playerVars
<1>2. run' = "running" => \/ (dma' = dma /\ run = "running")
                         \/ (dma' = txd_ptr /\ drv_state = "POWERED_ON")
  BY DEF HwBlockDone, BlockDone, HwSpuriousEvent, SpuriousEvent, HwStopDone, StopDone,
         engineVars, ControlInv
<1> QED
  BY <1>1, <1>2 DEF FilledInv, Filled, TypeOK, PlayerTypeOK

LEMMA FilledNext == TypeOK /\ ControlInv /\ FilledInv /\ [Next]_vars => FilledInv'
<1> SUFFICES ASSUME TypeOK, ControlInv, FilledInv, [Next]_vars
             PROVE  FilledInv'
  OBVIOUS
<1>1. CASE Next
  BY <1>1, FilledCommands, FilledInterrupt, FilledHandler, FilledHardware DEF Next
<1>2. CASE UNCHANGED vars
  BY <1>2 DEF vars, drvVars, cbVars, periphVars, engineVars, playerVars, FilledInv, Filled
<1> QED
  BY <1>1, <1>2

\* No command, whatever it interrupts, leaves a transfer running that the driver
\* cannot stop or that sends a buffer nobody filled.
THEOREM NeverOrphaned == Spec => []NoOrphanTransfer
<1>1. TypeOK /\ ControlInv /\ FilledInv /\ [Next]_vars
        => (TypeOK /\ ControlInv /\ FilledInv)'
  BY TypeNext, ControlNext, FilledNext
<1>2. Init => TypeOK /\ ControlInv /\ FilledInv
  BY TypeInit, ControlInit, FilledInit
<1>3. TypeOK /\ ControlInv /\ FilledInv => NoOrphanTransfer
  BY DEF ControlInv, FilledInv, NoOrphanTransfer
<1> QED
  BY <1>1, <1>2, <1>3, PTL DEF Spec

-----------------------------------------------------------------------------
(***************************************************************************)
(* Where the data comes from.                                              *)
(***************************************************************************)

dataVars == <<i2s_tx_buffers, data_size_to_play, data_to_play_ptr>>

\* Copying one block keeps the copies within their track and the bytes left
\* adjacent to the bytes copied.
LEMMA BoundsFill ==
    ASSUME TypeOK, InBounds, BlockAvailable, NEW b \in Buffers, SetNextDataBlock(b)
    PROVE  InBounds'
<1> DEFINE p == data_to_play_ptr
           t == data_to_play_ptr.track
<1>1. /\ data_size_to_play \in Nat /\ data_size_to_play > 0
      /\ p.off \in Nat /\ t \in Tracks
      /\ p.off + data_size_to_play = DataSize[t]
      /\ BlockBytes \in Nat /\ BlockBytes > 0
      /\ DataSize[t] \in Nat
  BY BuffersAssumption, TracksAssumption
     DEF TypeOK, PlayerTypeOK, BlockAvailable, Positions, InBounds
<1>2. /\ NextChunk.len \in 1 .. BlockBytes
      /\ NextChunk.off + NextChunk.len <= DataSize[NextChunk.track]
  BY <1>1 DEF NextChunk
<1>3. ASSUME NEW c \in Buffers, Filled(c)'
      PROVE  /\ i2s_tx_buffers'[c].len \in 1 .. BlockBytes
             /\ i2s_tx_buffers'[c].off + i2s_tx_buffers'[c].len
                  <= DataSize[i2s_tx_buffers'[c].track]
  <2>1. CASE c = b
    BY <1>2, <2>1, FillsOneBuffer
  <2>2. CASE c # b
    BY <1>3, <2>2, FillsOneBuffer DEF InBounds, Filled
  <2> QED
    BY <2>1, <2>2
<1>4. data_size_to_play' > 0 =>
        /\ data_to_play_ptr' # NoData
        /\ data_to_play_ptr'.off + data_size_to_play'
              = DataSize[data_to_play_ptr'.track]
  <2>1. CASE data_size_to_play > BlockBytes
    <3>1. /\ data_to_play_ptr' = [track |-> t, off |-> p.off + BlockBytes]
          /\ data_size_to_play' = data_size_to_play - BlockBytes
      BY <2>1 DEF SetNextDataBlock
    <3>2. data_to_play_ptr' \in Positions
      BY <1>1, <3>1 DEF Positions
    <3> QED
      BY <1>1, <3>1, <3>2, NullsAssumption DEF Positions
  <2>2. CASE ~(data_size_to_play > BlockBytes)
    BY <2>2 DEF SetNextDataBlock
  <2> QED
    BY <2>1, <2>2
<1> QED
  BY <1>3, <1>4 DEF InBounds

LEMMA BoundsNext == TypeOK /\ InBounds /\ [Next]_vars => InBounds'
<1> SUFFICES ASSUME TypeOK, InBounds, [Next]_vars
             PROVE  InBounds'
  OBVIOUS
<1>1. ASSUME NEW track \in Tracks, OpenWAV(track)
      PROVE  InBounds'
  <2>1. /\ i2s_tx_buffers' = i2s_tx_buffers
        /\ data_size_to_play' = DataSize[track]
        /\ data_to_play_ptr' = [track |-> track, off |-> 0]
    BY <1>1 DEF OpenWAV
  <2>2. data_to_play_ptr' # NoData
    BY <2>1, NullsAssumption
  <2> QED
    BY <2>1, <2>2, TracksAssumption DEF InBounds, Filled
<1>2. ASSUME NEW b \in Buffers, BlockAvailable, SetNextDataBlock(b)
      PROVE  InBounds'
  BY <1>2, BoundsFill
<1>3. ASSUME UNCHANGED dataVars
      PROVE  InBounds'
  BY <1>3 DEF dataVars, InBounds, Filled
<1>4. CASE Play
  BY <1>2, <1>3, <1>4 DEF Play, dataVars, TypeOK, PlayerTypeOK
<1>5. CASE data_handler
  <2>1. NextActive \in Buffers
    BY NextActiveInBuffers DEF TypeOK, PlayerTypeOK
  <2> QED
    BY <1>2, <1>3, <1>5, <2>1 DEF data_handler, HandlerNothingReleased,
       HandlerNextBlock, HandlerEndOfTrack, dataVars, playerVars
<1>6. CASE Stop \/ Interrupt \/ HwBlockDone \/ HwSpuriousEvent \/ HwStopDone
           \/ UNCHANGED vars
  BY <1>3, <1>6 DEF Stop, Interrupt, HwBlockDone, HwSpuriousEvent, HwStopDone, vars,
     dataVars, playerVars
<1> QED
  BY <1>1, <1>4, <1>5, <1>6 DEF Next

\* No byte outside a track's audio data is ever copied to a buffer, for any
\* track sizes and any block size.
THEOREM CopiesInBounds == Spec => []InBounds
<1>1. Init => InBounds
  BY DEF Init, InBounds, Filled
<1>2. TypeOK /\ InBounds /\ [Next]_vars => (TypeOK /\ InBounds)'
  BY TypeNext, BoundsNext
<1> QED
  BY <1>1, <1>2, TypeInit, PTL DEF Spec

-----------------------------------------------------------------------------
(***************************************************************************)
(* Double buffering, when every interrupt is served in time.               *)
(***************************************************************************)

phaseVars == <<run, ev_stopped, ev_tx, released, txd_ptr, dma, sending,
               buffers_needed, buffers_reused, next_buffers, current_buffers>>

LEMMA PhaseUnchanged ==
    ASSUME PhaseInv, UNCHANGED phaseVars
    PROVE  PhaseInv'
BY DEF phaseVars, PhaseInv, Transmitting, BoundaryPending, NothingQueued, NextQueued,
       HandlerRunning, StaleReuse, OneRepetition

\* Outside a transfer there is nothing to show.
LEMMA PhaseNotTransmitting ==
    ASSUME run' # "running" \/ ev_stopped'
    PROVE  PhaseInv'
BY DEF PhaseInv, Transmitting

\* The buffers in transmission are buffers, and the last one filled is next.
LEMMA TransmittingFacts ==
    ASSUME TypeOK, ControlInv, FilledInv, Transmitting
    PROVE  /\ dma \in Buffers /\ dma # NoBuf /\ dma # NullPtr
           /\ txd_ptr = active_buffer_index
           /\ drv_state = "POWERED_ON"
           /\ ~tx_ready
           /\ released # NoCall => buffers_needed
BY NullsAssumption DEF Transmitting, ControlInv, FilledInv

LEMMA PhasePlay ==
    ASSUME TypeOK, ControlInv, FilledInv, PhaseInv, Play
    PROVE  PhaseInv'
<1>1. CASE BlockAvailable /\ drv_state = "INITIALIZED"
  <2>1. /\ TaskStart(active_buffer_index)
        /\ buffers_needed' = FALSE
        /\ next_buffers' = active_buffer_index
        /\ current_buffers' = NoBuf
        /\ released' = released
    BY <1>1 DEF Play, nrfx_i2s_start
  <2>2. run # "running" /\ released = NoCall
    BY <1>1 DEF Play, ControlInv
  <2>3. CASE run = "idle"
    <3>1. /\ txd_ptr' = active_buffer_index
          /\ dma' = active_buffer_index
          /\ sending' = "first"
          /\ ev_tx'
      BY <2>1, <2>3 DEF TaskStart
    <3>2. active_buffer_index # NoBuf
      BY NullsAssumption DEF TypeOK, PlayerTypeOK
    <3> QED
      BY <2>1, <2>2, <3>1, <3>2 DEF PhaseInv, BoundaryPending, NothingQueued,
         NextQueued, HandlerRunning, StaleReuse, OneRepetition
  <2>4. CASE run # "idle"
    <3>1. run' # "running"
      BY <2>1, <2>2, <2>4 DEF TaskStart
    <3> QED
      BY <3>1, PhaseNotTransmitting
  <2> QED
    BY <2>3, <2>4
<1>2. CASE ~(BlockAvailable /\ drv_state = "INITIALIZED")
  <2>1. UNCHANGED phaseVars
    BY <1>2 DEF Play, nrfx_i2s_start, cbVars, periphVars, engineVars, eventVars, phaseVars
  <2> QED
    BY <2>1, PhaseUnchanged
<1> QED
  BY <1>1, <1>2

LEMMA PhaseInterrupt ==
    ASSUME TypeOK, ControlInv, FilledInv, PhaseInv, Interrupt
    PROVE  PhaseInv'
<1>1. CASE IrqStopped
  <2>1. run' # "running"
    BY <1>1 DEF IrqStopped
  <2> QED
    BY <2>1, PhaseNotTransmitting
<1>2. CASE ~Transmitting /\ ~IrqStopped
  <2>1. ~Transmitting'
    BY <1>2 DEF Interrupt, nrfx_i2s_irq_handler, IrqReused, IrqAdvanced, IrqSpurious,
                Transmitting
  <2> QED
    BY <2>1 DEF PhaseInv
<1>3. CASE Transmitting /\ IrqReused
  <2>1. ev_tx /\ txd_ptr = dma /\ released = NoCall
    BY <1>3, TransmittingFacts DEF IrqReused, PhaseInv, BoundaryPending
  <2>2. \/ current_buffers = dma /\ next_buffers = NoBuf
        \/ current_buffers = NoBuf
    BY <1>3, <2>1 DEF IrqReused, ReuseSeen, PhaseInv, NothingQueued, StaleReuse
  <2>5. /\ current_buffers = NoBuf => sending \in {"first", "second"}
        /\ sending \in {"first", "second"} => current_buffers = NoBuf
        /\ sending # "second"
    BY <1>3, <2>1 DEF IrqReused, ReuseSeen, PhaseInv, StaleReuse, OneRepetition
  <2>3. /\ released' = NullPtr
        /\ buffers_needed'
        /\ ~buffers_reused'
        /\ ~ev_tx'
        /\ UNCHANGED <<txd_ptr, dma, sending, current_buffers, next_buffers>>
    BY <1>3 DEF Interrupt, nrfx_i2s_irq_handler, IrqReused
  <2>4. NullPtr # dma /\ NullPtr # NoCall /\ NullPtr # NoBuf
    BY <1>3, TransmittingFacts, NullsAssumption
  <2> QED
    BY <2>1, <2>2, <2>3, <2>4, <2>5 DEF PhaseInv, BoundaryPending, NothingQueued, NextQueued,
       HandlerRunning, StaleReuse, OneRepetition
<1>4. CASE Transmitting /\ IrqAdvanced
  <2>1. ev_tx /\ txd_ptr = dma
    BY <1>4, TransmittingFacts DEF IrqAdvanced, PhaseInv, BoundaryPending
  <2>2. /\ current_buffers # dma /\ next_buffers = dma
        /\ sending \in {"first", "second"} <=> current_buffers = NoBuf
    BY <1>4, <2>1 DEF IrqAdvanced, ReuseSeen, PhaseInv, NextQueued, OneRepetition
  <2>3. /\ released' = current_buffers
        /\ current_buffers' = dma
        /\ next_buffers' = NoBuf
        /\ buffers_needed'
        /\ ~buffers_reused'
        /\ ~ev_tx'
        /\ UNCHANGED <<txd_ptr, dma, sending>>
    BY <1>4, <2>2 DEF Interrupt, nrfx_i2s_irq_handler, IrqAdvanced, ReuseSeen
  <2>4. released' # NoCall /\ current_buffers' # NoBuf
    BY <1>4, <2>3, TransmittingFacts, NullsAssumption DEF TypeOK, DriverTypeOK
  <2> QED
    BY <2>1, <2>2, <2>3, <2>4 DEF PhaseInv, BoundaryPending, NothingQueued, NextQueued,
       HandlerRunning, StaleReuse, OneRepetition
<1>5. CASE IrqSpurious
  <2>1. /\ ~ev_tx /\ ~ev_tx'
        /\ UNCHANGED <<run, ev_stopped, released, txd_ptr, dma, sending, buffers_needed,
                       buffers_reused, next_buffers, current_buffers>>
    BY <1>5 DEF Interrupt, nrfx_i2s_irq_handler, IrqSpurious, cbVars
  <2> QED
    BY <2>1 DEF PhaseInv, Transmitting, BoundaryPending, NothingQueued, NextQueued,
       HandlerRunning, StaleReuse, OneRepetition
<1> QED
  BY <1>1, <1>2, <1>3, <1>4, <1>5 DEF Interrupt, nrfx_i2s_irq_handler

LEMMA PhaseHandler ==
    ASSUME TypeOK, ControlInv, FilledInv, PhaseInv, data_handler
    PROVE  PhaseInv'
<1>1. CASE HandlerNothingReleased
  <2>1. /\ released = NoBuf /\ released' = NoCall
        /\ UNCHANGED <<run, ev_stopped, ev_tx, txd_ptr, dma, sending, buffers_needed,
                       buffers_reused, next_buffers, current_buffers>>
    BY <1>1 DEF HandlerNothingReleased, cbVars, periphVars, engineVars, eventVars
  <2>2. NoBuf # NoCall /\ NoBuf # NullPtr
    BY NullsAssumption
  <2>3. buffers_needed
    BY <2>1, <2>2 DEF ControlInv
  <2> QED
    BY <2>1, <2>2, <2>3 DEF PhaseInv, Transmitting, BoundaryPending, NothingQueued,
       NextQueued, HandlerRunning, StaleReuse, OneRepetition
<1>2. CASE HandlerNextBlock
  <2>1. released # NoCall /\ buffers_needed
    BY <1>2 DEF HandlerNextBlock, SomethingReleased, ControlInv
  <2>2. /\ txd_ptr' = NextActive
        /\ next_buffers' = NextActive
        /\ ~buffers_needed'
        /\ released' = NoCall
        /\ UNCHANGED <<run, ev_stopped, ev_tx, dma, sending, buffers_reused, current_buffers>>
    BY <1>2, <2>1 DEF HandlerNextBlock, nrfx_i2s_next_buffers_set, NextBuffersAccepted,
       eventVars
  <2>0. released # NoBuf /\ NoCall # NoBuf
    BY <1>2, NullsAssumption DEF HandlerNextBlock, SomethingReleased
  <2>3. CASE Transmitting
    <3>1. ~ev_tx /\ ~buffers_reused /\ txd_ptr = dma /\ current_buffers \in {dma, NoBuf}
      BY <2>1, <2>3 DEF PhaseInv, BoundaryPending, HandlerRunning, StaleReuse
    <3>2. NextActive # dma
      BY <2>3, <3>1, TransmittingFacts, NextActiveInBuffers DEF TypeOK, PlayerTypeOK
    <3>3. /\ current_buffers = NoBuf => sending \in {"first", "second"}
          /\ sending \in {"first", "second"} => current_buffers = NoBuf
          /\ sending # "second"
      BY <2>0, <2>1, <2>3, <3>1 DEF PhaseInv, OneRepetition
    <3> QED
      BY <2>0, <2>2, <3>1, <3>2, <3>3 DEF PhaseInv, BoundaryPending, NothingQueued, NextQueued,
         HandlerRunning, StaleReuse, OneRepetition
  <2>4. CASE ~Transmitting
    BY <2>2, <2>4 DEF PhaseInv, Transmitting
  <2> QED
    BY <2>3, <2>4
<1>3. CASE HandlerEndOfTrack
  <2>1. run' # "running"
    BY <1>3 DEF HandlerEndOfTrack, nrfx_i2s_stop_and_uninit, TaskStop
  <2> QED
    BY <2>1, PhaseNotTransmitting
<1> QED
  BY <1>1, <1>2, <1>3 DEF data_handler

\* A block boundary is the only step that needs the interrupts to be in time.
LEMMA PhaseBlockDone ==
    ASSUME TypeOK, ControlInv, FilledInv, PhaseInv, HwBlockDone, ~HwOutruns
    PROVE  PhaseInv'
<1>1. /\ ~ev_tx /\ released = NoCall
      /\ ev_tx' /\ dma' = txd_ptr
      /\ sending' = IF txd_ptr = dma
                      THEN IF sending \in {"first", "second"} THEN "again" ELSE "repeated"
                      ELSE IF sending = "first" THEN "second" ELSE "later"
      /\ UNCHANGED <<run, ev_stopped, released, txd_ptr, buffers_needed, buffers_reused,
                     next_buffers, current_buffers>>
  BY DEF HwBlockDone, BlockDone, cbVars
<1>2. CASE Transmitting
  <2>1. txd_ptr # NoBuf
    BY <1>2, TransmittingFacts, NullsAssumption DEF TypeOK, PlayerTypeOK
  <2>2. CASE txd_ptr = dma
    <3>1. sending' = "again" /\ buffers_needed /\ current_buffers = dma /\ ~buffers_reused
      BY <1>1, <1>2, <2>2 DEF PhaseInv, NothingQueued, NextQueued, StaleReuse, OneRepetition
    <3> QED
      BY <1>1, <1>2, <2>1, <2>2, <3>1, NullsAssumption DEF PhaseInv, BoundaryPending,
         NothingQueued, NextQueued, HandlerRunning, StaleReuse, OneRepetition
  <2>3. CASE txd_ptr # dma
    <3>1. /\ ~buffers_needed /\ ~buffers_reused
          /\ sending' \in {"second", "later"}
          /\ sending' = "second" <=> current_buffers = NoBuf
      BY <1>1, <1>2, <2>3 DEF PhaseInv, NothingQueued, StaleReuse, OneRepetition
    <3> QED
      BY <1>1, <1>2, <2>1, <2>3, <3>1, NullsAssumption DEF PhaseInv, BoundaryPending,
         NothingQueued, NextQueued, HandlerRunning, StaleReuse, OneRepetition
  <2> QED
    BY <2>2, <2>3
<1>3. CASE ~Transmitting
  BY <1>1, <1>3 DEF PhaseInv, Transmitting
<1> QED
  BY <1>2, <1>3

LEMMA PhaseNext ==
    ASSUME TypeOK, ControlInv, FilledInv, PhaseInv, [Next]_vars, ~HwOutruns
    PROVE  PhaseInv'
<1>1. ASSUME NEW track \in Tracks, OpenWAV(track)
      PROVE  PhaseInv'
  <2>1. UNCHANGED phaseVars
    BY <1>1 DEF OpenWAV, nrfx_i2s_init, eventVars, phaseVars
  <2> QED
    BY <2>1, PhaseUnchanged
<1>2. CASE Stop
  <2>1. run' # "running"
    BY <1>2 DEF Stop, nrfx_i2s_stop_and_uninit, TaskStop
  <2> QED
    BY <2>1, PhaseNotTransmitting
<1>3. CASE HwSpuriousEvent
  <2>1. run' # "running"
    BY <1>3 DEF HwSpuriousEvent, SpuriousEvent, engineVars
  <2> QED
    BY <2>1, PhaseNotTransmitting
<1>4. CASE HwStopDone
  <2>1. ev_stopped'
    BY <1>4 DEF HwStopDone, StopDone
  <2> QED
    BY <2>1, PhaseNotTransmitting
<1>5. CASE UNCHANGED vars
  <2>1. UNCHANGED phaseVars
    BY <1>5 DEF vars, drvVars, cbVars, periphVars, engineVars, eventVars, phaseVars
  <2> QED
    BY <2>1, PhaseUnchanged
<1> QED
  BY <1>1, <1>2, <1>3, <1>4, <1>5, PhasePlay, PhaseInterrupt, PhaseHandler,
     PhaseBlockDone DEF Next

\* The inductive invariant of a player whose interrupts are served in time.
TimelyInv == TypeOK /\ ControlInv /\ FilledInv /\ PhaseInv

LEMMA TimelyCorrect ==
    ASSUME ~HwOutruns
    PROVE  Spec => []TimelyInv
<1>1. Init => TimelyInv
  <2>1. Init => PhaseInv
    BY DEF Init, DriverInit, PeripheralInit, PhaseInv, Transmitting
  <2> QED
    BY <2>1, TypeInit, ControlInit, FilledInit DEF TimelyInv
<1>2. TimelyInv /\ [Next]_vars => TimelyInv'
  BY TypeNext, ControlNext, FilledNext, PhaseNext DEF TimelyInv
<1> QED
  BY <1>1, <1>2, PTL DEF Spec

\* Between interrupts the driver's current and next buffer are the ones the
\* peripheral transmits and will transmit.
THEOREM BuffersAgree ==
    ASSUME ~HwOutruns
    PROVE  Spec => []DoubleBuffering
<1>1. TimelyInv => DoubleBuffering
  <2> SUFFICES ASSUME TimelyInv, Transmitting, released = NoCall
               PROVE  DoubleBuffering
    BY DEF DoubleBuffering
  <2>1. txd_ptr = active_buffer_index
    BY TransmittingFacts DEF TimelyInv
  <2> QED
    BY <2>1 DEF TimelyInv, PhaseInv, BoundaryPending, NothingQueued, NextQueued,
       DoubleBuffering
<1> QED
  BY <1>1, TimelyCorrect, PTL

\* A buffer handed back, and the one the player then fills, is never the one
\* being transmitted.
THEOREM NeverTears ==
    ASSUME ~HwOutruns
    PROVE  Spec => []ReleasedNotInUse
<1>1. TimelyInv => ReleasedNotInUse
  <2> SUFFICES ASSUME TimelyInv, Transmitting, SomethingReleased
               PROVE  released # dma /\ NextActive # dma
    BY DEF ReleasedNotInUse
  <2>1. released # dma /\ txd_ptr = dma
    BY DEF TimelyInv, PhaseInv, HandlerRunning, SomethingReleased
  <2>2. NextActive # dma
    BY <2>1, TransmittingFacts, NextActiveInBuffers DEF TimelyInv, TypeOK, PlayerTypeOK
  <2> QED
    BY <2>1, <2>2
<1> QED
  BY <1>1, TimelyCorrect, PTL

-----------------------------------------------------------------------------
(***************************************************************************)
(* The contents of the buffers.                                            *)
(***************************************************************************)

\* The chunk SetNextDataBlock copies is the one AudioStream expects there.
LEMMA NextChunkIs ==
    ASSUME TypeOK, InBounds, BlockAvailable
    PROVE  /\ data_to_play_ptr.track \in Tracks
           /\ data_to_play_ptr.off \in Nat
           /\ data_to_play_ptr.off < DataSize[data_to_play_ptr.track]
           /\ NextChunk = Stream!ChunkAt(data_to_play_ptr.track, data_to_play_ptr.off)
<1> DEFINE t == data_to_play_ptr.track
           o == data_to_play_ptr.off
<1>1. /\ data_size_to_play \in Nat /\ data_size_to_play > 0
      /\ o \in Nat /\ t \in Tracks
      /\ o + data_size_to_play = DataSize[t]
      /\ DataSize[t] \in Nat
      /\ BlockBytes \in Nat
  BY BuffersAssumption, TracksAssumption
     DEF TypeOK, PlayerTypeOK, BlockAvailable, Positions, InBounds
<1>2. o < DataSize[t] /\ DataSize[t] - o = data_size_to_play
  BY <1>1
<1> QED
  BY <1>1, <1>2 DEF NextChunk, Stream!ChunkAt

\* After a copy the pointer, if anything is left, is where that chunk ends.
LEMMA PointerMoves ==
    ASSUME TypeOK, BlockAvailable, NEW b \in Buffers, SetNextDataBlock(b),
           data_size_to_play' > 0
    PROVE  data_to_play_ptr'
              = [track |-> NextChunk.track, off |-> NextChunk.off + NextChunk.len]
BY DEF SetNextDataBlock, NextChunk, BlockAvailable

\* A copy keeps all filled buffers whole.
LEMMA ChunksKept ==
    ASSUME TypeOK, InBounds, ChunksWhole, BlockAvailable,
           NEW b \in Buffers, SetNextDataBlock(b)
    PROVE  ChunksWhole'
<1> SUFFICES ASSUME NEW c \in Buffers, Filled(c)'
             PROVE  /\ i2s_tx_buffers'[c].off < DataSize[i2s_tx_buffers'[c].track]
                    /\ i2s_tx_buffers'[c]
                         = Stream!ChunkAt(i2s_tx_buffers'[c].track, i2s_tx_buffers'[c].off)
  BY DEF ChunksWhole, Stream!ChunkAt
<1>1. CASE c = b
  <2>1. i2s_tx_buffers'[c] = NextChunk
    BY <1>1, FillsOneBuffer
  <2>2. /\ NextChunk.track = data_to_play_ptr.track
        /\ NextChunk.off = data_to_play_ptr.off
    BY DEF NextChunk
  <2> QED
    BY <2>1, <2>2, NextChunkIs
<1>2. CASE c # b
  BY <1>2, FillsOneBuffer DEF ChunksWhole, Filled
<1> QED
  BY <1>1, <1>2

\* Everything the invariants of this module rest on.
ContextInv == TimelyInv /\ InBounds

LEMMA ContentPlay ==
    ASSUME ContextInv, ContentInv, Play
    PROVE  ContentInv'
<1>0. /\ TypeOK /\ ControlInv /\ FilledInv /\ InBounds
      /\ ChunksWhole /\ PointerAtStart /\ PointerContinues /\ QueuedContinues
  BY DEF ContextInv, TimelyInv, ContentInv
<1>1. ~opened' /\ opened /\ active_buffer_index \in Buffers
      /\ active_buffer_index' = active_buffer_index
  BY <1>0 DEF Play, TypeOK, PlayerTypeOK
<1>2. CASE BlockAvailable
  <2>1. SetNextDataBlock(active_buffer_index)
    BY <1>2 DEF Play
  <2>2. ChunksWhole'
    BY <1>0, <1>1, <1>2, <2>1, ChunksKept
  <2>3. i2s_tx_buffers'[active_buffer_index] = NextChunk /\ NextChunk.off = 0
    BY <1>0, <1>1, <1>2, <2>1, FillsOneBuffer DEF NextChunk, PointerAtStart
  <2>4. PointerContinues'
    BY <1>0, <1>1, <1>2, <2>1, <2>3, PointerMoves DEF PointerContinues
  <2>5. QueuedContinues'
    <3>1. CASE drv_state = "INITIALIZED"
      <4>1. TaskStart(active_buffer_index) /\ run # "running"
        BY <1>0, <1>2, <3>1 DEF Play, nrfx_i2s_start, ControlInv
      <4>2. run' = "running" => txd_ptr' = dma'
        BY <4>1 DEF TaskStart
      <4> QED
        BY <4>2 DEF QueuedContinues, Transmitting
    <3>2. CASE drv_state # "INITIALIZED"
      <4>1. UNCHANGED <<run, ev_stopped, txd_ptr, dma>>
        BY <1>2, <3>2 DEF Play, nrfx_i2s_start, periphVars, engineVars, eventVars
      <4>2. Transmitting => txd_ptr = active_buffer_index
        BY <1>0, TransmittingFacts
      <4> QED
        BY <2>3, <4>1, <4>2 DEF QueuedContinues, Transmitting
    <3> QED
      BY <3>1, <3>2
  <2> QED
    BY <1>1, <2>2, <2>4, <2>5 DEF ContentInv, PointerAtStart
<1>3. CASE ~BlockAvailable
  <2>1. UNCHANGED <<i2s_tx_buffers, data_size_to_play, data_to_play_ptr, drv_state, run,
                   ev_stopped, txd_ptr, dma>>
    BY <1>3 DEF Play, cbVars, periphVars, engineVars, eventVars
  <2>2. ~(data_size_to_play > 0)
    BY <1>0, <1>1, <1>3 DEF BlockAvailable, PointerAtStart
  <2> QED
    BY <1>0, <1>1, <2>1, <2>2 DEF ContentInv, ChunksWhole, Filled, PointerAtStart,
       PointerContinues, QueuedContinues, Transmitting, Stream!ChunkAt
<1> QED
  BY <1>2, <1>3

LEMMA ContentHandler ==
    ASSUME ContextInv, ContentInv, HandlerNextBlock
    PROVE  ContentInv'
<1>0. /\ TypeOK /\ ControlInv /\ FilledInv /\ InBounds /\ PhaseInv
      /\ ChunksWhole /\ PointerAtStart /\ PointerContinues /\ QueuedContinues
  BY DEF ContextInv, TimelyInv, ContentInv
<1>1. /\ released # NoCall /\ ~opened /\ ~opened' /\ buffers_needed /\ BlockAvailable
      /\ SetNextDataBlock(NextActive)
  BY <1>0 DEF HandlerNextBlock, SomethingReleased, ControlInv
<1>2. /\ NextActive \in Buffers /\ NextActive # active_buffer_index
      /\ active_buffer_index \in Buffers
  BY <1>0, NextActiveInBuffers DEF TypeOK, PlayerTypeOK
<1>3. /\ active_buffer_index' = NextActive
      /\ txd_ptr' = NextActive
      /\ UNCHANGED <<run, ev_stopped, dma, drv_state>>
  BY <1>1 DEF HandlerNextBlock, nrfx_i2s_next_buffers_set, NextBuffersAccepted, eventVars
<1>4. /\ i2s_tx_buffers'[NextActive] = NextChunk
      /\ i2s_tx_buffers'[active_buffer_index] = i2s_tx_buffers[active_buffer_index]
  BY <1>0, <1>1, <1>2, FillsOneBuffer
<1>5. ChunksWhole'
  BY <1>0, <1>1, <1>2, ChunksKept
<1>6. PointerContinues'
  <2>1. data_size_to_play' > 0 =>
          data_to_play_ptr'
            = [track |-> NextChunk.track, off |-> NextChunk.off + NextChunk.len]
    BY <1>0, <1>1, <1>2, PointerMoves
  <2> QED
    BY <1>3, <1>4, <2>1 DEF PointerContinues
<1>7. QueuedContinues'
  <2> SUFFICES ASSUME Transmitting
               PROVE  /\ i2s_tx_buffers'[NextActive].track = i2s_tx_buffers'[dma].track
                      /\ i2s_tx_buffers'[NextActive].off
                            = i2s_tx_buffers'[dma].off + i2s_tx_buffers'[dma].len
    BY <1>3 DEF QueuedContinues, Transmitting
  <2>1. dma = active_buffer_index /\ drv_state = "POWERED_ON"
    BY <1>0, <1>1, TransmittingFacts DEF PhaseInv, HandlerRunning
  <2>2. data_to_play_ptr
          = [track |-> i2s_tx_buffers[dma].track,
             off   |-> i2s_tx_buffers[dma].off + i2s_tx_buffers[dma].len]
    BY <1>0, <1>1, <2>1 DEF PointerContinues, BlockAvailable
  <2> QED
    BY <1>4, <2>1, <2>2 DEF NextChunk
<1> QED
  BY <1>1, <1>5, <1>6, <1>7 DEF ContentInv, PointerAtStart

contentVars == <<i2s_tx_buffers, active_buffer_index, data_size_to_play,
                 data_to_play_ptr, opened>>

\* A step that copies nothing keeps the contents if it starts no transfer.
LEMMA ContentKept ==
    ASSUME ContentInv, UNCHANGED contentVars,
           drv_state' = "POWERED_ON" => drv_state = "POWERED_ON",
           Transmitting' => \/ txd_ptr' = dma'
                            \/ Transmitting /\ txd_ptr' = txd_ptr /\ dma' = dma
    PROVE  ContentInv'
<1>1. ChunksWhole' /\ PointerAtStart' /\ PointerContinues'
  BY DEF ContentInv, ChunksWhole, Filled, PointerAtStart, PointerContinues, contentVars,
         Stream!ChunkAt
<1>2. QueuedContinues'
  BY DEF ContentInv, QueuedContinues, contentVars
<1> QED
  BY <1>1, <1>2 DEF ContentInv

LEMMA ContentNext ==
    ASSUME ContextInv, ContentInv, [Next]_vars
    PROVE  ContentInv'
<1>1. ASSUME NEW track \in Tracks, OpenWAV(track)
      PROVE  ContentInv'
  <2>1. /\ data_to_play_ptr' = [track |-> track, off |-> 0]
        /\ data_size_to_play' = DataSize[track]
        /\ opened'
        /\ UNCHANGED <<i2s_tx_buffers, active_buffer_index, run, ev_stopped, txd_ptr, dma>>
        /\ drv_state' = "POWERED_ON" => drv_state = "POWERED_ON"
    BY <1>1 DEF OpenWAV, nrfx_i2s_init, eventVars
  <2>2. data_to_play_ptr' # NoData
    BY <2>1, NullsAssumption
  <2> QED
    BY <2>1, <2>2 DEF ContentInv, ChunksWhole, Filled, PointerAtStart, PointerContinues,
       QueuedContinues, Transmitting, Stream!ChunkAt
<1>2. CASE Play
  BY <1>2, ContentPlay
<1>3. CASE Stop
  <2>1. UNCHANGED contentVars /\ drv_state' # "POWERED_ON" /\ run' # "running"
    BY <1>3 DEF Stop, playerVars, contentVars, nrfx_i2s_stop_and_uninit, TaskStop
  <2> QED
    BY <2>1, ContentKept DEF Transmitting
<1>4. CASE Interrupt
  <2>1. /\ UNCHANGED <<contentVars, txd_ptr, dma>>
        /\ drv_state' = "POWERED_ON" => drv_state = "POWERED_ON"
        /\ Transmitting' => Transmitting
    BY <1>4 DEF Interrupt, nrfx_i2s_irq_handler, IrqStopped, IrqReused, IrqAdvanced,
       IrqSpurious, cbVars, playerVars, contentVars, Transmitting
  <2> QED
    BY <2>1, ContentKept
<1>5. CASE HandlerNothingReleased
  BY <1>5, ContentKept DEF HandlerNothingReleased, cbVars, periphVars, engineVars,
     eventVars, playerVars, contentVars, Transmitting
<1>6. CASE HandlerNextBlock
  BY <1>6, ContentHandler
<1>7. CASE HandlerEndOfTrack
  <2>1. /\ UNCHANGED <<i2s_tx_buffers, data_size_to_play, data_to_play_ptr, opened>>
        /\ drv_state' # "POWERED_ON" /\ run' # "running"
    BY <1>7 DEF HandlerEndOfTrack, nrfx_i2s_stop_and_uninit, TaskStop
  <2> QED
    BY <2>1 DEF ContentInv, ChunksWhole, Filled, PointerAtStart, PointerContinues,
       QueuedContinues, Transmitting, Stream!ChunkAt
<1>8. CASE HwBlockDone
  <2>1. UNCHANGED <<contentVars, drv_state>> /\ txd_ptr' = dma'
    BY <1>8 DEF HwBlockDone, BlockDone, cbVars, playerVars, contentVars
  <2> QED
    BY <2>1, ContentKept
<1>9. CASE HwSpuriousEvent \/ HwStopDone
  <2>1. UNCHANGED <<contentVars, drv_state>> /\ ~Transmitting'
    BY <1>9 DEF HwSpuriousEvent, SpuriousEvent, HwStopDone, StopDone, engineVars, cbVars,
       playerVars, contentVars, Transmitting
  <2> QED
    BY <2>1, ContentKept
<1>10. CASE UNCHANGED vars
  BY <1>10, ContentKept DEF vars, drvVars, cbVars, periphVars, engineVars, eventVars,
     playerVars, contentVars, Transmitting
<1> QED
  BY <1>1, <1>2, <1>3, <1>4, <1>5, <1>6, <1>7, <1>8, <1>9, <1>10 DEF Next, data_handler

-----------------------------------------------------------------------------
(***************************************************************************)
(* The end of a track.                                                     *)
(***************************************************************************)

\* With nothing left to play, the buffer filled last holds the end of its track,
\* unless an empty track was played over it.
EndInv ==
    (drv_state = "POWERED_ON" /\ ~opened /\ data_size_to_play = 0) =>
        LET last == i2s_tx_buffers[active_buffer_index]
        IN  \/ DataSize[data_to_play_ptr.track] = 0
            \/ last.off + last.len = DataSize[last.track]

\* A copy after which nothing is left ends where the track does.
LEMMA LastChunkEnds ==
    ASSUME TypeOK, InBounds, BlockAvailable, NEW b \in Buffers, SetNextDataBlock(b),
           data_size_to_play' = 0
    PROVE  NextChunk.off + NextChunk.len = DataSize[NextChunk.track]
<1>1. /\ data_size_to_play \in Nat /\ data_size_to_play > 0 /\ BlockBytes \in Nat
      /\ data_to_play_ptr.off + data_size_to_play = DataSize[data_to_play_ptr.track]
  BY BuffersAssumption DEF TypeOK, PlayerTypeOK, BlockAvailable, InBounds
<1>2. ~(data_size_to_play > BlockBytes)
  BY <1>1 DEF SetNextDataBlock
<1> QED
  BY <1>1, <1>2 DEF NextChunk

LEMMA EndNext ==
    ASSUME ContextInv, ContentInv, EndInv, [Next]_vars
    PROVE  EndInv'
<1>0. TypeOK /\ InBounds /\ PointerAtStart
  BY DEF ContextInv, TimelyInv, ContentInv
<1>1. ASSUME NEW b \in Buffers, BlockAvailable, SetNextDataBlock(b), active_buffer_index' = b
      PROVE  EndInv'
  <2>1. i2s_tx_buffers'[b] = NextChunk
    BY <1>0, <1>1, FillsOneBuffer
  <2> QED
    BY <1>0, <1>1, <2>1, LastChunkEnds DEF EndInv
<1>2. ASSUME UNCHANGED contentVars, drv_state' = "POWERED_ON" => drv_state = "POWERED_ON"
      PROVE  EndInv'
  BY <1>2 DEF contentVars, EndInv
<1>3. ASSUME NEW track \in Tracks, OpenWAV(track)
      PROVE  EndInv'
  BY <1>3 DEF OpenWAV, EndInv
<1>4. CASE Play
  <2>1. CASE BlockAvailable
    BY <1>0, <1>1, <1>4, <2>1 DEF Play, TypeOK, PlayerTypeOK
  <2>2. CASE ~BlockAvailable
    <3>1. DataSize[data_to_play_ptr.track] = data_size_to_play
      BY <1>0, <1>4 DEF Play, PointerAtStart
    <3>2. UNCHANGED <<data_size_to_play, data_to_play_ptr>>
      BY <1>4, <2>2 DEF Play
    <3> QED
      BY <3>1, <3>2 DEF EndInv
  <2> QED
    BY <2>1, <2>2
<1>5. CASE HandlerNextBlock
  BY <1>0, <1>1, <1>5, NextActiveInBuffers DEF HandlerNextBlock, TypeOK, PlayerTypeOK
<1>6. CASE HandlerEndOfTrack
  BY <1>6 DEF HandlerEndOfTrack, nrfx_i2s_stop_and_uninit, EndInv
<1>7. CASE HandlerNothingReleased \/ UNCHANGED vars
  BY <1>2, <1>7 DEF HandlerNothingReleased, vars, drvVars, cbVars, playerVars, contentVars
<1>8. CASE Stop
  BY <1>8 DEF Stop, nrfx_i2s_stop_and_uninit, EndInv
<1>9. CASE Interrupt
  BY <1>2, <1>9 DEF Interrupt, nrfx_i2s_irq_handler, IrqStopped, IrqReused, IrqAdvanced,
     IrqSpurious, cbVars, playerVars, contentVars
<1>10. CASE HwBlockDone \/ HwSpuriousEvent \/ HwStopDone
  BY <1>2, <1>10 DEF HwBlockDone, HwSpuriousEvent, HwStopDone, cbVars, playerVars, contentVars
<1> QED
  BY <1>3, <1>4, <1>5, <1>6, <1>7, <1>8, <1>9, <1>10 DEF Next, data_handler

LEMMA EndIsLast ==
    ASSUME ContextInv, EndInv, HandlerEndOfTrack, Transmitting
    PROVE  \/ DataSize[data_to_play_ptr.track] = 0
           \/ i2s_tx_buffers[dma].off + i2s_tx_buffers[dma].len
                 = DataSize[i2s_tx_buffers[dma].track]
<1>0. TypeOK /\ ControlInv /\ FilledInv /\ InBounds /\ PhaseInv
  BY DEF ContextInv, TimelyInv
<1>1. released # NoCall /\ ~BlockAvailable
  BY DEF HandlerEndOfTrack, SomethingReleased
<1>2. ~opened /\ dma = active_buffer_index /\ drv_state = "POWERED_ON"
  BY <1>0, <1>1, TransmittingFacts DEF ControlInv, PhaseInv, HandlerRunning
<1>3. data_size_to_play = 0
  BY <1>0, <1>1 DEF BlockAvailable, InBounds, TypeOK, PlayerTypeOK
<1> QED
  BY <1>2, <1>3 DEF EndInv

-----------------------------------------------------------------------------
(***************************************************************************)
(* Every step of the player is a step of the stream, or no step at all.    *)
(***************************************************************************)

StreamStep == Stream!StreamNext \/ UNCHANGED Stream!streamVars

LEMMA StreamFinishes ==
    ASSUME drv_state' # "POWERED_ON", ~Transmitting'
    PROVE  StreamStep
<1>1. OnTheWire' = Silence /\ Waiting' = NoData /\ SentSinceSilence' = "none"
  BY DEF OnTheWire, Waiting, SentSinceSilence
<1> QED
  BY <1>1 DEF Stream!Finish, Stream!StreamNext, StreamStep

LEMMA StreamStutters ==
    ASSUME OnTheWire' = OnTheWire, Waiting' = Waiting,
           SentSinceSilence' = SentSinceSilence
    PROVE  StreamStep
BY DEF StreamStep, Stream!streamVars

\* The track a play command asks for starts, replaces the chunk on the wire, waits to
\* start, or, when the driver cannot start, is not heard at all.
LEMMA PlayIsRequest ==
    ASSUME ContextInv, ContentInv, Play
    PROVE  StreamStep
<1>0. /\ TypeOK /\ ControlInv /\ FilledInv /\ InBounds /\ PointerAtStart
      /\ active_buffer_index \in Buffers
      /\ active_buffer_index' = active_buffer_index
  BY DEF ContextInv, TimelyInv, ContentInv, Play, TypeOK, PlayerTypeOK
<1>1. CASE ~BlockAvailable
  <2>1. UNCHANGED <<i2s_tx_buffers, drv_state, run, ev_stopped, dma, sending>>
    BY <1>1 DEF Play, cbVars, periphVars, engineVars, eventVars
  <2> QED
    BY <1>0, <2>1, StreamStutters DEF OnTheWire, Waiting, SentSinceSilence, Transmitting
<1>2. CASE BlockAvailable
  <2> DEFINE t == data_to_play_ptr.track
  <2>1. t \in Tracks /\ NextChunk = Stream!First(t) /\ Stream!Playable(t)
    BY <1>0, <1>2, NextChunkIs DEF Play, PointerAtStart, Stream!First, Stream!Playable
  <2>2. NextChunk.off = 0 /\ NextChunk.track = t
    BY <1>0 DEF NextChunk, Play, PointerAtStart
  <2>3. SetNextDataBlock(active_buffer_index) /\ nrfx_i2s_start(active_buffer_index)
    BY <1>2 DEF Play
  <2>4. /\ i2s_tx_buffers'[active_buffer_index] = NextChunk
        /\ \A c \in Buffers : c # active_buffer_index =>
              i2s_tx_buffers'[c] = i2s_tx_buffers[c]
    BY <1>0, <1>2, <2>3, FillsOneBuffer
  <2>5. CASE drv_state = "INITIALIZED" /\ run = "idle" /\ Transmitting'
    <3>1. TaskStart(active_buffer_index)
      BY <2>3, <2>5 DEF nrfx_i2s_start
    <3>2. dma' = active_buffer_index /\ sending' = "first"
      BY <2>5, <3>1 DEF TaskStart
    <3>3. /\ OnTheWire = Silence /\ OnTheWire' = Stream!First(t) /\ Waiting' = NoData
          /\ SentSinceSilence' = "first"
      BY <1>0, <2>1, <2>4, <2>5, <3>2
         DEF OnTheWire, Waiting, SentSinceSilence, Transmitting
    <3>4. Stream!Start(t)
      BY <2>1, <3>3 DEF Stream!Start
    <3> QED
      BY <2>1, <3>4 DEF Stream!StreamNext, StreamStep
  <2>6. CASE drv_state # "INITIALIZED" /\ Transmitting /\ dma = active_buffer_index
    <3>1. UNCHANGED <<run, ev_stopped, dma, sending>>
      BY <2>3, <2>6 DEF nrfx_i2s_start, periphVars, engineVars, eventVars
    <3>2. Filled(dma)
      BY <1>0, <2>6 DEF FilledInv, Transmitting
    <3>3. /\ OnTheWire # Silence /\ OnTheWire' = Stream!First(t)
          /\ Waiting = NoData /\ Waiting' = NoData
          /\ SentSinceSilence' = SentSinceSilence
      BY <1>0, <2>1, <2>4, <2>6, <3>1, <3>2
         DEF OnTheWire, Waiting, SentSinceSilence, Transmitting, Filled
    <3>4. Stream!Overwrite(t)
      BY <2>1, <3>3 DEF Stream!Overwrite
    <3> QED
      BY <2>1, <3>4 DEF Stream!StreamNext, StreamStep
  <2>7. CASE drv_state' = "POWERED_ON"
             /\ ~(drv_state = "INITIALIZED" /\ run = "idle" /\ Transmitting')
             /\ ~(drv_state # "INITIALIZED" /\ Transmitting /\ dma = active_buffer_index)
    <3>1. /\ OnTheWire' = OnTheWire /\ SentSinceSilence' = SentSinceSilence
          /\ ~(Transmitting' /\ dma' = active_buffer_index)
      <4>1. CASE drv_state = "INITIALIZED"
        <5>1. TaskStart(active_buffer_index) /\ ~Transmitting
          BY <1>0, <2>3, <4>1 DEF nrfx_i2s_start, ControlInv, Transmitting
        <5>2. ~Transmitting'
          BY <1>0, <2>7, <4>1, <5>1 DEF TaskStart, ControlInv, Transmitting
        <5> QED
          BY <5>1, <5>2 DEF OnTheWire, SentSinceSilence
      <4>2. CASE drv_state # "INITIALIZED"
        <5>1. UNCHANGED <<run, ev_stopped, dma, sending>>
          BY <2>3, <4>2 DEF nrfx_i2s_start, periphVars, engineVars, eventVars
        <5>2. Transmitting => dma \in Buffers
          BY <1>0, TransmittingFacts
        <5> QED
          BY <2>4, <2>7, <4>2, <5>1, <5>2 DEF OnTheWire, SentSinceSilence, Transmitting
      <4> QED
        BY <4>1, <4>2
    <3>2. Waiting' = t
      BY <1>0, <2>2, <2>4, <2>7, <3>1 DEF Waiting
    <3>3. Stream!Request(t)
      BY <2>1, <3>1, <3>2 DEF Stream!Request
    <3> QED
      BY <2>1, <3>3 DEF Stream!StreamNext, StreamStep
  <2>8. CASE drv_state' # "POWERED_ON"
    <3>1. ~Transmitting'
      BY <1>0, <2>3, <2>8 DEF nrfx_i2s_start, ControlInv, Transmitting, periphVars,
         engineVars, cbVars
    <3> QED
      BY <2>8, <3>1, StreamFinishes
  <2> QED
    BY <2>5, <2>6, <2>7, <2>8
<1> QED
  BY <1>1, <1>2

\* The handler fills a buffer nobody listens to, so nothing is heard of it yet.
LEMMA HandlerIsSilent ==
    ASSUME ContextInv, ContentInv, HandlerNextBlock
    PROVE  StreamStep
<1>0. /\ TypeOK /\ ControlInv /\ FilledInv /\ InBounds /\ PhaseInv
      /\ PointerContinues /\ ChunksWhole
  BY DEF ContextInv, TimelyInv, ContentInv
<1>1. /\ released # NoCall /\ ~opened /\ buffers_needed /\ BlockAvailable
      /\ SetNextDataBlock(NextActive)
  BY <1>0 DEF HandlerNextBlock, SomethingReleased, ControlInv
<1>2. /\ NextActive \in Buffers /\ NextActive # active_buffer_index
      /\ active_buffer_index \in Buffers
  BY <1>0, NextActiveInBuffers DEF TypeOK, PlayerTypeOK
<1>3. /\ active_buffer_index' = NextActive
      /\ UNCHANGED <<run, ev_stopped, dma, sending, drv_state>>
  BY <1>1 DEF HandlerNextBlock, nrfx_i2s_next_buffers_set, NextBuffersAccepted, eventVars
<1>4. /\ i2s_tx_buffers'[NextActive] = NextChunk
      /\ \A c \in Buffers : c # NextActive => i2s_tx_buffers'[c] = i2s_tx_buffers[c]
  BY <1>0, <1>1, <1>2, FillsOneBuffer
<1>5. CASE drv_state # "POWERED_ON"
  <2>1. ~Transmitting'
    BY <1>0, <1>3, <1>5 DEF ControlInv, Transmitting
  <2> QED
    BY <1>3, <1>5, <2>1, StreamFinishes
<1>6. CASE drv_state = "POWERED_ON"
  <2> DEFINE last == i2s_tx_buffers[active_buffer_index]
  <2>1. NextChunk.off = last.off + last.len
    BY <1>0, <1>1, <1>6 DEF PointerContinues, BlockAvailable, NextChunk
  <2>2. last.off \in Nat /\ last.len \in Nat /\ last.len > 0
    BY <1>0, <1>2, <1>6, BuffersAssumption
       DEF FilledInv, Filled, InBounds, TypeOK, PlayerTypeOK, Chunks
  <2>3. NextChunk.off # 0
    BY <2>1, <2>2
  <2>4. CASE Transmitting
    <3>1. dma = active_buffer_index
      BY <1>0, <1>1, <2>4, TransmittingFacts DEF PhaseInv, HandlerRunning
    <3>2. OnTheWire' = OnTheWire /\ SentSinceSilence' = SentSinceSilence
      BY <1>2, <1>3, <1>4, <3>1 DEF OnTheWire, SentSinceSilence, Transmitting
    <3>3. Waiting = NoData /\ Waiting' = NoData
      BY <1>2, <1>3, <1>4, <2>3, <2>4, <3>1 DEF Waiting, Transmitting
    <3> QED
      BY <3>2, <3>3, StreamStutters
  <2>5. CASE ~Transmitting
    <3>1. OnTheWire' = Silence /\ Waiting' = NoData /\ SentSinceSilence' = "none"
      BY <1>3, <1>4, <2>3, <2>5 DEF OnTheWire, Waiting, SentSinceSilence, Transmitting
    <3> QED
      BY <3>1 DEF Stream!Finish, Stream!StreamNext, StreamStep
  <2> QED
    BY <2>4, <2>5
<1> QED
  BY <1>5, <1>6

\* At a block boundary the queued buffer goes on the wire: the next chunk of the
\* same track or the first of the one that waited.  When none is queued, the chunk
\* on the wire is sent again.
LEMMA BoundaryIsNextChunk ==
    ASSUME ContextInv, ContentInv, HwBlockDone, ~HwOutruns
    PROVE  StreamStep
<1>0. /\ TypeOK /\ ControlInv /\ FilledInv /\ PhaseInv /\ InBounds
      /\ ChunksWhole /\ QueuedContinues
      /\ active_buffer_index \in Buffers
  BY DEF ContextInv, TimelyInv, ContentInv, TypeOK, PlayerTypeOK
<1>1. /\ ~ev_tx /\ released = NoCall
      /\ dma' = txd_ptr
      /\ sending' = IF txd_ptr = dma
                      THEN IF sending \in {"first", "second"} THEN "again" ELSE "repeated"
                      ELSE IF sending = "first" THEN "second" ELSE "later"
      /\ UNCHANGED <<i2s_tx_buffers, active_buffer_index, drv_state, run, ev_stopped, txd_ptr>>
  BY DEF HwBlockDone, BlockDone, cbVars, playerVars
<1>2. CASE ~Transmitting
  BY <1>1, <1>2, StreamStutters DEF OnTheWire, Waiting, SentSinceSilence, Transmitting
<1>3. CASE Transmitting
  <2> DEFINE sent == i2s_tx_buffers[dma]
             next == i2s_tx_buffers[txd_ptr]
  <2>1. /\ txd_ptr = active_buffer_index /\ drv_state = "POWERED_ON"
        /\ dma \in Buffers /\ Filled(dma) /\ Filled(txd_ptr)
    BY <1>0, <1>3, TransmittingFacts DEF FilledInv, Transmitting
  <2>2. /\ OnTheWire = sent /\ OnTheWire' = next /\ Waiting' = NoData
        /\ SentSinceSilence = sending /\ SentSinceSilence' = sending'
        /\ sent # Silence
    BY <1>1, <1>3, <2>1 DEF OnTheWire, Waiting, SentSinceSilence, Transmitting, Filled
  <2>3. CASE txd_ptr = dma
    <3>1. sending \in {"first", "second"} /\ sending' = "again"
      BY <1>0, <1>1, <1>3, <2>3 DEF PhaseInv, OneRepetition
    <3>2. Waiting = NoData
      BY <1>3, <2>1, <2>3 DEF Waiting
    <3>3. Stream!Repeat
      BY <2>2, <2>3, <3>1, <3>2 DEF Stream!Repeat
    <3> QED
      BY <3>3 DEF Stream!StreamNext, StreamStep
  <2>4. ASSUME txd_ptr # dma
        PROVE  Stream!Onward
    <3>1. sending # "second"
      BY <1>0, <1>1, <1>3, <2>4 DEF PhaseInv, NothingQueued, OneRepetition
    <3> QED
      BY <1>1, <2>2, <2>4, <3>1 DEF Stream!Onward
  <2>5. CASE txd_ptr # dma /\ next.off = 0
    <3>1. Waiting = next.track
      BY <2>1, <2>5 DEF Waiting
    <3>2. next = Stream!First(next.track)
      BY <1>0, <2>1, <2>5 DEF ChunksWhole, Stream!First
    <3>3. next \in Chunks
      BY <1>0, <2>1 DEF TypeOK, PlayerTypeOK, Filled, DriverTypeOK, PeripheralTypeOK
    <3>4. next.track # NoData
      BY <3>3, NullsAssumption DEF Chunks
    <3>5. Stream!StartPending
      BY <2>2, <2>4, <2>5, <3>1, <3>2, <3>4 DEF Stream!StartPending
    <3> QED
      BY <3>5 DEF Stream!StreamNext, StreamStep
  <2>6. CASE txd_ptr # dma /\ next.off # 0
    <3>1. Waiting = NoData
      BY <2>1, <2>6 DEF Waiting
    <3>2. next.track = sent.track /\ next.off = sent.off + sent.len
      BY <1>0, <1>3, <2>6 DEF QueuedContinues
    <3>3. /\ next.off < DataSize[next.track]
          /\ next = Stream!ChunkAt(next.track, next.off)
      BY <1>0, <2>1 DEF ChunksWhole
    <3>4. Stream!Continue
      BY <2>2, <2>4, <2>6, <3>1, <3>2, <3>3 DEF Stream!Continue
    <3> QED
      BY <3>4 DEF Stream!StreamNext, StreamStep
  <2> QED
    BY <2>3, <2>5, <2>6
<1> QED
  BY <1>2, <1>3

LEMMA EveryStepIsStreamStep ==
    ASSUME ContextInv, ContentInv, [Next]_vars, ~HwOutruns
    PROVE  StreamStep
<1>0. TypeOK /\ ControlInv
  BY DEF ContextInv, TimelyInv
<1>1. ASSUME NEW track \in Tracks, OpenWAV(track)
      PROVE  StreamStep
  <2>1. /\ UNCHANGED <<i2s_tx_buffers, active_buffer_index, run, ev_stopped, dma, sending>>
        /\ drv_state' = "POWERED_ON" <=> drv_state = "POWERED_ON"
    BY <1>1 DEF OpenWAV, nrfx_i2s_init, eventVars
  <2> QED
    BY <2>1, StreamStutters DEF OnTheWire, Waiting, SentSinceSilence, Transmitting
<1>2. CASE Stop \/ HandlerEndOfTrack
  <2>1. drv_state' # "POWERED_ON" /\ ~Transmitting'
    BY <1>2 DEF Stop, HandlerEndOfTrack, nrfx_i2s_stop_and_uninit, TaskStop, Transmitting
  <2> QED
    BY <2>1, StreamFinishes
<1>3. CASE Interrupt
  <2>1. CASE IrqStopped
    <3>1. drv_state' # "POWERED_ON" /\ ~Transmitting'
      BY <2>1 DEF IrqStopped, Transmitting
    <3> QED
      BY <3>1, StreamFinishes
  <2>2. CASE ~IrqStopped
    <3>1. UNCHANGED <<i2s_tx_buffers, active_buffer_index, drv_state, run, ev_stopped, dma, sending>>
      BY <1>3, <2>2 DEF Interrupt, nrfx_i2s_irq_handler, IrqReused, IrqAdvanced, IrqSpurious,
         cbVars, playerVars
    <3> QED
      BY <3>1, StreamStutters DEF OnTheWire, Waiting, SentSinceSilence, Transmitting
  <2> QED
    BY <2>1, <2>2
<1>4. CASE HandlerNothingReleased \/ UNCHANGED vars
  <2>1. UNCHANGED <<i2s_tx_buffers, active_buffer_index, drv_state, run, ev_stopped, dma, sending>>
    BY <1>4 DEF HandlerNothingReleased, vars, drvVars, cbVars, periphVars, engineVars,
       eventVars, playerVars
  <2> QED
    BY <2>1, StreamStutters DEF OnTheWire, Waiting, SentSinceSilence, Transmitting
<1>5. CASE HwSpuriousEvent \/ HwStopDone
  <2>1. /\ UNCHANGED <<i2s_tx_buffers, active_buffer_index, drv_state>>
        /\ ~Transmitting /\ ~Transmitting'
    BY <1>5 DEF HwSpuriousEvent, SpuriousEvent, HwStopDone, StopDone, engineVars, cbVars,
       playerVars, Transmitting
  <2> QED
    BY <2>1, StreamStutters DEF OnTheWire, Waiting, SentSinceSilence
<1> QED
  BY <1>1, <1>2, <1>3, <1>4, <1>5, PlayIsRequest, HandlerIsSilent, BoundaryIsNextChunk
     DEF Next, data_handler

LEMMA ContentInitially == Init => ContextInv /\ ContentInv /\ Stream!StreamInit
<1> SUFFICES ASSUME Init
             PROVE  ContextInv /\ ContentInv /\ Stream!StreamInit
  OBVIOUS
<1>1. /\ run = "idle" /\ drv_state = "UNINITIALIZED" /\ ~opened
      /\ \A b \in Buffers : ~Filled(b)
      /\ data_size_to_play = 0
  BY DEF Init, DriverInit, PeripheralInit, Filled
<1>2. TimelyInv
  BY <1>1, TypeInit, ControlInit, FilledInit DEF TimelyInv, PhaseInv, Transmitting
<1>3. InBounds
  BY <1>1 DEF InBounds
<1>4. ContentInv
  BY <1>1 DEF ContentInv, ChunksWhole, PointerAtStart, PointerContinues,
     QueuedContinues, Transmitting
<1>5. Stream!StreamInit
  BY <1>1 DEF Stream!StreamInit, OnTheWire, Waiting, SentSinceSilence, Transmitting
<1> QED
  BY <1>2, <1>3, <1>4, <1>5 DEF ContextInv

LEMMA ContentAlways ==
    ASSUME ~HwOutruns
    PROVE  ContextInv /\ ContentInv /\ [Next]_vars => (ContextInv /\ ContentInv)'
BY TypeNext, ControlNext, FilledNext, PhaseNext, BoundsNext, ContentNext
   DEF ContextInv, TimelyInv

\* The buffers that are filled, queued, on the wire and handed back, and the
\* chunks in them, stay in step with the pointers of driver and player: the
\* invariant that the timely runs check holds for any tracks and buffers.
THEOREM PlayerInvariant ==
    ASSUME ~HwOutruns
    PROVE  Spec => []InductiveInv
<1>1. ContextInv /\ ContentInv => InductiveInv
  BY DEF ContextInv, TimelyInv, InductiveInv
<1> QED
  BY <1>1, ContentInitially, ContentAlways, PTL DEF Spec

\* The player ends a transfer by itself only with the end of the track on the wire,
\* or when an empty track was asked for meanwhile.
THEOREM EndsWithTheTrack ==
    ASSUME ~HwOutruns
    PROVE  Spec => EndsOnLastChunk
<1>1. Init => EndInv
  BY DEF Init, DriverInit, EndInv
<1>2. /\ ContextInv /\ ContentInv /\ EndInv /\ [Next]_vars => EndInv'
      /\ ContextInv /\ EndInv =>
           [(HandlerEndOfTrack /\ Transmitting) =>
              \/ DataSize[data_to_play_ptr.track] = 0
              \/ i2s_tx_buffers[dma].off + i2s_tx_buffers[dma].len
                    = DataSize[i2s_tx_buffers[dma].track]]_vars
  BY EndNext, EndIsLast
<1> QED
  BY <1>1, <1>2, ContentInitially, ContentAlways, PTL DEF Spec, EndsOnLastChunk

\* What is on the wire is the track asked for, every chunk in order and none left
\* out; one of the first two blocks of a transfer is sent twice and no other; and a
\* chunk that is being sent is only replaced by a play command.
THEOREM PlaysTheStream ==
    ASSUME ~HwOutruns
    PROVE  Spec => ImplementsStream
<1>1. ContextInv /\ ContentInv /\ [Next]_vars => [Stream!StreamNext]_(Stream!streamVars)
  BY EveryStepIsStreamStep DEF StreamStep
<1> QED
  BY <1>1, ContentInitially, ContentAlways, PTL
     DEF Spec, ImplementsStream, Stream!StreamSpec
=============================================================================
