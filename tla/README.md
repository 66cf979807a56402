# A verification project for ble_to_i2s

The program turns an nRF52840 into a small sound player: two WAV files compiled into
the flash are played over I2S when a BLE central writes a command byte or somebody
presses a button. It consists of a few hundred lines of its own on top of the nRF5 SDK,
which is vendored in the repository, and of the SoftDevice, a binary.

This directory holds TLA+ models of the parts where events meet, TLC configurations
that check them on small instances, and proofs, checked by TLAPS, of what holds for
every instance.

## 1. Inventory

What runs is: `main` (initialisation, then sleep), and interrupt handlers. The I2S,
GPIOTE, RTC (app_timer) and SoftDevice event interrupts all have priority 6
(`sdk_config.h`), so **no handler of the program preempts another one**; what does run
concurrently is hardware: the I2S engine, the pins, the RTC, the radio. The hard
behaviour is in the order of the handlers' invocations, and in the state that a call
leaves behind for a hardware event that is still to come.

| Component (source) | State | Operations | Interacts with |
|---|---|---|---|
| I2S driver (`modules/nrfx/drivers/src/nrfx_i2s.c`) | `m_cb`: driver state, `tx_ready`, `buffers_needed`, `buffers_reused`, next and current buffers | init, start, next_buffers_set, stop, uninit, interrupt handler | peripheral (registers, events, interrupt), data handler of the player (callback) |
| Sound player (`modules/sound_player/sound_player.c`) | two buffers, active index, size and pointer of the data left, the format | Init, OpenWAV, Play, Stop, data_handler | driver, WAV library, accelerometer service (Stop notifies) |
| Command handler (`modules/ble_user/ble_handlers.c`) | the track last chosen | play track 1 or 2, stop | player; called by the sound service and by the buttons |
| WAV library (`modules/wav/wav_db.c`) | two headers | Init with validation, lookups | player |
| Button debouncing (`components/libraries/button/app_button.c`) | a state per pin, mask of active pins, one timer | init, enable, disable, port event, poll | GPIOTE, app_timer, `button_event_handler` in `main.c` |
| GPIOTE (`modules/nrfx/drivers/src/nrfx_gpiote.c`) | sense of each pin, handlers | event enable/disable, port event handling | pins, app_button |
| Application timer (`components/libraries/timer/app_timer2.c`, `drv_rtc.c`) | request FIFO, sorted list, active timer, 64-bit base, the RTC's counter, events and compare register | create, start, stop, stop_all, pause, resume, RTC interrupt | app_button, connection parameters |
| BLE application (`modules/ble_user/ble_user.c`) | connection handle, advertising, LEDs | BLE events, negotiation failures | SoftDevice, services, the modules below |
| Sound and accelerometer services (`ble_snd.c`, `ble_acc.c`) | handles | write, data change | SoftDevice, command handler |
| Connection parameters (`ble_conn_params.c`) | per link: ok flag, count, timer | connect, disconnect, update, timeout | SoftDevice, app_timer |
| Connection state (`ble_conn_state.c`) | records and flags | BLE events, queries | |
| Queued writes (`nrf_ble_qwr.c`) | handle, pending memory reply | BLE events | SoftDevice |
| GATT module (`nrf_ble_gatt.c`) | MTU and data length per link, pending exchange | BLE events | SoftDevice |
| SoftDevice handler (`nrf_sdh*.c`) | enabled, suspended, continue | enable, disable, suspend, resume, polling | SoftDevice, observers |

What makes each correct, in one line:

- driver and player: what is heard is the track asked for, its blocks in order and each
  sent once, and no buffer on the wire is written (the code falls short of both, see
  section 4); the driver and the peripheral agree on whether and what is transmitted; an
  ended or stopped track leaves silence and a driver that can start again;
- buttons: one event per debounced press and release, none lost, no button stuck;
- timer: a started timer expires once, not early and not late; a stopped one does not;
- BLE application: advertising or connected, never neither; no error resets the system;
- connection parameters, connection state, queued writes: each negotiation ends, no
  request of the peer is forgotten, and nothing of a link that is gone is applied to the
  next one;
- WAV library: a header is played as what it says, or not at all.

The hazards, each at its line and with the properties aimed at it, are in
`PROJECT.json`.

## 2. Modules

    AudioStream                what a listener can count on           (abstract)
        ^ implemented by
    SoundPlayer                sound_player.c, ble_handlers.c
        | EXTENDS
    I2sDriver                  nrfx_i2s.c
        | EXTENDS
    I2sPeripheral              the hardware and its NVIC line         (external)

    SoundPlayerClaims          what the source says and the code does not do
    MCSoundPlayer              the instance for TLC
    SoundPlayerProofs          TLAPS

    AppButton                  app_button.c with GPIOTE's port events
    MCAppButton, AppButtonProofs

    TimerService               what a timer's user is promised        (abstract)
        ^ implemented by
    AppTimer                   app_timer2.c
        | EXTENDS
    Rtc                        the counter (external) and drv_rtc.c

    MCAppTimer                 the instances for TLC
    AppTimerListProofs, then -Proofs, -ServiceProofs, -DeadlineProofs      TLAPS

    BleApplication             ble_user.c, the polling of nrf_sdh_ble.c; BleApplicationProofs
        | EXTENDS
    ConnParams, ConnState, QueuedWrites     ble_conn_params.c, ble_conn_state.c, nrf_ble_qwr.c
        | EXTENDS
    SoftDevice                 the link and the peer                  (external)

    WavFormat                  wav_db.c, the setters of sound_player.c, nrf_i2s_configure
    WavFormatProofs

### I2sPeripheral

External: no more than the driver and its comments rely on. The pointer register is
double buffered (latched into `dma` at a block boundary, where TXPTRUPD is raised); STOP
takes effect later and raises STOPPED; TXPTRUPD may still come after STOP (anomaly 55,
named at `nrfx_i2s.c:349`). What the source leaves open is a choice: a START on an engine
that is still stopping is lost, or takes effect after STOPPED. The NVIC remembers a
request whose line has dropped; neither `NVIC_EnableIRQ` nor `NVIC_DisableIRQ` clears it.
`sending` records the place of the block on the wire among those sent since silence, and
whether it is being sent again, so that a repetition is a step and not a stutter.

### I2sDriver

One operator per function of the driver, over the variables of `m_cb`. The interrupt
handler has four outcomes (STOPPED, buffers reused, buffers released, nothing), and ends
by putting the argument of its call of the data handler into `released`; the player's
action takes over from there. Abstracted: the receive half (no client passes a receive
buffer), addresses in RAM (all buffers are static), pins. `nrfx_i2s_stop` followed by
`nrfx_i2s_uninit` is one operator, as the player never separates them.

### SoundPlayer

| Action | Code |
|---|---|
| `OpenWAV(track)`, `Play` | the two calls of `snd_play_track`, for a button or a BLE write; results ignored as there |
| `Stop` | the stop command: `SoundPlayer_Stop` |
| `Interrupt` | `nrfx_i2s_irq_handler` up to its call of `data_handler` |
| `HandlerNothingReleased`, `HandlerNextBlock`, `HandlerEndOfTrack` | `data_handler` |
| `HwBlockDone`, `HwSpuriousEvent`, `HwStopDone` | the peripheral |

The peripheral may act between `OpenWAV` and `Play` and between the driver's half of the
interrupt and `data_handler`; commands and interrupts exclude each other (`ThreadLevel`).
A buffer's content is the chunk `[track, off, len]` it was filled from, so overlaps, gaps
and reads outside a track are visible; repetitions are seen in `sending`. `fault` is a
failed APP_ERROR_CHECK.

`AudioStream` is what the code delivers with interrupts in time, with its two flaws stated
as actions. `Repeat`: each time sound starts from silence, one of the first two chunks is
sent a second time (the first when the interrupts come in the usual order, the second when
a command lets the first go on at the first boundary), unless the sound ends before; and no
other chunk ever is. `Overwrite`: a command that comes while nothing is queued replaces the
chunk on the wire in the middle of it. Everything else it excludes: a chunk left out, two
in the wrong order, a track that begins elsewhere than at its first byte or that nobody
asked for, a second repetition.

`HwOutruns` chooses the timing. FALSE: a boundary is always served before the next one
(a block of 32 bytes lasts between 0.17 and 4 ms, an interrupt takes microseconds unless
the radio or a long handler holds it up). TRUE: the peripheral may finish any number of
blocks before an interrupt is served.

The build modelled is one without DEBUG_NRF: assertions are empty. `p_released->p_tx_buffer`
with `p_released = NULL` then reads the vector table at the bottom of the flash, which is
not zero, so the call counts as one that released a buffer.

Not modelled of the player: the notification sent by `SoundPlayer_Stop` (state of the
SoftDevice only) and the intermediate values of `config` when a setter refuses (every
later open sets all fields again before the driver reads any).

### AppButton

| Action | Code |
|---|---|
| `LevelChange(pin)` | the environment: a press, a release or a bounce |
| `PortEvent(pin)` | one pin of `port_event_handle` and the `gpiote_event_handler` it calls |
| `Timeout` | `detection_delay_timeout_handler`: `evt_handle` for every button, restart of the timer |
| `Enable`, `Disable` | `app_button_enable`, `app_button_disable` |

`sense` and `latch` are the pin's SENSE field and LATCH bit; a LATCH bit cannot be cleared
while the level is the sensed one. `app_timer_start` is used by its promise: it succeeds,
and does nothing while the timer runs. Three history variables record whether buttons
are enabled, the last event reported and the last two samples; a fourth, `disabled`, whether
`app_button_disable` was ever called, which `main.c` never does. A button that is not idle
when the buttons are disabled keeps its state and is not polled again; `PolledUntilIdle`,
`HeldIsReported` and `ReleaseIsReported` are about buttons that are never disabled. A button that is held while
`app_button_enable` is called is sensed for its release only, so it is noticed when it is
pressed the next time: `HeldIsReported` is about buttons seen released after enabling.

### Rtc and AppTimer

| Action | Code |
|---|---|
| `Tick` | the low-frequency clock: `COUNTER`, its overflow and its two compare events |
| `app_timer_start`, `app_timer_stop`, `app_timer_stop_all`, `Pause`, `Resume` | the calls of the same names, between two runs of `rtc_irq` or from a timer's handler |
| `on_overflow_evt`, `on_compare_evt`, `on_compare1_evt` | the three events of `rtc_irq` |
| `ReqStart`, `ReqStop`, `ReqStopAll`, `ReqDone` | `timer_req_process`, one request each |
| `UpdateDrop`, `UpdateKeep`, `UpdateEmpty`, `UpdateActivate` | one pass of the loop of `rtc_update`, with `rtc_schedule` down to the driver |
| `Window`, `Write`, `Check` | `drv_rtc_windowed_compare_set`, cut where the counter may go on |
| `HandlerReturn` | the rest of `timer_expire`, after the handler |

The interrupt handler is cut wherever it looks at the counter again, as the counter is
what runs concurrently. Both warnings of the driver's comments are in the model: a compare
value written one tick ahead may be missed (`near`), and one that is overwritten in the
tick before its match may still raise the event in the next tick (`stale`). The driver
waits for that event and clears it where it replaces the value of the call before
(`drv_rtc.c:223-232`), not where it replaces its own (251 and 263), nor when the counter
goes on between its reading and the write after it (223 and 225). The event then comes a tick before the match
of the value in the register, and `early` marks it. An API call is one step: callers have the priority
of the RTC interrupt or less, so nothing of it is interrupted by the handler that matters
(with `end_val` set and the request not yet queued, the interrupt finds neither). The
FIFO and the linked list are sequences; an item that is linked twice, which would close
a loop, is an element that occurs twice. `busy` bounds how late an interrupt is served and
how long it takes (`Latency`, in ticks of 61 microseconds).

`TimerService` has no queue, list or counter: only due times. `AppTimer` maps its end
values to them (`Due`: a repeated timer in its handler is due a period after its end
value, which is changed when the handler has returned), and allows two latencies.

### SoftDevice, ConnParams, ConnState, QueuedWrites, BleApplication

| Action | Code |
|---|---|
| `Connect`, `Disconnect`, `UpdateParams`, `PeerAsks` | the radio and the peer, at a higher priority than any handler: each queues an event |
| `Poll` | `sd_ble_evt_get` in `nrf_sdh_ble_evts_poll` |
| `ObserveConnState`, `ObserveConnParams`, `ObserveQwr` | the observers before the application, one step each |
| `OnConnected`, `OnDisconnected`, `OnGattTimeout`, `OnPeerRequest`, `OnOther` | `ble_evt_handler` of `ble_user.c` |
| `TimeoutAsksAgain`, `TimeoutGivesUp` | `update_timeout_handler`, with `on_conn_params_evt` |
| `Restart` | the reset that `APP_ERROR_CHECK` leads to |

`SoftDevice` is external: a call returns one of the results that the S140 headers list for
the state of the link (`INVALID_CONN_HANDLE` once it is gone, `INVALID_STATE` while it is
closing, `BUSY`). `BUSY` stands for `NRF_ERROR_TIMEOUT` of the authorize reply, too, which
the program treats alike; a lack of memory is left out. There is one link (`NRF_SDH_BLE_PERIPHERAL_LINK_COUNT` is 1), whose
handle is used again by the next one; a handle variable is therefore whether it is the
link's or `BLE_CONN_HANDLE_INVALID`. Parameters are acceptable or not. `err_code` is
unassigned in the `DISCONNECTED` case of `ble_user.c:307`, so the check there passes or
resets, as the compiler has it. The timer is the one `TimerService` describes, with an
unknown delay. The observers of the GATT module and of the sound service change nothing
that is modelled: this build keeps the default MTU and data length, so `nrf_ble_gatt.c`
starts no exchange and has nobody to tell, and `ble_snd.c` passes a written byte to the
command handler, whose commands come in any order in `SoundPlayer`.

### WavFormat

From arbitrary headers to the registers: `WAV_Init` (whose result `main` ignores), the
three setters in their order on the one static configuration, `nrfx_i2s_init` with the
restrictions of `nrf_i2s_configure`. `FrameRate` computes what is heard from the divisor
and the ratio.

## 3. Runs

| Run | Checks | Instance |
|---|---|---|
| `player_timely` | agreement of the buffers, the inductive invariant of the proofs, `EndsOnLastChunk`, refinement of `AudioStream`; interrupts in time | 2 buffers, 4 tracks, ~459 000 states |
| `player_outrun` | types and the invariants that do not need timing (so they hold in time, too), `QuietInTheEnd`; interrupts arbitrarily late | the same library, ~660 000 states |
| `buttons` | types, events follow the debounced state, debouncing, with `Disable`; until then polled until idle, held and released are reported | 2 buttons, ~127 000 states |
| `timer_service` | time stamps, how late a match is served (`MatchInWindow`), no timer lost or listed twice, the order of the list, refinement of `TimerService` | a single-shot timer that restarts itself and a repeated one, period 12, ~3.9 million states |
| `timer_full` | the same invariants and the end of the interrupt, with `stop_all`, `pause`, `resume` and handlers that start and stop any timer | 2 timers, period 8, ~3.5 million states |
| `link` | agreement of the modules, reachability, the negotiation timer, memory requests, resets, the end of negotiations | one link after the other, 2 waiting events, 3 attempts, ~177 000 states |
| `wav` | a track is played in its own format; the three checks of a header agree | 2 tracks with arbitrary headers, 7 rates, ~184 000 states |
| `wrong_format`, `stale_stop`, `early_match`, `timer_twice`, `wav_rate` | each a statement of a comment, an assertion or a header of the repository that the code violates | |

**Bounds.** Player and buttons: nothing is bounded artificially, the state spaces are
finite. The tracks of `MCSoundPlayer` have, in units of a 2-byte block, three and a half
blocks, two blocks, none, and a format the player refuses; the longest one is long enough
for the two buffers to go round twice, the only structure longer tracks could repeat. Two
formats suffice for "another format than the one configured". The code has two buffers;
the proofs are for any number. Two buttons, one active low and one active high, suffice
for "this button and some other one", which is all that the shared timer and mask can
tell apart.

Timer: `CounterMod` (2^24 in the code) is 12 or 8, `SafeWindow` (300 s of 1024 s) 5 or 3,
`MaxTicks` 18 or 9: so that the counter overflows with timers running. The delays are 5
and 8, or 3 and 6; the longer one is beyond `CounterMod - SafeWindow` and needs a partial
timeout. Two timers suffice for one to preempt the other and to be preempted, and they are
what the program has: `m_detection_delay_timer_id` of `app_button.c` and `m_timer_data` of
`ble_conn_params.c` (of the modules in the repository that create others none is compiled
in). Both are single-shot; the runs make one of them repeated, to have that half of
`timer_expire`, too. `QueueSize` bounds the requests outstanding at 2. `Latency` is 1 or 2
ticks, and every delay is longer than two latencies (`HandledBeforeDue`): this is what the
timer module takes for granted where it assumes that requests are handled before the
timers they start are due. The shortest delay of the program is that of the buttons, 25 ms or 409 ticks, and its
handlers take microseconds. `timer_twice` shows what happens without it.

Link: `MaxEvents` bounds the peer's events that wait, not connections, disconnections or
the answers that fairness is about; `max_conn_params_update_count` is the 3 of
`ble_user.c`. `BusyCalls` has every call but the parameter update: for that one the model
takes the comment at `ble_conn_params.c:194` as given, that busy means another request is
pending.

**Fairness.** A handler that was entered returns (`Play`, `data_handler`, the interrupt
`rtc_irq`), an interrupt that is requested and enabled is taken (`Interrupt`, `PortEvent`,
`Timeout`, `rtc_irq`, `Dispatch`), and the engine keeps transmitting and finishes stopping
(`HwBlockDone`, `HwStopDone`). These are properties of the processor and the peripheral.
For the link, also: the peer answers a parameter update or the link is lost, which the
supervision timeout and the response timeout of the protocol enforce, and a link that is
being ended goes down. The timer of the negotiation and the peer's answer have strong
fairness, as other events only delay them. No fairness is assumed of commands, buttons,
connections, requests or spurious events; `main` calls `app_button_enable` (`Enable`).
`QuietInTheEnd` assumes that tracks stop being opened, and `HeldIsReported` and
`ReleaseIsReported` that a level stays and the buttons are not disabled, in the formula.

## 4. What the runs show

Holding: with interrupts in time the player refines `AudioStream`, whatever commands
come, including a track opened in the middle of another one, a stop and a play in a row
and a refused format. With interrupts arbitrarily late `ReleasedNotInUse`,
`DoubleBuffering`, `EndsOnLastChunk` and the refinement are false (the sound tears),
while bounds, control and termination still hold. With interrupts less late than the
shortest timeout every timer expires as promised, whatever the order of starts, stops and
expiries. The link's modules agree after every event, and the device stays reachable,
though resets are part of how it does: calls on a link that has just gone fail and reset
the system, and so may any disconnection (`ble_user.c:307`). While the link is up there is
one cause of a reset only, an answer that the stack was too busy for; every other call that
is refused is refused because its link is gone or closing (`ResetsOnlyWithoutLink`).

Violated, with a counterexample each (`findings` in `PROJECT.json`):

1. `wrong_format`: a track opened during another one is sent in the other's format.
2. `stale_stop`: the STOPPED of the previous transfer cuts off the one just started.
3. `early_match`: `drv_rtc.c:263` overwrites the compare value of line 251, which is one tick
   ahead, without waiting for its event. The active timer is then served while the counter
   is one tick before the register, and the assertion of `on_compare_evt` sees a difference
   of -1, masked, which no safe window admits. No timer is harmed: it is due at that tick
   (`ImplementsService` holds), and in a build without assertions nothing shows.
4. `timer_twice`: a timer stopped, started again and expired before these requests are
   handled, and started once more by its handler, is linked into the list twice.
5. `wav_rate`: tracks of 44100 and 48000 Hz are played at about a third of their rate.

Observed in the same way, and without a run of their own; the definitions are in
`SoundPlayerClaims`, `AppButton`, `AppTimer` and `BleApplication`, and each is found
violated when it is given as the only property of a configuration:

- `NeverToldOfReuse`: the first call of `data_handler` supplies no buffer
  (`sound_player.c:267`), so one of the first two blocks of every transfer is sent twice,
  which `nrfx_i2s.h:142-148` calls data corruption, and a later call gets
  `p_released = NULL`: `ASSERT(p_released)` fails.
- `WireNotOverwritten`: `SoundPlayer_Play` copies into the active buffer without asking
  whether it is on the wire (`sound_player.c:91`), so a play command in mid-track can
  replace the block being sent; by `nrfx_i2s.h:136-141` only released buffers may be used.
- `BusyIsRetried`: where the headers of the SoftDevice say "The stack is busy, process
  pending events and retry" (`ble_gatts.h:697`, `ble_gap.h:2232`), `nrf_ble_qwr.c:184` does
  so for the memory reply only; any other answer resets the system with the link up.
- `FirstCallHasNoBuffers`: `buffers_reused` survives into the next transfer. `NeverStoppedTwice`: a stop command with nothing playing stops an
  uninitialised driver. `StoppedIsHandled`: the interrupt is disabled together with the
  stop, so STOPPED is never handled and the peripheral stays enabled.
- `TimerStopsWhenIdle`: a press shorter than two polls leaves the button timer running for
  good. `DisabledIsQuiet`: a pending port event enables a disabled button again.
- `SortedOut`, with three timers: a preempted timer that was stopped and started again is
  put back into the list at a place that later insertions rely on, so a timer may come
  late. With two, as in the program, the list stays sorted (`TwoTimersSorted`).
- With `MayOverflow`, a refused start leaves a timer that is neither idle nor running, so
  that it can never be started again (`NeverForgotten`).
- `app_timer_stop_all` does not stop the active timer, and a timer that expires before its
  request is handled is neither called nor put back: `NeverForgotten` and the refinement
  are for programs that, like this one, do not call it.
- With `conn_param_update` among `BusyCalls`, `NegotiationEnds` fails: a refused request
  leaves no timer. The timer that runs when good parameters arrive is not stopped, so the
  peer is asked once more. `on_conn_params_evt` calls itself what `disconnect_on_fail`
  does, but resets the system where that tolerates a link which is closing already.
- `main` ignores the result of `WAV_Init`, so headers it rejects are still played.
  `ValidWavData` accepts rates that the player rejects, rejects the 24 bits that the
  player supports, and never looks at `DataSize`.

## 5. Proofs

`SoundPlayerProofs`, `AppButtonProofs`, `AppTimerProofs`, `AppTimerListProofs`,
`AppTimerServiceProofs`, `AppTimerDeadlineProofs`, `BleApplicationProofs` and
`WavFormatProofs` are checked by TLAPS for every number of buffers (at least two), block
size, library of tracks, set of formats and set of buttons, every period of the counter,
set of timers and delays, every number of waiting events and attempts, and every set of
headers. The assumptions are the named ASSUMEs of the modules: what the constants are,
that NULL pointers are not buffers, "no track" is not a track and "nothing" is not an
event. One of them is about timing: `LatencyAssumption` has an interrupt served and
finished within a quarter of the counter's period (256 s of 1024 s in the code) and half
of the safe window. A theorem that needs more says so in its ASSUME.

*Whatever the timing.* `TypeCorrect`; then `ControlInv`, inductive on its own, which ties
the driver's state to the engine's, to the interrupt masks and to the handler in
progress. It is needed because none of the goals is inductive: `NoReset` rests on
"a handler in progress implies that buffers are needed", `NoOrphanTransfer` on "the
engine runs or will restart only while the driver is powered on", `NoStaleDriverState`
on "powered on and idle means STOPPED is pending". With `FilledInv` (what the peripheral
points at has been filled) and the bounds they give `NeverResets`, `NeverOrphaned`,
`DriverStateNotStale`, `CopiesInBounds`.

*With interrupts in time* (`ASSUME ~HwOutruns`). `PhaseInv` describes the phases of a
block: a boundary pending, nothing queued, the handler running, the next buffer queued;
it gives `BuffersAgree` (`DoubleBuffering`) and `NeverTears` (`ReleasedNotInUse`).
`OneRepetition`, a part of it, says which block since silence is on the wire in each phase,
and so that the boundary at which a block is sent again comes once. `ContentInv` adds what
the buffers hold relative to the tracks; every step then maps to a step of `AudioStream` or
to a stutter (`PlaysTheStream`), by one lemma per action. A block boundary always maps to a
step, `Repeat` when the same buffer is sent again.
`PlayerInvariant` is the conjunction of all of these, the `InductiveInv` that TLC checks.
`EndsWithTheTrack` (`EndsOnLastChunk`) adds `EndInv`: with nothing left to copy, the newest
buffer is the last chunk. It says that the player stops by itself only while that chunk is
on the wire, or when an empty track was opened meanwhile; the chunk has just begun then,
and what of it is still heard is up to the peripheral.

*Buttons.* `TypeCorrect`, `TellsWhatIs`, and `NeverStuck`, from the
invariant that, until the buttons are disabled, every pin that is not idle is in `m_pin_active` and the timer runs while
that is not empty. `Debounces` rests on `SampleInv`: a pin found pressed (released) was
so at the last poll, so the poll that reports the event is the second to see it.

*Timer.* Four modules: lists, then types and time, then the service, then the deadline.
`TimerTypes` needs no assumption but those on the constants.

`ClockCorrect`: a time stamp is the time. It is computed from a counter that wraps, and a
base that an interrupt adds to later, so the proof is about which half of the period the
last stamp was taken in. `ClockInv` says that base, pending overflow and counter make up
the time; that an overflow is served before the counter is far into the period, and
compare 1 (in the middle of it) before it is far into the second half; and that the stamp
this leaves is never older than the second half of the period before. A pending overflow
is therefore exactly when base and counter lie before the stamp.

`MatchesServedInWindow` (`MatchInWindow`): a match of the value in the compare register is
served within the safe window after it. The assertion of `on_compare_evt` itself is not a
theorem, as `early_match` refutes it; this says that nothing fails it but the event of a
value that was overwritten. `WindowInv` gives how old a match may be where it is looked at,
in terms of `busy`, and that none is pending while the value is being written.

`RunningNeverForgotten` (`ASSUME ~FullAPI, ~MayOverflow`): a timer that runs is somewhere,
or its start is. `NeverForgotten` is not inductive, because a stop may wait behind the
start that it names and because a handler may start its own timer. `ListInv` therefore
looks at the *last* request for a timer: it is its start, or no request for it waits and
it is in its place. Two more parts are about the moments when the active timer is about
to be overwritten (it is back in the list, or stopped, or started again) and when a
single-shot timer's handler runs. It rests on lemmas about the sorted list (what
`nrf_sortlist_add` and `nrf_sortlist_remove` keep); that the place looked for exists
(`HasLeast`) is proved by counting, for want of induction.

`TimersListedOnce` (`ASSUME ~MayOverflow, HandledBeforeDue`; with the full API): no timer
is linked twice. `OnceInv` says that the requests for one timer alternate between start
and stop, beginning with the one that its place asks for; so a start never finds its timer
in a place. That fails only where a timer expires, and becomes idle, with its requests
still waiting, which is how `timer_twice` violates it. `RequestInv` excludes that: a
request that waits is handled within `Remaining` ticks, and what it starts is due later.
`EndsInv` keeps every end value, also one that a period will be added to, away from the
one that means idle.

`TimersExpireOnce`: `TimerService` without its deadline (`LateSpec`) for any number of
timers, step by step: every call of a handler is an `Expire` of a timer that is due, and
nothing else changes when a timer is due. This needs `HandlersLeaveOwn`: a repeated timer
that its own handler stops and starts again gets its period added to the new timeout, and
is late by it. The program has no repeated timer.

`TimersServedInTime` adds the deadline: a timer expires less than two latencies after it
is due. A compare register holds a value of a counter that wraps, so `TimedInv` speaks of
*the tick that it was set for*, of all those with its value: `CountInv` makes the counter
the time modulo its period, `Armed` and `AimedAt` say which tick that is, while the value
is in the register and while it is being written, and that it is no later than the end of
any timer that waits, or by one tick (the driver may have to write a later value than
asked, hence `Latency > 0`). That it is no later than the end of *any* timer is true if the
first of the list is the first to end (`CandidateFirst`). For three timers this is an
assumption about the behaviour, and not an empty one: the code can violate it (section 4).
For two it is proved: `PairInv`, in which nothing changes the end of a timer in the list
while the other is there too, gives `CandidateFirst`, and so `TwoTimersServed`, the
refinement without reservation, for every delay, period and latency that
`HandledBeforeDue` allows; and `TwoTimersSorted`.

*WAV.* `WavTypes`; `ValidTaken`; and `OpenedAsAsked`, for any number of tracks with any
headers and any history of opens that failed, if `Rates` has neither 44100 nor 48000. Both
are excluded because they are the ones of the finding: `wav_rate` shows them violate it.

*Link.* `AppInv` relates five modules that learn of the same event one after the other.
`QueueInv`: a link begins with CONNECTED, ends with DISCONNECTED, and the next one cannot
begin before that was passed on. `HandlesInv`: which handles are set, by how far the event
being passed on has come; without it nothing could be said between two observers.
`MemoryInv`, `AttemptsInv` and `ResetInv` do the same for a memory request, the attempts
and the resets; `RequestsInv` has a request of the peer open as long as its event waits, so
that a reply on a link that is up is only refused by a busy stack. From it follow the seven invariants that the run checks, and
`GivesUpAfterAll`, which needs at least one attempt to be configured (with none, the first
timeout gives up, whatever the parameters).

*Only model-checked*: the liveness properties (`QuietInTheEnd`, `HeldIsReported`,
`ReleaseIsReported`, `IrqReturns`, `NegotiationEnds`), which TLAPS cannot prove. Every
other property of a passing run is a theorem.

## 6. Not modelled

- *GATT module, accelerometer and sound services*: see above; no state of theirs can
  matter in this build.
- *SoftDevice handler*: the program enables the SoftDevice once and never disables,
  suspends or resumes it, so that half of `nrf_sdh.c` never runs. Its polling of events is
  `Poll` and `Turn`.
- *Boot*: every initialisation comes before anything that could use it is live; its end
  is the initial state of the models.
- *I2S driver*: the receive half and stop without uninit, which no client uses.
- *Connection parameters*: the start on a CCCD write, `disconnect_on_fail`, stop and
  change. *Connection state*: queries by role and user flags. Nothing calls them.
- *WAV library*: names and lookups by name; `WAV_GetSoundByIndex` is called with the two
  valid indices only.
- *Atomic FIFO*: its lock-free halves; its users do not preempt each other here.
- Logging, power management, LEDs and board support are output. The SoftDevice is a
  binary. The rest of the SDK in the repository is not compiled in or not called, and the
  two sounds are data.
