# Verification of the tigit firmware

The system is an nRF52 application under FreeRTOS (`src/Projects/tigit`) that uses an
ATWINC1500 Wi-Fi chip over SPI. The chip's host driver
(`src/xdk-asf-3.35.1/common/components/wifi/winc1500`, here `W/`) was ported to the nRF52
(`nm_bsp_nrf52.c`, `nm_bus_wrapper_nrf52.c`). The rest of the repository is vendored: the nRF5 SDK
with FreeRTOS, SystemView, and Nordic's example project.

## 1. Inventory

| Part | Code | State | Operations | What makes it correct |
|---|---|---|---|---|
| Host interface, receive | `W/driver/source/m2m_hif.c`, `W/bsp/source/nm_bsp_nrf52.c` | `gstrHifCxt` (u8Interrupt, u8HifRXDone, u32RxAddr), GPIOTE event, `m_winc_int_semaphore` | interrupt handler, `hif_handle_isr`, `hif_isr`, `hif_receive`, `hif_set_rx_done` | no message skipped, none dispatched twice unless a write for it is lost, buffer stable while it is read |
| Host interface, transmit and power | `m2m_hif.c`, `nmasic.c` | u8ChipSleep, u8ChipMode, wake bits of the chip, its buffer protocol (NMI_STATE_REG, CTRL_2/3/4) | `hif_send`, `hif_chip_wake`, `hif_chip_sleep`, `chip_wake`, `chip_sleep` | chip awake while used, count balanced, success means delivered unless a register write is lost |
| Sockets | `W/socket/source/socket.c` | `gastrSockets`, session counter, next-slot counters | socket, bind, listen, connect, send, recv, close, `m2m_ip_cb` | a reply reaches the connection it is about, or nobody |
| Clock | `Projects/tigit/app_rtc.c`, `wifi_cb` | `unix_time`, `m_rtc_semaphore` | RTC interrupt, RTC task, time answer | the clock does not run away |
| Wi-Fi application | `Projects/tigit/app_wifi.c` | `gbConnectedWifi`, the task | start-up, `wifi_cb`, `resolve_cb`, `wifi_turn_off` | the chain connect, DHCP, DNS, time goes on and restarts; shutdown leaves everything off |
| Wi-Fi manager API | `m2m_wifi.c` | callbacks, scan flag | one request each, `m2m_wifi_cb`, init, deinit | init undoes what it did on each error exit |
| Chip boot | `nmasic.c`, `nmdrv.c` | chip registers, pins | `wait_for_bootrom`, `wait_for_firmware_start`, `nm_drv_init` | the firmware starts with its configuration; a failed start leaves no transfer behind |
| SPI protocol | `nmspi.c` | CRC mode | register and block access with retries, `nm_spi_init` | success means that the chip has the block or gave the value; both sides agree on the CRCs |
| Bus | `nmbus.c`, bus wrapper | SPI driver | blocks in tiles of 248 bytes, `nm_bus_init`, `nm_bus_deinit` | no transfer without an initialised driver |
| Buttons, LEDs, start | `main.c` | task handles | `button_task_function` calls `wifi_req_curr_rssi`, `wifi_turn_off` | - |
| SPI flash, OTA, TLS, crypto, test mode, peripherals, I2C, UART | `W/` | | not called, or compiled out | - |
| FreeRTOS, nRF5 SDK drivers, logging, SystemView | vendored | | | - |

**How they interact.** The chip pulls its IRQ line low; the GPIOTE handler counts the edge in
`u8Interrupt` and gives the semaphore; the Wi-Fi task takes it, calls `m2m_wifi_handle_events`, which
runs `hif_isr`, which runs the callback of the message's group (`m2m_wifi_cb`, `m2m_ip_cb`), which
reads the payload with `hif_receive` and calls the application's callback (`wifi_cb`, `socket_cb`,
`resolve_cb`), which may call the socket and Wi-Fi functions again: `hif_send` runs inside the
callback, while the message is held. The button task calls the same functions from outside, and the
RTC task shares `unix_time` with `wifi_cb`.

**What is hard.** Every register access is a separate bus transfer that may fail, or be lost without
notice; the interrupt comes
between any two of them. No lock protects the driver, the bus or `unix_time`. The firmware answers
late, or after the host gave up. Slots and buffers are used again while old answers are under way.
`PROJECT.json` lists these hazards at their lines with the properties that cover them.

**Scheduling.** `configUSE_PREEMPTION` is 1, `configUSE_TIME_SLICING` 0
(`Projects/tigit/config/FreeRTOSConfig.h`), and all tasks have priority 2. In the FreeRTOS source a
tick that ends a `vTaskDelay` switches to the woken task when its priority is at least the running
one's (`xTaskIncrementTick`), a semaphore given from an interrupt only when it is higher
(`xTaskRemoveFromEventList`). So the Wi-Fi task can be preempted anywhere by the button task, whose
delay ended, and both give the processor up in the driver's own delays (`nm_bsp_sleep` is
`vTaskDelay`). `nrf_drv_spi` is used without a handler: its transfers block by spinning and exclude
nobody. `HifSend`, `RtcClock` and `Station` allow just these interleavings or more.

## 2. Modules

**`RxChannel`** states what the receive path promises: the chip posts a message, the host dispatches
it once, in order, and only then acknowledges it. It may dispatch a message again, before it acknowledges
it, only when a register write for this message was lost.

**`HifRx`** is the receive path. One action per bus transfer: `ReadCtrl0`, `ClearRxInterrupt`,
`ReadAddress`, `ReadHeader` are `hif_isr` in its order; `ReceivePart`/`ReceiveLast`/`CallbackReturn`
are any callback (some reads, with or without the final one that sets RX done); `ReadForRxDone` and
`WriteRxDone` are `hif_set_rx_done`; `u8Interrupt--` is a load and a store with the 8-bit width of the
variable. Every read has a failing branch that goes where the code's error exit goes, with the
interrupt enabled or not as that exit leaves it. A write of CTRL_0 (`WriteCtrl0`) takes effect or is lost, and the
driver goes on alike: with bit 0 still set after a lost clear, which a retry takes for a new message,
or with the chip still waiting after a lost RX done. Messages are numbers, `rxMsg` stands for the
address of a message's buffer. The histories `handled` and `repeats` say which callbacks were entered,
for the first time and again, and `lost` that a write for the posted message was lost. `StepsLeft`
counts the steps that a waiting message is away from its RX done. `interrupt_ctrl` forgets a captured edge,
as `nrf_drv_gpiote_in_event_enable` does.

**`HifSend`** is the transmit path of each of `Tasks`. `running` is the task with the processor,
`SwitchTo` the scheduler described above. `wakeBits` are the two bits `chip_wake` sets and
`chip_sleep` clears; `stateReg`, `allocReq`, `ctrl4`, `owner`, `content` are the firmware's side of the
buffer protocol: a request is answered with a buffer for the header that NMI_STATE_REG holds then. A
send is identified by its task and its number, and `result` records whether the buffer a successful
send submitted was its own and held its own header and data. The receive path appears as the holding
and releasing of a message. External assumptions: the firmware sleeps only in power save when neither
wake bit is set and no message of its own waits for RX done; it allocates only while awake; it may set
and clear bit 0 of CORT_HOST_COMM (`hold`), for which `chip_sleep` waits in a `while(1)` (`WaitForChip`),
at any time. A poll expires when the chip sleeps (it will not answer) or, as one of `MaxFaults`, when it is
late. The same fault budget holds the failed reads, the failed block writes, which may have been stored,
and the register writes that are lost without notice: a wake bit that is not set or not cleared,
NMI_STATE_REG, CTRL_2 (the poll then sees bit 1 clear at once and takes the address of an earlier send),
CTRL_3, RX done. `SetWakeBit`/`ClearWakeBit` join the read and the
write of each register, which no other code writes in between except the other task's wake or sleep.
Three history variables: `lost` names the writes the task's last send has lost, `taken` lists the packets
the firmware took (`FirmwareTakes`), `overlapped` remembers that a task entered the driver (a send, a
message, the sleep mode) with another `Inside`.

**`TxChannel`** states what `hif_send` promises: one packet at a time is passed on, whole, at most once and
during its call, and no success is reported without that unless a register write of the call was lost. It
promises this until calls overlap, since the driver has no lock. `HifSend!Tx` maps the code's state to it: the packet under way is that of the
sending task, `sent` what it is going to return.

**`SocketLayer`** is one kind of socket (the TCP or the UDP slots: the code treats them alike, in two
ranges of one array). `requests` holds what the firmware may still answer, each with the session ID it
was sent with and, as history, the connection (`inc`) it was made for; replies come in any order.
`event` is the application callback the last step made, with the connection the reply is about and the
connection that has the slot. A received message is read in chunks; between two chunks the application
runs in its callback and may call anything. `faults` bounds the requests and replies lost on the bus:
a `hif_send` of a call fails (`SOCKET_REQUEST`), or a `hif_receive` of a reply (`ReplyLost`) or of a
chunk (`ReadChunk`). The layer runs in one task (the Wi-Fi task; the button task
calls no socket function).

**`RtcClock`** is the application's clock: seconds, answers from the chip up to `Latency` old, and the RTC
task's test, print, load, store, one step each. `wifi_cb` gives `mktime` an uninitialised `tm_isdst`, so
that an answer may be taken for summer time and stored an hour behind. True time `now` is a history variable.

**`Bus`** states what the drivers may expect of one register or block access: a read that succeeds gives
a value of the chip, a block write that succeeds is stored and one that fails may be, a register write
always succeeds and may be lost, and nothing else is touched.

**`Spi`** is the protocol that has to keep this promise. One action per phase: `Command` (`spi_cmd` and
`spi_cmd_rsp`), `ReadData`, `WriteData`, `DataResponse`, `WriteReg`, and `ResetAndRetry` for the `_FAIL_`
part. `mem` and `open` are the chip's side; `Missed` is a frame or an answer that gets lost, at no cost
when the two sides use different CRC settings. `stage` is the place in `nm_spi_init`, whose calls are the
same calls, so that a lost write of the CRC setting shows in all later ones. `stale` records that the
chip is still in a transaction whose call gave up; `Bus` promises nothing then. `PhasesLeft` counts the
phases a call may still go through, in this attempt and in those left. Bytes are lost and not
altered, and one call runs at a time: what the chip makes of two interleaved transfers is not in the
repository.

**`Station`** is the program as a whole, one action per driver function: the Wi-Fi task from `nm_bsp_init`
to its loop, `Callback` (the chain of `wifi_cb` and `resolve_cb`), the button task with
`wifi_req_curr_rssi` and the calls of `wifi_turn_off` one by one, the chip and the access point. A
register write is lost without notice (`Written`), a read or a send fails (`Fails`). A read that fails in
`wait_for_bootrom` leaves the wait with an uninitialised value, perhaps the one it waits for, and a chip id
that could not be read, neither by the log of `nm_drv_init` nor here, is 0 and gives the configuration
without the PMU bit (`conf`). `tripped` is set by
the assertions of the SPI and GPIOTE drivers, which stop the program: the project is built with
`DEBUG_NRF`. `hif_send` is one step here (`Send`), and so is the serving of a message: `HifSend` and
`HifRx` look inside. `early` and `off` record that a button was pressed before the interrupt was wired, or
that the program was turned off.

**How the modules fit.** `Spi` implements `Bus`; `HifRx`, `HifSend` and `Station` take its accesses as
atomic and as failing just as `Bus` allows: a read may fail, a block write may fail and have been stored or
not, and a register write always returns success and may be lost (`nmspi.c:331`). So the error branches that
`m2m_hif.c` and `nmasic.c` have for a failed `nm_write_reg` are never taken, and no action has them.

**`HifRx_proofs`**, **`SocketLayer_proofs`**, **`RtcClock_proofs`**, **`HifSend_proofs`**, **`Spi_proofs`**,
**`Station_proofs`** hold the theorems.

## 3. Runs

| Run | Checks | Result |
|---|---|---|
| `HifRxFaults` | `TypeOK`, `BufferHeld`, `NoLostWakeup`, `EdgePerMessage` (each edge counted once), refinement `RefinesChannel`, whatever reads fail and whatever writes are lost; `ServiceAdvances` (each step brings a waiting message nearer to RX done) up to the first failure; `ServesMessages` (every message acknowledged) without one | holds |
| `HifRxRecovery` | `Recovers` | **violated** |
| `HifSendOne` | one task: `TypeOK`, `AccessIsCovered`, `CountIsOfSenders`, `SuccessIsDelivery`, refinement `RefinesTx`, with failed and lost transfers and late answers; `SendsAreDelivered` without one | holds |
| `HifSendTwo` | two tasks, one fault of any kind and one message: `SafeUntilOverlap` (the three invariants of `HifSendOne`) until the tasks overlap in the driver; `SendsReturn` whether they do or not | holds |
| `HifSendGarbled` | two tasks: `SuccessIsDelivery` | **violated** |
| `SocketData` | `TypeOK`, `DataReachesItsConnection` across a wrap of the session IDs, `PendingIsOwed` until a request or a reply is lost | holds |
| `SocketReopen`, `SocketStaleStatus` | what the API's documentation says of close and of session IDs | **violated** |
| `RtcDrift` | `TypeOK`, `NeverFarAhead`, `PrintedNotFarAhead` | holds |
| `SpiCalls` | `TypeOK`, refinement `RefinesBus`, `CrcAgrees`, `StaleTakesExhaustion`, `CallAdvances` (a bounded number of phases), `CallsReturn`, whatever frames and answers are missed | holds |
| `StationRuns` | `TypeOK`, `ConfBeforeStart`, `AssertionsNeedAButton` (faults alone never fail an assertion), `OffIsQuiet` whatever fails; `ChainGoesOn` and `ComesBack` until something fails, button 1 comes too early or button 2 is pressed | holds |
| `StationOff` | `WifiFindsSpiInitialised`, the SPI driver's assertion | **violated** |

The violated ones are disagreements of the code with a comment or the API documentation; `findings`
in `PROJECT.json` quotes the text and tells the story of each counterexample. In short: one failed read
after bit 0 was cleared stops reception for ever (`HifRxRecovery`); two tasks in `hif_send` take
each other's buffer (`HifSendGarbled`); the rest of a closed connection's message is given to the
connection opened in its callback (`SocketReopen`); the late status of a closed connection is reported as
that of its successor (`SocketStaleStatus`); `wifi_turn_off` uninitialises the SPI driver under the Wi-Fi
task, whose next transfer fails an assertion (`StationOff`).

**Bounds and why they are enough.** `HifRx`: the driver handles one message at a time and its state
between two messages is the same, up to the stale counts that faults leave; the runs post several
messages and allow three faults, so that a fault in the handling of one meets the next, and a lost clear of
bit 0 meets the failed read after which the message is dispatched again. `HifSend`: three
sends of one task reach the order before power save, first send after it, send after a failed or timed
out one; two buffers let one leak and the other be used, and two faults let a lost CTRL_2 write take the
stale address after a late answer. In `HifSendTwo` the Wi-Fi task sends twice, once before and once after
power save is on or in the callback of the one message, and the button task once, before, between or after
them or overlapping them at any step; one transfer fails, is lost or is late. More of each, for two tasks and
more, is covered by the theorems of `HifSend_proofs`.
`SocketLayer`: two slots and three connections give reuse of a slot with another in use; three
outstanding requests, two of an old connection and one of the new, or a listening socket next to
both. In `SocketData` session IDs are modulo 3, so that they wrap within the run; in the violated
runs `Sessions` is above `MaxOpens`, as 65536 is above the connections opened while a reply is
outstanding. `SocketData` assumes that the application opens no socket inside a data callback, and
`PendingIsOwed` that no request or reply was lost: `SocketReopen` shows what
an application that opens one meets, and after a lost request `recv` goes on returning success. One fault
(`MaxFaults`) is enough there: after it the other two properties still hold. `RtcClock`: four seconds with
answers up to two seconds old, with or without the hour of `tm_isdst` (`Start` leaves room for it): the
invariant looks one second back. `SpiCalls`: two attempts a call, as a third is like the second, and five missed frames, so
that a call may use up its attempts and lose its last reset too, with two more for what follows; two block
addresses tell "the block" from "another block". `StationRuns`: two faults, so that a lost write and a
failed read meet, and both reads of the chip id may fail; two drops, one before and one after the first answer; three presses, in any order of
the two buttons. The runs do not check for deadlock: when the messages,
sends or connections the bounds allow are used up, a driver that waits for events has nothing to do, and a
failed assertion stops the program. `SpiCalls`, where calls can always be made, does.

**Fairness.** `HifRx!FairSpec`: weak fairness of the Wi-Fi task (nothing of its priority spins without
blocking, apart from the driver itself), of the interrupt and of the chip releasing a buffer it was
told is free; none of the chip posting. `HifSend!FairSpec`: the firmware wakes and allocates when
asked, an expired delay runs its task, and a task that is in the driver goes on (`Proceeds`, strong
fairness: while it polls, the other may preempt it again and again, but the number of polls is finite);
none of starting a send, of the posting of messages, of a fault, or of `FirmwareHolds`: the
firmware may keep `chip_sleep` waiting for ever. That is the one escape of `SendsReturn`: a send that never
returns is in that wait, or behind a task that is, with the bit set again and again or left set. `Spi!FairSpec`: a call that has begun goes on (it is
straight-line code of its task). `Station!FairSpec`: the Wi-Fi task runs, the chip boots and the firmware
answers; none of the buttons and of the access point, which drops us at most `MaxDrops` times.
`wait_for_firmware_start` gives up after 2^32 - 1 polls of 2 ms, 99 days, and the model lets it do so only when the
firmware is not starting. `RtcClock` and `SocketLayer` have only safety properties.

## 4. Proofs

`HifRx_proofs`, for all bounds on messages, reads and faults: `TypeCorrect`, `BufferIsHeld`,
`WakeupIsNotLost`, `EveryEdgeCounts` and `ImplementsChannel` (the refinement of `RxChannel`). The
properties are not inductive. `BufferHeld` needs to know what bits 0 and 1 of CTRL_0 say about the message:
bit 1 is set only for one that was dispatched, bit 0 only for one that was not, unless its clear was lost
(`BufferInv`). All need that from the decrement to the end of `hif_isr`, retries included, the task serves
one message, which the chip keeps, so that no edge comes meanwhile and the count is 0 (`TaskInv`); and that
between two calls of `hif_isr` the interrupt is enabled and a message not dispatched is pending or
counted, also between the load and the store of the decrement (`WakeInv`). `InitIInv`, `StepIInv` (one step
per action) and `Invariance` are the usual three facts; the refinement theorem maps each step to `Post`,
`Lose`, `Dispatch`, `Repeat`, `Ack` or a stutter.

Two theorems give `ServesMessages` but for fairness. `EveryStepServes`: until a transfer fails or is lost,
every step of the interrupt handler and of the task takes `StepsLeft` down. `SomeStepServes`: while a message waits
and nothing failed, an edge is pending that the handler is enabled for, or the task is not blocked. They need
`ClaimInv` (bit 0 is set until the task has claimed the message, so that `hif_isr` never reports
False interrupt) and `OneTrace` (a waiting message has left exactly one of an edge, a count and a claim).

`SocketLayer_proofs`, for any number of slots, session IDs, connections, requests and faults, of an
application that opens no socket in a data callback (`~ReopensInCallback`): `SocketTypeCorrect`,
`DataIsNotMisdirected`, `PendingIsAlwaysOwed`. A late reply is told apart only by its session ID, so
the invariant follows the IDs: `IsSession` says which ID connection `inc` must have been given, for each
of the last `Sessions - 1` connections (all different, none 0), and claims nothing of older ones, whose
ID may be in use again. `SlotInv` (a free slot is all zero) and `RequestInv` (a request whose ID equals that
of its slot is of that connection or a whole round older) carry this through `OpeningMovesWindow`, the step
where a slot is given away. `ReadingInv` says the same of the message that is read in chunks, and
is what fails when a callback opens a socket. `ChunksAreNotMisdirected` is the converse of the run
`SocketReopen`: without that, and before the session IDs wrap (`MaxOpens < Sessions`), no chunk is ever given
to another connection.

`RtcClock_proofs`, for every start, latency and number of seconds: `ClockTypeCorrect`, `DriftIsBounded`,
`PrintIsBounded`. The invariant adds to `unix_time` what the RTC task still owes it (the second it
serves, the one the semaphore remembers) and bounds the sum by the true time plus two, and the same for
the register of a half-done increment.

`HifSend_proofs`, for any set of tasks and any number of buffers, sends, messages and faults:
`TypeCorrect`, `SafeWhileSerial` (`SafeUntilOverlap`) and `ImplementsTx`, Spec => `RefinesTx`. What the
driver is to keep is an invariant only until two tasks overlap in it (`HifSendGarbled` shows what comes then),
so `IInv` has two parts: `TypeInv`, always, and `SerialInv` while `overlapped` is FALSE. `SerialInv` says
that at most one task is inside, and of it, place by place: `Count`, the value of `u8ChipSleep` (0
outside a send, whatever was loaded between a load and its store, 0 or 1 where a send that holds a
message has not counted); `Cover`, what keeps the chip awake from the wake bits on, which needs that a held
message is an unacknowledged one, and is not claimed of a send that has lost the write of a wake bit
(`Missed`); `Answer`, in two parts: of a send that has lost none of its other writes (`Lossless`), that
while it polls the header the firmware sees is its own, so that an answer that CTRL_4 holds when bit 1 is
seen clear was made for this send or is address 0, and then the buffer is its own (`Granted`); of every
send, that the buffer it writes to holds the blocks it has written (`Filled`), so that even a send with a
stale address submits its own packet or nothing; `Taken`, that its packet was not
taken before. There is one lemma per part for the steps of a send (`SendCount`, `SendCover`,
`SendAnswer`, `SendTaken`; `SendLost` and `SendMissed` say which steps lose a write), one each for the
receive path and the firmware, and `OthersStay` for the tasks that do not move. `SendImplements` and `RestImplements` map the steps to `Call`, `Take`, `Lose`,
`Return`, a stutter, or an overlap. A task that is `Alone` never overlaps (`NeverOverlaps`), which gives
`AccessCovered`, `CountReturns` and `SuccessDelivers`, the invariants of `HifSendOne`.

`Spi_proofs`, for any registers, number of attempts and missed frames: `TypeCorrect`, `CrcsAgree`,
`StaleIsRare`, and `Refinement`, Spec => `RefinesBus`. The invariant has a part per question: what the
chip's transaction says about the call under way (one that is open and not stale is that of the call, at
its address, and past its data phase only if the block is stored), how many missed frames
the attempts used so far must have cost, and what each stage of `nm_spi_init` knows of the two CRC settings.
`PhaseStep`, `CostStep` and `StageStep` preserve one part each, and `StepRefines` maps every action to one
of `Bus` or to a stutter. `CallsAreBounded` (`CallAdvances`) is the part of `CallsReturn` that needs no
fairness: every step of a call takes `PhasesLeft` down.

`Station_proofs`, for any number of faults, drops and presses: `TypeCorrect`, `ConfFirst`,
`AssertionsCaused`, `TurnedOff`, `ChainContinues`. `BootInv` orders reset, configuration and start, and
ties the wrong configuration to two failures; `TouchInv` says that until button 2 the driver stays initialised for a Wi-Fi task that goes on, which leaves
to button 1 only the time before it was initialised or after the start failed; `OffInv` follows `wifi_turn_off` call
by call; `ChainInv` says where the next answer comes from in each state of the link, for as long as
nothing disturbed the program. Each has one step per action.

Assumptions are the named ones of the modules (`BoundsAssumption`, `SendAssumption`, `SocketAssumption`,
`ClockAssumption`, `SpiAssumption`, `StationAssumption`), which only say that the bounds are natural
numbers, that there are two session IDs or more, that the clock starts after the latency and an hour, and that the
chip's registers are different ones; `Alone`, `~ReopensInCallback` and `MaxOpens < Sessions`
where a theorem names them.

Only model-checked: liveness (`ServesMessages`, `SendsAreDelivered`, `SendsReturn`, `CallsReturn`,
`ComesBack`), because fairness is out of the proof system's reach; of `ServesMessages` and `CallsReturn` only
the step from "goes down whenever a step is taken" to "reaches 0" is left to TLC.

## 5. Not modelled

- Logging, SystemView, LEDs, and the vendored SDK and kernel: nothing is to be said of them beyond what the
  modules rely on (scheduling, the GPIOTE event, the SPI driver's assertions).
- I2C, UART, test mode, crypto, TLS, OTA, chip peripherals, the `spi_flash` functions: compiled out, or not called
  by the application (of the flash driver only the register write of `spi_flash_enable(0)` is reached).
- The firmware of the chip, beyond what the driver relies on. In particular when it sets and clears the bit that
  `chip_sleep` waits for (`nmasic.c:283`; any time will do in `HifSend`), the choice of a slot for an accepted
  connection, and what interleaved SPI transfers of two tasks do.
- The tiles in which `nmbus.c` sends a block: one step in `HifRx`, `HifSend` and `Spi`. A tile has at most
  248 bytes, which is why the 8-bit lengths of the bus wrapper do no harm.
- `socket_cb` and NTP (the application never opens its UDP socket), DNS in the socket layer (it is a message of
  `Station`), socket options, ping, `socketDeinit`.
- The start of the tasks: `app_rtc.c:128` enables the RTC before it creates the semaphore, which matters only
  if a second passes between the two statements.
