------------------------------ MODULE Station ------------------------------
(***************************************************************************)
(* The program as a whole: the Wi-Fi task brings the chip up (nm_bsp_init, *)
(* nm_drv_init, hif_init), joins the network and asks for the time, each   *)
(* request sent from the callback of the answer before it (wifi_cb,        *)
(* resolve_cb); the button task asks for the RSSI or turns everything off, *)
(* wherever the Wi-Fi task is.  A register write may be lost without       *)
(* notice, a read or a send may fail (Bus, HifSend).  The SPI driver       *)
(* asserts that it is initialised, and a failed assertion stops the        *)
(* program.  Chip and firmware are external.                               *)
(***************************************************************************)
EXTENDS Naturals

CONSTANTS MaxFaults,   \* bound on lost writes, failed reads and failed sends
          MaxDrops,    \* bound on the times the access point refuses or drops us
          MaxPresses   \* bound on the button presses

ASSUME StationAssumption == MaxFaults \in Nat /\ MaxDrops \in Nat /\ MaxPresses \in Nat

VARIABLES
  wifi,       \* where the Wi-Fi task is
  button,     \* where the button task is in wifi_turn_off
  spi,        \* the SPI driver: "none" (uninitialised) or "up"
  gpfIsr,     \* "null", "enabled" (event on, gpfIsr not set), "isr", "disabled"
  cbs,        \* the callbacks of gstrHifCxt are registered
  announced,  \* u8Interrupt is not 0: the Wi-Fi task will serve the chip
  clock,      \* unix_time has been set
  tripped,    \* the task whose assertion failed, or "none"
  fw,         \* chip: "off", "reset", "rom", "starting", "running"
  conf,       \* chip: GP_REG_1, "none", or "pmu" or "base": with the PMU bit or without
  state,      \* chip: NMI_STATE_REG
  intr,       \* chip: its interrupt is enabled
  link,       \* firmware: "down", "joined", "ready"
  owed,       \* firmware: requests it has not answered
  event,      \* firmware: the message in its buffer, or "none"
  faults, drops, presses,
  early,      \* button 1 was pressed before the interrupt was wired
  off         \* button 2 was pressed

task == <<wifi, button, spi, gpfIsr, cbs, clock, tripped>>
boot == <<fw, conf, state, intr>>
net == <<link, owed, event>>
user == <<presses, early, off>>
vars == <<task, announced, boot, net, faults, drops, user>>

Requests == {"connect", "disconnect", "dns", "time", "rssi"}
Events == {"connected", "disconnected", "dhcp", "dns", "time", "rssi"}

Init ==
  /\ wifi = "nm_bsp_init" /\ button = "idle" /\ spi = "none" /\ gpfIsr = "null" /\ cbs = FALSE
  /\ announced = FALSE /\ clock = FALSE /\ tripped = "none"
  /\ fw = "off" /\ conf = "none" /\ state = "zero" /\ intr = FALSE
  /\ link = "down" /\ owed = {} /\ event = "none"
  /\ faults = 0 /\ drops = 0 /\ presses = 0 /\ early = FALSE /\ off = FALSE

Works == UNCHANGED faults
Fails == faults < MaxFaults /\ faults' = faults + 1

\* A write of v to the register reg, or its loss.
Written(reg, new, v) == (Works /\ new = v) \/ (Fails /\ new = reg)

ChipReset ==
  /\ fw' = "reset" /\ conf' = "none" /\ state' = "zero" /\ intr' = FALSE
  /\ link' = "down" /\ owed' = {} /\ event' = "none"

\* A transfer of the task at a time the SPI driver is not initialised.
Trip(t) == spi = "none" /\ tripped' = t /\ UNCHANGED <<wifi, button, spi, gpfIsr, cbs, announced, clock,
                                                boot, net, faults, drops>>

----------------------------------------------------------------------------
(* The Wi-Fi task comes up.  Every step but nm_bsp_init and nm_bus_init transfers. *)

At(pc) == tripped = "none" /\ wifi = pc
Boot(pc) == At(pc) /\ spi = "up" /\ UNCHANGED <<button, clock, tripped, net, drops, user>>

nm_bsp_init ==
  /\ At("nm_bsp_init") /\ wifi' = "nm_bus_init"
  /\ ChipReset
  /\ UNCHANGED <<button, spi, gpfIsr, cbs, clock, tripped, announced, faults, drops, user>>

nm_bus_init ==
  /\ At("nm_bus_init") /\ wifi' = "bootrom" /\ spi' = "up"
  /\ ChipReset
  /\ UNCHANGED <<button, gpfIsr, cbs, clock, tripped, announced, faults, drops, user>>

\* ++cnt > TIMEOUT is never true, so this wait has no end of its own; but a read that
\* fails gives an uninitialised value, which may be the one that ends it too early.
wait_for_bootrom ==
  /\ Boot("bootrom") /\ wifi' = "version"
  /\ (Works /\ fw = "rom") \/ Fails
  /\ UNCHANGED <<spi, gpfIsr, cbs, announced, boot>>

write_version ==
  /\ Boot("version") /\ wifi' = "chipid"
  /\ Written(state, state', "version")
  /\ UNCHANGED <<spi, gpfIsr, cbs, announced, fw, conf, intr>>

\* A chip of revision 3A0 or later needs the PMU bit.  The id is 0, and the chip taken
\* for an older one, when the read fails here and failed in the log of nm_drv_init too:
\* an id once read is kept.
nmi_get_chipid ==
  /\ Boot("chipid")
  /\ \/ Works /\ wifi' = "conf_pmu"
     \/ faults + 1 < MaxFaults /\ faults' = faults + 2 /\ wifi' = "conf_base"
  /\ UNCHANGED <<spi, gpfIsr, cbs, announced, boot>>

\* Mutant: GP_REG_1 is not read back.
chip_apply_conf_NoReadback(at, value) ==
  /\ Boot(at) /\ wifi' = "start"
  /\ Written(conf, conf', value)
  /\ UNCHANGED <<spi, gpfIsr, cbs, announced, fw, state, intr>>

\* One turn of its loop: write GP_REG_1, read it back.
chip_apply_conf(at, value) ==
  /\ Boot(at)
  /\ \/ Works /\ conf' = value /\ wifi' = "start"
     \/ Fails /\ conf' \in {conf, value} /\ UNCHANGED wifi
  /\ UNCHANGED <<spi, gpfIsr, cbs, announced, fw, state, intr>>

\* A boot ROM that has not finished may see the command later or not.
start_firmware ==
  /\ Boot("start") /\ wifi' = "firmware"
  /\ \/ fw = "off" /\ Works /\ UNCHANGED fw
     \/ fw # "off" /\ Written(fw, fw', "starting")
     \/ fw = "reset" /\ Works /\ UNCHANGED fw
  /\ UNCHANGED <<spi, gpfIsr, cbs, announced, conf, state, intr>>

\* Mutant: nm_drv_init undoes nm_bus_init and goes on.
wait_for_firmware_start_GoesOn ==
  /\ Boot("firmware") /\ wifi' = "interrupts"
  /\ \/ state = "finish" /\ Written(state, state', "zero") /\ UNCHANGED spi
     \/ state # "finish" /\ fw # "starting" /\ spi' = "none" /\ UNCHANGED <<state, faults>>
  /\ UNCHANGED <<gpfIsr, cbs, announced, fw, conf, intr>>

\* It gives up (ERR2 of nm_drv_init) after 2^32 - 1 polls, 99 days: not while the
\* firmware is starting.
wait_for_firmware_start ==
  /\ Boot("firmware")
  /\ \/ /\ state = "finish" /\ wifi' = "interrupts"
        /\ Written(state, state', "zero") /\ UNCHANGED spi
     \/ /\ state # "finish" /\ fw # "starting"
        /\ wifi' = "failed" /\ spi' = "none"
        /\ UNCHANGED <<state, faults>>
  /\ UNCHANGED <<gpfIsr, cbs, announced, fw, conf, intr>>

enable_interrupts ==
  /\ Boot("interrupts")
  /\ \/ Works /\ wifi' = "hif_init" /\ intr' = TRUE /\ UNCHANGED spi
     \/ /\ Fails /\ UNCHANGED intr
        /\ (wifi' = "hif_init" /\ UNCHANGED spi) \/ (wifi' = "failed" /\ spi' = "none")
  /\ UNCHANGED <<gpfIsr, cbs, announced, fw, conf, state>>

\* hif_init clears gstrHifCxt and calls nm_bsp_register_isr, which enables the pin
\* event first and sets gpfIsr then.
hif_init ==
  /\ At("hif_init") /\ wifi' = "isr"
  /\ announced' = FALSE /\ cbs' = FALSE /\ gpfIsr' = "enabled"
  /\ UNCHANGED <<button, spi, clock, tripped, boot, net, faults, drops, user>>

register_isr ==
  /\ At("isr") /\ wifi' = "info"
  /\ gpfIsr' = (IF gpfIsr = "enabled" THEN "isr" ELSE gpfIsr) /\ cbs' = TRUE
  /\ UNCHANGED <<button, spi, clock, tripped, announced, boot, net, faults, drops, user>>

\* A failure here leaves the bus initialised; the task spins in while (1) for any.
nm_get_firmware_full_info ==
  /\ Boot("info")
  /\ (Works /\ wifi' = "config") \/ (Fails /\ wifi' = "failed")
  /\ UNCHANGED <<spi, gpfIsr, cbs, announced, boot>>

\* A request of the driver; nobody looks at its result.
Send(r) == (Works /\ owed' = owed \cup {r}) \/ (Fails /\ UNCHANGED owed)

\* Sleep mode and the other settings, and the first m2m_wifi_connect.
m2m_wifi_connect ==
  /\ At("config") /\ spi = "up" /\ wifi' = "loop"
  /\ Send("connect")
  /\ UNCHANGED <<button, spi, gpfIsr, cbs, clock, tripped, announced, boot, link, event, drops, user>>

----------------------------------------------------------------------------
(* The Wi-Fi task's loop *)

m2m_wifi_handle_events ==
  /\ At("loop") /\ announced
  /\ wifi' = "event" /\ announced' = FALSE
  /\ UNCHANGED <<button, spi, gpfIsr, cbs, clock, tripped, boot, net, faults, drops, user>>

\* Mutants: no reconnection, no request for the time, a request with the code of
\* an event.
Callback_NoReconnect ==
  \/ event = "dhcp" /\ Send("dns") /\ UNCHANGED clock
  \/ event = "dns" /\ Send("time") /\ UNCHANGED clock
  \/ event = "time" /\ clock' = TRUE /\ Works /\ UNCHANGED owed
  \/ event \in {"disconnected", "connected", "rssi", "none"} /\ Works /\ UNCHANGED <<owed, clock>>

Callback_NoTime ==
  \/ event = "disconnected" /\ Send("connect") /\ UNCHANGED clock
  \/ event = "dhcp" /\ Send("dns") /\ UNCHANGED clock
  \/ event \in {"dns", "time", "connected", "rssi", "none"} /\ Works /\ UNCHANGED <<owed, clock>>

Callback_WrongCode ==
  \/ event = "disconnected" /\ Send("connect") /\ UNCHANGED clock
  \/ event = "dhcp" /\ Send("dhcp") /\ UNCHANGED clock
  \/ event \in {"dns", "time", "connected", "rssi", "none"} /\ Works /\ UNCHANGED <<owed, clock>>

\* m2m_wifi_cb, wifi_cb and resolve_cb; udp_socket is never opened.
Callback ==
  \/ event = "disconnected" /\ Send("connect") /\ UNCHANGED clock
  \/ event = "dhcp" /\ Send("dns") /\ UNCHANGED clock
  \/ event = "dns" /\ Send("time") /\ UNCHANGED clock
  \/ event = "time" /\ clock' = TRUE /\ Works /\ UNCHANGED owed
  \/ event \in {"connected", "rssi", "none"} /\ Works /\ UNCHANGED <<owed, clock>>

\* The callback is left out when none is registered or a transfer fails, and then
\* the message may stay in the buffer for good (HifRx).
serve ==
  /\ At("event") /\ spi = "up" /\ wifi' = "loop"
  /\ \/ cbs /\ Callback /\ event' = "none"
     \/ cbs /\ Fails /\ event' \in {event, "none"} /\ UNCHANGED <<owed, clock>>
     \/ ~cbs /\ Works /\ event' = "none" /\ UNCHANGED <<owed, clock>>
  /\ UNCHANGED <<button, spi, gpfIsr, cbs, tripped, announced, boot, link, drops, user>>

WifiTrips ==
  /\ tripped = "none"
  /\ wifi \in {"bootrom", "version", "chipid", "conf_pmu", "conf_base", "start", "firmware", "interrupts", "info", "config", "event"}
  /\ Trip("wifi") /\ UNCHANGED user

----------------------------------------------------------------------------
(* The button task *)

Press == tripped = "none" /\ button = "idle" /\ presses < MaxPresses /\ presses' = presses + 1
Button(pc) == tripped = "none" /\ button = pc

\* Button 1: hif_send, which writes NMI_STATE_REG first, whatever waits for it.
wifi_req_curr_rssi ==
  /\ Press
  /\ early' = (early \/ wifi \notin {"info", "config", "loop", "event"})
  /\ UNCHANGED off
  /\ \/ Trip("button")
     \/ /\ spi = "up" /\ state' = "request"
        /\ IF fw = "running" THEN Send("rssi") ELSE UNCHANGED <<owed, faults>>
        /\ UNCHANGED <<task, announced, fw, conf, intr, link, event, drops>>

\* Button 2, call by call: m2m_wifi_disconnect,
wifi_turn_off ==
  /\ Press /\ off' = TRUE /\ UNCHANGED early
  /\ \/ Trip("button")
     \/ /\ spi = "up" /\ button' = "hif_deinit" /\ state' = "request"
        /\ IF fw = "running" THEN Send("disconnect") ELSE UNCHANGED <<owed, faults>>
        /\ UNCHANGED <<wifi, spi, gpfIsr, cbs, clock, tripped, announced, fw, conf, intr, link, event, drops>>

hif_deinit ==
  /\ Button("hif_deinit") /\ button' = "nm_drv_deinit"
  /\ cbs' = FALSE /\ announced' = FALSE
  /\ UNCHANGED <<wifi, spi, gpfIsr, clock, tripped, boot, net, faults, drops, user>>

\* chip_deinit and spi_flash_enable; a read that fails leaves the bus initialised
\* and nobody looks at the result.
nm_drv_deinit ==
  /\ Button("nm_drv_deinit") /\ UNCHANGED user
  /\ \/ Trip("button")
     \/ /\ spi = "up" /\ button' = "nm_bsp_deinit"
        /\ \/ Works /\ fw' = "off" /\ spi' = "none"
           \/ Fails /\ fw' \in {fw, "off"} /\ (spi' = "none" \/ UNCHANGED spi)
        /\ UNCHANGED <<wifi, gpfIsr, cbs, clock, tripped, announced, conf, state, intr, net, drops>>

\* The chip loses its power, and its interrupt pin may fall with it.
nm_bsp_deinit ==
  /\ Button("nm_bsp_deinit") /\ button' = "interrupt_ctrl"
  /\ fw' = "off"
  /\ UNCHANGED announced \/ (gpfIsr = "isr" /\ announced' = TRUE)
  /\ UNCHANGED <<wifi, spi, gpfIsr, cbs, clock, tripped, conf, state, intr, net, faults, drops, user>>

\* Mutant: the event stays enabled.
nm_bsp_interrupt_ctrl_Kept ==
  /\ Button("interrupt_ctrl") /\ button' = "idle"
  /\ UNCHANGED <<wifi, spi, gpfIsr, cbs, clock, tripped, announced, boot, net, faults, drops, user>>

\* nrf_drv_gpiote_in_event_disable asserts that the pin is in use.
nm_bsp_interrupt_ctrl ==
  /\ Button("interrupt_ctrl")
  /\ \/ gpfIsr = "null" /\ tripped' = "button" /\ UNCHANGED <<button, gpfIsr>>
     \/ gpfIsr # "null" /\ gpfIsr' = "disabled" /\ button' = "idle" /\ UNCHANGED tripped
  /\ UNCHANGED <<wifi, spi, cbs, clock, announced, boot, net, faults, drops, user>>

----------------------------------------------------------------------------
(* The chip *)

chip_boots ==
  /\ tripped = "none"
  /\ \/ fw = "reset" /\ fw' = "rom" /\ UNCHANGED state
     \/ fw = "starting" /\ fw' = "running" /\ state' = "finish"
  /\ UNCHANGED <<task, announced, conf, intr, net, faults, drops, user>>

\* The firmware fills its buffer; the edge counts if the interrupt is wired.
Post(e) ==
  /\ tripped = "none" /\ fw = "running" /\ event = "none"
  /\ event' = e /\ announced' = (announced \/ (intr /\ gpfIsr = "isr"))
  /\ UNCHANGED <<task, boot, faults, user>>

answers ==
  \/ "connect" \in owed /\ Post("connected") /\ link' = "joined"
     /\ owed' = owed \ {"connect"} /\ UNCHANGED drops
  \/ link = "joined" /\ Post("dhcp") /\ link' = "ready" /\ UNCHANGED <<owed, drops>>
  \/ \E r \in owed \cap {"dns", "time", "rssi"} :
       Post(r) /\ owed' = owed \ {r} /\ UNCHANGED <<link, drops>>
  \/ "disconnect" \in owed /\ Post("disconnected") /\ link' = "down"
     /\ owed' = owed \ {"disconnect"} /\ UNCHANGED drops

\* The access point refuses us, or drops us, with a DNS query that may get lost.
drops_us ==
  /\ drops < MaxDrops /\ drops' = drops + 1
  /\ "connect" \in owed \/ link # "down"
  /\ Post("disconnected") /\ link' = "down"
  /\ owed' \in {owed \ {"connect"}, owed \ {"connect", "dns"}}

----------------------------------------------------------------------------
WifiTask ==
  \/ nm_bsp_init \/ nm_bus_init \/ wait_for_bootrom \/ write_version \/ nmi_get_chipid
  \/ chip_apply_conf("conf_pmu", "pmu") \/ chip_apply_conf("conf_base", "base") \/ start_firmware
  \/ wait_for_firmware_start \/ enable_interrupts \/ hif_init \/ register_isr
  \/ nm_get_firmware_full_info \/ m2m_wifi_connect \/ m2m_wifi_handle_events \/ serve \/ WifiTrips

ButtonTask ==
  \/ wifi_req_curr_rssi \/ wifi_turn_off \/ hif_deinit \/ nm_drv_deinit \/ nm_bsp_deinit
  \/ nm_bsp_interrupt_ctrl

Next == WifiTask \/ ButtonTask \/ chip_boots \/ answers \/ drops_us

Spec == Init /\ [][Next]_vars

\* The scheduler lets the Wi-Fi task run; the chip starts and answers.
FairSpec == Spec /\ WF_vars(WifiTask) /\ WF_vars(chip_boots) /\ WF_vars(answers)

----------------------------------------------------------------------------
TypeOK ==
  /\ wifi \in {"nm_bsp_init", "nm_bus_init", "bootrom", "version", "chipid", "conf_pmu", "conf_base",
               "start", "firmware", "interrupts", "hif_init", "isr", "info", "config", "loop", "event", "failed"}
  /\ button \in {"idle", "hif_deinit", "nm_drv_deinit", "nm_bsp_deinit", "interrupt_ctrl"}
  /\ spi \in {"none", "up"} /\ gpfIsr \in {"null", "enabled", "isr", "disabled"} /\ cbs \in BOOLEAN
  /\ announced \in BOOLEAN /\ clock \in BOOLEAN /\ tripped \in {"none", "wifi", "button"}
  /\ fw \in {"off", "reset", "rom", "starting", "running"} /\ conf \in {"none", "pmu", "base"}
  /\ state \in {"zero", "version", "finish", "request"} /\ intr \in BOOLEAN
  /\ link \in {"down", "joined", "ready"} /\ owed \in SUBSET Requests
  /\ event \in Events \cup {"none"}
  /\ faults \in 0..MaxFaults /\ drops \in 0..MaxDrops /\ presses \in 0..MaxPresses
  /\ early \in BOOLEAN /\ off \in BOOLEAN

\* Writes may be lost and the wait for the boot ROM may end too early, and the
\* firmware still never starts without the driver's configuration
\* (chip_apply_conf, before start_firmware); one failure is never enough to make it the
\* wrong one.
ConfBeforeStart ==
  fw \in {"starting", "running"} => conf = "pmu" \/ (conf = "base" /\ faults > 1)

Disturbed == faults > 0 \/ early \/ off

\* Once the Wi-Fi task waits in its loop, a message in the chip's buffer has been
\* counted, and until the clock is set there is a request to answer, an answer to
\* serve or DHCP under way: the chain of callbacks (app_wifi.c:105-200) never
\* ends short, whatever the access point does and whenever button 1 is pressed.
ChainGoesOn ==
  wifi = "loop" /\ ~Disturbed =>
    /\ event # "none" => announced
    /\ \/ link = "ready" /\ clock
       \/ owed \cap {"connect", "dns", "time"} # {} \/ link = "joined"
       \/ event \in {"disconnected", "dhcp", "dns", "time"}

\* Whatever fails, the Wi-Fi task finds the SPI driver uninitialised only after
\* wifi_turn_off has been called, and the button task only then or when button 1 was
\* pressed too early (app_wifi.c:325, nmdrv.c:344).
AssertionsNeedAButton ==
  /\ tripped = "wifi" => off
  /\ tripped = "button" => early \/ off

\* wifi_turn_off, when it returns, has the chip off and its interrupt disabled, and
\* the SPI driver too unless a read failed, wherever it found the Wi-Fi task.
OffIsQuiet ==
  off /\ button = "idle" /\ tripped = "none" =>
    fw = "off" /\ gpfIsr = "disabled" /\ (spi = "up" => faults > 0)

\* However often the access point drops us, we come back and have the time.
ComesBack == []<>((link = "ready" /\ clock) \/ Disturbed)

\* nrf_drv_spi.c:599: ASSERT(p_cb->state != NRF_DRV_STATE_UNINITIALIZED), for the
\* transfers of the Wi-Fi task.
WifiFindsSpiInitialised == tripped # "wifi"
=============================================================================
