--------------------------- MODULE Station_proofs ---------------------------
(***************************************************************************)
(* Proofs about Station, for every bound on faults, drops and presses.     *)
(***************************************************************************)
EXTENDS Station, TLAPS

\* What the Wi-Fi task has done by the time it is at a step.
Wired == {"isr", "info", "config", "loop", "event"}
UpTo == {"bootrom", "version", "chipid", "conf_pmu", "conf_base", "start", "firmware", "interrupts",
         "hif_init"} \cup Wired

\* A chip reset comes before the configuration, the configuration before the start,
\* and the wrong configuration is chosen after two failed reads.
BootInv ==
  /\ fw \in {"starting", "running"} => conf # "none"
  /\ wifi = "start" => conf # "none"
  /\ wifi = "conf_base" \/ conf = "base" => faults > 1
  /\ gpfIsr # "null" => wifi \in Wired \cup {"failed"}
  /\ spi = "up" => wifi \in UpTo \cup {"failed"}

\* Only the button task takes the SPI driver away from a Wi-Fi task that goes on.
TouchInv ==
  /\ ~off => tripped # "wifi" /\ button = "idle" /\ (wifi \in UpTo => spi = "up")
  /\ ~off /\ ~early => tripped = "none"

\* wifi_turn_off, call by call.
OffInv ==
  /\ button # "idle" => off /\ wifi \in UpTo \cup {"failed"}
  /\ button \in {"nm_bsp_deinit", "interrupt_ctrl"} => (spi = "up" => faults > 0)
  /\ button = "interrupt_ctrl" => fw = "off"
  /\ off /\ button = "idle" /\ tripped = "none" =>
       fw = "off" /\ gpfIsr = "disabled" /\ (spi = "up" => faults > 0)

\* The interrupt is wired before the first request is made, and from then on the
\* chain of callbacks has one more answer to come.
ChainInv ==
  ~Disturbed =>
    /\ button = "idle"
    /\ wifi \in {"hif_init"} \cup Wired => intr
    /\ wifi = "isr" => gpfIsr = "enabled"
    /\ wifi \in {"info", "config", "loop", "event"} => gpfIsr = "isr" /\ cbs
    /\ wifi \notin {"info", "config", "loop", "event"} => owed = {} /\ event = "none"
    /\ wifi \notin {"loop", "event"} =>
         link = "down" /\ owed \subseteq {"rssi"} /\ event \in {"none", "rssi"}
    /\ event # "none" /\ wifi # "event" => announced
    /\ wifi \in {"loop", "event"} /\ link = "down" => "connect" \in owed \/ event = "disconnected"
    /\ wifi \in {"loop", "event"} /\ link = "ready" /\ ~clock =>
         "dns" \in owed \/ "time" \in owed \/ event \in {"dhcp", "dns", "time"}

IInv == TypeOK /\ BootInv /\ TouchInv /\ OffInv /\ ChainInv

USE StationAssumption

----------------------------------------------------------------------------
\* TypeOK in five parts: the program, its flags, the chip, the network, the counters.
TaskOK ==
  /\ wifi \in {"nm_bsp_init", "nm_bus_init", "bootrom", "version", "chipid", "conf_pmu", "conf_base",
               "start", "firmware", "interrupts", "hif_init", "isr", "info", "config", "loop", "event",
               "failed"}
  /\ button \in {"idle", "hif_deinit", "nm_drv_deinit", "nm_bsp_deinit", "interrupt_ctrl"}
  /\ spi \in {"none", "up"} /\ gpfIsr \in {"null", "enabled", "isr", "disabled"}
  /\ tripped \in {"none", "wifi", "button"}

FlagsOK ==
  /\ cbs \in BOOLEAN /\ announced \in BOOLEAN /\ clock \in BOOLEAN
  /\ intr \in BOOLEAN /\ early \in BOOLEAN /\ off \in BOOLEAN

ChipOK ==
  /\ fw \in {"off", "reset", "rom", "starting", "running"} /\ conf \in {"none", "pmu", "base"}
  /\ state \in {"zero", "version", "finish", "request"} /\ link \in {"down", "joined", "ready"}

NetOK == owed \in SUBSET Requests /\ event \in Events \cup {"none"}

CountersOK == faults \in 0..MaxFaults /\ drops \in 0..MaxDrops /\ presses \in 0..MaxPresses

LEMMA TypeParts ==
  LET Parts == TaskOK /\ FlagsOK /\ ChipOK /\ NetOK /\ CountersOK IN
  (TypeOK <=> Parts) /\ (TypeOK' <=> Parts')
  BY DEF TypeOK, TaskOK, FlagsOK, ChipOK, NetOK, CountersOK

LEMMA TaskStep == TaskOK /\ [Next]_vars => TaskOK'
<1> SUFFICES ASSUME TaskOK, [Next]_vars PROVE TaskOK'
  OBVIOUS
<1>. USE DEF At, Boot, Button, Press, Written, Works, Fails, Trip, Post, Send, ChipReset, Callback,
             task, boot, net, user, TaskOK
<1>1. CASE nm_bsp_init
  BY <1>1 DEF nm_bsp_init
<1>2. CASE nm_bus_init
  BY <1>2 DEF nm_bus_init
<1>3. CASE wait_for_bootrom
  BY <1>3 DEF wait_for_bootrom
<1>4. CASE write_version
  BY <1>4 DEF write_version
<1>5. CASE nmi_get_chipid
  BY <1>5 DEF nmi_get_chipid
<1>6. CASE chip_apply_conf("conf_pmu", "pmu")
  BY <1>6 DEF chip_apply_conf
<1>7. CASE chip_apply_conf("conf_base", "base")
  BY <1>7 DEF chip_apply_conf
<1>8. CASE start_firmware
  BY <1>8 DEF start_firmware
<1>9. CASE wait_for_firmware_start
  BY <1>9 DEF wait_for_firmware_start
<1>10. CASE enable_interrupts
  BY <1>10 DEF enable_interrupts
<1>11. CASE hif_init
  BY <1>11 DEF hif_init
<1>12. CASE register_isr
  BY <1>12 DEF register_isr
<1>13. CASE nm_get_firmware_full_info
  BY <1>13 DEF nm_get_firmware_full_info
<1>14. CASE m2m_wifi_connect
  BY <1>14 DEF m2m_wifi_connect
<1>15. CASE m2m_wifi_handle_events
  BY <1>15 DEF m2m_wifi_handle_events
<1>16. CASE serve
  BY <1>16 DEF serve
<1>17. CASE WifiTrips
  BY <1>17 DEF WifiTrips
<1>18. CASE wifi_req_curr_rssi
  BY <1>18 DEF wifi_req_curr_rssi
<1>19. CASE wifi_turn_off
  BY <1>19 DEF wifi_turn_off
<1>20. CASE hif_deinit
  BY <1>20 DEF hif_deinit
<1>21. CASE nm_drv_deinit
  BY <1>21 DEF nm_drv_deinit
<1>22. CASE nm_bsp_deinit
  BY <1>22 DEF nm_bsp_deinit
<1>23. CASE nm_bsp_interrupt_ctrl
  BY <1>23 DEF nm_bsp_interrupt_ctrl
<1>24. CASE chip_boots
  BY <1>24 DEF chip_boots
<1>25. CASE answers
  BY <1>25 DEF answers
<1>26. CASE drops_us
  BY <1>26 DEF drops_us
<1>27. CASE UNCHANGED vars
  BY <1>27 DEF vars
<1>. QED
  BY <1>1, <1>2, <1>3, <1>4, <1>5, <1>6, <1>7, <1>8, <1>9, <1>10, <1>11, <1>12, <1>13, <1>14, <1>15, <1>16,
     <1>17, <1>18, <1>19, <1>20, <1>21, <1>22, <1>23, <1>24, <1>25, <1>26, <1>27
  DEF Next, WifiTask, ButtonTask

LEMMA FlagsStep == FlagsOK /\ [Next]_vars => FlagsOK'
<1> SUFFICES ASSUME FlagsOK, [Next]_vars PROVE FlagsOK'
  OBVIOUS
<1>. USE DEF At, Boot, Button, Press, Written, Works, Fails, Trip, Post, Send, ChipReset, Callback,
             task, boot, net, user, FlagsOK
<1>1. CASE nm_bsp_init
  BY <1>1 DEF nm_bsp_init
<1>2. CASE nm_bus_init
  BY <1>2 DEF nm_bus_init
<1>3. CASE wait_for_bootrom
  BY <1>3 DEF wait_for_bootrom
<1>4. CASE write_version
  BY <1>4 DEF write_version
<1>5. CASE nmi_get_chipid
  BY <1>5 DEF nmi_get_chipid
<1>6. CASE chip_apply_conf("conf_pmu", "pmu")
  BY <1>6 DEF chip_apply_conf
<1>7. CASE chip_apply_conf("conf_base", "base")
  BY <1>7 DEF chip_apply_conf
<1>8. CASE start_firmware
  BY <1>8 DEF start_firmware
<1>9. CASE wait_for_firmware_start
  BY <1>9 DEF wait_for_firmware_start
<1>10. CASE enable_interrupts
  BY <1>10 DEF enable_interrupts
<1>11. CASE hif_init
  BY <1>11 DEF hif_init
<1>12. CASE register_isr
  BY <1>12 DEF register_isr
<1>13. CASE nm_get_firmware_full_info
  BY <1>13 DEF nm_get_firmware_full_info
<1>14. CASE m2m_wifi_connect
  BY <1>14 DEF m2m_wifi_connect
<1>15. CASE m2m_wifi_handle_events
  BY <1>15 DEF m2m_wifi_handle_events
<1>16. CASE serve
  BY <1>16 DEF serve
<1>17. CASE WifiTrips
  BY <1>17 DEF WifiTrips
<1>18. CASE wifi_req_curr_rssi
  BY <1>18 DEF wifi_req_curr_rssi
<1>19. CASE wifi_turn_off
  BY <1>19 DEF wifi_turn_off
<1>20. CASE hif_deinit
  BY <1>20 DEF hif_deinit
<1>21. CASE nm_drv_deinit
  BY <1>21 DEF nm_drv_deinit
<1>22. CASE nm_bsp_deinit
  BY <1>22 DEF nm_bsp_deinit
<1>23. CASE nm_bsp_interrupt_ctrl
  BY <1>23 DEF nm_bsp_interrupt_ctrl
<1>24. CASE chip_boots
  BY <1>24 DEF chip_boots
<1>25. CASE answers
  BY <1>25 DEF answers
<1>26. CASE drops_us
  BY <1>26 DEF drops_us
<1>27. CASE UNCHANGED vars
  BY <1>27 DEF vars
<1>. QED
  BY <1>1, <1>2, <1>3, <1>4, <1>5, <1>6, <1>7, <1>8, <1>9, <1>10, <1>11, <1>12, <1>13, <1>14, <1>15, <1>16,
     <1>17, <1>18, <1>19, <1>20, <1>21, <1>22, <1>23, <1>24, <1>25, <1>26, <1>27
  DEF Next, WifiTask, ButtonTask

LEMMA ChipStep == ChipOK /\ [Next]_vars => ChipOK'
<1> SUFFICES ASSUME ChipOK, [Next]_vars PROVE ChipOK'
  OBVIOUS
<1>. USE DEF At, Boot, Button, Press, Written, Works, Fails, Trip, Post, Send, ChipReset, Callback,
             task, boot, net, user, ChipOK
<1>1. CASE nm_bsp_init
  BY <1>1 DEF nm_bsp_init
<1>2. CASE nm_bus_init
  BY <1>2 DEF nm_bus_init
<1>3. CASE wait_for_bootrom
  BY <1>3 DEF wait_for_bootrom
<1>4. CASE write_version
  BY <1>4 DEF write_version
<1>5. CASE nmi_get_chipid
  BY <1>5 DEF nmi_get_chipid
<1>6. CASE chip_apply_conf("conf_pmu", "pmu")
  BY <1>6 DEF chip_apply_conf
<1>7. CASE chip_apply_conf("conf_base", "base")
  BY <1>7 DEF chip_apply_conf
<1>8. CASE start_firmware
  BY <1>8 DEF start_firmware
<1>9. CASE wait_for_firmware_start
  BY <1>9 DEF wait_for_firmware_start
<1>10. CASE enable_interrupts
  BY <1>10 DEF enable_interrupts
<1>11. CASE hif_init
  BY <1>11 DEF hif_init
<1>12. CASE register_isr
  BY <1>12 DEF register_isr
<1>13. CASE nm_get_firmware_full_info
  BY <1>13 DEF nm_get_firmware_full_info
<1>14. CASE m2m_wifi_connect
  BY <1>14 DEF m2m_wifi_connect
<1>15. CASE m2m_wifi_handle_events
  BY <1>15 DEF m2m_wifi_handle_events
<1>16. CASE serve
  BY <1>16 DEF serve
<1>17. CASE WifiTrips
  BY <1>17 DEF WifiTrips
<1>18. CASE wifi_req_curr_rssi
  BY <1>18 DEF wifi_req_curr_rssi
<1>19. CASE wifi_turn_off
  BY <1>19 DEF wifi_turn_off
<1>20. CASE hif_deinit
  BY <1>20 DEF hif_deinit
<1>21. CASE nm_drv_deinit
  BY <1>21 DEF nm_drv_deinit
<1>22. CASE nm_bsp_deinit
  BY <1>22 DEF nm_bsp_deinit
<1>23. CASE nm_bsp_interrupt_ctrl
  BY <1>23 DEF nm_bsp_interrupt_ctrl
<1>24. CASE chip_boots
  BY <1>24 DEF chip_boots
<1>25. CASE answers
  BY <1>25 DEF answers
<1>26. CASE drops_us
  BY <1>26 DEF drops_us
<1>27. CASE UNCHANGED vars
  BY <1>27 DEF vars
<1>. QED
  BY <1>1, <1>2, <1>3, <1>4, <1>5, <1>6, <1>7, <1>8, <1>9, <1>10, <1>11, <1>12, <1>13, <1>14, <1>15, <1>16,
     <1>17, <1>18, <1>19, <1>20, <1>21, <1>22, <1>23, <1>24, <1>25, <1>26, <1>27
  DEF Next, WifiTask, ButtonTask

LEMMA NetStep == NetOK /\ [Next]_vars => NetOK'
<1> SUFFICES ASSUME NetOK, [Next]_vars PROVE NetOK'
  OBVIOUS
<1>. USE DEF At, Boot, Button, Press, Written, Works, Fails, Trip, Post, Send, ChipReset, Callback,
             task, boot, net, user, NetOK, Requests, Events
<1>1. CASE nm_bsp_init
  BY <1>1 DEF nm_bsp_init
<1>2. CASE nm_bus_init
  BY <1>2 DEF nm_bus_init
<1>3. CASE wait_for_bootrom
  BY <1>3 DEF wait_for_bootrom
<1>4. CASE write_version
  BY <1>4 DEF write_version
<1>5. CASE nmi_get_chipid
  BY <1>5 DEF nmi_get_chipid
<1>6. CASE chip_apply_conf("conf_pmu", "pmu")
  BY <1>6 DEF chip_apply_conf
<1>7. CASE chip_apply_conf("conf_base", "base")
  BY <1>7 DEF chip_apply_conf
<1>8. CASE start_firmware
  BY <1>8 DEF start_firmware
<1>9. CASE wait_for_firmware_start
  BY <1>9 DEF wait_for_firmware_start
<1>10. CASE enable_interrupts
  BY <1>10 DEF enable_interrupts
<1>11. CASE hif_init
  BY <1>11 DEF hif_init
<1>12. CASE register_isr
  BY <1>12 DEF register_isr
<1>13. CASE nm_get_firmware_full_info
  BY <1>13 DEF nm_get_firmware_full_info
<1>14. CASE m2m_wifi_connect
  BY <1>14 DEF m2m_wifi_connect
<1>15. CASE m2m_wifi_handle_events
  BY <1>15 DEF m2m_wifi_handle_events
<1>16. CASE serve
  BY <1>16 DEF serve
<1>17. CASE WifiTrips
  BY <1>17 DEF WifiTrips
<1>18. CASE wifi_req_curr_rssi
  BY <1>18 DEF wifi_req_curr_rssi
<1>19. CASE wifi_turn_off
  BY <1>19 DEF wifi_turn_off
<1>20. CASE hif_deinit
  BY <1>20 DEF hif_deinit
<1>21. CASE nm_drv_deinit
  BY <1>21 DEF nm_drv_deinit
<1>22. CASE nm_bsp_deinit
  BY <1>22 DEF nm_bsp_deinit
<1>23. CASE nm_bsp_interrupt_ctrl
  BY <1>23 DEF nm_bsp_interrupt_ctrl
<1>24. CASE chip_boots
  BY <1>24 DEF chip_boots
<1>25. CASE answers
  BY <1>25 DEF answers
<1>26. CASE drops_us
  BY <1>26 DEF drops_us
<1>27. CASE UNCHANGED vars
  BY <1>27 DEF vars
<1>. QED
  BY <1>1, <1>2, <1>3, <1>4, <1>5, <1>6, <1>7, <1>8, <1>9, <1>10, <1>11, <1>12, <1>13, <1>14, <1>15, <1>16,
     <1>17, <1>18, <1>19, <1>20, <1>21, <1>22, <1>23, <1>24, <1>25, <1>26, <1>27
  DEF Next, WifiTask, ButtonTask

LEMMA CountersStep == CountersOK /\ [Next]_vars => CountersOK'
<1> SUFFICES ASSUME CountersOK, [Next]_vars PROVE CountersOK'
  OBVIOUS
<1>. USE DEF At, Boot, Button, Press, Written, Works, Fails, Trip, Post, Send, ChipReset, Callback,
             task, boot, net, user, CountersOK
<1>1. CASE nm_bsp_init
  BY <1>1 DEF nm_bsp_init
<1>2. CASE nm_bus_init
  BY <1>2 DEF nm_bus_init
<1>3. CASE wait_for_bootrom
  BY <1>3 DEF wait_for_bootrom
<1>4. CASE write_version
  BY <1>4 DEF write_version
<1>5. CASE nmi_get_chipid
  BY <1>5 DEF nmi_get_chipid
<1>6. CASE chip_apply_conf("conf_pmu", "pmu")
  BY <1>6 DEF chip_apply_conf
<1>7. CASE chip_apply_conf("conf_base", "base")
  BY <1>7 DEF chip_apply_conf
<1>8. CASE start_firmware
  BY <1>8 DEF start_firmware
<1>9. CASE wait_for_firmware_start
  BY <1>9 DEF wait_for_firmware_start
<1>10. CASE enable_interrupts
  BY <1>10 DEF enable_interrupts
<1>11. CASE hif_init
  BY <1>11 DEF hif_init
<1>12. CASE register_isr
  BY <1>12 DEF register_isr
<1>13. CASE nm_get_firmware_full_info
  BY <1>13 DEF nm_get_firmware_full_info
<1>14. CASE m2m_wifi_connect
  BY <1>14 DEF m2m_wifi_connect
<1>15. CASE m2m_wifi_handle_events
  BY <1>15 DEF m2m_wifi_handle_events
<1>16. CASE serve
  BY <1>16 DEF serve
<1>17. CASE WifiTrips
  BY <1>17 DEF WifiTrips
<1>18. CASE wifi_req_curr_rssi
  BY <1>18 DEF wifi_req_curr_rssi
<1>19. CASE wifi_turn_off
  BY <1>19 DEF wifi_turn_off
<1>20. CASE hif_deinit
  BY <1>20 DEF hif_deinit
<1>21. CASE nm_drv_deinit
  BY <1>21 DEF nm_drv_deinit
<1>22. CASE nm_bsp_deinit
  BY <1>22 DEF nm_bsp_deinit
<1>23. CASE nm_bsp_interrupt_ctrl
  BY <1>23 DEF nm_bsp_interrupt_ctrl
<1>24. CASE chip_boots
  BY <1>24 DEF chip_boots
<1>25. CASE answers
  BY <1>25 DEF answers
<1>26. CASE drops_us
  BY <1>26 DEF drops_us
<1>27. CASE UNCHANGED vars
  BY <1>27 DEF vars
<1>. QED
  BY <1>1, <1>2, <1>3, <1>4, <1>5, <1>6, <1>7, <1>8, <1>9, <1>10, <1>11, <1>12, <1>13, <1>14, <1>15, <1>16,
     <1>17, <1>18, <1>19, <1>20, <1>21, <1>22, <1>23, <1>24, <1>25, <1>26, <1>27
  DEF Next, WifiTask, ButtonTask


\* Every type is kept, the counters within their bounds.
THEOREM TypeCorrect == Spec => []TypeOK
<1>1. Init => TypeOK
  <2>1. Init => TaskOK /\ ChipOK
    BY DEF Init, TaskOK, ChipOK
  <2>2. Init => FlagsOK
    BY Zenon DEF Init, FlagsOK
  <2>3. Init => NetOK /\ CountersOK
    BY DEF Init, NetOK, CountersOK
  <2>. QED
    BY <2>1, <2>2, <2>3, TypeParts
<1>2. TypeOK /\ [Next]_vars => TypeOK'
  BY TypeParts, TaskStep, FlagsStep, ChipStep, NetStep, CountersStep
<1>. QED
  BY <1>1, <1>2, PTL DEF Spec

----------------------------------------------------------------------------
(* The inductive invariant, part by part *)

LEMMA BootStep == TypeOK /\ BootInv /\ [Next]_vars => BootInv'
<1> SUFFICES ASSUME TypeOK, BootInv, [Next]_vars PROVE BootInv'
  OBVIOUS
<1>. USE DEF At, Boot, Button, Press, Written, Works, Fails, Trip, Post, Send, ChipReset, Callback,
             task, boot, net, user, TypeOK, BootInv, UpTo, Wired
<1>1. CASE nm_bsp_init
  BY <1>1 DEF nm_bsp_init
<1>2. CASE nm_bus_init
  BY <1>2 DEF nm_bus_init
<1>3. CASE wait_for_bootrom
  BY <1>3 DEF wait_for_bootrom
<1>4. CASE write_version
  BY <1>4 DEF write_version
<1>5. CASE nmi_get_chipid
  BY <1>5 DEF nmi_get_chipid
<1>6. CASE chip_apply_conf("conf_pmu", "pmu")
  BY <1>6 DEF chip_apply_conf
<1>7. CASE chip_apply_conf("conf_base", "base")
  BY <1>7 DEF chip_apply_conf
<1>8. CASE start_firmware
  BY <1>8 DEF start_firmware
<1>9. CASE wait_for_firmware_start
  BY <1>9 DEF wait_for_firmware_start
<1>10. CASE enable_interrupts
  BY <1>10 DEF enable_interrupts
<1>11. CASE hif_init
  BY <1>11 DEF hif_init
<1>12. CASE register_isr
  BY <1>12 DEF register_isr
<1>13. CASE nm_get_firmware_full_info
  BY <1>13 DEF nm_get_firmware_full_info
<1>14. CASE m2m_wifi_connect
  BY <1>14 DEF m2m_wifi_connect
<1>15. CASE m2m_wifi_handle_events
  BY <1>15 DEF m2m_wifi_handle_events
<1>16. CASE serve
  BY <1>16 DEF serve
<1>17. CASE WifiTrips
  BY <1>17 DEF WifiTrips
<1>18. CASE wifi_req_curr_rssi
  BY <1>18 DEF wifi_req_curr_rssi
<1>19. CASE wifi_turn_off
  BY <1>19 DEF wifi_turn_off
<1>20. CASE hif_deinit
  BY <1>20 DEF hif_deinit
<1>21. CASE nm_drv_deinit
  BY <1>21 DEF nm_drv_deinit
<1>22. CASE nm_bsp_deinit
  BY <1>22 DEF nm_bsp_deinit
<1>23. CASE nm_bsp_interrupt_ctrl
  BY <1>23 DEF nm_bsp_interrupt_ctrl
<1>24. CASE chip_boots
  BY <1>24 DEF chip_boots
<1>25. CASE answers
  BY <1>25 DEF answers
<1>26. CASE drops_us
  BY <1>26 DEF drops_us
<1>27. CASE UNCHANGED vars
  BY <1>27 DEF vars
<1>. QED
  BY <1>1, <1>2, <1>3, <1>4, <1>5, <1>6, <1>7, <1>8, <1>9, <1>10, <1>11, <1>12, <1>13, <1>14, <1>15, <1>16,
     <1>17, <1>18, <1>19, <1>20, <1>21, <1>22, <1>23, <1>24, <1>25, <1>26, <1>27
  DEF Next, WifiTask, ButtonTask

LEMMA TouchStep == TypeOK /\ TouchInv /\ [Next]_vars => TouchInv'
<1> SUFFICES ASSUME TypeOK, TouchInv, [Next]_vars PROVE TouchInv'
  OBVIOUS
<1>. USE DEF At, Boot, Button, Press, Written, Works, Fails, Trip, Post, Send, ChipReset, Callback,
             task, boot, net, user, TypeOK, TouchInv, Requests, Events, UpTo, Wired
<1>1. CASE nm_bsp_init
  BY <1>1 DEF nm_bsp_init
<1>2. CASE nm_bus_init
  BY <1>2 DEF nm_bus_init
<1>3. CASE wait_for_bootrom
  BY <1>3 DEF wait_for_bootrom
<1>4. CASE write_version
  BY <1>4 DEF write_version
<1>5. CASE nmi_get_chipid
  BY <1>5 DEF nmi_get_chipid
<1>6. CASE chip_apply_conf("conf_pmu", "pmu")
  BY <1>6 DEF chip_apply_conf
<1>7. CASE chip_apply_conf("conf_base", "base")
  BY <1>7 DEF chip_apply_conf
<1>8. CASE start_firmware
  BY <1>8 DEF start_firmware
<1>9. CASE wait_for_firmware_start
  BY <1>9 DEF wait_for_firmware_start
<1>10. CASE enable_interrupts
  BY <1>10 DEF enable_interrupts
<1>11. CASE hif_init
  BY <1>11 DEF hif_init
<1>12. CASE register_isr
  BY <1>12 DEF register_isr
<1>13. CASE nm_get_firmware_full_info
  BY <1>13 DEF nm_get_firmware_full_info
<1>14. CASE m2m_wifi_connect
  BY <1>14 DEF m2m_wifi_connect
<1>15. CASE m2m_wifi_handle_events
  BY <1>15 DEF m2m_wifi_handle_events
<1>16. CASE serve
  BY <1>16 DEF serve
<1>17. CASE WifiTrips
  BY <1>17 DEF WifiTrips
<1>18. CASE wifi_req_curr_rssi
  BY <1>18 DEF wifi_req_curr_rssi
<1>19. CASE wifi_turn_off
  BY <1>19 DEF wifi_turn_off
<1>20. CASE hif_deinit
  BY <1>20 DEF hif_deinit
<1>21. CASE nm_drv_deinit
  BY <1>21 DEF nm_drv_deinit
<1>22. CASE nm_bsp_deinit
  BY <1>22 DEF nm_bsp_deinit
<1>23. CASE nm_bsp_interrupt_ctrl
  BY <1>23 DEF nm_bsp_interrupt_ctrl
<1>24. CASE chip_boots
  BY <1>24 DEF chip_boots
<1>25. CASE answers
  BY <1>25 DEF answers
<1>26. CASE drops_us
  BY <1>26 DEF drops_us
<1>27. CASE UNCHANGED vars
  BY <1>27 DEF vars
<1>. QED
  BY <1>1, <1>2, <1>3, <1>4, <1>5, <1>6, <1>7, <1>8, <1>9, <1>10, <1>11, <1>12, <1>13, <1>14, <1>15, <1>16,
     <1>17, <1>18, <1>19, <1>20, <1>21, <1>22, <1>23, <1>24, <1>25, <1>26, <1>27
  DEF Next, WifiTask, ButtonTask

LEMMA OffStep == TypeOK /\ BootInv /\ OffInv /\ [Next]_vars => OffInv'
<1> SUFFICES ASSUME TypeOK, BootInv, OffInv, [Next]_vars PROVE OffInv'
  OBVIOUS
<1>. USE DEF At, Boot, Button, Press, Written, Works, Fails, Trip, Post, Send, ChipReset, Callback,
             task, boot, net, user, TypeOK, BootInv, OffInv, Requests, Events, Wired, UpTo
<1>1. CASE nm_bsp_init
  BY <1>1 DEF nm_bsp_init
<1>2. CASE nm_bus_init
  BY <1>2 DEF nm_bus_init
<1>3. CASE wait_for_bootrom
  BY <1>3 DEF wait_for_bootrom
<1>4. CASE write_version
  BY <1>4 DEF write_version
<1>5. CASE nmi_get_chipid
  BY <1>5 DEF nmi_get_chipid
<1>6. CASE chip_apply_conf("conf_pmu", "pmu")
  BY <1>6 DEF chip_apply_conf
<1>7. CASE chip_apply_conf("conf_base", "base")
  BY <1>7 DEF chip_apply_conf
<1>8. CASE start_firmware
  BY <1>8 DEF start_firmware
<1>9. CASE wait_for_firmware_start
  BY <1>9 DEF wait_for_firmware_start
<1>10. CASE enable_interrupts
  BY <1>10 DEF enable_interrupts
<1>11. CASE hif_init
  BY <1>11 DEF hif_init
<1>12. CASE register_isr
  BY <1>12 DEF register_isr
<1>13. CASE nm_get_firmware_full_info
  BY <1>13 DEF nm_get_firmware_full_info
<1>14. CASE m2m_wifi_connect
  BY <1>14 DEF m2m_wifi_connect
<1>15. CASE m2m_wifi_handle_events
  BY <1>15 DEF m2m_wifi_handle_events
<1>16. CASE serve
  BY <1>16 DEF serve
<1>17. CASE WifiTrips
  BY <1>17 DEF WifiTrips
<1>18. CASE wifi_req_curr_rssi
  BY <1>18 DEF wifi_req_curr_rssi
<1>19. CASE wifi_turn_off
  BY <1>19 DEF wifi_turn_off
<1>20. CASE hif_deinit
  BY <1>20 DEF hif_deinit
<1>21. CASE nm_drv_deinit
  BY <1>21 DEF nm_drv_deinit
<1>22. CASE nm_bsp_deinit
  BY <1>22 DEF nm_bsp_deinit
<1>23. CASE nm_bsp_interrupt_ctrl
  BY <1>23 DEF nm_bsp_interrupt_ctrl
<1>24. CASE chip_boots
  BY <1>24 DEF chip_boots
<1>25. CASE answers
  BY <1>25 DEF answers
<1>26. CASE drops_us
  BY <1>26 DEF drops_us
<1>27. CASE UNCHANGED vars
  BY <1>27 DEF vars
<1>. QED
  BY <1>1, <1>2, <1>3, <1>4, <1>5, <1>6, <1>7, <1>8, <1>9, <1>10, <1>11, <1>12, <1>13, <1>14, <1>15, <1>16,
     <1>17, <1>18, <1>19, <1>20, <1>21, <1>22, <1>23, <1>24, <1>25, <1>26, <1>27
  DEF Next, WifiTask, ButtonTask

LEMMA ChainStep == TypeOK /\ OffInv /\ ChainInv /\ [Next]_vars => ChainInv'
<1> SUFFICES ASSUME TypeOK, OffInv, ChainInv, [Next]_vars PROVE ChainInv'
  OBVIOUS
<1>. USE DEF At, Boot, Button, Press, Written, Works, Fails, Trip, Post, Send, ChipReset, Callback,
             task, boot, net, user, TypeOK, OffInv, ChainInv, Requests, Events, UpTo, Wired, Disturbed
<1>1. CASE nm_bsp_init
  BY <1>1 DEF nm_bsp_init
<1>2. CASE nm_bus_init
  BY <1>2 DEF nm_bus_init
<1>3. CASE wait_for_bootrom
  BY <1>3 DEF wait_for_bootrom
<1>4. CASE write_version
  BY <1>4 DEF write_version
<1>5. CASE nmi_get_chipid
  BY <1>5 DEF nmi_get_chipid
<1>6. CASE chip_apply_conf("conf_pmu", "pmu")
  BY <1>6 DEF chip_apply_conf
<1>7. CASE chip_apply_conf("conf_base", "base")
  BY <1>7 DEF chip_apply_conf
<1>8. CASE start_firmware
  BY <1>8 DEF start_firmware
<1>9. CASE wait_for_firmware_start
  BY <1>9 DEF wait_for_firmware_start
<1>10. CASE enable_interrupts
  BY <1>10 DEF enable_interrupts
<1>11. CASE hif_init
  BY <1>11 DEF hif_init
<1>12. CASE register_isr
  BY <1>12 DEF register_isr
<1>13. CASE nm_get_firmware_full_info
  BY <1>13 DEF nm_get_firmware_full_info
<1>14. CASE m2m_wifi_connect
  BY <1>14 DEF m2m_wifi_connect
<1>15. CASE m2m_wifi_handle_events
  BY <1>15 DEF m2m_wifi_handle_events
<1>16. CASE serve
  <2>. SUFFICES ASSUME ~Disturbed' PROVE ChainInv'
    BY DEF ChainInv, Disturbed
  <2>1. ~Disturbed /\ faults' = faults /\ button = "idle" /\ intr /\ gpfIsr = "isr" /\ cbs
    BY <1>16 DEF serve
  <2>2. /\ wifi' = "loop" /\ event' = "none" /\ link' = link
        /\ button' = button /\ intr' = intr /\ gpfIsr' = gpfIsr /\ cbs' = cbs
    BY <1>16, <2>1 DEF serve
  <2>3. CASE event \in {"disconnected", "dhcp", "dns"}
    <3>1. CASE event = "disconnected"
      BY <1>16, <2>1, <2>2, <3>1 DEF serve
    <3>2. CASE event = "dhcp"
      BY <1>16, <2>1, <2>2, <3>2 DEF serve
    <3>3. CASE event = "dns"
      BY <1>16, <2>1, <2>2, <3>3 DEF serve
    <3>. QED
      BY <2>3, <3>1, <3>2, <3>3
  <2>4. CASE event = "time"
    BY <1>16, <2>1, <2>2, <2>4 DEF serve
  <2>5. CASE event \in {"connected", "rssi", "none"}
    BY <1>16, <2>1, <2>2, <2>5 DEF serve
  <2>. QED
    BY <2>3, <2>4, <2>5
<1>17. CASE WifiTrips
  BY <1>17 DEF WifiTrips
<1>18. CASE wifi_req_curr_rssi
  <2>. SUFFICES ASSUME ~Disturbed' PROVE ChainInv'
    BY DEF ChainInv, Disturbed
  <2>1. ~Disturbed /\ wifi \in {"info", "config", "loop", "event"}
    <3>1. ~early' /\ early' = (early \/ wifi \notin {"info", "config", "loop", "event"})
      BY <1>18, Zenon DEF wifi_req_curr_rssi, Disturbed
    <3>2. ~early /\ wifi \in {"info", "config", "loop", "event"}
      BY <3>1, Zenon
    <3>3. off' = off /\ (faults' = faults \/ faults' = faults + 1)
      BY <1>18 DEF wifi_req_curr_rssi
    <3>. QED
      BY <3>2, <3>3
  <2>2. UNCHANGED <<wifi, button, gpfIsr, cbs, clock, announced, intr, link, event>>
    BY <1>18 DEF wifi_req_curr_rssi
  <2>3. owed' = owed \/ owed' = owed \cup {"rssi"}
    BY <1>18 DEF wifi_req_curr_rssi
  <2>. QED
    BY <2>1, <2>2, <2>3
<1>19. CASE wifi_turn_off
  BY <1>19 DEF wifi_turn_off
<1>20. CASE hif_deinit
  BY <1>20 DEF hif_deinit
<1>21. CASE nm_drv_deinit
  BY <1>21 DEF nm_drv_deinit
<1>22. CASE nm_bsp_deinit
  BY <1>22 DEF nm_bsp_deinit
<1>23. CASE nm_bsp_interrupt_ctrl
  BY <1>23 DEF nm_bsp_interrupt_ctrl
<1>24. CASE chip_boots
  BY <1>24 DEF chip_boots
<1>25. CASE answers
  BY <1>25 DEF answers
<1>26. CASE drops_us
  BY <1>26 DEF drops_us
<1>27. CASE UNCHANGED vars
  BY <1>27 DEF vars
<1>. QED
  BY <1>1, <1>2, <1>3, <1>4, <1>5, <1>6, <1>7, <1>8, <1>9, <1>10, <1>11, <1>12, <1>13, <1>14, <1>15, <1>16,
     <1>17, <1>18, <1>19, <1>20, <1>21, <1>22, <1>23, <1>24, <1>25, <1>26, <1>27
  DEF Next, WifiTask, ButtonTask

THEOREM Invariance == Spec => []IInv
<1>1. Init => BootInv /\ TouchInv /\ OffInv /\ ChainInv
  BY DEF Init, BootInv, TouchInv, OffInv, ChainInv, Wired, UpTo
<1>2. TypeOK /\ BootInv /\ TouchInv /\ OffInv /\ ChainInv /\ [Next]_vars
        => (BootInv /\ TouchInv /\ OffInv /\ ChainInv)'
  BY BootStep, TouchStep, OffStep, ChainStep
<1>. QED
  BY <1>1, <1>2, TypeCorrect, PTL DEF Spec, IInv

----------------------------------------------------------------------------
\* Lost writes and waits cut short never let the firmware start without the driver's
\* configuration, and one failure never makes it the wrong one.
THEOREM ConfFirst == Spec => []ConfBeforeStart
<1>1. IInv => ConfBeforeStart
  BY DEF IInv, TypeOK, BootInv, ConfBeforeStart
<1>. QED
  BY <1>1, Invariance, PTL

\* Faults alone never fail an assertion: it takes wifi_turn_off, or button 1 too early.
THEOREM AssertionsCaused == Spec => []AssertionsNeedAButton
<1>1. IInv => AssertionsNeedAButton
  BY DEF IInv, TypeOK, TouchInv, AssertionsNeedAButton
<1>. QED
  BY <1>1, Invariance, PTL

\* A wifi_turn_off that returns has turned everything off.
THEOREM TurnedOff == Spec => []OffIsQuiet
<1>1. IInv => OffIsQuiet
  BY DEF IInv, OffInv, OffIsQuiet
<1>. QED
  BY <1>1, Invariance, PTL

\* The chain of callbacks never ends short.
THEOREM ChainContinues == Spec => []ChainGoesOn
<1>1. IInv => ChainGoesOn
  <2>. SUFFICES ASSUME TypeOK, ChainInv, wifi = "loop", ~Disturbed
                PROVE  /\ event # "none" => announced
                       /\ \/ link = "ready" /\ clock
                          \/ owed \cap {"connect", "dns", "time"} # {} \/ link = "joined"
                          \/ event \in {"disconnected", "dhcp", "dns", "time"}
    BY DEF IInv, ChainGoesOn
  <2>1. link \in {"down", "joined", "ready"}
    BY DEF TypeOK
  <2>. QED
    BY <2>1 DEF ChainInv
<1>. QED
  BY <1>1, Invariance, PTL
=============================================================================
