# A verification of Yaumataca in TLA+

Yaumataca is the firmware of a Raspberry Pi Pico that connects USB mice and game
pads to the two controller ports of an Amiga, an Atari ST or a C64. This
directory holds TLA+ modules of its core, TLC configurations that check them on
small instances, and proofs for the TLA+ proof system. Paths below are relative
to the repository; `processors/` and `handlers/` are below `src/`.

## The system

There is one thread: `main` calls `tuh_task` (the USB stack, which calls back on
mount, unmount and reports), `hid_app_task` (the `run` of the drivers) and
`Pipeline::run` in turn, for ever. The PIO of the RP2040 and the home computer run
beside it, and power may go at any time. What makes it hard is state that several
parties write (the lines of a port), state that is cached (last outputs, weak
pointers, the byte of configuration), clocks that wrap around, and gestures that
are spread over many reports.

| Component (source) | State | Operations | Interacts with | Hard behaviour | What makes it correct |
|---|---|---|---|---|---|
| Device registry and port assignment (`hid_api.cpp`, `bare_api.cpp`, `handlers/bare_xbox360_wireless.*`, `processors/joystick_mouse_switcher.hpp`, `pipeline.hpp`) | `hid_info`, `bare_handlers`, proxies of a receiver, weak pointers of both switchers | mount, unmount, pad connects and disconnects, `integrate_handler`, promotion in `run` | callbacks of the stack, the switchers | devices come and go in every order; a weak pointer expires between two runs; a receiver repeats a connection | what is registered and what feeds a switcher agree; a served device stays served; a lone secondary source is promoted |
| Switchers and port output (`processors/joystick_mouse_switcher.hpp`, `mouse_mode_switcher.hpp`, `gamepad_features.hpp`, `port_switcher.hpp`, `pipeline.hpp`, `controller_port.hpp`, `mouse_*.hpp`) | `active_`, mode, targets, cached outputs, GPIO functions and levels, state machine numbers | reports of pad and mouse, `run`, `swap_callback`, `cycle_mouse_mode`, `ensure_*_muxing` | writes the ports; shares them with the PIO | takeover, swap and mode change in every order, also in the midst of `run`; skipped writes of unchanged outputs | the lines have one owner, who knows what they show; held directions get out |
| Auto fire and swap gestures (`gamepad_features.hpp`, `mouse_mode_switcher.hpp`) | last update, counter, press time | reports, `run` | `board_millis` | wrapping clock, reports throughout a hold | one swap per hold, not before its time |
| Amiga and Atari ST mouse (`mouse_quadrature.hpp`, `mouse_amiga.hpp`, `mouse_atarist.hpp`, `quadrature_encoder.hpp`) | accumulators, phases, cached lines of two ports | report, `run`, takeover | counters of the computer | phases wrap; takeover in mid-phase; another device on the wheel's port; timer overflow | no movement lost or invented, signals not too fast |
| Commodore 1351 mouse (`mouse_c1351.hpp`) | position, FIFOs, wheel pulse | report, `run` | PIO, SID, a driver on the C64 | an edge between two `put`s; unsigned wrap; a slow reader | differences of readings are the movement; little latency; pulse length |
| Calibration of it (`mouse_c1351.hpp`, `mouse_c1351.cpp`) | table shared by both ports, sector of flash, step, counter of the combination | report, `save_` and `load_calibration_data` | flash, port swap, mode change | two mice, abort, power failing in a save | table in use = table at the next power-on; the combination is found |
| Configuration byte (`small_fee.hpp`) | sector, write offset, cache | constructor, `write_config` | flash driver | power failing within a program; a full sector | log shape, recovery, wear |
| Persistence of the mode (`pipeline.hpp`) | mode, dirty flag, deadline | `cycle_mouse_mode`, `run`, constructor | configuration byte | delayed write, repeated change, restart | the mode survives and is written |
| HID mouse driver, field extraction (`handlers/hid_mouse.cpp`, `field_extractor.hpp`, `utility.h`) | walk of the descriptor, extractors, report ID | `parse_hid_report_descriptor`, `process_report` | USB device, switcher | unaligned fields, signs, padding, several reports per interface | a report is read as its descriptor says |
| Switch Pro start-up (`handlers/hid_switch_pro.cpp`) | which commands were accepted, time of the last | `run`, `process_report` | endpoint of the stack | busy endpoint, retries, report's command in between | pause kept, all commands get through |
| Choice of a driver (`hid_api.cpp`, `hid_handler_builder.*`, `bare_api.cpp`, `handlers/bare_xbox*.cpp`) | builders, endpoints listened to, pads of a receiver | `find`, mount and unmount, `parse_config_descriptor`, `open_vendor_interface`, `report_received` | USB stack, drivers, registry | order of the builders is open; endpoints that cannot be opened; reports nobody understands | a device gets its driver and stays heard |
| Translation of pad reports (`handlers/hid_ps3.cpp`, `hid_ps4.cpp`, `hid_hizue.cpp`, `hid_impact.cpp`, `hid_switch_pro.cpp`, `bare_xbox_*.cpp`) | none | `process_report`, `report_received` | switchers | each pad has its own bits, hats and axes | the same hold is the same joystick on every pad |
| LED patterns (`led_task.hpp`) | pattern, position, deadline | `set_pattern`, `run` | mode change, swap, mount | requests while one is shown; absolute deadline on a wrapping clock | what is shown is shown whole, and ends |
| Main loop (`main.cpp`) | debounce counter, last state of the button | loop | all | a bouncing button, counted in turns | one change per press, none lost |
| C64 tools, PIO program, TinyUSB and pico-sdk | - | - | - | - | not modelled: programs of the C64; cycle-exact assembly; code outside the repository. They appear as external definitions, as the code uses them |

Everything that is hard to test is listed at its line, with the properties that
would catch it, under "hazards" in `PROJECT.json`.

## The modules

- **SourceRegistry** has a holder for each place that can own a report source (HID
  slots, vendor devices, the two proxies of a receiver): `handler`, `target` and the
  switchers' `source`, a weak pointer. Destroying a source leaves weak pointers
  expired (`Expired`), as in the code. Actions: `HidMount`, `HidMountUnsupported`,
  `HidUmount`, `MountXboxOne`, `MountReceiver`, `PadConnected`, `PadDisconnected`,
  `BareUmount`, `PipelineRun`. **SourcePool** is its abstract specification: two
  sources per kind, first come first served.
- **Pipeline** is what lies between reports and lines: `mux` gathers the output side
  (which port a switcher writes to, GPIO levels, who drives the pot lines, cached
  outputs, state machine numbers). Its operators (`ConfigureGpios`, `SetPortState`,
  `EnsureMuxing`, `SwapCallback`, ...) are the functions of the same names, chained in
  the code's order. Time is a choice: any `run` may find a period over.
  **MCPipeline** gives the reports.
- **SwapGestures** measures on a wrapping clock what Pipeline leaves to choice:
  select held on a pad, buttons held on a mouse, auto fire.
- **QuadratureMouse** holds encoders, update, takeovers, and the computer's counters
  as external definitions. State, last state and lines are functions of the port:
  `run` guards the writes of `mouse_target_` and `wheel_target_` separately, a report
  writes the former only, a takeover or swap clears both (`EnsureMouseMuxing`), and the
  pad or second mouse of the wheel's port writes that one (`OtherWrites`). It refines the
  abstract **MouseTravel**, in which a pointer follows a mouse step by step.
  **MCQuadratureMouse** names axes, ports and lines.
- **C1351Mouse** splits `run` between the two values it puts into the FIFOs, and has
  the PIO's measuring cycle and the reading driver as external actions.
- **C1351Calibration** has the combination, four steps, save, abort, the shared
  table, swaps, mode changes and power failures. Saving is split at its two calls of
  the flash driver.
- **SmallFee** has a byte as the set of its 1 bits, so programming is an
  intersection. `write_config` is split at the calls of the flash driver.
  **ModePersistence** extends it with the mode, the dirty flag and the deadline.
- **FieldExtractor** holds the pure operators of that class and no state; **HidMouse**
  is a mouse's driver: the walk through a descriptor, one action per item, and the processing of a
  report. Its reference is written from HID 1.11 over the descriptor as a whole
  (`Position`, `UsagesOf`, `Number`), as operators of that descriptor, and shares no definition with the walk but two's
  complement and the final saturation; what a field is in binary is a sum over its
  bits (`Binary`). `Regular` is the shape that the descriptors of mice have: one application
  collection of a mouse with its inputs in the pointer, one ID at most, one field of a name. Items that the parser skips are left out, and an input's flags
  are its kind. **MCHidMouse** lists descriptors.
- **SwitchPro** has handshake, timeout and LED command on a busy endpoint.
- **PadReports** has an operator for what each driver makes of a report: a report is
  the record of the fields that are read, a GamepadReport the set of its flags that are
  true. `Sent` is what a pad sends when it is held in some way (external, from the
  comments of the `struct Report`s), `Drawn` the labels of the buttons in
  `doc/button_layout.svg`, and `AsLabelled` what should come of a hold by some labels.
- **VendorInterface** has the walk of `parse_config_descriptor` as a function over the
  descriptors of a configuration, and what the Xbox drivers open of what it finds.
- **UsbDevices** composes the four: a device is plugged in, gets a driver (`HidMount`,
  `VendorMount`, `DeviceDescriptor`), is started, parsed and listened to, reports, is
  not understood, and goes at any time. Devices share nothing but the pipeline, so there
  is one at a time. **MCUsbDevices** lists devices, **MCHidMouse** the descriptors of mice.
- **LedPattern** is the blinking, **MainLoop** extends it with the turns of `main`, the
  user button and everything that asks for a pattern.

Operators named `...Wrapped`, `...Early` and the like with the comment "Mutant of"
are plausible bugs; `PROJECT.json` pairs each checked property with one that breaks it.

## The runs

| Run | Checks | Shows | Bounds |
|---|---|---|---|
| `registry` | TypeOK, Routing, ServiceKept, PromotedEventually, ImplementsPool | wiring through weak pointers is what the abstract pool promises | three HID slots and one vendor address: a third source of a kind exists, and a receiver's two pads compete with HID sources |
| `pipeline` | PotOwner, SmAssigned, PadCoherent, QuadratureClean, InputShown | after every sequence of takeovers, swaps and mode changes the lines have one owner who knows what they show | a mouse and two pads (one shares the mouse's switcher), each report idle, enough to take over, or a gesture; swap threshold 2 |
| `c1351_port_clean` | MousePortClean, violated | finding 1 below | as `pipeline`, one property |
| `mode_persistence` | LogShape, Recoverable, WearLevelled, ModeSurvives, WrittenBack | the log recovers from power failures, and the mode is written and survives | a sector of 3 bytes of 3 bits fills and is erased; delay 2 on a clock modulo 6, so that it wraps within and between delays |
| `quadrature_mouse` | MovementKept, Spaced, Drained, ImplementsTravel | counters follow the mouse; a takeover costs at most two counts per axis, and a pad on the wheel's port only the wheel | Amiga, one axis on the mouse's port and the wheel on the other, period 2, timer modulo 5 (wraps between any two updates), two reports, two disturbances per port, each a takeover or lines of a pad that show another phase or none |
| `c1351_mouse` | PositionKept, NoLatency, EventuallySeen, PulseLength | fast movement is never taken for its opposite, and the pointer arrives; wheel pulses are whole | range 20 instead of 128, read every 5 cycles at the latest, so that 9 half-steps stay below 10 and two steps per cycle would not; clock modulo 4; two reports |
| `calibration` | Agreement, CombinationEnters | shared table and flash agree once nobody calibrates; the combination starts it | two mice (symmetric), one adjustment and one disturbance, timeout 3 instead of 5 |
| `calibration_abort` | AbortDiscards, violated | finding 2 | one mouse, no disturbance |
| `usb_devices` | MadeFor, Heard, MouseReportRead, FallbackJustified, ButtonLayout, HandshakeSpaced, Ready | every device gets its driver, stays heard through failures, and is read as its descriptor says or handed on as it is held; a Switch Pro controller is started | bytes of 4 bits for mice (8 and 16 bit fields are 4 and 8), 68 descriptors with fields of 1 to 4 bytes, aligned and not, with report ID, with a keyboard before or behind, and 243 reports each; every pad, held each way by D-pad and by stick and with each button; configurations with alternate settings, associations and audio before and behind the pad; pause 3, LED after 2 reports, clock modulo 7 |
| `hid_mouse_tilt` | WheelExtracted, violated | finding 3 | one descriptor |
| `swap_gestures` | OneSwap, ToggledEvenly, HeldLong, SwapComes | one swap per hold, not before its time | period 2, threshold 3, hold 3, clock modulo 7: it wraps in every hold. A pad's button keeps its state for more than a period, since a shorter release is not seen |
| `main_loop` | OncePerPress, PressTaken, TimesKept, PatternEnds | a press changes the mode once, however the button bounces; patterns keep their times and end, whatever is asked for | the four patterns that are asked for, with times of 1 to 3 ticks, clock modulo 5; a button that bounces for 2 turns and is debounced for 5 (100 in the code), begun at every step |

A module states its type invariant as `TypeOK` (`CalibrationTypeOK` where it is extended
together with another). The runs spend their properties on what could be wrong, and only
`registry` lists it; the others are proved. That of HidMouse and of SwitchPro is proved as a part of
that of UsbDevices.

Bounds are named in the modules (`MaxReports`, `MaxCycles`,
`MaxAdjustment`, `MaxDisturbances`, `BounceTurns`). A counter whose value only matters
up to a threshold stops one past it; history variables (`since`, `held`, `swaps`)
saturate likewise. Clocks are small so that they wrap within a run: the code only
takes differences, or compares an absolute deadline (`Expired` of ModePersistence, `RunLed`), whose
overflow is then met in every run.

**Fairness.** `main` never leaves its loop, so the `run` actions are weakly fair, and
so are ticks of a clock, transfers of the stack and the SID's cycles. Modules with
a clock let the loop run between two ticks (`due`), because an iteration is shorter
than a tick of `board_millis`; `QuadratureMouse` counts time in such steps of the
microsecond timer. `ModePersistence` lets ticks pass while the flash driver blocks the
loop. Nothing a user or a device does is fair, except that in the bounded runs they
eventually rest. In `usb_devices` and `c1351_mouse` what the device (reports) or the C64 (a
reading at least every `MaxCycles`) is relied upon to do is part of `FairSpec`.

## What the runs refute

1. **`MousePortClean`** (`processors/mouse_c1351.hpp:230`). A C1351 mouse that takes a port over from
   a pad leaves the direction and fire lines the pad held active until a mouse button
   changes: `ensure_mouse_muxing` hands over the pot lines only. `interfaces.hpp:216-219`
   expects it "to configure the GPIOs for mouse usage".
2. **`AbortDiscards`** (`processors/mouse_c1351.cpp:26`). An abort reloads the table from flash; if
   none was ever saved, nothing is loaded and the adjusted values stay in use.
3. **`WheelExtracted`** (`handlers/hid_mouse.cpp:84`). Usages are cut to their low byte and
   the page is ignored, so the tilt of a wheel (AC Pan, 0x238) replaces the wheel (0x38).

Noticed while modelling, without a run of their own:

- A configuration is lost when the sector is full at power-on (`small_fee.hpp:86`, against
  `doc/user_manual.md:48`; `Recoverable` and `ModeSurvives` exclude that state by name).
- A write-back deadline of exactly 2^32 - 1 is never met (`pipeline.hpp:243`; `WrittenBack`
  excludes it by name), and one that overflowed is met at once.
- An LED pattern that is asked for while another is shown is dropped (`led_task.hpp:83`),
  so not every found device is acknowledged (`doc/user_manual.md:15`) and the LED may show another
  mode than the one that is set. `run` reads one time behind the end of a pattern (`:100`).
- `doc/button_layout.svg` (:120, :130), the manual's Gamepad Layout of a PlayStation controller, draws
  Secondary Fire in the north and Auto Fire in the south. The drivers have them the other way
  round (`handlers/hid_ps3.cpp:117` and `:119`, likewise PS4, Impact, DragonRise and Xbox), all but
  the Switch Pro's. `ButtonLayout` does not decide between the two: it takes the labels as
  drawn or with these two exchanged (`Drawn`, `Exchanged`), and checks the rest of the layout.
- The drawing has no label in the east; all drivers but the Switch Pro's fire there.
  It draws sticks "Converted to D-Pad", which the drivers of Impact and DragonRise do not read
  (`Steered` excludes them by name).
- A receiver's button data that arrives before its connection report would be handed on
  through a null pointer (`handlers/bare_xbox360_wireless.cpp:135`); `Xbox360Report` has the
  order of the receiver as its guard.
- The Xbox drivers want room for a HID descriptor in an interface that need not have one
  (`handlers/bare_xbox_one.cpp:88`), so a lone vendor interface with two endpoints and nothing
  behind is not opened. Requests for reports that the stack refuses are not repeated.
- An interface whose first collection is not the mouse's is not taken for a mouse, though
  `HidMouse` would read it (`handlers/hid_mouse.cpp:310`). Buttons with a usage each, instead of a
  range, make the parser give up (`:100`); the boot layout is read then.
- The comment of the calibration's combination says LLRRRL and the code wants LLRRR and the
  middle button (`mouse_c1351.hpp:262`, `:309`). The Switch Pro's LED command keeps no pause
  (`hid_switch_pro.cpp:276`). Select swaps after 0.2 s, not "a second" (`interfaces.hpp:62`).
- A power failure within an erase can leave any mixture in the sector; `PowerFailure` with
  "erase" shows that `LogShape` fails then.

## What is proved

The theorems hold for every value of the constants that satisfies the modules' `ASSUME`s.

- **SourceRegistry_proofs**: `TypeCorrect` and `RoutingCorrect` from `IInv == TypeOK /\ Routing`,
  which is inductive as it stands; every action is one of three changes of the wiring
  (`Destroy`, `Replace`, `Promote`) with a lemma each. `ServiceKeptAlways` and
  `RegistryImplementsPool` add `Detached` (who has no source has no target) and show that
  a new source finds a place exactly when fewer than two of its kind are served
  (`PlaceFound`): unmounts map to `Unplug`, mounts to `Replace`, promotions to stuttering
  steps. Assumption: the names of "none" are no holders.
- **Pipeline_proofs**: `TypeCorrect`, `PotOwnerAlways`, `SmAssignedAlways`,
  `PadCoherentAlways`, `QuadratureCleanAlways`, for all devices, reports and build
  options. The invariant says of each switcher that its port is `Fine`. One lemma per
  operator says what it leaves of `mux` (`ConfigureGpiosOK`, ..., `EnsureBothOK`, `SwapCallbackOK`),
  whatever it finds, and that it leaves a settled other switcher settled; one lemma per
  action puts them together.
- **ModePersistence_proofs**: `LogShapeAlways`, `RecoverableAlways`, `WearLevelledAlways` for every
  sector size and byte width, provided that power does not fail in an erase. The invariant adds
  where `write_config` may be (a program never finds a full sector, an erase always does, and
  the value to be written is not the clean one, whose top bit it lacks).
  `ModeImplementsFee`: every step of ModePersistence is one of SmallFee or leaves its variables
  alone, so the mode inherits these three (`ModeFlash`). `ModeSurvivesAlways` and `TypeCorrect`
  rest on `ModeStored`: unless a change waits, the byte that is cached or being written is the mode's.
- **QuadratureMouse_proofs**: `TypeCorrect`; `MovementKeptAlways`, with the invariant `Bounded`: the
  distance of an axis, plus what the computer counted when its port's lines left the cached state
  (`Off`), is at most two per disturbance of that port, and two less as long as the port still
  shows the lines of others. It is needed because a disturbance may go unseen until a later
  write, which counts from lines the mouse does not know (`DecodedDetour`). `TravelImplemented`:
  until the first disturbance every step is one of MouseTravel or stutters. `SpacedAlways` rests on
  `Measured`: run's difference of two readings of a wrapping timer is never more than the time
  since the last update (`DifferenceTicks`).
- **C1351_proofs**, for both modules of that mouse. `TypeCorrect`, `NoLatencyAlways`,
  `PulseLengthAlways` and, given `FastEnough`, `PositionKeptAlways`. The invariant says of each axis
  that the two FIFOs and both pots are consecutive values of the mouse's position (`QueueOK`,
  `ValueOK`) and that what was moved is their sum (`SumOK`); `WayOK` bounds what the computer has not
  read yet by the cycles since it read, 1.5 steps each and what the pattern of the half-steps runs
  ahead (`Lead`). `FastEnough` is that this stays below half the range: a C64 that reads with
  its 60 Hz interrupt does so every 33 cycles of 512 us at the latest, 3 * 33 + 4 = 103 < 128. For the
  calibration `CalibrationTypeCorrect`, `AgreementAlways` (inductive, given the types: who
  becomes effective has saved, reloaded or adjusted nothing) and `CombinationEntersAlways`,
  for the combination the code has, with the invariant that the counter is how far the last
  presses were and the timeout what the pauses left of it.
- **SwapGestures_proofs**: `TypeCorrect`, `OneSwapAlways`, `ToggledEvenlyAlways`, `MouseHeldLong` and,
  given `ReleasesSeen`, `HeldLongAlways`. `TimersOK`: on a wrapping clock both differences are the times
  that passed; `SwapsOK`: counter and flag of a gesture know whether it has swapped;
  `CountOK`: a counter of n was held for n - 1 periods at least. `ReleasesSeen` is what the bound
  `MinChange` is for: a pad's button that is let go stays so until one period has seen it.
- **UsbDevices_proofs**: `GamepadAsLabelled`, each pad has one of two labellings of its buttons, and
  each of the 5184 ways to hold it is handed on by that (the run takes a few per pad), and `NeverOpposite`. An
  axis comes out as it was held if its thresholds lie between rest and ends
  (`UpwardsAsHeld`, `DownwardsAsHeld`), a hat by the step that has its directions (`HatStep`,
  `StepsOf`), a button because no two of a pad share a bit (`ButtonsMeant`); a lemma per pad
  puts these together (`GamepadIsLayout`). With `Driven` (no driver without its device or before the device's
  descriptor was read, nothing handed on without a driver) it gives `ButtonLayoutAlways`.
  `MadeForAlways` needs that a device is what its IDs and reports say (`Identified`) and shows that no
  ID is of two builders, so that their order does not matter; `HeardAlways` needs that a
  configuration shows the endpoints of the device (`Advertised`) and shows that none is lost
  once it is listened to. `FallbackJustifiedAlways` needs that descriptors are nested as those of
  mice are (`Nested`) and shows that the parser knows what HID 1.11 says, item by item: how deep
  it is, the usages of both collections it is in, how many fields the next input has and how
  many usages it got (`Known`, from `UsageKnownStep` and `LengthKnownStep`). `FieldRead`: wherever a
  field begins and however long it is, up to a whole word, either method of the extractor
  returns the number that the field's bits are (`Binary`), in two's complement if it is signed. An
  aligned field is the sum of its bytes (`JoinedBinary`); of an unaligned one the bytes that are
  shifted and cut off at 32 bits keep the bits of the field (`ShiftedRead`, `WordKeeps`), and turning
  the sign bit and taking it away extends it (`TurnedBack`).
  `MouseReportReadAlways` rests on it and needs that a mouse's descriptor is `Regular`. While the
  parser is at an item it has learnt what is behind it (`Learning`): the size of a field, the offset
  as the bits of the mouse's inputs and of the ID so far (`Offset`), the ID, the usages in their
  order (`UsagesKnown`), and each field that an input behind it gave (`FieldKnown`); every item
  leaves that much learnt (`LearningStep`), and at the end it is where the fields are by HID 1.11
  (`Learnt`), so that a report is read as what it says (`NumberRead`, `ReportRead`). The sum is
  the library's `SumFunction`, of which `SumTake` shows that any element may be taken out first. TLC
  evaluates all four assumptions for every device of the run (MCUsbDevices).
  `HandshakeSpacedAlways` has the invariant `Spacing`, what `Measured` is for the Switch Pro.
  `TypeCorrect` takes the four assumptions and a fifth, that a report has the four bytes of
  class MouseReport, which the fallback reads without looking at the length. What is handed on
  has the types of that class because it is packed from numbers: the bytes of the fallback, or
  what the report says (`NumberInt`), which `Reading` knows that the extractors return.

  What would be an induction is one over a least counterexample (`Least`, `FromZero`), as the
  theorems that take a predicate cannot be instantiated. Powers of two are listed up to
  2^39, more than any field takes, since the prover has no laws of exponents; `PowerSum`
  is derived from the list.
- **MainLoop_proofs**: `TypeCorrect`, `OncePerPressAlways`, `PressTakenAlways`,
  `TimesKeptAlways`. `LedOK`: while a pattern is shown and the clock does not overflow in
  it, deadline and time passed add up to the position's time. `DebounceOK`: after a change
  of the mode the counter loses at most one per turn in which the button reads as released,
  so that it outlasts the bouncing on both sides; `RestOK`: who presses after `RestTurns`
  turns finds it at 0. Assumption: press and release together bounce for less than the
  debouncing lasts.

Only model-checked: all liveness (`PromotedEventually`, `InputShown`, `WrittenBack`, `Drained`,
`EventuallySeen`, `SwapComes`, `PatternEnds`, `Ready`), since temporal properties under fairness and
ENABLED are out of the prover's reach. The three
refuted properties have no theorem. FieldExtractor adds what the code puts together with `|`, as the
parts have no bit in common: the prover has no bitwise operators, and this keeps
HidMouse and UsbDevices within its reach.

## Limits

Callbacks are atomic: `bare_api.cpp` calls the stack's task while it reads descriptors,
and what that might call is not modelled. In Pipeline and SwapGestures a pad's report is a
set of flags, as PadReports makes it. A source that is unplugged leaves its last report in
`in_state_` (`gamepad_features.hpp:114`): Pipeline has no unplugging and SourceRegistry no
reports. `push_calibrated_value`'s interpolation is taken for correct. Pipeline abstracts the
encoder's lines to `Motion`, and its two-mouse and wheel builds are covered by the
theorems, not by a run. QuadratureMouse has the takeover that ends a pad's use of the mouse's own
port, but not the pad's directions before it: no update runs meanwhile, and what a computer
counts then is no movement of the mouse. A mode change makes a new mouse, in its initial state. Descriptors and configurations in `usb_devices` are well formed, and
mice have a range of usages for their buttons. Of the lists of vendors and products in the
Xbox checks two pairs stand for all. The button of MainLoop settles within half the
debouncing, counted in turns as the code does; how long a turn takes is left open.

The tools in `src/c64tool` run on the C64 and are no part of the adapter; what they and their
user do to it, pressing the buttons of a mouse in calibration and reading the pots, is
external in C1351Calibration and C1351Mouse.

## Plan

Done: registry and pool; pipeline; flash emulation and persistence; quadrature mouse
and travel; C1351, its calibration; HID mouse; Switch Pro; gestures; pad reports;
vendor interfaces; devices from plug to report; LED and main loop; theorems for every
safety property that a run checks and every type invariant. In that order because each later
module refines what the earlier ones abstract.

Next, model: SourceRegistry composed with Pipeline, for the report that outlives its pad; the
interpolation of C1351 durations.
