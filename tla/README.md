# A verification of the OpenTrickler controller firmware

The OpenTrickler controller is a C/C++ firmware for the RP2040 and RP2350. It
dispenses powder onto a scale with two tubes, a coarse and a fine one, each
turned by a stepper motor, behind a gate that a servo opens and shuts. This
directory holds TLA+ models of it, the TLC configurations that check them and TLAPS
proofs about them.

## The system

### Who runs

FreeRTOS schedules these tasks on both cores (`configNUMBER_OF_CORES` is 2), so
that any two of them interleave:

| task | priority | loop |
|---|---|---|
| menu task | 6 | `menu_task`; charge mode, cleanup and Learn Powder are calls it makes and stays in |
| TCP/IP thread | 7 | every REST handler, one request after the other |
| gate task | 8 | `servo_gate_control_task` |
| fine, coarse motor | 8, 9 | `stepper_speed_control_task`, one for each |
| scale listener | 9 | the serial parser of the driver in force at boot |
| wireless, its LED | 3, 2 | `wireless_task`, `led_interface_task` |
| apply | highest but one | `ota_apply_task`, created once an image is accepted |

An interrupt handler puts encoder and button events into `encoder_event_queue`.
REST handlers put events into it as well, and otherwise reach into the same
global structures the menu task works with (`charge_mode_config`, `learn_mode`,
`profile_data`, `exit_state`) without any lock. This is where most of what is
hard in this program comes from.

### Components

| component | state | operations | what makes it correct |
|---|---|---|---|
| powder gate, `servo_gate.c` | the last open ratio, a one-place command queue, a completion semaphore | `servo_gate_set_ratio` with and without blocking; the task's ramp | the newest command wins, a blocked caller wakes up, a blocking call returns with its own command done |
| motors, `motors.c`, `stepper.pio` | current and previous velocity, a two-place speed queue, DIR and EN pins, the FIFO to the PIO | `motor_set_speed`, `motor_enable`, ramps | speeds carried out in order, direction agrees with the sign, the pulses settle on the last command |
| charge mode, `charge_mode.cpp` | the phase, the set point, the handoff, the record still to be logged | zero, throw, backoff, settle, top-up, judgement, cup removed and returned; REST | motors stop with the throw, the bulk carries at least half, one record for each throw, everything ends |
| Learn Powder, `learn_mode.cpp` | phase, throw index, cup load, result | ladders of timed throws, cup handling, fit, confirmation rounds with back-offs; REST | motors stop, the cup holds what lands, the tuner is held off, the result is what was measured |
| live tuner, `learn_tuner.c` | for each profile: what was accepted last, what is on trial, the knobs and their steps, two arms of throws | called after each logged throw; notices edits | parameters stay in limits, a trial is judged against a full baseline, the search ends, an unverified candidate never becomes the baseline |
| session statistics, `session_stats.c` | a ring of 400 records, totals | record, reset, export in pages | ring and totals describe the same session |
| cleanup mode, `cleanup_mode.cpp` | on or off, speed | the encoder changes the speed; REST | motors stop on leaving |
| profiles, `profile.c` | eight profiles, the selected index | select, edit, save | one fit, or one confirmation, belongs to one profile |
| settings store, `eeprom.c`, `cat24c256_eeprom.c`, `common.c` | records with revision and CRC, a copy of each in RAM | load with defaults, save page by page, erase | a torn record is recognised, a finished save survives |
| firmware update, `ota.c` | received bytes, staging area, state | upload, verify, apply | only a verified image is copied, whole |
| HTTP server, `http_rest.c`, `rest_endpoints.c` | a state for each connection, the table of handlers | accept, receive, send, poll, close; parsing of parameters | connections end, uploads are counted right, parameters arrive as sent |
| encoder and buttons, `mini_12864_module.cpp`, `button.c` | the event queue | interrupt, REST, wait | an RST is honoured |
| menu, `menu.c`, `mui_menu.c` | form, `exit_state` | walks the forms, starts the modes | RST leads out, motors rest at the forms |
| scales, `scale.c` and ten drivers | the bytes of a frame, the latest reading, its semaphore, the serial line's mutex | serial parsers, zero and tare commands, calibration dialogue | a parser falls back in step, commands do not mix |
| wireless, `wireless.c`, `access_point_mode.c` | state of the connection, a queue of LED commands | join, retry, fall back | the LED shows the state |
| system control and boot, `app.c`, `system_control.c` | | boot order, halts; erase, save, reboot | part of the settings store |
| display, lights, ring buffer | | output only, or arithmetic | |

`PROJECT.json` lists them with their files, and the places where each hazard
bites.

### What is hard about it

* **Unlocked sharing.** REST writes the charge mode state, the set point, the
  selected profile, the gate's enable flag and the number of confirmation throws
  at any moment of a phase.
* **Several exits to each loop.** Each polls the queue, a clock, the scale and
  its own goal, and each exit has to undo what its phase began.
* **Two kinds of waiting.** `servo_gate_set_ratio` waits on a semaphore which
  any call may drain, motors take speeds through a queue of two, and the REST
  thread waits without limit on a full event queue.
* **Numbers that are none.** `strtof` reads "nan" from a request, a line of the
  scale that cannot be decoded is a reading of NaN, and a limit that only compares
  lets NaN pass. `motor_set_speed` filters it, most others do not.
* **Failing parts.** The scale falls silent, or delivers something that is not a
  number; readings never become steady; a tube is empty.
* **Power and lines.** The power fails between two pages of a record or in the
  middle of copying a firmware; bytes of a scale are lost; a client stalls,
  closes or resets its connection.
* **Long sequences.** Direction pins that are toggled but never set, a cup that
  fills up over twenty throws, retries of retries, a search of dozens of throws with edits in
  between.

## The modules

| module | models | proofs |
|---|---|---|
| `ServoGate` | `servo_gate_set_ratio` and the gate task | `ActuatorProofs` |
| `SpeedServo` | what a motor promises (abstract) | |
| `StepperMotor` | `motor_set_speed`, the speed task, the FIFO and the PIO; implements `SpeedServo` | `ActuatorProofs` |
| `ChargeMode` | `charge_mode_menu` with all its phases, the REST state handler, the event queue | `ChargeModeProofs` |
| `LearnMode` | `learn_mode_menu`, the REST requests that reach into it | `LearnModeProofs` |
| `LearnTuner` | `tuner_observe` and its adapter `learn_post_throw`, edits from outside | `LearnTunerProofs` |
| `SessionLog` | recorder, reset, page reader and the browser's table | `SessionLogProofs` |
| `Ota` | the updater as operators on one record | |
| `HttpServer` | connections, requests, parameters; with `Ota`, uploads and the copying task | `HttpServerProofs` |
| `SettingsStore` | the records, boot, saving, erasing, and every settings handler | `SettingsStoreProofs` |
| `Scale` | ten listeners, the last measurement, the simulated scale | |
| `Menu` | forms, the menu task, cleanup, calibration, the serial line | `MenuProofs` |
| `Wireless` | joining, falling back, the LED | |
| `MC...` | instances of these for TLC | |

`HttpServer` composes the server with `Ota`; `Menu` composes the menu task with
the modes as far as they share motors, queue and serial line, and leaves their
insides to `ChargeMode` and `LearnMode`; `LearnMode` takes a charge as one step,
and both leave what happens to a logged throw to `LearnTuner` and `SessionLog`.

### ServoGate

`Call`, `Put` and `Take` are the three steps of `servo_gate_set_ratio`: clamp
and drain the semaphore, overwrite the queue, wait. Only the menu task makes
calls that block. `ReceiveDisable`, `ReceiveRatio`, `Ramp`, `Publish` and `Give`
are the gate task. `Ramp` may move any part of the way left in a turn, since
time alone drives it; it cannot be recalled. Positions are the numbers from
`Open` to `Closed`.

A request may be any ratio, in range or out of it, or NaN, which the clamp and every
comparison let pass. A command reported is then no longer a command carried out, so
the properties keep the two apart: `Reported` is what the gate says of a command,
`InPlace` where the shutter is, and `Applied` is both, unless a NaN has come
since the gate last moved.

Three history variables let the properties speak of this: `last_command` (the
command written last), `alone` (this call had the gate to itself) and `after_nan`,
the trail a NaN leaves: the NaN, then the first ratio after it, to which no ramp
goes, until a command for another ratio moves the gate again (`AfterNan`). The
names of this module differ from those of `StepperMotor` (`GateInit`, `GateSpec`,
`control_queue`), so that one module can hold the proofs about both.

### StepperMotor

A sender is between the call and its `xQueueSend` in `sending`; the queue has
two places, so a sender may be held up while a ramp runs. The task's steps are
`Receive`, `RampTurn` (each turn clears the FIFO and writes one period),
`RampedDown`, `Toggle` and `Ramped`. `Pull` is the first instruction of
`stepper.pio`. A period is told apart by the speed it stands for. The refinement
maps the queue to the backlog of `SpeedServo`, the speed under way to its goal,
and the pin with the speed to its velocity.

### ChargeMode

`pc` says where the menu task is: in the menu, at the `switch` of
`charge_mode_menu`, or in the loop of one phase. Each loop is a handful of
actions: the events it polls (`Poll`), what a reading does, what a time limit
does. `RestState`, `RestSend` and `RestWrite` split the REST handler where it
may sleep. Weights are small integers and a reading may be `NotANumber`; PID
output is reduced to whether, and in which direction, a tube turns, so a
reading chooses any speed the arithmetic may produce. A throw chooses any
handoff of `Handoffs`, which also holds values outside the allowed range and NaN, as
the settings do, since REST stores what `strtof` reads. For the same reason the
set point may become NaN at any moment (`RestTargets`): then no comparison with it is true,
and only the clocks and the user end a throw.

### LearnMode

`pc` is again the loop or the step the menu task is at, and `state` is the
firmware's own. The two ladders share their actions: `EnsureRoom`, `StartRun`,
`RunEnds`, `Measured`, `Zeroed`, and so do the rounds, with a charge in place of
the timed run. `ThrowZeroed` is the order of the throws. A charge is one step
here, because `ChargeMode` has it in full: it begins (`StartCharge`), and it is
done, or given up, with the motors stopped. A fitted profile is told apart by
its version, which is 1 from the fit and one more after each back-off. What a throw
adds to `cup_load` is what was read, which may be NaN, and not what landed: `Plus`
and `Exceeds` are the code's sum and comparison. The user
may dump the cup while no run is going on, and only then or when asked to.

### LearnTuner

A parameter is a position on a scale of steps, and a knob a parameter the search
may move. The operators are those of the code, each from a record to the set of
records it may become: `start_probe` walks the knobs, `Keep` and `Revert` end a
trial, `enter_monitor` and `reopen_search` begin and end the watch for drift,
`PutBack` and `Anchored` notice edits, `clamp_params` limits what goes out.
Measured times are choices (a trial was faster or not, a margin allows a risky
knob or not), and so is whether a throw's time and error are finite: if not,
`tuner_observe` returns at once, the throw is in the log and in no arm, and an
edit stays unnoticed. An edit may set a parameter to NaN, which `clampf` lets pass
(`Limited`) and `params_differ` (`Differ`) does not see. `BeginRecord` and `learn_post_throw` are apart, because the profile
is looked up before the throw is recorded and its parameters are read after it.

### SessionLog

`session_stats_record` in five steps under the mutex, `session_stats_reset` in
three, by the menu task or by REST, and the page handler in steps of its own,
which takes no mutex. `export` is the browser's loop over the pages; `quiet` is
history: nobody took the mutex since the export began.

### Ota and HttpServer

`Ota` is `ota.c` as operators on a record: the three POST hooks
(`httpd_post_begin`, `httpd_post_receive_data`, `httpd_post_finished`), verify,
apply, reset. A byte is known by the image it belongs to, and a
sector is the set of images whose bytes it holds, so that a mixture is visible.
In `HttpServer` an action is one callback of the stack (`http_accept`,
the `http_recv` ones, `http_sent`, `http_poll`, `http_err`), and the client chooses the pieces its request
comes in, and may stall, close or reset. `ApplyTask` waits, then copies one
sector at a time; `software_reboot` is a reboot or a loss of power at any point.
Queries are sequences of characters, because a property is about their escapes.
A request carries the parameters the client meant and the query it made of them;
`Encode` is what `URLSearchParams` does to a value, `Carries` says that a query is
these parameters as they are written, with a `&` between any two, and
`ClientAssumption` that the requests of an instance are of that kind.

### SettingsStore

A record of the EEPROM has a revision, pages and a checksum, and is written a
page at a time (`cat24c256_write`): its revision is in the first page, its checksum
in the last (`_cat24c256_write_page`). `Interrupted` is what a page may hold when
the power goes. `load_config` is the boot reading them one
module after the other, each with what its own init does with a record it cannot
read. `PowerLoss` falls between any two pages and inside one. The REST handlers
and the menu fields change `ram` without the mutex.

### Scale

A frame is six symbols in the places the driver's format gives them. The ten
listeners share `ReceiveByte` and differ in what ends a frame, how long a frame
may be and what the decoder of each makes of it. Bytes are lost, garbled, or read at another
speed (`line`). The simulated scale adds up what the tubes deliver.

### Menu

`Links` is the graph of all forms, `mode` what the menu task is in. Cleanup, the
calibration dialogue and the Wifi page are whole; charge mode and Learn keep
their motors, RST and the way back. A write to the serial line is a byte at a
time under the mutex. A request over REST is handled in the steps at which its
thread may sleep.

### Wireless

The wireless task's steps, the LED task with its delay, and a clock for the time
limit of joining.

## What is checked

All state spaces are explored in full.

| run | instance | shows |
|---|---|---|
| `servo_gate` | two callers, positions 0 to 2, requests from -2 to 3 and NaN | a sleeping caller always has its wake-up coming, the gate reports the newest command, a call with the gate to itself is synchronous, and the shutter stands where it should unless a NaN has come since it last moved; blocked calls return when others fall silent |
| `stepper_motor` | two senders, speeds -2 to 2 | refinement of `SpeedServo` with its liveness, the pin never drifts, the pulses settle on the last speed |
| `charge_mode` | a set point of 4 that REST may turn into NaN, handoffs above the allowed range and NaN, event queue of 2 | motors only in the throw, bulk off after the handoff, one record for each throw, the bulk carries half for a handoff that is a number; a backoff ends, settling ends, a silent scale stops the motors, RST is honoured |
| `learn_mode` | a probe and one throw a tube, readings of NaN, a cup for two throws, rounds of none or two throws, three rounds | motors only in throws, tuner held off, the cup does not overflow while its load is a number, the version shown is the one measured, RST ends the run |
| `learn_confirm` | two profiles | fails: a finding, see below |
| `live_tuner` | one profile, two knobs of opposite risk and the landing speed, arms of two throws, edits to a number and to NaN, throws without a finite error | what is a number is within limits, a full baseline behind each trial, the search ends exactly when no knob is left, every trial is judged while throws that can be measured go on, an edit never makes an unverified candidate the baseline |
| `session_log` | a ring of three, pages of two, four throws | ring and totals describe one session, an undisturbed export is the log |
| `http_upload` | two connections, two images of one and a half and of one sector, a staging area of two sectors | server and updater agree on the upload, only whole verified images run, parameters arrive as sent, connections end |
| `settings` | ten records, one of two pages, of a new board and of one with an old revision; two requests and one failed transfer or loss of power, in any order | no module works with half a record; a finished save survives |
| `scale` | ten drivers, two values, garbage that is a terminator or nothing, three bytes lost or garbled between two terminators | after one whole terminator every frame is published as sent |
| `menu` | all forms, event queue of two, one REST request | motors at rest at the forms, commands to the scale never mix, RST leads out of a mode |
| `wireless` | a time limit of none or two, a clock to three | the LED ends as the connection is |

Bounds. Two callers of the gate are all there are: the menu task and the TCP/IP
thread. A ramp of two steps has a beginning, a middle and an end, so a command
can arrive in each. Speeds up to 2 give ramps with a turn in between, in both
directions and across zero. One NaN is all there is of its kind, and one number beside it
is enough for what comes before and after it. Weights up to 5 at a set point of 4 with a bracket of
1 leave room for under, inside and over, before and after the handoff, and for
two top-ups. The event queue has more places in the firmware; two are enough for
it to be empty, partly filled and full, and the full queue is where REST sleeps
and presses are dropped. One throw in a ladder after its probe has the same
successors as twelve, and with a cup of two the cup is emptied in a ladder and
again in a round. In the tuner, two knobs are one that is risky upwards and one
that is risky downwards, and arms of two are partly full, full and at their
limit of four. A ring of three wraps with four throws, and an export takes two
pages. Two connections are enough for an upload and a rival; an image of one and
a half sectors has a full, a partial and a missing sector. In the settings, every record of the
old board is imported when it is first loaded, so that no checksum decides anything
before it is saved; on the new board each is judged by its checksum
from the first boot on, whose own saves the power may cut. Two
requests and a fault are, for instance, a request that edits and saves, a save of
the other task, and the loss of power between their pages; over REST, a save with
a restart and an erase without one are asked for, since the menu has the others. One REST request meets every point of the
menu task; with two, `Menu` was checked for its invariants alone.

Fairness. The gate task and the motor tasks have a higher priority than their
callers, so their steps are weakly fair; a call that has been begun goes on. The
menu task's loops wait on the scale or on `vTaskDelayUntil`, both with a limit:
its steps are weakly fair, its poll strongly fair, since each turn of a loop
polls before it can end, however the turns end. Time limits are weakly fair, as
ticks go on. The poll timer of the network stack is weakly fair for each
connection, and so are the apply task, the wireless task, the LED task and the
REST thread, which nothing blocks for ever. A user, a REST client and a scale
never have to do anything; the scale's silence is noticed (`ScaleLost`) because
its time limit is. `live_tuner` alone assumes that somebody keeps charging,
written `[]<>(a throw is recorded) /\ []<>(none is)`: both steps of a record are
always possible, so this is their weak fairness in a cheaper form. `TrialIsJudged`
has the premise that throws with a finite error go on as well, since one without
counts in no arm. Together they say that a
trial ends, not that anybody has to charge. In `Wireless` the LED task's next
command comes after the wireless task has taken the one before: its delay of at
least 20 ms is long for a task that waits for nothing else.

### Configurations to run by hand

Each of these is a configuration next to its module that TLC finds violated, or
not, and that a reader may want to see:

| configuration | checks | result |
|---|---|---|
| `ServoGateNaN` | `ReportedIsInPlace`: whatever was asked for, the shutter stands where the newest command wants it | fails, finding |
| `ServoGateSync` | `BlockingCallIsSynchronous`: any blocking call returns with its own command done | fails, finding |
| `StepperMotorDir` | `DirTogglesAtRest` | fails, finding |
| `ChargeModeTopUp` | `TopUpThroughOpenGate` | fails, finding |
| `ChargeModeHandoff` | `NoHandoffIdlesBulk`: the bulk is not idle for any stored handoff | fails, finding |
| `ChargeModePass` | `PassIsInsideBracket` | fails, finding |
| `LearnCup` | `CupHoldsWhateverIsRead`: the cup holds also when a reading was NaN | fails, finding |
| `LearnTunerNaN` | `KnobsStayInRange`: the limits hold whatever was edited | fails, finding |
| `LearnTunerShared` | `OthersCandidateNotBaseline` with two profiles, which share the handoff | fails, finding |
| `SessionLogGap` | `ExportHasNoGap` while throws are recorded | fails, finding |
| `SettingsStoreReadable` | `SavedIsReadable` | fails, finding |
| `ScaleWait` | `WaitReturnsNext` | fails, finding |
| `ScaleFalseZero` | `NoFalseReading` for the Sartorius driver | fails, finding |
| `MenuBack` | `BackReturns` | fails, finding |
| `MenuExit` | `CleanupExitSparesOthers` | fails, finding |
| `HttpServerUpload` | `UploadEnds` | fails, finding |

### Where the code disagrees with what it says

`PROJECT.json` has them all with their lines. The ones that take several steps
and have a counterexample:

* A blocking call of the gate may return on the completion of an earlier
  command: the semaphore is drained before the new command is written, but the
  gate may be ramping for the old one, and gives the semaphore at its end.
* A NaN sent to the gate becomes the position it was last ramped to, so the next
  command is reported as done while the shutter stays where it was.
* A handoff that REST set to NaN passes both limits of `handoff_for_target` and idles the
  bulk, which "no stored value" should do. `BulkCarriesHalf` is about numbers.
* A throw in Learn Powder whose base reading is NaN makes the cup's load NaN, and
  the cup is not asked to be emptied again in that run.
* A tuner parameter edited to NaN is neither limited nor noticed as an edit, and
  the candidates computed from it are NaN.
* The direction pin is changed when the zero period has been written into the
  FIFO, not when it has been pulled.
* A top-up runs the fine tube behind the gate that the throw has closed.
* A settle time limit that ends on a reading that is not a number is judged a
  pass, since every comparison of it is false.
* Asking REST for another profile's settings selects it, also in the middle of
  the confirmation, and the throws made with it are counted (`learn_confirm`).
* The handoff is one setting and the tuners are many: a change of profile lets
  one tuner anchor on the candidate of another.
* An export skips or repeats a throw that is recorded meanwhile.
* The checksum of a record is taken of the live settings before they are copied;
  a change in between makes the record unreadable.
* The semaphore of the scale stays given while nobody waits: the first wait of a
  phase returns an old reading.
* A line without a number is a weight of zero to the Sartorius driver.
* RST on the profile list leads to the settings wherever the list was opened.
* An ENTER for cleanup that arrives in another mode is remembered, and the EXIT
  that follows ends that mode.
* An upload that is cut off by a reset leaves the updater waiting for ever.

One is outside the models: REST may set a speed of the gate to zero, which is raised to
0.0001, and the time of a ramp then does not fit the 32 bits of `ramp_time_us`.

## What is proved

For every value of the constants that satisfies the assumption of the module
(named `...Assumption` there):

* `ServoGate`: types, `NoLostWakeup`, `LastCommandWins` and
  `AloneCallIsSynchronous`. The invariant adds `NewestCommand`, which says in
  which of queue, `cur` and shutter the newest command is at each step of the
  task, since a property of the idle gate says nothing of a gate at work, and where
  the shutter is if no NaN has come since it last moved; and
  `AloneCall`, which says that the semaphore was empty when the lone call wrote
  its command.
* `StepperMotor`: types, `DirectionAgrees`, and that every step is a step of
  `SpeedServo` or leaves its variables alone. `PhaseInv` says how pin, speed and
  the two velocities relate in each phase of a command: a toggle is right only
  because the ramp before it went to zero.
* `ChargeMode`: types and the three invariants together, which are inductive as
  they stand, for set points and handoffs of any value, NaN included, and
  `BulkCarriesHalf` for handoffs that are numbers, from the arithmetic of
  `handoff_for_target` (`BulkAim`).
* `LearnMode`: types and the four invariants. `PhaseInv` ties the firmware's
  state to the loop the task is in and to the tuner; `RoundInv` says that the
  version of the result is the number of the round that measures it; `CupInv`
  says that what is in the cup and not in `cup_load_gr` is the throw that has
  just landed, and that a throw is started only where it fits, for as long as
  `cup_load_gr` is a number.
* `LearnTuner`: types, `BaselineBehindProbe`, `WatchesIffDone` and
  `CandidateNotBaseline`, for any knobs, limits and size of an arm. The two
  invariants are one statement about a tuner between two throws
  (`Sound`): a probe has a full baseline and a knob that is not done, and it
  watches if and only if all are done. It is proved operator by operator; where a
  probe is started, the walk over the knobs needs that a finite set has a first
  element in its cyclic order, which is the minimum principle of the naturals. The
  types bound what the tuner leaves behind after a throw, where it is a number and
  the limit it is measured from is one (`Numeric`, `InRange`); of a parameter that is
  NaN they say nothing, and the code breaks its own claim there
  (`KnobsStayInRange`). An edit during a probe puts the candidate back before it anchors
  (`PutBack`, `Anchored`), and the limits applied afterwards leave alone what was put
  back, so no part of the candidate comes in again.
* `SessionLog`: `LogIsTheSession` and `QuietExportIsTheLog`. `RingHolds` says, for each step
  of a recorder, what the slots hold counted back from the head; the reader's
  half (`Undisturbed`) says that a slot computed while nobody writes is still the
  right one when it is copied. The modular arithmetic of the ring is in lemmas.
  That the totals account for the records counts the slots that hold a result
  (`Holding`, `Accounted`): a record changes at most the slot it overwrites, and the
  step from slots to positions in the log is a bijection (`CountedBySlot`).
* `HttpServer` with `Ota`: types, `UploadAccounting`, `RunningIsWhole` and
  `ParamsAsSent`. Accounting makes an upload's owner the one connection whose missing bytes the updater
  counts. What runs follows the image: once verified it is whole in the staging
  area, which only an upload changes (`StagedIsVerified`), the apply task owns the
  updater until it ends (`TaskOwnsUpdate`), and the sectors it has copied are
  those of the staging area (`CopiedSoFar`). The types need `Bounded`: as long as
  an upload is within the size of the image, the sector being filled is the one its
  received bytes lead to, and so one of the staging area (`OtaFits`), whatever the
  segments. For the parameters, `QueryCut` shows that the places where a query is
  cut are those between its parameters, since what is escaped holds no `&`, and
  `ParameterRead` that each part is read as the parameter it was written from.
* `SettingsStore`: types, `RamIsWhole` and `SaveSurvives`, for records of any number
  of pages and any number of requests and faults. `Contents` follows the two pages that
  `load_config` looks at: a record of the current revision begins with something that was
  saved or with a torn page, and a torn page has no matching checksum. `Phases` says
  that a task between two pages of a record holds the mutex, and `SavedSoFar` that
  the pages it has written are still there, unless somebody erases.
* `Menu`: `CommandsAreWhole`, because whoever is inside a command holds the
  mutex (the G&G listener, which does not take it, is outside of this), and `MotorsRestAtMenu`, by following the two disable steps on each way
  out of a mode.

The proofs are in eight modules, `ActuatorProofs` for `ServoGate` and
`StepperMotor`. Each `IInv` was checked by TLC on the instance of its run before it
was proved.

Model-checked only: all liveness properties and the liveness part of the
refinement, which need fairness; `PassRateDescribesTheFit`, which fails; and what is
said of `Scale` and `Wireless`, whose state is finite in the code as well (ten
drivers, one queue), apart from the length of a line. A checksum is taken to match
only what it was computed from.

## Assumptions and what is left out

* The cup starts empty in `CupNeverOverflows`: `learn_mode_menu` sets
  `cup_load_gr` to zero without asking, so a run started over a cup that an
  aborted run has filled can overfill it. `clean` says which runs these are.
  A throw lands no more than what `ensure_cup_room` is told to expect, and the
  load of the cup is a number: with NaN the code overfills it (`LearnCup.cfg`).
* The request that sets the cleanup speed turns both motors in any mode. It is in
  `Menu`, where `MotorsRestAtMenu` is stated up to such a request, and left out
  of `ChargeMode` and `LearnMode`: what they say of motors at rest is about what
  the modes themselves do.
* The gear ratio is positive; REST may set it to zero, and the code divides by it.
  So are the speeds of the gate, and a ramp at them fits 32 bits of microseconds.
  Two commands to the gate differ by nothing or by more than the 0.0001 that the
  code takes for a change.
* The set point does not change under the tuner: `HandoffCap` is one number.
* A request to verify names the checksum of an image: any other is a failed
  verification in the code and no step in `Ota`. A FIN that could not be sent is taken
  to succeed at the next poll.
* The G&G listener polls its scale without the mutex of the serial line
  (`gng_scale.c:80`). It is outside `CommandsAreWhole`, which is about the commands that
  the calibration and REST write.
* Fields of a `float` or `struct` written by one task and read by the other are
  written in one step each.
* `ParamsAsSent` is stated for queries that fit the buffer: longer ones are cut
  off without an error. An upload that ends by a reset of its connection is not
  one of those that `UploadAccounting` has to finish.
* `live_tuner` has one profile. `CandidateNotBaseline` is about the candidate of the
  profile itself, and proved for any number of them; the shared handoff carries a
  candidate from one to another (`OthersCandidateNotBaseline`, `LearnTunerShared.cfg`).
* A client escapes what means something to the server in a value, and puts neither `&`
  nor `=` in a name (`ClientAssumption`): the portal's names are fixed, and
  `URLSearchParams` and `encodeURIComponent` escape its values.

Not modelled:

* The arithmetic of the fit, the back-off, the PID and the tuner's statistics,
  and the ring buffer of readings: floating-point code without interleavings.
  What it decides is a choice in the models.
* The DHCP and DNS servers of the access point: third-party code, listed with
  the wireless component.
* Server-side includes and header generation in `http_rest.c`, which the build
  switches off, and the text of replies.
* Drawing and the LED protocol, which are output only; quadrature decoding and
  debounce, which decide only whether an event is sent; the TMC2209 registers.
* The cursor within a form: any field of a form may be pressed.
* The web portal, apart from the loop that exports the log.

## What could come next

1. A refinement of an abstract log (a list of throws) by `SessionLog`, with the
   reset as its only other step. The invariants it needs are those of
   `SessionLogProofs`.
2. Proofs for `Scale` (`WholeFrameIsRead` for frames of any length) and for the
   safety part of `Wireless`.
3. `Menu` with the whole of `ChargeMode` in place of what it keeps of it, so that
   a request over REST is followed from its handler to the end of a throw.
4. The composition of `StepperMotor` with `Menu`: motors at rest in the sense of
   their pulses, not of the speed they were last sent.
