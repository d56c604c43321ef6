------------------------------ MODULE ServoGate ------------------------------
(***************************************************************************)
(* The powder gate: servo_gate.c.                                          *)
(*                                                                         *)
(* Tasks move the gate through servo_gate_set_ratio: drain the completion  *)
(* semaphore, overwrite the one-place command queue and, when block_wait   *)
(* is set, sleep on the semaphore.  servo_gate_control_task receives a     *)
(* command, ramps the shutter to it, publishes the new state and gives the *)
(* semaphore.  The calls that set block_wait (cleanup_mode.cpp,            *)
(* charge_mode.cpp, learn_mode.cpp) are all made by the menu task; REST    *)
(* requests and the settings form never block.                             *)
(*                                                                         *)
(* A ratio is an integer in 0..Closed (0 is open).  -1 and -2 are the      *)
(* code's own sentinels for "disabled" and "no position known yet".  REST  *)
(* may also ask for NaN, which strtof reads and which every comparison of  *)
(* the code lets pass, because it is neither below nor above anything.     *)
(***************************************************************************)
EXTENDS Integers

CONSTANTS
  Callers,    \* the tasks that call servo_gate_set_ratio
  Menu,       \* the one among them that passes block_wait = true
  Closed,     \* the closed position; the ramp resolution
  NoCommand,  \* an empty control queue
  NotANumber  \* the ratio NaN

ASSUME GateAssumption ==
  /\ Menu \in Callers
  /\ Closed \in Nat \ {0}
  /\ NoCommand \notin Int
  /\ NotANumber \notin Int \union {NoCommand}

Open     == 0
Disabled == -1
Unknown  == -2

Ratio    == Open .. Closed
AnyRatio == Ratio \union {NotANumber}
Command  == AnyRatio \union {Disabled}

\* What a caller may ask for: REST r0 is any float, in range, out of it or NaN.
Request == (Unknown .. (Closed + 1)) \union {NotANumber}

VARIABLES
  pc,              \* where each caller is in servo_gate_set_ratio
  arg,             \* the command of each caller's latest call
  block,           \* does the menu's latest call wait for completion?
  control_queue,   \* one command or NoCommand
  ready,           \* move_ready_semphore, a binary semaphore
  gate_task,       \* where servo_gate_control_task is
  cur,             \* the command it is executing
  shutter,         \* the position the PWM holds the shutters at
  prev_open_ratio, \* the position it was last ramped to, or Unknown
  gate_state,      \* the state the UI and the REST server report
  gate_ratio,      \* the ratio they report
  last_command,    \* history: the command written to the queue most recently
  alone,           \* history: the menu's call has had the gate to itself
  after_nan        \* history: see AfterNan

callerVars == <<pc, arg, block, alone>>
gateVars   == <<cur, shutter, prev_open_ratio, gate_state, gate_ratio, after_nan>>
servoGateVars == <<pc, arg, block, control_queue, ready, gate_task, cur, shutter, prev_open_ratio,
                   gate_state, gate_ratio, last_command, alone, after_nan>>

GateTypeOK ==
  /\ pc \in [Callers -> {"out", "put", "take"}]
  /\ arg \in [Callers -> Command]
  /\ block \in BOOLEAN
  /\ control_queue \in Command \union {NoCommand}
  /\ ready \in BOOLEAN
  /\ gate_task \in {"receive", "ramp", "publish", "give"}
  /\ cur \in Command
  /\ shutter \in Ratio \union {Unknown}
  /\ prev_open_ratio \in AnyRatio \union {Unknown}
  /\ gate_state \in {"disabled", "close", "open"}
  /\ gate_ratio \in AnyRatio
  /\ last_command \in Command \union {NoCommand}
  /\ alone \in BOOLEAN
  /\ after_nan \in AnyRatio \union {NoCommand}

\* servo_gate_config_init and servo_gate_init: the struct is zeroed, the state
\* comes from the stored enable flag, and the servo is left where it stands.
GateInit ==
  /\ pc = [c \in Callers |-> "out"]
  /\ arg = [c \in Callers |-> Disabled]
  /\ block = FALSE
  /\ control_queue = NoCommand
  /\ ready = FALSE
  /\ gate_task = "receive"
  /\ cur = Disabled
  /\ shutter = Unknown
  /\ prev_open_ratio = Unknown
  /\ gate_state \in {"open", "disabled"}
  /\ gate_ratio = Open
  /\ last_command = NoCommand
  /\ alone = FALSE
  /\ after_nan = NoCommand

-----------------------------------------------------------------------------
\* servo_gate_set_ratio

\* clamp01, which leaves the DISABLED sentinel alone and NaN as it is.
ToCommand(r) ==
  IF r \in {Disabled, NotANumber} THEN r
  ELSE IF r < Open THEN Open
  ELSE IF r > Closed THEN Closed ELSE r

\* The gate is at rest with nothing queued and no other call under way.
GateIsFree(c) ==
  /\ control_queue = NoCommand
  /\ gate_task = "receive"
  /\ \A d \in Callers \ {c} : pc[d] = "out"

CallWithoutDrain(c, r, b) ==
  /\ pc[c] = "out"
  /\ b => c = Menu
  /\ pc' = [pc EXCEPT ![c] = "put"]
  /\ arg' = [arg EXCEPT ![c] = ToCommand(r)]
  /\ block' = IF c = Menu THEN b ELSE block
  /\ alone' = ((c = Menu) /\ GateIsFree(c))
  /\ UNCHANGED <<control_queue, ready, gate_task, gateVars, last_command>>

\* The clamp and the take with no timeout that drops a stale completion.
Call(c, r, b) ==
  /\ pc[c] = "out"
  /\ b => c = Menu
  /\ pc' = [pc EXCEPT ![c] = "put"]
  /\ arg' = [arg EXCEPT ![c] = ToCommand(r)]
  /\ block' = IF c = Menu THEN b ELSE block
  /\ ready' = FALSE
  /\ alone' = ((c = Menu) /\ GateIsFree(c))
  /\ UNCHANGED <<control_queue, gate_task, gateVars, last_command>>

PutIfEmpty(c) ==
  /\ pc[c] = "put"
  /\ control_queue' = IF control_queue = NoCommand THEN arg[c] ELSE control_queue
  /\ last_command' = arg[c]
  /\ pc' = [pc EXCEPT ![c] = IF c = Menu /\ block THEN "take" ELSE "out"]
  /\ UNCHANGED <<arg, block, alone, ready, gate_task, gateVars>>

\* xQueueOverwrite, then the semaphore if the caller waits.
Put(c) ==
  /\ pc[c] = "put"
  /\ control_queue' = arg[c]
  /\ last_command' = arg[c]
  /\ pc' = [pc EXCEPT ![c] = IF c = Menu /\ block THEN "take" ELSE "out"]
  /\ UNCHANGED <<arg, block, alone, ready, gate_task, gateVars>>

\* The blocking take succeeds and servo_gate_set_ratio returns.
Take(c) ==
  /\ pc[c] = "take"
  /\ ready
  /\ ready' = FALSE
  /\ pc' = [pc EXCEPT ![c] = "out"]
  /\ UNCHANGED <<arg, block, alone, control_queue, gate_task, gateVars, last_command>>

-----------------------------------------------------------------------------
\* servo_gate_control_task

ReceiveDisableSilently ==
  /\ gate_task = "receive"
  /\ control_queue = Disabled
  /\ cur' = control_queue
  /\ control_queue' = NoCommand
  /\ gate_state' = "disabled"
  /\ gate_task' = "receive"
  /\ UNCHANGED <<callerVars, ready, shutter, prev_open_ratio, gate_ratio, last_command, after_nan>>

\* DISABLED only changes the reported state: prev_open_ratio is kept.
ReceiveDisable ==
  /\ gate_task = "receive"
  /\ control_queue = Disabled
  /\ cur' = control_queue
  /\ control_queue' = NoCommand
  /\ gate_state' = "disabled"
  /\ gate_task' = "give"
  /\ UNCHANGED <<callerVars, ready, shutter, prev_open_ratio, gate_ratio, last_command, after_nan>>

\* Is a command at the place the last one went to?  fabsf(new - prev) > 0.0001
\* is false for NaN on either side.
NoChange(r) == NotANumber \in {r, prev_open_ratio} \/ r = prev_open_ratio

\* The first move of all is made at once (NaN to whatever duty cycle its
\* conversion yields), a move to where the gate already is is skipped, and any
\* other starts a ramp from where the last one ended.
ReceiveRatio ==
  /\ gate_task = "receive"
  /\ control_queue \in AnyRatio
  /\ cur' = control_queue
  /\ control_queue' = NoCommand
  /\ \/ /\ prev_open_ratio = Unknown
        /\ shutter' \in IF control_queue = NotANumber THEN Ratio \union {Unknown} ELSE {control_queue}
        /\ gate_task' = "publish"
     \/ /\ prev_open_ratio # Unknown
        /\ NoChange(control_queue)
        /\ gate_task' = "publish"
        /\ UNCHANGED shutter
     \/ /\ prev_open_ratio # Unknown
        /\ ~NoChange(control_queue)
        /\ shutter' = prev_open_ratio
        /\ gate_task' = "ramp"
  /\ UNCHANGED <<callerVars, ready, prev_open_ratio, gate_state, gate_ratio, last_command, after_nan>>

\* The positions that lie further along the way from a to b.
Toward(a, b) == IF a < b THEN (a + 1) .. b ELSE b .. (a - 1)

\* One turn of the ramp loop.  Time alone drives it, so a turn may cover any
\* part of the way left, and it listens to no newer command.
Ramp ==
  /\ gate_task = "ramp"
  /\ shutter' \in Toward(shutter, cur)
  /\ gate_task' = IF shutter' = cur THEN "publish" ELSE "ramp"
  /\ UNCHANGED <<callerVars, control_queue, ready, cur, prev_open_ratio, gate_state, gate_ratio, last_command,
                 after_nan>>

\* The trail a NaN leaves: NaN itself, then the first ratio after it, to which
\* no ramp goes, until a command for another ratio moves the gate again.
AfterNan ==
  IF cur = NotANumber \/ after_nan \in {NotANumber, cur} THEN cur ELSE NoCommand

\* gate_state tells the end positions only: in between, and for NaN, it keeps
\* its value.
Publish ==
  /\ gate_task = "publish"
  /\ gate_state' = CASE cur = Open -> "open"
                     [] cur = Closed -> "close"
                     [] OTHER -> gate_state
  /\ prev_open_ratio' = cur
  /\ gate_ratio' = cur
  /\ after_nan' = AfterNan
  /\ gate_task' = "give"
  /\ UNCHANGED <<callerVars, control_queue, ready, cur, shutter, last_command>>

Give ==
  /\ gate_task = "give"
  /\ ready' = TRUE
  /\ gate_task' = "receive"
  /\ UNCHANGED <<callerVars, control_queue, gateVars, last_command>>

servo_gate_control_task == ReceiveDisable \/ ReceiveRatio \/ Ramp \/ Publish \/ Give

GateNext ==
  \/ \E c \in Callers, r \in Request, b \in BOOLEAN : Call(c, r, b)
  \/ \E c \in Callers : Put(c)
  \/ \E c \in Callers : Take(c)
  \/ servo_gate_control_task

\* The control task runs at priority 8, above every caller, and each caller
\* that has entered servo_gate_set_ratio runs on.  No caller has to call.
GateFairness ==
  /\ WF_servoGateVars(servo_gate_control_task)
  /\ \A c \in Callers : WF_servoGateVars(Put(c)) /\ WF_servoGateVars(Take(c))

GateSpec == GateInit /\ [][GateNext]_servoGateVars
GateFairSpec == GateSpec /\ GateFairness

-----------------------------------------------------------------------------
\* Properties

\* The gate reports command k as carried out.
Reported(k) ==
  IF k = Disabled THEN gate_state = "disabled"
  ELSE /\ prev_open_ratio = k
       /\ gate_ratio = k
       /\ k = Open => gate_state = "open"
       /\ k = Closed => gate_state = "close"

\* The shutter stands where command k wants it.
InPlace(k) == k \in Ratio => shutter = k

\* Command k is reported, and the shutter stands there unless a NaN has come
\* since the gate last moved.
Applied(k) == Reported(k) /\ (after_nan = NoCommand => InPlace(k))

\* A menu task asleep in servo_gate_set_ratio always has a wake-up coming: the
\* semaphore is given, or a command that will give it is queued, running or
\* about to be queued.  A REST request may drain the completion the menu waits
\* for (servo_gate.c:77), but only on its way to queueing a command itself.
NoLostWakeup ==
  pc[Menu] = "take" =>
    \/ ready
    \/ control_queue # NoCommand
    \/ gate_task # "receive"
    \/ \E c \in Callers \ {Menu} : pc[c] = "put"

\* Commands overwrite one another in the queue and a ramp cannot be recalled,
\* yet whenever the control task has caught up the gate reports the command
\* written last, and not an older one, and the shutter stands there.  A NaN
\* over REST breaks the second half only, and only until the gate is next sent
\* from one ratio to another.
LastCommandWins ==
  (control_queue = NoCommand /\ gate_task = "receive" /\ last_command # NoCommand) => Applied(last_command)

\* servo_gate.c:104: "Clamp to valid range": whatever was asked for, a command
\* that is reported leaves the shutter in its place.
ReportedIsInPlace ==
  (control_queue = NoCommand /\ gate_task = "receive" /\ last_command # NoCommand) => InPlace(last_command)

\* A blocking call that found the gate at rest and shared it with no other
\* call returns only when its own command has been carried out.
AloneCallIsSynchronous ==
  [][(pc[Menu] = "take" /\ pc'[Menu] = "out" /\ alone) => Applied(arg[Menu])]_servoGateVars

\* learn_mode.cpp:404: "Wait for it to open before measuring or starting a
\* timed motor run": every blocking call returns with its command carried out.
BlockingCallIsSynchronous ==
  [][(pc[Menu] = "take" /\ pc'[Menu] = "out") => Applied(arg[Menu])]_servoGateVars

\* Once the other callers leave the gate alone, a blocked menu task wakes up.
\* (While they keep calling, each may drain the completion before the menu
\* task gets to run.)
BlockedCallReturns ==
  (<>[](\A c \in Callers \ {Menu} : pc[c] = "out"))
     => ((pc[Menu] = "take") ~> (pc[Menu] = "out"))
=============================================================================
