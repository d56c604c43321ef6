----------------------------- MODULE StepperMotor -----------------------------
(***************************************************************************)
(* One trickler motor: the speed path of motors.c.                         *)
(*                                                                         *)
(* Tasks send speeds through a queue of two places (motor_set_speed sleeps *)
(* while it is full); stepper_speed_control_task receives them one by one, *)
(* ramps the step rate and toggles the DIR pin; the PIO state machine of   *)
(* stepper.pio picks the newest step period out of its FIFO between two    *)
(* pulses.  SELECT_BOTH_MOTOR is a send to the coarse motor followed by    *)
(* one to the fine motor: each of the two sees a send of its own.          *)
(*                                                                         *)
(* Velocities are integers in the motor's own units, after the division by *)
(* a positive gear ratio; 1 is the slowest speed speed_to_period does not  *)
(* turn into a stop.                                                       *)
(***************************************************************************)
EXTENDS Integers, Sequences

CONSTANTS
  Senders,     \* tasks that call motor_set_speed and motor_enable
  MaxSpeed,    \* the largest speed, a bound for TLC
  Inverted,    \* inverted_direction as it was at boot
  Empty,       \* an empty PIO FIFO
  Nothing      \* a sender that sends nothing

ASSUME MotorAssumption ==
  /\ MaxSpeed \in Nat \ {0}
  /\ Inverted \in BOOLEAN
  /\ Empty \notin Int
  /\ Nothing \notin Int

QueueLength == 2

Velocity == (-MaxSpeed) .. MaxSpeed
Speed    == 0 .. MaxSpeed
Abs(v)   == IF v < 0 THEN -v ELSE v

VARIABLES
  sending, \* the velocity a sender inside motor_set_speed is sending
  queue,   \* stepper_speed_control_queue
  task,    \* where stepper_speed_control_task is
  target,  \* new_velocity
  prev,    \* prev_velocity
  dir,     \* step_direction, which is also the level of the DIR pin
  speed,   \* the speed the task last turned into a period
  fifo,    \* that period while the PIO has not pulled it
  pulse,   \* the speed the PIO generates pulses at
  enabled, \* the EN pin, with inverted_enable taken out
  last     \* history: the velocity queued most recently

taskVars == <<task, target, prev, dir, speed>>
vars == <<sending, queue, task, target, prev, dir, speed, fifo, pulse, enabled, last>>

TypeOK ==
  /\ sending \in [Senders -> Velocity \union {Nothing}]
  /\ queue \in Seq(Velocity)
  /\ Len(queue) <= QueueLength
  /\ task \in {"receive", "down", "toggle", "ramp"}
  /\ target \in Velocity
  /\ prev \in Velocity
  /\ dir \in BOOLEAN
  /\ speed \in Speed
  /\ fifo \in Speed \union {Empty}
  /\ pulse \in Speed
  /\ enabled \in BOOLEAN
  /\ last \in Velocity

\* motor_config_init, driver_io_init, driver_pio_init: zero speed is put into
\* the FIFO before the state machine starts, and the driver starts disabled.
Init ==
  /\ sending = [s \in Senders |-> Nothing]
  /\ queue = <<>>
  /\ task = "receive"
  /\ target = 0
  /\ prev = 0
  /\ dir = Inverted
  /\ speed = 0
  /\ fifo = 0
  /\ pulse = 0
  /\ enabled = FALSE
  /\ last = 0

-----------------------------------------------------------------------------
\* motor_set_speed, motor_enable

SetSpeed(s, v) ==
  /\ sending[s] = Nothing
  /\ sending' = [sending EXCEPT ![s] = v]
  /\ UNCHANGED <<queue, taskVars, fifo, pulse, enabled, last>>

Enable(s) ==
  /\ sending[s] = Nothing
  /\ enabled' = TRUE
  /\ UNCHANGED <<sending, queue, taskVars, fifo, pulse, last>>

\* The pin goes first; the stop follows through the queue like any speed.
Disable(s) ==
  /\ sending[s] = Nothing
  /\ enabled' = FALSE
  /\ sending' = [sending EXCEPT ![s] = 0]
  /\ UNCHANGED <<queue, taskVars, fifo, pulse, last>>

SendOrDrop(s) ==
  /\ sending[s] # Nothing
  /\ queue' = IF Len(queue) < QueueLength THEN Append(queue, sending[s]) ELSE queue
  /\ last' = sending[s]
  /\ sending' = [sending EXCEPT ![s] = Nothing]
  /\ UNCHANGED <<taskVars, fifo, pulse, enabled>>

\* xQueueSend with portMAX_DELAY: the sender sleeps while the queue is full.
Send(s) ==
  /\ sending[s] # Nothing
  /\ Len(queue) < QueueLength
  /\ queue' = Append(queue, sending[s])
  /\ last' = sending[s]
  /\ sending' = [sending EXCEPT ![s] = Nothing]
  /\ UNCHANGED <<taskVars, fifo, pulse, enabled>>

-----------------------------------------------------------------------------
\* stepper_speed_control_task

SameDirectionStrict(u, v) == (u > 0) = (v > 0)
SameDirection(u, v) == (u >= 0) = (v >= 0)

ReceiveNoRampDown ==
  /\ task = "receive"
  /\ queue # <<>>
  /\ target' = Head(queue)
  /\ queue' = Tail(queue)
  /\ task' = IF SameDirection(target', prev) THEN "ramp" ELSE "toggle"
  /\ UNCHANGED <<sending, prev, dir, speed, fifo, pulse, enabled, last>>

ReceiveZeroIsNegative ==
  /\ task = "receive"
  /\ queue # <<>>
  /\ target' = Head(queue)
  /\ queue' = Tail(queue)
  /\ task' = IF SameDirectionStrict(target', prev) THEN "ramp" ELSE "down"
  /\ UNCHANGED <<sending, prev, dir, speed, fifo, pulse, enabled, last>>

\* A command in the direction the motor already turns needs one ramp; any
\* other needs a ramp down to zero first.
Receive ==
  /\ task = "receive"
  /\ queue # <<>>
  /\ target' = Head(queue)
  /\ queue' = Tail(queue)
  /\ task' = IF SameDirection(target', prev) THEN "ramp" ELSE "down"
  /\ UNCHANGED <<sending, prev, dir, speed, fifo, pulse, enabled, last>>

\* The speeds strictly between a and b.
Between(a, b) == IF a < b THEN (a + 1) .. (b - 1) ELSE (b + 1) .. (a - 1)

\* Write a period: the FIFO is cleared first, so the PIO sees the newest one.
Write(v) ==
  /\ speed' = v
  /\ fifo' = v

\* A turn of speed_ramp's loop, and the write of the final period after it.
RampTurn ==
  /\ task \in {"down", "ramp"}
  /\ \E v \in Between(speed, IF task = "down" THEN 0 ELSE Abs(target)) : Write(v)
  /\ UNCHANGED <<sending, queue, task, target, prev, dir, pulse, enabled, last>>

RampedDown ==
  /\ task = "down"
  /\ Write(0)
  /\ task' = "toggle"
  /\ UNCHANGED <<sending, queue, target, prev, dir, pulse, enabled, last>>

Toggle ==
  /\ task = "toggle"
  /\ dir' = ~dir
  /\ task' = "ramp"
  /\ UNCHANGED <<sending, queue, target, prev, speed, fifo, pulse, enabled, last>>

Ramped ==
  /\ task = "ramp"
  /\ Write(Abs(target))
  /\ prev' = target
  /\ task' = "receive"
  /\ UNCHANGED <<sending, queue, target, dir, pulse, enabled, last>>

ControlTask == Receive \/ RampTurn \/ RampedDown \/ Toggle \/ Ramped

\* stepper.pio: "pull noblock" at the start of each pulse.
Pull ==
  /\ fifo # Empty
  /\ pulse' = fifo
  /\ fifo' = Empty
  /\ UNCHANGED <<sending, queue, taskVars, enabled, last>>

Next ==
  \/ \E s \in Senders, v \in Velocity : SetSpeed(s, v)
  \/ \E s \in Senders : Enable(s)
  \/ \E s \in Senders : Disable(s)
  \/ \E s \in Senders : Send(s)
  \/ ControlTask
  \/ Pull

\* The stepper tasks (priorities 8 and 9) outrank every sender, and the PIO is
\* hardware.  The ramp's loop ends with time: its turns alone are not owed.
Fairness ==
  /\ WF_vars(Receive)
  /\ WF_vars(RampedDown \/ Toggle \/ Ramped)
  /\ WF_vars(Pull)
  /\ \A s \in Senders : WF_vars(Send(s))

Spec == Init /\ [][Next]_vars
FairSpec == Spec /\ Fairness

-----------------------------------------------------------------------------
\* Properties

\* The velocity the task has told the PIO to turn at, with its sign.
Signed == IF dir = Inverted THEN speed ELSE -speed

\* The direction is only ever toggled, never set, so it could drift away from
\* the sign of the velocity: between commands the DIR pin and the step rate
\* always add up to the last command carried out, through every sequence of
\* forward, backward and zero speeds.
DirectionAgrees ==
  task = "receive" =>
    /\ Signed = prev
    /\ (dir = Inverted) = (prev >= 0)

\* The motor keeps the promise of SpeedServo: commands in order and complete,
\* no jump across standstill, and every accepted command carried out in time.
Servo == INSTANCE SpeedServo WITH backlog <- queue, goal <- target, velocity <- Signed
ServoSpec == Servo!FairSpec

\* Once the senders are quiet the pulses settle at the speed sent last, although
\* a ramp's writes clear the FIFO and may discard periods the PIO never saw.
SettlesOnLast ==
  (<>[](\A s \in Senders : sending[s] = Nothing))
     => <>[](pulse = Abs(last) /\ (dir = Inverted) = (last >= 0))

\* motors.c:489: "ramp down to 0, change direction then ramp up": the DIR pin
\* changes only while the PIO generates no pulses.
DirTogglesAtRest == [][dir' # dir => pulse = 0]_vars
=============================================================================
