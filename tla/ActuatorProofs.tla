---------------------------- MODULE ActuatorProofs ----------------------------
(***************************************************************************)
(* The powder gate and the trickler motors, for any number of callers.     *)
(*                                                                         *)
(* The gate, at any resolution of its ramp: the menu task never sleeps     *)
(* without a wake-up on its way, and the gate always settles on the        *)
(* command written last.  A motor, for any range of speeds: the DIR pin    *)
(* always agrees with the commanded velocity, and the motor implements     *)
(* SpeedServo.                                                             *)
(***************************************************************************)
EXTENDS ServoGate, StepperMotor, TLAPS

-----------------------------------------------------------------------------
(* The gate. *)

\* Only the menu task is ever asleep on the semaphore.
OnlyMenuBlocks == \A c \in Callers : pc[c] = "take" => c = Menu

\* The newest command is the queued one, else the one the control task is
\* executing, else the one the gate shows; and prev_open_ratio tells where the
\* shutter stands whenever no ramp is under way and no NaN has left its trail.
NewestCommand ==
  /\ control_queue # NoCommand => control_queue = last_command
  /\ (control_queue = NoCommand /\ gate_task # "receive") => cur = last_command
  /\ (control_queue = NoCommand /\ gate_task = "receive" /\ last_command # NoCommand) => Reported(last_command)
  /\ gate_task = "ramp" => /\ {cur, prev_open_ratio, shutter} \subseteq Ratio
                           /\ cur # prev_open_ratio
  /\ gate_task = "publish" => cur \in AnyRatio
  /\ gate_task = "give" => Reported(cur)

\* after_nan follows prev_open_ratio, which tells where the shutter stands
\* while after_nan is NoCommand.
NanTrail ==
  /\ after_nan \in {NoCommand, prev_open_ratio}
  /\ prev_open_ratio = NotANumber => after_nan = NotANumber
  /\ (gate_task \in {"receive", "give"} /\ after_nan = NoCommand) => shutter = prev_open_ratio
  /\ (gate_task = "publish" /\ AfterNan = NoCommand) => shutter = cur

\* A call that has had the gate to itself: its command is the newest, and the
\* semaphore is given for it and not for an older one.
AloneCall ==
  alone =>
    /\ \A c \in Callers \ {Menu} : pc[c] = "out"
    /\ pc[Menu] = "put" => control_queue = NoCommand /\ gate_task = "receive" /\ ~ready
    /\ pc[Menu] = "take" =>
         /\ last_command = arg[Menu]
         /\ control_queue = NoCommand \/ (gate_task = "receive" /\ ~ready)
         /\ ready => gate_task = "receive"

GateInv == GateTypeOK /\ OnlyMenuBlocks /\ NoLostWakeup /\ NewestCommand /\ NanTrail

\* clamp01 puts every request into the range the control task works in.
LEMMA ToCommandType == \A r \in Request : ToCommand(r) \in Command
  BY GateAssumption DEF ToCommand, Request, Command, AnyRatio, Ratio, Open, Disabled, Unknown

LEMMA Sentinels ==
  /\ Open \in Ratio
  /\ Disabled \in Command \ AnyRatio
  /\ Unknown \notin AnyRatio
  /\ NotANumber \in AnyRatio \ Ratio
  /\ Ratio \subseteq AnyRatio
  /\ NoCommand \notin Command
  BY GateAssumption DEF Command, AnyRatio, Ratio, Open, Disabled, Unknown

LEMMA InitGateInv == GateInit => GateInv
  <1> SUFFICES ASSUME GateInit PROVE GateInv
    OBVIOUS
  <1> USE DEF GateInit
  <1>1. GateTypeOK
    BY Sentinels DEF GateTypeOK
  <1>2. OnlyMenuBlocks /\ NoLostWakeup
    BY GateAssumption DEF OnlyMenuBlocks, NoLostWakeup
  <1>3. NewestCommand /\ NanTrail
    BY Sentinels DEF NewestCommand, NanTrail
  <1> QED
    BY <1>1, <1>2, <1>3 DEF GateInv

\* Every step keeps the types.  What the control task holds in cur matters: a
\* ramp to DISABLED would leave the range of positions.
LEMMA NextGateTypeOK == GateInv /\ [GateNext]_servoGateVars => GateTypeOK'
  <1> SUFFICES ASSUME GateInv, [GateNext]_servoGateVars PROVE GateTypeOK'
    OBVIOUS
  <1> USE DEF GateInv, GateTypeOK
  <1>1. ASSUME NEW c \in Callers, NEW r \in Request, NEW b \in BOOLEAN, Call(c, r, b)
        PROVE  GateTypeOK'
    <2>1. ToCommand(r) \in Command
      BY ToCommandType
    <2>2. alone' \in BOOLEAN
      BY <1>1 DEF Call
    <2> QED
      BY <1>1, <2>1, <2>2 DEF Call, gateVars
  <1>2. ASSUME NEW c \in Callers, Put(c) PROVE GateTypeOK'
    BY <1>2 DEF Put, gateVars
  <1>3. ASSUME NEW c \in Callers, Take(c) PROVE GateTypeOK'
    BY <1>3 DEF Take, gateVars
  <1>4. CASE ReceiveDisable
    BY <1>4, Sentinels DEF ReceiveDisable, callerVars
  <1>5. CASE ReceiveRatio
    <2>1. prev_open_ratio # Unknown /\ ~NoChange(control_queue) => prev_open_ratio \in Ratio
      BY DEF NoChange, AnyRatio
    <2>2. shutter' \in Ratio \union {Unknown}
      BY <1>5, <2>1, Sentinels DEF ReceiveRatio, AnyRatio
    <2>3. cur' \in Command /\ control_queue' = NoCommand /\ gate_task' \in {"publish", "ramp"}
      BY <1>5 DEF ReceiveRatio, Command
    <2> QED
      BY <1>5, <2>2, <2>3 DEF ReceiveRatio, callerVars
  <1>6. CASE Ramp
    <2>1. cur \in Ratio /\ shutter \in Ratio
      BY <1>6 DEF Ramp, NewestCommand
    <2>2. shutter' \in Ratio
      BY <1>6, <2>1, GateAssumption DEF Ramp, Toward, Ratio, Open
    <2> QED
      BY <1>6, <2>2 DEF Ramp, callerVars
  <1>7. CASE Publish
    <2>1. cur \in AnyRatio
      BY <1>7 DEF Publish, NewestCommand
    <2>2. after_nan' \in AnyRatio \union {NoCommand}
      BY <1>7, <2>1 DEF Publish, AfterNan
    <2> QED
      BY <1>7, <2>1, <2>2 DEF Publish, callerVars
  <1>8. CASE Give
    BY <1>8 DEF Give, callerVars, gateVars
  <1>9. CASE UNCHANGED servoGateVars
    BY <1>9 DEF servoGateVars
  <1> QED
    BY <1>1, <1>2, <1>3, <1>4, <1>5, <1>6, <1>7, <1>8, <1>9 DEF GateNext, servo_gate_control_task

\* Draining a completion is safe because the drainer goes on to queue a
\* command; taking one is, because nobody but the menu task takes.
LEMMA NextWakeup ==
  GateInv /\ [GateNext]_servoGateVars => OnlyMenuBlocks' /\ NoLostWakeup'
  <1> SUFFICES ASSUME GateInv, [GateNext]_servoGateVars PROVE OnlyMenuBlocks' /\ NoLostWakeup'
    OBVIOUS
  <1> USE GateAssumption DEF GateInv, GateTypeOK, OnlyMenuBlocks, NoLostWakeup
  <1>1. ASSUME NEW c \in Callers, NEW r \in Request, NEW b \in BOOLEAN, Call(c, r, b)
        PROVE  OnlyMenuBlocks' /\ NoLostWakeup'
    BY <1>1 DEF Call
  <1>2. ASSUME NEW c \in Callers, Put(c) PROVE OnlyMenuBlocks' /\ NoLostWakeup'
    <2>1. control_queue' # NoCommand
      BY <1>2, Sentinels DEF Put
    <2> QED
      BY <1>2, <2>1 DEF Put
  <1>3. ASSUME NEW c \in Callers, Take(c) PROVE OnlyMenuBlocks' /\ NoLostWakeup'
    BY <1>3 DEF Take
  <1>4. CASE servo_gate_control_task
    BY <1>4 DEF servo_gate_control_task, ReceiveDisable, ReceiveRatio, Ramp, Publish, Give, callerVars
  <1>5. CASE UNCHANGED servoGateVars
    BY <1>5 DEF servoGateVars
  <1> QED
    BY <1>1, <1>2, <1>3, <1>4, <1>5 DEF GateNext

\* While the menu task has the gate to itself, nothing it has not asked for
\* completes.
LEMMA NextAlone == GateInv /\ AloneCall /\ [GateNext]_servoGateVars => AloneCall'
  <1> SUFFICES ASSUME GateInv, AloneCall, [GateNext]_servoGateVars PROVE AloneCall'
    OBVIOUS
  <1> USE GateAssumption DEF GateInv, GateTypeOK, AloneCall
  <1>1. ASSUME NEW c \in Callers, NEW r \in Request, NEW b \in BOOLEAN, Call(c, r, b)
        PROVE  AloneCall'
    BY <1>1 DEF Call, GateIsFree
  <1>2. ASSUME NEW c \in Callers, Put(c) PROVE AloneCall'
    <2>1. CASE c = Menu
      BY <1>2, <2>1 DEF Put
    <2>2. CASE c # Menu
      BY <1>2, <2>2 DEF Put
    <2> QED
      BY <2>1, <2>2
  <1>3. ASSUME NEW c \in Callers, Take(c) PROVE AloneCall'
    BY <1>3 DEF Take
  <1>4. CASE ReceiveDisable \/ ReceiveRatio
    <2>1. control_queue # NoCommand /\ control_queue' = NoCommand /\ gate_task = "receive"
      BY <1>4, Sentinels DEF ReceiveDisable, ReceiveRatio, Command
    <2>2. UNCHANGED <<callerVars, ready, last_command>>
      BY <1>4 DEF ReceiveDisable, ReceiveRatio
    <2> QED
      BY <2>1, <2>2 DEF callerVars
  <1>5. CASE Ramp \/ Publish
    BY <1>5 DEF Ramp, Publish, callerVars
  <1>6. CASE Give
    BY <1>6 DEF Give, callerVars
  <1>7. CASE UNCHANGED servoGateVars
    BY <1>7 DEF servoGateVars
  <1> QED
    BY <1>1, <1>2, <1>3, <1>4, <1>5, <1>6, <1>7 DEF GateNext, servo_gate_control_task

\* The newest command travels from the queue through cur to what the gate
\* reports, and no step lets an older one overtake it.
LEMMA NextNewest == GateInv /\ [GateNext]_servoGateVars => NewestCommand'
  <1> SUFFICES ASSUME GateInv, [GateNext]_servoGateVars PROVE NewestCommand'
    OBVIOUS
  <1> USE DEF GateInv, GateTypeOK, NewestCommand, Reported
  <1>1. ASSUME NEW c \in Callers, NEW r \in Request, NEW b \in BOOLEAN, Call(c, r, b)
        PROVE  NewestCommand'
    BY <1>1 DEF Call, gateVars
  <1>2. ASSUME NEW c \in Callers, Put(c) PROVE NewestCommand'
    <2>1. control_queue' = last_command' /\ control_queue' # NoCommand
      BY <1>2, Sentinels DEF Put
    <2> QED
      BY <1>2, <2>1 DEF Put, gateVars
  <1>3. ASSUME NEW c \in Callers, Take(c) PROVE NewestCommand'
    BY <1>3 DEF Take, gateVars
  <1>4. CASE ReceiveDisable
    BY <1>4, Sentinels DEF ReceiveDisable
  <1>5. CASE ReceiveRatio
    <2>1. cur' = control_queue /\ cur' \in AnyRatio /\ control_queue' = NoCommand
      BY <1>5 DEF ReceiveRatio
    <2>2. cur' = last_command' /\ gate_task' \in {"publish", "ramp"}
      BY <1>5, <2>1, Sentinels DEF ReceiveRatio, Command
    <2>3. ASSUME gate_task' = "ramp"
          PROVE  {cur', prev_open_ratio', shutter'} \subseteq Ratio /\ cur' # prev_open_ratio'
      <3>1. prev_open_ratio # Unknown /\ ~NoChange(control_queue) /\ shutter' = prev_open_ratio
        BY <1>5, <2>3 DEF ReceiveRatio
      <3> QED
        BY <1>5, <2>1, <3>1 DEF ReceiveRatio, NoChange, AnyRatio
    <2> QED
      BY <2>1, <2>2, <2>3
  <1>6. CASE Ramp
    <2>1. shutter' \in Ratio
      BY <1>6, GateAssumption DEF Ramp, Toward, Ratio, Open
    <2>2. cur \in AnyRatio
      BY <1>6, Sentinels DEF Ramp
    <2> QED
      BY <1>6, <2>1, <2>2 DEF Ramp
  <1>7. CASE Publish
    <2>1. cur # Disabled
      BY <1>7, Sentinels DEF Publish
    <2> QED
      BY <1>7, <2>1, GateAssumption DEF Publish, Open
  <1>8. CASE Give
    BY <1>8 DEF Give, gateVars
  <1>9. CASE UNCHANGED servoGateVars
    BY <1>9 DEF servoGateVars
  <1> QED
    BY <1>1, <1>2, <1>3, <1>4, <1>5, <1>6, <1>7, <1>8, <1>9 DEF GateNext, servo_gate_control_task

\* The shutter stands where prev_open_ratio says, unless a NaN has made the
\* control task skip a move.
LEMMA NextNanTrail == GateInv /\ [GateNext]_servoGateVars => NanTrail'
  <1> SUFFICES ASSUME GateInv, [GateNext]_servoGateVars PROVE NanTrail'
    OBVIOUS
  <1> USE DEF GateInv, GateTypeOK, NewestCommand, NanTrail, AfterNan
  <1>1. CASE UNCHANGED <<gateVars, gate_task>>
    BY <1>1 DEF gateVars
  <1>2. CASE ReceiveDisable
    BY <1>2 DEF ReceiveDisable
  <1>3. CASE ReceiveRatio
    <2>1. UNCHANGED <<prev_open_ratio, after_nan>> /\ cur' = control_queue /\ cur' \in AnyRatio
      BY <1>3 DEF ReceiveRatio
    <2>2. gate_task = "receive" /\ gate_task' \in {"publish", "ramp"}
      BY <1>3 DEF ReceiveRatio
    <2>3. ASSUME gate_task' = "publish", AfterNan' = NoCommand PROVE shutter' = cur'
      <3>1. cur' # NotANumber /\ after_nan \notin {NotANumber, cur'}
        BY <2>1, <2>3, Sentinels DEF Command
      <3>2. CASE prev_open_ratio = Unknown
        BY <1>3, <2>1, <3>1, <3>2 DEF ReceiveRatio
      <3>3. CASE prev_open_ratio # Unknown
        <4>1. NoChange(control_queue) /\ shutter' = shutter
          BY <1>3, <2>3, <3>3 DEF ReceiveRatio
        <4>2. cur' = prev_open_ratio
          BY <2>1, <3>1, <4>1 DEF NoChange
        <4> QED
          BY <2>2, <3>1, <4>1, <4>2
      <3> QED
        BY <3>2, <3>3
    <2> QED
      BY <2>1, <2>2, <2>3
  <1>4. CASE Ramp
    BY <1>4 DEF Ramp
  <1>5. CASE Publish
    BY <1>5 DEF Publish
  <1>6. CASE Give
    BY <1>6 DEF Give, gateVars
  <1>7. ASSUME NEW c \in Callers, NEW r \in Request, NEW b \in BOOLEAN, Call(c, r, b)
        PROVE  UNCHANGED <<gateVars, gate_task>>
    BY <1>7 DEF Call
  <1>8. ASSUME NEW c \in Callers, Put(c) \/ Take(c) PROVE UNCHANGED <<gateVars, gate_task>>
    BY <1>8 DEF Put, Take
  <1>9. UNCHANGED servoGateVars => UNCHANGED <<gateVars, gate_task>>
    BY DEF servoGateVars, gateVars
  <1> QED
    BY <1>1, <1>2, <1>3, <1>4, <1>5, <1>6, <1>7, <1>8, <1>9 DEF GateNext, servo_gate_control_task

\* A control task at rest shows what it reports.
LEMMA RestShows ==
  ASSUME GateInv, gate_task = "receive", NEW k, Reported(k) PROVE Applied(k)
  <1>1. k \in Ratio => prev_open_ratio = k
    BY Sentinels DEF Reported
  <1> QED
    BY <1>1 DEF Applied, InPlace, GateInv, NanTrail

THEOREM GateInvariance == GateSpec => []GateInv
  <1>1. GateInv /\ [GateNext]_servoGateVars => GateInv'
    BY NextGateTypeOK, NextWakeup, NextNewest, NextNanTrail DEF GateInv
  <1> QED
    BY InitGateInv, <1>1, PTL DEF GateSpec

\* A blocking call that shares the gate with no other call is synchronous: it
\* returns with its command carried out, up to the trail of an earlier NaN.
THEOREM AloneIsSynchronous == GateSpec => AloneCallIsSynchronous
  <1>1. GateInit => AloneCall
    BY DEF GateInit, AloneCall
  <1>2. GateInv /\ AloneCall /\ [GateNext]_servoGateVars =>
          [(pc[Menu] = "take" /\ pc'[Menu] = "out" /\ alone) => Applied(arg[Menu])]_servoGateVars
    <2> SUFFICES ASSUME GateInv, AloneCall, [GateNext]_servoGateVars,
                        pc[Menu] = "take", pc'[Menu] = "out", alone
                 PROVE  Applied(arg[Menu])
      OBVIOUS
    <2>1. ready
      BY GateAssumption DEF GateInv, GateTypeOK, GateNext, Call, Put, Take, servo_gate_control_task,
         ReceiveDisable, ReceiveRatio, Ramp, Publish, Give, callerVars, servoGateVars
    <2>2. control_queue = NoCommand /\ gate_task = "receive" /\ last_command = arg[Menu]
      BY <2>1 DEF AloneCall
    <2>3. arg[Menu] # NoCommand
      BY Sentinels, GateAssumption DEF GateInv, GateTypeOK
    <2> QED
      BY <2>2, <2>3, RestShows DEF GateInv, NewestCommand
  <1> QED
    BY GateInvariance, NextAlone, <1>1, <1>2, PTL DEF GateSpec, AloneCallIsSynchronous

\* servo_gate.c keeps its types: every request is clamped and no ramp leaves
\* the range between the open and the closed gate.
THEOREM GateTypeCorrect == GateSpec => []GateTypeOK
  <1>1. GateInv => GateTypeOK
    BY DEF GateInv
  <1> QED
    BY GateInvariance, <1>1, PTL

\* A menu task asleep on move_ready_semphore always has a wake-up coming, for
\* any number of tasks that call without blocking.
THEOREM NoWakeupIsLost == GateSpec => []NoLostWakeup
  <1>1. GateInv => NoLostWakeup
    BY DEF GateInv
  <1> QED
    BY GateInvariance, <1>1, PTL

\* Whenever the control task has caught up, the gate reports the command that
\* was written last, NaN included, and the shutter stands there unless a NaN
\* has come since the gate was last sent from one ratio to another.
THEOREM LastCommandApplied == GateSpec => []LastCommandWins
  <1>1. GateInv => LastCommandWins
    BY RestShows DEF GateInv, NewestCommand, LastCommandWins
  <1> QED
    BY GateInvariance, <1>1, PTL

-----------------------------------------------------------------------------
(* A motor. *)

Forward == dir = Inverted

\* What the DIR pin, the step rate and the two velocities of the task have to
\* do with one another in each phase of a command.
PhaseInv ==
  /\ task = "receive" => speed = Abs(prev) /\ (Forward <=> prev >= 0) /\ target = prev
  /\ task = "down" => (Forward <=> prev >= 0) /\ (Forward <=> target < 0)
  /\ task = "toggle" => speed = 0 /\ (Forward <=> target < 0)
  /\ task = "ramp" => (Forward <=> target >= 0)

MotorInv == TypeOK /\ PhaseInv

LEMMA AbsType == \A v \in Velocity : Abs(v) \in Speed
  BY MotorAssumption DEF Abs, Velocity, Speed

\* What a turn of the ramp writes lies strictly between two speeds.
LEMMA BetweenType ==
  \A a, b \in Speed : \A v \in Between(a, b) :
    v \in Speed /\ ((a < v /\ v < b) \/ (b < v /\ v < a))
  BY MotorAssumption DEF Between, Speed

LEMMA ZeroType == 0 \in Velocity /\ 0 \in Speed
  BY MotorAssumption DEF Velocity, Speed

LEMMA InitMotorInv == Init => MotorInv
  <1> SUFFICES ASSUME Init PROVE MotorInv
    OBVIOUS
  <1>1. TypeOK
    <2>1. queue \in Seq(Velocity) /\ Len(queue) <= QueueLength
      BY DEF Init, QueueLength
    <2>2. dir \in BOOLEAN
      BY MotorAssumption DEF Init
    <2> QED
      BY <2>1, <2>2, ZeroType DEF Init, TypeOK
  <1>2. PhaseInv
    BY DEF Init, PhaseInv, Forward, Abs
  <1> QED
    BY <1>1, <1>2 DEF MotorInv

LEMMA NextMotorTypeOK == TypeOK /\ [Next]_vars => TypeOK'
  <1> SUFFICES ASSUME TypeOK, [Next]_vars PROVE TypeOK'
    OBVIOUS
  <1> USE DEF TypeOK
  <1>1. ASSUME NEW s \in Senders, NEW v \in Velocity, SetSpeed(s, v) PROVE TypeOK'
    BY <1>1 DEF SetSpeed, taskVars
  <1>2. ASSUME NEW s \in Senders, Enable(s) PROVE TypeOK'
    BY <1>2 DEF Enable, taskVars
  <1>3. ASSUME NEW s \in Senders, Disable(s) PROVE TypeOK'
    BY <1>3, ZeroType DEF Disable, taskVars
  <1>4. ASSUME NEW s \in Senders, Send(s) PROVE TypeOK'
    <2>1. sending[s] \in Velocity
      BY <1>4 DEF Send
    <2> QED
      BY <1>4, <2>1 DEF Send, taskVars, QueueLength
  <1>5. CASE Receive
    <2>1. Head(queue) \in Velocity /\ Tail(queue) \in Seq(Velocity)
      BY <1>5 DEF Receive
    <2>2. Len(Tail(queue)) <= QueueLength
      BY <1>5 DEF Receive, QueueLength
    <2> QED
      BY <1>5, <2>1, <2>2 DEF Receive
  <1>6. CASE RampTurn
    <2>1. PICK v \in Between(speed, IF task = "down" THEN 0 ELSE Abs(target)) : Write(v)
      BY <1>6 DEF RampTurn
    <2>2. v \in Speed
      BY <2>1, AbsType, BetweenType, ZeroType
    <2> QED
      BY <1>6, <2>1, <2>2 DEF RampTurn, Write
  <1>7. CASE RampedDown
    BY <1>7, ZeroType DEF RampedDown, Write
  <1>8. CASE Toggle
    BY <1>8 DEF Toggle
  <1>9. CASE Ramped
    BY <1>9, AbsType DEF Ramped, Write
  <1>10. CASE Pull
    BY <1>10 DEF Pull, taskVars
  <1>11. CASE UNCHANGED vars
    BY <1>11 DEF vars, taskVars
  <1> QED
    BY <1>1, <1>2, <1>3, <1>4, <1>5, <1>6, <1>7, <1>8, <1>9, <1>10, <1>11
    DEF Next, ControlTask

\* Only the control task touches what PhaseInv is about.
LEMMA NextPhaseInv == MotorInv /\ [Next]_vars => PhaseInv'
  <1> SUFFICES ASSUME MotorInv, [Next]_vars PROVE PhaseInv'
    OBVIOUS
  <1> USE DEF MotorInv, TypeOK, PhaseInv, Forward
  <1>1. CASE UNCHANGED taskVars
    BY <1>1 DEF taskVars, Abs
  <1>2. CASE Receive
    <2>1. target' \in Velocity
      BY <1>2 DEF Receive
    <2> QED
      BY <1>2, <2>1 DEF Receive, SameDirection, Velocity
  <1>3. CASE RampTurn
    BY <1>3 DEF RampTurn, Write
  <1>4. CASE RampedDown
    BY <1>4 DEF RampedDown, Write
  <1>5. CASE Toggle
    <2>1. dir' = Inverted <=> ~(dir = Inverted)
      BY <1>5, MotorAssumption DEF Toggle
    <2>2. target < 0 <=> ~(target >= 0)
      BY DEF Velocity
    <2> QED
      BY <1>5, <2>1, <2>2 DEF Toggle
  <1>6. CASE Ramped
    BY <1>6 DEF Ramped, Write, Abs
  <1> QED
    BY <1>1, <1>2, <1>3, <1>4, <1>5, <1>6
    DEF Next, SetSpeed, Enable, Disable, Send, ControlTask, Pull, vars, taskVars

THEOREM MotorInvariance == Spec => []MotorInv
  <1>1. MotorInv /\ [Next]_vars => MotorInv'
    BY NextMotorTypeOK, NextPhaseInv DEF MotorInv
  <1> QED
    BY InitMotorInv, <1>1, PTL DEF Spec

\* motors.c keeps its types: the queue holds at most two speeds, and no ramp
\* leaves the range of the speeds asked for.
THEOREM MotorTypeCorrect == Spec => []TypeOK
  <1>1. MotorInv => TypeOK
    BY DEF MotorInv
  <1> QED
    BY MotorInvariance, <1>1, PTL

\* The DIR pin, toggled and never set, agrees with the sign of prev_velocity
\* whenever the control task waits for a command.
THEOREM DirectionCorrect == Spec => []DirectionAgrees
  <1>1. MotorInv => DirectionAgrees
    <2> SUFFICES ASSUME MotorInv, task = "receive" PROVE DirectionAgrees
      BY DEF DirectionAgrees
    <2>1. prev \in Velocity /\ speed = Abs(prev) /\ (Forward <=> prev >= 0)
      BY DEF MotorInv, TypeOK, PhaseInv
    <2> QED
      BY <2>1 DEF DirectionAgrees, Signed, Forward, Abs, Velocity
  <1> QED
    BY MotorInvariance, <1>1, PTL

-----------------------------------------------------------------------------
\* The refinement of SpeedServo, step by step.

\* The velocity the abstract servo has, on the side the DIR pin points to.
LEMMA SignedFacts == (Forward => Signed = speed) /\ (~Forward => Signed = -speed)
  BY DEF Signed, Forward

\* Between commands the servo has reached its goal, so the next may begin.
LEMMA ReceiveBegins == MotorInv /\ Receive => Servo!Begin
  <1> SUFFICES ASSUME MotorInv, Receive PROVE Servo!Begin
    OBVIOUS
  <1>1. speed = Abs(prev) /\ (Forward <=> prev >= 0) /\ target = prev /\ prev \in Velocity
    BY DEF MotorInv, TypeOK, PhaseInv, Receive
  <1>2. Signed = target
    BY <1>1, SignedFacts DEF MotorInv, Abs, Velocity
  <1>3. Signed' = Signed
    BY DEF Receive, Signed
  <1> QED
    BY <1>2, <1>3 DEF Servo!Begin, Receive

\* A write that brings the step rate closer to where the phase is going moves
\* the servo closer to its goal, and never past standstill.
LEMMA WriteMoves ==
  ASSUME MotorInv, NEW v \in Speed, Write(v), UNCHANGED <<dir, queue, target>>,
         \/ task = "down" /\ v < speed
         \/ task = "ramp" /\ speed < v /\ v <= Abs(target)
         \/ task = "ramp" /\ Abs(target) <= v /\ v < speed
  PROVE  Servo!Move
  <1>1. speed \in Speed /\ target \in Velocity /\ speed' = v
    BY DEF MotorInv, TypeOK, Write
  <1>2. CASE Forward
    <2>1. Signed = speed /\ Signed' = v
      BY <1>1, <1>2 DEF Signed, Forward
    <2>2. task = "down" => target < 0
      BY <1>1, <1>2 DEF MotorInv, PhaseInv, Velocity
    <2>3. task = "ramp" => target >= 0
      BY <1>1, <1>2 DEF MotorInv, PhaseInv, Velocity
    <2>4. v \in Velocity
      BY MotorAssumption DEF Velocity, Speed
    <2> QED
      BY <1>1, <2>1, <2>2, <2>3, <2>4
      DEF Servo!Move, Servo!Closer, Servo!SameSide, Servo!Velocity, Velocity, Speed, Abs
  <1>3. CASE ~Forward
    <2>1. Signed = -speed /\ Signed' = -v
      BY <1>1, <1>3 DEF Signed, Forward
    <2>2. task = "down" => target >= 0
      BY <1>1, <1>3 DEF MotorInv, PhaseInv, Velocity
    <2>3. task = "ramp" => target < 0
      BY <1>1, <1>3 DEF MotorInv, PhaseInv, Velocity
    <2>4. -v \in Velocity
      BY MotorAssumption DEF Velocity, Speed
    <2> QED
      BY <1>1, <2>1, <2>2, <2>3, <2>4
      DEF Servo!Move, Servo!Closer, Servo!SameSide, Servo!Velocity, Velocity, Speed, Abs
  <1> QED
    BY <1>2, <1>3

\* A write of the speed already written is a stutter.
LEMMA WriteStutters ==
  ASSUME Write(speed), UNCHANGED <<dir, queue, target>>
  PROVE  UNCHANGED Servo!servoVars
  BY DEF Write, Signed, Servo!servoVars

LEMMA StepRefines == MotorInv /\ [Next]_vars => [Servo!Next]_(Servo!servoVars)
  <1> SUFFICES ASSUME MotorInv, [Next]_vars PROVE [Servo!Next]_(Servo!servoVars)
    OBVIOUS
  <1>1. CASE UNCHANGED <<queue, taskVars>>
    BY <1>1 DEF Servo!servoVars, Signed, taskVars
  <1>2. ASSUME NEW s \in Senders, Send(s) PROVE Servo!Next
    <2>1. sending[s] \in Servo!Velocity
      BY <1>2 DEF MotorInv, TypeOK, Send, Velocity, Servo!Velocity
    <2>2. Servo!Accept(sending[s])
      BY <1>2 DEF Send, Servo!Accept, Signed, taskVars
    <2> QED
      BY <2>1, <2>2 DEF Servo!Next
  <1>3. CASE Receive
    BY <1>3, ReceiveBegins DEF Servo!Next
  <1>4. CASE RampTurn
    <2>1. PICK v \in Between(speed, IF task = "down" THEN 0 ELSE Abs(target)) : Write(v)
      BY <1>4 DEF RampTurn
    <2>2. speed \in Speed /\ Abs(target) \in Speed
      BY AbsType DEF MotorInv, TypeOK
    <2>3. v \in Speed
      BY <2>1, <2>2, BetweenType, ZeroType
    <2>4. CASE task = "down"
      <3>1. v < speed
        BY <2>1, <2>2, <2>3, <2>4, BetweenType, ZeroType DEF Speed
      <3> QED
        BY <1>4, <2>1, <2>3, <2>4, <3>1, WriteMoves DEF RampTurn, Servo!Next
    <2>5. CASE task = "ramp"
      <3>1. (speed < v /\ v <= Abs(target)) \/ (Abs(target) <= v /\ v < speed)
        BY <2>1, <2>2, <2>3, <2>5, BetweenType DEF Speed
      <3> QED
        BY <1>4, <2>1, <2>3, <2>5, <3>1, WriteMoves DEF RampTurn, Servo!Next
    <2> QED
      BY <1>4, <2>4, <2>5 DEF RampTurn
  <1>5. CASE RampedDown
    <2>1. speed \in Speed
      BY DEF MotorInv, TypeOK
    <2>2. CASE speed = 0
      BY <1>5, <2>2, WriteStutters DEF RampedDown
    <2>3. CASE speed # 0
      <3>1. 0 < speed
        BY <2>1, <2>3 DEF Speed
      <3> QED
        BY <1>5, <3>1, ZeroType, WriteMoves DEF RampedDown, Servo!Next
    <2> QED
      BY <2>2, <2>3
  <1>6. CASE Toggle
    <2>1. speed = 0
      BY <1>6 DEF MotorInv, PhaseInv, Toggle
    <2> QED
      BY <1>6, <2>1 DEF Toggle, Signed, Servo!servoVars
  <1>7. CASE Ramped
    <2>1. speed \in Speed /\ Abs(target) \in Speed
      BY AbsType DEF MotorInv, TypeOK
    <2>2. CASE speed = Abs(target)
      BY <1>7, <2>2, WriteStutters DEF Ramped
    <2>3. CASE speed # Abs(target)
      <3>1. speed < Abs(target) \/ Abs(target) < speed
        BY <2>1, <2>3 DEF Speed
      <3>2. Abs(target) <= Abs(target)
        BY <2>1 DEF Speed
      <3> QED
        BY <1>7, <2>1, <3>1, <3>2, WriteMoves DEF Ramped, Servo!Next
    <2> QED
      BY <2>2, <2>3
  <1>8. ASSUME NEW s \in Senders, NEW v \in Velocity, SetSpeed(s, v)
        PROVE  UNCHANGED <<queue, taskVars>>
    BY <1>8 DEF SetSpeed
  <1>9. ASSUME NEW s \in Senders, Enable(s) \/ Disable(s)
        PROVE  UNCHANGED <<queue, taskVars>>
    BY <1>9 DEF Enable, Disable
  <1>10. Pull \/ UNCHANGED vars => UNCHANGED <<queue, taskVars>>
    BY DEF Pull, vars, taskVars
  <1> QED
    BY <1>1, <1>2, <1>3, <1>4, <1>5, <1>6, <1>7, <1>8, <1>9, <1>10
    DEF Next, ControlTask

\* Every behaviour of the motor is one of SpeedServo: commands are carried out
\* in order and completely, and the direction changes at standstill only.
THEOREM ImplementsServo == Spec => Servo!Spec
  <1>1. Init => Servo!Init
    BY DEF Init, Servo!Init, Signed
  <1> QED
    BY MotorInvariance, StepRefines, <1>1, PTL DEF Spec, Servo!Spec
===============================================================================
