------------------------------ MODULE MenuProofs ------------------------------
(***************************************************************************)
(* Two safety properties of the menu task, for a queue, speeds, commands   *)
(* and a number of REST requests of any size.                              *)
(*                                                                         *)
(* Motors: a mode that turns them (Turning) passes through its disable     *)
(* steps, and a speed sent over REST since then has ended quiet.  Serial   *)
(* line: whoever is in the middle of a command holds the mutex.            *)
(***************************************************************************)
EXTENDS Menu, TLAPS

Turning == {"cleanup", "charge", "learn"}
AllOff == motor = [m \in Motors |-> Off]

\* From the first disable step on, what is disabled stays so while it is quiet.
MotorsInv ==
    /\ rest.op = "cleanup_speed" /\ rest.at = "fine" => ~quiet
    /\ quiet => /\ mode \notin Turning => AllOff
                /\ At("cleanup", "disable_fine") => motor["coarse"] = Off
                /\ At("cleanup", "exit") => AllOff

RestShape == rest = [op |-> rest.op, arg |-> rest.arg, at |-> rest.at]

SerialInv ==
    /\ writer \in [Writers -> Int]
    /\ \A w \in Writers : writer[w] > 0 => mutex = w
    /\ CommandsAreWhole

-----------------------------------------------------------------------------
(* The serial line. *)

LEMMA SerialKept == SerialInv /\ UNCHANGED serial => SerialInv'
  BY DEF SerialInv, serial, CommandsAreWhole

LEMMA SerialBegins ==
  ASSUME SerialInv, NEW w \in Writers, BeginWrite(w)
  PROVE  SerialInv'
  BY DEF SerialInv, BeginWrite, CommandsAreWhole

LEMMA SerialWrites ==
  ASSUME SerialInv, NEW w \in Writers, Write(w)
  PROVE  SerialInv'
<1>1. CASE TakeMutex(w)
  BY <1>1 DEF SerialInv, TakeMutex, CommandsAreWhole, Writers, Free
<1>2. CASE uart_write(w)
  <2>1. /\ writer[w] > 0 /\ mutex = w /\ tx' = <<w, writer[w]>>
        /\ writer' = [writer EXCEPT ![w] = IF writer[w] < Length THEN writer[w] + 1 ELSE 0]
        /\ mutex' = IF writer[w] = Length /\ mutex = w THEN Free ELSE mutex
    BY <1>2 DEF SerialInv, uart_write
  <2>2. \A v \in Writers \ {w} : ~(writer[v] > 0) /\ writer'[v] = writer[v]
    BY <2>1 DEF SerialInv
  <2>3. writer' \in [Writers -> Int]
    BY <2>1, MenuAssumption DEF SerialInv
  <2>4. writer'[w] > 0 => mutex' = w
    BY <2>1, MenuAssumption DEF SerialInv
  <2>5. writer'[w] > 1 => tx' = <<w, writer'[w] - 1>>
    BY <2>1, MenuAssumption DEF SerialInv
  <2>6. \A v \in Writers \ {w} : ~(writer'[v] > 1)
    BY <2>2 DEF SerialInv
  <2> QED
    BY <2>2, <2>3, <2>4, <2>5, <2>6 DEF SerialInv, CommandsAreWhole
<1> QED
  BY <1>1, <1>2 DEF Write

LEMMA InitSerial == Init => SerialInv
  BY DEF Init, SerialInv, CommandsAreWhole, Writers

LEMMA NextSerial == SerialInv /\ [Next]_vars => SerialInv'
<1> SUFFICES ASSUME SerialInv, [Next]_vars PROVE SerialInv'
  OBVIOUS
<1> USE DEF Writers
<1>1. CASE software_reboot
  BY <1>1 DEF software_reboot, SerialInv, CommandsAreWhole
<1>2. CASE CalibrateKey
  BY <1>2, SerialBegins DEF CalibrateKey
<1>3. ASSUME NEW e \in Events, CalibrateEvent(e) PROVE SerialInv'
  BY <1>3, SerialBegins, SerialKept DEF CalibrateEvent
<1>4. CASE Write("menu") \/ Write("rest")
  BY <1>4, SerialWrites
<1>5. CASE http_rest_scale_action
  BY <1>5, SerialBegins, SerialKept DEF http_rest_scale_action
<1>6. CASE \/ Press \/ Back \/ Turn \/ Override \/ Dispatch
           \/ CleanupEnter \/ CleanupPress \/ CleanupReset \/ CleanupIgnores \/ CleanupFine \/ CleanupDisable
           \/ CleanupExit \/ RunEnter \/ RunEnds \/ RunLeave \/ WifiInfo \/ SaveAll
  BY <1>6, SerialKept DEF Press, Back, Turn, Override, Dispatch, Elsewhere, CleanupEnter, CleanupPress, CleanupReset,
     CleanupSpeed, CleanupIgnores, CleanupFine, CleanupDisable, CleanupExit, RunEnter, RunEnds, RunLeave, WifiInfo,
     SaveAll, Same
<1>7. CASE (\E d \in {-1, 1} : CleanupTurn(d)) \/ (\E e \in Events : RunEvent(e)) \/ (\E v \in {0, 1} : RunTurns(v))
  BY <1>7, SerialKept DEF CleanupTurn, CleanupSpeed, RunEvent, RunTurns
<1>8. CASE RestCleanupState \/ RestChargeState \/ RestLearn \/ RestCleanupSpeed
  BY <1>8, SerialKept DEF RestCleanupState, RestChargeState, RestLearn, RestCleanupSpeed
<1>9. CASE (\E e \in Events : Button(e) \/ http_rest_button_control(e)) \/ (\E op, v : RestRequest(op, v))
  BY <1>9, SerialKept DEF Button, http_rest_button_control, RestRequest
<1>10. CASE UNCHANGED vars
  BY <1>10, SerialKept DEF vars
<1> QED
  BY <1>1, <1>2, <1>3, <1>4, <1>5, <1>6, <1>7, <1>8, <1>9, <1>10 DEF Next, MenuTask, RestThread, Events

\* A command of the calibration dialogue or of REST, which take the mutex, is never mixed
\* with the other's, however long it is (scale.c:231).  The G&G listener, which polls its
\* scale without the mutex (gng_scale.c:80), is not among Writers.
THEOREM CommandsNeverMix == Spec => []CommandsAreWhole
<1>1. SerialInv => CommandsAreWhole
  BY DEF SerialInv
<1> QED
  BY InitSerial, NextSerial, <1>1, PTL DEF Spec

-----------------------------------------------------------------------------
(* The motors. *)

\* A step that moves no motor, and neither leaves nor enters the disable steps.
LEMMA MotorsKept ==
  ASSUME MotorsInv, UNCHANGED <<motor, quiet, mode, step>>,
         rest'.op = "cleanup_speed" /\ rest'.at = "fine" => rest.op = "cleanup_speed" /\ rest.at = "fine"
  PROVE  MotorsInv'
  BY DEF MotorsInv, AllOff, At

\* A step that moves no motor and goes on to a step without a promise.
LEMMA MotorsLeft ==
  ASSUME MotorsInv, UNCHANGED <<motor, quiet, rest>>,
         mode' \in Turning => mode' # "cleanup" \/ step' \notin {"disable_fine", "exit"},
         mode' \notin Turning => mode \notin Turning
  PROVE  MotorsInv'
  BY DEF MotorsInv, AllOff, At, Turning

LEMMA InitMotors == Init => MotorsInv /\ RestShape
  BY DEF Init, MotorsInv, AllOff, At, Booted, NoRequest, RestShape

\* What the TCP/IP thread is serving is a request.
LEMMA NextRest == RestShape /\ [Next]_vars => RestShape'
<1> SUFFICES ASSUME RestShape, [Next]_vars PROVE RestShape'
  OBVIOUS
<1>1. ASSUME NEW s, RestGoto(s) PROVE RestShape'
  BY <1>1 DEF RestGoto, RestShape, NoRequest
<1>2. ASSUME NEW op, NEW arg, Begin(op, arg) PROVE RestShape'
  BY <1>2 DEF Begin, RestShape
<1>3. CASE UNCHANGED rests
  BY <1>3 DEF rests, RestShape
<1>4. CASE RestThread
  BY <1>1, <1>3, <1>4 DEF RestThread, RestCleanupState, RestState, RestChargeState, RestLearn, RestCleanupSpeed,
                          http_rest_scale_action, http_rest_button_control, Write, rests
<1>5. CASE MenuTask
  <2>1. CASE software_reboot
    BY <2>1 DEF software_reboot, NoRequest, RestShape
  <2>2. CASE ~software_reboot
    BY <1>3, <1>5, <2>2 DEF MenuTask, Press, Back, Turn, Override, Dispatch, Elsewhere, CleanupEnter, CleanupPress,
       CleanupReset, CleanupSpeed, CleanupIgnores, CleanupFine, CleanupDisable, CleanupExit, CleanupTurn, RunEnter,
       RunEnds, RunLeave, RunEvent, WifiInfo, SaveAll, Same, CalibrateKey, CalibrateEvent, Write
  <2> QED
    BY <2>1, <2>2
<1>6. CASE ~MenuTask /\ ~RestThread
  BY <1>2, <1>3, <1>6 DEF Next, Button, RunTurns, RestRequest, vars
<1> QED
  BY <1>4, <1>5, <1>6

LEMMA NextMotors == MotorsInv /\ RestShape /\ [Next]_vars => MotorsInv'
<1> SUFFICES ASSUME MotorsInv, RestShape, [Next]_vars PROVE MotorsInv'
  OBVIOUS
<1>1. CASE Press \/ Back \/ Turn \/ Override \/ Write("menu") \/ Write("rest") \/ \E e \in Events : Button(e)
  BY <1>1, MotorsKept DEF Press, Back, Turn, Override, Elsewhere, Write, Button, rests
<1>2. CASE Dispatch
  BY <1>2, MotorsLeft DEF Dispatch, Start, rests, Turning
<1>3. CASE CleanupEnter
  BY <1>3 DEF CleanupEnter, Goto, rests, MotorsInv, At, Turning
<1>4. CASE CleanupPress \/ CleanupReset \/ \E d \in {-1, 1} : CleanupTurn(d)
  BY <1>4 DEF CleanupPress, CleanupReset, CleanupTurn, CleanupSpeed, Goto, rests, MotorsInv, At, Turning
<1>5. CASE CleanupIgnores
  BY <1>5, MotorsKept DEF CleanupIgnores, Goto, rests, At
<1>6. CASE CleanupFine
  BY <1>6 DEF CleanupFine, Goto, rests, MotorsInv, At, Turning
<1>7. CASE CleanupDisable
  <2>1. CASE At("cleanup", "disable_coarse") /\ Disable({"coarse"}) /\ Goto("disable_fine")
             /\ quiet' = (rest.op # "cleanup_speed") /\ UNCHANGED rests
    <3>1. motor'["coarse"] = Off /\ mode' = "cleanup" /\ step' = "disable_fine" /\ rest' = rest
      BY <2>1 DEF Disable, Motors, At, Goto, rests
    <3>2. rest'.op = "cleanup_speed" => ~quiet'
      BY <2>1, <3>1
    <3> QED
      BY <3>1, <3>2 DEF MotorsInv, At, Turning
  <2>2. CASE At("cleanup", "disable_fine") /\ Disable({"fine"}) /\ Goto("exit") /\ UNCHANGED <<rests, quiet>>
    <3>1. quiet => motor["coarse"] = Off
      BY <2>2 DEF MotorsInv
    <3>2. quiet => motor' = [m \in Motors |-> Off]
      BY <2>2, <3>1 DEF Disable, Motors
    <3> QED
      BY <2>2, <3>2 DEF MotorsInv, AllOff, At, Goto, rests, Turning
  <2> QED
    BY <1>7, <2>1, <2>2 DEF CleanupDisable
<1>8. CASE CleanupExit
  BY <1>8 DEF CleanupExit, Return, rests, MotorsInv, AllOff, At, Turning
<1>9. CASE RunEnter
  BY <1>9 DEF RunEnter, Goto, rests, MotorsInv, At, Turning
<1>10. CASE RunEnds \/ \E e \in Events : RunEvent(e)
  <2>1. UNCHANGED <<motor, quiet, rest, mode>> /\ mode \in {"charge", "learn"}
    BY <1>10 DEF RunEnds, RunEvent, Goto, Same, rests, At
  <2> QED
    BY <2>1, MotorsLeft DEF Turning
<1>11. CASE \E v \in {0, 1} : RunTurns(v)
  BY <1>11 DEF RunTurns, Goto, rests, MotorsInv, At, Turning
<1>12. CASE RunLeave
  <2>1. mode' = "menu" /\ motor' = [m \in Motors |-> Off] /\ rest' = rest /\ quiet' = (rest.op # "cleanup_speed")
    BY <1>12 DEF RunLeave, Return, Disable, rests
  <2>2. rest'.op = "cleanup_speed" => ~quiet'
    BY <2>1
  <2> QED
    BY <2>1, <2>2 DEF MotorsInv, AllOff, At, Turning
<1>13. CASE WifiInfo
  BY <1>13, MotorsLeft DEF WifiInfo, Return, Goto, rests, Turning
<1>14. CASE SaveAll
  BY <1>14, MotorsLeft DEF SaveAll, Return, Same, rests, Turning
<1>15. CASE software_reboot
  BY <1>15 DEF software_reboot, MotorsInv, AllOff, At, Booted, NoRequest, Turning
<1>16. CASE CalibrateKey \/ \E e \in Events : CalibrateEvent(e)
  BY <1>16, MotorsLeft DEF CalibrateKey, CalibrateEvent, Return, Goto, rests, Turning
<1>17. CASE RestCleanupState \/ RestChargeState \/ RestLearn \/ (\E e \in Events : http_rest_button_control(e))
            \/ http_rest_scale_action
  <2>1. UNCHANGED <<motor, quiet, mode, step>>
    BY <1>17 DEF RestCleanupState, RestState, RestChargeState, RestLearn, http_rest_button_control,
                http_rest_scale_action, Shown, screen
  <2>2. rest'.op = rest.op \/ rest'.op = "none"
    BY <1>17 DEF RestCleanupState, RestState, RestChargeState, RestLearn, http_rest_button_control,
                http_rest_scale_action, RestGoto, NoRequest, RestShape
  <2>3. rest.op # "cleanup_speed"
    BY <1>17 DEF RestCleanupState, RestState, RestChargeState, RestLearn, http_rest_button_control,
                http_rest_scale_action, RestAt
  <2> QED
    BY <2>1, <2>2, <2>3, MotorsKept
<1>18. CASE RestCleanupSpeed
  <2>1. CASE quiet' = FALSE /\ RestGoto("fine")
    BY <2>1 DEF MotorsInv
  <2>2. CASE RestAt("cleanup_speed", "fine") /\ UNCHANGED quiet
    <3>1. ~quiet'
      BY <2>2 DEF MotorsInv, RestAt
    <3> QED
      BY <3>1 DEF MotorsInv
  <2> QED
    BY <1>18, <2>1, <2>2 DEF RestCleanupSpeed
<1>19. CASE \E op, v : RestRequest(op, v)
  <2>1. UNCHANGED <<motor, quiet, mode, step>> /\ rest'.at = "begin"
    BY <1>19 DEF RestRequest, Begin
  <2> QED
    BY <2>1, MotorsKept
<1>20. CASE UNCHANGED vars
  BY <1>20, MotorsKept DEF vars, rests
<1> QED
  BY <1>1, <1>2, <1>3, <1>4, <1>5, <1>6, <1>7, <1>8, <1>9, <1>10, <1>11, <1>12, <1>13, <1>14, <1>15, <1>16, <1>17,
     <1>18, <1>19, <1>20 DEF Next, MenuTask, RestThread, Events

\* However a mode ends, both motors are disabled and at rest when the forms are shown
\* again, unless a speed came over REST since (cleanup_mode.cpp:156).
THEOREM MotorsAreAtRest == Spec => []MotorsRestAtMenu
<1>1. MotorsInv => MotorsRestAtMenu
  BY DEF MotorsInv, MotorsRestAtMenu, AllOff, Turning
<1> QED
  BY InitMotors, NextMotors, NextRest, <1>1, PTL DEF Spec
===============================================================================
