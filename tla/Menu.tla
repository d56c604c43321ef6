-------------------------------- MODULE Menu --------------------------------
(***************************************************************************)
(* The menu task: the graph of forms (src/mui_menu.c), the loop that walks *)
(* them and hands the display to a mode (src/menu.c), and the modes that   *)
(* are small enough to be kept whole: cleanup (src/cleanup_mode.cpp), scale *)
(* calibration (src/and_scale_calibrate.c), the Wifi page, save, erase and *)
(* reboot.  Of charge mode and Learn only what they share with the others  *)
(* is kept: their motors, RST and the way back.  Everything reaches the    *)
(* menu task through one queue, from button interrupts and from REST, and  *)
(* REST also writes the variables of the modes while they run.  The serial *)
(* line to the scale is shared under a mutex (scale_write).                *)
(*                                                                         *)
(* The cursor within a form is left out: a press goes to any field.  The   *)
(* speed a motor was last sent counts as its speed (StepperMotor).         *)
(***************************************************************************)
EXTENDS Integers, Sequences, FiniteSets, TLC

CONSTANTS
    QueueSize,    \* of encoder_event_queue
    MaxSpeed,     \* largest cleanup speed (bound)
    Speeds,       \* speeds set over REST (bound)
    MaxRest,      \* REST requests served (bound)
    Length        \* bytes of a command to the scale (bound)

ASSUME MenuAssumption == QueueSize \in Nat \ {0} /\ MaxSpeed \in Nat /\ Speeds \subseteq Int /\ MaxRest \in Nat /\ Length \in Nat \ {0}

-----------------------------------------------------------------------------
(* The forms. *)

\* Forms that a button, list or menu entry of a form leads to.
MainLinks ==
    1 :> {10, 15, 16, 20, 40, 30} @@ 10 :> {11, 12, 1, 33} @@ 11 :> {13, 10} @@ 12 :> {13, 10} @@
    13 :> {10} @@ 15 :> {1} @@ 16 :> {17, 1, 33} @@ 17 :> {16} @@ 20 :> {1}
SettingsLinks ==
    30 :> {31, 32, 42, 37, 39, 35, 36, 1} @@ 31 :> {53, 51, 30} @@ 32 :> {33, 34, 30} @@ 33 :> {} @@
    34 :> {38, 32} @@ 35 :> {30} @@ 36 :> {30} @@ 37 :> {60, 61, 30} @@ 38 :> {30, 34} @@ 39 :> {30} @@
    40 :> {41, 1} @@ 41 :> {} @@ 42 :> {30, 60} @@ 51 :> {31} @@ 53 :> {31} @@ 60 :> {37} @@ 61 :> {37}
Links == MainLinks @@ SettingsLinks
Forms == DOMAIN Links

\* Forms with fields that change a setting and stay.
Editors == {11, 12, 15, 39, 42, 53}
ProfileList == 33

\* What the button that leaves the forms asks for.
Leaves == 13 :> "charge" @@ 17 :> "learn" @@ 20 :> "cleanup" @@ 35 :> "reboot" @@ 41 :> "wifi" @@
          51 :> "calibration" @@ 60 :> "save" @@ 61 :> "erase"

menu_get_parent_form_id(f) ==
    CASE f \in {11, 12, 13} -> 10
      [] f = 17 -> 16
      [] f \in {31, 32, 35, 36, 37, 39, 42} -> 30
      [] f \in {33, 34} -> 32
      [] f = 38 -> 34
      [] f = 41 -> 40
      [] f \in {51, 53} -> 31
      [] f \in {60, 61} -> 37
      [] OTHER -> 1

\* The form a mode returns.
ReturnForm(m) ==
    CASE m = "calibration" -> 31 [] m \in {"save", "erase"} -> 37 [] m = "wifi" -> 40 [] OTHER -> 1

-----------------------------------------------------------------------------
Motors == {"coarse", "fine"}
Events == {"TURN", "PRESS", "RST", "OVERRIDE"}
Writers == {"menu", "rest"}
Free == "free"

VARIABLES
    form,                 \* form shown, 0 while none is active
    list_parent,          \* form that opened the profile list
    exit_state,
    encoder_event_queue,
    mode, step,           \* what the menu task runs, and where it is in it
    cleanup_mode_state, trickler_speed, charge_mode_state,
    sending,              \* argument of the menu task's motor_set_speed under way
    motor,                \* [Motors -> [enabled, speed]]
    rest,                 \* the request the TCP/IP thread is serving
    served,               \* REST requests served (bound)
    mutex, writer, tx,    \* scale_serial_write_access_mutex; [Writers -> next byte, 0 idle, -1 waiting]; last byte sent
    quiet                 \* no speed came over REST since the motors were last disabled (history)

screen == <<form, list_parent, exit_state>>
modes == <<cleanup_mode_state, trickler_speed, charge_mode_state, sending>>
serial == <<mutex, writer, tx>>
rests == <<rest, served>>
vars == <<screen, encoder_event_queue, mode, step, modes, motor, rests, serial, quiet>>

Off == [enabled |-> FALSE, speed |-> 0]
NoRequest == [op |-> "none", arg |-> 0, at |-> "idle"]

\* The state after a start of the board.
Booted ==
    [form |-> 1, list_parent |-> 10, exit_state |-> "default", queue |-> <<>>, motor |-> [m \in Motors |-> Off]]

Init ==
    /\ form = Booted.form /\ list_parent = Booted.list_parent /\ exit_state = Booted.exit_state
    /\ encoder_event_queue = <<>> /\ mode = "menu" /\ step = "idle"
    /\ cleanup_mode_state = "EXIT" /\ trickler_speed = 0 /\ charge_mode_state = "EXIT" /\ sending = 0
    /\ motor = Booted.motor /\ rest = NoRequest /\ served = 0
    /\ mutex = Free /\ writer = [w \in Writers |-> 0] /\ tx = <<Free, 0>> /\ quiet = TRUE

-----------------------------------------------------------------------------
(* The queue. *)

Send(e) == encoder_event_queue' = Append(encoder_event_queue, e)
HasRoom == Len(encoder_event_queue) < QueueSize
Receive(e) == encoder_event_queue # <<>> /\ e = Head(encoder_event_queue) /\ encoder_event_queue' = Tail(encoder_event_queue)

\* An interrupt; a full queue drops the event.
Button(e) ==
    /\ HasRoom /\ Send(e)
    /\ UNCHANGED <<screen, mode, step, modes, motor, rests, serial, quiet>>

-----------------------------------------------------------------------------
(* menu_task *)

AtForm == mode = "menu" /\ form # 0
Elsewhere == UNCHANGED <<mode, step, modes, motor, rests, serial, quiet>>

\* A press opens another form, chooses a profile, changes a setting, or leaves the forms.
Press ==
    /\ AtForm /\ Receive("PRESS") /\ Elsewhere
    /\ \/ /\ form' \in Links[form] /\ UNCHANGED exit_state
          /\ list_parent' = IF form' = ProfileList THEN form ELSE list_parent
       \/ form = ProfileList /\ form' = list_parent /\ UNCHANGED <<list_parent, exit_state>>
       \/ form \in Editors /\ UNCHANGED screen
       \/ form \in DOMAIN Leaves /\ exit_state' = Leaves[form] /\ form' = 0 /\ UNCHANGED list_parent

\* One level up.
Back ==
    /\ AtForm /\ Receive("RST") /\ Elsewhere
    /\ form' = (IF form = 1 THEN 1 ELSE menu_get_parent_form_id(form)) /\ UNCHANGED <<list_parent, exit_state>>

Turn == AtForm /\ Receive("TURN") /\ UNCHANGED screen /\ Elsewhere

\* The sender has set exit_state.
Override == AtForm /\ Receive("OVERRIDE") /\ form' = 0 /\ UNCHANGED <<list_parent, exit_state>> /\ Elsewhere

Start(m) == mode' = m /\ step' = "enter"
Dispatch ==
    /\ mode = "menu" /\ form = 0
    /\ IF exit_state = "default" THEN form' = 1 /\ UNCHANGED <<mode, step>> ELSE Start(exit_state) /\ UNCHANGED form
    /\ UNCHANGED <<list_parent, exit_state, encoder_event_queue, modes, motor, rests, serial, quiet>>

Return == mode' = "menu" /\ step' = "idle" /\ form' = ReturnForm(mode) /\ UNCHANGED <<list_parent, exit_state>>
At(m, s) == mode = m /\ step = s
Goto(s) == step' = s /\ UNCHANGED <<screen, mode>>
Same == UNCHANGED <<encoder_event_queue, modes, motor, rests, serial, quiet>>

-----------------------------------------------------------------------------
(* Motors. *)

SetSpeed(ms, v) == motor' = [m \in Motors |-> IF m \in ms THEN [motor[m] EXCEPT !.speed = v] ELSE motor[m]]
Enable(ms) == motor' = [m \in Motors |-> IF m \in ms THEN [motor[m] EXCEPT !.enabled = TRUE] ELSE motor[m]]
\* mutant: the pin alone is reset
DisablePin(ms) == motor' = [m \in Motors |-> IF m \in ms THEN [motor[m] EXCEPT !.enabled = FALSE] ELSE motor[m]]
Disable(ms) == motor' = [m \in Motors |-> IF m \in ms THEN Off ELSE motor[m]]

-----------------------------------------------------------------------------
(* Cleanup mode. *)

CleanupEnter ==
    /\ At("cleanup", "enter") /\ Goto("loop")
    /\ cleanup_mode_state' = "ENTER" /\ trickler_speed' = 0
    /\ Enable(Motors)
    /\ UNCHANGED <<encoder_event_queue, charge_mode_state, sending, rests, serial, quiet>>

CleanupSpeed(v, next) ==
    /\ trickler_speed' = v /\ SetSpeed({"coarse"}, v) /\ sending' = v /\ Goto(next)
    /\ UNCHANGED <<cleanup_mode_state, charge_mode_state, rests, serial, quiet>>

CleanupTurn(d) ==
    /\ At("cleanup", "loop") /\ Receive("TURN")
    /\ trickler_speed + d \in -MaxSpeed .. MaxSpeed
    /\ CleanupSpeed(trickler_speed + d, "speed")

CleanupPress == At("cleanup", "loop") /\ Receive("PRESS") /\ CleanupSpeed(0, "speed")
\* mutant: the loop stops without leaving
CleanupResetStays == At("cleanup", "loop") /\ Receive("RST") /\ CleanupSpeed(0, "speed")
CleanupReset == At("cleanup", "loop") /\ Receive("RST") /\ CleanupSpeed(0, "stop")

CleanupIgnores ==
    /\ At("cleanup", "loop") /\ Receive("OVERRIDE") /\ Goto("loop")
    /\ UNCHANGED <<modes, motor, rests, serial, quiet>>

\* motor_set_speed sends to one queue after the other.
CleanupFine ==
    /\ mode = "cleanup" /\ step \in {"speed", "stop"}
    /\ SetSpeed({"fine"}, sending) /\ sending' = 0
    /\ Goto(IF step = "speed" THEN "loop" ELSE "disable_coarse")
    /\ UNCHANGED <<encoder_event_queue, cleanup_mode_state, trickler_speed, charge_mode_state, rests, serial, quiet>>

CleanupDisable ==
    \/ /\ At("cleanup", "disable_coarse") /\ Disable({"coarse"}) /\ Goto("disable_fine")
       /\ quiet' = (rest.op # "cleanup_speed")
       /\ UNCHANGED <<encoder_event_queue, modes, rests, serial>>
    \/ /\ At("cleanup", "disable_fine") /\ Disable({"fine"}) /\ Goto("exit")
       /\ UNCHANGED <<encoder_event_queue, modes, rests, serial, quiet>>

CleanupExit ==
    /\ At("cleanup", "exit") /\ Return /\ cleanup_mode_state' = "EXIT"
    /\ UNCHANGED <<encoder_event_queue, trickler_speed, charge_mode_state, sending, motor, rests, serial, quiet>>

-----------------------------------------------------------------------------
(* Charge mode and Learn, as far as they share the motors and the queue. *)

RunEnter ==
    /\ mode \in {"charge", "learn"} /\ step = "enter" /\ Goto("run")
    /\ Enable(Motors)
    /\ charge_mode_state' = IF mode = "charge" THEN "RUN" ELSE charge_mode_state
    /\ UNCHANGED <<encoder_event_queue, cleanup_mode_state, trickler_speed, sending, rests, serial, quiet>>

\* RST ends a charge; a Learn run ends on RST or by itself and shows a screen that an event leaves.
RunEvent(e) ==
    /\ mode \in {"charge", "learn"} /\ step \in {"run", "screen"} /\ Receive(e)
    /\ Goto(CASE step = "screen" -> (IF e = "TURN" THEN "screen" ELSE "leave")
              [] step = "run" /\ e = "RST" -> (IF mode = "charge" THEN "leave" ELSE "screen")
              [] OTHER -> "run")
    /\ UNCHANGED <<modes, motor, rests, serial, quiet>>

RunEnds ==
    /\ \/ At("charge", "run") /\ charge_mode_state = "EXIT" /\ Goto("leave")
       \/ At("learn", "run") /\ Goto("screen")
    /\ Same

\* The motors turn.
RunTurns(v) ==
    /\ mode \in {"charge", "learn"} /\ step = "run" /\ Goto("run")
    /\ SetSpeed(Motors, v)
    /\ UNCHANGED <<encoder_event_queue, modes, rests, serial, quiet>>

RunLeave ==
    /\ mode \in {"charge", "learn"} /\ step = "leave" /\ Return
    /\ Disable(Motors) /\ quiet' = (rest.op # "cleanup_speed")
    /\ charge_mode_state' = "EXIT"
    /\ UNCHANGED <<encoder_event_queue, cleanup_mode_state, trickler_speed, sending, rests, serial>>

-----------------------------------------------------------------------------
(* The Wifi page, the settings actions and the reboot. *)

WifiInfo ==
    /\ mode = "wifi" /\ \E e \in Events :
          Receive(e) /\ IF e \in {"RST", "PRESS"} THEN Return ELSE Goto("enter")
    /\ UNCHANGED <<modes, motor, rests, serial, quiet>>

SaveAll == mode = "save" /\ Return /\ Same

\* A reboot forgets everything, the request being served included.
software_reboot ==
    /\ mode \in {"erase", "reboot"}
    /\ form' = Booted.form /\ list_parent' = Booted.list_parent /\ exit_state' = Booted.exit_state
    /\ encoder_event_queue' = <<>> /\ mode' = "menu" /\ step' = "idle"
    /\ cleanup_mode_state' = "EXIT" /\ trickler_speed' = 0 /\ charge_mode_state' = "EXIT" /\ sending' = 0
    /\ motor' = Booted.motor /\ rest' = NoRequest /\ UNCHANGED served
    /\ mutex' = Free /\ writer' = [w \in Writers |-> 0] /\ tx' = <<Free, 0>> /\ quiet' = TRUE

-----------------------------------------------------------------------------
(* Commands to the scale. *)

\* mutant: the mutex is not taken
WriteUnlocked(w) == writer[w] = -1 /\ writer' = [writer EXCEPT ![w] = 1] /\ UNCHANGED <<mutex, tx>>
TakeMutex(w) ==
    /\ writer[w] = -1
    /\ mutex = Free /\ mutex' = w
    /\ writer' = [writer EXCEPT ![w] = 1] /\ UNCHANGED tx

\* mutant: an early return keeps the mutex
WriteKeepsMutex(w) ==
    /\ writer[w] > 0 /\ tx' = <<w, writer[w]>>
    /\ writer' = [writer EXCEPT ![w] = IF @ < Length THEN @ + 1 ELSE 0]
    /\ UNCHANGED mutex
uart_write(w) ==
    /\ writer[w] > 0 /\ tx' = <<w, writer[w]>>
    /\ writer' = [writer EXCEPT ![w] = IF @ < Length THEN @ + 1 ELSE 0]
    /\ mutex' = IF writer[w] = Length /\ mutex = w THEN Free ELSE mutex

Write(w) ==
    /\ TakeMutex(w) \/ uart_write(w)
    /\ UNCHANGED <<screen, encoder_event_queue, mode, step, modes, motor, rests, quiet>>

BeginWrite(w) == writer[w] = 0 /\ writer' = [writer EXCEPT ![w] = -1] /\ UNCHANGED <<mutex, tx>>

-----------------------------------------------------------------------------
(* Scale calibration: a key of the scale, a wait, and Next or RST, three times. *)

After == "enter" :> "zero" @@ "zero" :> "weight" @@ "weight" :> "remove"

\* The CAL or PRINT key is sent, then the dialogue waits for the scale.
CalibrateKey ==
    /\ mode = "calibration" /\ step = "enter" /\ BeginWrite("menu") /\ Goto("zero")
    /\ UNCHANGED <<encoder_event_queue, modes, motor, rests, quiet>>

CalibrateEvent(e) ==
    /\ mode = "calibration" /\ step \in {"zero", "weight", "remove"} /\ writer["menu"] = 0 /\ Receive(e)
    /\ CASE e = "RST" \/ (e = "PRESS" /\ step = "remove") -> Return /\ UNCHANGED serial
         [] e = "PRESS" /\ step # "remove" -> BeginWrite("menu") /\ Goto(After[step])
         [] OTHER -> Goto(step) /\ UNCHANGED serial
    /\ UNCHANGED <<modes, motor, rests, quiet>>

-----------------------------------------------------------------------------
(* REST, served one at a time by the TCP/IP thread. *)

Begin(op, arg) == rest = NoRequest /\ served < MaxRest /\ served' = served + 1 /\ rest' = [op |-> op, arg |-> arg, at |-> "begin"]
RestAt(op, s) == rest.op = op /\ rest.at = s
RestGoto(s) == rest' = (IF s = "idle" THEN NoRequest ELSE [rest EXCEPT !.at = s]) /\ UNCHANGED served
Shown == UNCHANGED <<form, list_parent, mode, step>>

RestRequest(op, arg) ==
    /\ Begin(op, arg)
    /\ UNCHANGED <<screen, encoder_event_queue, mode, step, modes, motor, serial, quiet>>

\* s0 of /rest/cleanup_mode_state: RST or an override is queued first, the state is written afterwards.
RestState(op, isExit, must, event, target) ==
    \/ /\ RestAt(op, "begin") /\ RestGoto(IF must THEN "send" ELSE "write")
       /\ exit_state' = IF must /\ ~isExit THEN target ELSE exit_state
       /\ Shown /\ UNCHANGED <<encoder_event_queue, modes>>
    \/ /\ RestAt(op, "send") /\ HasRoom /\ Send(event) /\ RestGoto("write")
       /\ Shown /\ UNCHANGED <<exit_state, modes>>

RestCleanupState ==
    /\ \/ RestState("cleanup_exit", TRUE, cleanup_mode_state # "EXIT", "RST", "cleanup")
       \/ RestState("cleanup_enter", FALSE, cleanup_mode_state # "ENTER", "OVERRIDE", "cleanup")
       \/ /\ rest.op \in {"cleanup_exit", "cleanup_enter"} /\ rest.at = "write" /\ RestGoto("idle")
          /\ cleanup_mode_state' = IF rest.op = "cleanup_exit" THEN "EXIT" ELSE "ENTER"
          /\ UNCHANGED <<screen, mode, step, encoder_event_queue, trickler_speed, charge_mode_state, sending>>
    /\ UNCHANGED <<motor, serial, quiet>>

RestChargeState ==
    /\ \/ RestState("charge_exit", TRUE, charge_mode_state # "EXIT", "RST", "charge")
       \/ RestState("charge_enter", FALSE, charge_mode_state = "EXIT", "OVERRIDE", "charge")
       \/ /\ rest.op \in {"charge_exit", "charge_enter"} /\ rest.at = "write" /\ RestGoto("idle")
          /\ charge_mode_state' = IF rest.op = "charge_exit" THEN "EXIT" ELSE "RUN"
          /\ UNCHANGED <<screen, mode, step, encoder_event_queue, trickler_speed, cleanup_mode_state, sending>>
    /\ UNCHANGED <<motor, serial, quiet>>

\* a0 of /rest/learn_state.
RestLearn ==
    /\ \/ /\ RestAt("learn_start", "begin")
          /\ LET may == ~(mode = "learn" /\ step = "run") /\ charge_mode_state = "EXIT"
             IN  /\ RestGoto(IF may THEN "send" ELSE "idle")
                 /\ exit_state' = IF may THEN "learn" ELSE exit_state
          /\ UNCHANGED encoder_event_queue
       \/ /\ RestAt("learn_stop", "begin") /\ RestGoto("send") /\ UNCHANGED <<exit_state, encoder_event_queue>>
       \/ /\ rest.op \in {"learn_start", "learn_stop"} /\ rest.at = "send" /\ HasRoom /\ RestGoto("idle")
          /\ Send(IF rest.op = "learn_start" THEN "OVERRIDE" ELSE "RST") /\ UNCHANGED exit_state
    /\ Shown /\ UNCHANGED <<modes, motor, serial, quiet>>

\* s1 of /rest/cleanup_mode_state: whatever mode is active.
RestCleanupSpeed ==
    /\ \/ /\ RestAt("cleanup_speed", "begin") /\ trickler_speed' = rest.arg
          /\ SetSpeed({"coarse"}, rest.arg) /\ quiet' = FALSE /\ RestGoto("fine")
       \/ /\ RestAt("cleanup_speed", "fine") /\ SetSpeed({"fine"}, rest.arg) /\ RestGoto("idle")
          /\ UNCHANGED <<trickler_speed, quiet>>
    /\ UNCHANGED <<screen, encoder_event_queue, mode, step, cleanup_mode_state, charge_mode_state, sending, serial>>

\* Buttons over REST: a full queue drops the event.
http_rest_button_control(e) ==
    /\ RestAt("button", "begin") /\ RestGoto("idle")
    /\ encoder_event_queue' = IF HasRoom THEN Append(encoder_event_queue, e) ELSE encoder_event_queue
    /\ UNCHANGED <<screen, mode, step, modes, motor, serial, quiet>>

\* a0 of /rest/scale_action: the zero key, sent on the TCP/IP thread.
http_rest_scale_action ==
    /\ \/ RestAt("force_zero", "begin") /\ BeginWrite("rest") /\ RestGoto("written")
       \/ RestAt("force_zero", "written") /\ writer["rest"] = 0 /\ RestGoto("idle") /\ UNCHANGED serial
    /\ UNCHANGED <<screen, encoder_event_queue, mode, step, modes, motor, quiet>>

-----------------------------------------------------------------------------
MenuTask ==
    \/ Press \/ Back \/ Turn \/ Override \/ Dispatch
    \/ CleanupEnter \/ CleanupPress \/ CleanupReset \/ CleanupIgnores \/ CleanupFine \/ CleanupDisable \/ CleanupExit
    \/ \E d \in {-1, 1} : CleanupTurn(d)
    \/ RunEnter \/ RunEnds \/ RunLeave \/ \E e \in Events : RunEvent(e)
    \/ WifiInfo \/ SaveAll \/ software_reboot
    \/ CalibrateKey \/ \E e \in Events : CalibrateEvent(e)
    \/ Write("menu")

RestThread ==
    \/ RestCleanupState \/ RestChargeState \/ RestLearn \/ RestCleanupSpeed \/ http_rest_scale_action
    \/ \E e \in {"TURN", "PRESS", "RST"} : http_rest_button_control(e)
    \/ Write("rest")

Next ==
    \/ MenuTask \/ RestThread
    \/ \E e \in {"TURN", "PRESS", "RST"} : Button(e)
    \/ \E v \in {0, 1} : RunTurns(v)
    \/ \E op \in {"cleanup_exit", "cleanup_enter", "charge_exit", "charge_enter", "learn_start", "learn_stop", "button", "force_zero"} : RestRequest(op, 0)
    \/ \E v \in Speeds : RestRequest("cleanup_speed", v)

Spec == Init /\ [][Next]_vars

\* Both tasks run; nothing is assumed of buttons and clients.
FairSpec == Spec /\ WF_vars(MenuTask) /\ WF_vars(RestThread)

-----------------------------------------------------------------------------
(* However a mode ends, and whatever speeds came over REST while it ran,   *)
(* both motors stand still and are disabled when the forms are shown       *)
(* again, until the next speed over REST: both of cleanup's ways to a      *)
(* motor (motor_set_speed and motor_enable) are needed in this order.      *)
MotorsRestAtMenu == mode = "menu" /\ quiet => motor = [m \in Motors |-> Off]

(* The bytes of a command to the scale follow each other on the line: the  *)
(* calibration dialogue and a zero key sent over REST never mix.  (The   *)
(* G&G listener polls its scale without the mutex: gng_scale.c:80.)        *)
CommandsAreWhole == \A w \in Writers : writer[w] > 1 => tx = <<w, writer[w] - 1>>

(* An RST that is queued leads out of cleanup, of the calibration dialogue *)
(* and of the Wifi page, whatever is queued before it and whoever holds    *)
(* the serial line.                                                        *)
ResetLeavesMode ==
    \A m \in {"cleanup", "calibration", "wifi"} :
        (mode = m /\ \E i \in DOMAIN encoder_event_queue : encoder_event_queue[i] = "RST") ~> mode # m

(* src/menu.c:101 "Global back: deterministic "one menu level up"": RST on *)
(* the profile list goes to the form that opened it, as a choice does.     *)
BackReturns == [][Back /\ form = ProfileList => form' = list_parent]_vars

(* Leaving cleanup over REST does not end another mode.                    *)
CleanupExitSparesOthers ==
    [][rest.op = "cleanup_exit" /\ rest.at = "send" /\ rest'.at = "write" => mode \notin {"charge", "learn"}]_vars
=============================================================================
