------------------------------ MODULE Wireless ------------------------------
(***************************************************************************)
(* The wireless task (src/wireless.c): it joins the configured network,    *)
(* trying again until its time is over, falls back to an access point of   *)
(* its own, starts the HTTP server, and from then on only serves the queue *)
(* of commands for the LED.  The LED task looks at the state of the        *)
(* wireless task and queues a command when the LED has to change; while    *)
(* the wireless task is busy joining nobody empties that queue, and a      *)
(* command that finds it full is dropped.                                  *)
(***************************************************************************)
EXTENDS Naturals, Sequences

CONSTANTS
    Timeouts,     \* values of timeout_ms, in units of the clock (bound)
    MaxClock      \* the clock stops here (bound)

ASSUME WirelessAssumption == Timeouts \subseteq Nat /\ MaxClock \in Nat /\ \A t \in Timeouts : t <= MaxClock

VARIABLES
    enable, timeout,          \* eeprom_wireless_metadata
    current_wireless_state,
    step,                     \* of wireless_task
    clock,                    \* since the board started to join
    wireless_ctrl_queue,
    led_task, led_state,      \* "none" until created, "delay" or "send"; what it wants
    led                       \* the LED

settings == <<enable, timeout>>
task == <<current_wireless_state, step>>
leds == <<led_task, led_state>>
vars == <<settings, task, clock, wireless_ctrl_queue, leds, led>>

\* mutant: an even number
QueueLengthEven == 4
QueueLength == 5

Init ==
    /\ enable \in BOOLEAN /\ timeout \in Timeouts
    /\ current_wireless_state = "NOT_INITIALIZED" /\ step = "init" /\ clock = 0
    /\ wireless_ctrl_queue = <<>> /\ led_task = "none" /\ led_state = FALSE /\ led = FALSE

-----------------------------------------------------------------------------
(* wireless_task *)

Goto(state, s) == current_wireless_state' = state /\ step' = s
Rest == UNCHANGED <<settings, clock, wireless_ctrl_queue, led>>

cyw43_arch_init ==
    /\ step = "init"
    /\ \/ Goto("IDLE", "idle") /\ led_task' = "delay"
       \/ Goto("NOT_INITIALIZED", "exit") /\ UNCHANGED led_task
    /\ UNCHANGED led_state /\ Rest

EnableStation ==
    /\ step = "idle" /\ (IF enable THEN Goto("STA_MODE_INIT", "try") ELSE Goto("AP_MODE_INIT", "access_point"))
    /\ UNCHANGED leds /\ Rest

\* The time is looked at between two attempts only.
Connect ==
    /\ step = "try"
    /\ IF clock < timeout THEN Goto("STA_MODE_INIT", "connecting") ELSE Goto("IDLE", "failed")
    /\ UNCHANGED leds /\ Rest

Connected == step = "connecting" /\ Goto("STA_MODE_LISTEN", "start_server") /\ UNCHANGED leds /\ Rest
NotConnected == step = "connecting" /\ Goto("STA_MODE_INIT", "try") /\ UNCHANGED leds /\ Rest
FallBack == step = "failed" /\ Goto("AP_MODE_INIT", "access_point") /\ UNCHANGED leds /\ Rest
access_point_mode_start == step = "access_point" /\ Goto("AP_MODE_LISTEN", "start_server") /\ UNCHANGED leds /\ Rest

\* mDNS, the endpoints and the HTTP server.
httpd_init == step = "start_server" /\ Goto(current_wireless_state, "serve") /\ UNCHANGED leds /\ Rest

cyw43_arch_gpio_put ==
    /\ step = "serve" /\ wireless_ctrl_queue # <<>>
    /\ led' = Head(wireless_ctrl_queue) /\ wireless_ctrl_queue' = Tail(wireless_ctrl_queue)
    /\ UNCHANGED <<settings, task, clock, leds>>

-----------------------------------------------------------------------------
(* led_interface_task *)

\* What the LED task wants in each state: dark, lit, or the opposite of before.
Wanted ==
    CASE current_wireless_state \in {"NOT_INITIALIZED", "IDLE"} -> FALSE
      [] current_wireless_state = "STA_MODE_LISTEN" -> TRUE
      [] OTHER -> ~led_state

\* The delay between two turns is long for a wireless task that is not busy.
DelayOver == step = "serve" => wireless_ctrl_queue = <<>>

Look ==
    /\ led_task = "delay" /\ DelayOver
    /\ led_state' = Wanted /\ led_task' = IF Wanted = led_state THEN "delay" ELSE "send"
    /\ UNCHANGED <<settings, task, clock, wireless_ctrl_queue, led>>

Send ==
    /\ led_task = "send" /\ led_task' = "delay"
    /\ wireless_ctrl_queue' = IF Len(wireless_ctrl_queue) < QueueLength
                              THEN Append(wireless_ctrl_queue, led_state) ELSE wireless_ctrl_queue
    /\ UNCHANGED <<settings, task, clock, led_state, led>>

-----------------------------------------------------------------------------
Tick == clock < MaxClock /\ clock' = clock + 1 /\ UNCHANGED <<settings, task, wireless_ctrl_queue, leds, led>>

WirelessTask ==
    \/ cyw43_arch_init \/ EnableStation \/ Connect \/ Connected \/ NotConnected \/ FallBack
    \/ access_point_mode_start \/ httpd_init \/ cyw43_arch_gpio_put
LedTask == Look \/ Send
Next == WirelessTask \/ LedTask \/ Tick

Spec == Init /\ [][Next]_vars

\* Both tasks run, an attempt to connect ends by its own time limit, and time passes.
FairSpec == Spec /\ WF_vars(WirelessTask) /\ WF_vars(LedTask) /\ WF_vars(Tick)

-----------------------------------------------------------------------------
(* The LED ends lit once a network is joined, however many commands were   *)
(* dropped while nobody emptied the queue: a full queue ends with "on"     *)
(* because its length is odd and the LED task begins with "on".  As an     *)
(* access point it keeps blinking.                                         *)
LedShowsState ==
    /\ (current_wireless_state = "STA_MODE_LISTEN") ~> [](led = TRUE)
    /\ (current_wireless_state = "AP_MODE_LISTEN") ~> (led = TRUE)
    /\ (current_wireless_state = "AP_MODE_LISTEN") ~> (led = FALSE)
=============================================================================
