------------------------------ MODULE ChargeMode ------------------------------
(***************************************************************************)
(* Charge mode: charge_mode.cpp, run by the menu task, with the REST       *)
(* handler that writes its state behind its back.                          *)
(*                                                                         *)
(* charge_mode_menu dispatches on charge_mode_state, a variable the menu   *)
(* task assigns when a phase ends and REST s2 assigns at any time; the     *)
(* phases themselves only look at the encoder event queue and at the       *)
(* scale.  The motors and the gate appear as the command sent to each last *)
(* (StepperMotor and ServoGate are about what becomes of a command).       *)
(*                                                                         *)
(* Weights are integers in units in which half of every target is whole.   *)
(* A reading of the scale, and a set point or a handoff sent over REST,    *)
(* may also be NaN, and every comparison with it is false.                 *)
(* Speeds are told apart as far as stop, forward and reverse.              *)
(***************************************************************************)
EXTENDS Integers, Sequences

CONSTANTS
  Targets,      \* set points the digits of the menu give
  RestTargets,  \* set points REST s0 asks for
  Handoffs,     \* values of coarse_stop_threshold (REST c5, the live tuner)
  Trims,        \* learn_landing_trim
  Bracket,      \* charge_mode_get_active_bracket
  MaxWeight,    \* the largest reading, a bound for TLC
  RestStates,   \* the states REST s2 asks for; the handler accepts any
  QueueLength,  \* of encoder_event_queue
  NotANumber    \* a reading the scale driver could not decode, or a request's "nan"

EXIT           == 0
WAIT_ZERO      == 1
WAIT_COMPLETE  == 2
CUP_REMOVAL    == 3
CUP_RETURN     == 4
ChargeState    == EXIT .. CUP_RETURN

ASSUME ChargeAssumption ==
  /\ Targets # {}
  /\ NotANumber \notin Targets
  /\ \A t \in (Targets \union RestTargets) \ {NotANumber} : t \in Int /\ t % 2 = 0
  /\ Handoffs \subseteq Int \union {NotANumber}
  /\ Trims \subseteq Int
  /\ Bracket \in Nat
  /\ MaxWeight \in Nat
  /\ RestStates \subseteq ChargeState
  /\ QueueLength \in Nat \ {0}
  /\ NotANumber \notin Int

Weight   == 0 .. MaxWeight
SetPoint == Targets \union RestTargets
BulkAims == {0} \union UNION {0 .. t : t \in SetPoint \ {NotANumber}}
\* "ENCODER" stands for a press and for a click of rotation.
Event  == {"RST", "ENCODER", "OVERRIDE"}
Phase  == {"form", "enter", "dispatch", "zero", "charge", "close", "precharge",
           "precharging", "settle", "top_up", "cup", "return", "leave"}

MaxTopUps == 2

VARIABLES
  state,         \* charge_mode_state
  pc,            \* where the menu task is
  queue,         \* encoder_event_queue
  rest, ask,     \* where a REST s2 that sends an event is, and the state asked for
  target,        \* target_charge_weight
  gate_enable,   \* servo_gate_enable
  coarse, fine,  \* the speed each motor was sent last
  enabled,       \* the motors' EN pins
  gate,          \* is the ratio the gate was sent last the closed one?
  moving,        \* should_coarse_trickler_move
  backoff, due,  \* coarse_backoff_in_progress; is its end tick reached?
  lost,          \* no valid reading for CHARGE_SCALE_TIMEOUT_MS
  aim,           \* fine_aim_weight
  coarse_target, \* coarse_trickler_target_charge_weight
  handoff,       \* history: the coarse_stop_threshold it was computed from
  attempts,      \* top-ups made for this throw
  pending,       \* throw_pending_record
  log,           \* history: what became of the last completed throw's record
  verdict,       \* the result given to the throw in the cup
  inside         \* history: the weight judged lay inside the bracket

restVars  == <<rest, ask>>
motorVars == <<coarse, fine, enabled>>
gateVars  == <<gate, gate_enable>>
throwVars == <<moving, backoff, due, aim, coarse_target, handoff>>
judgeVars == <<attempts, pending, log, verdict, inside>>
vars == <<state, pc, queue, restVars, target, motorVars, gateVars, throwVars, lost, judgeVars>>

TypeOK ==
  /\ state \in ChargeState
  /\ pc \in Phase
  /\ queue \in Seq(Event) /\ Len(queue) <= QueueLength
  /\ rest \in {"idle", "send", "write"}
  /\ ask \in {EXIT, WAIT_ZERO}
  /\ target \in SetPoint
  /\ gate_enable \in BOOLEAN
  /\ coarse \in {"stop", "run", "back"}
  /\ fine \in {"stop", "run"}
  /\ enabled \in BOOLEAN
  /\ gate \in {"open", "closed"}
  /\ moving \in BOOLEAN /\ backoff \in BOOLEAN /\ due \in BOOLEAN
  /\ lost \in BOOLEAN
  /\ aim \in Int \union {NotANumber}
  /\ coarse_target \in BulkAims
  /\ handoff \in Int \union {NotANumber}
  /\ attempts \in 0 .. MaxTopUps
  /\ pending \in BOOLEAN
  /\ log \in {"none", "owed", "logged", "twice"}
  /\ verdict \in {"none", "pass", "under", "over"}
  /\ inside \in BOOLEAN

Init ==
  /\ state = EXIT
  /\ pc = "form"
  /\ queue = <<>>
  /\ rest = "idle" /\ ask = EXIT
  /\ target \in Targets
  /\ gate_enable \in BOOLEAN
  /\ coarse = "stop" /\ fine = "stop" /\ enabled = FALSE
  /\ gate = "open"
  /\ moving = FALSE /\ backoff = FALSE /\ due = FALSE
  /\ lost = FALSE
  /\ aim = 0 /\ coarse_target = 0 /\ handoff = 0
  /\ attempts = 0
  /\ pending = FALSE /\ log = "none" /\ verdict = "none" /\ inside = FALSE

-----------------------------------------------------------------------------
\* Buttons and REST requests

\* Button interrupts and the REST button: an event that finds the queue full
\* is dropped.
Button(e) ==
  /\ Len(queue) < QueueLength
  /\ queue' = Append(queue, e)
  /\ UNCHANGED <<state, pc, restVars, target, motorVars, gateVars, throwVars, lost, judgeVars>>

\* REST s2: what is sent depends on the state read here, what is written does not.
RestState(n) ==
  /\ rest = "idle"
  /\ IF \/ n = EXIT /\ state # EXIT
        \/ n = WAIT_ZERO /\ state = EXIT
     THEN rest' = "send" /\ ask' = n /\ UNCHANGED state
     ELSE state' = n /\ UNCHANGED restVars
  /\ UNCHANGED <<pc, queue, target, motorVars, gateVars, throwVars, lost, judgeVars>>

\* xQueueSend with portMAX_DELAY.
RestSend ==
  /\ rest = "send"
  /\ Len(queue) < QueueLength
  /\ queue' = Append(queue, IF ask = EXIT THEN "RST" ELSE "OVERRIDE")
  /\ rest' = "write"
  /\ UNCHANGED <<state, pc, ask, target, motorVars, gateVars, throwVars, lost, judgeVars>>

RestWrite ==
  /\ rest = "write"
  /\ state' = ask
  /\ rest' = "idle"
  /\ ask' = EXIT
  /\ UNCHANGED <<pc, queue, target, motorVars, gateVars, throwVars, lost, judgeVars>>

\* REST s0, at any time: strtof reads "nan" as well.
RestTarget(t) ==
  /\ rest = "idle"
  /\ target' = t
  /\ UNCHANGED <<state, pc, queue, restVars, motorVars, gateVars, throwVars, lost, judgeVars>>

\* REST c0 of the gate's configuration, at any time.
RestGate ==
  /\ rest = "idle"
  /\ gate_enable' = ~gate_enable
  /\ UNCHANGED <<state, pc, queue, restVars, target, motorVars, gate, throwVars, lost, judgeVars>>

-----------------------------------------------------------------------------
\* The menu and charge_mode_menu

\* A press may select the entry that starts charge mode, where the digits
\* become the target; a REST request comes with its target set.
FormEvent ==
  /\ pc = "form"
  /\ queue # <<>>
  /\ queue' = Tail(queue)
  /\ CASE Head(queue) = "OVERRIDE" -> pc' = "enter" /\ UNCHANGED target
       [] Head(queue) = "ENCODER"  -> \/ pc' = "enter" /\ target' \in Targets
                                      \/ UNCHANGED <<pc, target>>
       [] OTHER                    -> UNCHANGED <<pc, target>>
  /\ UNCHANGED <<state, restVars, motorVars, gateVars, throwVars, lost, judgeVars>>

Enter ==
  /\ pc = "enter"
  /\ enabled' = TRUE
  /\ state' = WAIT_ZERO
  /\ pc' = "dispatch"
  /\ UNCHANGED <<queue, restVars, target, coarse, fine, gateVars, throwVars, lost, judgeVars>>

\* motor_enable(false) sends each motor a zero speed.
Leave ==
  /\ pc = "leave"
  /\ enabled' = FALSE
  /\ coarse' = "stop" /\ fine' = "stop"
  /\ pc' = "form"
  /\ UNCHANGED <<state, queue, restVars, target, gateVars, throwVars, lost, judgeVars>>

HandoffUncapped(t, h) == IF h # NotANumber /\ h < 0 THEN 0 ELSE h
\* The handoff never takes more than half of the charge (HANDOFF_MAX_FRAC);
\* NaN is neither above that nor below zero.
HandoffForTarget(t, h) ==
  IF h = NotANumber THEN h
  ELSE IF t # NotANumber /\ t > 0 /\ h > t \div 2 THEN t \div 2
  ELSE IF h < 0 THEN 0 ELSE h

\* fmaxf takes the number of the two where one is NaN.
CoarseTarget(t, h) ==
  IF \/ NotANumber \in {t, HandoffForTarget(t, h)}
     \/ t - HandoffForTarget(t, h) < 0
  THEN 0 ELSE t - HandoffForTarget(t, h)

\* charge_mode_wait_for_complete up to its loop.
StartThrow ==
  /\ state = WAIT_COMPLETE
  /\ pc' = "charge"
  /\ backoff' = FALSE /\ due' = FALSE
  /\ gate' = IF gate_enable THEN "open" ELSE gate
  /\ handoff' \in Handoffs
  /\ coarse_target' = CoarseTarget(target, handoff')
  /\ \E t \in Trims : aim' = IF target = NotANumber THEN NotANumber ELSE target + t
  /\ moving' = TRUE
  /\ lost' = FALSE
  /\ UNCHANGED attempts

StartPhase(s, p) ==
  /\ state = s
  /\ pc' = p
  /\ attempts' = 0
  /\ UNCHANGED <<gate, throwVars, lost>>

\* The switch of charge_mode_menu.
Dispatch ==
  /\ pc = "dispatch"
  /\ \/ StartPhase(WAIT_ZERO, "zero")
     \/ StartThrow
     \/ StartPhase(CUP_REMOVAL, "settle")
     \/ StartPhase(CUP_RETURN, "return")
     \/ StartPhase(EXIT, "leave")
  /\ verdict' = "none" /\ inside' = FALSE
  /\ UNCHANGED <<state, queue, restVars, target, motorVars, gate_enable, pending, log>>

-----------------------------------------------------------------------------
\* What every phase's loop does

\* The locals of charge_mode_wait_for_complete go out of scope.
EndThrow ==
  /\ moving' = FALSE /\ due' = FALSE
  /\ aim' = 0 /\ coarse_target' = 0 /\ handoff' = 0
  /\ lost' = FALSE

AbortWithoutStop ==
  /\ state' = EXIT
  /\ pc' = "dispatch"
  /\ EndThrow
  /\ UNCHANGED <<coarse, fine>>

AbortTopUpOnly ==
  /\ state' = EXIT
  /\ pc' = IF pc = "top_up" THEN "settle" ELSE "dispatch"
  /\ coarse' = IF pc = "charge" THEN "stop" ELSE coarse
  /\ fine' = IF pc \in {"charge", "top_up"} THEN "stop" ELSE fine
  /\ EndThrow

\* A phase that gives up; the throw and the top-up stop their motors first.
Abort ==
  /\ state' = EXIT
  /\ pc' = "dispatch"
  /\ coarse' = IF pc = "charge" THEN "stop" ELSE coarse
  /\ fine' = IF pc \in {"charge", "top_up"} THEN "stop" ELSE fine
  /\ EndThrow

\* button_wait_for_input(false), once in a turn of each loop.  An event that
\* arrives after a turn's poll waits for a later turn.
Poll ==
  /\ pc \in {"zero", "charge", "settle", "top_up", "cup", "return"}
  /\ queue # <<>>
  /\ queue' = Tail(queue)
  /\ IF Head(queue) = "RST" THEN Abort
     ELSE UNCHANGED <<state, pc, coarse, fine, moving, due, aim, coarse_target, handoff, lost>>
  /\ UNCHANGED <<restVars, target, enabled, gateVars, backoff, judgeVars>>

\* Two seconds pass without a valid reading.
Elapse ==
  /\ pc \in {"charge", "top_up"}
  /\ ~lost
  /\ lost' = TRUE
  /\ UNCHANGED <<state, pc, queue, restVars, target, motorVars, gateVars, throwVars, judgeVars>>

ScaleLostInTopUp ==
  /\ pc = "top_up"
  /\ lost
  /\ Abort
  /\ UNCHANGED <<queue, restVars, target, enabled, gateVars, backoff, judgeVars>>

\* The throw and the top-up give up on a silent scale.
ScaleLost ==
  /\ pc \in {"charge", "top_up"}
  /\ lost
  /\ Abort
  /\ UNCHANGED <<queue, restVars, target, enabled, gateVars, backoff, judgeVars>>

-----------------------------------------------------------------------------
\* Waiting for zero, and the throw

\* Ten readings that are steady and near zero.
Zeroed ==
  /\ pc = "zero"
  /\ state' = WAIT_COMPLETE
  /\ pc' = "dispatch"
  /\ UNCHANGED <<queue, restVars, target, motorVars, gateVars, throwVars, lost, judgeVars>>

BackoffElapses ==
  /\ pc = "charge"
  /\ backoff /\ ~due
  /\ due' = TRUE
  /\ UNCHANGED <<state, pc, queue, restVars, target, motorVars, gateVars,
                 moving, backoff, aim, coarse_target, handoff, lost, judgeVars>>

InBracket(w) == aim # NotANumber /\ aim - w <= Bracket

\* A turn whose reading is inside the bracket ends the throw.
Landed(r) ==
  /\ pc = "charge"
  /\ InBracket(r)
  /\ coarse' = "stop" /\ fine' = "stop"
  /\ backoff' = (backoff /\ ~due)
  /\ pending' = TRUE
  /\ log' = "owed"
  /\ pc' = "close"
  /\ EndThrow
  /\ UNCHANGED <<state, queue, restVars, target, enabled, gateVars,
                 attempts, verdict, inside>>

\* With lag compensation the fine tube holds while powder in the air is
\* expected to reach the aim.
FineSpeed(p) == IF aim # NotANumber /\ p >= aim THEN "stop" ELSE "run"

\* The turn in which the bulk is predicted to be in: the coarse tube stops,
\* turned back for a moment if the backoff is configured, and the gate goes to
\* coarse_stop_gate_ratio, which may be any position.
HandOff(r, p) ==
  /\ pc = "charge"
  /\ ~InBracket(r)
  /\ moving /\ p >= coarse_target
  /\ moving' = FALSE
  /\ \E b \in BOOLEAN :
       /\ coarse' = IF b THEN "back" ELSE "stop"
       /\ backoff' = (b \/ (backoff /\ ~due))
  /\ due' = FALSE
  /\ gate' \in IF gate_enable THEN {"open", "closed"} ELSE {gate}
  /\ fine' = FineSpeed(p)
  /\ lost' = FALSE
  /\ UNCHANGED <<state, pc, queue, restVars, target, enabled, gate_enable,
                 aim, coarse_target, handoff, judgeVars>>

TrickleBulkOnBackoff(r, p) ==
  /\ pc = "charge"
  /\ ~InBracket(r)
  /\ ~(moving /\ p >= coarse_target)
  /\ backoff' = (backoff /\ ~due)
  /\ coarse' = IF ~backoff' THEN "run" ELSE coarse
  /\ fine' = FineSpeed(p)
  /\ lost' = FALSE
  /\ UNCHANGED <<state, pc, queue, restVars, target, enabled, gateVars,
                 moving, due, aim, coarse_target, handoff, judgeVars>>

TrickleForgetsBackoff(r, p) ==
  /\ pc = "charge"
  /\ ~InBracket(r)
  /\ ~(moving /\ p >= coarse_target)
  /\ backoff' = backoff
  /\ coarse' = IF moving /\ ~backoff' THEN "run" ELSE coarse
  /\ fine' = FineSpeed(p)
  /\ lost' = FALSE
  /\ UNCHANGED <<state, pc, queue, restVars, target, enabled, gateVars,
                 moving, due, aim, coarse_target, handoff, judgeVars>>

\* Any other turn with a reading.
Trickle(r, p) ==
  /\ pc = "charge"
  /\ ~InBracket(r)
  /\ ~(moving /\ p >= coarse_target)
  /\ backoff' = (backoff /\ ~due)
  /\ coarse' = IF moving /\ ~backoff' THEN "run"
               ELSE IF backoff /\ due THEN "stop" ELSE coarse
  /\ fine' = FineSpeed(p)
  /\ lost' = FALSE
  /\ UNCHANGED <<state, pc, queue, restVars, target, enabled, gateVars,
                 moving, due, aim, coarse_target, handoff, judgeVars>>

\* A finite reading r, and the weight p it predicts: the rate is never negative.
ChargeReading ==
  \E r \in Weight : \/ Landed(r)
                    \/ \E p \in r .. MaxWeight : HandOff(r, p) \/ Trickle(r, p)

\* servo_gate_set_ratio(CLOSED, true) has returned.
CloseGate ==
  /\ pc = "close"
  /\ gate' = IF gate_enable THEN "closed" ELSE gate
  /\ pc' = "precharge"
  /\ UNCHANGED <<state, queue, restVars, target, motorVars, gate_enable, throwVars, lost, judgeVars>>

\* precharge_enable is read here, and servo_gate_enable once more.
Precharge ==
  /\ pc = "precharge"
  /\ gate_enable
  /\ coarse' = "run"
  /\ pc' = "precharging"
  /\ UNCHANGED <<state, queue, restVars, target, fine, enabled, gateVars, throwVars, lost, judgeVars>>

\* The end of the precharge, or of the short wait in its place.
ThrowDone ==
  /\ pc \in {"precharge", "precharging"}
  /\ coarse' = IF pc = "precharging" THEN "stop" ELSE coarse
  /\ state' = CUP_REMOVAL
  /\ pc' = "dispatch"
  /\ UNCHANGED <<queue, restVars, target, fine, enabled, gateVars, throwVars, lost, judgeVars>>

-----------------------------------------------------------------------------
\* Settling, topping up, judging

\* A comparison with NaN is false.
Compares(w) == NotANumber \notin {w, target}
Short(w) == Compares(w) /\ target - w > Bracket
Over(w)  == Compares(w) /\ w - target > Bracket

Verdict(w) == IF Over(w) THEN "over" ELSE IF Short(w) THEN "under" ELSE "pass"

StartTopUpUncounted(w) ==
  /\ pc = "settle"
  /\ Short(w)
  /\ fine' = "run"
  /\ pc' = "top_up"
  /\ lost' = FALSE
  /\ UNCHANGED <<state, queue, restVars, target, coarse, enabled, gateVars, throwVars, judgeVars>>

\* The reading has settled, or five seconds are over and the latest one is
\* taken, whatever it is.  A short throw is topped up, twice at most.
StartTopUp(w) ==
  /\ pc = "settle"
  /\ Short(w) /\ attempts < MaxTopUps
  /\ attempts' = attempts + 1
  /\ fine' = "run"
  /\ pc' = "top_up"
  /\ lost' = FALSE
  /\ UNCHANGED <<state, queue, restVars, target, coarse, enabled, gateVars, throwVars,
                 pending, log, verdict, inside>>

\* A reading short of the bracket keeps the top-up going.
TopUpReading ==
  /\ pc = "top_up"
  /\ lost
  /\ lost' = FALSE
  /\ UNCHANGED <<state, pc, queue, restVars, target, motorVars, gateVars, throwVars, judgeVars>>

\* A reading inside the bracket, or fifteen seconds.
TopUpDone ==
  /\ pc = "top_up"
  /\ fine' = "stop"
  /\ pc' = "settle"
  /\ lost' = FALSE
  /\ UNCHANGED <<state, queue, restVars, target, coarse, enabled, gateVars, throwVars, judgeVars>>

JudgeKeepsPending(w) ==
  /\ pc = "settle"
  /\ ~(Short(w) /\ attempts < MaxTopUps)
  /\ verdict' = Verdict(w)
  /\ inside' = (Compares(w) /\ ~Short(w) /\ ~Over(w))
  /\ log' = IF pending THEN (IF log = "owed" THEN "logged" ELSE "twice") ELSE log
  /\ pc' = "cup"
  /\ UNCHANGED <<state, queue, restVars, target, motorVars, gateVars, throwVars, lost, attempts, pending>>

\* The verdict, session_stats_record and learn_post_throw.
Judge(w) ==
  /\ pc = "settle"
  /\ ~(Short(w) /\ attempts < MaxTopUps)
  /\ verdict' = Verdict(w)
  /\ inside' = (Compares(w) /\ ~Short(w) /\ ~Over(w))
  /\ log' = IF pending THEN (IF log = "owed" THEN "logged" ELSE "twice") ELSE log
  /\ pending' = FALSE
  /\ pc' = "cup"
  /\ UNCHANGED <<state, queue, restVars, target, motorVars, gateVars, throwVars, lost, attempts>>

Settled == \E w \in Weight \union {NotANumber} : StartTopUp(w) \/ Judge(w)

CupRemoved ==
  /\ pc = "cup"
  /\ state' = CUP_RETURN
  /\ pc' = "dispatch"
  /\ UNCHANGED <<queue, restVars, target, motorVars, gateVars, throwVars, lost, judgeVars>>

CupReturned ==
  /\ pc = "return"
  /\ state' = WAIT_ZERO
  /\ pc' = "dispatch"
  /\ UNCHANGED <<queue, restVars, target, motorVars, gateVars, throwVars, lost, judgeVars>>

-----------------------------------------------------------------------------

Requests ==
  \/ \E e \in Event \ {"OVERRIDE"} : Button(e)
  \/ \E n \in RestStates : RestState(n)
  \/ RestSend
  \/ RestWrite
  \/ \E t \in RestTargets : RestTarget(t)
  \/ RestGate

\* What the menu task and the clock do with no help from user or scale.
Progress ==
  \/ Enter \/ Dispatch \/ Leave
  \/ CloseGate \/ Precharge \/ ThrowDone
  \/ Settled \/ TopUpDone

Next ==
  \/ Requests
  \/ FormEvent
  \/ Progress
  \/ Poll
  \/ Elapse \/ ScaleLost
  \/ Zeroed \/ BackoffElapses \/ ChargeReading \/ TopUpReading
  \/ CupRemoved \/ CupReturned

\* The menu task runs on and the clock ticks: settling ends within five
\* seconds and a top-up within fifteen.  No phase ends before its first poll,
\* hence SF.  No reading, no button, no request and no cup is owed.
Fairness ==
  /\ WF_vars(FormEvent)
  /\ WF_vars(Progress)
  /\ SF_vars(Poll)
  /\ WF_vars(Elapse)
  /\ WF_vars(ScaleLost)
  /\ WF_vars(BackoffElapses)

Spec == Init /\ [][Next]_vars
FairSpec == Spec /\ Fairness

-----------------------------------------------------------------------------
\* Properties

Stopped == coarse = "stop" /\ fine = "stop"

\* Whatever way a phase ends (target reached, RST, silent scale, a time limit),
\* both motors have been sent a stop before the menu task goes on: charge mode
\* runs them in the throw, the precharge and the top-up, and nowhere else.
MotorsOnlyWhileThrowing ==
  /\ enabled <=> pc \notin {"form", "enter"}
  /\ coarse # "stop" => pc \in {"charge", "precharging"}
  /\ fine # "stop" => pc \in {"charge", "top_up"}

\* Once the bulk has handed off, the coarse tube does not turn forward again in
\* that throw, and it turns backward only while the backoff's clock runs.
CoarseStaysOff ==
  /\ pc = "charge" /\ ~moving => coarse # "run"
  /\ coarse = "back" => pc = "charge" /\ backoff /\ ~moving

\* charge_mode.cpp:896: "Log the throw once": a completed throw is recorded at
\* most once, also when REST sends the menu task back to the cup removal phase.
LoggedOnce == log # "twice" /\ (pending <=> log = "owed")

StartsThrow == pc = "dispatch" /\ pc' = "charge" /\ target # NotANumber

\* charge_mode.cpp:190: "The handoff can never be allowed to swallow the
\* charge": whatever number is stored, tuned or sent over REST as the handoff,
\* the bulk carries at least half of the target the throw starts with.
BulkCarriesHalf ==
  [][(StartsThrow /\ handoff' # NotANumber) => 2 * coarse_target' >= target]_vars

\* charge_mode.cpp:194: "no stored value can idle the bulk", NaN included.
NoHandoffIdlesBulk ==
  [][StartsThrow => 2 * coarse_target' >= target]_vars

\* A backoff ends, by its clock or with the throw.
BackoffEnds == (coarse = "back") ~> (coarse = "stop")

\* charge_mode.cpp:726: "a twitchy scale cannot hang the loop": settling and
\* topping up reach a verdict or give up.
SettleEnds == (pc \in {"settle", "top_up"}) ~> (pc \in {"cup", "dispatch"})

\* .github/release_notes/v2.22.md:29: "Charge, top-up, and timed Learn runs stop after
\* two seconds without a finite scale reading": no motor is left running when
\* readings cease.
ScaleLossStops == (lost /\ ~Stopped) ~> (Stopped \/ ~lost)

\* An RST press that made it into the queue takes the menu task back to its
\* dispatch with EXIT, whatever phase it finds.  (A state REST writes between
\* that and the dispatch wins over it.)
ResetIsHonoured ==
  (pc # "form" /\ \E i \in 1 .. Len(queue) : queue[i] = "RST")
     ~> (pc = "form" \/ (pc = "dispatch" /\ state = EXIT))

\* charge_mode.cpp:756: "run the fine tube at its landing speed until the
\* reading is inside the bracket": no top-up starts behind a closed gate.
TopUpThroughOpenGate ==
  [][(pc = "settle" /\ pc' = "top_up" /\ gate_enable) => gate # "closed"]_vars

\* README.md:85: every throw is logged as "pass/under/over"; a pass is a weight
\* inside the bracket.
PassIsInsideBracket == verdict = "pass" => inside
=============================================================================
