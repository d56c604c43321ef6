------------------------------- MODULE LearnMode -------------------------------
(***************************************************************************)
(* Learn Powder: learn_mode.cpp.                                           *)
(*                                                                         *)
(* learn_mode_menu, run by the menu task, makes a ladder of timed throws   *)
(* on the coarse and on the fine tube, fits a profile to them, applies it, *)
(* and confirms it with rounds of real charges, backing off between them.  *)
(* The cup stays on the scale and is emptied when the next throw would not *)
(* fit.  REST starts, stops and saves a run, changes its settings and      *)
(* selects another profile while it goes on.                               *)
(*                                                                         *)
(* A fitted profile is told apart by its version: 1 as fitted, one more    *)
(* for each back-off.  charge_mode_wait_for_complete is one step here, as  *)
(* ChargeMode shows that it can be.  The two motors are not told apart.    *)
(***************************************************************************)
EXTENDS Integers, Sequences

CONSTANTS
  Throws,       \* LEARN_THROWS_PER_PHASE
  Estimate,     \* what a throw is expected to deliver at most
  Capacity,     \* cup_capacity_gr
  Counts,       \* values of confirm_throws (REST l5)
  MinSuccess,   \* min_success_pct
  Profiles,     \* the profiles REST pf selects
  Own,          \* the content of a profile that was not fitted in this run
  GateEnabled,  \* servo_gate_enable
  NotANumber,   \* what the scale's parser reads from a line it cannot decode
  QueueLength   \* of encoder_event_queue

MaxRounds == 3

ASSUME LearnAssumption ==
  /\ Throws \in Nat \ {0}
  /\ Estimate \in Nat
  /\ Capacity \in Nat
  /\ Estimate <= Capacity
  /\ Counts \subseteq Nat
  /\ MinSuccess \in 50 .. 100
  /\ Profiles # {}
  /\ Own \notin Int
  /\ NotANumber \notin Int
  /\ GateEnabled \in BOOLEAN
  /\ QueueLength \in Nat \ {0}

Version == 1 .. MaxRounds
Content == Version \union {Own}
Mass    == 0 .. Estimate
Event   == {"RST", "ENCODER", "OVERRIDE"}
\* Learn tells CHARGE_MODE_EXIT from every other state of charge mode.
Charge  == {"EXIT", "OTHER"}

Failed  == {"ABORTED", "ERROR"}
Running == {"WAIT_FOR_ZERO", "COARSE", "FINE", "CONFIRM"}
State   == Failed \union Running \union {"IDLE", "DONE", "EMPTY_CUP"}

\* A loop of the run that polls the event queue, and the steps between them.
Loop == {"zero", "cup_off", "pan", "cup_on", "run", "settle", "charging"}
Step == {"enter", "room", "open", "fit", "confirm", "round", "charge", "charged",
         "rate", "stopped", "leave"}

VARIABLES
  state,      \* learn_mode.state
  pc,         \* where the menu task is
  resume,     \* resume_state of empty_cup_and_zero
  idx,        \* throw_idx; 0 is the probe in the two ladders
  n,          \* the number of throws of the round under way
  queue,      \* encoder_event_queue
  rest,       \* what a REST handler asleep on the full queue is doing
  turning,    \* has a motor been told to turn?
  enabled,    \* the motors' EN pins
  gate,       \* is the ratio the gate was sent last the closed one?
  cup_load,   \* cup_load_gr
  landed,     \* what the throw that just ended has delivered
  cup,        \* history: the powder in the cup, up to a little too much
  clean,      \* history: the run began with an empty cup, or emptied it
  charge,     \* charge_mode_state
  count,      \* config.confirm_throws
  round, met, total, pass,  \* the confirmation part of the result
  valid,      \* result_valid
  result,     \* the version the result holds
  profile,    \* the profiles in RAM
  selected,   \* current_profile_idx
  used,       \* history: what the throw under way was started with
  measured,   \* history: the version the round under way set out to measure
  suppressed  \* learn_tuning_suppressed

cupVars     == <<cup_load, landed, cup, clean>>
motorVars   == <<turning, enabled>>
confirmVars == <<round, met, total, pass>>
fitVars     == <<valid, result, profile>>
histVars    == <<used, measured>>
vars == <<state, pc, resume, idx, n, queue, rest, motorVars, gate, cupVars, charge,
          count, confirmVars, fitVars, selected, histVars, suppressed>>

TypeOK ==
  /\ state \in State
  /\ pc \in Loop \union Step \union {"form", "screen"}
  /\ resume \in Running
  /\ idx \in Nat /\ n \in Nat
  /\ queue \in Seq(Event) /\ Len(queue) <= QueueLength
  /\ rest \in {"idle", "start", "stop", "exit", "write"}
  /\ turning \in BOOLEAN /\ enabled \in BOOLEAN
  /\ gate \in {"open", "closed"}
  /\ cup_load \in Nat \union {NotANumber} /\ landed \in Mass /\ cup \in Nat /\ clean \in BOOLEAN
  /\ charge \in Charge
  /\ count \in Counts
  /\ round \in 0 .. MaxRounds /\ met \in BOOLEAN
  /\ total \in Nat /\ pass \in 0 .. total
  /\ valid \in BOOLEAN
  /\ result \in Version
  /\ profile \in [Profiles -> Content]
  /\ selected \in Profiles
  /\ used \in Content /\ measured \in Version
  /\ suppressed \in BOOLEAN

Init ==
  /\ state = "IDLE" /\ pc = "form" /\ resume = "CONFIRM"
  /\ idx = 0 /\ n = 0
  /\ queue = <<>> /\ rest = "idle"
  /\ turning = FALSE /\ enabled = FALSE
  /\ gate = "closed"
  /\ cup_load = 0 /\ landed = 0 /\ cup = 0 /\ clean = TRUE
  /\ charge = "EXIT"
  /\ count \in Counts
  /\ round = 0 /\ met = FALSE /\ total = 0 /\ pass = 0
  /\ valid = FALSE /\ result = 1
  /\ profile = [p \in Profiles |-> Own]
  /\ selected \in Profiles
  /\ used = Own /\ measured = 1
  /\ suppressed = FALSE

-----------------------------------------------------------------------------
\* The encoder and the REST handlers, one of which runs at a time

\* The interrupt handler drops an event that finds the queue full.
Button(e) ==
  /\ Len(queue) < QueueLength
  /\ queue' = Append(queue, e)
  /\ UNCHANGED <<state, pc, resume, idx, n, rest, motorVars, gate, cupVars, charge,
                 count, confirmVars, fitVars, selected, histVars, suppressed>>

\* a0=start.  The list of states it refuses leaves out FIT and EMPTY_CUP.
RestStart ==
  /\ rest = "idle"
  /\ state \notin Running
  /\ charge = "EXIT"
  /\ rest' = "start"
  /\ UNCHANGED <<state, pc, resume, idx, n, queue, motorVars, gate, cupVars, charge,
                 count, confirmVars, fitVars, selected, histVars, suppressed>>

RestStop ==
  /\ rest = "idle"
  /\ rest' = "stop"
  /\ UNCHANGED <<state, pc, resume, idx, n, queue, motorVars, gate, cupVars, charge,
                 count, confirmVars, fitVars, selected, histVars, suppressed>>

\* s2 of the charge mode handler: EXIT sends an RST before it writes the state.
RestCharge(c) ==
  /\ rest = "idle"
  /\ IF c = "EXIT" /\ charge # "EXIT"
     THEN rest' = "exit" /\ UNCHANGED charge
     ELSE charge' = c /\ UNCHANGED rest
  /\ UNCHANGED <<state, pc, resume, idx, n, queue, motorVars, gate, cupVars,
                 count, confirmVars, fitVars, selected, histVars, suppressed>>

\* xQueueSend with portMAX_DELAY.
RestSend ==
  /\ rest \in {"start", "stop", "exit"}
  /\ Len(queue) < QueueLength
  /\ queue' = Append(queue, IF rest = "start" THEN "OVERRIDE" ELSE "RST")
  /\ rest' = IF rest = "exit" THEN "write" ELSE "idle"
  /\ UNCHANGED <<state, pc, resume, idx, n, motorVars, gate, cupVars, charge,
                 count, confirmVars, fitVars, selected, histVars, suppressed>>

RestWrite ==
  /\ rest = "write"
  /\ charge' = "EXIT"
  /\ rest' = "idle"
  /\ UNCHANGED <<state, pc, resume, idx, n, queue, motorVars, gate, cupVars,
                 count, confirmVars, fitVars, selected, histVars, suppressed>>

\* learn_mode_apply_to_profile.
Apply(v) == profile' = [profile EXCEPT ![selected] = v]

\* a0=save, as far as RAM is concerned.
RestSave ==
  /\ rest = "idle"
  /\ valid
  /\ Apply(result)
  /\ UNCHANGED <<state, pc, resume, idx, n, queue, rest, motorVars, gate, cupVars, charge,
                 count, confirmVars, valid, result, selected, histVars, suppressed>>

\* l5 of the learn configuration.
RestCount(c) ==
  /\ rest = "idle"
  /\ count' = c
  /\ UNCHANGED <<state, pc, resume, idx, n, queue, rest, motorVars, gate, cupVars, charge,
                 confirmVars, fitVars, selected, histVars, suppressed>>

\* pf of the profile page: a profile is selected by asking for its settings.
RestProfile(p) ==
  /\ rest = "idle"
  /\ selected' = p
  /\ UNCHANGED <<state, pc, resume, idx, n, queue, rest, motorVars, gate, cupVars, charge,
                 count, confirmVars, fitVars, histVars, suppressed>>

-----------------------------------------------------------------------------
\* The menu, and the run's beginning

\* Nobody starts a run with more in the cup than it holds (a bound for TLC).
FormEvent ==
  /\ pc = "form"
  /\ queue # <<>>
  /\ queue' = Tail(queue)
  /\ \/ Head(queue) # "RST" /\ cup <= Capacity /\ pc' = "enter"
     \/ Head(queue) # "OVERRIDE" /\ UNCHANGED pc
  /\ UNCHANGED <<state, resume, idx, n, rest, motorVars, gate, cupVars, charge,
                 count, confirmVars, fitVars, selected, histVars, suppressed>>

DumpCup ==
  /\ pc = "form"
  /\ cup' = 0
  /\ UNCHANGED <<state, pc, resume, idx, n, queue, rest, motorVars, gate, cup_load, landed,
                 clean, charge, count, confirmVars, fitVars, selected, histVars, suppressed>>

Enter ==
  /\ pc = "enter"
  /\ state' = "WAIT_FOR_ZERO"
  /\ idx' = 0
  /\ valid' = FALSE
  /\ cup_load' = 0
  /\ clean' = (cup = 0)
  /\ enabled' = TRUE
  /\ pc' = "zero"
  /\ UNCHANGED <<resume, n, queue, rest, turning, gate, landed, cup, charge,
                 count, confirmVars, result, profile, selected, histVars, suppressed>>

-----------------------------------------------------------------------------
\* What the loops have in common

StopMotors == turning' = FALSE

\* Powder that a stopping motor leaves in the cup.
Land(m) ==
  /\ landed' = m
  /\ cup' = IF cup + m > Capacity THEN Capacity + 1 ELSE cup + m
  /\ UNCHANGED <<cup_load, clean>>

AbortNoStop ==
  /\ state' = "ABORTED"
  /\ pc' = "stopped"
  /\ IF pc = "run" THEN \E m \in Mass : Land(m) ELSE UNCHANGED cupVars
  /\ UNCHANGED <<turning, charge, suppressed>>

AbortToScreen ==
  /\ state' = "ABORTED"
  /\ pc' = "screen"
  /\ StopMotors
  /\ IF pc = "run" THEN \E m \in Mass : Land(m) ELSE UNCHANGED cupVars
  /\ UNCHANGED <<charge, suppressed>>

\* check_abort: the run is stopped, and a timed throw stops its motor first.
Abort ==
  /\ state' = "ABORTED"
  /\ pc' = "stopped"
  /\ StopMotors
  /\ IF pc = "run" THEN \E m \in Mass : Land(m) ELSE UNCHANGED cupVars
  /\ UNCHANGED <<charge, suppressed>>

\* The charge of a confirmation throw gives up, on RST or on a silent scale:
\* it reports that by its state alone.
GiveUpCharge ==
  /\ charge' = "EXIT"
  /\ pc' = "charged"
  /\ StopMotors
  /\ \E m \in Mass : Land(m)
  /\ UNCHANGED <<state, suppressed>>

PollZeroingOnlyRetries ==
  /\ pc \in Loop
  /\ queue # <<>>
  /\ queue' = Tail(queue)
  /\ \/ /\ Head(queue) # "RST" \/ pc = "zero"
        /\ UNCHANGED <<state, pc, turning, cupVars, charge, suppressed>>
     \/ Head(queue) = "RST" /\ pc = "charging" /\ GiveUpCharge
     \/ Head(queue) = "RST" /\ pc \notin {"charging", "zero"} /\ Abort
  /\ UNCHANGED <<resume, idx, n, rest, enabled, gate, count, confirmVars, fitVars,
                 selected, histVars>>

\* button_wait_for_input(false), once in a turn of each loop.
Poll ==
  /\ pc \in Loop
  /\ queue # <<>>
  /\ queue' = Tail(queue)
  /\ \/ /\ Head(queue) # "RST"
        /\ UNCHANGED <<state, pc, turning, cupVars, charge, suppressed>>
     \/ Head(queue) = "RST" /\ pc = "charging" /\ GiveUpCharge
     \/ Head(queue) = "RST" /\ pc # "charging" /\ Abort
  /\ UNCHANGED <<resume, idx, n, rest, enabled, gate, count, confirmVars, fitVars,
                 selected, histVars>>

\* Two seconds with no reading while a motor turns.
ScaleLost ==
  /\ \/ pc = "charging" /\ GiveUpCharge
     \/ /\ pc = "run"
        /\ state' = "ERROR"
        /\ pc' = "stopped"
        /\ StopMotors
        /\ \E m \in Mass : Land(m)
        /\ UNCHANGED <<charge, suppressed>>
  /\ UNCHANGED <<resume, idx, n, queue, rest, enabled, gate, count, confirmVars, fitVars,
                 selected, histVars>>

\* The time limits of wait_for_stable and auto_zero, and auto_zero's tries.
GiveUp ==
  /\ pc \in {"zero", "pan", "settle"}
  /\ state' = "ERROR"
  /\ pc' = "stopped"
  /\ UNCHANGED <<resume, idx, n, queue, rest, motorVars, gate, cupVars, charge,
                 count, confirmVars, fitVars, selected, histVars, suppressed>>

-----------------------------------------------------------------------------
\* empty_cup_and_zero, ensure_cup_room

Plus(a, b) == IF NotANumber \in {a, b} THEN NotANumber ELSE a + b

\* A comparison with what is not a number is false.
Exceeds(a, b) == a # NotANumber /\ a > b

EmptyCup ==
  /\ resume' = state
  /\ state' = "EMPTY_CUP"
  /\ pc' = "cup_off"

\* Called before every throw with what may land.
EnsureRoom ==
  /\ pc = "room"
  /\ IF Exceeds(Plus(cup_load, Estimate), Capacity)
     THEN EmptyCup
     ELSE /\ pc' = IF state = "CONFIRM" THEN "charge" ELSE "open"
          /\ UNCHANGED <<state, resume>>
  /\ UNCHANGED <<idx, n, queue, rest, motorVars, gate, cupVars, charge, count,
                 confirmVars, fitVars, selected, histVars, suppressed>>

\* The user takes the cup off and dumps it.
CupOff ==
  /\ pc = "cup_off"
  /\ cup' = 0 /\ clean' = TRUE
  /\ pc' = "pan"
  /\ UNCHANGED <<state, resume, idx, n, queue, rest, motorVars, gate, cup_load, landed,
                 charge, count, confirmVars, fitVars, selected, histVars, suppressed>>

\* The empty pan has settled; then the cup comes back.
CupBack ==
  /\ \/ pc = "pan" /\ pc' = "cup_on"
     \/ pc = "cup_on" /\ pc' = "zero"
  /\ UNCHANGED <<state, resume, idx, n, queue, rest, motorVars, gate, cupVars,
                 charge, count, confirmVars, fitVars, selected, histVars, suppressed>>

-----------------------------------------------------------------------------
\* auto_zero, and what its callers go on to

ToThrow(s, i) ==
  /\ state' = s
  /\ idx' = i
  /\ pc' = "room"

CupZeroed ==
  /\ state = "EMPTY_CUP"
  /\ cup_load' = 0
  /\ state' = resume
  /\ resume' = "CONFIRM"
  /\ pc' = IF resume # "CONFIRM" THEN "open"
           ELSE IF suppressed THEN "charge" ELSE "confirm"
  /\ UNCHANGED idx

\* The order of the throws: two ladders, each after a probe, and the rounds.
ThrowZeroed ==
  /\ \/ state = "WAIT_FOR_ZERO" /\ ToThrow("COARSE", 0)
     \/ state \in {"COARSE", "FINE"} /\ idx < Throws /\ ToThrow(state, idx + 1)
     \/ state = "COARSE" /\ idx >= Throws /\ ToThrow("FINE", 0)
     \/ state = "FINE" /\ idx >= Throws /\ pc' = "fit" /\ UNCHANGED <<state, idx>>
     \/ state = "CONFIRM" /\ idx + 1 < n /\ ToThrow(state, idx + 1)
     \/ state = "CONFIRM" /\ idx + 1 >= n /\ pc' = "rate" /\ UNCHANGED <<state, idx>>
  /\ UNCHANGED <<cup_load, resume>>

Zeroed ==
  /\ pc = "zero"
  /\ CupZeroed \/ ThrowZeroed
  /\ UNCHANGED <<n, queue, rest, motorVars, gate, landed, cup, clean,
                 charge, count, confirmVars, fitVars, selected, histVars, suppressed>>

-----------------------------------------------------------------------------
\* A throw of the ladders: throw_for_time

StartRun ==
  /\ pc = "open"
  /\ gate' = IF GateEnabled THEN "open" ELSE gate
  /\ turning' = TRUE
  /\ pc' = "run"
  /\ UNCHANGED <<state, resume, idx, n, queue, rest, enabled, cupVars, charge,
                 count, confirmVars, fitVars, selected, histVars, suppressed>>

RunEnds ==
  /\ pc = "run"
  /\ StopMotors
  /\ \E m \in Mass : Land(m)
  /\ pc' = "settle"
  /\ UNCHANGED <<state, resume, idx, n, queue, rest, enabled, gate, charge,
                 count, confirmVars, fitVars, selected, histVars, suppressed>>

\* The mass is that of the settled reading less that of the reading before the
\* motor started, which may be of a line that could not be decoded.  An empty
\* tube ends the run; the powder it delivered counts all the same.
Measured ==
  /\ pc = "settle"
  /\ state # "CONFIRM"
  /\ \E mass \in {landed, NotANumber} :
       /\ cup_load' = Plus(cup_load, mass)
       /\ IF mass = 0
          THEN state' = "ERROR" /\ pc' = "stopped"
          ELSE pc' = "zero" /\ UNCHANGED state
  /\ UNCHANGED <<resume, idx, n, queue, rest, motorVars, gate, landed, cup, clean,
                 charge, count, confirmVars, fitVars, selected, histVars, suppressed>>

-----------------------------------------------------------------------------
\* fit_profile, and the first step of the confirmation: the cup is emptied

Fit ==
  /\ pc = "fit"
  /\ result' = 1
  /\ round' = 0 /\ met' = FALSE /\ total' = 0 /\ pass' = 0
  /\ valid' = TRUE
  /\ Apply(1)
  /\ idx' = 0
  /\ resume' = "CONFIRM"
  /\ state' = "EMPTY_CUP"
  /\ pc' = "cup_off"
  /\ UNCHANGED <<n, queue, rest, motorVars, gate, cupVars, charge, count, selected,
                 histVars, suppressed>>

Confirm ==
  /\ pc = "confirm"
  /\ round' = 0 /\ met' = FALSE
  /\ suppressed' = TRUE
  /\ pc' = "round"
  /\ UNCHANGED <<state, resume, idx, n, queue, rest, motorVars, gate, cupVars, charge,
                 count, total, pass, fitVars, selected, histVars>>

\* confirm_throws up to its loop: with no throws to make it is done at once.
StartRound ==
  /\ pc = "round"
  /\ round' = round + 1
  /\ n' = count
  /\ measured' = result
  /\ IF count = 0
     THEN pc' = "rate" /\ UNCHANGED <<idx, total, pass>>
     ELSE pc' = "room" /\ idx' = 0 /\ total' = 0 /\ pass' = 0
  /\ UNCHANGED <<state, resume, queue, rest, motorVars, gate, cupVars, charge, count,
                 met, fitVars, selected, used, suppressed>>

\* charge_mode_wait_for_complete picks the selected profile up at its start.
StartCharge ==
  /\ pc = "charge"
  /\ charge' = "OTHER"
  /\ gate' = IF GateEnabled THEN "open" ELSE gate
  /\ turning' = TRUE
  /\ used' = profile[selected]
  /\ pc' = "charging"
  /\ UNCHANGED <<state, resume, idx, n, queue, rest, enabled, cupVars, count,
                 confirmVars, fitVars, selected, measured, suppressed>>

\* It returns after the motors were stopped and the gate was closed.
ChargeDone ==
  /\ pc = "charging"
  /\ StopMotors
  /\ \E m \in Mass : Land(m)
  /\ gate' = IF GateEnabled THEN "closed" ELSE gate
  /\ charge' = "OTHER"
  /\ pc' = "charged"
  /\ UNCHANGED <<state, resume, idx, n, queue, rest, enabled, count,
                 confirmVars, fitVars, selected, histVars, suppressed>>

Charged ==
  /\ pc = "charged"
  /\ IF charge = "EXIT"
     THEN state' = "ABORTED" /\ pc' = "stopped"
     ELSE pc' = "settle" /\ UNCHANGED state
  /\ UNCHANGED <<resume, idx, n, queue, rest, motorVars, gate, cupVars, charge,
                 count, confirmVars, fitVars, selected, histVars, suppressed>>

WeighedUnadded(ok) ==
  /\ pc = "settle"
  /\ state = "CONFIRM"
  /\ UNCHANGED cup_load
  /\ total' = total + 1
  /\ pass' = IF ok THEN pass + 1 ELSE pass
  /\ pc' = "zero"
  /\ UNCHANGED <<state, resume, idx, n, queue, rest, motorVars, gate, landed, cup, clean,
                 charge, count, round, met, fitVars, selected, histVars, suppressed>>

\* The throw is counted, recorded and added to the cup: the reading has settled,
\* and no reading settles while one that is not a number is among the last eight.
Weighed(ok) ==
  /\ pc = "settle"
  /\ state = "CONFIRM"
  /\ cup_load' = Plus(cup_load, landed)
  /\ total' = total + 1
  /\ pass' = IF ok THEN pass + 1 ELSE pass
  /\ pc' = "zero"
  /\ UNCHANGED <<state, resume, idx, n, queue, rest, motorVars, gate, landed, cup, clean,
                 charge, count, round, met, fitVars, selected, histVars, suppressed>>

\* 0 of 0 is not a number, and compares as a miss.  confirm_throws is read once
\* more: REST may have set it to 0 meanwhile.
Met == count = 0 \/ (total > 0 /\ 100 * pass >= MinSuccess * total)

BackOff ==
  /\ result' = result + 1
  /\ Apply(result')
  /\ pc' = "round"
  /\ UNCHANGED met

RateWithoutLimit ==
  /\ pc = "rate"
  /\ IF Met
     THEN met' = TRUE /\ pc' = "stopped" /\ UNCHANGED <<result, profile>>
     ELSE BackOff
  /\ UNCHANGED <<state, resume, idx, n, queue, rest, motorVars, gate, cupVars, charge,
                 count, round, total, pass, valid, selected, histVars, suppressed>>

RateBacksOffFirst ==
  /\ pc = "rate"
  /\ IF round < MaxRounds
     THEN result' = result + 1 /\ Apply(result')
     ELSE UNCHANGED <<result, profile>>
  /\ IF Met
     THEN met' = TRUE /\ pc' = "stopped"
     ELSE pc' = (IF round < MaxRounds THEN "round" ELSE "stopped") /\ UNCHANGED met
  /\ UNCHANGED <<state, resume, idx, n, queue, rest, motorVars, gate, cupVars, charge,
                 count, round, total, pass, valid, selected, histVars, suppressed>>

\* The target is met, or it is missed with rounds left, or with none.
Rate ==
  /\ pc = "rate"
  /\ \/ Met /\ met' = TRUE /\ pc' = "stopped" /\ UNCHANGED <<result, profile>>
     \/ ~Met /\ round < MaxRounds /\ BackOff
     \/ ~Met /\ round >= MaxRounds /\ pc' = "stopped" /\ UNCHANGED <<met, result, profile>>
  /\ UNCHANGED <<state, resume, idx, n, queue, rest, motorVars, gate, cupVars, charge,
                 count, round, total, pass, valid, selected, histVars, suppressed>>

-----------------------------------------------------------------------------
\* The end of the run

\* The only way out of every phase; the locals of the run go out of scope.
Stopped ==
  /\ pc = "stopped"
  /\ suppressed' = FALSE
  /\ StopMotors
  /\ state' = IF state \in Failed THEN state ELSE "DONE"
  /\ pc' = "screen"
  /\ resume' = "CONFIRM" /\ n' = 0 /\ landed' = 0 /\ used' = Own
  /\ UNCHANGED <<idx, queue, rest, enabled, gate, cup_load, cup, clean, charge,
                 count, confirmVars, fitVars, selected, measured>>

\* The result, or the message, stays up until a button is pressed; the knob
\* saves a result.  A start request does no more than leave this screen.
Screen ==
  /\ pc = "screen"
  /\ queue # <<>>
  /\ queue' = Tail(queue)
  /\ pc' = "leave"
  /\ UNCHANGED <<state, resume, idx, n, rest, motorVars, gate, cupVars, charge,
                 count, confirmVars, fitVars, selected, histVars, suppressed>>

Leave ==
  /\ pc = "leave"
  /\ enabled' = FALSE
  /\ StopMotors
  /\ gate' = IF GateEnabled THEN "closed" ELSE gate
  /\ charge' = "EXIT"
  /\ pc' = "form"
  /\ UNCHANGED <<state, resume, idx, n, queue, rest, cupVars,
                 count, confirmVars, fitVars, selected, histVars, suppressed>>

Requests ==
  \/ \E e \in Event \ {"OVERRIDE"} : Button(e)
  \/ RestStart \/ RestStop \/ RestSend \/ RestWrite \/ RestSave
  \/ \E c \in Charge : RestCharge(c)
  \/ \E c \in Counts : RestCount(c)
  \/ \E p \in Profiles : RestProfile(p)

\* The steps between the loops: they need neither user nor scale.
Steps ==
  \/ Enter \/ EnsureRoom \/ StartRun \/ Fit \/ Confirm \/ StartRound
  \/ StartCharge \/ Charged \/ Rate \/ Stopped \/ Leave

\* What ends a turn of a loop: readings, time limits, and the user's hands.
Turns ==
  \/ ScaleLost \/ GiveUp
  \/ CupOff \/ CupBack \/ Zeroed
  \/ RunEnds \/ Measured \/ ChargeDone
  \/ \E ok \in BOOLEAN : Weighed(ok)

Next == Requests \/ FormEvent \/ DumpCup \/ Poll \/ Steps \/ Turns \/ Screen

\* The menu task goes on, and every loop polls before it can end.
Fairness == WF_vars(Steps) /\ SF_vars(Poll)

Spec == Init /\ [][Next]_vars
FairSpec == Spec /\ Fairness

-----------------------------------------------------------------------------
\* Properties

\* However a run ends (by its result, RST, a silent scale, a tube that delivers
\* nothing, a time limit), its motors are stopped before anything else is done,
\* and no motor turns while the user handles the cup.
MotorsOnlyInThrows ==
  /\ turning => pc \in {"run", "charging"}
  /\ enabled <=> pc \notin {"form", "enter"}

\* .github/release_notes/v2.0.md:100: "Per-throw tuning is suppressed during Learn's
\* confirmation throws": it is, in each of them, and every way out of the rounds
\* lets the tuner go again.
TunerHeldOff ==
  /\ pc \in {"charge", "charging", "charged", "rate"} => suppressed
  /\ pc \in {"form", "enter", "screen", "leave", "run"} => ~suppressed

\* learn_mode.h:106: cup_capacity_gr is "powder the cup can hold before it has to
\* be dumped".  A run that begins with an empty cup never overfills it: what has
\* landed, that of the throw under way included, is counted on every path that
\* goes on to another throw.  The exception is a run in which a throw began on a
\* reading that was not a number: the sum is none either from then on, until the
\* cup is emptied before the rounds.
CupNeverOverflows == clean /\ cup_load # NotANumber => cup <= Capacity

\* The same with no exception, which the code does not keep: one line of the
\* scale that cannot be decoded, and ensure_cup_room lets every throw pass.
CupHoldsWhateverIsRead == clean => cup <= Capacity

\* learn_mode.cpp:1145: "what gets saved is not what the results screen reports"
\* must not happen: the result on the screen is the version its last round of
\* throws set out to measure, also when that round missed.
ReportedIsMeasured ==
  (state = "DONE" /\ pc = "screen") => measured = result

\* An RST that made it into the queue stops the run from whatever loop it is in.
\* (Of a confirmation charge it leaves CHARGE_MODE_EXIT behind, which a REST
\* write of the charge mode state may still overwrite.)
ResetEndsTheRun ==
  (pc \notin {"form", "enter"} /\ \E i \in 1 .. Len(queue) : queue[i] = "RST")
     ~> (pc \in {"form", "screen"} \/ (pc = "charged" /\ charge = "EXIT"))

\* .github/release_notes/v2.0.md:100: "so the pass rate describes the profile being
\* measured": a throw that is counted was made with the fitted profile.
PassRateDescribesTheFit == [][total' > total => used = result]_vars
=============================================================================
