---------------------------- MODULE LearnModeProofs ----------------------------
(***************************************************************************)
(* For any cup, any estimate that fits into it, and any number of throws:  *)
(* LearnMode keeps its types (at most three rounds included), never lets a *)
(* motor turn outside a throw, holds the tuner off in the confirmation and *)
(* only there, never overfills a cup that was empty, and reports the       *)
(* version it measured last.                                               *)
(*                                                                         *)
(* The properties are about a few places each; what connects these places  *)
(* is in three parts of the inductive invariant: PhaseInv says which state *)
(* goes with which loop and when the tuner is held off, RoundInv follows   *)
(* the versions through the rounds, and CupInv says that the powder not    *)
(* counted yet is that of the throw under way.                             *)
(***************************************************************************)
EXTENDS LearnMode, TLAPS

Emptying == state = "EMPTY_CUP"

\* The pc and the state belong together, and the tuner is held off from the
\* first round on.
PhaseInv ==
  /\ pc \in {"cup_off", "pan", "cup_on"} => Emptying
  /\ pc = "zero" => state \in Running \union {"EMPTY_CUP"}
  /\ pc \in {"room", "settle"} => state \in {"COARSE", "FINE", "CONFIRM"}
  /\ pc \in {"open", "run"} => state \in {"COARSE", "FINE"}
  /\ pc = "fit" => state = "FINE"
  /\ pc \in {"charge", "charging", "charged", "confirm", "round", "rate"} => state = "CONFIRM"
  /\ pc = "stopped" => state \in Failed \union {"CONFIRM"}
  /\ pc = "screen" => state \in Failed \union {"DONE"}
  /\ Emptying /\ pc # "enter" => resume \in {"COARSE", "FINE", "CONFIRM"}
  /\ pc \in {"zero", "room", "settle", "charge", "charging", "charged", "round", "rate"}
       => (state = "CONFIRM" => suppressed)
  /\ pc \in {"zero", "room", "settle", "open", "run", "fit", "confirm"}
       => (suppressed => state \in {"CONFIRM", "EMPTY_CUP"})
  /\ pc = "confirm" => ~suppressed
  /\ Emptying /\ suppressed => resume = "CONFIRM"

InRound == suppressed /\ pc \notin {"round", "stopped"}

\* The version of the result is the number of the round that measures it.
RoundInv ==
  /\ pc = "confirm" => result = 1
  /\ Emptying /\ resume = "CONFIRM" /\ ~suppressed /\ pc \in Loop => result = 1
  /\ pc = "round" => round < MaxRounds /\ result = round + 1
  /\ InRound => result = round /\ measured = result
  /\ pc = "stopped" /\ state \notin Failed => measured = result

\* In a run that began with an empty cup, cup_load is what is in it but for the
\* powder that has just landed, as long as it is a number; and a throw is started
\* only if it has room.
CupInv ==
  /\ clean /\ (pc \in {"pan", "cup_on"} \/ (pc = "zero" /\ Emptying)) => cup = 0
  /\ clean /\ cup_load # NotANumber =>
       /\ cup <= Capacity
       /\ pc \in {"room", "open", "run", "charge", "charging", "fit", "confirm", "round",
                 "rate", "cup_off"}
            => cup = cup_load
       /\ pc = "zero" /\ ~Emptying => cup = cup_load
       /\ pc \in {"open", "run", "charge", "charging"} => cup_load + Estimate <= Capacity
       /\ pc \in {"charged", "settle"} => cup = cup_load + landed

IInv == /\ TypeOK /\ MotorsOnlyInThrows /\ TunerHeldOff /\ CupNeverOverflows
        /\ ReportedIsMeasured /\ PhaseInv /\ RoundInv /\ CupInv

USE DEF MaxRounds, Version, Content, Mass, Event, Charge, Failed, Running, State, Loop, Step

\* The SMT backend does not find this by itself.
LEMMA FalseIsBoolean == \A x : x = FALSE => x \in BOOLEAN
  BY Zenon

LEMMA InitIInv == Init => IInv
<1> SUFFICES ASSUME Init PROVE IInv
  OBVIOUS
<1>1. queue \in Seq(Event) /\ Len(queue) <= QueueLength
  BY LearnAssumption DEF Init
<1>2. TypeOK
  BY FalseIsBoolean, <1>1, LearnAssumption DEF Init, TypeOK
<1> QED
  BY <1>2, LearnAssumption
  DEF Init, IInv, MotorsOnlyInThrows, TunerHeldOff, CupNeverOverflows, ReportedIsMeasured,
      PhaseInv, Emptying, RoundInv, InRound, CupInv

-----------------------------------------------------------------------------
\* Requests leave the run alone, but for the profiles and the charge mode state.

LEMMA RequestsIInv ==
  ASSUME IInv, Requests PROVE IInv'
<1> USE DEF IInv, TypeOK, MotorsOnlyInThrows, TunerHeldOff, CupNeverOverflows,
            ReportedIsMeasured, PhaseInv, Emptying, RoundInv, InRound, CupInv,
            cupVars, motorVars, confirmVars, fitVars, histVars
<1>1. ASSUME NEW e \in Event \ {"OVERRIDE"}, Button(e) PROVE IInv'
  BY <1>1, LearnAssumption DEF Button
<1>2. CASE RestStart
  BY <1>2 DEF RestStart
<1>3. CASE RestStop
  BY <1>3 DEF RestStop
<1>4. CASE RestSend
  BY <1>4, LearnAssumption DEF RestSend
<1>5. CASE RestWrite
  BY <1>5 DEF RestWrite
<1>6. CASE RestSave
  BY <1>6 DEF RestSave, Apply
<1>7. ASSUME NEW c \in Charge, RestCharge(c) PROVE IInv'
  BY <1>7 DEF RestCharge
<1>8. ASSUME NEW c \in Counts, RestCount(c) PROVE IInv'
  BY <1>8 DEF RestCount
<1>9. ASSUME NEW p \in Profiles, RestProfile(p) PROVE IInv'
  BY <1>9 DEF RestProfile
<1> QED
  BY <1>1, <1>2, <1>3, <1>4, <1>5, <1>6, <1>7, <1>8, <1>9 DEF Requests

\* The menu, and the screen at the end of a run.
LEMMA MenuIInv ==
  ASSUME IInv, FormEvent \/ DumpCup \/ Enter \/ Stopped \/ Screen \/ Leave PROVE IInv'
<1> USE DEF IInv, TypeOK, MotorsOnlyInThrows, TunerHeldOff, CupNeverOverflows,
            ReportedIsMeasured, PhaseInv, Emptying, RoundInv, InRound, CupInv,
            cupVars, motorVars, confirmVars, fitVars, histVars
<1>1. CASE FormEvent
  <2>1. queue' \in Seq(Event) /\ Len(queue') <= QueueLength
    BY <1>1, LearnAssumption DEF FormEvent
  <2>2. pc' \in {"form", "enter"}
    BY <1>1 DEF FormEvent
  <2> QED
    BY <1>1, <2>1, <2>2 DEF FormEvent
<1>2. CASE DumpCup
  BY <1>2, LearnAssumption DEF DumpCup
<1>3. CASE Enter
  BY FalseIsBoolean, <1>3, LearnAssumption DEF Enter
<1>4. CASE Stopped
  BY FalseIsBoolean, <1>4, LearnAssumption DEF Stopped, StopMotors
<1>5. CASE Screen
  <2>1. queue' \in Seq(Event) /\ Len(queue') <= QueueLength
    BY <1>5, LearnAssumption DEF Screen
  <2> QED
    BY <1>5, <2>1 DEF Screen
<1>6. CASE Leave
  BY FalseIsBoolean, <1>6 DEF Leave, StopMotors
<1> QED
  BY <1>1, <1>2, <1>3, <1>4, <1>5, <1>6

\* A run, or a charge, that is ended while it goes on.
LEMMA EndedIInv ==
  ASSUME IInv, Poll \/ ScaleLost \/ GiveUp PROVE IInv'
<1> USE DEF IInv, TypeOK, MotorsOnlyInThrows, TunerHeldOff, CupNeverOverflows,
            ReportedIsMeasured, PhaseInv, Emptying, RoundInv, InRound, CupInv,
            cupVars, motorVars, confirmVars, fitVars, histVars
<1>1. CASE Poll
  <2>1. queue' \in Seq(Event) /\ Len(queue') <= QueueLength
    BY <1>1, LearnAssumption DEF Poll
  <2>2. /\ pc \in Loop
        /\ UNCHANGED <<resume, idx, n, rest, enabled, gate, count, confirmVars, fitVars,
                       selected, histVars>>
    BY <1>1 DEF Poll
  <2>3. CASE Head(queue) # "RST"
    <3>1. UNCHANGED <<state, pc, turning, cupVars, charge, suppressed>>
      BY <1>1, <2>3, Zenon DEF Poll
    <3> QED
      BY <2>1, <2>2, <3>1
  <2>4. CASE Head(queue) = "RST" /\ pc = "charging"
    <3>1. GiveUpCharge
      BY <1>1, <2>4, Zenon DEF Poll
    <3> QED
      BY FalseIsBoolean, <2>1, <2>2, <2>4, <3>1, LearnAssumption
      DEF GiveUpCharge, Land, StopMotors
  <2>5. CASE Head(queue) = "RST" /\ pc # "charging"
    <3>1. Abort
      BY <1>1, <2>5, Zenon DEF Poll
    <3> QED
      BY FalseIsBoolean, <2>1, <2>2, <2>5, <3>1, LearnAssumption
      DEF Abort, Land, StopMotors
  <2> QED
    BY <2>3, <2>4, <2>5
<1>2. CASE ScaleLost
  <2>1. CASE pc = "charging" /\ GiveUpCharge
    BY FalseIsBoolean, <1>2, <2>1, LearnAssumption DEF ScaleLost, GiveUpCharge, Land, StopMotors
  <2>2. CASE ~(pc = "charging" /\ GiveUpCharge)
    BY FalseIsBoolean, <1>2, <2>2, LearnAssumption DEF ScaleLost, Land, StopMotors
  <2> QED
    BY <2>1, <2>2
<1>3. CASE GiveUp
  BY <1>3 DEF GiveUp
<1> QED
  BY <1>1, <1>2, <1>3

\* The cup is emptied when the next throw would not fit, and the scale zeroed.
LEMMA CupIInv ==
  ASSUME IInv, EnsureRoom \/ CupOff \/ CupBack \/ Zeroed PROVE IInv'
<1> USE DEF IInv, TypeOK, MotorsOnlyInThrows, TunerHeldOff, CupNeverOverflows,
            ReportedIsMeasured, PhaseInv, Emptying, RoundInv, InRound, CupInv,
            cupVars, motorVars, confirmVars, fitVars, histVars
<1>1. CASE EnsureRoom
  BY <1>1, LearnAssumption DEF EnsureRoom, EmptyCup, Plus, Exceeds
<1>2. CASE CupOff
  BY <1>2, LearnAssumption DEF CupOff
<1>3. CASE CupBack
  BY <1>3 DEF CupBack
<1>4. CASE Zeroed /\ CupZeroed
  BY <1>4, LearnAssumption DEF Zeroed, CupZeroed
<1>5. CASE Zeroed /\ ThrowZeroed
  BY <1>5, LearnAssumption DEF Zeroed, ThrowZeroed, ToThrow
<1> QED
  BY <1>1, <1>2, <1>3, <1>4, <1>5 DEF Zeroed

\* A throw of the ladders.
LEMMA LadderIInv ==
  ASSUME IInv, StartRun \/ RunEnds \/ Measured PROVE IInv'
<1> USE DEF IInv, TypeOK, MotorsOnlyInThrows, TunerHeldOff, CupNeverOverflows,
            ReportedIsMeasured, PhaseInv, Emptying, RoundInv, InRound, CupInv,
            cupVars, motorVars, confirmVars, fitVars, histVars
<1>1. CASE StartRun
  BY <1>1 DEF StartRun
<1>2. CASE RunEnds
  BY FalseIsBoolean, <1>2, LearnAssumption DEF RunEnds, Land, StopMotors
<1>3. CASE Measured
  <2>1. PICK mass \in {landed, NotANumber} :
          /\ cup_load' = Plus(cup_load, mass)
          /\ \/ state' = "ERROR" /\ pc' = "stopped"
             \/ pc' = "zero" /\ UNCHANGED state
    BY <1>3, Zenon DEF Measured
  <2>2. /\ pc = "settle" /\ state # "CONFIRM"
        /\ UNCHANGED <<resume, idx, n, queue, rest, motorVars, gate, landed, cup, clean,
                       charge, count, confirmVars, fitVars, selected, histVars, suppressed>>
    BY <1>3 DEF Measured
  <2>3. \/ cup_load' = NotANumber
        \/ cup_load' = cup_load + landed /\ cup_load # NotANumber
    BY <2>1 DEF Plus
  <2> QED
    BY <2>1, <2>2, <2>3, LearnAssumption
<1> QED
  BY <1>1, <1>2, <1>3

\* The fit, and the rounds that confirm it.
LEMMA ConfirmIInv ==
  ASSUME IInv,
         \/ Fit \/ Confirm \/ StartRound \/ StartCharge \/ ChargeDone \/ Charged
         \/ Rate \/ (\E ok \in BOOLEAN : Weighed(ok))
  PROVE  IInv'
<1> USE DEF IInv, TypeOK, MotorsOnlyInThrows, TunerHeldOff, CupNeverOverflows,
            ReportedIsMeasured, PhaseInv, Emptying, RoundInv, InRound, CupInv,
            cupVars, motorVars, confirmVars, fitVars, histVars
<1>1. CASE Fit
  BY FalseIsBoolean, <1>1, LearnAssumption DEF Fit, Apply
<1>2. CASE Confirm
  BY FalseIsBoolean, <1>2, LearnAssumption DEF Confirm
<1>3. CASE StartRound
  BY <1>3, LearnAssumption DEF StartRound
<1>4. CASE StartCharge
  BY <1>4, LearnAssumption DEF StartCharge
<1>5. CASE ChargeDone
  BY FalseIsBoolean, <1>5, LearnAssumption DEF ChargeDone, Land, StopMotors
<1>6. CASE Charged
  BY <1>6, LearnAssumption DEF Charged
<1>7. CASE Rate
  <2>1. /\ pc = "rate"
        /\ UNCHANGED <<state, resume, idx, n, queue, rest, motorVars, gate, cupVars, charge,
                       count, round, total, pass, valid, selected, histVars, suppressed>>
    BY <1>7 DEF Rate
  <2>2. CASE Met
    <3>1. met' = TRUE /\ pc' = "stopped" /\ UNCHANGED <<result, profile>>
      BY <1>7, <2>2, Zenon DEF Rate
    <3> QED
      BY <2>1, <3>1
  <2>3. CASE ~Met /\ round < MaxRounds
    <3>1. BackOff
      BY <1>7, <2>3, <2>1 DEF Rate
    <3> QED
      BY <2>1, <2>3, <3>1 DEF BackOff, Apply
  <2>4. CASE ~Met /\ round >= MaxRounds
    <3>1. pc' = "stopped" /\ UNCHANGED <<met, result, profile>>
      BY <1>7, <2>4, <2>1 DEF Rate
    <3> QED
      BY <2>1, <3>1
  <2> QED
    BY <2>2, <2>3, <2>4
<1>8. ASSUME NEW ok \in BOOLEAN, Weighed(ok) PROVE IInv'
  <2>1. \/ cup_load' = NotANumber
        \/ cup_load' = cup_load + landed /\ cup_load # NotANumber
    BY <1>8 DEF Weighed, Plus
  <2> QED
    BY <1>8, <2>1, LearnAssumption DEF Weighed
<1> QED
  BY <1>1, <1>2, <1>3, <1>4, <1>5, <1>6, <1>7, <1>8

LEMMA StutterIInv == IInv /\ UNCHANGED vars => IInv'
  BY DEF IInv, TypeOK, MotorsOnlyInThrows, TunerHeldOff, CupNeverOverflows,
         ReportedIsMeasured, PhaseInv, Emptying, RoundInv, InRound, CupInv, vars,
         cupVars, motorVars, confirmVars, fitVars, histVars

-----------------------------------------------------------------------------

LEMMA InductiveInvariant == IInv /\ [Next]_vars => IInv'
<1> SUFFICES ASSUME IInv, [Next]_vars PROVE IInv'
  OBVIOUS
<1>1. CASE Requests
  BY <1>1, RequestsIInv
<1>2. CASE FormEvent \/ DumpCup \/ Screen
  BY <1>2, MenuIInv
<1>3. CASE Poll
  BY <1>3, EndedIInv
<1>4. CASE Steps
  BY <1>4, MenuIInv, CupIInv, LadderIInv, ConfirmIInv DEF Steps
<1>5. CASE Turns
  BY <1>5, EndedIInv, CupIInv, LadderIInv, ConfirmIInv DEF Turns
<1>6. CASE UNCHANGED vars
  BY <1>6, StutterIInv
<1> QED
  BY <1>1, <1>2, <1>3, <1>4, <1>5, <1>6 DEF Next

LEMMA AlwaysIInv == Spec => []IInv
  BY InitIInv, InductiveInvariant, PTL DEF Spec

\* The variables keep their types; in particular the rounds never exceed the
\* limit, and no back-off makes a version beyond the last round's.
THEOREM TypeCorrect == Spec => []TypeOK
<1>1. IInv => TypeOK
  BY DEF IInv
<1> QED
  BY <1>1, AlwaysIInv, PTL

\* However a run ends, by its result, RST, a silent scale or a time limit, its
\* motors are stopped before anything else is done, and none turns while the
\* user handles the cup.
THEOREM MotorsStopFirst == Spec => []MotorsOnlyInThrows
<1>1. IInv => MotorsOnlyInThrows
  BY DEF IInv
<1> QED
  BY <1>1, AlwaysIInv, PTL

\* The live tuner is held off in every confirmation throw, and let go again by
\* every way out of the rounds.
THEOREM TunerIsHeldOff == Spec => []TunerHeldOff
<1>1. IInv => TunerHeldOff
  BY DEF IInv
<1> QED
  BY <1>1, AlwaysIInv, PTL

\* A run that began with an empty cup never overfills it, for any capacity that
\* a throw fits into and any number of throws.
THEOREM CupHolds == Spec => []CupNeverOverflows
<1>1. IInv => CupNeverOverflows
  BY DEF IInv
<1> QED
  BY <1>1, AlwaysIInv, PTL

\* The version on the results screen is the one the last round measured.
THEOREM ReportsWhatItMeasured == Spec => []ReportedIsMeasured
<1>1. IInv => ReportedIsMeasured
  BY DEF IInv
<1> QED
  BY <1>1, AlwaysIInv, PTL
=============================================================================
