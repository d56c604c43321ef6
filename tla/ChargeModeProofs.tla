--------------------------- MODULE ChargeModeProofs ---------------------------
(***************************************************************************)
(* For any targets, handoffs, trims, bracket and queue length: ChargeMode  *)
(* keeps its types, never leaves a motor running outside a throw, never    *)
(* restarts the bulk after the handoff, never logs a throw twice, and      *)
(* never lets a handoff that is a number take more than half of the        *)
(* charge.                                                                 *)
(*                                                                         *)
(* The conjunction of the four invariants is inductive.  None needs a      *)
(* strengthening of its own, but ThrowDone preserves CoarseStaysOff only   *)
(* because of MotorsOnlyWhileThrowing: outside the throw the coarse tube   *)
(* is at rest, whatever moving and backoff still say.                      *)
(***************************************************************************)
EXTENDS ChargeMode, TLAPS

\* The arithmetic of handoff_for_target: whatever number the stored handoff
\* is, the bulk's aim lies between half of the target and the whole of it.
LEMMA BulkAim ==
  ASSUME NEW t \in SetPoint \ {NotANumber}, NEW h \in Int
  PROVE  /\ CoarseTarget(t, h) \in 0 .. t \union {0}
         /\ 2 * CoarseTarget(t, h) >= t
<1>1. t \in Int /\ t % 2 = 0
  BY ChargeAssumption DEF SetPoint
<1>2. PICK k \in Int : k = t \div 2
  BY <1>1
<1>3. t = 2 * k
  BY <1>1, <1>2
<1>4. h # NotANumber /\ t # NotANumber
  BY <1>1, ChargeAssumption
<1>5. HandoffForTarget(t, h) \in Int /\ HandoffForTarget(t, h) >= 0
  BY <1>1, <1>2, <1>3, <1>4 DEF HandoffForTarget
<1>6. t > 0 => HandoffForTarget(t, h) \in 0 .. k
  BY <1>1, <1>2, <1>3, <1>4 DEF HandoffForTarget
<1>7. NotANumber \notin {t, HandoffForTarget(t, h)}
  BY <1>4, <1>5, ChargeAssumption
<1> QED
  BY <1>1, <1>3, <1>5, <1>6, <1>7 DEF CoarseTarget

\* A NaN among the target and the handoff leaves the bulk nothing to do.
LEMMA NoBulkAim ==
  ASSUME NEW t, NEW h, NotANumber \in {t, h} PROVE CoarseTarget(t, h) = 0
  BY DEF CoarseTarget, HandoffForTarget

LEMMA AnAimIsABulkAim ==
  ASSUME NEW t \in SetPoint, NEW h \in Int \union {NotANumber}
  PROVE  CoarseTarget(t, h) \in BulkAims
<1>1. CASE NotANumber \in {t, h}
  BY <1>1, NoBulkAim DEF BulkAims
<1>2. CASE NotANumber \notin {t, h}
  <2>1. CoarseTarget(t, h) \in 0 .. t \union {0}
    BY <1>2, BulkAim
  <2> QED
    BY <1>2, <2>1 DEF BulkAims
<1> QED
  BY <1>1, <1>2

LEMMA ZeroIsABulkAim == 0 \in BulkAims
  BY DEF BulkAims

\* The SMT backend does not find this by itself.
LEMMA FalseIsBoolean == \A x : x = FALSE => x \in BOOLEAN
  BY Zenon

-----------------------------------------------------------------------------

IInv == TypeOK /\ MotorsOnlyWhileThrowing /\ CoarseStaysOff /\ LoggedOnce

USE DEF EXIT, WAIT_ZERO, WAIT_COMPLETE, CUP_REMOVAL, CUP_RETURN, ChargeState,
        Event, Phase, MaxTopUps

LEMMA InitIInv == Init => IInv
<1> SUFFICES ASSUME Init PROVE IInv
  OBVIOUS
<1>2. queue \in Seq(Event) /\ Len(queue) <= QueueLength
  BY ChargeAssumption DEF Init
<1>4. TypeOK
  BY FalseIsBoolean, <1>2, ZeroIsABulkAim DEF Init, TypeOK, SetPoint
<1> QED
  BY <1>4 DEF Init, IInv, MotorsOnlyWhileThrowing, CoarseStaysOff, LoggedOnce

\* Buttons, REST and the menu leave the motors and the throw alone.
LEMMA RequestsIInv ==
  ASSUME IInv, Requests PROVE IInv'
<1> USE DEF IInv, TypeOK, MotorsOnlyWhileThrowing, CoarseStaysOff, LoggedOnce,
            restVars, motorVars, gateVars, throwVars, judgeVars
<1>1. ASSUME NEW e \in Event \ {"OVERRIDE"}, Button(e) PROVE IInv'
  BY <1>1, ChargeAssumption DEF Button
<1>2. ASSUME NEW n \in RestStates, RestState(n) PROVE IInv'
  BY <1>2, ChargeAssumption DEF RestState
<1>3. CASE RestSend
  BY <1>3, ChargeAssumption DEF RestSend
<1>4. CASE RestWrite
  BY <1>4 DEF RestWrite
<1>5. ASSUME NEW t \in RestTargets, RestTarget(t) PROVE IInv'
  BY <1>5 DEF RestTarget, SetPoint
<1>6. CASE RestGate
  BY <1>6 DEF RestGate
<1> QED
  BY <1>1, <1>2, <1>3, <1>4, <1>5, <1>6 DEF Requests

\* The menu and the dispatch: a throw starts with both tubes at rest.
LEMMA MenuIInv ==
  ASSUME IInv, FormEvent \/ Enter \/ Leave \/ Dispatch PROVE IInv'
<1> USE DEF IInv, TypeOK, MotorsOnlyWhileThrowing, CoarseStaysOff, LoggedOnce,
            restVars, motorVars, gateVars, throwVars, judgeVars
<1>1. CASE FormEvent
  <2>1. pc = "form" /\ pc' \in {"form", "enter"} /\ target' \in SetPoint
    BY <1>1 DEF FormEvent, SetPoint
  <2>2. queue' \in Seq(Event) /\ Len(queue') <= QueueLength
    BY <1>1, ChargeAssumption DEF FormEvent
  <2> QED
    BY <1>1, <2>1, <2>2 DEF FormEvent
<1>2. CASE Enter
  BY <1>2 DEF Enter
<1>3. CASE Leave
  BY FalseIsBoolean, <1>3 DEF Leave
<1>4. ASSUME NEW s \in ChargeState, NEW p \in {"zero", "settle", "return", "leave"},
             Dispatch, StartPhase(s, p)
      PROVE  IInv'
  BY FalseIsBoolean, <1>4 DEF Dispatch, StartPhase
<1>5. ASSUME Dispatch, StartThrow PROVE IInv'
  <2>1. handoff' \in Int \union {NotANumber}
    BY <1>5, ChargeAssumption DEF StartThrow
  <2>2. coarse_target' \in BulkAims
    BY <1>5, <2>1, AnAimIsABulkAim DEF StartThrow
  <2>3. aim' \in Int \union {NotANumber}
    <3>1. target # NotANumber => target \in Int
      BY ChargeAssumption DEF SetPoint
    <3> QED
      BY <1>5, <3>1, ChargeAssumption DEF StartThrow
  <2> QED
    BY FalseIsBoolean, <1>5, <2>1, <2>2, <2>3 DEF Dispatch, StartThrow
<1>6. CASE Dispatch
  <2>1. \/ StartThrow
        \/ \E s \in ChargeState, p \in {"zero", "settle", "return", "leave"} : StartPhase(s, p)
    BY <1>6 DEF Dispatch
  <2> QED
    BY <1>4, <1>5, <1>6, <2>1
<1> QED
  BY <1>1, <1>2, <1>3, <1>6

\* A phase that gives up, for RST or for a silent scale.
LEMMA AbortIInv ==
  ASSUME IInv, Poll \/ Elapse \/ ScaleLost PROVE IInv'
<1> USE DEF IInv, TypeOK, MotorsOnlyWhileThrowing, CoarseStaysOff, LoggedOnce,
            restVars, motorVars, gateVars, throwVars, judgeVars
<1>1. CASE Poll
  <2>1. queue' \in Seq(Event) /\ Len(queue') <= QueueLength
    BY <1>1, ChargeAssumption DEF Poll
  <2>2. CASE Head(queue) = "RST"
    BY FalseIsBoolean, ZeroIsABulkAim, <1>1, <2>1, <2>2 DEF Poll, Abort, EndThrow
  <2>3. CASE Head(queue) # "RST"
    BY <1>1, <2>1, <2>3 DEF Poll
  <2> QED
    BY <2>2, <2>3
<1>2. CASE Elapse
  BY <1>2 DEF Elapse
<1>3. CASE ScaleLost
  BY FalseIsBoolean, ZeroIsABulkAim, <1>3 DEF ScaleLost, Abort, EndThrow
<1> QED
  BY <1>1, <1>2, <1>3

\* The throw: its readings, the gate and the precharge.
LEMMA ThrowIInv ==
  ASSUME IInv,
         BackoffElapses \/ ChargeReading \/ CloseGate \/ Precharge \/ ThrowDone
  PROVE  IInv'
<1> USE DEF IInv, TypeOK, MotorsOnlyWhileThrowing, CoarseStaysOff, LoggedOnce,
            restVars, motorVars, gateVars, throwVars, judgeVars
<1>1. CASE BackoffElapses
  BY <1>1 DEF BackoffElapses
<1>2. ASSUME NEW r \in Weight, Landed(r) PROVE IInv'
  BY FalseIsBoolean, ZeroIsABulkAim, <1>2 DEF Landed, EndThrow
<1>3. ASSUME NEW r \in Weight, NEW p \in r .. MaxWeight, HandOff(r, p) PROVE IInv'
  BY FalseIsBoolean, <1>3 DEF HandOff, FineSpeed
<1>4. ASSUME NEW r \in Weight, NEW p \in r .. MaxWeight, Trickle(r, p) PROVE IInv'
  BY FalseIsBoolean, <1>4 DEF Trickle, FineSpeed
<1>5. CASE CloseGate
  BY <1>5 DEF CloseGate
<1>6. CASE Precharge
  BY <1>6 DEF Precharge
<1>7. CASE ThrowDone
  BY <1>7 DEF ThrowDone
<1> QED
  BY <1>1, <1>2, <1>3, <1>4, <1>5, <1>6, <1>7 DEF ChargeReading

\* Zeroing, settling, topping up, judging and the cup.
LEMMA SettleIInv ==
  ASSUME IInv,
         Zeroed \/ Settled \/ TopUpReading \/ TopUpDone \/ CupRemoved \/ CupReturned
  PROVE  IInv'
<1> USE DEF IInv, TypeOK, MotorsOnlyWhileThrowing, CoarseStaysOff, LoggedOnce,
            restVars, motorVars, gateVars, throwVars, judgeVars
<1>1. CASE Zeroed
  BY <1>1 DEF Zeroed
<1>2. ASSUME NEW w, StartTopUp(w) PROVE IInv'
  BY FalseIsBoolean, <1>2 DEF StartTopUp
<1>3. ASSUME NEW w, Judge(w) PROVE IInv'
  <2>1. verdict' \in {"none", "pass", "under", "over"}
    BY <1>3 DEF Judge, Verdict
  <2>2. inside' \in BOOLEAN
    BY <1>3 DEF Judge
  <2> QED
    BY FalseIsBoolean, <1>3, <2>1, <2>2 DEF Judge
<1>4. CASE TopUpReading
  BY FalseIsBoolean, <1>4 DEF TopUpReading
<1>5. CASE TopUpDone
  BY FalseIsBoolean, <1>5 DEF TopUpDone
<1>6. CASE CupRemoved
  BY <1>6 DEF CupRemoved
<1>7. CASE CupReturned
  BY <1>7 DEF CupReturned
<1> QED
  BY <1>1, <1>2, <1>3, <1>4, <1>5, <1>6, <1>7 DEF Settled

LEMMA StutterIInv == IInv /\ UNCHANGED vars => IInv'
  BY DEF IInv, TypeOK, MotorsOnlyWhileThrowing, CoarseStaysOff, LoggedOnce, vars,
         restVars, motorVars, gateVars, throwVars, judgeVars

LEMMA NextIInv == IInv /\ [Next]_vars => IInv'
<1> SUFFICES ASSUME IInv, [Next]_vars PROVE IInv'
  OBVIOUS
<1> QED
  BY RequestsIInv, MenuIInv, AbortIInv, ThrowIInv, SettleIInv, StutterIInv
     DEF Next, Progress

\* The invariants the runs check, together, are inductive.
THEOREM InductiveInvariant == Spec => []IInv
  BY InitIInv, NextIInv, PTL DEF Spec

-----------------------------------------------------------------------------

\* Every variable keeps its type; the bulk never aims beyond a set point.
THEOREM TypeCorrect == Spec => []TypeOK
  BY InductiveInvariant, PTL DEF IInv

\* RST, a silent scale, a time limit or a finished charge: charge_mode.cpp
\* never goes on to another phase, or back to the menu, with a motor running.
THEOREM MotorsStopWithTheThrow == Spec => []MotorsOnlyWhileThrowing
  BY InductiveInvariant, PTL DEF IInv

\* The coarse tube does not run on after the handoff, and turns back only
\* while the backoff's clock runs.
THEOREM BulkStaysOff == Spec => []CoarseStaysOff
  BY InductiveInvariant, PTL DEF IInv

\* A completed throw enters the session's log once at most.
THEOREM NoDoubleRecord == Spec => []LoggedOnce
  BY InductiveInvariant, PTL DEF IInv

\* A throw starts with an aim for the bulk of at least half of the target.
LEMMA StartsWithHalf ==
  ASSUME IInv, Next, StartsThrow, handoff' # NotANumber
  PROVE  2 * coarse_target' >= target
<1>1. Dispatch /\ StartThrow
  BY DEF Next, Requests, Progress, Button, RestState, RestSend, RestWrite,
         RestTarget, RestGate, FormEvent, Enter, Dispatch, Leave, CloseGate,
         Precharge, ThrowDone, Settled, StartTopUp, Judge, TopUpDone, Poll,
         Abort, Elapse, ScaleLost, Zeroed, BackoffElapses, ChargeReading,
         Landed, HandOff, Trickle, TopUpReading, CupRemoved, CupReturned,
         StartPhase, StartsThrow, IInv
<1>2. handoff' \in Int /\ coarse_target' = CoarseTarget(target, handoff')
  BY <1>1, ChargeAssumption DEF StartThrow
<1>3. target \in SetPoint \ {NotANumber}
  BY DEF StartsThrow, IInv, TypeOK
<1> QED
  BY <1>2, <1>3, BulkAim

\* handoff_for_target holds for every throw: whatever number is stored as the
\* handoff, tuned or sent over REST, it leaves at least half of the charge to
\* the bulk.  NaN, which no comparison stops, is the exception.
THEOREM HandoffNeverSwallowsTheCharge == Spec => BulkCarriesHalf
<1>1. IInv /\ [Next]_vars
        => [(StartsThrow /\ handoff' # NotANumber) => 2 * coarse_target' >= target]_vars
  BY StartsWithHalf
<1> QED
  BY <1>1, InductiveInvariant, PTL DEF Spec, BulkCarriesHalf
=============================================================================
