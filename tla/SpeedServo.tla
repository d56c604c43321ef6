------------------------------ MODULE SpeedServo ------------------------------
(***************************************************************************)
(* What a trickler motor promises its callers: it carries out the speed    *)
(* commands in the order they were accepted, each one completely, moving   *)
(* from one velocity to the next without a jump and passing through        *)
(* standstill when the direction changes.                                  *)
(***************************************************************************)
EXTENDS Integers, Sequences

CONSTANT MaxSpeed   \* the largest speed a caller asks for

Velocity == (-MaxSpeed) .. MaxSpeed

VARIABLES
  backlog,   \* commands accepted and not yet begun
  goal,      \* the command being carried out
  velocity   \* the velocity the motor is told to turn at

servoVars == <<backlog, goal, velocity>>

Init ==
  /\ backlog = <<>>
  /\ goal = 0
  /\ velocity = 0

Accept(v) ==
  /\ backlog' = Append(backlog, v)
  /\ UNCHANGED <<goal, velocity>>

Begin ==
  /\ backlog # <<>>
  /\ velocity = goal
  /\ goal' = Head(backlog)
  /\ backlog' = Tail(backlog)
  /\ UNCHANGED velocity

\* v lies closer to g than u does, on the way from u to g.
Closer(v, u, g) == (u < v /\ v <= g) \/ (g <= v /\ v < u)

SameSide(u, v) == (u >= 0 /\ v >= 0) \/ (u <= 0 /\ v <= 0)

Move ==
  /\ velocity' \in Velocity
  /\ Closer(velocity', velocity, goal)
  /\ SameSide(velocity, velocity')
  /\ UNCHANGED <<backlog, goal>>

Next == (\E v \in Velocity : Accept(v)) \/ Begin \/ Move

Spec == Init /\ [][Next]_servoVars
FairSpec == Spec /\ WF_servoVars(Begin) /\ WF_servoVars(Move)
=============================================================================
