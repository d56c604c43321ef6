----------------------------- MODULE MCServoGate -----------------------------
(***************************************************************************)
(* ServoGate with the menu task and the REST server, and a ramp of two     *)
(* steps between the closed and the open gate.                             *)
(***************************************************************************)
EXTENDS ServoGate
=============================================================================
