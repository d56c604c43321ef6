---------------------------- MODULE MCStepperMotor ----------------------------
(***************************************************************************)
(* StepperMotor with two senders (the menu task and the REST server).      *)
(***************************************************************************)
EXTENDS StepperMotor
=============================================================================
