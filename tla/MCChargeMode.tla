----------------------------- MODULE MCChargeMode -----------------------------
(***************************************************************************)
(* Instances of ChargeMode.  The handoff lies above the range that         *)
(* handoff_for_target allows, or is NaN, the trim lowers the aim, the set  *)
(* point is a real one until REST makes it NaN, and a REST client asks for *)
(* the exit, for a throw's beginning and for the cup removal phase.        *)
(***************************************************************************)
EXTENDS ChargeMode

SomeHandoffs == {9, NotANumber}
SomeTrims    == {-1}
=============================================================================
