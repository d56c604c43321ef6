------------------------------ MODULE MCLearnMode ------------------------------
(***************************************************************************)
(* LearnMode with ladders of a probe and one throw, a cup that holds two or *)
(* three, so that both a ladder and a round have to stop for it, and one   *)
(* profile, or two, of which REST selects one at any time.                 *)
(***************************************************************************)
EXTENDS LearnMode
=============================================================================
