------------------------------ MODULE MCScale ------------------------------
(* Two values that differ in sign and in both digits; garbage that is a       *)
(* terminator and garbage that is nothing.                                    *)
EXTENDS Scale

MCValues == {[neg |-> FALSE, digits |-> <<"1", "2">>], [neg |-> TRUE, digits |-> <<"2", "1">>]}
MCNoise == {"lf", "x"}
=============================================================================
