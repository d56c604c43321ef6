---------------------------- MODULE MCLearnTuner ----------------------------
(* Two knobs of opposite risk and the landing speed, two throws an arm.       *)
EXTENDS LearnTuner

MCKnob == [i \in 1 .. 2 |-> IF i = 1 THEN "handoff" ELSE "coarse_max"]
MCParams == {"handoff", "coarse_max", "fine_min"}
MCStartLevel == [i \in 1 .. 2 |-> 1]
MCDown == [k \in MCParams |-> IF k = "fine_min" THEN 0 ELSE 1]
MCUp == [k \in MCParams |-> 0]
MCBottom == -1
MCEdits == {<<"coarse_max", 1>>, <<"handoff", NotANumber>>}
=============================================================================
