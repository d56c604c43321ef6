----------------------------- MODULE LearnTuner -----------------------------
(***************************************************************************)
(* The live tuner of src/learn_tuner.c behind its adapter in               *)
(* src/charge_mode.cpp: after every logged throw the tuner of the selected *)
(* profile measures a baseline, puts a candidate live, keeps or reverts    *)
(* it, watches for drift, and starts over when somebody else edited the    *)
(* profile.  Profiles are per powder; the handoff is one global setting.   *)
(*                                                                         *)
(* A knob is a position on a scale of steps; coarse_kp is the ratio of Kp  *)
(* and speed, so that moving the speed keeps the taper window.  Times,     *)
(* landing errors and their statistics are a choice of outcomes: whether   *)
(* the margin allows a risky probe, whether a full trial was faster,       *)
(* whether misses cluster, whether the monitor sees drift.  The size of a  *)
(* probe is a level: a kept probe raises it by one (x 1.3), a reverted one *)
(* lowers it by two (x 0.6), and below zero the knob is done.              *)
(*                                                                         *)
(* An edit over REST may also be NaN, which strtof reads: a comparison     *)
(* with it is false, so no limit holds it and no difference shows it.  A   *)
(* throw whose time or error is not finite is logged but not observed.     *)
(*                                                                         *)
(* The operators up to tuner_observe take a record s, the tuner and the    *)
(* live parameters, and give the set of its possible successors.           *)
(***************************************************************************)
EXTENDS Integers

CONSTANTS
    Profiles,         \* powder profiles
    K,                \* TUNER_KNOBS
    Knob,             \* the parameter each knob number stands for
    Params,           \* tuned parameters: the knobs and the landing speed
    Edits,            \* what a person or a Learn fit may set: <<parameter, position>>
    NotANumber,       \* the position NaN
    Down, Up,         \* how far a parameter may go from the anchor; Up grows by one if aggressive
    Cap,              \* the position of the motor's own limit
    Bottom,           \* positions below this are not told apart (bound)
    Floor,            \* least handoff, one less if aggressive
    HandoffCap,       \* handoff_cap_frac of the target
    ArmN,             \* TUNER_ARM_N
    ArmMax,           \* 4 * TUNER_ARM_N, where an arm is halved
    MonitorN,         \* TUNER_MONITOR_N
    Wait,             \* throws a gated search waits
    StartLevel,       \* level of STEP_START, per knob
    ReopenLevel,      \* level of STEP_REOPEN
    TopLevel,         \* level of STEP_MAX
    NoProfile         \* no throw is being recorded

ASSUME TunerAssumption ==
    /\ K \in Nat \ {0}
    /\ "handoff" \in Params
    /\ Knob \in [1 .. K -> Params]
    /\ NotANumber \notin Int
    /\ Edits \subseteq Params \X (Int \union {NotANumber})
    /\ Down \in [Params -> Nat] /\ Up \in [Params -> Nat] /\ Cap \in Int /\ Bottom \in Int /\ Floor \in Int /\ HandoffCap \in Int
    /\ ArmN \in Nat /\ ArmN > 1 /\ ArmMax \in Nat /\ ArmMax >= 2 * ArmN
    /\ MonitorN \in Nat \ {0} /\ Wait \in Nat
    /\ TopLevel \in Nat /\ ReopenLevel \in 0 .. TopLevel
    /\ StartLevel \in [1 .. K -> 0 .. TopLevel]
    /\ NoProfile \notin Profiles

VARIABLES
    tuner,        \* learn_tuner[MAX_PROFILE_CNT]
    profile,      \* the profiles' parameters, the handoff aside
    handoff,      \* coarse_stop_threshold, one for all profiles
    selected,     \* profile_data.current_profile_idx
    learning,     \* learn_enable, and not suppressed by Learn's confirmation throws
    aggressive,   \* Learn Style
    profile_idx   \* the profile a throw is being recorded for

settings == <<profile, handoff, selected, learning, aggressive>>
vars == <<tuner, settings, profile_idx>>

Knobs == 1 .. K
Value == Int \union {NotANumber}
Point == [Params -> Value]
Origin == [k \in Params |-> 0]
OwnParams == Params \ {"handoff"}

\* The parameters in force when profile f is selected.
Live(f) == [k \in Params |-> IF k = "handoff" THEN handoff ELSE profile[f][k]]

Plus(v, n) == IF v = NotANumber THEN v ELSE v + n
Differ(v, w) == NotANumber \notin {v, w} /\ v # w
Equal(v, w) == NotANumber \notin {v, w} /\ v = w
params_differ(p, q) == \E k \in Params : Differ(p[k], q[k])

-----------------------------------------------------------------------------
(* Limits and steps of a knob. *)

reject_misses == IF aggressive THEN 3 ELSE 2

\* Low and high limits of parameter k for a profile first seen at a.
Low(a, k) ==
    LET down == a[k] - Down[k]
    IN IF k = "handoff" THEN (IF aggressive THEN Floor - 1 ELSE Floor)
       ELSE IF down < Bottom THEN Bottom ELSE down
High(a, k) ==
    LET up == a[k] + Up[k] + (IF aggressive /\ k # "coarse_kp" THEN 1 ELSE 0)
    IN IF k = "handoff" THEN HandoffCap ELSE IF up > Cap THEN Cap ELSE up
clampf(v, lo, hi) ==
    IF v = NotANumber THEN v ELSE IF v > hi THEN hi ELSE IF v < lo THEN (IF lo > hi THEN hi ELSE lo) ELSE v

\* A profile first seen with NaN in a parameter has no limits for it, but for the
\* landing speed, which the speed of the fine tube always limits.
Limited(a, k, v) ==
    IF k = "handoff" \/ a[k] # NotANumber THEN clampf(v, Low(a, k), High(a, k))
    ELSE IF k = "fine_min" THEN clampf(v, v, Cap) ELSE v
\* mutant: the clamp does not know the upper limit of the handoff
ClampNoCap(s) ==
    [s EXCEPT !.live = [k \in Params |->
        IF k = "handoff" THEN clampf(s.live[k], Low(s.anchor, k), s.live[k]) ELSE Limited(s.anchor, k, s.live[k])]]
clamp_params(s) ==
    [s EXCEPT !.live = [k \in Params |-> Limited(s.anchor, k, s.live[k])]]

\* Less for the slow tube to do, a harder push, a faster bulk.
is_risky(i, dir) == IF Knob[i] = "handoff" THEN dir < 0 ELSE dir > 0
Move(s, shift) == clamp_params([s EXCEPT !.live = [k \in Params |-> Plus(s.live[k], shift[k])]])
Shift(up, down) == [k \in Params |-> IF k \in up THEN 1 ELSE IF k \in down THEN -1 ELSE 0]

all_done(s) == \A i \in Knobs : s.done[i]

\* live is the parameters under work; between throws it is what the tuner left behind.
tuner_init == [init |-> FALSE, anchor |-> Origin, good |-> Origin, seen |-> Origin,
               live |-> Origin, mode |-> "MEASURING", knob |-> 1,
               dir |-> [i \in Knobs |-> 1], step |-> StartLevel, done |-> [i \in Knobs |-> FALSE],
               base |-> 0, trial |-> 0, misses |-> 0, wait |-> 0,
               monitor_ref |-> FALSE, start_known |-> FALSE]
tuner_t == [init : BOOLEAN, anchor : Point, good : Point, seen : Point, live : Point,
            mode : {"MEASURING", "PROBING", "CONVERGED"}, knob : Knobs,
            dir : [Knobs -> {-1, 1}], step : [Knobs -> -2 .. TopLevel], done : [Knobs -> BOOLEAN],
            base : 0 .. ArmMax, trial : 0 .. ArmN - 1, misses : 0 .. 2, wait : 0 .. Wait,
            monitor_ref : BOOLEAN, start_known : BOOLEAN]

anchor_to(s) ==
    [s EXCEPT !.init = TRUE, !.anchor = s.live, !.good = s.live, !.seen = s.live,
              !.mode = "MEASURING", !.knob = 1, !.dir = [i \in Knobs |-> 1], !.step = StartLevel,
              !.done = [i \in Knobs |-> FALSE], !.base = 0, !.trial = 0, !.misses = 0, !.wait = 0,
              !.monitor_ref = FALSE, !.start_known = FALSE]

\* An arm at its limit is halved, so that old throws fade out.
arm_add(n) == IF n >= ArmMax THEN n \div 2 + 1 ELSE n + 1

-----------------------------------------------------------------------------
(* Searching. *)

\* Turn the knobs in is round and make their steps smaller.
Retreat(s, is) ==
    [s EXCEPT !.dir = [i \in Knobs |-> IF i \in is THEN -s.dir[i] ELSE s.dir[i]],
              !.step = [i \in Knobs |-> IF i \in is THEN s.step[i] - 2 ELSE s.step[i]],
              !.done = [i \in Knobs |-> s.done[i] \/ (i \in is /\ s.step[i] < 2)]]

Candidate(s, i) ==
    Move([s EXCEPT !.live = s.good],
         [k \in Params |-> IF k = Knob[i] THEN s.dir[i] ELSE 0]).live

\* Walk the knobs from the current one; those at a limit retreat, the first that
\* can move goes live.
WalkKnobs(s, margin_ok) ==
    LET tried == {i \in Knobs : ~s.done[i] /\ (is_risky(i, s.dir[i]) => margin_ok)}
        pinned == {i \in tried : ~params_differ(Candidate(s, i), s.good)}
        free == tried \ pinned
        Order(i) == (i - s.knob) % K
        first == CHOOSE i \in free : \A j \in free : Order(i) <= Order(j)
        t == Retreat(s, {i \in pinned : \A j \in free : Order(i) < Order(j)})
    IN IF free = {} THEN t
       ELSE [t EXCEPT !.knob = first, !.live = Candidate(s, first), !.trial = 0, !.misses = 0,
                      !.mode = "PROBING"]

\* The first time, throws that meet the time goal end the search.
start_probe(s) ==
    LET known == [s EXCEPT !.start_known = TRUE]
        met == [known EXCEPT !.done = [i \in Knobs |-> TRUE], !.monitor_ref = TRUE]
    IN {WalkKnobs(known, ok) : ok \in BOOLEAN} \union (IF s.start_known THEN {} ELSE {met})

\* The search ended: unless it is clearly better, the profile as first seen goes back.
enter_monitor(s) ==
    LET watch(r) == [r EXCEPT !.mode = "CONVERGED", !.base = 0]
        undone == [s EXCEPT !.live = s.anchor, !.good = s.anchor]
    IN IF s.start_known /\ params_differ(s.good, s.anchor) /\ s.base >= ArmN \div 2
       THEN {watch(s), watch(undone)} ELSE {watch(s)}
EnterIfDone(s) == IF all_done(s) THEN enter_monitor(s) ELSE {s}

reopen_search(s) ==
    [s EXCEPT !.done = [i \in Knobs |-> FALSE], !.step = [i \in Knobs |-> ReopenLevel],
              !.mode = "MEASURING", !.wait = 0, !.base = 0, !.trial = 0, !.misses = 0]

\* mutant: the baseline is not replaced by the arm that ran on the kept parameters
KeepForgetsBase(s) ==
    LET kept == [s EXCEPT !.good = s.live, !.base = 0, !.trial = 0, !.misses = 0, !.mode = "MEASURING"]
    IN UNION {IF r.mode = "PROBING" THEN {r} ELSE EnterIfDone([r EXCEPT !.live = r.good]) :
              r \in start_probe(kept)}
\* mutant: a probe started without looking whether the search is over
KeepWithoutEnter(s) ==
    LET kept == [s EXCEPT !.good = s.live, !.base = s.trial, !.trial = 0, !.misses = 0, !.mode = "MEASURING"]
    IN {IF r.mode = "PROBING" THEN r ELSE [r EXCEPT !.live = r.good] : r \in start_probe(kept)}
Keep(s) ==
    LET kept == [s EXCEPT !.good = s.live, !.base = s.trial, !.trial = 0, !.misses = 0,
                          !.step[s.knob] = IF @ < TopLevel THEN @ + 1 ELSE @, !.mode = "MEASURING"]
    IN UNION {IF r.mode = "PROBING" THEN {r} ELSE EnterIfDone([r EXCEPT !.live = r.good]) :
              r \in start_probe(kept)}

Revert(s) ==
    LET back == [Retreat(s, {s.knob}) EXCEPT !.live = s.good, !.trial = 0, !.misses = 0,
                     !.knob = (s.knob % K) + 1, !.mode = "MEASURING"]
    IN EnterIfDone(back)

\* Too many misses always revert; otherwise the clock and the spread decide.
finish_probe(s) == Revert(s) \union (IF s.misses >= reject_misses THEN {} ELSE Keep(s))

-----------------------------------------------------------------------------
(* One throw. *)

\* A cluster of misses backs off the knob that is to blame.
nudge_for_over(s, coarse_ran_long) ==
    LET t == IF coarse_ran_long THEN Move(s, Shift({"handoff"}, {"coarse_max"}))
             ELSE Move(s, Shift({}, {"fine_min", "fine_kp"}))
    IN [t EXCEPT !.good = t.live, !.base = 0]

\* The landing speed may move; a big move makes the baseline stale.
landing_law(s) ==
    {s} \union
    UNION {LET t == Move(s, d)
               u == [t EXCEPT !.good["fine_min"] = t.live["fine_min"]]
           IN {u, [u EXCEPT !.base = 0]} : d \in {Shift({"fine_min"}, {}), Shift({}, {"fine_min"})}}
Landed(s, result) == IF result = "PASS" THEN landing_law(s) ELSE {s}
Nudged(s, result) ==
    IF result = "OVER" THEN {nudge_for_over(s, long) : long \in BOOLEAN} ELSE {}

Measuring(s, result) ==
    LET added == [s EXCEPT !.base = arm_add(@)]
        Waited(r) == [r EXCEPT !.wait = IF @ > 0 THEN @ - 1 ELSE 0]
        Probe(r) == IF r.base < ArmN \/ r.wait > 0 THEN {r}
                    ELSE UNION {IF q.mode = "PROBING" THEN {q}
                                ELSE IF all_done(q) THEN enter_monitor(q)
                                ELSE {[q EXCEPT !.wait = Wait]} : q \in start_probe(r)}
    IN Nudged(s, result) \union UNION {Probe(Waited(r)) : r \in Landed(added, result)}

\* mutant: a trial with a miss waits for more throws
ProbingWaits(s, result) ==
    LET m == s.misses + (IF result = "PASS" THEN 0 ELSE 1)
        Added(n) == [s EXCEPT !.trial = n, !.misses = m]
    IN IF m >= reject_misses \/ (m = 0 /\ s.trial + 1 >= ArmN) THEN finish_probe(Added(s.trial + 1))
       ELSE {Added(arm_add(s.trial))}
\* The landing speed is frozen; a gross overcharge ends the trial at once.
Probing(s, result) ==
    LET missed == s.misses + (IF result = "PASS" THEN 0 ELSE 1)
        outcomes == {missed} \union (IF result = "OVER" THEN {reject_misses} ELSE {})
        Added(m) == [s EXCEPT !.trial = @ + 1, !.misses = m]
    IN UNION {IF s.trial + 1 >= ArmN \/ m >= reject_misses THEN finish_probe(Added(m))
              ELSE {Added(m)} : m \in outcomes}

\* Misses back off and search again, slower throws search again.
Drift(s) ==
    LET t == Move(s, Shift({"handoff"}, {"fine_min"}))
    IN {reopen_search([t EXCEPT !.good = t.live])} \union
       (IF s.monitor_ref THEN {reopen_search([s EXCEPT !.monitor_ref = FALSE]), [s EXCEPT !.base = 0]}
        ELSE {[s EXCEPT !.monitor_ref = TRUE, !.base = 0]})
Converged(s, result) ==
    LET Added(r) == [r EXCEPT !.base = arm_add(@)]
        landed == UNION {Landed(Added(r), result) : r \in {s} \union Nudged(s, result)}
    IN UNION {IF r.base >= MonitorN THEN Drift(r) ELSE {r} : r \in landed}

\* An edit while a candidate is live: what the edit did not touch is put back.
Untested(s) == s.init /\ s.mode = "PROBING" /\ params_differ(s.live, s.seen)
\* mutant: the fields the edit left alone stay at the candidate
PutBackNothing(s) == s
PutBack(s) ==
    IF Untested(s)
    THEN [s EXCEPT !.live = [k \in Params |-> IF Equal(s.live[k], s.seen[k]) THEN s.good[k] ELSE s.live[k]]]
    ELSE s
Anchored(s) == IF ~s.init \/ params_differ(s.live, s.seen) THEN anchor_to(s) ELSE s

\* Everything goes through the limits; outside a probe what is live is accepted.
Left(s) ==
    LET t == clamp_params(s)
    IN [t EXCEPT !.good = IF s.mode = "PROBING" THEN @ ELSE t.live, !.seen = t.live]

tuner_observe(s, result) ==
    LET t == Anchored(PutBack(s))
    IN {Left(r) : r \in CASE t.mode = "MEASURING" -> Measuring(t, result)
                          [] t.mode = "PROBING" -> Probing(t, result)
                          [] t.mode = "CONVERGED" -> Converged(t, result)}

-----------------------------------------------------------------------------
Init ==
    /\ tuner = [f \in Profiles |-> tuner_init]
    /\ profile = [f \in Profiles |-> [k \in OwnParams |-> 0]]
    /\ handoff = 0
    /\ selected \in Profiles
    /\ learning = TRUE /\ aggressive \in BOOLEAN /\ profile_idx = NoProfile

\* A throw is judged: its profile is looked up, and the throw is logged.
BeginRecord ==
    /\ profile_idx = NoProfile
    /\ profile_idx' = selected
    /\ UNCHANGED <<tuner, settings>>

\* The tuner of that profile sees the throw, with the parameters of the profile
\* that is selected by now, and writes them back.  It returns at once, without even
\* noticing an edit, where the time or the error of the throw is not finite: settling
\* ended on a reading that could not be decoded, or the set point is NaN.
learn_post_throw(finite) ==
    /\ profile_idx # NoProfile
    /\ profile_idx' = NoProfile
    /\ IF ~learning \/ ~finite THEN UNCHANGED <<tuner, profile, handoff>>
       ELSE \E result \in {"PASS", "OVER", "UNDER"} :
            \E r \in tuner_observe([tuner[profile_idx] EXCEPT !.live = Live(selected)], result) :
               /\ tuner' = [tuner EXCEPT ![profile_idx] = r]
               /\ profile' = [profile EXCEPT ![selected] = [k \in OwnParams |-> r.live[k]]]
               /\ handoff' = r.live["handoff"]
    /\ UNCHANGED <<selected, learning, aggressive>>

\* Somebody sets a parameter: over REST, in a menu, or by applying a Learn fit.
profile_select(f) ==
    /\ selected' = f
    /\ UNCHANGED <<tuner, profile, handoff, learning, aggressive, profile_idx>>
http_rest_profile_config(k, v) ==
    /\ k # "handoff"
    /\ profile' = [profile EXCEPT ![selected][k] = v]
    /\ UNCHANGED <<tuner, handoff, selected, learning, aggressive, profile_idx>>
http_rest_charge_mode_config(k, v) ==
    /\ k = "handoff"
    /\ handoff' = v
    /\ UNCHANGED <<tuner, profile, selected, learning, aggressive, profile_idx>>
charge_mode_learn_set_suppressed ==
    /\ learning' = ~learning
    /\ UNCHANGED <<tuner, profile, handoff, selected, aggressive, profile_idx>>
http_rest_learn_config ==
    /\ aggressive' = ~aggressive
    /\ UNCHANGED <<tuner, profile, handoff, selected, learning, profile_idx>>

-----------------------------------------------------------------------------
Throw == BeginRecord \/ \E finite \in BOOLEAN : learn_post_throw(finite)
Outside ==
    \/ \E f \in Profiles : profile_select(f)
    \/ \E e \in Edits : http_rest_profile_config(e[1], e[2]) \/ http_rest_charge_mode_config(e[1], e[2])
    \/ charge_mode_learn_set_suppressed \/ http_rest_learn_config
Next == Throw \/ Outside
Spec == Init /\ [][Next]_vars

\* Somebody keeps charging: records begin and end for ever.  Both steps of a record
\* are always possible, so this is their weak fairness.
FairSpec == Spec /\ []<>(profile_idx # NoProfile) /\ []<>(profile_idx = NoProfile)

-----------------------------------------------------------------------------
(* Properties. *)

Numeric(s, k) == s.seen[k] # NotANumber /\ (k # "handoff" => s.anchor[k] # NotANumber)
InRange(s, k) ==
    IF k = "handoff" THEN s.seen[k] <= HandoffCap
    ELSE s.seen[k] <= Cap /\ s.seen[k] <= s.anchor[k] + Up[k] + 1

\* Types; and whatever probes, nudges, reverts and edits came before, every number
\* the tuner left behind is below the widest limits it can have.
TypeOK ==
    /\ tuner \in [Profiles -> tuner_t]
    /\ profile \in [Profiles -> [OwnParams -> Value]] /\ handoff \in Value
    /\ selected \in Profiles /\ profile_idx \in Profiles \union {NoProfile}
    /\ learning \in BOOLEAN /\ aggressive \in BOOLEAN
    /\ \A f \in Profiles : \A k \in Params :
          tuner[f].init /\ Numeric(tuner[f], k) => InRange(tuner[f], k)

\* learn_tuner.c:170: "no sequence of probes, nudges or outside edits can walk a knob
\* out of the range it is allowed to live in".  An edit to NaN can: clampf lets it pass.
KnobsStayInRange ==
    \A f \in Profiles : \A k \in Params :
        tuner[f].init => Numeric(tuner[f], k) /\ InRange(tuner[f], k)

\* A candidate is only ever judged against a full arm of throws on the parameters
\* it would replace (learn_tuner.c:315, 389).
BaselineBehindProbe ==
    \A f \in Profiles : tuner[f].mode = "PROBING" =>
        tuner[f].base >= ArmN /\ ~tuner[f].done[tuner[f].knob]

\* The tuner watches exactly when no knob is left to try: a search neither stops
\* early nor waits with nothing to look for (learn_tuner.c:396, 521).
WatchesIffDone ==
    \A f \in Profiles : tuner[f].mode = "CONVERGED" <=> all_done(tuner[f])

\* "The candidate was never verified, so it must not become the new baseline by
\* accident" (learn_tuner.c:475): a profile that is edited while a candidate is live
\* does not start over from any part of that candidate.
CandidateNotBaseline ==
    [][\A f \in Profiles :
          tuner[f].mode = "PROBING" /\ tuner'[f].anchor # tuner[f].anchor
          => \A k \in Params :
                Differ(tuner[f].seen[k], tuner[f].good[k]) => tuner'[f].anchor[k] # tuner[f].seen[k]]_vars

\* The same between profiles: none starts over from a handoff that a probe of another one
\* put live and that was not kept.
OthersCandidateNotBaseline ==
    [][\A f, g \in Profiles :
          /\ tuner[f].mode = "PROBING" /\ tuner[f].seen["handoff"] # tuner[f].good["handoff"]
          /\ tuner'[g].anchor # tuner[g].anchor
          => tuner'[g].anchor["handoff"] # tuner[f].seen["handoff"]]_vars

\* A trial that was begun is judged if throws that can be measured go on: no
\* candidate stays live for good without a verdict.  Throws without a finite error
\* do not bring it nearer, so they alone are not enough.
TrialIsJudged ==
    []<><<learn_post_throw(TRUE)>>_vars =>
        \A f \in Profiles : tuner[f].trial > 0 ~> tuner[f].trial = 0 \/ selected # f \/ ~learning

=============================================================================
