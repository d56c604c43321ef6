-------------------------- MODULE LearnTunerProofs --------------------------
(***************************************************************************)
(* The live tuner, for any number of knobs and profiles, any limits and    *)
(* any size of an arm: its parameters, where they are numbers, stay within *)
(* the limits, a probe has a full baseline behind it and a knob that may   *)
(* still move, the tuner watches exactly when nothing is left to try, and  *)
(* a candidate that was not judged is never what a profile starts over     *)
(* from.                                                                   *)
(*                                                                         *)
(* All are statements about a tuner between throws (Settled).  The proof   *)
(* follows the operators of LearnTuner bottom up: what each one leaves of  *)
(* the phase, the knobs that are done, the counters and the parameters.    *)
(* Within one throw a counter may be one too high and the parameters may   *)
(* be out of the limits: an edit is, until Left has clamped it.            *)
(***************************************************************************)
EXTENDS LearnTuner, WellFoundedInduction, TLAPS

\* A tuner in the middle of a throw.
tuner_w == [init : BOOLEAN, anchor : Point, good : Point, seen : Point, live : Point,
            mode : {"MEASURING", "PROBING", "CONVERGED"}, knob : Knobs,
            dir : [Knobs -> {-1, 1}], step : [Knobs -> -2 .. TopLevel], done : [Knobs -> BOOLEAN],
            base : 0 .. ArmMax, trial : 0 .. ArmN, misses : 0 .. 3, wait : 0 .. Wait,
            monitor_ref : BOOLEAN, start_known : BOOLEAN]
Typed(s) == s \in tuner_w /\ \A i \in Knobs : s.done[i] \/ s.step[i] >= 0

\* A search in its measuring phase, and a tuner between two throws.
Searching(s) == Typed(s) /\ s.mode = "MEASURING"
Sound(s) ==
    /\ Typed(s)
    /\ s.mode = "PROBING" => s.base >= ArmN /\ ~s.done[s.knob]
    /\ s.mode = "CONVERGED" <=> all_done(s)

\* The widest limits of parameters that are numbers, under an anchor that is.
Within(s, p) ==
    \A k \in Params :
        p[k] # NotANumber /\ (k # "handoff" => s.anchor[k] # NotANumber) =>
        IF k = "handoff" THEN p[k] <= HandoffCap ELSE p[k] <= Cap /\ p[k] <= s.anchor[k] + Up[k] + 1

\* What an operator leaves alone: the profile's identity, the counters of a trial, the phase.
Same(r, s) == r.init = s.init /\ r.anchor = s.anchor
Uncounted(r, s) == r.trial = s.trial /\ r.misses = s.misses
Alike(r, s) == Same(r, s) /\ Uncounted(r, s) /\ r.mode = s.mode /\ r.knob = s.knob /\ r.done = s.done
Reset(r) == r.trial = 0 /\ r.misses = 0

\* A tuner as a throw leaves it, and as the next one finds it.
Ended(r) ==
    /\ Sound(r) /\ r.init /\ r.trial <= ArmN - 1 /\ r.misses <= 2
Settled(s) ==
    /\ Sound(s) /\ s.trial <= ArmN - 1 /\ s.misses <= 2
    /\ s.mode = "PROBING" => s.init
    /\ s.init => Within(s, s.seen)

-----------------------------------------------------------------------------
(* Operators that change one thing. *)

LEMMA Numbers ==
  /\ 0 \in 0 .. ArmMax /\ 0 \in 0 .. ArmN /\ 0 \in 0 .. 3 /\ 0 \in 0 .. Wait /\ Wait \in 0 .. Wait /\ 1 \in Knobs
  /\ \A n \in 0 .. ArmMax : arm_add(n) \in 0 .. ArmMax /\ arm_add(n) <= n + 1
  /\ \A n \in 0 .. ArmN : n \in 0 .. ArmMax
<1>1. ASSUME NEW n \in 0 .. ArmMax PROVE arm_add(n) \in 0 .. ArmMax /\ arm_add(n) <= n + 1
  <2>1. CASE n >= ArmMax
    <3> DEFINE h == n \div 2
    <3>1. n \in Nat /\ n = ArmMax /\ ArmMax \in Nat /\ ArmMax >= 4
      BY <2>1, TunerAssumption
    <3>2. h \in Nat /\ 2 * h <= n
      <4>1. n \in Int
        BY <3>1
      <4> QED
        BY <3>1, <4>1
    <3>3. arm_add(n) = h + 1
      BY <2>1 DEF arm_add
    <3> HIDE DEF h
    <3> QED
      BY <3>1, <3>2, <3>3
  <2>2. CASE ~(n >= ArmMax)
    BY <2>2, TunerAssumption DEF arm_add
  <2> QED
    BY <2>1, <2>2
<1> QED
  BY <1>1, TunerAssumption DEF Knobs

LEMMA Limits ==
  ASSUME NEW a \in Point, NEW k \in Params, k = "handoff" \/ a[k] # NotANumber
  PROVE  /\ Low(a, k) \in Int /\ High(a, k) \in Int
         /\ IF k = "handoff" THEN High(a, k) <= HandoffCap
            ELSE High(a, k) <= Cap /\ High(a, k) <= a[k] + Up[k] + 1
<1>1. Down[k] \in Nat /\ Up[k] \in Nat /\ Cap \in Int /\ Bottom \in Int /\ Floor \in Int /\ HandoffCap \in Int
  BY TunerAssumption DEF Point
<1>2. CASE k = "handoff"
  BY <1>1, <1>2 DEF Low, High
<1>3. CASE k # "handoff"
  <2>1. a[k] \in Int
    BY <1>3 DEF Point, Value
  <2> QED
    BY <1>1, <1>3, <2>1 DEF Low, High
<1> QED
  BY <1>2, <1>3

LEMMA Clamped ==
  ASSUME NEW v \in Value, NEW lo \in Int, NEW hi \in Int
  PROVE  clampf(v, lo, hi) \in Value /\ (clampf(v, lo, hi) # NotANumber => clampf(v, lo, hi) \in Int /\ clampf(v, lo, hi) <= hi)
  BY TunerAssumption DEF clampf, Value

LEMMA LimitedIs ==
  ASSUME NEW a \in Point, NEW k \in Params, NEW v \in Value
  PROVE  /\ Limited(a, k, v) \in Value
         /\ Limited(a, k, v) # NotANumber /\ (k # "handoff" => a[k] # NotANumber)
            => Limited(a, k, v) \in Int /\ Limited(a, k, v) <= High(a, k)
<1>1. CASE k = "handoff" \/ a[k] # NotANumber
  <2>1. Low(a, k) \in Int /\ High(a, k) \in Int
    BY <1>1, Limits
  <2>2. Limited(a, k, v) = clampf(v, Low(a, k), High(a, k))
    BY <1>1 DEF Limited
  <2> QED
    BY <2>1, <2>2, Clamped
<1>2. CASE ~(k = "handoff" \/ a[k] # NotANumber)
  <2>1. Limited(a, k, v) \in Value
    BY <1>2, TunerAssumption DEF Limited, clampf, Value
  <2> QED
    BY <1>2, <2>1
<1> QED
  BY <1>1, <1>2

LEMMA Clamp ==
  ASSUME NEW s, Typed(s)
  PROVE  LET r == clamp_params(s)
         IN Typed(r) /\ Alike(r, s) /\ r.base = s.base /\ r.good = s.good /\ r.seen = s.seen /\ Within(r, r.live)
<1> DEFINE p == [k \in Params |-> Limited(s.anchor, k, s.live[k])]
           r == [s EXCEPT !.live = p]
<1>1. s.anchor \in Point /\ s.live \in Point
  BY DEF Typed, tuner_w
<1>2. \A k \in Params : p[k] \in Value /\ (p[k] # NotANumber /\ (k # "handoff" => s.anchor[k] # NotANumber)
                                           => p[k] \in Int /\ p[k] <= High(s.anchor, k))
  <2>1. \A k \in Params : s.live[k] \in Value
    BY <1>1 DEF Point
  <2> QED
    BY <1>1, <2>1, LimitedIs
<1>3. p \in Point
  BY <1>2 DEF Point
<1>4. Within(s, p)
  <2> SUFFICES ASSUME NEW k \in Params, p[k] # NotANumber, k # "handoff" => s.anchor[k] # NotANumber
               PROVE  IF k = "handoff" THEN p[k] <= HandoffCap ELSE p[k] <= Cap /\ p[k] <= s.anchor[k] + Up[k] + 1
    BY DEF Within
  <2> DEFINE high == High(s.anchor, k)
             most == s.anchor[k] + Up[k] + 1
  <2>0. CASE k = "handoff"
    <3>1. p[k] \in Int /\ p[k] <= high
      BY <1>2, <2>0
    <3>2. high \in Int /\ high <= HandoffCap
      BY <1>1, <2>0, Limits
    <3> DEFINE x == p[k]
    <3>3. x \in Int /\ x <= high /\ HandoffCap \in Int
      BY <3>1, TunerAssumption
    <3> HIDE DEF high, p, x
    <3>4. x <= HandoffCap
      BY <3>2, <3>3
    <3> QED
      BY <2>0, <3>4 DEF x
  <2>1. CASE k # "handoff"
    <3>1. p[k] \in Int /\ p[k] <= high
      BY <1>2, <2>1
    <3>2. high \in Int /\ high <= Cap /\ high <= most
      BY <1>1, <2>1, Limits
    <3>3. most \in Int
      <4>1. s.anchor[k] \in Int
        BY <1>1, <2>1 DEF Point, Value
      <4>2. Up[k] \in Nat
        BY TunerAssumption
      <4> QED
        BY <4>1, <4>2
    <3> DEFINE x == p[k]
    <3>4. x \in Int /\ x <= high /\ Cap \in Int
      BY <3>1, TunerAssumption
    <3> HIDE DEF high, most, p, x
    <3>5. x <= Cap /\ x <= most
      BY <3>2, <3>3, <3>4
    <3>6. p[k] <= Cap /\ p[k] <= most
      BY <3>5 DEF x
    <3> QED
      BY <2>1, <3>6 DEF most
  <2> QED
    BY <2>0, <2>1
<1>5. clamp_params(s) = r
  BY DEF clamp_params
<1> HIDE DEF p
<1>6. Typed(r) /\ Alike(r, s) /\ r.base = s.base /\ r.good = s.good /\ r.seen = s.seen /\ r.live = p
  BY <1>3 DEF Typed, tuner_w, Alike, Same, Uncounted
<1> HIDE DEF r
<1>7. Within(r, r.live)
  BY <1>4, <1>6 DEF Within, Alike, Same
<1> QED
  BY <1>5, <1>6, <1>7

LEMMA Moved ==
  ASSUME NEW s, NEW shift \in [Params -> Int], Typed(s)
  PROVE  LET r == Move(s, shift)
         IN Typed(r) /\ Alike(r, s) /\ r.base = s.base /\ r.good = s.good /\ r.live \in Point /\ Within(r, r.live)
<1> DEFINE p == [k \in Params |-> Plus(s.live[k], shift[k])]
           t == [s EXCEPT !.live = p]
<1>1. p \in Point
  BY DEF Typed, tuner_w, Point, Value, Plus
<1>2. Move(s, shift) = clamp_params(t)
  BY DEF Move
<1> HIDE DEF p
<1>3. Typed(t) /\ Alike(t, s) /\ t.base = s.base /\ t.good = s.good
  BY <1>1 DEF Typed, tuner_w, Alike, Same, Uncounted
<1> HIDE DEF t
<1> DEFINE r == clamp_params(t)
<1>4. Typed(r) /\ Alike(r, t) /\ r.base = t.base /\ r.good = t.good /\ Within(r, r.live)
  BY <1>3, Clamp
<1> HIDE DEF r
<1>5. r.live \in Point
  BY <1>4 DEF Typed, tuner_w
<1> QED
  BY <1>2, <1>3, <1>4, <1>5 DEF Alike, Same, Uncounted, r

LEMMA ShiftIs == \A up, down : Shift(up, down) \in [Params -> Int]
  BY DEF Shift

LEMMA Anchor ==
  ASSUME NEW s, Typed(s)
  PROVE  LET r == anchor_to(s)
         IN Sound(r) /\ r.mode = "MEASURING" /\ r.init /\ r.anchor = s.live /\ r.base = 0 /\ Reset(r)
<1> DEFINE r == anchor_to(s)
<1>1. /\ r.mode = "MEASURING" /\ r.knob = 1 /\ r.base = 0 /\ Reset(r) /\ r.init /\ r.anchor = s.live
      /\ r.done = [i \in Knobs |-> FALSE] /\ r.step = StartLevel
  BY DEF anchor_to, Typed, tuner_w, Reset
<1>2. [i \in Knobs |-> 1] \in [Knobs -> {-1, 1}] /\ [i \in Knobs |-> FALSE] \in [Knobs -> BOOLEAN]
      /\ StartLevel \in [Knobs -> -2 .. TopLevel] /\ \A i \in Knobs : StartLevel[i] >= 0
  BY TunerAssumption DEF Knobs
<1>3. r \in tuner_w
  BY <1>2, Numbers DEF anchor_to, Typed, tuner_w
<1> HIDE DEF r
<1>4. Sound(r)
  BY <1>1, <1>2, <1>3, Numbers DEF Sound, Typed, all_done
<1> QED
  BY <1>1, <1>4 DEF r

LEMMA Reopened ==
  ASSUME NEW s, Typed(s)
  PROVE  LET r == reopen_search(s) IN Sound(r) /\ r.mode = "MEASURING" /\ Same(r, s) /\ Reset(r)
<1> DEFINE r == reopen_search(s)
<1>1. /\ r.mode = "MEASURING" /\ Reset(r) /\ Same(r, s)
      /\ r.done = [i \in Knobs |-> FALSE] /\ r.step = [i \in Knobs |-> ReopenLevel]
  BY DEF reopen_search, Typed, tuner_w, Reset, Same
<1>2. [i \in Knobs |-> FALSE] \in [Knobs -> BOOLEAN] /\ [i \in Knobs |-> ReopenLevel] \in [Knobs -> -2 .. TopLevel]
      /\ ReopenLevel >= 0
  BY TunerAssumption
<1>3. r \in tuner_w
  BY <1>2, Numbers DEF reopen_search, Typed, tuner_w
<1> HIDE DEF r
<1>4. Sound(r)
  BY <1>1, <1>2, <1>3, Numbers DEF Sound, Typed, all_done
<1> QED
  BY <1>1, <1>4 DEF r

LEMMA Retreated ==
  ASSUME NEW s, NEW is, Typed(s), \A i \in is : i \in Knobs /\ ~s.done[i]
  PROVE  LET r == Retreat(s, is)
         IN  /\ Typed(r) /\ Same(r, s) /\ Uncounted(r, s) /\ r.mode = s.mode /\ r.knob = s.knob
             /\ r.base = s.base /\ r.good = s.good /\ r.live = s.live
             /\ \A i \in Knobs : i \notin is => r.done[i] = s.done[i]
<1> DEFINE dir == [i \in Knobs |-> IF i \in is THEN -s.dir[i] ELSE s.dir[i]]
           step == [i \in Knobs |-> IF i \in is THEN s.step[i] - 2 ELSE s.step[i]]
           done == [i \in Knobs |-> s.done[i] \/ (i \in is /\ s.step[i] < 2)]
           r == [s EXCEPT !.dir = dir, !.step = step, !.done = done]
<1>1. \A i \in Knobs : s.step[i] \in -2 .. TopLevel /\ s.dir[i] \in {-1, 1} /\ s.done[i] \in BOOLEAN /\ (s.done[i] \/ s.step[i] >= 0)
  BY DEF Typed, tuner_w
<1>2. \A i \in Knobs : step[i] \in -2 .. TopLevel /\ dir[i] \in {-1, 1} /\ done[i] \in BOOLEAN /\ (done[i] \/ step[i] >= 0)
  <2> SUFFICES ASSUME NEW i \in Knobs
               PROVE  step[i] \in -2 .. TopLevel /\ dir[i] \in {-1, 1} /\ done[i] \in BOOLEAN /\ (done[i] \/ step[i] >= 0)
    OBVIOUS
  <2>1. s.step[i] \in Int /\ s.step[i] >= -2 /\ s.step[i] <= TopLevel /\ TopLevel \in Nat
    BY <1>1, TunerAssumption
  <2>2. CASE i \in is
    <3>1. s.step[i] >= 0 /\ ~s.done[i]
      BY <1>1, <2>2
    <3>2. step[i] = s.step[i] - 2 /\ dir[i] = -s.dir[i] /\ done[i] = (s.step[i] < 2)
      BY <1>1, <2>2, <3>1
    <3>3. dir[i] \in {-1, 1}
      BY <1>1, <3>2
    <3>4. step[i] \in -2 .. TopLevel
      BY <2>1, <3>1, <3>2
    <3>5. done[i] \in BOOLEAN /\ (s.step[i] < 2 => done[i])
      BY <3>2
    <3>6. s.step[i] < 2 \/ step[i] >= 0
      BY <2>1, <3>2
    <3> HIDE DEF step, dir, done
    <3> QED
      BY <3>3, <3>4, <3>5, <3>6
  <2>3. CASE i \notin is
    BY <1>1, <2>3
  <2> QED
    BY <2>2, <2>3
<1>3. dir \in [Knobs -> {-1, 1}] /\ step \in [Knobs -> -2 .. TopLevel] /\ done \in [Knobs -> BOOLEAN]
  BY <1>2
<1>4. \A i \in Knobs : i \notin is => done[i] = s.done[i]
  BY <1>1
<1>5. Retreat(s, is) = r
  BY DEF Retreat
<1> HIDE DEF dir, step, done
<1>6. r \in tuner_w
  BY <1>3 DEF Typed, tuner_w
<1>7. /\ r.step = step /\ r.done = done /\ Same(r, s) /\ Uncounted(r, s) /\ r.mode = s.mode /\ r.knob = s.knob
      /\ r.base = s.base /\ r.good = s.good /\ r.live = s.live
  BY DEF Typed, tuner_w, Same, Uncounted
<1> HIDE DEF r
<1> QED
  BY <1>2, <1>4, <1>5, <1>6, <1>7 DEF Typed

-----------------------------------------------------------------------------
(* Starting and ending a probe. *)

\* Some knob that may move is the first one in the order of the walk.
LEMMA FirstExists ==
  ASSUME NEW free \in SUBSET Knobs, free # {}, NEW from \in Knobs
  PROVE  \E i \in free : \A j \in free : (i - from) % K <= (j - from) % K
<1> DEFINE T == {(i - from) % K : i \in free}
<1>1. \A i \in Knobs : (i - from) % K \in Nat
  BY TunerAssumption DEF Knobs
<1>2. T \subseteq Nat /\ T # {}
  BY <1>1
<1> DEFINE Less == {ss \in Nat \X Nat : ss[1] < ss[2]}
<1>3. PICK x \in T : \A y \in T : ~ (<<y, x>> \in Less)
  <2>1. IsWellFoundedOn(Less, Nat)
    BY NatLessThanWellFounded DEF OpToRel
  <2> HIDE DEF T, Less
  <2> QED
    BY <1>2, <2>1, WFMin
<1>4. \A a, b \in Nat : a < b => <<a, b>> \in Less
  <2> TAKE a, b \in Nat
  <2> HAVE a < b
  <2> DEFINE ab == <<a, b>>
  <2>1. ab \in Nat \X Nat /\ ab[1] < ab[2]
    OBVIOUS
  <2> HIDE DEF ab
  <2>2. ab \in Less
    BY <2>1
  <2> QED
    BY <2>2 DEF ab
<1>5. \A y \in T : x <= y
  <2> HIDE DEF T, Less
  <2> TAKE y \in T
  <2>1. x \in Nat /\ y \in Nat
    BY <1>2
  <2>2. ~(y < x)
    BY <2>1, <1>3, <1>4
  <2> QED
    BY <2>1, <2>2
<1> QED
  BY <1>5

\* A probe that started, or a search that found no knob to move.
Begun(r, s) ==
    /\ Typed(r) /\ Same(r, s) /\ r.base = s.base /\ r.good = s.good /\ r.mode \in {"MEASURING", "PROBING"}
    /\ r.mode = "PROBING" => Sound(r) /\ Reset(r)
    /\ r.mode = "MEASURING" => Uncounted(r, s)

LEMMA Walk ==
  ASSUME NEW s, Searching(s), s.base >= ArmN, NEW ok
  PROVE  Begun(WalkKnobs(s, ok), s)
<1> DEFINE tried == {i \in Knobs : ~s.done[i] /\ (is_risky(i, s.dir[i]) => ok)}
           pinned == {i \in tried : ~params_differ(Candidate(s, i), s.good)}
           free == tried \ pinned
           Order(i) == (i - s.knob) % K
           first == CHOOSE i \in free : \A j \in free : Order(i) <= Order(j)
           is == {i \in pinned : \A j \in free : Order(i) < Order(j)}
           t == Retreat(s, is)
           r == WalkKnobs(s, ok)
<1>0. \A i \in is : i \in Knobs /\ ~s.done[i]
  OBVIOUS
<1>1. /\ Typed(t) /\ Same(t, s) /\ Uncounted(t, s) /\ t.mode = "MEASURING" /\ t.base = s.base /\ t.good = s.good
      /\ \A i \in Knobs : i \notin is => t.done[i] = s.done[i]
  <2> HIDE DEF is
  <2> QED
    BY <1>0, Retreated DEF Searching
<1>2. CASE free = {}
  <2>1. r = t
    BY <1>2 DEF WalkKnobs
  <2> HIDE DEF t, r
  <2> QED
    BY <1>1, <2>1 DEF Begun, r
<1>3. CASE free # {}
  <2> DEFINE live == Candidate(s, first)
  <2>1. r = [t EXCEPT !.knob = first, !.live = live, !.trial = 0, !.misses = 0, !.mode = "PROBING"]
    BY <1>3 DEF WalkKnobs
  <2>2. first \in free
    <3>1. \E i \in free : \A j \in free : Order(i) <= Order(j)
      <4>1. free \in SUBSET Knobs /\ s.knob \in Knobs
        BY DEF Searching, Typed, tuner_w
      <4> HIDE DEF free
      <4> QED
        BY <1>3, <4>1, FirstExists
    <3> HIDE DEF free, Order
    <3> QED
      BY <3>1
  <2>3. first \in Knobs /\ ~s.done[first] /\ first \notin is
    <3> HIDE DEF first
    <3> QED
      BY <2>2
  <2> HIDE DEF first, t, is
  <2>4. live \in Point
    <3> DEFINE u == [s EXCEPT !.live = s.good]
               shift == [k \in Params |-> IF k = Knob[first] THEN s.dir[first] ELSE 0]
    <3>1. Typed(u)
      BY DEF Searching, Typed, tuner_w
    <3>2. shift \in [Params -> Int]
      <4>1. s.dir[first] \in Int
        BY <2>3 DEF Searching, Typed, tuner_w
      <4> QED
        BY <4>1
    <3>3. live = Move(u, shift).live
      BY DEF Candidate
    <3> HIDE DEF u, shift
    <3> QED
      BY <3>1, <3>2, <3>3, Moved
  <2> HIDE DEF live
  <2>5. ~t.done[first]
    BY <1>1, <2>3
  <2>6. r \in tuner_w
    <3> HIDE DEF r
    <3> QED
      BY <1>1, <2>1, <2>3, <2>4, Numbers DEF Typed, tuner_w
  <2>7. /\ Same(r, t) /\ Reset(r) /\ r.base = t.base /\ r.good = t.good /\ r.mode = "PROBING" /\ r.knob = first
        /\ r.done = t.done /\ r.step = t.step
    <3> HIDE DEF r
    <3> QED
      BY <1>1, <2>1 DEF Typed, tuner_w, Same, Reset
  <2> HIDE DEF r
  <2>8. Sound(r)
    BY <1>1, <2>3, <2>5, <2>6, <2>7 DEF Sound, Typed, all_done
  <2> QED
    BY <1>1, <2>7, <2>8 DEF Begun, Same, Sound, r
<1> QED
  BY <1>2, <1>3

LEMMA Started ==
  ASSUME NEW s, Searching(s), s.base >= ArmN, NEW r \in start_probe(s)
  PROVE  Begun(r, s)
<1> DEFINE known == [s EXCEPT !.start_known = TRUE]
           done == [i \in Knobs |-> TRUE]
           met == [known EXCEPT !.done = done, !.monitor_ref = TRUE]
<1>1. Searching(known) /\ Same(known, s) /\ Uncounted(known, s) /\ known.base = s.base /\ known.good = s.good
  BY DEF Searching, Typed, tuner_w, Same, Uncounted
<1>2. r = met \/ \E ok \in BOOLEAN : r = WalkKnobs(known, ok)
  BY DEF start_probe
<1>3. done \in [Knobs -> BOOLEAN] /\ \A i \in Knobs : done[i]
  OBVIOUS
<1> HIDE DEF known, done
<1>4. CASE r = met
  <2>1. r \in tuner_w
    BY <1>1, <1>3, <1>4 DEF Searching, Typed, tuner_w
  <2>2. Same(r, known) /\ Uncounted(r, known) /\ r.base = known.base /\ r.good = known.good /\ r.mode = "MEASURING" /\ r.done = done
    BY <1>1, <1>4 DEF Searching, Typed, tuner_w, Same, Uncounted
  <2> QED
    BY <1>1, <1>3, <2>1, <2>2 DEF Begun, Typed, Same, Uncounted
<1>5. CASE \E ok \in BOOLEAN : r = WalkKnobs(known, ok)
  BY <1>1, <1>5, Walk DEF Begun, Same, Uncounted
<1> QED
  BY <1>2, <1>4, <1>5

LEMMA Entered ==
  ASSUME NEW s, Typed(s), all_done(s), NEW r \in enter_monitor(s)
  PROVE  Sound(r) /\ Same(r, s) /\ Uncounted(r, s) /\ r.mode = "CONVERGED"
<1> DEFINE watch(q) == [q EXCEPT !.mode = "CONVERGED", !.base = 0]
           undone == [s EXCEPT !.live = s.anchor, !.good = s.anchor]
<1>1. Typed(undone) /\ all_done(undone) /\ Same(undone, s) /\ Uncounted(undone, s)
  BY DEF Typed, tuner_w, all_done, Same, Uncounted
<1>2. ASSUME NEW q, Typed(q), all_done(q)
      PROVE  LET w == watch(q) IN Sound(w) /\ Same(w, q) /\ Uncounted(w, q) /\ w.mode = "CONVERGED"
  <2> DEFINE w == watch(q)
  <2>1. w \in tuner_w
    BY <1>2, Numbers DEF Typed, tuner_w
  <2>2. Same(w, q) /\ Uncounted(w, q) /\ w.mode = "CONVERGED" /\ w.done = q.done /\ w.step = q.step
    BY <1>2 DEF Typed, tuner_w, Same, Uncounted
  <2> HIDE DEF w
  <2>3. Sound(w)
    BY <1>2, <2>1, <2>2 DEF Sound, Typed, all_done
  <2> QED
    BY <2>2, <2>3 DEF w
<1>3. r = watch(s) \/ r = watch(undone)
  BY DEF enter_monitor
<1>4. Same(s, s) /\ Uncounted(s, s)
  BY DEF Same, Uncounted
<1> HIDE DEF watch, undone
<1> QED
  BY <1>1, <1>2, <1>3, <1>4 DEF Same, Uncounted

LEMMA EnteredIfDone ==
  ASSUME NEW s, Searching(s), NEW r \in EnterIfDone(s)
  PROVE  Sound(r) /\ Same(r, s) /\ Uncounted(r, s) /\ r.mode # "PROBING"
<1>1. CASE all_done(s)
  BY <1>1, Entered DEF EnterIfDone, Searching
<1>2. CASE ~all_done(s)
  BY <1>2 DEF EnterIfDone, Searching, Sound, Same, Uncounted
<1> QED
  BY <1>1, <1>2

LEMMA Kept ==
  ASSUME NEW s, Typed(s), s.init, s.trial >= ArmN, NEW r \in Keep(s)
  PROVE  Ended(r) /\ Same(r, s)
<1> DEFINE step == [s.step EXCEPT ![s.knob] = IF @ < TopLevel THEN @ + 1 ELSE @]
           kept == [s EXCEPT !.good = s.live, !.base = s.trial, !.trial = 0, !.misses = 0,
                             !.step = step, !.mode = "MEASURING"]
<1>1. step \in [Knobs -> -2 .. TopLevel] /\ \A i \in Knobs : s.done[i] \/ step[i] >= 0
  <2>1. s.step \in [Knobs -> -2 .. TopLevel] /\ s.knob \in Knobs /\ \A i \in Knobs : s.done[i] \/ s.step[i] >= 0
    BY DEF Typed, tuner_w
  <2>2. ASSUME NEW i \in Knobs PROVE step[i] \in -2 .. TopLevel /\ step[i] >= s.step[i]
    <3> DEFINE x == s.step[i]
    <3>1. x \in Int /\ x >= -2 /\ x <= TopLevel /\ TopLevel \in Nat
      BY <2>1, TunerAssumption
    <3>2. step[i] = IF i = s.knob /\ x < TopLevel THEN x + 1 ELSE x
      BY <2>1
    <3> HIDE DEF x, step
    <3>3. step[i] \in -2 .. TopLevel /\ step[i] >= x
      BY <3>1, <3>2
    <3> QED
      BY <3>3 DEF x
  <2>3. ASSUME NEW i \in Knobs PROVE s.done[i] \/ step[i] >= 0
    <3>1. s.step[i] \in Int /\ step[i] \in Int
      BY <2>1, <2>2
    <3> HIDE DEF step
    <3> QED
      BY <2>1, <2>2, <3>1
  <2> QED
    BY <2>1, <2>2, <2>3
<1> HIDE DEF step
<1>2. kept \in tuner_w
  <2>1. s.trial \in 0 .. ArmMax
    BY Numbers DEF Typed, tuner_w
  <2> QED
    BY <1>1, <2>1, Numbers DEF Typed, tuner_w
<1>3. /\ kept.mode = "MEASURING" /\ kept.step = step /\ kept.done = s.done /\ kept.base = s.trial /\ Same(kept, s)
      /\ kept.good = s.live /\ kept.trial = 0 /\ kept.misses = 0
  BY DEF Typed, tuner_w, Same
<1>4. PICK q \in start_probe(kept) : r \in (IF q.mode = "PROBING" THEN {q} ELSE EnterIfDone([q EXCEPT !.live = q.good]))
  BY DEF Keep, step
<1> HIDE DEF kept
<1>5. Searching(kept) /\ kept.base >= ArmN
  BY <1>1, <1>2, <1>3 DEF Searching, Typed
<1>6. Begun(q, kept)
  BY <1>4, <1>5, Started
<1>7. 0 <= ArmN - 1 /\ 0 <= 2
  BY TunerAssumption
<1>8. CASE q.mode = "PROBING"
  <2>1. r = q
    BY <1>4, <1>8
  <2> QED
    BY <1>3, <1>6, <1>7, <1>8, <2>1 DEF Begun, Ended, Same, Reset
<1>9. CASE q.mode # "PROBING"
  <2> DEFINE u == [q EXCEPT !.live = q.good]
  <2>1. Searching(u) /\ Same(u, q) /\ Uncounted(u, q)
    BY <1>6, <1>9 DEF Begun, Searching, Typed, tuner_w, Same, Uncounted
  <2>2. r \in EnterIfDone(u)
    BY <1>4, <1>9
  <2> HIDE DEF u
  <2>3. Sound(r) /\ Same(r, u) /\ Uncounted(r, u) /\ r.mode # "PROBING"
    BY <2>1, <2>2, EnteredIfDone
  <2> QED
    BY <1>3, <1>6, <1>7, <1>9, <2>1, <2>3 DEF Begun, Ended, Same, Uncounted
<1> QED
  BY <1>8, <1>9

LEMMA Reverted ==
  ASSUME NEW s, Typed(s), s.init, ~s.done[s.knob], NEW r \in Revert(s)
  PROVE  Ended(r) /\ Same(r, s)
<1> DEFINE t == Retreat(s, {s.knob})
           next == (s.knob % K) + 1
           back == [t EXCEPT !.live = s.good, !.trial = 0, !.misses = 0, !.knob = next, !.mode = "MEASURING"]
<1>1. Typed(t) /\ Same(t, s)
  <2>1. \A i \in {s.knob} : i \in Knobs /\ ~s.done[i]
    BY DEF Typed, tuner_w
  <2> QED
    BY <2>1, Retreated
<1>2. next \in Knobs
  <2> DEFINE k == s.knob
             m == k % K
  <2>1. k \in Int /\ K \in Int /\ K > 0
    BY TunerAssumption DEF Typed, tuner_w, Knobs
  <2>2. m \in 0 .. K - 1
    <3> HIDE DEF k
    <3> QED
      BY <2>1
  <2> HIDE DEF m
  <2>3. m + 1 \in 1 .. K
    BY <2>1, <2>2
  <2> QED
    BY <2>3 DEF m, Knobs
<1>3. r \in EnterIfDone(back)
  BY DEF Revert
<1>4. s.good \in Point
  BY DEF Typed, tuner_w
<1> HIDE DEF t, next
<1>5. back \in tuner_w
  BY <1>1, <1>2, <1>4, Numbers DEF Typed, tuner_w
<1>6. back.mode = "MEASURING" /\ Reset(back) /\ Same(back, t) /\ back.done = t.done /\ back.step = t.step
  BY <1>1 DEF Typed, tuner_w, Same, Reset
<1> HIDE DEF back
<1>7. Searching(back)
  BY <1>1, <1>5, <1>6 DEF Searching, Typed
<1>8. Sound(r) /\ Same(r, back) /\ Uncounted(r, back) /\ r.mode # "PROBING"
  BY <1>3, <1>7, EnteredIfDone
<1> QED
  BY <1>1, <1>6, <1>8, TunerAssumption DEF Ended, Same, Uncounted, Reset

LEMMA ProbeFinished ==
  ASSUME NEW s, Typed(s), s.init, ~s.done[s.knob], s.trial >= ArmN \/ s.misses >= reject_misses,
         NEW r \in finish_probe(s)
  PROVE  Ended(r) /\ Same(r, s)
<1>1. r \in Revert(s) \/ (~(s.misses >= reject_misses) /\ r \in Keep(s))
  BY DEF finish_probe
<1> QED
  BY <1>1, Kept, Reverted

-----------------------------------------------------------------------------
(* One throw. *)

\* A backoff and the landing law move parameters within the limits and may forget the
\* baseline.
Tuned(r, s) == Typed(r) /\ Alike(r, s) /\ r.base <= s.base

LEMMA NudgedIs ==
  ASSUME NEW s, Typed(s), NEW result, NEW r \in Nudged(s, result)
  PROVE  Tuned(r, s)
<1>1. PICK long \in BOOLEAN : r = nudge_for_over(s, long)
  BY DEF Nudged
<1> DEFINE t == IF long THEN Move(s, Shift({"handoff"}, {"coarse_max"})) ELSE Move(s, Shift({}, {"fine_min", "fine_kp"}))
<1>2. Typed(t) /\ Alike(t, s) /\ t.live \in Point
  BY Moved, ShiftIs
<1>3. r = [t EXCEPT !.good = t.live, !.base = 0]
  BY <1>1 DEF nudge_for_over
<1> HIDE DEF t
<1>4. Typed(r)
  BY <1>2, <1>3, Numbers DEF Typed, tuner_w
<1>5. Alike(r, t) /\ r.good = t.live /\ r.base = 0
  BY <1>2, <1>3 DEF Typed, tuner_w, Alike, Same, Uncounted
<1>6. 0 <= s.base
  BY DEF Typed, tuner_w
<1> QED
  BY <1>2, <1>4, <1>5, <1>6 DEF Tuned, Alike, Same, Uncounted

LEMMA LandedIs ==
  ASSUME NEW s, Typed(s), NEW result, NEW r \in Landed(s, result)
  PROVE  Tuned(r, s)
<1>1. Tuned(s, s)
  BY DEF Tuned, Alike, Same, Uncounted, Typed, tuner_w
<1>2. CASE r = s
  BY <1>1, <1>2
<1>3. CASE r # s
  <2>1. r \in landing_law(s)
    BY <1>3 DEF Landed
  <2>2. PICK d \in {Shift({"fine_min"}, {}), Shift({}, {"fine_min"})} :
          LET t == Move(s, d)
              u == [t EXCEPT !.good["fine_min"] = t.live["fine_min"]]
          IN r \in {u, [u EXCEPT !.base = 0]}
    BY <1>3, <2>1 DEF landing_law
  <2> DEFINE t == Move(s, d)
             good == [t.good EXCEPT !["fine_min"] = t.live["fine_min"]]
             u == [t EXCEPT !.good = good]
  <2>3. Typed(t) /\ Alike(t, s) /\ t.base = s.base /\ t.good = s.good /\ t.live \in Point
    BY Moved, ShiftIs
  <2>4. r = u \/ r = [u EXCEPT !.base = 0]
    BY <2>2
  <2> HIDE DEF t
  <2>5. good \in Point
    BY <2>3 DEF Typed, tuner_w, Point
  <2> HIDE DEF good
  <2>6. Typed(u) /\ Alike(u, t) /\ u.base = t.base /\ u.good = good
    BY <2>3, <2>5 DEF Typed, tuner_w, Alike, Same, Uncounted
  <2> HIDE DEF u
  <2>7. ASSUME NEW n \in {u.base, 0}, r = [u EXCEPT !.base = n]
        PROVE  Typed(r) /\ Alike(r, u) /\ r.base = n /\ r.good = good
    BY <2>6, <2>7, Numbers DEF Typed, tuner_w, Alike, Same, Uncounted
  <2>8. u = [u EXCEPT !.base = u.base]
    BY <2>6 DEF Typed, tuner_w
  <2>9. s.base >= 0 /\ s.base \in Int
    BY DEF Typed, tuner_w
  <2>10. PICK n \in {u.base, 0} : r = [u EXCEPT !.base = n]
    BY <2>4, <2>8
  <2> QED
    BY <2>3, <2>5, <2>6, <2>7, <2>9, <2>10 DEF Tuned, Alike, Same, Uncounted
<1> QED
  BY <1>2, <1>3

\* A tuner after a nudge or the landing law is what it was: nothing but parameters moved.
LEMMA TunedIsSound ==
  ASSUME NEW s, Sound(s), s.mode # "PROBING", NEW p, Typed(p), Alike(p, s)
  PROVE  Sound(p)
  BY DEF Alike, Same, Uncounted, Sound, all_done

LEMMA MeasuringEnds ==
  ASSUME NEW s, Sound(s), s.init, s.mode = "MEASURING", s.trial <= ArmN - 1, s.misses <= 2,
         NEW result, NEW r \in Measuring(s, result)
  PROVE  Ended(r) /\ Same(r, s)
<1> DEFINE more == arm_add(s.base)
           added == [s EXCEPT !.base = more]
           Waited(q) == [q EXCEPT !.wait = IF @ > 0 THEN @ - 1 ELSE 0]
           Probe(p) == IF p.base < ArmN \/ p.wait > 0 THEN {p}
                       ELSE UNION {IF q.mode = "PROBING" THEN {q}
                                   ELSE IF all_done(q) THEN enter_monitor(q)
                                   ELSE {[q EXCEPT !.wait = Wait]} : q \in start_probe(p)}
<1>1. Typed(s) /\ ~all_done(s) /\ s.base \in 0 .. ArmMax
  BY DEF Sound, Typed, tuner_w
<1>2. ASSUME NEW p, Typed(p), Alike(p, s) PROVE Ended(p)
  BY <1>1, <1>2, TunedIsSound DEF Alike, Same, Uncounted, Ended
<1>3. r \in Nudged(s, result) \/ \E p \in Landed(added, result) : r \in Probe(Waited(p))
  BY DEF Measuring
<1>4. CASE r \in Nudged(s, result)
  BY <1>1, <1>2, <1>4, NudgedIs DEF Tuned, Alike
<1>5. ASSUME NEW p \in Landed(added, result), r \in Probe(Waited(p)) PROVE Ended(r) /\ Same(r, s)
  <2>1. more \in 0 .. ArmMax /\ more <= s.base + 1
    BY <1>1, Numbers
  <2> HIDE DEF more
  <2>2. Typed(added) /\ Alike(added, s) /\ added.base = more /\ added.good = s.good
    BY <1>1, <2>1 DEF Typed, tuner_w, Alike, Same, Uncounted
  <2> HIDE DEF added
  <2>3. Tuned(p, added)
    BY <2>2, LandedIs
  <2> DEFINE m == IF p.wait > 0 THEN p.wait - 1 ELSE 0
             w == [p EXCEPT !.wait = m]
  <2>4. m \in 0 .. Wait
    <3> DEFINE n == p.wait
    <3>1. n \in 0 .. Wait /\ Wait \in Nat
      BY <2>3, TunerAssumption DEF Tuned, Typed, tuner_w
    <3> HIDE DEF n
    <3>2. (IF n > 0 THEN n - 1 ELSE 0) \in 0 .. Wait
      BY <3>1
    <3> QED
      BY <3>2 DEF n
  <2>5. Waited(p) = w
    OBVIOUS
  <2> HIDE DEF m
  <2>6. Typed(w) /\ Alike(w, p) /\ w.base = p.base /\ w.good = p.good
    BY <2>3, <2>4 DEF Tuned, Typed, tuner_w, Alike, Same, Uncounted
  <2>7. r \in Probe(w)
    BY <1>5, <2>5
  <2> HIDE DEF w
  <2>8. Alike(w, s) /\ w.base \in 0 .. ArmMax /\ w.base <= s.base + 1
    <3>1. Alike(w, s)
      BY <2>2, <2>3, <2>6 DEF Tuned, Alike, Same, Uncounted
    <3>2. w.base \in 0 .. ArmMax /\ p.base <= added.base
      BY <2>3, <2>6 DEF Tuned, Typed, tuner_w
    <3> QED
      BY <1>1, <2>1, <2>2, <2>6, <3>1, <3>2
  <2>9. Ended(w) /\ Searching(w)
    BY <1>2, <2>6, <2>8 DEF Searching, Alike
  <2>10. CASE w.base < ArmN \/ w.wait > 0
    BY <2>7, <2>8, <2>9, <2>10 DEF Alike
  <2>11. CASE ~(w.base < ArmN \/ w.wait > 0)
    <3>1. PICK q \in start_probe(w) : r \in (IF q.mode = "PROBING" THEN {q} ELSE IF all_done(q) THEN enter_monitor(q)
                                              ELSE {[q EXCEPT !.wait = Wait]})
      BY <2>7, <2>11
    <3>2. w.base >= ArmN
      BY <2>8, <2>11, TunerAssumption
    <3>3. Begun(q, w)
      BY <2>9, <3>2, Started
    <3>5. Same(q, s)
      BY <2>8, <3>3 DEF Begun, Alike, Same
    <3>6. CASE q.mode = "PROBING"
      <4>1. r = q
        BY <3>1, <3>6
      <4>3. Sound(q) /\ Reset(q)
        BY <3>3, <3>6 DEF Begun
      <4>4. r.init /\ r.trial <= ArmN - 1 /\ r.misses <= 2
        <5>1. 0 <= ArmN - 1
          BY TunerAssumption
        <5>2. q.init /\ q.trial = 0 /\ q.misses = 0
          BY <3>5, <4>3 DEF Reset, Same
        <5> QED
          BY <4>1, <5>1, <5>2
      <4> QED
        BY <3>5, <4>1, <4>3, <4>4 DEF Ended
    <3>7. CASE q.mode # "PROBING"
      <4>1. Uncounted(q, s) /\ Typed(q) /\ q.mode = "MEASURING"
        BY <2>8, <3>3, <3>7 DEF Begun, Alike, Uncounted
      <4>2. CASE all_done(q)
        <5>1. Sound(r) /\ Same(r, q) /\ Uncounted(r, q) /\ r.mode = "CONVERGED"
          BY <3>1, <3>7, <4>1, <4>2, Entered
        <5> QED
          BY <3>5, <4>1, <5>1 DEF Ended, Same, Uncounted
      <4>3. CASE ~all_done(q)
        <5>1. r = [q EXCEPT !.wait = Wait]
          BY <3>1, <3>7, <4>3
        <5>2. Typed(r) /\ Alike(r, q)
          BY <4>1, <5>1, Numbers DEF Typed, tuner_w, Alike, Same, Uncounted
        <5> QED
          BY <3>5, <4>1, <4>3, <5>2 DEF Ended, Sound, all_done, Alike, Same, Uncounted
      <4> QED
        BY <4>2, <4>3
    <3> QED
      BY <3>6, <3>7
  <2> QED
    BY <2>10, <2>11
<1> QED
  BY <1>3, <1>4, <1>5

LEMMA ProbingEnds ==
  ASSUME NEW s, Sound(s), s.init, s.mode = "PROBING", s.trial <= ArmN - 1, s.misses <= 2,
         NEW result, NEW r \in Probing(s, result)
  PROVE  Ended(r) /\ Same(r, s)
<1> DEFINE missed == s.misses + (IF result = "PASS" THEN 0 ELSE 1)
           Added(m) == [s EXCEPT !.trial = @ + 1, !.misses = m]
<1>0. Typed(s) /\ s.misses \in 0 .. 3 /\ s.trial \in 0 .. ArmN /\ ArmN \in Nat
  BY TunerAssumption DEF Sound, Typed, tuner_w
<1>1. PICK m \in {missed, reject_misses} :
        r \in (IF s.trial + 1 >= ArmN \/ m >= reject_misses THEN finish_probe(Added(m)) ELSE {Added(m)})
  BY DEF Probing
<1>2. m \in 0 .. 3 /\ reject_misses \in 2 .. 3 /\ s.trial + 1 \in 0 .. ArmN
  <2>1. reject_misses \in 2 .. 3
    BY DEF reject_misses
  <2>2. missed \in 0 .. 3
    BY <1>0
  <2> HIDE DEF missed
  <2> QED
    BY <1>0, <2>1, <2>2
<1> DEFINE n == s.trial + 1
           a == [s EXCEPT !.trial = n, !.misses = m]
<1>3. Added(m) = a
  OBVIOUS
<1> HIDE DEF n, Added
<1>4. /\ Typed(a) /\ Same(a, s) /\ a.mode = s.mode /\ a.base = s.base /\ a.knob = s.knob /\ a.done = s.done
      /\ a.trial = n /\ a.misses = m /\ a.good = s.good /\ a.live = s.live
  BY <1>0, <1>2 DEF Typed, tuner_w, Same, n
<1>5. r \in (IF n >= ArmN \/ m >= reject_misses THEN finish_probe(a) ELSE {a})
  BY <1>1, <1>3 DEF n
<1> HIDE DEF a
<1>6. ~a.done[a.knob] /\ a.init
  BY <1>4 DEF Sound, Same
<1>7. CASE n >= ArmN \/ m >= reject_misses
  <2>1. Ended(r) /\ Same(r, a)
    BY <1>4, <1>5, <1>6, <1>7, ProbeFinished
  <2> QED
    BY <1>4, <2>1 DEF Same
<1>8. CASE ~(n >= ArmN \/ m >= reject_misses)
  <2>1. r = a
    BY <1>5, <1>8
  <2>2. n <= ArmN - 1 /\ m <= 2
    BY <1>0, <1>2, <1>8 DEF n
  <2>3. Sound(a)
    BY <1>4 DEF Sound, all_done
  <2> QED
    BY <1>4, <1>6, <2>1, <2>2, <2>3 DEF Ended
<1> QED
  BY <1>7, <1>8

LEMMA ConvergedEnds ==
  ASSUME NEW s, Sound(s), s.init, s.mode = "CONVERGED", s.trial <= ArmN - 1, s.misses <= 2,
         NEW result, NEW r \in Converged(s, result)
  PROVE  Ended(r) /\ Same(r, s)
<1> DEFINE Added(q) == [q EXCEPT !.base = arm_add(@)]
<1>1. Typed(s) /\ Alike(s, s)
  BY DEF Sound, Alike, Same, Uncounted
<1>2. PICK p, q : /\ q \in {s} \union Nudged(s, result)
                  /\ p \in Landed(Added(q), result)
                  /\ r \in (IF p.base >= MonitorN THEN Drift(p) ELSE {p})
  BY DEF Converged
<1>3. Typed(q) /\ Alike(q, s)
  BY <1>1, <1>2, NudgedIs DEF Tuned
<1>4. Typed(Added(q)) /\ Alike(Added(q), s)
  <2> DEFINE n == arm_add(q.base)
             a == [q EXCEPT !.base = n]
  <2>1. n \in 0 .. ArmMax
    BY <1>3, Numbers DEF Typed, tuner_w
  <2>2. Added(q) = a
    OBVIOUS
  <2> HIDE DEF n
  <2>3. Typed(a) /\ Alike(a, q)
    BY <1>3, <2>1 DEF Typed, tuner_w, Alike, Same, Uncounted
  <2> QED
    BY <1>3, <2>2, <2>3 DEF Alike, Same, Uncounted
<1> HIDE DEF Added
<1>5. Typed(p) /\ Alike(p, s)
  BY <1>2, <1>4, LandedIs DEF Tuned, Alike, Same, Uncounted
<1>6. ASSUME NEW x, Typed(x), Alike(x, s) PROVE Ended(x) /\ Same(x, s)
  BY <1>6, TunedIsSound DEF Ended, Alike, Same, Uncounted
<1>7. CASE r = p
  BY <1>5, <1>6, <1>7
<1>8. CASE r \in Drift(p)
  <2> DEFINE t == Move(p, Shift({"handoff"}, {"fine_min"}))
             u == [t EXCEPT !.good = t.live]
             v == [p EXCEPT !.monitor_ref = FALSE]
  <2>1. Typed(t) /\ Alike(t, p) /\ t.live \in Point
    BY <1>5, Moved, ShiftIs
  <2>2. \/ r = reopen_search(u) \/ r = reopen_search(v)
        \/ \E ref \in BOOLEAN : r = [p EXCEPT !.monitor_ref = ref, !.base = 0]
    <3>1. p = [p EXCEPT !.monitor_ref = p.monitor_ref] /\ p.monitor_ref \in BOOLEAN
      BY <1>5 DEF Typed, tuner_w
    <3>2. [p EXCEPT !.base = 0] = [p EXCEPT !.monitor_ref = p.monitor_ref, !.base = 0]
      BY <1>5 DEF Typed, tuner_w
    <3> QED
      BY <1>8, <3>1, <3>2 DEF Drift
  <2> HIDE DEF t
  <2>3. Typed(u) /\ Same(u, p) /\ Typed(v) /\ Same(v, p)
    BY <1>5, <2>1 DEF Typed, tuner_w, Alike, Same
  <2> HIDE DEF u, v
  <2>4. CASE r = reopen_search(u) \/ r = reopen_search(v)
    <3>1. Sound(r) /\ r.mode = "MEASURING" /\ Same(r, p) /\ Reset(r)
      BY <2>3, <2>4, Reopened DEF Same
    <3> QED
      BY <1>5, <3>1, TunerAssumption DEF Ended, Alike, Same, Reset
  <2>5. CASE \E ref \in BOOLEAN : r = [p EXCEPT !.monitor_ref = ref, !.base = 0]
    <3>1. PICK ref \in BOOLEAN : r = [p EXCEPT !.monitor_ref = ref, !.base = 0]
      BY <2>5
    <3>2. Typed(r) /\ Alike(r, p)
      BY <1>5, <3>1, Numbers DEF Typed, tuner_w, Alike, Same, Uncounted
    <3>3. Alike(r, s)
      BY <1>5, <3>2 DEF Alike, Same, Uncounted
    <3> QED
      BY <1>6, <3>2, <3>3
  <2> QED
    BY <2>2, <2>4, <2>5
<1> QED
  BY <1>2, <1>7, <1>8

\* The whole throw.
LEMMA Observed ==
  ASSUME NEW s, Settled(s), NEW result, NEW r \in tuner_observe(s, result)
  PROVE  /\ Settled(r)
         /\ s.mode = "PROBING" /\ r.anchor # s.anchor =>
              \A k \in Params : Differ(s.seen[k], s.good[k]) => r.anchor[k] # s.seen[k]
<1> DEFINE live == [k \in Params |-> IF Equal(s.live[k], s.seen[k]) THEN s.good[k] ELSE s.live[k]]
           b == PutBack(s)
           t == Anchored(b)
<1>1. Sound(s) /\ Typed(s) /\ s.trial <= ArmN - 1 /\ s.misses <= 2
  BY DEF Settled, Sound
<1>2. b = (IF Untested(s) THEN [s EXCEPT !.live = live] ELSE s)
  BY DEF PutBack
<1>3. live \in Point
  BY <1>1 DEF Typed, tuner_w, Point
<1>4. \A k \in Params : Differ(s.seen[k], s.good[k]) => live[k] # s.seen[k]
  BY DEF Differ, Equal
<1> HIDE DEF live
<1>5. /\ Typed(b) /\ Alike(b, s) /\ b.base = s.base /\ b.good = s.good /\ b.seen = s.seen
      /\ b.live = IF Untested(s) THEN live ELSE s.live
  BY <1>1, <1>2, <1>3 DEF Typed, tuner_w, Alike, Same, Uncounted
<1>6. Sound(b)
  BY <1>1, <1>5 DEF Sound, Alike, Same, Uncounted, all_done
<1> HIDE DEF b
<1>7. /\ Sound(t) /\ t.init /\ t.trial <= ArmN - 1 /\ t.misses <= 2
      /\ s.mode = "PROBING" /\ t.anchor # s.anchor =>
           \A k \in Params : Differ(s.seen[k], s.good[k]) => t.anchor[k] # s.seen[k]
  <2>1. CASE ~b.init \/ params_differ(b.live, b.seen)
    <3>1. t = anchor_to(b)
      BY <2>1 DEF Anchored
    <3>2. Sound(t) /\ t.mode = "MEASURING" /\ t.init /\ t.anchor = b.live /\ t.base = 0 /\ Reset(t)
      BY <1>5, <3>1, Anchor
    <3>3. s.mode = "PROBING" => b.live = live
      BY <1>5, <2>1 DEF Settled, Untested, Alike, Same
    <3> HIDE DEF t
    <3> QED
      <4>1. t.trial <= ArmN - 1 /\ t.misses <= 2
        BY <3>2, TunerAssumption DEF Reset
      <4>2. s.mode = "PROBING" => t.anchor = live
        BY <3>2, <3>3
      <4> QED
        BY <1>4, <3>2, <4>1, <4>2
  <2>2. CASE b.init /\ ~params_differ(b.live, b.seen)
    <3>1. t = b
      BY <2>2 DEF Anchored
    <3> HIDE DEF t
    <3> QED
      BY <1>1, <1>5, <1>6, <2>2, <3>1 DEF Alike, Same, Uncounted
  <2> QED
    BY <2>1, <2>2
<1>8. PICK q \in CASE t.mode = "MEASURING" -> Measuring(t, result)
                   [] t.mode = "PROBING" -> Probing(t, result)
                   [] t.mode = "CONVERGED" -> Converged(t, result) : r = Left(q)
  BY DEF tuner_observe, b
<1> HIDE DEF t
<1>9. Ended(q) /\ Same(q, t)
  <2>1. t.mode \in {"MEASURING", "PROBING", "CONVERGED"}
    BY <1>7 DEF Sound, Typed, tuner_w
  <2>2. CASE t.mode = "MEASURING"
    BY <1>7, <1>8, <2>2, MeasuringEnds
  <2>3. CASE t.mode = "PROBING"
    BY <1>7, <1>8, <2>3, ProbingEnds
  <2>4. CASE t.mode = "CONVERGED"
    BY <1>7, <1>8, <2>4, ConvergedEnds
  <2> QED
    BY <2>1, <2>2, <2>3, <2>4
<1> DEFINE c == clamp_params(q)
           good == IF q.mode = "PROBING" THEN c.good ELSE c.live
<1>10. Typed(c) /\ Alike(c, q) /\ c.base = q.base /\ c.good = q.good /\ Within(c, c.live)
  BY <1>9, Clamp DEF Ended, Sound
<1>11. r = [c EXCEPT !.good = good, !.seen = c.live]
  BY <1>8, <1>10 DEF Left, Typed, tuner_w
<1> HIDE DEF c
<1>12. good \in Point
  BY <1>10 DEF Typed, tuner_w
<1> HIDE DEF good
<1>13. Typed(r) /\ Alike(r, c) /\ r.base = c.base /\ r.good = good /\ r.seen = c.live
  BY <1>10, <1>11, <1>12 DEF Typed, tuner_w, Alike, Same, Uncounted
<1>14. Alike(r, q) /\ r.base = q.base
  BY <1>10, <1>13 DEF Alike, Same, Uncounted
<1>15. Settled(r)
  <2>1. Sound(r)
    BY <1>9, <1>13, <1>14 DEF Ended, Sound, Alike, Same, Uncounted, all_done
  <2>2. Within(r, r.seen)
    BY <1>10, <1>13 DEF Within, Alike, Same
  <2> QED
    BY <1>9, <1>14, <2>1, <2>2 DEF Settled, Ended, Alike, Same, Uncounted
<1>16. r.anchor = t.anchor
  BY <1>9, <1>14 DEF Alike, Same
<1> QED
  BY <1>7, <1>15, <1>16

-----------------------------------------------------------------------------
(* The theorems. *)

Parameters ==
    /\ profile \in [Profiles -> [OwnParams -> Value]] /\ handoff \in Value
    /\ selected \in Profiles /\ profile_idx \in Profiles \union {NoProfile}
    /\ learning \in BOOLEAN /\ aggressive \in BOOLEAN
IInv ==
    /\ DOMAIN tuner = Profiles /\ tuner = [f \in Profiles |-> tuner[f]]
    /\ \A f \in Profiles : Settled(tuner[f])
    /\ Parameters

\* A throw finds a tuner with the parameters of the profile that is selected by now.
LEMMA LiveIsPoint == IInv => \A f \in Profiles : Live(f) \in Point
  BY DEF IInv, Parameters, Live, Point, OwnParams

LEMMA Overwritten ==
  ASSUME NEW s, Settled(s), NEW p \in Point
  PROVE  LET t == [s EXCEPT !.live = p]
         IN Settled(t) /\ Same(t, s) /\ t.mode = s.mode /\ t.seen = s.seen /\ t.good = s.good
<1> DEFINE t == [s EXCEPT !.live = p]
<1>1. Typed(t) /\ Alike(t, s) /\ t.base = s.base /\ t.good = s.good /\ t.seen = s.seen
  BY DEF Settled, Sound, Typed, tuner_w, Alike, Same, Uncounted
<1> HIDE DEF t
<1>2. Sound(t)
  BY <1>1 DEF Settled, Sound, Alike, Same, Uncounted, all_done
<1>3. Settled(t)
  BY <1>1, <1>2 DEF Settled, Alike, Same, Uncounted, Within
<1> QED
  BY <1>1, <1>3 DEF Alike, t

LEMMA InitSettled == Init => IInv
<1> SUFFICES ASSUME Init PROVE IInv
  OBVIOUS
<1> DEFINE r == tuner_init
<1>1. /\ r.mode = "MEASURING" /\ r.knob = 1 /\ r.base = 0 /\ r.trial = 0 /\ r.misses = 0 /\ r.init = FALSE
      /\ r.done = [i \in Knobs |-> FALSE] /\ r.step = StartLevel
  BY DEF tuner_init
<1>2. [i \in Knobs |-> 1] \in [Knobs -> {-1, 1}] /\ [i \in Knobs |-> FALSE] \in [Knobs -> BOOLEAN]
      /\ StartLevel \in [Knobs -> -2 .. TopLevel] /\ \A i \in Knobs : StartLevel[i] >= 0
  BY TunerAssumption DEF Knobs
<1>3. Origin \in Point
  BY DEF Origin, Point, Value
<1>4. r \in tuner_w
  BY <1>2, <1>3, Numbers DEF tuner_init, tuner_w
<1> HIDE DEF r
<1>5. Sound(r)
  BY <1>1, <1>2, <1>4, Numbers DEF Sound, Typed, all_done
<1>6. Settled(r)
  BY <1>1, <1>5, TunerAssumption DEF Settled
<1>7. tuner = [f \in Profiles |-> r]
  BY DEF Init, r
<1>8. Parameters
  BY DEF Init, Parameters, Value
<1> QED
  BY <1>6, <1>7, <1>8 DEF IInv

LEMMA NextSettled == IInv /\ [Next]_vars => IInv'
<1> SUFFICES ASSUME IInv, [Next]_vars PROVE IInv'
  OBVIOUS
<1> USE DEF IInv
<1>1. CASE BeginRecord
  BY <1>1 DEF BeginRecord, settings, Parameters
<1>2. ASSUME NEW finite \in BOOLEAN, learn_post_throw(finite) PROVE IInv'
  <2>1. CASE ~learning \/ ~finite
    BY <1>2, <2>1 DEF learn_post_throw, Parameters
  <2>2. CASE learning /\ finite
    <3>1. profile_idx \in Profiles
      BY <1>2 DEF learn_post_throw, Parameters
    <3> DEFINE s == [tuner[profile_idx] EXCEPT !.live = Live(selected)]
    <3>2. PICK result \in {"PASS", "OVER", "UNDER"} : \E r \in tuner_observe(s, result) :
               /\ tuner' = [tuner EXCEPT ![profile_idx] = r]
               /\ profile' = [profile EXCEPT ![selected] = [k \in OwnParams |-> r.live[k]]]
               /\ handoff' = r.live["handoff"]
      BY <1>2, <2>2 DEF learn_post_throw
    <3>3. PICK r \in tuner_observe(s, result) :
               /\ tuner' = [tuner EXCEPT ![profile_idx] = r]
               /\ profile' = [profile EXCEPT ![selected] = [k \in OwnParams |-> r.live[k]]]
               /\ handoff' = r.live["handoff"]
      BY <3>2
    <3>4. Settled(s)
      BY <3>1, LiveIsPoint, Overwritten DEF Parameters
    <3> HIDE DEF s
    <3>5. Settled(r)
      BY <3>3, <3>4, Observed
    <3>6. r.live \in Point
      BY <3>5 DEF Settled, Sound, Typed, tuner_w
    <3>7. profile_idx' = NoProfile /\ UNCHANGED <<selected, learning, aggressive>>
      BY <1>2 DEF learn_post_throw
    <3>8. profile' \in [Profiles -> [OwnParams -> Value]] /\ handoff' \in Value
      BY <3>3, <3>6, TunerAssumption DEF Parameters, Point, OwnParams
    <3>9. Parameters'
      BY <3>7, <3>8 DEF Parameters
    <3> QED
      BY <3>3, <3>5, <3>9
  <2> QED
    BY <2>1, <2>2
<1>3. CASE \E f \in Profiles : profile_select(f)
  BY <1>3 DEF profile_select, Parameters
<1>4. CASE \E e \in Edits : http_rest_profile_config(e[1], e[2]) \/ http_rest_charge_mode_config(e[1], e[2])
  <2>1. PICK e \in Edits : http_rest_profile_config(e[1], e[2]) \/ http_rest_charge_mode_config(e[1], e[2])
    BY <1>4
  <2>2. e[1] \in Params /\ e[2] \in Value
    BY TunerAssumption DEF Value
  <2>3. UNCHANGED <<tuner, selected, learning, aggressive, profile_idx>> /\ handoff' \in {handoff, e[2]}
        /\ (profile' = profile \/ (e[1] \in OwnParams /\ profile' = [profile EXCEPT ![selected][e[1]] = e[2]]))
    BY <2>1, <2>2 DEF http_rest_profile_config, http_rest_charge_mode_config, OwnParams
  <2>4. profile' \in [Profiles -> [OwnParams -> Value]]
    BY <2>2, <2>3 DEF Parameters
  <2> QED
    BY <2>2, <2>3, <2>4 DEF Parameters
<1>5. CASE charge_mode_learn_set_suppressed
  BY <1>5 DEF charge_mode_learn_set_suppressed, Parameters
<1>6. CASE http_rest_learn_config
  BY <1>6 DEF http_rest_learn_config, Parameters
<1>7. CASE UNCHANGED vars
  BY <1>7 DEF vars, settings, Parameters
<1> QED
  BY <1>1, <1>2, <1>3, <1>4, <1>5, <1>6, <1>7 DEF Next, Throw, Outside

\* The inductive invariant.
THEOREM Invariance == Spec => []IInv
  BY InitSettled, NextSettled, PTL DEF Spec

\* Every tuner keeps its type, and every number it left behind is below the widest limits
\* it can have, whatever probes, nudges, reverts and edits came before, edits to NaN among
\* them (tuner_observe, clamp_params).
THEOREM TypeCorrect == Spec => []TypeOK
<1>1. IInv => TypeOK
  <2> SUFFICES ASSUME IInv PROVE TypeOK
    OBVIOUS
  <2>1. ASSUME NEW f \in Profiles PROVE tuner[f] \in tuner_t
    <3> DEFINE s == tuner[f]
    <3>1. s \in tuner_w /\ s.trial <= ArmN - 1 /\ s.misses <= 2
      BY DEF IInv, Settled, Sound, Typed
    <3>2. s.trial \in 0 .. ArmN - 1 /\ s.misses \in 0 .. 2
      <4>1. s.trial \in 0 .. ArmN /\ s.misses \in 0 .. 3
        BY <3>1 DEF tuner_w
      <4>2. ArmN \in Nat
        BY TunerAssumption
      <4> HIDE DEF s
      <4> QED
        BY <3>1, <4>1, <4>2
    <3> HIDE DEF s
    <3>3. s \in tuner_t
      BY <3>1, <3>2 DEF tuner_w, tuner_t
    <3> QED
      BY <3>3 DEF s
  <2>2. tuner \in [Profiles -> tuner_t]
    BY <2>1 DEF IInv
  <2>3. \A f \in Profiles : \A k \in Params :
          tuner[f].init /\ Numeric(tuner[f], k) => InRange(tuner[f], k)
    BY DEF IInv, Settled, Within, Numeric, InRange
  <2> QED
    BY <2>2, <2>3 DEF IInv, Parameters, TypeOK
<1> QED
  BY Invariance, <1>1, PTL

\* A candidate is only judged against a full arm, on a knob that is still tried
\* (learn_tuner.c:315, 389).
THEOREM ProbesHaveBaselines == Spec => []BaselineBehindProbe
<1>1. IInv => BaselineBehindProbe
  BY DEF IInv, Settled, Sound, BaselineBehindProbe
<1> QED
  BY Invariance, <1>1, PTL

\* The tuner watches for drift exactly when every knob is done (learn_tuner.c:396, 521).
THEOREM SearchesToTheEnd == Spec => []WatchesIffDone
<1>1. IInv => WatchesIffDone
  BY DEF IInv, Settled, Sound, WatchesIffDone
<1> QED
  BY Invariance, <1>1, PTL

\* An edit while a candidate is live never makes any part of that candidate the new baseline
\* of its profile (tuner_observe).
THEOREM CandidateIsPutBack == Spec => CandidateNotBaseline
<1> DEFINE Safe(f) ==
        tuner[f].mode = "PROBING" /\ tuner'[f].anchor # tuner[f].anchor
        => \A k \in Params : Differ(tuner[f].seen[k], tuner[f].good[k]) => tuner'[f].anchor[k] # tuner[f].seen[k]
<1>1. ASSUME IInv, [Next]_vars, NEW f \in Profiles PROVE Safe(f)
  <2>1. CASE tuner'[f] = tuner[f]
    BY <2>1
  <2>2. CASE tuner'[f] # tuner[f]
    <3>1. learn_post_throw(TRUE) /\ learning
      BY <1>1, <2>2 DEF Next, Throw, Outside, BeginRecord, learn_post_throw, profile_select, http_rest_profile_config,
                        http_rest_charge_mode_config, charge_mode_learn_set_suppressed, http_rest_learn_config, vars
    <3> DEFINE s == [tuner[profile_idx] EXCEPT !.live = Live(selected)]
    <3>6. PICK result \in {"PASS", "OVER", "UNDER"} :
            \E r \in tuner_observe(s, result) : tuner' = [tuner EXCEPT ![profile_idx] = r]
      BY <3>1 DEF learn_post_throw
    <3>2. PICK r \in tuner_observe(s, result) : tuner' = [tuner EXCEPT ![profile_idx] = r]
      BY <3>6
    <3>3. f = profile_idx /\ tuner'[f] = r
      BY <1>1, <2>2, <3>2 DEF IInv
    <3>4. Settled(s) /\ Same(s, tuner[f]) /\ s.mode = tuner[f].mode /\ s.seen = tuner[f].seen /\ s.good = tuner[f].good
      BY <1>1, <3>3, LiveIsPoint, Overwritten DEF IInv, Parameters
    <3> HIDE DEF s
    <3>5. s.mode = "PROBING" /\ r.anchor # s.anchor =>
              \A k \in Params : Differ(s.seen[k], s.good[k]) => r.anchor[k] # s.seen[k]
      BY <3>2, <3>4, Observed
    <3> QED
      BY <3>3, <3>4, <3>5 DEF Same
  <2> QED
    BY <2>1, <2>2
<1>2. IInv /\ [Next]_vars => [\A f \in Profiles : Safe(f)]_vars
  BY <1>1
<1> QED
  BY Invariance, <1>2, PTL DEF Spec, CandidateNotBaseline
=============================================================================
