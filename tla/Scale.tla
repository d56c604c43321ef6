------------------------------- MODULE Scale -------------------------------
(***************************************************************************)
(* The read side of the scale: the listener task of each driver, which     *)
(* puts frames together from the bytes of a serial line that may lose or   *)
(* garble them, the last measurement with its "ready" semaphore            *)
(* (src/scale.c), the task that waits for a measurement, and the simulated *)
(* scale.  The task of the driver in force at boot runs until the next     *)
(* boot; REST and the menu change the configured driver and the line.      *)
(*                                                                         *)
(* A frame is six symbols: header, sign, two digits and the terminators,   *)
(* in the places the driver's format gives them; a run of characters the   *)
(* decoder passes over is one symbol.  The simulated weight counts units.  *)
(***************************************************************************)
EXTENDS Integers, Sequences, FiniteSetsExt

CONSTANTS
    Drivers,      \* drivers the board may boot with
    Chosen,      \* drivers chosen while it runs (bound)
    Values,       \* values the scale shows: [neg, digits] (bound)
    Noise,        \* what garbled bytes look like (bound)
    MaxFaults,    \* bytes lost or garbled between two frame boundaries (bound)
    Targets, Flows, Hold, MaxPowder   \* simulated scale: charges, feed of a period, periods of 3 s, bound

AllDrivers == {"and", "steinberg", "gng", "ussolid", "jm", "creedmoor", "radwag", "sartorius", "generic", "simulated"}
ASSUME ScaleAssumption == Drivers \subseteq AllDrivers /\ Chosen \subseteq AllDrivers /\ Hold \in Nat \ {0} /\ MaxPowder \in Nat

VARIABLES
    task,         \* driver whose listener runs
    scale_driver, \* persistent_config.scale_driver
    line,         \* "match": baud rate and format of the port are the scale's
    wire, sent,   \* bytes still to come of the frame the scale sends, and its value
    buf,          \* bytes the listener holds
    scale_measurement_ready, current_scale_measurement,
    wait, fresh,  \* the waiting task; and something was published since (history)
    faults,       \* bytes lost or garbled since the last frame boundary (history)
    sim           \* the simulated scale

vars == <<task, scale_driver, line, wire, sent, buf, scale_measurement_ready, current_scale_measurement, wait, fresh, faults, sim>>

NaN == [number |-> FALSE, neg |-> FALSE, digits |-> <<>>]
Reading(neg, ds) == [number |-> TRUE, neg |-> neg, digits |-> ds]
Blank == [neg |-> FALSE, digits |-> <<" ", " ">>]     \* the scale shows no weight
Digits == {"1", "2"}
Signs == {"+", "-"}
FrameSize == 6
BufferSize == 8      \* of the line buffers of the Sartorius and generic drivers

-----------------------------------------------------------------------------
(* The frames a scale sends. *)

\* Where the sign stands: in the data or ahead of it.
Frame(v) ==
    LET sgn == IF v = Blank THEN " " ELSE IF v.neg THEN "-" ELSE "+"
        head == CASE task = "radwag" -> <<"SUI", sgn>>
                  [] task = "jm" -> <<"E", sgn>>
                  [] task \in {"gng", "ussolid", "creedmoor", "sartorius"} -> <<sgn, " ">>
                  [] OTHER -> <<"ST", sgn>>
    IN  head \o v.digits \o <<"cr", "lf">>

\* The number at the start of s (strtof): blanks, a sign and digits; NaN if there is none.
Number(s) ==
    LET skip(t, S) == SubSeq(t, 1 + Max({k \in 0 .. Len(t) : \A i \in 1 .. k : t[i] \in S}), Len(t))
        t == skip(s, {" "})
        neg == t # <<>> /\ Head(t) = "-"
        u == IF t # <<>> /\ Head(t) \in Signs THEN Tail(t) ELSE t
        n == Len(u) - Len(skip(u, Digits))
    IN  IF n = 0 THEN NaN ELSE Reading(neg, SubSeq(u, 1, n))

\* mutant: the sign of the header is dropped.
Unsigned(sgn, r) == r

\* The sign ahead of the data multiplies what the data gives.
Signed(sgn, r) == IF r.number /\ sgn = "-" THEN [r EXCEPT !.neg = ~@] ELSE r
From(f, i) == SubSeq(f, i, Len(f))

and_decode(f) == Number(From(f, 2))
steinberg_decode(f) == Number(From(f, 2))
gng_decode(f) == Signed(f[1], Number(From(f, 2)))
ussolid_decode(f) == Signed(f[1], Number(From(f, 2)))
creedmoor_decode(f) == Signed(f[1], Number(From(f, 2)))
jm_decode(f) == Signed(f[2], Number(From(f, 3)))
radwag_decode(f) == Number(SubSeq(f, 2, 4))

\* No test of the conversion: a line without a number is a zero.
sartorius_decode(l) ==
    LET signed == l[1] \in Signs
        r == Number(IF signed THEN Tail(l) ELSE l)
    IN  Signed(IF signed THEN l[1] ELSE "+", IF r.number THEN r ELSE Reading(FALSE, <<>>))

\* From the first digit or sign on.
generic_decode(l) ==
    LET starts == {i \in 1 .. Len(l) : l[i] \in Digits \cup Signs}
    IN  IF starts = {} THEN NaN ELSE Number(From(l, Min(starts)))

-----------------------------------------------------------------------------
(* The listeners: what one byte c does. *)

Publish(r) == current_scale_measurement' = r /\ scale_measurement_ready' = TRUE /\ fresh' = (wait = "waiting")
Silent == UNCHANGED <<current_scale_measurement, scale_measurement_ready, fresh>>

\* mutant: the terminator does not start the frame anew.
FixedNoResync(f, c, published, r) ==
    /\ IF Len(f) = FrameSize /\ published THEN Publish(r) ELSE Silent
    /\ buf' = IF Len(f) = FrameSize THEN <<>> ELSE f

\* A frame of fixed size; a terminator starts anew.
Fixed(f, c, published, r) ==
    /\ IF Len(f) = FrameSize /\ published THEN Publish(r) ELSE Silent
    /\ buf' = IF Len(f) = FrameSize \/ c = "lf" THEN <<>> ELSE f

_and_scale_listener_task(c) == LET f == Append(buf, c) IN Fixed(f, c, TRUE, and_decode(f))
_steinberg_scale_listener_task(c) == LET f == Append(buf, c) IN Fixed(f, c, TRUE, steinberg_decode(f))
_gng_scale_listener_task(c) == LET f == Append(buf, c) IN Fixed(f, c, TRUE, gng_decode(f))
_ussolid_scale_listener_task(c) == LET f == Append(buf, c) IN Fixed(f, c, TRUE, ussolid_decode(f))
_creedmoor_scale_listener_task(c) == LET f == Append(buf, c) IN Fixed(f, c, TRUE, creedmoor_decode(f))
_radwag_scale_listener_task(c) == LET f == Append(buf, c) IN Fixed(f, c, f[1] = "SUI", radwag_decode(f))

\* The header starts the frame, the terminator means nothing.
_jm_science_scale_listener_task(c) ==
    LET f == Append(IF c = "E" THEN <<>> ELSE buf, c)
    IN  /\ IF Len(f) = FrameSize THEN Publish(jm_decode(f)) ELSE Silent
        /\ buf' = IF Len(f) = FrameSize THEN <<>> ELSE f

\* Lines end at either terminator; one too long for the buffer is forgotten.
_sartorius_scale_listener_task(c) ==
    IF c \in {"cr", "lf"}
    THEN /\ IF buf = <<>> THEN Silent ELSE Publish(sartorius_decode(buf))
         /\ buf' = <<>>
    ELSE Silent /\ buf' = IF Len(buf) < BufferSize - 1 THEN Append(buf, c) ELSE <<>>

\* Of a line too long for the buffer the rest is taken for a line.
_generic_scale_listener_task(c) ==
    LET l == Append(IF Len(buf) >= BufferSize - 1 THEN <<>> ELSE buf, c)
    IN  IF c = "lf"
        THEN /\ IF generic_decode(l).number THEN Publish(generic_decode(l)) ELSE Silent
             /\ buf' = <<>>
        ELSE Silent /\ buf' = l

Listener(c) ==
    \/ task = "and" /\ _and_scale_listener_task(c)
    \/ task = "steinberg" /\ _steinberg_scale_listener_task(c)
    \/ task = "gng" /\ _gng_scale_listener_task(c)
    \/ task = "ussolid" /\ _ussolid_scale_listener_task(c)
    \/ task = "creedmoor" /\ _creedmoor_scale_listener_task(c)
    \/ task = "radwag" /\ _radwag_scale_listener_task(c)
    \/ task = "jm" /\ _jm_science_scale_listener_task(c)
    \/ task = "sartorius" /\ _sartorius_scale_listener_task(c)
    \/ task = "generic" /\ _generic_scale_listener_task(c)

-----------------------------------------------------------------------------
(* The line. *)

Fault == faults < MaxFaults /\ faults' = faults + 1
Others == UNCHANGED <<task, scale_driver, line, wait, sim>>

ScaleSends(v) ==
    /\ task # "simulated" /\ wire = <<>>
    /\ wire' = Frame(v) /\ sent' = v
    /\ UNCHANGED <<buf, faults>> /\ Silent /\ Others

ReceiveByte ==
    /\ wire # <<>> /\ line = "match"
    /\ Listener(Head(wire)) /\ wire' = Tail(wire)
    /\ faults' = IF Len(wire) = (IF task = "jm" THEN FrameSize ELSE 1) THEN 0 ELSE faults
    /\ UNCHANGED sent /\ Others

\* The receive FIFO was full, or the line is set otherwise than the scale's.
LoseByte ==
    /\ wire # <<>> /\ wire' = Tail(wire) /\ Fault
    /\ UNCHANGED <<sent, buf>> /\ Silent /\ Others

ReceiveGarbage(c) ==
    /\ wire # <<>> /\ line = "differ"
    /\ Listener(c) /\ wire' = Tail(wire) /\ Fault
    /\ UNCHANGED sent /\ Others

set_scale_line(l) ==
    /\ line' = l
    /\ UNCHANGED <<task, scale_driver, wire, sent, buf, wait, faults, sim>> /\ Silent

set_scale_driver(d) ==
    /\ scale_driver' = d
    /\ UNCHANGED <<task, line, wire, sent, buf, wait, faults, sim>> /\ Silent

-----------------------------------------------------------------------------
(* The task that waits for a measurement. *)

Idle == UNCHANGED <<task, scale_driver, line, wire, sent, buf, current_scale_measurement, faults, sim>>

scale_block_wait_for_next_measurement ==
    /\ wait = "idle" /\ wait' = "waiting" /\ fresh' = FALSE
    /\ UNCHANGED scale_measurement_ready /\ Idle

WaitReturns ==
    /\ wait = "waiting" /\ scale_measurement_ready
    /\ scale_measurement_ready' = FALSE /\ wait' = "idle" /\ fresh' = FALSE
    /\ Idle

WaitTimesOut ==
    /\ wait = "waiting" /\ ~scale_measurement_ready /\ wait' = "idle"
    /\ UNCHANGED <<fresh, scale_measurement_ready>> /\ Idle

-----------------------------------------------------------------------------
(* The simulated scale: a cup that fills while the motors turn, is taken   *)
(* off when it has held the target for three seconds and comes back.       *)

Holder == -9
Tolerance == 1
UpTo(x, m) == IF x > m THEN m ELSE x
AtLeast(x, m) == IF x < m THEN m ELSE x

\* Powder after a period; the last tenth is snapped to the target.
Fed(p, target, flow) ==
    IF target = 0 THEN UpTo(p + flow, MaxPowder)
    ELSE IF p >= target - Tolerance THEN target ELSE UpTo(p + flow, target)

SimCharging(s, target, flow, noise) ==
    LET p == Fed(s.powder, target, flow)
        reached == target # 0 /\ p >= target
        held == reached /\ s.reached + 1 >= Hold
    IN  [s EXCEPT !.powder = p, !.reached = IF reached /\ ~held THEN @ + 1 ELSE 0,
                  !.st = IF held THEN "POST_CHARGE_WAIT" ELSE @,
                  !.weight = IF reached THEN p ELSE AtLeast(p + noise, 0)]

SimPeriod(s, target, flow, noise) ==
    LET t == IF s.st \in {"EMPTY_CUP", "CUP_EMPTY"} /\ flow > 0
             THEN [s EXCEPT !.st = "CHARGING", !.powder = 0] ELSE s
    IN  CASE t.st = "CHARGING" -> SimCharging(t, target, flow, noise)
          [] t.st = "POST_CHARGE_WAIT" ->
                IF t.reached + 1 >= Hold
                THEN [t EXCEPT !.st = "CUP_REMOVED", !.reached = 0, !.removed = 0, !.weight = Holder]
                ELSE [t EXCEPT !.reached = @ + 1, !.weight = t.powder]
          [] t.st = "CUP_REMOVED" ->
                IF t.removed + 1 >= Hold
                THEN [t EXCEPT !.st = "CUP_EMPTY", !.removed = @ + 1, !.weight = 0]
                ELSE [t EXCEPT !.removed = @ + 1, !.weight = Holder]
          [] OTHER -> [t EXCEPT !.weight = 0]

\* Publishes only while the simulated driver is the configured one.
simulated_scale_read_loop_task(target, flow, noise) ==
    /\ task = "simulated" /\ scale_driver = "simulated"
    /\ sim' = SimPeriod(sim, target, flow, noise)
    /\ Publish(Reading(sim'.weight < 0, <<sim'.weight>>))
    /\ UNCHANGED <<task, scale_driver, line, wire, sent, buf, wait, faults>>

simulated_scale_force_zero ==
    /\ scale_driver = "simulated"
    /\ sim' = [sim EXCEPT !.weight = 0, !.powder = 0, !.st = "EMPTY_CUP"]
    /\ UNCHANGED <<task, scale_driver, line, wire, sent, buf, wait, faults>> /\ Silent

-----------------------------------------------------------------------------
\* The scale may be in the middle of a frame when the board starts.
scale_init ==
    /\ task \in Drivers /\ scale_driver = task /\ line = "match"
    /\ \E v \in Values : sent = v /\ \E i \in 1 .. FrameSize + 1 : wire = From(Frame(v), i)
    /\ (task = "simulated" => wire = <<>>)
    /\ buf = <<>> /\ scale_measurement_ready = FALSE /\ current_scale_measurement = NaN
    /\ wait = "idle" /\ fresh = FALSE /\ faults = 1
    /\ sim = [st |-> "EMPTY_CUP", powder |-> 0, weight |-> 0, reached |-> 0, removed |-> 0]

Next ==
    \/ \E v \in Values \cup {Blank} : ScaleSends(v)
    \/ ReceiveByte \/ LoseByte
    \/ \E c \in Noise : ReceiveGarbage(c)
    \/ \E l \in {"match", "differ"} : set_scale_line(l)
    \/ \E d \in Chosen : set_scale_driver(d)
    \/ scale_block_wait_for_next_measurement \/ WaitReturns \/ WaitTimesOut
    \/ \E t \in Targets, f \in Flows, n \in {-1, 0, 1} : simulated_scale_read_loop_task(t, f, n)
    \/ simulated_scale_force_zero

Spec == scale_init /\ [][Next]_vars

-----------------------------------------------------------------------------
(* Whatever was lost or garbled before, a frame that follows a whole       *)
(* terminator and arrives whole is published with the value the scale      *)
(* sent, and one that shows no weight never becomes a number: each         *)
(* listener is back in step after one boundary.  The Sartorius driver is   *)
(* left out of the second part (see NoFalseReading).                       *)
WholeFrameIsRead ==
    [][wire # <<>> /\ wire' = Tail(wire) /\ faults = 0 /\ faults' = 0 =>
          IF sent # Blank
          THEN wire' = <<>> => current_scale_measurement' = Reading(sent.neg, sent.digits)
          ELSE task = "sartorius" \/ current_scale_measurement' \in {NaN, current_scale_measurement}]_vars

(* src/scale.c:259 "Block wait for the next available measurement": what a *)
(* wait returns was published after the wait began.                        *)
WaitReturnsNext == [][WaitReturns => fresh]_vars

(* A line that shows no weight is not published as a number.               *)
NoFalseReading ==
    [][wire # <<>> /\ wire' = Tail(wire) /\ faults = 0 /\ faults' = 0 /\ sent = Blank =>
          current_scale_measurement' = NaN \/ UNCHANGED current_scale_measurement]_vars

=============================================================================
