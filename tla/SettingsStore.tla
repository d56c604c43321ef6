---------------------------- MODULE SettingsStore ----------------------------
(***************************************************************************)
(* The settings of the modules and the EEPROM that keeps them: common.c    *)
(* (load_config, save_config), eeprom.c, cat24c256_eeprom.c, the boot of   *)
(* app.c, and of every module its init, its save handler and the REST      *)
(* handler of its settings.                                                *)
(*                                                                         *)
(* A record is written page by page and the power may go at any moment.    *)
(* The menu task and the TCP/IP thread run on two cores and change and     *)
(* save the same records; only eeprom_write takes the mutex.               *)
(*                                                                         *)
(* The fields of a record are one value here: Default, one of Settings, or *)
(* Bad for a value outside the range its module accepts.  A page of the    *)
(* EEPROM holds a part of one value.                                       *)
(***************************************************************************)
EXTENDS Integers, Sequences

CONSTANTS
    Pages,       \* [Records -> pages of the record]
    Settings,    \* values a user sets, among them Bad (bound)
    Factory,     \* what a board's EEPROM holds at the first power-on (bound)
    Controls,    \* what a system control request asks for: <<save, erase, reset>> (bound)
    MaxRequests, \* requests of the user and over REST (bound)
    MaxFaults    \* power losses and failed I2C transfers (bound)

\* The init of a module: the record it loads, what it does if it cannot be loaded, and
\* whether it brings the values into its range.
Module(rec, unread, limits) == [rec |-> rec, unread |-> unread, limits |-> limits]
eeprom_init == Module("metadata", "register", FALSE)
neopixel_led_init == Module("neopixel", "return", FALSE)
mini_12864_module_init == Module("mini12864", "return", FALSE)
wireless_init == Module("wireless", "return", FALSE)
motor_config_init == Module("motor", "halt", FALSE)
scale_init == Module("scale", "return", FALSE)
charge_mode_config_init == Module("charge", "return", TRUE)
learn_mode_init == Module("learn", "default", TRUE)
profile_data_init == Module("profile", "return", FALSE)
servo_gate_config_init == Module("servo", "return", FALSE)
main == <<eeprom_init, neopixel_led_init, mini_12864_module_init, wireless_init, motor_config_init, scale_init,
          charge_mode_config_init, learn_mode_init, profile_data_init, servo_gate_config_init>>
Order == [i \in DOMAIN main |-> main[i].rec]
Records == {main[i].rec : i \in DOMAIN main}
ModuleOf == [r \in Records |-> CHOOSE m \in {main[i] : i \in DOMAIN main} : m.rec = r]
Default == "default"    Bad == "bad"    Zeros == "zeros"
Torn == "torn"          Blank == "blank"        Mixed == "mixed"
Values == Settings \union {Default, Bad, Zeros}
Cells == Values \union {Torn, Blank, Mixed}
Nothing == "nothing"

ASSUME StoreAssumption ==
    /\ DOMAIN Pages = Records /\ \A r \in Records : Pages[r] \in Nat \ {0}
    /\ Settings \intersect {Torn, Blank, Mixed, Nothing} = {}
    /\ Factory \subseteq {"new", "legacy"}
    /\ Controls \subseteq BOOLEAN \X BOOLEAN \X BOOLEAN
    /\ MaxRequests \in Nat /\ MaxFaults \in Nat

Users == {"menu", "tcp"}
Tasks == Users \union {"boot"}
Free == "free"

VARIABLES
    stored,      \* [Records -> [rev, body, crc]]: the EEPROM
    ram,         \* [Records -> the live settings]
    registered,  \* the save handlers, latest first
    power,       \* "boot", "run", or "halted" by handle_motor_init_error
    job,         \* [Tasks -> what the task is saving or erasing]
    eeprom_access_mutex,
    saved,       \* [Records -> what the last undisturbed save wrote, or Nothing] (history)
    imported,    \* records ever accepted by their revision number alone (history)
    events

live == <<ram, registered, power>>
history == <<saved, imported>>
vars == <<stored, live, job, eeprom_access_mutex, history, events>>

-----------------------------------------------------------------------------
(* Records on the EEPROM. *)

\* What is written into every page of a record: its revision, its data and its checksum.
Image(rev, v, crc) == [rev |-> rev, value |-> v, crc |-> crc]
Stored(r, image) == [rev |-> image.rev, body |-> [p \in 1 .. Pages[r] |-> image.value], crc |-> image.crc]
Erased == Image("blank", Blank, Blank)

Uniform(s) == \E v \in Cells : \A p \in DOMAIN s.body : s.body[p] = v
Whole(s) == IF Uniform(s) THEN s.body[1] ELSE Torn

\* Record r with page p of an image.  The revision is in the first page, the checksum in
\* the last one.
_cat24c256_write_page(r, p, image) ==
    [rev |-> IF p = 1 THEN image.rev ELSE stored[r].rev,
     body |-> [stored[r].body EXCEPT ![p] = image.value],
     crc |-> IF p = Pages[r] THEN image.crc ELSE stored[r].crc]

\* The power goes while a page is written: any of its bytes may be new.
Interrupted(r, p, image) ==
    LET new == _cat24c256_write_page(r, p, image)
    IN {stored[r], new} \union
       {[rev |-> v, body |-> [stored[r].body EXCEPT ![p] = Torn], crc |-> c] :
            v \in {stored[r].rev, new.rev}, c \in {stored[r].crc, new.crc}}

\* clamp_steps, bracket_mode, style and the limits of the learn settings.
InRange(r, v) == IF ModuleOf[r].limits /\ v = Bad THEN Default ELSE v

software_crc32(s) == IF Uniform(s) THEN s.body[1] ELSE Torn

\* mutant: the data are used without a look at the checksum
LoadUnchecked(s) ==
    CASE s.rev = "legacy" -> [from |-> "rev", value |-> IF Whole(s) \in Values THEN Whole(s) ELSE Mixed]
      [] s.rev = "zero" -> [from |-> "crc", value |-> Whole(s)]
      [] s.rev = "blank" -> [from |-> "default", value |-> Default]
\* What load_config makes of the bytes it read.  A record with an old revision number is
\* taken as it is, whatever it is.
Load(s) ==
    CASE s.rev = "legacy" -> [from |-> "rev", value |-> IF Whole(s) \in Values THEN Whole(s) ELSE Mixed]
      [] s.rev = "zero" /\ s.crc # Torn /\ software_crc32(s) = s.crc -> [from |-> "crc", value |-> s.crc]
      [] OTHER -> [from |-> "default", value |-> Default]

-----------------------------------------------------------------------------
(* Jobs: a task saves the records of todo one after the other; at the end  *)
(* it may erase the EEPROM and reset.                                      *)

\* The whole EEPROM, record by record in address order.
EraseOrder == <<"metadata", "scale", "wireless", "motor", "charge", "neopixel", "mini12864", "profile", "servo", "learn">>

Idle == [todo |-> <<>>, step |-> "idle", value |-> Zeros, crc |-> Zeros, page |-> 0,
         erase |-> FALSE, reset |-> FALSE, alone |-> FALSE]
\* Where a task goes on that has the records of todo left.
Onward(j, todo) ==
    LET Then(step, records) == [Idle EXCEPT !.todo = records, !.step = step, !.page = 1, !.reset = j.reset]
    IN CASE todo # <<>> -> [Then("crc", todo) EXCEPT !.erase = j.erase]
         [] todo = <<>> /\ j.erase -> Then("erase", EraseOrder)
         [] todo = <<>> /\ ~j.erase /\ j.reset -> Then("reset", <<>>)
         [] OTHER -> Idle
Job(todo, erase, reset) == Onward([Idle EXCEPT !.erase = erase, !.reset = reset], todo)
At(t, step) == job[t].step = step
Rec(t) == Head(job[t].todo)
Erasing == \E t \in Users : At(t, "erase")

Holds(kind, r) ==
    CASE kind = "new" -> Stored(r, Erased)
      [] kind = "legacy" -> Stored(r, Image("legacy", Bad, Blank))

PoweredUp ==
    /\ ram' = [r \in Records |-> Zeros] /\ registered' = <<>> /\ power' = "boot"
    /\ job' = [t \in Tasks |-> IF t = "boot" THEN [Idle EXCEPT !.todo = Order, !.step = "load"] ELSE Idle]
    /\ eeprom_access_mutex' = Free

Init ==
    /\ \E kind \in Factory : stored = [r \in Records |-> Holds(kind, r)]
    /\ ram = [r \in Records |-> Zeros] /\ registered = <<>> /\ power = "boot"
    /\ job = [t \in Tasks |-> IF t = "boot" THEN [Idle EXCEPT !.todo = Order, !.step = "load"] ELSE Idle]
    /\ eeprom_access_mutex = Free
    /\ saved = [r \in Records |-> Nothing] /\ imported = {}
    /\ events = [requests |-> 0, faults |-> 0]

Request == events.requests < MaxRequests /\ events' = [events EXCEPT !.requests = @ + 1]
Fault == events.faults < MaxFaults /\ events' = [events EXCEPT !.faults = @ + 1]

-----------------------------------------------------------------------------
(* The boot: eeprom_init, then the init of every module. *)

\* The init of r is over; ok tells whether load_config was.
Booted(r, ok, v) ==
    LET rest == Tail(job["boot"].todo)
        unread == ModuleOf[r].unread
        halted == ~ok /\ unread = "halt"
    IN /\ ram' = [ram EXCEPT ![r] = IF ok THEN InRange(r, v) ELSE IF unread = "default" THEN Default ELSE v]
       /\ registered' = IF ok \/ unread \in {"register", "default"} THEN <<r>> \o registered ELSE registered
       /\ power' = IF halted THEN "halted" ELSE IF rest = <<>> THEN "run" ELSE "boot"
       /\ job' = [job EXCEPT !["boot"] = IF halted \/ rest = <<>> THEN Idle
                                         ELSE [Idle EXCEPT !.todo = rest, !.step = "load"]]

load_config ==
    LET r == Rec("boot")  res == Load(stored[r])
    IN /\ At("boot", "load")
       /\ IF res.from = "crc" THEN Booted(r, TRUE, res.value)
          ELSE /\ ram' = [ram EXCEPT ![r] = res.value]
               /\ job' = [job EXCEPT !["boot"].step = "crc", !["boot"].page = 1]
               /\ UNCHANGED <<registered, power>>
       /\ imported' = IF res.from = "rev" THEN imported \union {r} ELSE imported
       /\ UNCHANGED <<stored, eeprom_access_mutex, saved, events>>

eeprom_read_fails ==
    /\ At("boot", "load") /\ Fault
    /\ Booted(Rec("boot"), FALSE, ram[Rec("boot")])
    /\ UNCHANGED <<stored, eeprom_access_mutex, history>>

handle_motor_init_error == power' = "halted" /\ job' = [job EXCEPT !["boot"] = Idle]
\* The settings of the motors were loaded, but a driver does not answer or the PIO has no room.
motors_init ==
    /\ At("boot", "load") /\ Rec("boot") = "scale" /\ Fault
    /\ handle_motor_init_error
    /\ UNCHANGED <<stored, ram, registered, eeprom_access_mutex, history>>

-----------------------------------------------------------------------------
(* save_config. *)

\* motor_config_save collects the record in a local copy first.
save_config(t) ==
    LET r == Rec(t)
    IN /\ At(t, "crc")
       /\ job' = [job EXCEPT ![t].value = ram[r], ![t].crc = ram[r],
                             ![t].step = IF r = "motor" THEN "write" ELSE "copy"]
       /\ UNCHANGED <<stored, live, eeprom_access_mutex, history, events>>

\* memcpy of the live settings, after their checksum.
CopyConfig(t) ==
    /\ At(t, "copy")
    /\ job' = [job EXCEPT ![t].value = ram[Rec(t)], ![t].step = "write"]
    /\ UNCHANGED <<stored, live, eeprom_access_mutex, history, events>>

Written(t, ok) ==
    IF t = "boot" THEN Booted(Rec(t), ok, ram[Rec(t)])
    ELSE job' = [job EXCEPT ![t] = Onward(@, Tail(@.todo))] /\ UNCHANGED live

\* mutant: the write does not wait for the mutex
WriteUnlocked(t) == TRUE
\* Before the scheduler runs there is nobody to wait for.
May(t) == t = "boot" \/ eeprom_access_mutex = t \/ (eeprom_access_mutex = Free /\ job[t].page = 1)

\* The image a task writes.
Buffer(t) == Image("zero", job[t].value, job[t].crc)

\* The mutex is taken before the first page and given back after the last one.
cat24c256_write(t) ==
    LET r == Rec(t)  j == job[t]
        last == j.page = Pages[r]
        alone == (j.alone \/ j.page = 1) /\ ~Erasing
    IN /\ At(t, "write") /\ May(t)
       /\ stored' = [stored EXCEPT ![r] = _cat24c256_write_page(r, j.page, Buffer(t))]
       /\ eeprom_access_mutex' = IF last \/ t = "boot" THEN Free ELSE t
       /\ saved' = [saved EXCEPT ![r] = IF last /\ alone /\ j.value = j.crc THEN j.crc ELSE Nothing]
       /\ IF last THEN Written(t, TRUE)
          ELSE job' = [job EXCEPT ![t].page = @ + 1, ![t].alone = alone] /\ UNCHANGED live
       /\ UNCHANGED <<imported, events>>

\* No acknowledge: the rest of the record is not written.
WriteFails(t) ==
    /\ At(t, "write") /\ May(t) /\ Fault
    /\ eeprom_access_mutex' = Free
    /\ saved' = [saved EXCEPT ![Rec(t)] = Nothing]
    /\ Written(t, FALSE)
    /\ UNCHANGED <<stored, imported>>

-----------------------------------------------------------------------------
(* Callers: the menu, and REST requests. *)

StartJob(t, todo, erase, reset) ==
    /\ power = "run" /\ At(t, "idle") /\ Request
    /\ job' = [u \in Tasks |-> IF u = t THEN Job(todo, erase, reset)
                               ELSE [job[u] EXCEPT !.alone = @ /\ ~(erase /\ todo = <<>>)]]
    /\ saved' = IF erase /\ todo = <<>> THEN [r \in Records |-> Nothing] ELSE saved
    /\ UNCHANGED <<stored, registered, power, eeprom_access_mutex, imported>>

eeprom_save_all == StartJob("menu", registered, FALSE, FALSE) /\ registered # <<>> /\ UNCHANGED ram
eeprom_erase == StartJob("menu", <<>>, TRUE, TRUE) /\ UNCHANGED ram
software_reboot == StartJob("menu", <<>>, FALSE, TRUE) /\ UNCHANGED ram
http_rest_system_control(save, erase, reset) ==
    /\ StartJob("tcp", IF save THEN registered ELSE <<>>, erase, reset)
    /\ UNCHANGED ram

Edit(r, v) ==
    /\ v = Bad => ModuleOf[r].limits
    /\ ram' = [ram EXCEPT ![r] = v]
\* A handler sets what the request names and saves if it says ee.
RestConfig(r, v, ee) == Edit(r, v) /\ StartJob("tcp", IF ee THEN <<r>> ELSE <<>>, FALSE, FALSE)

http_rest_scale_config(v, ee) == RestConfig("scale", v, ee)
http_rest_neopixel_led_config(v, ee) == RestConfig("neopixel", v, ee)
http_rest_wireless_config(v, ee) == RestConfig("wireless", v, ee)
http_rest_mini_12864_module_config(v, ee) == RestConfig("mini12864", v, ee)
http_rest_servo_gate_config(v, ee) == RestConfig("servo", v, ee)
apply_rest_motor_config(v, ee) == RestConfig("motor", v, ee)
http_rest_charge_mode_config(v, ee) == RestConfig("charge", InRange("charge", v), ee)
http_rest_profile_config(v, ee) == RestConfig("profile", v, ee)
\* The values are stored as they came and limited afterwards, before the save.
http_rest_learn_config(v, ee) ==
    /\ power = "run" /\ At("tcp", "idle")
    /\ Edit("learn", v) /\ Request
    /\ job' = [job EXCEPT !["tcp"] = [Idle EXCEPT !.step = "limit", !.todo = IF ee THEN <<"learn">> ELSE <<>>]]
    /\ UNCHANGED <<stored, registered, power, eeprom_access_mutex, history>>
LimitLearnConfig ==
    /\ At("tcp", "limit")
    /\ ram' = [ram EXCEPT !["learn"] = InRange("learn", @)]
    /\ job' = [job EXCEPT !["tcp"] = Onward(@, @.todo)]
    /\ UNCHANGED <<stored, registered, power, eeprom_access_mutex, history, events>>

\* The forms of the menu.
muif_list(r, v) ==
    /\ power = "run" /\ At("menu", "idle")
    /\ r \in {"scale", "charge", "profile"} /\ v # Bad /\ Edit(r, v) /\ Request
    /\ UNCHANGED <<stored, registered, power, job, eeprom_access_mutex, history>>
\* A learned profile, saved from the result page or over REST; over REST it is applied again.
learn_mode_save(t, v) ==
    /\ v # Bad
    /\ IF t = "tcp" THEN ram' = [ram EXCEPT !["profile"] = v, !["charge"] = v]
       ELSE UNCHANGED ram
    /\ StartJob(t, <<"profile", "charge">>, FALSE, FALSE)

-----------------------------------------------------------------------------
(* Erasing, and the power. *)

\* The save that came first is done when the erase begins: nothing saved counts from then on.
cat24c256_eeprom_erase(t) ==
    LET r == Rec(t)  j == job[t]  rest == Tail(j.todo)
    IN /\ At(t, "erase")
       /\ stored' = [stored EXCEPT ![r] = _cat24c256_write_page(r, j.page, Erased)]
       /\ saved' = [x \in Records |-> Nothing]
       /\ job' = [u \in Tasks |->
                     CASE u # t -> [job[u] EXCEPT !.alone = FALSE]
                       [] u = t /\ j.page < Pages[r] -> [j EXCEPT !.page = @ + 1]
                       [] u = t /\ j.page = Pages[r] /\ rest # <<>> -> [j EXCEPT !.todo = rest, !.page = 1]
                       [] OTHER -> Onward(j, <<>>)]
       /\ UNCHANGED <<live, eeprom_access_mutex, imported, events>>

watchdog_reboot(t) ==
    /\ At(t, "reset")
    /\ PoweredUp
    /\ UNCHANGED <<stored, history, events>>

Page(t) ==   \* the page a task is writing: what may become of the EEPROM if it does not end
    CASE At(t, "write") /\ May(t) -> {[stored EXCEPT ![Rec(t)] = s] : s \in Interrupted(Rec(t), job[t].page, Buffer(t))}
      [] At(t, "erase") -> {[stored EXCEPT ![Rec(t)] = s] : s \in Interrupted(Rec(t), job[t].page, Erased)}
      [] OTHER -> {stored}

PowerLoss ==
    /\ Fault
    /\ \E t \in Tasks : stored' \in Page(t)
    /\ saved' = [r \in Records |-> IF stored'[r] = stored[r] THEN saved[r] ELSE Nothing]
    /\ PoweredUp
    /\ UNCHANGED <<imported>>

Next ==
    \/ load_config \/ eeprom_read_fails \/ motors_init
    \/ \E t \in Tasks : save_config(t) \/ CopyConfig(t) \/ cat24c256_write(t) \/ WriteFails(t)
    \/ eeprom_save_all \/ eeprom_erase \/ software_reboot
    \/ \E c \in Controls : http_rest_system_control(c[1], c[2], c[3])
    \/ \E v \in Settings, ee \in BOOLEAN :
          \/ http_rest_scale_config(v, ee) \/ http_rest_neopixel_led_config(v, ee)
          \/ http_rest_wireless_config(v, ee) \/ http_rest_mini_12864_module_config(v, ee)
          \/ http_rest_servo_gate_config(v, ee) \/ apply_rest_motor_config(v, ee)
          \/ http_rest_charge_mode_config(v, ee) \/ http_rest_profile_config(v, ee)
          \/ http_rest_learn_config(v, ee)
    \/ LimitLearnConfig
    \/ \E r \in Records, v \in Settings : muif_list(r, v)
    \/ \E t \in Users, v \in Settings : learn_mode_save(t, v)
    \/ \E t \in Users : cat24c256_eeprom_erase(t) \/ watchdog_reboot(t)
    \/ PowerLoss

Spec == Init /\ [][Next]_vars

-----------------------------------------------------------------------------
\* What the live settings may be, and what a task may be doing.
Content == Values \union {Mixed}
Busy == {"load", "crc", "copy", "write", "erase"}
Jobs == [todo : Seq(Records), step : Busy \union {"idle", "limit", "reset"}, value : Content, crc : Content,
         page : Nat, erase : BOOLEAN, reset : BOOLEAN, alone : BOOLEAN]

TypeOK ==
    /\ DOMAIN stored = Records
    /\ \A r \in Records :
         /\ stored[r].rev \in {"zero", "legacy", "blank"} /\ stored[r].crc \in Cells
         /\ stored[r].body \in [1 .. Pages[r] -> Cells]
    /\ ram \in [Records -> Content]
    /\ registered \in Seq(Records) /\ power \in {"boot", "run", "halted"}
    /\ job \in [Tasks -> Jobs]
    /\ eeprom_access_mutex \in Users \union {Free}
    /\ saved \in [Records -> Content \union {Nothing}] /\ imported \subseteq Records

\* Whatever page the power went at, a module never works with a record that is a mixture of
\* two saves or half erased, unless the record was once taken over by its old revision
\* number: load_config looks at no checksum then.
RamIsWhole == \A r \in Records \ imported : ram[r] \in Values

\* A save that ran through while nobody erased the EEPROM is what the next boot will load,
\* whatever the other task saves or changes meanwhile and wherever the power goes, until the
\* record is written again.
SaveSurvives ==
    \A r \in Records : saved[r] # Nothing => Load(stored[r]) = [from |-> "crc", value |-> saved[r]]

\* When save_config reports success the record can be read back.  The code computes the
\* checksum of the live settings and copies them afterwards: a change by the other task in
\* between stores a record that the next boot throws away for the defaults.
SavedIsReadable ==
    [][\A t \in Users :
         /\ At(t, "write") /\ May(t) /\ job[t].page = Pages[Rec(t)] /\ ~Erasing
         /\ stored' = [stored EXCEPT ![Rec(t)] = _cat24c256_write_page(Rec(t), job[t].page, Buffer(t))]
         => Load(stored'[Rec(t)]).from = "crc"]_vars
=============================================================================
