------------------------- MODULE SettingsStoreProofs -------------------------
(***************************************************************************)
(* The settings store, for records of any number of pages, any values and  *)
(* any number of requests and faults.                                      *)
(*                                                                         *)
(* No module works with half a record (RamIsWhole): the revision and the   *)
(* first part of the data are in one page, so a record that says it is of  *)
(* the current revision begins with something that was saved or with a     *)
(* torn page, and a torn page has no matching checksum (Contents).         *)
(*                                                                         *)
(* A finished save survives (SaveSurvives): between two pages of a record  *)
(* its writer holds the mutex (Phases), so what it has written so far is   *)
(* still there when it goes on, unless somebody erased (SavedSoFar).       *)
(***************************************************************************)
EXTENDS SettingsStore, SequenceTheorems, TLAPS

\* Where a task may be, and who may be writing.
JobOK(j) ==
    /\ j.step \in Busy => j.todo # <<>>
    /\ j.step \in {"crc", "copy"} => j.page = 1
    /\ j.step \in {"write", "erase"} => j.page \in 1 .. Pages[Head(j.todo)]
    /\ j.alone => j.step = "write" /\ j.page > 1
Phases ==
    /\ \A t \in Tasks : JobOK(job[t])
    /\ power # "run" => \A u \in Users : At(u, "idle")
    /\ ~At("boot", "idle") => power = "boot"
    /\ \A u \in Users : ~At(u, "load")
    /\ job["boot"].step \notin {"erase", "limit", "reset"}
    /\ \A u \in Users : At(u, "write") /\ job[u].page > 1 => eeprom_access_mutex = u

\* Unless a record was taken over by its revision number alone, no part of it is a mixture.
Sound(r, v) == r \notin imported => v \in Values
FirstPage(r, s) == s.rev = "zero" /\ s.body[1] # Torn => s.body[1] \in Content /\ Sound(r, s.body[1])
Contents ==
    /\ \A r \in Records : Sound(r, ram[r])
    /\ \A r \in Records : FirstPage(r, stored[r])
    /\ \A t \in Tasks : job[t].step \in {"copy", "write"} => Sound(Rec(t), job[t].value)

\* A save that counts is in every page, and one under way in the pages before the next.
SavedSoFar ==
    /\ \A r \in Records : saved[r] # Nothing =>
          stored[r].rev = "zero" /\ stored[r].crc = saved[r] /\ \A p \in 1 .. Pages[r] : stored[r].body[p] = saved[r]
    /\ \A t \in Tasks : job[t].alone =>
          stored[Rec(t)].rev = "zero" /\ \A p \in 1 .. job[t].page - 1 : stored[Rec(t)].body[p] = job[t].value

IInv == TypeOK /\ Phases /\ Contents /\ SavedSoFar

-----------------------------------------------------------------------------
(* Values, records and jobs. *)

LEMMA ValuesApart ==
    /\ Torn \notin Content /\ Blank \notin Content /\ Nothing \notin Content /\ Mixed \notin Values
    /\ Default \in Values /\ Zeros \in Values /\ Bad \in Values /\ Settings \subseteq Values
    /\ Values \subseteq Content /\ Content \subseteq Cells /\ Torn \in Cells /\ Blank \in Cells
  BY StoreAssumption DEF Content, Cells, Values, Default, Bad, Zeros, Torn, Blank, Mixed, Nothing

LEMMA MainIs ==
  /\ DOMAIN main = 1 .. 10 /\ Len(main) = 10
  /\ main[1].rec = "metadata" /\ main[2].rec = "neopixel" /\ main[3].rec = "mini12864" /\ main[4].rec = "wireless"
  /\ main[5].rec = "motor" /\ main[6].rec = "scale" /\ main[7].rec = "charge" /\ main[8].rec = "learn"
  /\ main[9].rec = "profile" /\ main[10].rec = "servo"
  BY DEF main, eeprom_init, neopixel_led_init, mini_12864_module_init, wireless_init, motor_config_init, scale_init,
         charge_mode_config_init, learn_mode_init, profile_data_init, servo_gate_config_init, Module

LEMMA RecordsAre ==
  Records = {"metadata", "neopixel", "mini12864", "wireless", "motor", "scale", "charge", "learn", "profile", "servo"}
<1>1. \A i \in 1 .. 10 : i = 1 \/ i = 2 \/ i = 3 \/ i = 4 \/ i = 5 \/ i = 6 \/ i = 7 \/ i = 8 \/ i = 9 \/ i = 10
  OBVIOUS
<1> QED
  BY MainIs, <1>1 DEF Records

LEMMA Orders ==
  /\ Order \in Seq(Records) /\ Order # <<>> /\ EraseOrder \in Seq(Records) /\ EraseOrder # <<>>
<1>1. Order \in [1 .. 10 -> Records] /\ DOMAIN Order = 1 .. 10
  BY MainIs DEF Order, Records
<1>2. Order \in Seq(Records)
  BY <1>1, SeqDef
<1>4. Order # <<>>
  <2>1. DOMAIN <<>> = {}
    OBVIOUS
  <2> QED
    BY <1>1, <2>1
<1>3. EraseOrder \in Seq(Records) /\ EraseOrder # <<>>
  BY RecordsAre DEF EraseOrder
<1> QED
  BY <1>2, <1>3, <1>4

LEMMA InRangeIs == \A r, v : InRange(r, v) \in {v, Default}
  BY DEF InRange

LEMMA HeadTail ==
  ASSUME NEW s \in Seq(Records), s # <<>>
  PROVE  Head(s) \in Records /\ Tail(s) \in Seq(Records)
  OBVIOUS

LEMMA JobFields ==
  ASSUME NEW j \in Jobs
  PROVE  /\ \A v \in Content, c \in Content, s \in Busy : [j EXCEPT !.value = v, !.crc = c, !.step = s] \in Jobs
         /\ \A n \in Nat, a \in BOOLEAN : [j EXCEPT !.page = n, !.alone = a] \in Jobs
         /\ \A n \in Nat, s \in Busy : [j EXCEPT !.step = s, !.page = n] \in Jobs
         /\ \A n \in Nat, s \in Seq(Records) : [j EXCEPT !.todo = s, !.page = n] \in Jobs
  BY DEF Jobs

LEMMA IdleIs == Idle \in Jobs /\ JobOK(Idle) /\ Idle.step = "idle" /\ ~Idle.alone
<1>1. Zeros \in Content
  BY ValuesApart
<1> QED
  BY <1>1 DEF Idle, Jobs, JobOK, Busy

\* A job at its first page (Onward).
Afresh(j, step, records) == [Idle EXCEPT !.todo = records, !.step = step, !.page = 1, !.reset = j.reset]
AtFirstPage(k, step, records) ==
    k \in Jobs /\ k.step = step /\ k.todo = records /\ k.page = 1 /\ k.alone = FALSE

LEMMA Restarted ==
  ASSUME NEW j \in Jobs, NEW step \in Busy \union {"reset"}, NEW records \in Seq(Records)
  PROVE  AtFirstPage(Afresh(j, step, records), step, records)
<1> DEFINE k == [Idle EXCEPT !.todo = records, !.step = step, !.page = 1, !.reset = j.reset]
<1>1. Idle \in Jobs /\ j.reset \in BOOLEAN
  BY IdleIs DEF Jobs
<1>2. Idle.alone = FALSE
  BY DEF Idle
<1> HIDE DEF Content, Idle
<1>3. k \in Jobs
  BY <1>1 DEF Jobs
<1>4. k.step = step /\ k.todo = records /\ k.page = 1 /\ k.alone = Idle.alone
  BY <1>1 DEF Jobs
<1> QED
  BY <1>2, <1>3, <1>4, Zenon DEF Afresh, AtFirstPage

\* What a task does next, when it has the records of todo left.
LEMMA OnwardIs ==
  ASSUME NEW j \in Jobs, NEW todo \in Seq(Records)
  PROVE  /\ Onward(j, todo) \in Jobs /\ JobOK(Onward(j, todo)) /\ ~Onward(j, todo).alone
         /\ Onward(j, todo).step \in {"crc", "erase", "reset", "idle"}
<1>2. CASE todo # <<>>
  <2>1. Onward(j, todo) = [Afresh(j, "crc", todo) EXCEPT !.erase = j.erase]
    BY <1>2 DEF Onward, Afresh
  <2> DEFINE k == Afresh(j, "crc", todo)
             m == [k EXCEPT !.erase = j.erase]
  <2>2. AtFirstPage(k, "crc", todo)
    <3>1. "crc" \in Busy \union {"reset"}
      BY DEF Busy
    <3> QED
      BY <3>1, Restarted, Zenon
  <2> HIDE DEF k
  <2>3. m \in Jobs /\ m.step = "crc" /\ m.todo = todo /\ m.page = 1 /\ m.alone = FALSE
    BY <2>2 DEF AtFirstPage, Jobs
  <2> QED
    BY <1>2, <2>1, <2>2, <2>3 DEF JobOK, AtFirstPage, k
<1>3. CASE todo = <<>> /\ j.erase
  <2>1. Onward(j, todo) = Afresh(j, "erase", EraseOrder)
    BY <1>3 DEF Onward, Afresh
  <2>2. Pages[Head(EraseOrder)] \in Nat \ {0}
    BY Orders, HeadTail, StoreAssumption
  <2> DEFINE k == Afresh(j, "erase", EraseOrder)
  <2>3. AtFirstPage(k, "erase", EraseOrder)
    <3>1. "erase" \in Busy \union {"reset"} /\ EraseOrder \in Seq(Records)
      BY Orders DEF Busy
    <3> QED
      BY <3>1, Restarted, Zenon
  <2> HIDE DEF k
  <2> QED
    BY <2>1, <2>2, <2>3, Orders DEF JobOK, AtFirstPage, k
<1>4. CASE todo = <<>> /\ ~j.erase /\ j.reset
  <2>1. Onward(j, todo) = Afresh(j, "reset", <<>>)
    BY <1>4 DEF Onward, Afresh
  <2> DEFINE k == Afresh(j, "reset", <<>>)
  <2>2. AtFirstPage(k, "reset", <<>>)
    <3>1. <<>> \in Seq(Records) /\ "reset" \in Busy \union {"reset"}
      OBVIOUS
    <3> QED
      BY <3>1, Restarted, Zenon
  <2> HIDE DEF k
  <2> QED
    BY <2>1, <2>2 DEF JobOK, AtFirstPage, Busy, k
<1>5. CASE todo = <<>> /\ ~j.erase /\ ~j.reset
  <2>1. Onward(j, todo) = Idle
    BY <1>5 DEF Onward
  <2> QED
    BY <2>1, IdleIs
<1> QED
  BY <1>2, <1>3, <1>4, <1>5

\* The first job after power-on.
LEMMA BootJob ==
  LET j == [Idle EXCEPT !.todo = Order, !.step = "load"]
  IN j \in Jobs /\ JobOK(j) /\ ~j.alone /\ j.step = "load"
<1> DEFINE j == [Idle EXCEPT !.todo = Order, !.step = "load"]
<1>1. j \in Jobs /\ j.step = "load" /\ j.todo = Order /\ j.alone = FALSE
  BY ValuesApart, Orders DEF Idle, Jobs, Busy
<1> HIDE DEF j
<1>2. JobOK(j)
  BY <1>1, Orders DEF JobOK
<1> QED
  BY <1>1, <1>2 DEF j

-----------------------------------------------------------------------------
(* What steps do to a record, to the live settings and to the jobs. *)

\* A page that was written, or cut short.
LEMMA PageIs ==
  ASSUME TypeOK, Contents, NEW r \in Records, NEW p \in 1 .. Pages[r],
         NEW rev \in {"zero", "blank"}, NEW v \in Content \union {Blank}, NEW crc \in Content \union {Blank},
         rev = "zero" => v \in Content /\ Sound(r, v),
         NEW s \in Interrupted(r, p, Image(rev, v, crc))
  PROVE  /\ s.rev \in {"zero", "legacy", "blank"} /\ s.crc \in Cells /\ s.body \in [1 .. Pages[r] -> Cells]
         /\ FirstPage(r, s)
<1>1. /\ stored[r].rev \in {"zero", "legacy", "blank"} /\ stored[r].crc \in Cells
      /\ stored[r].body \in [1 .. Pages[r] -> Cells] /\ Pages[r] \in Nat \ {0} /\ FirstPage(r, stored[r])
  BY StoreAssumption DEF TypeOK, Contents
<1> DEFINE new == _cat24c256_write_page(r, p, Image(rev, v, crc))
<1>2. /\ new.rev = (IF p = 1 THEN rev ELSE stored[r].rev) /\ new.body = [stored[r].body EXCEPT ![p] = v]
      /\ new.crc = IF p = Pages[r] THEN crc ELSE stored[r].crc
  BY DEF _cat24c256_write_page, Image
<1> HIDE DEF new
<1>3. CASE s = stored[r]
  BY <1>1, <1>3
<1>4. CASE s = new
  BY <1>1, <1>2, <1>4, ValuesApart DEF FirstPage
<1>5. CASE \E w \in {stored[r].rev, new.rev}, c \in {stored[r].crc, new.crc} :
              s = [rev |-> w, body |-> [stored[r].body EXCEPT ![p] = Torn], crc |-> c]
  BY <1>1, <1>2, <1>5, ValuesApart DEF FirstPage
<1> QED
  BY <1>3, <1>4, <1>5 DEF Interrupted, new

LEMMA WrittenIsInterrupted ==
  ASSUME NEW r, NEW p, NEW image
  PROVE  _cat24c256_write_page(r, p, image) \in Interrupted(r, p, image)
  BY DEF Interrupted

\* No other task is in the middle of a record while t may write a page.
LEMMA OnlyWriter ==
  ASSUME Phases, NEW t \in Tasks, At(t, "write"), May(t), NEW u \in Tasks, u # t
  PROVE  ~(At(u, "write") /\ job[u].page > 1)
  BY DEF Phases, May, At, Tasks, Users, Free

LEMMA AloneIsWriting ==
  ASSUME Phases, NEW t \in Tasks, job[t].alone
  PROVE  At(t, "write") /\ job[t].page > 1
  BY DEF Phases, JobOK, At

\* Task t is done with what it was at, and is neither copying nor writing.
StepDone(t) ==
    /\ job' \in [Tasks -> Jobs] /\ \A u \in Tasks \ {t} : job'[u] = job[u]
    /\ JobOK(job'[t]) /\ ~job'[t].alone /\ job'[t].step \notin {"copy", "write"}
    /\ t \in Users => job'[t].step # "load"
    /\ t = "boot" => job'[t].step \in {"idle", "load", "crc"}
LiveTyped == ram' \in [Records -> Content] /\ registered' \in Seq(Records) /\ power' \in {"boot", "run", "halted"}
LiveFrom(r, v) == \A x \in Records : ram'[x] \in {ram[x]} \union Values \/ (x = r /\ ram'[x] = v)
InTurn ==
    /\ power' # "run" => \A u \in Users : job'[u].step = "idle"
    /\ job'["boot"].step # "idle" => power' = "boot"

LEMMA BootedIs ==
  ASSUME TypeOK, Phases, job["boot"].step \in Busy, NEW ok \in BOOLEAN, NEW v \in Content, Booted(Rec("boot"), ok, v)
  PROVE  StepDone("boot") /\ LiveTyped /\ LiveFrom(Rec("boot"), v) /\ InTurn
<1> DEFINE r == Rec("boot")  rest == Tail(job["boot"].todo)  unread == ModuleOf[r].unread
           halted == ~ok /\ unread = "halt"
           loaded == IF ok THEN InRange(r, v) ELSE IF unread = "default" THEN Default ELSE v
           next == IF halted \/ rest = <<>> THEN Idle ELSE [Idle EXCEPT !.todo = rest, !.step = "load"]
<1>1. job \in [Tasks -> Jobs] /\ "boot" \in Tasks /\ job["boot"].todo \in Seq(Records) /\ job["boot"].todo # <<>>
  BY DEF TypeOK, Tasks, Jobs, Phases, JobOK
<1>2. r \in Records /\ rest \in Seq(Records)
  BY <1>1, HeadTail DEF Rec
<1>3. /\ ram' = [ram EXCEPT ![r] = loaded]
      /\ registered' = IF ok \/ unread \in {"register", "default"} THEN <<r>> \o registered ELSE registered
      /\ power' = IF halted THEN "halted" ELSE IF rest = <<>> THEN "run" ELSE "boot"
      /\ job' = [job EXCEPT !["boot"] = next]
  BY DEF Booted
<1>4. loaded \in Values \union {v} /\ loaded \in Content
  BY InRangeIs, ValuesApart
<1>5. /\ next \in Jobs /\ JobOK(next) /\ ~next.alone /\ next.step \in {"idle", "load"}
      /\ next.step = "load" => ~halted /\ rest # <<>>
  <2>1. CASE halted \/ rest = <<>>
    BY <2>1, IdleIs
  <2>2. CASE ~(halted \/ rest = <<>>)
    <3> DEFINE j == [Idle EXCEPT !.todo = rest, !.step = "load"]
    <3>1. j \in Jobs /\ j.step = "load" /\ j.todo = rest /\ j.alone = FALSE
      BY <1>2, ValuesApart DEF Idle, Jobs, Busy
    <3> HIDE DEF j
    <3>2. JobOK(j)
      BY <3>1, <2>2 DEF JobOK
    <3> QED
      BY <2>2, <3>1, <3>2 DEF j
  <2> QED
    BY <2>1, <2>2
<1> HIDE DEF next, loaded
<1>6. StepDone("boot")
  BY <1>1, <1>3, <1>5 DEF StepDone, Tasks, Users
<1>7. LiveTyped /\ LiveFrom(r, v)
  BY <1>2, <1>3, <1>4 DEF TypeOK, LiveTyped, LiveFrom
<1>8. \A u \in Users : job'[u] = job[u] /\ job[u].step = "idle"
  BY <1>1, <1>3 DEF Phases, At, Tasks, Users, Busy
<1>9. job'["boot"] = next
  BY <1>1, <1>3
<1> QED
  BY <1>3, <1>5, <1>6, <1>7, <1>8, <1>9 DEF InTurn

LEMMA WrittenIs ==
  ASSUME TypeOK, Phases, NEW t \in Tasks, At(t, "write"), NEW ok \in BOOLEAN, Written(t, ok)
  PROVE  StepDone(t) /\ LiveTyped /\ LiveFrom(Rec(t), ram[Rec(t)]) /\ InTurn
<1>1. job \in [Tasks -> Jobs] /\ job[t] \in Jobs /\ job[t].todo \in Seq(Records) /\ job[t].todo # <<>>
  BY DEF TypeOK, Jobs, Phases, JobOK, At, Busy
<1>2. Rec(t) \in Records /\ Tail(job[t].todo) \in Seq(Records)
  BY <1>1, HeadTail DEF Rec
<1>3. CASE t = "boot"
  <2>1. Booted(Rec("boot"), ok, ram[Rec("boot")]) /\ job["boot"].step \in Busy
    BY <1>3 DEF Written, At, Busy
  <2>2. ram[Rec("boot")] \in Content
    BY <1>2, <1>3 DEF TypeOK
  <2> QED
    BY <1>3, <2>1, <2>2, BootedIs
<1>4. CASE t # "boot"
  <2> DEFINE next == Onward(job[t], Tail(job[t].todo))
  <2>1. job' = [job EXCEPT ![t] = next] /\ UNCHANGED <<ram, registered, power>>
    BY <1>4 DEF Written, live
  <2>2. next \in Jobs /\ JobOK(next) /\ next.step \in {"crc", "erase", "reset", "idle"} /\ ~next.alone
    BY <1>1, <1>2, OnwardIs
  <2> HIDE DEF next
  <2>3. StepDone(t) /\ LiveTyped /\ LiveFrom(Rec(t), ram[Rec(t)])
    BY <1>1, <1>4, <2>1, <2>2 DEF StepDone, LiveTyped, LiveFrom, TypeOK, Tasks
  <2>4. power = "run" /\ job["boot"].step = "idle"
    BY <1>4 DEF Phases, At, Tasks
  <2> QED
    BY <1>4, <2>1, <2>3, <2>4 DEF InTurn, Tasks, StepDone
<1> QED
  BY <1>3, <1>4

-----------------------------------------------------------------------------
(* One lemma for each kind of step. *)

LEMMA InitIInv == Init => IInv
<1> SUFFICES ASSUME Init PROVE IInv
  OBVIOUS
<1> DEFINE j == [Idle EXCEPT !.todo = Order, !.step = "load"]
<1>1. job = [t \in Tasks |-> IF t = "boot" THEN j ELSE Idle]
  BY DEF Init
<1>2. j \in Jobs /\ JobOK(j) /\ ~j.alone /\ j.step = "load"
  BY BootJob
<1> HIDE DEF j
<1>3. PICK kind \in {"new", "legacy"} : stored = [r \in Records |-> Holds(kind, r)]
  BY StoreAssumption DEF Init
<1>4. ASSUME NEW r \in Records
      PROVE  /\ stored[r].rev \in {"legacy", "blank"} /\ stored[r].crc \in Cells
             /\ stored[r].body \in [1 .. Pages[r] -> Cells]
  BY <1>3, ValuesApart DEF Holds, Stored, Erased, Image
<1>5. ram \in [Records -> Content] /\ \A r \in Records : ram[r] \in Values
  BY ValuesApart DEF Init
<1>6. TypeOK
  BY <1>1, <1>2, <1>3, <1>4, <1>5, IdleIs DEF Init, TypeOK
<1>7. Phases
  BY <1>1, <1>2, IdleIs DEF Init, Phases, At, Tasks, Users
<1>8. Contents
  BY <1>1, <1>2, <1>4, <1>5, IdleIs DEF Contents, FirstPage, Sound
<1>9. SavedSoFar
  BY <1>1, <1>2, IdleIs DEF Init, SavedSoFar
<1> QED
  BY <1>6, <1>7, <1>8, <1>9 DEF IInv

\* What task t was at is over: the jobs of the others and the EEPROM are as they were.
LEMMA DoneKeeps ==
  ASSUME IInv, NEW t \in Tasks, StepDone(t), LiveTyped, InTurn, stored' = stored,
         imported \subseteq imported', imported' \subseteq Records,
         \A r \in Records : ram'[r] \in Values \/ ram'[r] = ram[r] \/ r \in imported',
         eeprom_access_mutex' \in Users \union {Free},
         \A u \in Users \ {t} : At(u, "write") /\ job[u].page > 1 => eeprom_access_mutex' = u,
         saved' \in [Records -> Content \union {Nothing}],
         \A r \in Records : saved'[r] = saved[r] \/ saved'[r] = Nothing
  PROVE  IInv'
<1>1. job \in [Tasks -> Jobs] /\ job' \in [Tasks -> Jobs] /\ \A u \in Tasks \ {t} : job'[u] = job[u]
  BY DEF IInv, TypeOK, StepDone
<1>2. \A x, v : Sound(x, v) => Sound(x, v)'
  BY DEF Sound
<1>3. TypeOK'
  BY DEF IInv, TypeOK, StepDone, LiveTyped
<1>4. Phases'
  <2>1. (\A u \in Tasks : JobOK(job[u]))'
    BY <1>1 DEF IInv, Phases, StepDone, JobOK
  <2>2. \A u \in Users : ~At(u, "load")'
    BY <1>1 DEF IInv, Phases, StepDone, At, Tasks
  <2>3. job'["boot"].step \notin {"erase", "limit", "reset"}
    BY <1>1 DEF IInv, Phases, StepDone, Tasks
  <2>4. \A u \in Users : (At(u, "write") /\ job[u].page > 1)' => eeprom_access_mutex' = u
    BY <1>1 DEF StepDone, At, Tasks
  <2> QED
    BY <2>1, <2>2, <2>3, <2>4 DEF Phases, InTurn, At
<1>5. Contents'
  <2>1. \A x \in Records : Sound(x, ram[x])'
    BY <1>2 DEF IInv, Contents, Sound
  <2>2. \A x \in Records : FirstPage(x, stored[x])'
    BY <1>2 DEF IInv, Contents, FirstPage
  <2>3. \A u \in Tasks : job'[u].step \in {"copy", "write"} => Sound(Rec(u), job[u].value)'
    BY <1>1, <1>2 DEF IInv, Contents, StepDone, Rec
  <2> QED
    BY <2>1, <2>2, <2>3 DEF Contents
<1>6. SavedSoFar'
  BY <1>1 DEF IInv, SavedSoFar, StepDone, Rec
<1> QED
  BY <1>3, <1>4, <1>5, <1>6 DEF IInv

\* Loading a record.
LEMMA LoadKeeps == IInv /\ load_config => IInv'
<1> SUFFICES ASSUME IInv, load_config PROVE IInv'
  OBVIOUS
<1> DEFINE r == Rec("boot")  res == Load(stored[r])
<1>1. /\ job["boot"].step = "load" /\ UNCHANGED <<stored, eeprom_access_mutex, saved, events>>
      /\ IF res.from = "crc" THEN Booted(r, TRUE, res.value)
         ELSE /\ ram' = [ram EXCEPT ![r] = res.value]
              /\ job' = [job EXCEPT !["boot"].step = "crc", !["boot"].page = 1]
              /\ UNCHANGED <<registered, power>>
      /\ imported' = IF res.from = "rev" THEN imported \union {r} ELSE imported
  BY DEF load_config, At
<1>2. job \in [Tasks -> Jobs] /\ "boot" \in Tasks /\ job["boot"].todo # <<>> /\ job["boot"].todo \in Seq(Records)
  BY <1>1 DEF IInv, TypeOK, Tasks, Jobs, Phases, JobOK, Busy
<1>3. r \in Records
  BY <1>2, HeadTail DEF Rec
<1>4. res.value \in Content /\ (res.from # "rev" => Sound(r, res.value))
  <2>1. stored[r].rev \in {"zero", "legacy", "blank"} /\ FirstPage(r, stored[r])
    BY <1>3 DEF IInv, TypeOK, Contents
  <2> DEFINE sum == stored[r].crc # Torn /\ software_crc32(stored[r]) = stored[r].crc
  <2>2. CASE stored[r].rev = "legacy"
    <3> DEFINE v == IF Whole(stored[r]) \in Values THEN Whole(stored[r]) ELSE Mixed
    <3>1. res = [from |-> "rev", value |-> v]
      BY <2>2 DEF Load
    <3>2. v \in Content
      BY ValuesApart DEF Content
    <3> HIDE DEF v, res
    <3> QED
      BY <3>1, <3>2
  <2>3. CASE stored[r].rev = "zero" /\ sum
    <3>1. res.value = stored[r].crc /\ stored[r].crc = stored[r].body[1] /\ stored[r].body[1] # Torn
      BY <2>3 DEF Load, software_crc32
    <3> QED
      BY <2>1, <2>3, <3>1 DEF FirstPage
  <2>4. CASE stored[r].rev # "legacy" /\ ~(stored[r].rev = "zero" /\ sum)
    BY <2>4, ValuesApart DEF Load, Sound
  <2> HIDE DEF sum, res
  <2> QED
    BY <2>2, <2>3, <2>4
<1> HIDE DEF res
<1>5. /\ StepDone("boot") /\ LiveTyped /\ LiveFrom(r, res.value) /\ InTurn
  <2>1. CASE res.from = "crc"
    BY <1>1, <1>4, <2>1, BootedIs DEF IInv, Busy
  <2>2. CASE res.from # "crc"
    <3> DEFINE k == [job["boot"] EXCEPT !.step = "crc", !.page = 1]
    <3>1. job["boot"] \in Jobs /\ "crc" \in Busy
      BY <1>2 DEF Busy
    <3>2. k \in Jobs /\ k.step = "crc" /\ k.page = 1 /\ k.todo = job["boot"].todo /\ k.alone = job["boot"].alone
      <4>1. k \in Jobs
        BY <3>1, JobFields
      <4> QED
        BY <3>1, <4>1 DEF Jobs
    <3>3. job' = [job EXCEPT !["boot"] = k]
      BY <1>1, <2>2
    <3> HIDE DEF k
    <3>4. JobOK(k) /\ ~k.alone
      BY <1>1, <1>2, <3>2 DEF IInv, Phases, JobOK
    <3>5. StepDone("boot")
      BY <1>2, <3>2, <3>3, <3>4 DEF StepDone, Tasks, Users
    <3>6. LiveTyped /\ LiveFrom(r, res.value)
      BY <1>1, <1>3, <1>4, <2>2 DEF IInv, TypeOK, LiveTyped, LiveFrom
    <3>7. InTurn
      BY <1>1, <1>2, <2>2, <3>3 DEF IInv, Phases, At, InTurn, Tasks, Users
    <3> QED
      BY <3>5, <3>6, <3>7
  <2> QED
    BY <2>1, <2>2
<1>6. imported' \subseteq Records /\ imported \subseteq imported' /\ (res.from = "rev" => r \in imported')
  BY <1>1, <1>3 DEF IInv, TypeOK
<1>7. \A x \in Records : ram'[x] \in Values \/ ram'[x] = ram[x] \/ x \in imported'
  BY <1>4, <1>5, <1>6 DEF LiveFrom, Sound
<1> QED
  BY <1>1, <1>2, <1>5, <1>6, <1>7, DoneKeeps DEF IInv, TypeOK, Phases

\* A failed read: the settings stay what they were, or become the defaults.
LEMMA ReadFailsKeeps == IInv /\ eeprom_read_fails => IInv'
<1> SUFFICES ASSUME IInv, eeprom_read_fails PROVE IInv'
  OBVIOUS
<1> DEFINE r == Rec("boot")
<1>1. /\ job["boot"].step = "load" /\ UNCHANGED <<stored, eeprom_access_mutex, saved, imported>>
      /\ Booted(r, FALSE, ram[r])
  BY DEF eeprom_read_fails, At, history
<1>2. "boot" \in Tasks /\ r \in Records
  BY <1>1, HeadTail DEF IInv, TypeOK, Tasks, Jobs, Phases, JobOK, Busy, Rec
<1>3. ram[r] \in Content
  BY <1>2 DEF IInv, TypeOK
<1>4. StepDone("boot") /\ LiveTyped /\ LiveFrom(r, ram[r]) /\ InTurn
  BY <1>1, <1>3, BootedIs DEF IInv, Busy
<1> QED
  BY <1>1, <1>2, <1>4, DoneKeeps DEF IInv, TypeOK, Phases, LiveFrom

\* The motors do not start.
LEMMA MotorsKeep == IInv /\ motors_init => IInv'
<1> SUFFICES ASSUME IInv, motors_init PROVE IInv'
  OBVIOUS
<1>1. /\ job["boot"].step = "load" /\ power' = "halted" /\ job' = [job EXCEPT !["boot"] = Idle]
      /\ UNCHANGED <<stored, ram, registered, eeprom_access_mutex, saved, imported>>
  BY DEF motors_init, handle_motor_init_error, At, history
<1>2. job \in [Tasks -> Jobs] /\ "boot" \in Tasks
  BY DEF IInv, TypeOK, Tasks
<1>3. StepDone("boot")
  BY <1>1, <1>2, IdleIs DEF StepDone, Tasks, Users
<1>4. LiveTyped /\ InTurn
  BY <1>1, <1>2, IdleIs DEF IInv, TypeOK, Phases, LiveTyped, InTurn, At, Tasks, Users
<1> QED
  BY <1>1, <1>2, <1>3, <1>4, DoneKeeps DEF IInv, TypeOK, Phases

\* No acknowledge in the middle of a write.
LEMMA WriteFailsKeeps == IInv => \A t \in Tasks : WriteFails(t) => IInv'
<1> SUFFICES ASSUME IInv, NEW t \in Tasks, WriteFails(t) PROVE IInv'
  OBVIOUS
<1>1. /\ At(t, "write") /\ May(t) /\ eeprom_access_mutex' = Free
      /\ saved' = [saved EXCEPT ![Rec(t)] = Nothing] /\ Written(t, FALSE)
      /\ UNCHANGED <<stored, imported>>
  BY DEF WriteFails
<1>2. StepDone(t) /\ LiveTyped /\ LiveFrom(Rec(t), ram[Rec(t)]) /\ InTurn
  BY <1>1, WrittenIs DEF IInv
<1>3. \A u \in Users \ {t} : ~(At(u, "write") /\ job[u].page > 1)
  BY <1>1, OnlyWriter DEF IInv, Tasks
<1>4. saved' \in [Records -> Content \union {Nothing}] /\ \A r \in Records : saved'[r] = saved[r] \/ saved'[r] = Nothing
  BY <1>1 DEF IInv, TypeOK
<1>5. imported \subseteq imported' /\ imported' \subseteq Records
  BY <1>1 DEF IInv, TypeOK
<1>6. \A r \in Records : ram'[r] \in Values \/ ram'[r] = ram[r] \/ r \in imported'
  BY <1>2 DEF LiveFrom
<1> QED
  BY <1>1, <1>2, <1>3, <1>4, <1>5, <1>6, DoneKeeps

\* The live settings are collected, with their checksum first.
LEMMA CollectKeeps == IInv => \A t \in Tasks : save_config(t) \/ CopyConfig(t) => IInv'
<1> SUFFICES ASSUME IInv, NEW t \in Tasks, save_config(t) \/ CopyConfig(t) PROVE IInv'
  OBVIOUS
<1>1. /\ UNCHANGED <<stored, ram, registered, power, eeprom_access_mutex, saved, imported>>
      /\ job[t].step \in {"crc", "copy"}
  BY DEF save_config, CopyConfig, live, history, At
<1>2. /\ job \in [Tasks -> Jobs] /\ job[t] \in Jobs /\ job[t].todo # <<>> /\ job[t].todo \in Seq(Records)
      /\ job[t].page = 1 /\ ~job[t].alone
  BY <1>1 DEF IInv, TypeOK, Jobs, Phases, JobOK, Busy
<1>3. Rec(t) \in Records /\ Pages[Rec(t)] \in Nat \ {0} /\ ram[Rec(t)] \in Content /\ Sound(Rec(t), ram[Rec(t)])
  BY <1>2, HeadTail, StoreAssumption DEF Rec, IInv, TypeOK, Contents
<1>4. PICK k \in Jobs : /\ job' = [job EXCEPT ![t] = k]
                        /\ k.value = ram[Rec(t)] /\ k.step \in {"copy", "write"}
                        /\ k.todo = job[t].todo /\ k.page = job[t].page /\ k.alone = job[t].alone
  <2>1. CASE save_config(t)
    <3> DEFINE s == IF Rec(t) = "motor" THEN "write" ELSE "copy"
               k == [job[t] EXCEPT !.value = ram[Rec(t)], !.crc = ram[Rec(t)], !.step = s]
    <3>1. k \in Jobs
      BY <1>2, <1>3, JobFields DEF Busy
    <3>2. job' = [job EXCEPT ![t] = k]
      BY <2>1 DEF save_config
    <3>3. k.value = ram[Rec(t)] /\ k.step = s /\ k.todo = job[t].todo /\ k.page = job[t].page /\ k.alone = job[t].alone
      BY <1>2, <3>1 DEF Jobs
    <3> QED
      BY <3>1, <3>2, <3>3
  <2>2. CASE CopyConfig(t)
    <3> DEFINE k == [job[t] EXCEPT !.value = ram[Rec(t)], !.step = "write"]
    <3>1. k \in Jobs
      BY <1>2, <1>3 DEF Jobs, Busy
    <3>2. job' = [job EXCEPT ![t] = k]
      BY <2>2 DEF CopyConfig
    <3>3. k.value = ram[Rec(t)] /\ k.step = "write" /\ k.todo = job[t].todo /\ k.page = job[t].page /\ k.alone = job[t].alone
      BY <1>2, <3>1 DEF Jobs
    <3> QED
      BY <3>1, <3>2, <3>3
  <2> QED
    BY <2>1, <2>2
<1>5. job'[t] = k /\ (\A u \in Tasks \ {t} : job'[u] = job[u]) /\ job' \in [Tasks -> Jobs]
  BY <1>2, <1>4
<1>6. Rec(t)' = Rec(t)
  BY <1>4, <1>5 DEF Rec
<1>7. TypeOK'
  BY <1>1, <1>5 DEF IInv, TypeOK
<1>8. Phases'
  <2>1. JobOK(k)
    <3>1. 1 \in 1 .. Pages[Head(job[t].todo)]
      BY <1>3 DEF Rec
    <3> QED
      BY <1>2, <1>4, <3>1 DEF JobOK
  <2>2. (\A u \in Tasks : JobOK(job[u]))'
    BY <1>5, <2>1 DEF IInv, Phases, JobOK
  <2>3. \A u \in Users : (At(u, "write") /\ job[u].page > 1)' => eeprom_access_mutex' = u
    BY <1>1, <1>2, <1>4, <1>5 DEF IInv, Phases, At, Tasks
  <2>4. \A u \in Tasks : (job'[u].step = "idle" <=> job[u].step = "idle") /\ (job'[u].step = "load" => job[u].step = "load")
    BY <1>1, <1>4, <1>5
  <2>5. job'["boot"].step \notin {"erase", "limit", "reset"}
    BY <1>4, <1>5 DEF IInv, Phases, Tasks
  <2> QED
    BY <1>1, <2>2, <2>3, <2>4, <2>5 DEF IInv, Phases, At, Tasks
<1>9. Contents'
  BY <1>1, <1>3, <1>4, <1>5, <1>6 DEF IInv, Contents, FirstPage, Sound, Rec
<1>10. SavedSoFar'
  BY <1>1, <1>2, <1>4, <1>5 DEF IInv, SavedSoFar, Rec
<1> QED
  BY <1>7, <1>8, <1>9, <1>10 DEF IInv

\* A page of a record is written.
LEMMA WriteKeeps == IInv => \A t \in Tasks : cat24c256_write(t) => IInv'
<1> SUFFICES ASSUME IInv, NEW t \in Tasks, cat24c256_write(t) PROVE IInv'
  OBVIOUS
<1> DEFINE r == Rec(t)
           p == job[t].page
           v == job[t].value
           last == p = Pages[r]
           alone == (job[t].alone \/ p = 1) /\ ~Erasing
           new == _cat24c256_write_page(r, p, Image("zero", v, job[t].crc))
<1>1. /\ At(t, "write") /\ May(t)
      /\ stored' = [stored EXCEPT ![r] = new]
      /\ eeprom_access_mutex' = IF last \/ t = "boot" THEN Free ELSE t
      /\ saved' = [saved EXCEPT ![r] = IF last /\ alone /\ v = job[t].crc THEN job[t].crc ELSE Nothing]
      /\ IF last THEN Written(t, TRUE)
         ELSE job' = [job EXCEPT ![t].page = @ + 1, ![t].alone = alone] /\ UNCHANGED live
      /\ UNCHANGED imported
  BY DEF cat24c256_write, Buffer
<1>2. /\ job \in [Tasks -> Jobs] /\ job[t] \in Jobs /\ job[t].todo # <<>> /\ job[t].todo \in Seq(Records)
      /\ p \in 1 .. Pages[r]
  BY <1>1 DEF IInv, TypeOK, Jobs, Phases, JobOK, Busy, At, Rec
<1>3. r \in Records /\ Pages[r] \in Nat \ {0}
  BY <1>2, HeadTail, StoreAssumption DEF Rec
<1>4. v \in Content /\ job[t].crc \in Content /\ Sound(r, v)
  BY <1>1, <1>2 DEF Jobs, IInv, Contents, At
<1>5. /\ new.rev \in {"zero", "legacy", "blank"} /\ new.crc \in Cells /\ new.body \in [1 .. Pages[r] -> Cells]
      /\ FirstPage(r, new)
  BY <1>2, <1>3, <1>4, PageIs, WrittenIsInterrupted DEF IInv
<1>6. /\ new.rev = (IF p = 1 THEN "zero" ELSE stored[r].rev) /\ new.body = [stored[r].body EXCEPT ![p] = v]
      /\ new.crc = IF last THEN job[t].crc ELSE stored[r].crc
  BY DEF _cat24c256_write_page, Image
<1>7. /\ DOMAIN stored' = Records /\ stored'[r] = new /\ \A x \in Records \ {r} : stored'[x] = stored[x]
      /\ stored[r].body \in [1 .. Pages[r] -> Cells]
  BY <1>1, <1>3 DEF IInv, TypeOK
<1>8. alone \in BOOLEAN
  OBVIOUS
<1> HIDE DEF new, alone
<1>9. \A u \in Tasks \ {t} : ~(job[u].step = "write" /\ job[u].page > 1) /\ ~job[u].alone
  BY <1>1, OnlyWriter, AloneIsWriting DEF IInv, At
<1>10. \* the part that was written by itself
       alone => /\ new.rev = "zero" /\ \A q \in 1 .. p : new.body[q] = v
  <2> SUFFICES ASSUME alone PROVE new.rev = "zero" /\ \A q \in 1 .. p : new.body[q] = v
    OBVIOUS
  <2>1. job[t].alone \/ p = 1
    BY DEF alone
  <2>2. job[t].alone => stored[r].rev = "zero" /\ \A q \in 1 .. p - 1 : stored[r].body[q] = v
    BY DEF IInv, SavedSoFar
  <2>3. new.rev = "zero"
    BY <1>6, <2>1, <2>2
  <2>4. ASSUME NEW q \in 1 .. p PROVE new.body[q] = v
    <3>1. q \in 1 .. Pages[r]
      BY <1>2, <1>3
    <3>2. q = p \/ (p # 1 /\ q \in 1 .. p - 1)
      BY <1>2, <1>3
    <3> QED
      BY <1>2, <1>6, <1>7, <2>1, <2>2, <3>1, <3>2
  <2> QED
    BY <2>3, <2>4
<1>11. /\ job' \in [Tasks -> Jobs] /\ (\A u \in Tasks \ {t} : job'[u] = job[u]) /\ JobOK(job'[t])
       /\ LiveTyped /\ LiveFrom(r, ram[r]) /\ InTurn
       /\ job'[t].step \notin {"copy"} /\ (t \in Users => job'[t].step # "load")
       /\ t = "boot" => job'[t].step \notin {"erase", "limit", "reset"}
       /\ job'[t].alone \/ job'[t].step = "write" =>
             ~last /\ job'[t].value = v /\ job'[t].todo = job[t].todo /\ job'[t].page = p + 1 /\ job'[t].alone = alone
  <2>1. CASE last
    <3>1. StepDone(t) /\ LiveTyped /\ LiveFrom(r, ram[r]) /\ InTurn
      BY <1>1, <2>1, WrittenIs DEF IInv
    <3> QED
      BY <3>1 DEF StepDone
  <2>2. CASE ~last
    <3> DEFINE k == [job[t] EXCEPT !.page = p + 1, !.alone = alone]
    <3>1. k \in Jobs
      <4>1. p + 1 \in Nat
        BY <1>2, <1>3
      <4> QED
        BY <1>2, <1>8, <4>1, JobFields
    <3>2. job' = [job EXCEPT ![t] = k] /\ UNCHANGED <<ram, registered, power>>
      BY <1>1, <2>2 DEF live
    <3>3. k.step = "write" /\ k.value = v /\ k.todo = job[t].todo /\ k.page = p + 1 /\ k.alone = alone
      BY <1>1, <1>2 DEF Jobs, At
    <3> HIDE DEF k
    <3>4. JobOK(k)
      <4>1. p + 1 \in 1 .. Pages[Head(k.todo)] /\ p + 1 > 1
        BY <1>2, <1>3, <2>2, <3>3 DEF Rec
      <4> QED
        BY <1>2, <3>3, <4>1 DEF JobOK
    <3>5. job' \in [Tasks -> Jobs] /\ (\A u \in Tasks \ {t} : job'[u] = job[u]) /\ job'[t] = k
      BY <1>2, <3>1, <3>2
    <3>6. LiveTyped /\ LiveFrom(r, ram[r])
      BY <1>3, <3>2 DEF IInv, TypeOK, LiveTyped, LiveFrom
    <3>7. InTurn
      BY <1>1, <3>2, <3>3, <3>5 DEF IInv, Phases, InTurn, At, Tasks, Users
    <3> QED
      BY <2>2, <3>3, <3>4, <3>5, <3>6, <3>7
  <2> QED
    BY <2>1, <2>2
<1>12. TypeOK'
  <2>1. eeprom_access_mutex' \in Users \union {Free} /\ imported' \subseteq Records
    BY <1>1 DEF IInv, TypeOK, Tasks
  <2>2. saved' \in [Records -> Content \union {Nothing}]
    BY <1>1, <1>4 DEF IInv, TypeOK
  <2>3. \A x \in Records : /\ stored'[x].rev \in {"zero", "legacy", "blank"} /\ stored'[x].crc \in Cells
                           /\ stored'[x].body \in [1 .. Pages[x] -> Cells]
    BY <1>5, <1>7 DEF IInv, TypeOK
  <2> QED
    BY <1>7, <1>11, <2>1, <2>2, <2>3 DEF TypeOK, LiveTyped
<1>13. Phases'
  <2>1. (\A u \in Tasks : JobOK(job[u]))'
    BY <1>11 DEF IInv, Phases, JobOK
  <2>2. \A u \in Users : ~At(u, "load")'
    BY <1>11 DEF IInv, Phases, At, Tasks
  <2>3. job'["boot"].step \notin {"erase", "limit", "reset"}
    BY <1>11 DEF IInv, Phases, Tasks
  <2>4. \A u \in Users : (At(u, "write") /\ job[u].page > 1)' => eeprom_access_mutex' = u
    <3> SUFFICES ASSUME NEW u \in Users, job'[u].step = "write", job'[u].page > 1 PROVE eeprom_access_mutex' = u
      BY DEF At
    <3>1. u = t
      BY <1>9, <1>11 DEF Tasks
    <3> QED
      BY <1>1, <1>11, <3>1 DEF Users
  <2> QED
    BY <1>11, <2>1, <2>2, <2>3, <2>4 DEF Phases, InTurn, At
<1>14. Contents'
  <2>1. \A x \in Records : Sound(x, ram[x])'
    BY <1>1, <1>11 DEF IInv, Contents, LiveFrom, Sound
  <2>2. \A x \in Records : FirstPage(x, stored[x])'
    BY <1>1, <1>5, <1>7 DEF IInv, Contents, FirstPage, Sound
  <2>3. \A u \in Tasks : job'[u].step \in {"copy", "write"} => Sound(Rec(u), job[u].value)'
    BY <1>1, <1>4, <1>11 DEF IInv, Contents, Rec, Sound
  <2> QED
    BY <2>1, <2>2, <2>3 DEF Contents
<1>15. SavedSoFar'
  <2>1. ASSUME NEW x \in Records, saved'[x] # Nothing
        PROVE  /\ stored'[x].rev = "zero" /\ stored'[x].crc = saved'[x]
               /\ \A q \in 1 .. Pages[x] : stored'[x].body[q] = saved'[x]
    <3>1. CASE x # r
      BY <1>1, <1>7, <2>1, <3>1 DEF IInv, SavedSoFar, TypeOK
    <3>2. CASE x = r
      <4>1. last /\ alone /\ v = job[t].crc /\ saved'[r] = v
        BY <1>1, <1>3, <2>1, <3>2 DEF IInv, TypeOK
      <4> QED
        BY <1>6, <1>7, <1>10, <3>2, <4>1
    <3> QED
      BY <3>1, <3>2
  <2>2. ASSUME NEW u \in Tasks, job'[u].alone
        PROVE  /\ stored'[Rec(u)'].rev = "zero"
               /\ \A q \in 1 .. job'[u].page - 1 : stored'[Rec(u)'].body[q] = job'[u].value
    <3>1. u = t
      BY <1>9, <1>11, <2>2
    <3>2. ~last /\ job'[t].value = v /\ job'[t].todo = job[t].todo /\ job'[t].page = p + 1 /\ alone
      BY <1>11, <2>2, <3>1
    <3>3. Rec(u)' = r
      BY <3>1, <3>2 DEF Rec
    <3>4. job'[t].page - 1 = p
      BY <1>2, <1>3, <3>2
    <3> QED
      BY <1>7, <1>10, <3>1, <3>2, <3>3, <3>4
  <2> QED
    BY <2>1, <2>2 DEF SavedSoFar
<1> QED
  BY <1>12, <1>13, <1>14, <1>15 DEF IInv

-----------------------------------------------------------------------------
(* The requests. *)

\* A task that was idle starts to save, to erase or to reset; the settings may have changed.
LEMMA AskedKeeps ==
  ASSUME IInv, NEW t \in Users, NEW todo \in Seq(Records), NEW erase \in BOOLEAN, NEW reset \in BOOLEAN,
         StartJob(t, todo, erase, reset),
         ram' \in [Records -> Content], \A r \in Records : ram'[r] \in Values \/ ram'[r] = ram[r]
  PROVE  IInv'
<1> DEFINE j == [Idle EXCEPT !.erase = erase, !.reset = reset]
           next == Onward(j, todo)
           now == erase /\ todo = <<>>
<1>1. /\ power = "run" /\ At(t, "idle") /\ UNCHANGED <<stored, registered, power, eeprom_access_mutex, imported>>
      /\ job' = [u \in Tasks |-> IF u = t THEN next ELSE [job[u] EXCEPT !.alone = @ /\ ~now]]
      /\ saved' = IF now THEN [r \in Records |-> Nothing] ELSE saved
  BY DEF StartJob, Job
<1>2. next \in Jobs /\ JobOK(next) /\ ~next.alone /\ next.step \in {"crc", "erase", "reset", "idle"}
  <2>1. j \in Jobs
    BY IdleIs DEF Jobs, Idle
  <2> HIDE DEF j
  <2> QED
    BY <2>1, OnwardIs
<1> HIDE DEF next
<1>3. job \in [Tasks -> Jobs] /\ t \in Tasks
  BY DEF IInv, TypeOK, Tasks
<1>4. ASSUME NEW u \in Tasks, u # t
      PROVE  /\ job'[u] \in Jobs /\ job'[u].step = job[u].step /\ job'[u].todo = job[u].todo /\ job'[u].page = job[u].page
             /\ job'[u].value = job[u].value /\ job'[u].alone = (job[u].alone /\ ~now)
  <2>1. job'[u] = [job[u] EXCEPT !.alone = job[u].alone /\ ~now] /\ job[u] \in Jobs
    BY <1>1, <1>3, <1>4
  <2> HIDE DEF now
  <2> QED
    BY <2>1 DEF Jobs
<1>5. job'[t] = next /\ job' \in [Tasks -> Jobs]
  BY <1>1, <1>2, <1>3, <1>4
<1> HIDE DEF now
<1>6. TypeOK'
  <2>1. saved' \in [Records -> Content \union {Nothing}]
    BY <1>1 DEF IInv, TypeOK
  <2> QED
    BY <1>1, <1>5, <2>1 DEF IInv, TypeOK
<1>7. Phases'
  <2>1. (\A u \in Tasks : JobOK(job[u]))'
    <3>1. JobOK(job'[t])
      BY <1>2, <1>5
    <3>2. ASSUME NEW u \in Tasks, u # t PROVE JobOK(job'[u])
      <4>1. JobOK(job[u])
        BY DEF IInv, Phases
      <4>2. job'[u].alone => job[u].alone
        BY <1>4, <3>2
      <4>3. job'[u].step = job[u].step /\ job'[u].todo = job[u].todo /\ job'[u].page = job[u].page
        BY <1>4, <3>2
      <4> QED
        BY <4>1, <4>2, <4>3 DEF JobOK
    <3> QED
      BY <3>1, <3>2
  <2>2. \A u \in Users : ~At(u, "load")'
    BY <1>2, <1>4, <1>5 DEF IInv, Phases, At, Tasks
  <2>3. job'["boot"].step = "idle"
    BY <1>1, <1>4 DEF IInv, Phases, At, Tasks, Users
  <2>4. \A u \in Users : (At(u, "write") /\ job[u].page > 1)' => eeprom_access_mutex' = u
    BY <1>1, <1>2, <1>4, <1>5 DEF IInv, Phases, At, Tasks
  <2> QED
    BY <1>1, <2>1, <2>2, <2>3, <2>4 DEF Phases, At
<1>8. Contents'
  <2>1. \A x \in Records : Sound(x, ram[x])'
    BY <1>1 DEF IInv, Contents, Sound
  <2>2. \A x \in Records : FirstPage(x, stored[x])'
    BY <1>1 DEF IInv, Contents, FirstPage, Sound
  <2>3. \A u \in Tasks : job'[u].step \in {"copy", "write"} => Sound(Rec(u), job[u].value)'
    BY <1>1, <1>2, <1>4, <1>5 DEF IInv, Contents, Rec, Sound
  <2> QED
    BY <2>1, <2>2, <2>3 DEF Contents
<1>9. SavedSoFar'
  <2>1. \A x \in Records : saved'[x] = saved[x] \/ saved'[x] = Nothing
    BY <1>1
  <2>2. \A u \in Tasks : job'[u].alone => u # t /\ job[u].alone
    BY <1>2, <1>4, <1>5
  <2>3. \A u \in Tasks \ {t} : job'[u].page = job[u].page /\ job'[u].value = job[u].value /\ Rec(u)' = Rec(u)
    BY <1>4 DEF Rec
  <2>4. ASSUME NEW x \in Records, saved'[x] # Nothing
        PROVE  /\ stored'[x].rev = "zero" /\ stored'[x].crc = saved'[x]
               /\ \A q \in 1 .. Pages[x] : stored'[x].body[q] = saved'[x]
    BY <1>1, <2>1, <2>4 DEF IInv, SavedSoFar
  <2>5. ASSUME NEW u \in Tasks, job'[u].alone
        PROVE  /\ stored'[Rec(u)'].rev = "zero"
               /\ \A q \in 1 .. job'[u].page - 1 : stored'[Rec(u)'].body[q] = job'[u].value
    BY <1>1, <2>2, <2>3, <2>5 DEF IInv, SavedSoFar
  <2> QED
    BY <2>4, <2>5 DEF SavedSoFar
<1> QED
  BY <1>6, <1>7, <1>8, <1>9 DEF IInv

\* A handler that sets one record and may save it.
LEMMA RestConfigKeeps ==
  ASSUME IInv, NEW r \in Records, NEW v \in Values, NEW ee \in BOOLEAN, RestConfig(r, v, ee)
  PROVE  IInv'
<1>1. ram' = [ram EXCEPT ![r] = v] /\ StartJob("tcp", IF ee THEN <<r>> ELSE <<>>, FALSE, FALSE)
  BY DEF RestConfig, Edit
<1>2. ram' \in [Records -> Content] /\ \A x \in Records : ram'[x] \in Values \/ ram'[x] = ram[x]
  BY <1>1, ValuesApart DEF IInv, TypeOK
<1>3. (IF ee THEN <<r>> ELSE <<>>) \in Seq(Records) /\ "tcp" \in Users
  BY DEF Users
<1> QED
  BY <1>1, <1>2, <1>3, AskedKeeps

LEMMA RequestKeeps ==
  IInv => /\ eeprom_save_all \/ eeprom_erase \/ software_reboot => IInv'
          /\ \A c \in Controls : http_rest_system_control(c[1], c[2], c[3]) => IInv'
          /\ \A t \in Users, v \in Settings : learn_mode_save(t, v) => IInv'
<1> SUFFICES ASSUME IInv
             PROVE  /\ eeprom_save_all \/ eeprom_erase \/ software_reboot => IInv'
                    /\ \A c \in Controls : http_rest_system_control(c[1], c[2], c[3]) => IInv'
                    /\ \A t \in Users, v \in Settings : learn_mode_save(t, v) => IInv'
  OBVIOUS
<1>1. registered \in Seq(Records) /\ <<>> \in Seq(Records) /\ ram \in [Records -> Content] /\ "menu" \in Users /\ "tcp" \in Users
  BY DEF IInv, TypeOK, Users
<1>2. ASSUME eeprom_save_all PROVE IInv'
  BY <1>1, <1>2, AskedKeeps DEF eeprom_save_all
<1>3. ASSUME eeprom_erase PROVE IInv'
  BY <1>1, <1>3, AskedKeeps DEF eeprom_erase
<1>4. ASSUME software_reboot PROVE IInv'
  BY <1>1, <1>4, AskedKeeps DEF software_reboot
<1>5. ASSUME NEW c \in Controls, http_rest_system_control(c[1], c[2], c[3]) PROVE IInv'
  <2>1. c[1] \in BOOLEAN /\ c[2] \in BOOLEAN /\ c[3] \in BOOLEAN
    BY StoreAssumption
  <2>2. (IF c[1] THEN registered ELSE <<>>) \in Seq(Records)
    BY <1>1
  <2> QED
    BY <1>1, <1>5, <2>1, <2>2, AskedKeeps DEF http_rest_system_control
<1>6. ASSUME NEW t \in Users, NEW v \in Settings, learn_mode_save(t, v) PROVE IInv'
  <2>1. StartJob(t, <<"profile", "charge">>, FALSE, FALSE) /\ (ram' = ram \/ ram' = [ram EXCEPT !["profile"] = v, !["charge"] = v])
    BY <1>6 DEF learn_mode_save
  <2>2. <<"profile", "charge">> \in Seq(Records)
    BY RecordsAre
  <2>3. ram' \in [Records -> Content] /\ \A x \in Records : ram'[x] \in Values \/ ram'[x] = ram[x]
    <3>1. v \in Content /\ v \in Values
      BY ValuesApart
    <3> QED
      BY <1>1, <2>1, <3>1
  <2> QED
    BY <2>1, <2>2, <2>3, AskedKeeps
<1> QED
  BY <1>2, <1>3, <1>4, <1>5, <1>6

LEMMA RestKeeps ==
  ASSUME IInv, NEW v \in Settings, NEW ee \in BOOLEAN,
         \/ http_rest_scale_config(v, ee) \/ http_rest_neopixel_led_config(v, ee)
         \/ http_rest_wireless_config(v, ee) \/ http_rest_mini_12864_module_config(v, ee)
         \/ http_rest_servo_gate_config(v, ee) \/ apply_rest_motor_config(v, ee)
         \/ http_rest_charge_mode_config(v, ee) \/ http_rest_profile_config(v, ee)
  PROVE  IInv'
<1>1. PICK r \in Records, w \in {v, Default} : RestConfig(r, w, ee)
  BY RecordsAre, InRangeIs
     DEF http_rest_scale_config, http_rest_neopixel_led_config, http_rest_wireless_config,
         http_rest_mini_12864_module_config, http_rest_servo_gate_config, apply_rest_motor_config,
         http_rest_charge_mode_config, http_rest_profile_config
<1> QED
  BY <1>1, ValuesApart, RestConfigKeeps

\* The learn settings are stored as they came and limited in a step of their own.
LEMMA LearnConfigKeeps ==
  IInv => /\ \A v \in Settings, ee \in BOOLEAN : http_rest_learn_config(v, ee) => IInv'
          /\ LimitLearnConfig => IInv'
<1> SUFFICES ASSUME IInv
             PROVE  /\ \A v \in Settings, ee \in BOOLEAN : http_rest_learn_config(v, ee) => IInv'
                    /\ LimitLearnConfig => IInv'
  OBVIOUS
<1>1. job \in [Tasks -> Jobs] /\ "tcp" \in Tasks /\ ram \in [Records -> Content] /\ "learn" \in Records
  BY RecordsAre DEF IInv, TypeOK, Tasks, Users
<1>2. ASSUME NEW v \in Settings, NEW ee \in BOOLEAN, http_rest_learn_config(v, ee) PROVE IInv'
  <2> DEFINE todo == IF ee THEN <<"learn">> ELSE <<>>
             k == [Idle EXCEPT !.step = "limit", !.todo = todo]
  <2>1. /\ power = "run" /\ ram' = [ram EXCEPT !["learn"] = v] /\ job' = [job EXCEPT !["tcp"] = k]
        /\ UNCHANGED <<stored, registered, power, eeprom_access_mutex, saved, imported>>
    BY <1>2 DEF http_rest_learn_config, Edit, history
  <2>2. todo \in Seq(Records)
    BY <1>1
  <2> HIDE DEF todo
  <2>3. k \in Jobs /\ k.step = "limit" /\ k.alone = FALSE
    BY <2>2, ValuesApart DEF Idle, Jobs
  <2>4. StepDone("tcp")
    <3> HIDE DEF k
    <3> QED
      BY <1>1, <2>1, <2>3 DEF StepDone, JobOK, Tasks, Users, Busy
  <2>5. LiveTyped /\ InTurn
    <3> HIDE DEF k
    <3> QED
      BY <1>1, <2>1, <2>3, ValuesApart DEF IInv, TypeOK, Phases, LiveTyped, InTurn, At, Tasks, Users
  <2>6. \A x \in Records : ram'[x] \in Values \/ ram'[x] = ram[x]
    BY <1>1, <2>1, ValuesApart
  <2> QED
    BY <1>1, <2>1, <2>4, <2>5, <2>6, DoneKeeps DEF IInv, TypeOK, Phases
<1>3. ASSUME LimitLearnConfig PROVE IInv'
  <2> DEFINE k == Onward(job["tcp"], job["tcp"].todo)
             v == InRange("learn", ram["learn"])
  <2>1. /\ job["tcp"].step = "limit" /\ ram' = [ram EXCEPT !["learn"] = v]
        /\ job' = [job EXCEPT !["tcp"] = k]
        /\ UNCHANGED <<stored, registered, power, eeprom_access_mutex, saved, imported>>
    BY <1>3 DEF LimitLearnConfig, At, history
  <2>2. job["tcp"] \in Jobs /\ job["tcp"].todo \in Seq(Records)
    BY <1>1 DEF Jobs
  <2>3. k \in Jobs /\ JobOK(k) /\ ~k.alone /\ k.step \in {"crc", "erase", "reset", "idle"}
    BY <2>2, OnwardIs
  <2>4. v \in Values \union {ram["learn"]} /\ v \in Content
    BY <1>1, InRangeIs, ValuesApart
  <2> HIDE DEF k, v
  <2>5. StepDone("tcp")
    BY <1>1, <2>1, <2>3 DEF StepDone, Tasks, Users
  <2>6. power = "run"
    BY <2>1 DEF IInv, Phases, At, Users
  <2>7. LiveTyped /\ InTurn
    BY <1>1, <2>1, <2>4, <2>6 DEF IInv, TypeOK, Phases, LiveTyped, InTurn, At, Tasks, Users
  <2>8. \A x \in Records : ram'[x] \in Values \/ ram'[x] = ram[x]
    BY <1>1, <2>1, <2>4
  <2> QED
    BY <1>1, <2>1, <2>5, <2>7, <2>8, DoneKeeps DEF IInv, TypeOK, Phases
<1> QED
  BY <1>2, <1>3

\* A form of the menu.
LEMMA FormKeeps == IInv => \A r \in Records, v \in Settings : muif_list(r, v) => IInv'
<1> SUFFICES ASSUME IInv, NEW r \in Records, NEW v \in Settings, muif_list(r, v) PROVE IInv'
  OBVIOUS
<1>1. /\ power = "run" /\ At("menu", "idle") /\ ram' = [ram EXCEPT ![r] = v]
      /\ UNCHANGED <<stored, registered, power, job, eeprom_access_mutex, saved, imported>>
  BY DEF muif_list, Edit, history
<1>2. job \in [Tasks -> Jobs] /\ "menu" \in Tasks /\ ram \in [Records -> Content]
  BY DEF IInv, TypeOK, Tasks, Users
<1>3. StepDone("menu")
  BY <1>1, <1>2 DEF IInv, Phases, JobOK, StepDone, At
<1>4. LiveTyped /\ InTurn
  BY <1>1, <1>2, ValuesApart DEF IInv, TypeOK, Phases, LiveTyped, InTurn, At
<1>5. \A x \in Records : ram'[x] \in Values \/ ram'[x] = ram[x]
  BY <1>1, <1>2, ValuesApart
<1> QED
  BY <1>1, <1>2, <1>3, <1>4, <1>5, DoneKeeps DEF IInv, TypeOK, Phases

-----------------------------------------------------------------------------
(* Erasing, and the power. *)

LEMMA EraseKeeps == IInv => \A t \in Users : cat24c256_eeprom_erase(t) => IInv'
<1> SUFFICES ASSUME IInv, NEW t \in Users, cat24c256_eeprom_erase(t) PROVE IInv'
  OBVIOUS
<1> DEFINE r == Rec(t)
           j == job[t]
           rest == Tail(j.todo)
           new == _cat24c256_write_page(r, j.page, Erased)
           next == IF j.page < Pages[r] THEN [j EXCEPT !.page = @ + 1]
                   ELSE IF rest # <<>> THEN [j EXCEPT !.todo = rest, !.page = 1] ELSE Onward(j, <<>>)
<1>1. job \in [Tasks -> Jobs] /\ t \in Tasks /\ j.step = "erase"
  BY DEF IInv, TypeOK, Tasks, cat24c256_eeprom_erase, At
<1>2. j \in Jobs /\ j.todo # <<>> /\ j.todo \in Seq(Records) /\ j.page \in 1 .. Pages[r] /\ ~j.alone
  BY <1>1 DEF IInv, TypeOK, Jobs, Phases, JobOK, Busy, Rec
<1>3. r \in Records /\ Pages[r] \in Nat \ {0} /\ rest \in Seq(Records)
  BY <1>2, HeadTail, StoreAssumption DEF Rec
<1>4. /\ stored' = [stored EXCEPT ![r] = new] /\ saved' = [x \in Records |-> Nothing]
      /\ UNCHANGED <<ram, registered, power, eeprom_access_mutex, imported>>
      /\ job' = [u \in Tasks |->
                     CASE u # t -> [job[u] EXCEPT !.alone = FALSE]
                       [] u = t /\ j.page < Pages[r] -> [j EXCEPT !.page = @ + 1]
                       [] u = t /\ j.page = Pages[r] /\ rest # <<>> -> [j EXCEPT !.todo = rest, !.page = 1]
                       [] OTHER -> Onward(j, <<>>)]
  BY DEF cat24c256_eeprom_erase, live
<1>5. job'[t] = next
  <2>1. j.page < Pages[r] \/ j.page = Pages[r]
    BY <1>2, <1>3
  <2>2. CASE j.page < Pages[r]
    <3>0. ~(j.page = Pages[r])
      BY <1>2, <1>3, <2>2
    <3>1. job'[t] = [j EXCEPT !.page = @ + 1]
      BY <1>1, <1>4, <2>2, <3>0
    <3> QED
      BY <2>2, <3>1
  <2>3. CASE j.page = Pages[r] /\ rest # <<>>
    <3>1. ~(j.page < Pages[r])
      BY <1>3, <2>3
    <3>2. job'[t] = [j EXCEPT !.todo = rest, !.page = 1]
      BY <1>1, <1>4, <2>3, <3>1
    <3> QED
      BY <2>3, <3>1, <3>2
  <2>4. CASE j.page = Pages[r] /\ rest = <<>>
    <3>1. ~(j.page < Pages[r])
      BY <1>3, <2>4
    <3>2. job'[t] = Onward(j, <<>>)
      BY <1>1, <1>4, <2>4, <3>1
    <3> QED
      BY <2>4, <3>1, <3>2
  <2> QED
    BY <2>1, <2>2, <2>3, <2>4
<1>6. ASSUME NEW u \in Tasks, u # t
      PROVE  /\ job'[u] \in Jobs /\ job'[u].step = job[u].step /\ job'[u].todo = job[u].todo /\ job'[u].page = job[u].page
             /\ job'[u].value = job[u].value /\ job'[u].alone = FALSE
  <2>1. job'[u] = [job[u] EXCEPT !.alone = FALSE] /\ job[u] \in Jobs
    BY <1>1, <1>4, <1>6
  <2> QED
    BY <2>1 DEF Jobs
<1>7. next \in Jobs /\ JobOK(next) /\ ~next.alone /\ next.step \in {"crc", "erase", "reset", "idle"}
  <2>1. CASE j.page < Pages[r]
    <3> DEFINE k == [j EXCEPT !.page = j.page + 1]
    <3>1. k \in Jobs
      BY <1>2, <1>3 DEF Jobs
    <3>2. k.step = "erase" /\ k.todo = j.todo /\ k.page = j.page + 1 /\ k.alone = j.alone
      BY <1>1, <1>2 DEF Jobs
    <3>3. next = k
      BY <2>1
    <3> HIDE DEF k, next
    <3>4. JobOK(k)
      <4>1. j.page + 1 \in 1 .. Pages[Head(k.todo)]
        BY <1>2, <1>3, <2>1, <3>2 DEF Rec
      <4> QED
        BY <1>2, <3>2, <4>1 DEF JobOK
    <3> QED
      BY <1>2, <3>1, <3>2, <3>3, <3>4
  <2>2. CASE ~(j.page < Pages[r]) /\ rest # <<>>
    <3> DEFINE k == [j EXCEPT !.todo = rest, !.page = 1]
    <3>1. k \in Jobs
      BY <1>2, <1>3, JobFields
    <3>2. k.step = "erase" /\ k.todo = rest /\ k.page = 1 /\ k.alone = j.alone
      BY <1>1, <1>2 DEF Jobs
    <3>3. next = k
      BY <2>2
    <3> HIDE DEF k, next
    <3>4. JobOK(k)
      <4>1. 1 \in 1 .. Pages[Head(k.todo)]
        <5>1. Head(k.todo) \in Records
          BY <1>3, <2>2, <3>2, HeadTail
        <5>2. Pages[Head(k.todo)] \in Nat \ {0}
          BY <5>1, StoreAssumption
        <5> QED
          BY <5>2
      <4> QED
        BY <1>2, <2>2, <3>2, <4>1 DEF JobOK
    <3> QED
      BY <1>2, <3>1, <3>2, <3>3, <3>4
  <2>3. CASE ~(j.page < Pages[r]) /\ rest = <<>>
    <3>1. <<>> \in Seq(Records) /\ next = Onward(j, <<>>)
      BY <2>3
    <3> HIDE DEF next
    <3> QED
      BY <1>2, <3>1, OnwardIs
  <2> QED
    BY <2>1, <2>2, <2>3
<1>8. /\ new.rev \in {"zero", "legacy", "blank"} /\ new.crc \in Cells /\ new.body \in [1 .. Pages[r] -> Cells]
      /\ FirstPage(r, new)
  BY <1>2, <1>3, PageIs, WrittenIsInterrupted DEF IInv, Erased
<1> HIDE DEF next, new
<1>9. /\ DOMAIN stored' = Records /\ stored'[r] = new /\ \A x \in Records \ {r} : stored'[x] = stored[x]
  BY <1>3, <1>4 DEF IInv, TypeOK
<1>10. job' \in [Tasks -> Jobs] /\ \A u \in Tasks : ~job'[u].alone
  BY <1>4, <1>5, <1>6, <1>7
<1>11. TypeOK'
  <2>1. saved' \in [Records -> Content \union {Nothing}]
    BY <1>4
  <2>2. \A x \in Records : /\ stored'[x].rev \in {"zero", "legacy", "blank"} /\ stored'[x].crc \in Cells
                           /\ stored'[x].body \in [1 .. Pages[x] -> Cells]
    BY <1>8, <1>9 DEF IInv, TypeOK
  <2> QED
    BY <1>4, <1>9, <1>10, <2>1, <2>2 DEF IInv, TypeOK
<1>12. Phases'
  <2>1. (\A u \in Tasks : JobOK(job[u]))'
    BY <1>5, <1>6, <1>7 DEF IInv, Phases, JobOK
  <2>2. power = "run"
    BY <1>1 DEF IInv, Phases, At
  <2>3. job'["boot"].step = "idle"
    BY <1>6, <2>2 DEF IInv, Phases, At, Tasks, Users
  <2>4. \A u \in Users : ~At(u, "load")'
    BY <1>5, <1>6, <1>7 DEF IInv, Phases, At, Tasks
  <2>5. \A u \in Users : (At(u, "write") /\ job[u].page > 1)' => eeprom_access_mutex' = u
    BY <1>4, <1>5, <1>6, <1>7 DEF IInv, Phases, At, Tasks
  <2> QED
    BY <1>4, <2>1, <2>2, <2>3, <2>4, <2>5 DEF Phases, At
<1>13. Contents'
  <2>1. \A x \in Records : Sound(x, ram[x])'
    BY <1>4 DEF IInv, Contents, Sound
  <2>2. \A x \in Records : FirstPage(x, stored[x])'
    BY <1>4, <1>8, <1>9 DEF IInv, Contents, FirstPage, Sound
  <2>3. ASSUME NEW u \in Tasks, job'[u].step \in {"copy", "write"} PROVE Sound(Rec(u), job[u].value)'
    <3>1. u # t
      BY <1>5, <1>7, <2>3
    <3>2. Rec(u)' = Rec(u) /\ job'[u].value = job[u].value /\ job[u].step \in {"copy", "write"}
      BY <1>6, <2>3, <3>1 DEF Rec
    <3> QED
      BY <1>4, <3>2 DEF IInv, Contents, Sound
  <2> QED
    BY <2>1, <2>2, <2>3 DEF Contents
<1>14. SavedSoFar'
  BY <1>4, <1>10 DEF SavedSoFar
<1> QED
  BY <1>11, <1>12, <1>13, <1>14 DEF IInv

\* What the EEPROM holds may be in pieces; everything else starts anew.
LEMMA PoweredUpKeeps ==
  ASSUME IInv, PoweredUp, imported' = imported, DOMAIN stored' = Records,
         \A x \in Records : /\ stored'[x].rev \in {"zero", "legacy", "blank"} /\ stored'[x].crc \in Cells
                            /\ stored'[x].body \in [1 .. Pages[x] -> Cells] /\ FirstPage(x, stored'[x]),
         saved' \in [Records -> Content \union {Nothing}],
         \A x \in Records : saved'[x] # Nothing => saved'[x] = saved[x] /\ stored'[x] = stored[x]
  PROVE  IInv'
<1> DEFINE j == [Idle EXCEPT !.todo = Order, !.step = "load"]
<1>1. /\ ram' = [r \in Records |-> Zeros] /\ registered' = <<>> /\ power' = "boot" /\ eeprom_access_mutex' = Free
      /\ job' = [t \in Tasks |-> IF t = "boot" THEN j ELSE Idle]
  BY DEF PoweredUp
<1>2. j \in Jobs /\ JobOK(j) /\ ~j.alone /\ j.step = "load"
  BY BootJob
<1> HIDE DEF j
<1>3. ram' \in [Records -> Content] /\ \A r \in Records : ram'[r] \in Values
  BY <1>1, ValuesApart
<1>4. TypeOK'
  BY <1>1, <1>2, <1>3, IdleIs DEF IInv, TypeOK
<1>5. Phases'
  BY <1>1, <1>2, IdleIs DEF Phases, At, Tasks, Users
<1>6. Contents'
  BY <1>1, <1>2, <1>3, IdleIs DEF Contents, FirstPage, Sound
<1>7. SavedSoFar'
  BY <1>1, <1>2, IdleIs DEF IInv, SavedSoFar
<1> QED
  BY <1>4, <1>5, <1>6, <1>7 DEF IInv

LEMMA ResetKeeps == IInv => \A t \in Users : watchdog_reboot(t) => IInv'
  BY PoweredUpKeeps DEF watchdog_reboot, history, IInv, TypeOK, Contents

LEMMA PowerLossKeeps == IInv /\ PowerLoss => IInv'
<1> SUFFICES ASSUME IInv, PowerLoss PROVE IInv'
  OBVIOUS
<1>1. PICK t \in Tasks : stored' \in Page(t)
  BY DEF PowerLoss
<1>2. /\ PoweredUp /\ imported' = imported
      /\ saved' = [r \in Records |-> IF stored'[r] = stored[r] THEN saved[r] ELSE Nothing]
  BY DEF PowerLoss
<1> DEFINE r == Rec(t)
           Fits(x, s) == /\ s.rev \in {"zero", "legacy", "blank"} /\ s.crc \in Cells
                         /\ s.body \in [1 .. Pages[x] -> Cells] /\ FirstPage(x, s)
<1>3. DOMAIN stored = Records /\ \A x \in Records : Fits(x, stored[x])
  BY DEF IInv, TypeOK, Contents
<1>4. stored' = stored \/ (r \in Records /\ \E s : stored' = [stored EXCEPT ![r] = s] /\ Fits(r, s))
  <2>1. CASE job[t].step \in {"write", "erase"}
    <3>1. /\ job \in [Tasks -> Jobs] /\ job[t] \in Jobs /\ job[t].todo # <<>> /\ job[t].todo \in Seq(Records)
          /\ job[t].page \in 1 .. Pages[r] /\ job[t].value \in Content /\ job[t].crc \in Content
      BY <2>1 DEF IInv, TypeOK, Jobs, Phases, JobOK, Busy, Rec
    <3>2. r \in Records
      BY <3>1, HeadTail DEF Rec
    <3>3. CASE At(t, "write") /\ May(t)
      <4>0. Page(t) = {[stored EXCEPT ![r] = s] : s \in Interrupted(r, job[t].page, Buffer(t))}
        BY <3>3 DEF Page, At
      <4>1. PICK s \in Interrupted(r, job[t].page, Image("zero", job[t].value, job[t].crc)) : stored' = [stored EXCEPT ![r] = s]
        BY <1>1, <4>0 DEF Buffer
      <4>2. Sound(r, job[t].value)
        BY <3>3 DEF IInv, Contents, At
      <4>3. Fits(r, s)
        BY <3>1, <3>2, <4>1, <4>2, PageIs DEF IInv
      <4> QED
        BY <3>2, <4>1, <4>3
    <3>4. CASE At(t, "erase")
      <4>1. PICK s \in Interrupted(r, job[t].page, Image("blank", Blank, Blank)) : stored' = [stored EXCEPT ![r] = s]
        BY <1>1, <3>4 DEF Page, Erased, At
      <4>2. Fits(r, s)
        BY <3>1, <3>2, <4>1, PageIs DEF IInv
      <4> QED
        BY <3>2, <4>1, <4>2
    <3>5. CASE ~(At(t, "write") /\ May(t)) /\ ~At(t, "erase")
      BY <1>1, <3>5 DEF Page
    <3> QED
      BY <3>3, <3>4, <3>5
  <2>2. CASE job[t].step \notin {"write", "erase"}
    BY <1>1, <2>2 DEF Page, At
  <2> QED
    BY <2>1, <2>2
<1>5. DOMAIN stored' = Records /\ \A x \in Records : Fits(x, stored'[x])
  BY <1>3, <1>4
<1>7. saved' \in [Records -> Content \union {Nothing}]
  BY <1>2 DEF IInv, TypeOK
<1>8. \A x \in Records : saved'[x] # Nothing => saved'[x] = saved[x] /\ stored'[x] = stored[x]
  BY <1>2
<1> QED
  BY <1>2, <1>5, <1>7, <1>8, PoweredUpKeeps

-----------------------------------------------------------------------------
LEMMA NextIInv == IInv /\ [Next]_vars => IInv'
<1> SUFFICES ASSUME IInv, [Next]_vars PROVE IInv'
  OBVIOUS
<1>1. CASE load_config \/ eeprom_read_fails \/ motors_init
  BY <1>1, LoadKeeps, ReadFailsKeeps, MotorsKeep
<1>2. CASE \E t \in Tasks : save_config(t) \/ CopyConfig(t) \/ cat24c256_write(t) \/ WriteFails(t)
  BY <1>2, CollectKeeps, WriteKeeps, WriteFailsKeeps
<1>3. CASE eeprom_save_all \/ eeprom_erase \/ software_reboot
  BY <1>3, RequestKeeps
<1>4. CASE \E c \in Controls : http_rest_system_control(c[1], c[2], c[3])
  BY <1>4, RequestKeeps
<1>5. CASE \E v \in Settings, ee \in BOOLEAN :
             \/ http_rest_scale_config(v, ee) \/ http_rest_neopixel_led_config(v, ee)
             \/ http_rest_wireless_config(v, ee) \/ http_rest_mini_12864_module_config(v, ee)
             \/ http_rest_servo_gate_config(v, ee) \/ apply_rest_motor_config(v, ee)
             \/ http_rest_charge_mode_config(v, ee) \/ http_rest_profile_config(v, ee)
             \/ http_rest_learn_config(v, ee)
  BY <1>5, RestKeeps, LearnConfigKeeps
<1>6. CASE LimitLearnConfig
  BY <1>6, LearnConfigKeeps
<1>7. CASE \E r \in Records, v \in Settings : muif_list(r, v)
  BY <1>7, FormKeeps
<1>8. CASE \E t \in Users, v \in Settings : learn_mode_save(t, v)
  BY <1>8, RequestKeeps
<1>9. CASE \E t \in Users : cat24c256_eeprom_erase(t) \/ watchdog_reboot(t)
  BY <1>9, EraseKeeps, ResetKeeps
<1>10. CASE PowerLoss
  BY <1>10, PowerLossKeeps
<1>11. CASE UNCHANGED vars
  <2>1. UNCHANGED <<stored, ram, registered, power, job, eeprom_access_mutex, saved, imported>>
    BY <1>11 DEF vars, live, history
  <2>2. TypeOK'
    BY <2>1 DEF IInv, TypeOK
  <2>3. Phases'
    BY <2>1 DEF IInv, Phases, JobOK, At
  <2>4. Contents'
    BY <2>1 DEF IInv, Contents, FirstPage, Sound, Rec
  <2>5. SavedSoFar'
    BY <2>1 DEF IInv, SavedSoFar, Rec
  <2> QED
    BY <2>2, <2>3, <2>4, <2>5 DEF IInv
<1> QED
  BY <1>1, <1>2, <1>3, <1>4, <1>5, <1>6, <1>7, <1>8, <1>9, <1>10, <1>11 DEF Next

\* The inductive invariant.
THEOREM Invariance == Spec => []IInv
  BY InitIInv, NextIInv, PTL DEF Spec

\* Every task is at a record of its own with a page of it, and the EEPROM holds pages of the
\* values the modules have (load_config, save_config, eeprom_write).
THEOREM TypeCorrect == Spec => []TypeOK
  BY Invariance, PTL DEF IInv

\* Wherever the power goes and whatever fails, no module works with a record that is a
\* mixture of two saves or half erased, except one that was taken over by its old revision
\* number (load_config).
THEOREM WholeRecordsOnly == Spec => []RamIsWhole
<1>1. IInv => RamIsWhole
  BY DEF IInv, Contents, Sound, RamIsWhole
<1> QED
  BY Invariance, <1>1, PTL

\* What a save that ran through has written is what the next boot loads, until the record is
\* written again or the EEPROM is erased (save_config, cat24c256_write, load_config).
THEOREM FinishedSaveSurvives == Spec => []SaveSurvives
<1>1. IInv => SaveSurvives
  <2> SUFFICES ASSUME IInv, NEW r \in Records, saved[r] # Nothing
               PROVE  Load(stored[r]) = [from |-> "crc", value |-> saved[r]]
    BY DEF SaveSurvives
  <2>1. /\ stored[r].rev = "zero" /\ stored[r].crc = saved[r]
        /\ \A p \in 1 .. Pages[r] : stored[r].body[p] = saved[r]
    BY DEF IInv, SavedSoFar
  <2>2. saved[r] \in Content /\ saved[r] \in Cells /\ saved[r] # Torn
    BY ValuesApart DEF IInv, TypeOK
  <2>3. 1 \in 1 .. Pages[r] /\ DOMAIN stored[r].body = 1 .. Pages[r]
    BY StoreAssumption DEF IInv, TypeOK
  <2>4. Uniform(stored[r])
    BY <2>1, <2>2, <2>3 DEF Uniform
  <2>5. software_crc32(stored[r]) = saved[r]
    BY <2>1, <2>3, <2>4 DEF software_crc32
  <2> QED
    BY <2>1, <2>2, <2>5 DEF Load
<1> QED
  BY Invariance, <1>1, PTL
=============================================================================
