--------------------------- MODULE SessionLogProofs ---------------------------
(***************************************************************************)
(* The session log for a ring and a page of any size.                      *)
(*                                                                         *)
(* The argument: the log is written under stats_mutex only (Locked), so    *)
(* between two records, and at each step of one, it is known what the ring *)
(* holds, counted back from the head (RingHolds); a reader that nobody     *)
(* disturbs (quiet) finds each record at the slot it computes (Undisturbed). *)
(* As long as the ring is not full the head is the count (HeadFollows), so *)
(* the records are those in the slots below the count and a new one adds a *)
(* slot to them; in a full ring it takes the place of another: the totals  *)
(* exceed what the ring holds by what was overwritten (Accounted).         *)
(***************************************************************************)
EXTENDS SessionLog, FiniteSetTheorems, TLAPS

Record_t == [seq : Int, result : Results]
Recording == {"fields", "head", "count", "totals"}
Resetting == {"clear", "rewind"}
Reading == {"row", "slot", "copy", "copy_rest"}

Types ==
    /\ log_buffer \in [Slots -> Record_t]
    /\ log_head \in Slots /\ log_count \in 0 .. Max /\ seq_counter \in Nat
    /\ summary \in [{"total"} \union Results -> Int]
    /\ result \in Results
    /\ page \in [rows : Int, seen : 0 .. Max, slot : Slots, rec : Record_t]
    /\ export \in [st : {"none", "between", "page", "done"}, from : Nat, total : Int, rows : Seq(Record_t)]

\* Each task is at a step of its own, and writes only while it holds the mutex.
Locked ==
    /\ pc \in [Tasks -> Steps]
    /\ pc["menu"] \in {"idle"} \union Recording \union Resetting
    /\ pc["tcp"] \in {"idle"} \union Reading \union Resetting
    /\ pc["tcp"] \in Reading => export.st = "page"
    /\ export.st = "page" => pc["tcp"] \in Reading
    /\ \A t \in Tasks : pc[t] \in Recording \union Resetting => stats_mutex = t
    /\ quiet => stats_mutex = Free

\* The slot of the k-th newest record, and what the ring holds up to the n-th.
Back(k) == (log_head + Max - k) % Max
Smaller(n) == IF n < Max THEN n ELSE Max
Newest(top, n) == \A k \in 1 .. n : log_buffer[Back(k)].seq = top - k + 1

RingHolds ==
    /\ pc["menu"] \notin {"fields", "head", "count"} =>
          log_count = Smaller(seq_counter) /\ Newest(seq_counter, log_count)
    /\ pc["menu"] \in {"fields", "head"} =>
          /\ seq_counter >= 1 /\ log_count = Smaller(seq_counter - 1)
          /\ log_buffer[log_head].seq = seq_counter
          /\ \A k \in 1 .. Max - 1 : k < seq_counter => log_buffer[Back(k)].seq = seq_counter - k
    /\ pc["menu"] = "count" =>
          seq_counter >= 1 /\ log_count = Smaller(seq_counter - 1) /\ Newest(seq_counter, Smaller(seq_counter))

Counted(n) == summary["total"] = n /\ summary["PASS"] + summary["UNDER"] + summary["OVER"] = n
TotalsFollow ==
    /\ pc["menu"] \in Recording => Counted(seq_counter - 1)
    /\ \A t \in Tasks : pc[t] = "rewind" => Counted(0)
    /\ pc["menu"] \notin Recording /\ (\A t \in Tasks : pc[t] # "rewind") => Counted(seq_counter)

\* While a record is written the head is where it goes, or one further.
HeadFollows ==
    log_count < Max => log_head = IF pc["menu"] = "count" THEN (log_count + 1) % Max ELSE log_count

\* The slots of a ring below n whose record has the result r, and a count of r that they
\* explain when there have been throws of which they hold the newest n.
Holding(ring, n, r) == {s \in 0 .. n - 1 : ring[s].result = r}
Explained(ring, n, r, throws, count) ==
    Cardinality(Holding(ring, n, r)) <= count /\ count <= Cardinality(Holding(ring, n, r)) + (throws - n)
OneIf(b) == IF b THEN 1 ELSE 0
Accounted ==
    \A r \in Results :
        /\ pc["menu"] = "fields" => Explained(log_buffer, log_count, r, seq_counter - 1, summary[r])
        /\ pc["menu"] \in {"head", "count", "totals"} =>
              Explained(log_buffer, Smaller(seq_counter), r, seq_counter, summary[r] + OneIf(result = r))
        /\ \A t \in Tasks : pc[t] = "rewind" => summary[r] = 0
        /\ pc["menu"] \notin Recording /\ (\A t \in Tasks : pc[t] # "rewind") =>
              Explained(log_buffer, log_count, r, seq_counter, summary[r])

Undisturbed ==
    quiet =>
        /\ export.st \in {"between", "page"} =>
              /\ export.from <= log_count /\ Len(export.rows) = export.from
              /\ \A i \in 1 .. export.from : export.rows[i] = log_buffer[At(i)]
        /\ export.st = "page" => export.total = log_count
        /\ pc["tcp"] \in {"slot", "copy", "copy_rest"} => export.from < log_count
        /\ pc["tcp"] = "slot" => page.seen = log_count
        /\ pc["tcp"] \in {"copy", "copy_rest"} => page.slot = At(export.from + 1)
        /\ pc["tcp"] = "copy_rest" => page.rec.seq = log_buffer[page.slot].seq
        /\ export.st = "done" =>
              Len(export.rows) = log_count /\ \A i \in 1 .. log_count : export.rows[i] = log_buffer[At(i)]

-----------------------------------------------------------------------------
(* Arithmetic of the ring. *)

LEMMA Wrap ==
  ASSUME NEW a \in 0 .. 2 * Max - 1
  PROVE  a % Max = IF a < Max THEN a ELSE a - Max
<1>1. Max \in Nat /\ Max > 0 /\ a \in Nat
  BY LogAssumption
<1>2. CASE a < Max
  <2>1. a % Max = a
    BY <1>1, <1>2
  <2> QED
    BY <2>1, <1>2
<1>3. CASE ~(a < Max)
  <2> DEFINE b == a - Max
  <2>1. b \in 0 .. Max - 1 /\ a = b + Max
    BY <1>1, <1>3
  <2>2. (b + Max) % Max = b % Max
    BY <1>1, <2>1
  <2>3. b % Max = b
    BY <1>1, <2>1
  <2> QED
    BY <1>3, <2>1, <2>2, <2>3
<1> QED
  BY <1>2, <1>3

LEMMA BackIs ==
  ASSUME log_head \in Slots, NEW k \in 1 .. Max
  PROVE  Back(k) = IF log_head < k THEN log_head + Max - k ELSE log_head - k
  BY Wrap, LogAssumption DEF Back, Slots

LEMMA AtIs ==
  ASSUME log_head \in Slots, log_count \in 0 .. Max, NEW i \in 1 .. log_count
  PROVE  At(i) = Back(log_count - i + 1) /\ At(i) \in Slots
<1>1. log_count - i + 1 \in 1 .. Max /\ log_head + Max - log_count + i - 1 = log_head + Max - (log_count - i + 1)
  BY LogAssumption DEF Slots
<1>2. At(i) = Back(log_count - i + 1)
  BY <1>1, LogAssumption DEF At, Back, Slots
<1>3. Back(log_count - i + 1) \in Slots
  BY <1>1, BackIs, LogAssumption DEF Slots
<1> QED
  BY <1>2, <1>3

LEMMA ModSlot == \A a \in Int : a % Max \in Slots
  BY LogAssumption DEF Slots

\* The head moves on by one slot.
LEMMA HeadIs ==
  ASSUME log_head \in Slots
  PROVE  (log_head + 1) % Max = (IF log_head + 1 < Max THEN log_head + 1 ELSE 0) /\ (log_head + 1) % Max \in Slots
  BY Wrap, LogAssumption DEF Slots

\* The slot the page handler computes.
LEMMA SlotIs ==
  ASSUME log_head \in Slots, log_count \in 0 .. Max, NEW from \in 0 .. log_count - 1
  PROVE  (((log_head + Max - log_count) % Max) + from) % Max = At(from + 1)
<1> DEFINE start == (log_head + Max - log_count) % Max
<1>1. start = IF log_head < log_count THEN log_head + Max - log_count ELSE log_head - log_count
  BY Wrap, LogAssumption DEF Slots
<1>2. start \in Int /\ from \in Int /\ start + from \in 0 .. 2 * Max - 1
  BY <1>1, LogAssumption DEF Slots
<1>3. (start + from) % Max = IF start + from < Max THEN start + from ELSE start + from - Max
  <2> HIDE DEF start
  <2> DEFINE sum == start + from
  <2>1. sum \in 0 .. 2 * Max - 1 /\ sum = start + from
    BY <1>2
  <2> HIDE DEF sum
  <2>2. sum % Max = IF sum < Max THEN sum ELSE sum - Max
    BY <2>1, Wrap
  <2> QED
    BY <1>2, <2>1, <2>2, LogAssumption
<1>4. from + 1 \in 1 .. log_count /\ log_count - (from + 1) + 1 \in 1 .. Max
  BY LogAssumption
<1>5. At(from + 1) = Back(log_count - (from + 1) + 1)
  BY <1>4, AtIs
<1>6. Back(log_count - (from + 1) + 1) = IF log_head < log_count - from THEN log_head + Max - (log_count - from)
                                        ELSE log_head - (log_count - from)
  BY <1>4, BackIs, LogAssumption DEF Slots
<1> HIDE DEF start
<1>7. (start + from) % Max = At(from + 1)
  BY <1>1, <1>3, <1>5, <1>6, LogAssumption DEF Slots
<1> QED
  BY <1>7 DEF start

-----------------------------------------------------------------------------
(* Types and the mutex. *)

LEMMA PageFields ==
  ASSUME NEW p \in [rows : Int, seen : 0 .. Max, slot : Slots, rec : Record_t]
  PROVE  /\ \A v \in 0 .. Max : [p EXCEPT !.seen = v] \in [rows : Int, seen : 0 .. Max, slot : Slots, rec : Record_t]
         /\ \A v \in Slots : [p EXCEPT !.slot = v] \in [rows : Int, seen : 0 .. Max, slot : Slots, rec : Record_t]
         /\ \A v \in Record_t, n \in Int :
               [p EXCEPT !.rec = v, !.rows = n] \in [rows : Int, seen : 0 .. Max, slot : Slots, rec : Record_t]
  OBVIOUS

LEMMA RecordFields ==
  ASSUME NEW p \in Record_t
  PROVE  /\ \A v \in Int : [p EXCEPT !.seq = v] \in Record_t
         /\ \A v \in Results : [p EXCEPT !.result = v] \in Record_t
  BY DEF Record_t

LEMMA InitTyped == Init => Types /\ Locked
<1> SUFFICES ASSUME Init PROVE Types /\ Locked
  OBVIOUS
<1>1. NoRecord \in Record_t /\ 0 \in Slots
  BY LogAssumption DEF NoRecord, Record_t, Results, Slots
<1>2. Types
  BY <1>1, LogAssumption DEF Init, Types, NoPage, NoThrows, Results
<1>3. Locked
  BY DEF Init, Locked, Steps, Recording, Resetting, Reading, Tasks
<1> QED
  BY <1>2, <1>3

LEMMA NextLocked == Locked /\ [Next]_vars => Locked'
<1> SUFFICES ASSUME Locked, [Next]_vars PROVE Locked'
  OBVIOUS
<1> USE DEF Locked, Steps, Recording, Resetting, Reading, Tasks, Free, Goto, Take, Give, Hold, reader, log
<1>1. ASSUME NEW r \in Outcomes, session_stats_record(r) PROVE Locked'
  BY <1>1 DEF session_stats_record
<1>2. CASE WriteFields
  BY <1>2 DEF WriteFields
<1>3. CASE AdvanceHead
  BY <1>3 DEF AdvanceHead
<1>4. CASE CountRecord
  BY <1>4 DEF CountRecord
<1>5. CASE RunningTotals
  BY <1>5 DEF RunningTotals
<1>6. ASSUME NEW t \in Tasks, session_stats_reset(t) PROVE Locked'
  BY <1>6 DEF session_stats_reset
<1>7. ASSUME NEW t \in Tasks, ClearSummary(t) PROVE Locked'
  BY <1>7 DEF ClearSummary
<1>8. ASSUME NEW t \in Tasks, Rewind(t) PROVE Locked'
  BY <1>8 DEF Rewind
<1>9. CASE exportSessionCsv
  BY <1>9 DEF exportSessionCsv
<1>10. CASE http_rest_session_log
  BY <1>10 DEF http_rest_session_log
<1>11. CASE EndPage
  BY <1>11 DEF EndPage
<1>12. CASE session_stats_get
  BY <1>12 DEF session_stats_get
<1>13. CASE Slot
  BY <1>13 DEF Slot
<1>14. CASE CopyRecord
  BY <1>14 DEF CopyRecord
<1>15. CASE CopyRest
  BY <1>15 DEF CopyRest
<1>16. CASE UNCHANGED vars
  BY <1>16 DEF vars
<1> QED
  BY <1>1, <1>2, <1>3, <1>4, <1>5, <1>6, <1>7, <1>8, <1>9, <1>10, <1>11, <1>12, <1>13, <1>14, <1>15, <1>16
     DEF Next, Record, Reset, Export

LEMMA NextTypes == Types /\ Locked /\ [Next]_vars => Types'
<1> SUFFICES ASSUME Types, Locked, [Next]_vars PROVE Types'
  OBVIOUS
<1> USE DEF Types, Goto, reader, log
<1>1. ASSUME NEW r \in Outcomes, session_stats_record(r) PROVE Types'
  <2>1. [log_buffer[log_head] EXCEPT !.seq = seq_counter + 1] \in Record_t
    <3>1. log_buffer[log_head] \in Record_t /\ seq_counter + 1 \in Int
      OBVIOUS
    <3> QED
      BY <3>1, RecordFields
  <2>2. log_buffer' = [log_buffer EXCEPT ![log_head] = [log_buffer[log_head] EXCEPT !.seq = seq_counter + 1]]
    BY <1>1 DEF session_stats_record
  <2>3. r \in Results
    BY LogAssumption DEF Results
  <2> QED
    BY <1>1, <2>1, <2>2, <2>3 DEF session_stats_record
<1>2. CASE WriteFields
  <2>1. [log_buffer[log_head] EXCEPT !.result = result] \in Record_t
    BY RecordFields
  <2>2. log_buffer' = [log_buffer EXCEPT ![log_head] = [log_buffer[log_head] EXCEPT !.result = result]]
    BY <1>2 DEF WriteFields
  <2> QED
    BY <1>2, <2>1, <2>2 DEF WriteFields
<1>3. CASE AdvanceHead
  BY <1>3, HeadIs DEF AdvanceHead
<1>4. CASE CountRecord
  BY <1>4, LogAssumption DEF CountRecord
<1>5. CASE RunningTotals
  BY <1>5 DEF RunningTotals
<1>6. ASSUME NEW t \in Tasks, session_stats_reset(t) PROVE Types'
  BY <1>6 DEF session_stats_reset
<1>7. ASSUME NEW t \in Tasks, ClearSummary(t) PROVE Types'
  BY <1>7 DEF ClearSummary, NoThrows, Results
<1>8. ASSUME NEW t \in Tasks, Rewind(t) PROVE Types'
  BY <1>8, LogAssumption DEF Rewind, Slots
<1>9. CASE exportSessionCsv
  BY <1>9 DEF exportSessionCsv
<1>10. CASE http_rest_session_log
  <2>1. export' = [[export EXCEPT !.st = "page"] EXCEPT !.total = log_count]
    BY <1>10 DEF http_rest_session_log
  <2>2. UNCHANGED <<log_buffer, log_head, log_count, seq_counter, summary, result, page>>
    BY <1>10 DEF http_rest_session_log
  <2>3. log_count \in Int
    OBVIOUS
  <2>4. [[export EXCEPT !.st = "page"] EXCEPT !.total = log_count]
        \in [st : {"none", "between", "page", "done"}, from : Nat, total : Int, rows : Seq(Record_t)]
    BY <2>3
  <2> QED
    BY <2>1, <2>2, <2>4
<1>11. CASE EndPage
  <2>1. NoPage \in [rows : Int, seen : 0 .. Max, slot : Slots, rec : Record_t]
    BY LogAssumption DEF NoPage, NoRecord, Record_t, Results, Slots
  <2> QED
    BY <1>11, <2>1 DEF EndPage
<1>12. CASE session_stats_get
  <2>1. page' = [page EXCEPT !.seen = log_count]
    BY <1>12 DEF session_stats_get
  <2>2. [page EXCEPT !.seen = log_count] \in [rows : Int, seen : 0 .. Max, slot : Slots, rec : Record_t]
    BY PageFields
  <2>3. UNCHANGED <<log_buffer, log_head, log_count, seq_counter, summary, result, export>>
    BY <1>12 DEF session_stats_get
  <2> QED
    BY <2>1, <2>2, <2>3
<1>13. CASE Slot
  <2>1. PICK count \in {page.seen, log_count} :
          page' = [page EXCEPT !.slot = (((log_head + Max - count) % Max) + export.from) % Max]
    BY <1>13 DEF Slot
  <2> DEFINE start == (log_head + Max - count) % Max
             s == (start + export.from) % Max
  <2>2. start \in Int
    BY LogAssumption DEF Slots
  <2>3. s \in Slots
    <3> HIDE DEF start
    <3> QED
      BY <2>2, ModSlot
  <2>4. page' = [page EXCEPT !.slot = s]
    BY <2>1
  <2> HIDE DEF s
  <2> QED
    BY <1>13, <2>3, <2>4, PageFields DEF Slot
<1>14. CASE CopyRecord
  <2>1. [page.rec EXCEPT !.seq = log_buffer[page.slot].seq] \in Record_t
    BY RecordFields DEF Record_t
  <2>2. page' = [page EXCEPT !.rec = [page.rec EXCEPT !.seq = log_buffer[page.slot].seq], !.rows = page.rows]
    BY <1>14 DEF CopyRecord
  <2> QED
    BY <1>14, <2>1, <2>2, PageFields DEF CopyRecord
<1>15. CASE CopyRest
  <2> DEFINE rec == [page.rec EXCEPT !.result = log_buffer[page.slot].result]
  <2>1. rec \in Record_t
    BY RecordFields DEF Record_t
  <2>2. page' = [page EXCEPT !.rec = rec, !.rows = @ + 1]
        /\ export' = [export EXCEPT !.from = @ + 1, !.rows = Append(@, rec)]
    BY <1>15 DEF CopyRest
  <2> HIDE DEF rec
  <2>3. Append(export.rows, rec) \in Seq(Record_t) /\ export.from + 1 \in Nat
    BY <2>1
  <2>4. export' \in [st : {"none", "between", "page", "done"}, from : Nat, total : Int, rows : Seq(Record_t)]
    BY <2>2, <2>3
  <2>5. page' \in [rows : Int, seen : 0 .. Max, slot : Slots, rec : Record_t]
    <3>1. page' = [page EXCEPT !.rec = rec, !.rows = page.rows + 1] /\ page.rows + 1 \in Int
      BY <2>2
    <3> QED
      BY <2>1, <3>1, PageFields
  <2> QED
    BY <1>15, <2>4, <2>5 DEF CopyRest
<1>16. CASE UNCHANGED vars
  BY <1>16 DEF vars
<1> QED
  BY <1>1, <1>2, <1>3, <1>4, <1>5, <1>6, <1>7, <1>8, <1>9, <1>10, <1>11, <1>12, <1>13, <1>14, <1>15, <1>16
     DEF Next, Record, Reset, Export

-----------------------------------------------------------------------------
(* What the ring holds. *)

LEMMA InitRing == Init => RingHolds /\ TotalsFollow /\ HeadFollows /\ Accounted /\ Undisturbed
<1> SUFFICES ASSUME Init PROVE RingHolds /\ TotalsFollow /\ HeadFollows /\ Accounted /\ Undisturbed
  OBVIOUS
<1> USE DEF Init, Tasks
<1>1. RingHolds
  BY LogAssumption DEF RingHolds, Smaller, Newest
<1>2. TotalsFollow
  BY DEF TotalsFollow, Counted, NoThrows, Recording
<1>3. Undisturbed
  BY DEF Undisturbed
<1>4. HeadFollows
  BY DEF HeadFollows
<1>5. \A r : Holding(log_buffer, 0, r) = {}
  BY DEF Holding
<1>6. \A r \in Results : summary[r] = 0
  BY DEF NoThrows, Results
<1>7. \A r \in Results : Explained(log_buffer, log_count, r, seq_counter, summary[r])
  <2>1. Cardinality({}) = 0 /\ log_count = 0 /\ seq_counter = 0
    BY FS_EmptySet
  <2>2. \A r \in Results : Cardinality(Holding(log_buffer, log_count, r)) = 0
    BY <1>5, <2>1
  <2> QED
    BY <1>6, <2>1, <2>2 DEF Explained
<1>8. pc["menu"] = "idle" /\ pc["tcp"] = "idle"
  OBVIOUS
<1>9. Accounted
  BY <1>7, <1>8 DEF Accounted, Recording
<1> QED
  BY <1>1, <1>2, <1>3, <1>4, <1>9

\* Nothing of the ring moves, and the recorder stays where it is or away from it.
LEMMA RingKept ==
  ASSUME RingHolds, log_head' = log_head, log_count' = log_count, seq_counter' = seq_counter,
         \A s \in Slots : log_buffer'[s].seq = log_buffer[s].seq,
         Types,
         \/ pc'["menu"] = pc["menu"]
         \/ pc["menu"] \notin {"fields", "head", "count"} /\ pc'["menu"] \notin {"fields", "head", "count"}
         \/ pc["menu"] = "fields" /\ pc'["menu"] = "head"
  PROVE  RingHolds'
<1>1. \A k \in 1 .. Max : Back(k)' = Back(k) /\ Back(k) \in Slots
  BY BackIs, LogAssumption DEF Types, Back, Slots
<1>2. \A n \in 0 .. Max : \A top : Newest(top, n) => \A k \in 1 .. n : log_buffer'[Back(k)'].seq = top - k + 1
  BY <1>1, LogAssumption DEF Newest
<1>3. log_buffer'[log_head'].seq = log_buffer[log_head].seq
  BY DEF Types
<1>4. \A k \in 1 .. Max - 1 : log_buffer'[Back(k)'].seq = log_buffer[Back(k)].seq
  BY <1>1, LogAssumption
<1>5. Smaller(seq_counter) \in 0 .. Max /\ log_count \in 0 .. Max
  BY LogAssumption DEF Smaller, Types
<1>6. CASE pc["menu"] \notin {"fields", "head", "count"}
  BY <1>2, <1>5, <1>6 DEF RingHolds, Smaller, Newest
<1>7. CASE pc["menu"] \in {"fields", "head"}
  BY <1>3, <1>4, <1>7 DEF RingHolds, Smaller
<1>8. CASE pc["menu"] = "count"
  BY <1>2, <1>5, <1>8 DEF RingHolds, Smaller, Newest
<1> QED
  BY <1>6, <1>7, <1>8

LEMMA NextRing == Types /\ Locked /\ RingHolds /\ [Next]_vars => RingHolds'
<1> SUFFICES ASSUME Types, Locked, RingHolds, [Next]_vars PROVE RingHolds'
  OBVIOUS
<1> USE DEF Goto, reader, log
<1>0. pc["menu"] \notin Recording \/ stats_mutex = "menu"
  BY DEF Locked, Tasks
<1>1. ASSUME NEW r \in Outcomes, session_stats_record(r) PROVE RingHolds'
  <2>1. /\ pc["menu"] = "idle" /\ pc'["menu"] = "fields"
        /\ seq_counter' = seq_counter + 1 /\ log_head' = log_head /\ log_count' = log_count
        /\ log_buffer' = [log_buffer EXCEPT ![log_head] = [log_buffer[log_head] EXCEPT !.seq = seq_counter + 1]]
    BY <1>1 DEF session_stats_record, Locked, Tasks
  <2>2. log_count = Smaller(seq_counter) /\ Newest(seq_counter, log_count)
    BY <2>1 DEF RingHolds
  <2>3. log_buffer'[log_head'].seq = seq_counter'
    BY <2>1 DEF Types, Record_t
  <2>4. ASSUME NEW k \in 1 .. Max - 1, k < seq_counter'
        PROVE  log_buffer'[Back(k)'].seq = seq_counter' - k
    <3>1. Back(k)' = Back(k) /\ Back(k) \in Slots /\ Back(k) # log_head
      <4>1. k \in 1 .. Max /\ log_head \in 0 .. Max - 1 /\ Max \in Nat
        BY LogAssumption DEF Types, Slots
      <4>2. Back(k) = IF log_head < k THEN log_head + Max - k ELSE log_head - k
        BY <4>1, BackIs DEF Types
      <4>3. Back(k)' = Back(k)
        BY <2>1 DEF Back
      <4> QED
        BY <4>1, <4>2, <4>3 DEF Slots
    <3>2. log_buffer'[Back(k)] = log_buffer[Back(k)]
      BY <2>1, <3>1 DEF Types
    <3>3. k \in 1 .. log_count
      BY <2>1, <2>2, <2>4 DEF Smaller, Types
    <3>4. log_buffer[Back(k)].seq = seq_counter - k + 1
      BY <2>2, <3>3 DEF Newest
    <3> QED
      BY <2>1, <3>1, <3>2, <3>4 DEF Types
  <2>5. seq_counter' >= 1 /\ log_count' = Smaller(seq_counter' - 1)
    <3>1. seq_counter \in Nat
      BY DEF Types
    <3>2. seq_counter' - 1 = seq_counter /\ seq_counter' >= 1
      BY <2>1, <3>1
    <3> QED
      BY <2>1, <2>2, <3>2, Zenon
  <2> QED
    BY <2>1, <2>3, <2>4, <2>5 DEF RingHolds, Smaller
<1>2. CASE WriteFields
  <2>1. \A s \in Slots : log_buffer'[s].seq = log_buffer[s].seq
    BY <1>2 DEF WriteFields, Types, Record_t
  <2> QED
    BY <1>2, <2>1, RingKept DEF WriteFields, Locked, Tasks
<1>3. CASE AdvanceHead
  <2>1. /\ pc["menu"] = "head" /\ pc'["menu"] = "count"
        /\ seq_counter' = seq_counter /\ log_head' = (log_head + 1) % Max /\ log_count' = log_count
        /\ log_buffer' = log_buffer
    BY <1>3 DEF AdvanceHead, Locked, Tasks
  <2>2. /\ seq_counter >= 1 /\ log_count = Smaller(seq_counter - 1)
        /\ log_buffer[log_head].seq = seq_counter
        /\ \A k \in 1 .. Max - 1 : k < seq_counter => log_buffer[Back(k)].seq = seq_counter - k
    BY <2>1 DEF RingHolds
  <2>3. log_head' = (IF log_head + 1 < Max THEN log_head + 1 ELSE 0) /\ log_head' \in Slots
    BY <2>1, HeadIs DEF Types
  <2>4. ASSUME NEW k \in 1 .. Max
        PROVE  Back(k)' = IF k = 1 THEN log_head ELSE Back(k - 1)
    <3>1. Back(k)' = (log_head' + Max - k) % Max
      BY DEF Back
    <3>2. log_head' + Max - k \in 0 .. 2 * Max - 1
      BY <2>3, LogAssumption DEF Slots
    <3>3. Back(k)' = IF log_head' < k THEN log_head' + Max - k ELSE log_head' - k
      BY <2>3, <3>1, <3>2, Wrap, LogAssumption DEF Slots
    <3>4. k # 1 => Back(k - 1) = IF log_head < k - 1 THEN log_head + Max - (k - 1) ELSE log_head - (k - 1)
      BY BackIs, LogAssumption DEF Types
    <3> QED
      BY <2>3, <3>3, <3>4, LogAssumption DEF Types, Slots
  <2>5. ASSUME NEW k \in 1 .. Smaller(seq_counter)
        PROVE  log_buffer'[Back(k)'].seq = seq_counter' - k + 1
    <3>1. k \in 1 .. Max /\ k <= seq_counter
      BY LogAssumption DEF Smaller, Types
    <3>2. CASE k = 1
      BY <2>1, <2>2, <2>4, <3>1, <3>2 DEF Types
    <3>3. CASE k # 1
      <4>1. k - 1 \in 1 .. Max - 1 /\ k - 1 < seq_counter
        BY <3>1, <3>3, LogAssumption DEF Types
      <4>2. log_buffer[Back(k - 1)].seq = seq_counter - (k - 1)
        BY <2>2, <4>1
      <4> QED
        BY <2>1, <2>4, <3>1, <3>3, <4>2 DEF Types
    <3> QED
      BY <3>2, <3>3
  <2> QED
    BY <2>1, <2>2, <2>5 DEF RingHolds, Newest, Smaller
<1>4. CASE CountRecord
  <2>1. /\ pc["menu"] = "count" /\ pc'["menu"] = "totals"
        /\ UNCHANGED <<seq_counter, log_head, log_buffer>>
        /\ log_count' = IF log_count < Max THEN log_count + 1 ELSE log_count
    BY <1>4 DEF CountRecord, Locked, Tasks
  <2>2. seq_counter >= 1 /\ log_count = Smaller(seq_counter - 1) /\ Newest(seq_counter, Smaller(seq_counter))
    BY <2>1 DEF RingHolds
  <2>3. log_count' = Smaller(seq_counter)
    BY <2>1, <2>2, LogAssumption DEF Smaller, Types
  <2> QED
    BY <2>1, <2>2, <2>3 DEF RingHolds, Newest, Smaller, Back
<1>5. CASE RunningTotals
  BY <1>5, RingKept DEF RunningTotals, Locked, Tasks
<1>6. ASSUME NEW t \in Tasks, session_stats_reset(t) PROVE RingHolds'
  BY <1>6, RingKept DEF session_stats_reset, Locked, Tasks
<1>7. ASSUME NEW t \in Tasks, ClearSummary(t) PROVE RingHolds'
  BY <1>7, RingKept DEF ClearSummary, Locked, Tasks
<1>8. ASSUME NEW t \in Tasks, Rewind(t) PROVE RingHolds'
  <2>1. log_count' = 0 /\ seq_counter' = 0
    BY <1>8 DEF Rewind
  <2>2. pc'["menu"] \notin {"fields", "head", "count"}
    BY <1>8 DEF Rewind, Locked, Tasks, Recording, Resetting
  <2> QED
    BY <2>1, <2>2, LogAssumption DEF RingHolds, Newest, Smaller
<1>9. CASE Export
  <2>1. UNCHANGED <<log_buffer, log_head, log_count, seq_counter>> /\ pc'["menu"] = pc["menu"]
    BY <1>9 DEF Export, exportSessionCsv, http_rest_session_log, EndPage, session_stats_get, Slot, CopyRecord,
                CopyRest, Locked, Tasks
  <2> QED
    BY <2>1, RingKept
<1>10. CASE UNCHANGED vars
  BY <1>10, RingKept DEF vars
<1> QED
  BY <1>1, <1>2, <1>3, <1>4, <1>5, <1>6, <1>7, <1>8, <1>9, <1>10 DEF Next, Record, Reset

LEMMA NextTotals == Types /\ Locked /\ TotalsFollow /\ [Next]_vars => TotalsFollow'
<1> SUFFICES ASSUME Types, Locked, TotalsFollow, [Next]_vars PROVE TotalsFollow'
  OBVIOUS
<1> USE DEF Goto, reader, log, Locked, Tasks, Take, Recording, Resetting, Reading, TotalsFollow
<1>1. ASSUME NEW r \in Outcomes, session_stats_record(r) PROVE TotalsFollow'
  <2>1. /\ pc["menu"] = "idle" /\ pc' = [pc EXCEPT !["menu"] = "fields"] /\ stats_mutex = Free
        /\ seq_counter' = seq_counter + 1 /\ summary' = summary
    BY <1>1 DEF session_stats_record
  <2>2. \A t \in Tasks : pc[t] # "rewind"
    BY <2>1 DEF Free
  <2>3. Counted(seq_counter)
    BY <2>1, <2>2
  <2>4. pc'["menu"] = "fields" /\ \A t \in Tasks : pc'[t] # "rewind"
    BY <2>1, <2>2
  <2>5. seq_counter' - 1 = seq_counter
    BY <2>1 DEF Types
  <2>6. Counted(seq_counter - 1)'
    BY <2>1, <2>3, <2>5 DEF Counted
  <2> QED
    BY <2>4, <2>6
<1>2. CASE WriteFields
  BY <1>2 DEF WriteFields, Counted
<1>3. CASE AdvanceHead
  BY <1>3 DEF AdvanceHead, Counted
<1>4. CASE CountRecord
  BY <1>4 DEF CountRecord, Counted
<1>5. CASE RunningTotals
  <2>1. summary' = [summary EXCEPT !.total = @ + 1, ![result] = @ + 1] /\ seq_counter' = seq_counter
        /\ pc["menu"] = "totals" /\ pc' = [pc EXCEPT !["menu"] = "idle"]
    BY <1>5 DEF RunningTotals
  <2>2. Counted(seq_counter - 1)
    BY <2>1
  <2>3. Counted(seq_counter)'
    <3>1. /\ summary["total"] \in Int /\ summary["PASS"] \in Int /\ summary["UNDER"] \in Int
          /\ summary["OVER"] \in Int /\ result \in {"PASS", "UNDER", "OVER"} /\ seq_counter \in Nat
          /\ DOMAIN summary = {"total", "PASS", "UNDER", "OVER"}
      BY DEF Types, Results
    <3>2. summary'["total"] = summary["total"] + 1
      BY <2>1, <3>1
    <3>3. summary'["PASS"] + summary'["UNDER"] + summary'["OVER"]
          = summary["PASS"] + summary["UNDER"] + summary["OVER"] + 1
      <4>1. CASE result = "PASS"
        BY <2>1, <3>1, <4>1
      <4>2. CASE result = "UNDER"
        BY <2>1, <3>1, <4>2
      <4>3. CASE result = "OVER"
        BY <2>1, <3>1, <4>3
      <4> QED
        BY <3>1, <4>1, <4>2, <4>3
    <3> QED
      BY <2>1, <2>2, <3>1, <3>2, <3>3 DEF Counted
  <2>4. pc'["tcp"] # "rewind" /\ pc'["menu"] = "idle"
    BY <2>1
  <2> QED
    BY <2>3, <2>4
<1>6. ASSUME NEW t \in Tasks, session_stats_reset(t) PROVE TotalsFollow'
  BY <1>6 DEF session_stats_reset, Counted, Free
<1>7. ASSUME NEW t \in Tasks, ClearSummary(t) PROVE TotalsFollow'
  BY <1>7 DEF ClearSummary, Counted, NoThrows
<1>8. ASSUME NEW t \in Tasks, Rewind(t) PROVE TotalsFollow'
  BY <1>8 DEF Rewind, Counted
<1>9. CASE Export
  BY <1>9 DEF Export, exportSessionCsv, http_rest_session_log, EndPage, session_stats_get, Slot, CopyRecord,
              CopyRest, Counted
<1>10. CASE UNCHANGED vars
  BY <1>10 DEF vars, Counted
<1> QED
  BY <1>1, <1>2, <1>3, <1>4, <1>5, <1>6, <1>7, <1>8, <1>9, <1>10 DEF Next, Record, Reset

-----------------------------------------------------------------------------
(* What the totals count and the ring holds. *)

LEMMA HoldingFinite ==
  ASSUME NEW ring, NEW n \in 0 .. Max, NEW r
  PROVE  IsFiniteSet(Holding(ring, n, r)) /\ Cardinality(Holding(ring, n, r)) \in Nat
<1>1. IsFiniteSet(0 .. n - 1)
  BY FS_Interval, LogAssumption
<1>2. IsFiniteSet(Holding(ring, n, r))
  BY <1>1, FS_Subset DEF Holding
<1> QED
  BY <1>2, FS_CardinalityType

\* A record in a slot of its own is one more of its result, and of no other.
LEMMA HoldingOneMore ==
  ASSUME NEW old, NEW new, NEW n \in 0 .. Max - 1, NEW r,
         \A s \in 0 .. n - 1 : new[s].result = old[s].result
  PROVE  Cardinality(Holding(new, n + 1, r)) = Cardinality(Holding(old, n, r)) + OneIf(new[n].result = r)
<1>1. n \in 0 .. Max /\ 0 .. n = (0 .. n - 1) \union {n} /\ (n + 1) - 1 = n /\ n \notin 0 .. n - 1
  BY LogAssumption
<1>2. Holding(new, n + 1, r) = {s \in 0 .. n : new[s].result = r}
  BY <1>1 DEF Holding
<1>3. IsFiniteSet(Holding(old, n, r)) /\ Cardinality(Holding(old, n, r)) \in Nat
  BY <1>1, HoldingFinite
<1>4. CASE new[n].result = r
  <2>1. Holding(new, n + 1, r) = Holding(old, n, r) \union {n} /\ n \notin Holding(old, n, r)
    BY <1>1, <1>2, <1>4 DEF Holding
  <2> QED
    BY <1>3, <1>4, <2>1, FS_AddElement DEF OneIf
<1>5. CASE new[n].result # r
  <2>1. Holding(new, n + 1, r) = Holding(old, n, r)
    BY <1>1, <1>2, <1>5 DEF Holding
  <2> QED
    BY <1>3, <1>5, <2>1 DEF OneIf
<1> QED
  BY <1>4, <1>5

\* A record that takes the place of another one adds at most itself and removes at most
\* one, and none of its own result.
LEMMA HoldingReplaced ==
  ASSUME NEW old, NEW new, NEW n \in 0 .. Max, NEW r, NEW h \in 0 .. n - 1,
         \A s \in 0 .. n - 1 : s # h => new[s].result = old[s].result
  PROVE  LET before == Cardinality(Holding(old, n, r)) + OneIf(new[h].result = r)
             after == Cardinality(Holding(new, n, r))
         IN  after <= before /\ before <= after + 1
<1> DEFINE Rest == Holding(old, n, r) \ {h}
<1>1. IsFiniteSet(Holding(old, n, r)) /\ Cardinality(Holding(old, n, r)) \in Nat
  BY HoldingFinite
<1>2. /\ IsFiniteSet(Rest) /\ Cardinality(Rest) \in Nat
      /\ Cardinality(Rest) <= Cardinality(Holding(old, n, r)) /\ Cardinality(Holding(old, n, r)) <= Cardinality(Rest) + 1
  <2>1. IsFiniteSet(Rest) /\ Cardinality(Rest) = IF h \in Holding(old, n, r) THEN Cardinality(Holding(old, n, r)) - 1
                                                 ELSE Cardinality(Holding(old, n, r))
    BY <1>1, FS_RemoveElement
  <2>2. Cardinality(Rest) \in Nat
    BY <2>1, FS_CardinalityType
  <2> HIDE DEF Rest
  <2> QED
    BY <1>1, <2>1, <2>2
<1>3. Rest = {s \in 0 .. n - 1 : s # h /\ new[s].result = r}
  BY DEF Holding
<1>4. Cardinality(Holding(new, n, r)) = Cardinality(Rest) + OneIf(new[h].result = r)
  <2>1. CASE new[h].result = r
    <3>1. Holding(new, n, r) = Rest \union {h} /\ h \notin Rest
      BY <1>3, <2>1 DEF Holding
    <3> QED
      BY <1>2, <2>1, <3>1, FS_AddElement DEF OneIf
  <2>2. CASE new[h].result # r
    <3>1. Holding(new, n, r) = Rest
      BY <1>3, <2>2 DEF Holding
    <3> QED
      BY <1>2, <2>2, <3>1 DEF OneIf
  <2> QED
    BY <2>1, <2>2
<1> HIDE DEF Rest
<1> QED
  BY <1>1, <1>2, <1>4 DEF OneIf

\* A ring whose results did not change holds the same.
LEMMA HoldingKept ==
  ASSUME NEW old, NEW new, NEW n \in 0 .. Max, NEW r, \A s \in Slots : new[s].result = old[s].result
  PROVE  Holding(new, n, r) = Holding(old, n, r)
<1>1. 0 .. n - 1 \subseteq Slots
  BY LogAssumption DEF Slots
<1> QED
  BY <1>1 DEF Holding

LEMMA NextHead == Types /\ Locked /\ HeadFollows /\ [Next]_vars => HeadFollows'
<1> SUFFICES ASSUME Types, Locked, HeadFollows, [Next]_vars PROVE HeadFollows'
  OBVIOUS
<1> USE DEF Goto, reader, log, Locked, Tasks, Recording, Resetting, Reading, HeadFollows
<1>1. ASSUME NEW r \in Outcomes, session_stats_record(r) PROVE HeadFollows'
  BY <1>1 DEF session_stats_record
<1>2. CASE WriteFields
  BY <1>2 DEF WriteFields
<1>3. CASE AdvanceHead
  BY <1>3 DEF AdvanceHead
<1>4. CASE CountRecord
  <2>1. pc["menu"] = "count" /\ pc'["menu"] = "totals" /\ log_head' = log_head
        /\ log_count' = IF log_count < Max THEN log_count + 1 ELSE log_count
    BY <1>4 DEF CountRecord
  <2>2. CASE log_count + 1 < Max
    <3>1. (log_count + 1) % Max = log_count + 1
      BY <2>2, Wrap, LogAssumption DEF Types
    <3> QED
      BY <2>1, <2>2, <3>1, LogAssumption DEF Types
  <2>3. CASE ~(log_count + 1 < Max)
    BY <2>1, <2>3, LogAssumption DEF Types
  <2> QED
    BY <2>2, <2>3
<1>5. CASE RunningTotals
  BY <1>5 DEF RunningTotals
<1>6. ASSUME NEW t \in Tasks, session_stats_reset(t) PROVE HeadFollows'
  BY <1>6 DEF session_stats_reset
<1>7. ASSUME NEW t \in Tasks, ClearSummary(t) PROVE HeadFollows'
  BY <1>7 DEF ClearSummary
<1>8. ASSUME NEW t \in Tasks, Rewind(t) PROVE HeadFollows'
  BY <1>8 DEF Rewind
<1>9. CASE Export
  BY <1>9 DEF Export, exportSessionCsv, http_rest_session_log, EndPage, session_stats_get, Slot, CopyRecord,
              CopyRest
<1>10. CASE UNCHANGED vars
  BY <1>10 DEF vars
<1> QED
  BY <1>1, <1>2, <1>3, <1>4, <1>5, <1>6, <1>7, <1>8, <1>9, <1>10 DEF Next, Record, Reset

\* Nothing that is accounted for moves, and the recorder stays where it is, or no reset
\* is half done and it is not recording before and after.
LEMMA AccountedKept ==
  ASSUME Types, RingHolds, Accounted,
         UNCHANGED <<log_count, seq_counter, summary, result>>,
         \A s \in Slots : log_buffer'[s].result = log_buffer[s].result,
         \/ pc' = pc
         \/ /\ pc["menu"] \notin Recording /\ pc'["menu"] \notin Recording
            /\ \A t \in Tasks : pc[t] # "rewind" /\ pc'[t] # "rewind"
         \/ pc["menu"] \in {"head", "count"} /\ pc'["menu"] \in {"count", "totals"} /\ pc'["tcp"] = pc["tcp"]
         \/ pc'["menu"] = pc["menu"] /\ pc'["tcp"] # "rewind" /\ pc["tcp"] # "rewind"
  PROVE  Accounted'
<1>1. \A r \in Results : Holding(log_buffer', log_count, r) = Holding(log_buffer, log_count, r)
  <2>1. log_count \in 0 .. Max
    BY DEF Types
  <2> QED
    BY <2>1, HoldingKept
<1>2. Smaller(seq_counter) \in 0 .. Max
  BY LogAssumption DEF Types, Smaller
<1>3. \A r \in Results : Holding(log_buffer', Smaller(seq_counter), r) = Holding(log_buffer, Smaller(seq_counter), r)
  BY <1>2, HoldingKept
<1>4. \A r \in Results : OneIf(result = r)' = OneIf(result = r)
  BY DEF OneIf
<1>5. /\ pc'["menu"] = "fields" => pc["menu"] = "fields"
      /\ pc'["menu"] \in {"head", "count", "totals"} => pc["menu"] \in {"head", "count", "totals"}
      /\ \A t \in Tasks : pc'[t] = "rewind" => pc[t] = "rewind"
      /\ pc'["menu"] \notin Recording /\ (\A t \in Tasks : pc'[t] # "rewind") =>
            pc["menu"] \notin Recording /\ (\A t \in Tasks : pc[t] # "rewind")
  BY DEF Recording, Tasks
<1> QED
  BY <1>1, <1>3, <1>4, <1>5 DEF Accounted, Explained, Smaller

LEMMA NextAccounted ==
  Types /\ Locked /\ RingHolds /\ HeadFollows /\ TotalsFollow /\ Accounted /\ [Next]_vars => Accounted'
<1> SUFFICES ASSUME Types, Locked, RingHolds, HeadFollows, TotalsFollow, Accounted, [Next]_vars PROVE Accounted'
  OBVIOUS
<1> USE DEF Goto, reader, log
<1>1. ASSUME NEW r \in Outcomes, session_stats_record(r) PROVE Accounted'
  <2>1. /\ pc["menu"] = "idle" /\ pc' = [pc EXCEPT !["menu"] = "fields"] /\ stats_mutex = Free
        /\ seq_counter' = seq_counter + 1 /\ log_count' = log_count /\ summary' = summary
        /\ log_buffer' = [log_buffer EXCEPT ![log_head] = [log_buffer[log_head] EXCEPT !.seq = seq_counter + 1]]
    BY <1>1 DEF session_stats_record, Take
  <2>2. \A t \in Tasks : pc[t] # "rewind"
    BY <2>1 DEF Locked, Tasks, Free, Resetting
  <2>3. pc'["menu"] = "fields" /\ \A t \in Tasks : pc'[t] # "rewind"
    BY <2>1, <2>2 DEF Locked, Tasks
  <2>4. \A s \in Slots : log_buffer'[s].result = log_buffer[s].result
    BY <2>1 DEF Types, Record_t
  <2>5. ASSUME NEW q \in Results PROVE Explained(log_buffer', log_count', q, seq_counter' - 1, summary'[q])
    <3>1. Explained(log_buffer, log_count, q, seq_counter, summary[q])
      BY <2>1, <2>2 DEF Accounted, Recording
    <3>2. Holding(log_buffer', log_count, q) = Holding(log_buffer, log_count, q)
      BY <2>1, <2>4, HoldingKept DEF Types, Holding
    <3>3. seq_counter' - 1 = seq_counter
      BY <2>1 DEF Types
    <3> QED
      BY <2>1, <3>1, <3>2, <3>3 DEF Explained
  <2> QED
    BY <2>3, <2>5 DEF Accounted, Recording
<1>2. CASE WriteFields
  <2>1. /\ pc["menu"] = "fields" /\ pc' = [pc EXCEPT !["menu"] = "head"]
        /\ UNCHANGED <<log_head, log_count, seq_counter, summary, result>>
        /\ log_buffer' = [log_buffer EXCEPT ![log_head] = [log_buffer[log_head] EXCEPT !.result = result]]
    BY <1>2 DEF WriteFields
  <2>2. pc'["menu"] = "head" /\ \A t \in Tasks : pc'[t] # "rewind"
    BY <2>1 DEF Locked, Tasks, Recording, Resetting
  <2>3. seq_counter \in Nat /\ seq_counter >= 1 /\ log_count = Smaller(seq_counter - 1)
    BY <2>1 DEF RingHolds, Types
  <2>4. /\ log_buffer'[log_head].result = result
        /\ \A s \in Slots : s # log_head => log_buffer'[s].result = log_buffer[s].result
    BY <2>1 DEF Types, Record_t
  <2>5. ASSUME NEW q \in Results PROVE Explained(log_buffer, Smaller(seq_counter), q, seq_counter, summary[q] + OneIf(result = q))'
    <3>1. Explained(log_buffer, log_count, q, seq_counter - 1, summary[q])
      BY <2>1 DEF Accounted
    <3>2. summary[q] \in Int /\ log_count \in 0 .. Max /\ OneIf(result = q) \in {0, 1} /\ OneIf(result = q)' = OneIf(result = q) /\ Max \in Nat
      BY <2>1, LogAssumption DEF Types, OneIf
    <3>3. Cardinality(Holding(log_buffer, log_count, q)) \in Nat
      BY <3>2, HoldingFinite
    <3>4. CASE log_count < Max
      <4>1. log_head = log_count /\ log_count \in 0 .. Max - 1 /\ Smaller(seq_counter) = log_count + 1
            /\ log_count = seq_counter - 1
        BY <2>1, <2>3, <3>2, <3>4, LogAssumption DEF HeadFollows, Smaller
      <4>2. \A s \in 0 .. log_count - 1 : s \in Slots /\ s # log_head
        BY <4>1, LogAssumption DEF Slots
      <4>3. Cardinality(Holding(log_buffer', log_count + 1, q)) = Cardinality(Holding(log_buffer, log_count, q)) + OneIf(result = q)
        BY <2>4, <4>1, <4>2, HoldingOneMore
      <4>4. Holding(log_buffer', Smaller(seq_counter), q) = Holding(log_buffer', log_count + 1, q)
        BY <2>1, <4>1 DEF Holding, Smaller
      <4>5. Cardinality(Holding(log_buffer', Smaller(seq_counter), q)) = Cardinality(Holding(log_buffer, log_count, q)) + OneIf(result = q)
            /\ Smaller(seq_counter)' = log_count + 1
        BY <2>1, <4>1, <4>3, <4>4 DEF Smaller
      <4> QED
        BY <2>1, <2>3, <3>1, <3>2, <3>3, <4>1, <4>5 DEF Explained
    <3>5. CASE log_count = Max
      <4>1. Smaller(seq_counter) = Max /\ log_head \in 0 .. Max - 1 /\ Max \in 0 .. Max
        BY <2>3, <3>5, LogAssumption DEF Smaller, Types, Slots
      <4>2. /\ Cardinality(Holding(log_buffer', Max, q)) <= Cardinality(Holding(log_buffer, Max, q)) + OneIf(result = q)
            /\ Cardinality(Holding(log_buffer, Max, q)) + OneIf(result = q) <= Cardinality(Holding(log_buffer', Max, q)) + 1
        BY <2>4, <4>1, HoldingReplaced DEF Slots
      <4>3. Cardinality(Holding(log_buffer', Max, q)) \in Nat
        <5>1. IsFiniteSet(0 .. Max - 1)
          BY FS_Interval, LogAssumption
        <5>2. Holding(log_buffer', Max, q) \subseteq 0 .. Max - 1
          BY DEF Holding
        <5> QED
          BY <5>1, <5>2, FS_Subset, FS_CardinalityType
      <4>4. Holding(log_buffer', Smaller(seq_counter), q) = Holding(log_buffer', Max, q) /\ Smaller(seq_counter)' = Max
        BY <2>1, <4>1 DEF Holding, Smaller
      <4>5. Explained(log_buffer, Max, q, seq_counter - 1, summary[q])
        BY <3>1, <3>5
      <4> QED
        BY <2>1, <2>3, <3>2, <3>3, <3>5, <4>2, <4>3, <4>4, <4>5 DEF Explained
    <3> QED
      BY <3>2, <3>4, <3>5
  <2> QED
    BY <2>2, <2>5 DEF Accounted, Recording
<1>3. CASE AdvanceHead
  BY <1>3, AccountedKept DEF AdvanceHead, Locked, Tasks, Recording
<1>4. CASE CountRecord
  <2>1. /\ pc["menu"] = "count" /\ pc' = [pc EXCEPT !["menu"] = "totals"]
        /\ UNCHANGED <<log_buffer, seq_counter, summary, result>>
    BY <1>4 DEF CountRecord
  <2>2. pc'["menu"] = "totals" /\ \A t \in Tasks : pc'[t] # "rewind"
    BY <2>1 DEF Locked, Tasks, Recording, Resetting
  <2>3. ASSUME NEW q \in Results PROVE Explained(log_buffer, Smaller(seq_counter), q, seq_counter, summary[q] + OneIf(result = q))'
    <3>1. Explained(log_buffer, Smaller(seq_counter), q, seq_counter, summary[q] + OneIf(result = q))
      BY <2>1 DEF Accounted
    <3> QED
      BY <2>1, <3>1 DEF Explained, Holding, Smaller, OneIf
  <2> QED
    BY <2>2, <2>3 DEF Accounted, Recording
<1>5. CASE RunningTotals
  <2>1. /\ pc["menu"] = "totals" /\ pc' = [pc EXCEPT !["menu"] = "idle"]
        /\ summary' = [summary EXCEPT !.total = @ + 1, ![result] = @ + 1]
        /\ UNCHANGED <<log_buffer, log_count, seq_counter>>
    BY <1>5 DEF RunningTotals
  <2>2. pc'["menu"] = "idle" /\ \A t \in Tasks : pc'[t] # "rewind"
    BY <2>1 DEF Locked, Tasks, Recording, Resetting
  <2>3. log_count = Smaller(seq_counter)
    BY <2>1 DEF RingHolds
  <2>4. ASSUME NEW q \in Results PROVE Explained(log_buffer, log_count, q, seq_counter, summary[q])'
    <3>1. Explained(log_buffer, log_count, q, seq_counter, summary[q] + OneIf(result = q))
      BY <2>1, <2>3 DEF Accounted
    <3>2. summary'[q] = summary[q] + OneIf(result = q)
      <4>1. /\ q \in {"PASS", "UNDER", "OVER"} /\ result \in {"PASS", "UNDER", "OVER"}
            /\ DOMAIN summary = {"total", "PASS", "UNDER", "OVER"} /\ summary[q] \in Int
        BY DEF Types, Results
      <4>2. CASE q = result
        BY <2>1, <4>1, <4>2 DEF OneIf
      <4>3. CASE q # result
        BY <2>1, <4>1, <4>3 DEF OneIf
      <4> QED
        BY <4>2, <4>3
    <3> QED
      BY <2>1, <3>1, <3>2 DEF Explained, Holding
  <2> QED
    BY <2>2, <2>4 DEF Accounted, Recording
<1>6. ASSUME NEW t \in Tasks, session_stats_reset(t) PROVE Accounted'
  <2>1. pc[t] = "idle" /\ pc' = [pc EXCEPT ![t] = "clear"] /\ stats_mutex = Free
        /\ UNCHANGED <<log_buffer, log_count, seq_counter, summary, result>>
    BY <1>6 DEF session_stats_reset, Take
  <2>2. pc["menu"] \notin Recording /\ \A u \in Tasks : pc[u] # "rewind"
    BY <2>1 DEF Locked, Tasks, Free, Resetting
  <2>3. pc'["menu"] \notin Recording /\ \A u \in Tasks : pc'[u] # "rewind"
    BY <2>1, <2>2 DEF Locked, Tasks, Recording
  <2> QED
    BY <2>1, <2>2, <2>3, AccountedKept
<1>7. ASSUME NEW t \in Tasks, ClearSummary(t) PROVE Accounted'
  <2>1. pc[t] = "clear" /\ pc' = [pc EXCEPT ![t] = "rewind"] /\ summary' = NoThrows
    BY <1>7 DEF ClearSummary
  <2>2. pc'[t] = "rewind" /\ pc'["menu"] \notin Recording
    BY <2>1 DEF Locked, Tasks, Recording, Resetting
  <2>3. \A q \in Results : summary'[q] = 0
    BY <2>1 DEF NoThrows, Results
  <2> QED
    BY <2>2, <2>3 DEF Accounted, Recording
<1>8. ASSUME NEW t \in Tasks, Rewind(t) PROVE Accounted'
  <2>1. pc[t] = "rewind" /\ pc' = [pc EXCEPT ![t] = "idle"] /\ log_count' = 0 /\ seq_counter' = 0 /\ summary' = summary
    BY <1>8 DEF Rewind
  <2>2. pc'["menu"] \notin Recording
    BY <2>1 DEF Locked, Tasks, Recording, Resetting
  <2>3. \A q \in Results : summary'[q] = 0
    BY <2>1 DEF Accounted
  <2>4. ASSUME NEW q \in Results PROVE Explained(log_buffer, log_count, q, seq_counter, summary[q])'
    <3>1. Holding(log_buffer', log_count', q) = {}
      BY <2>1 DEF Holding
    <3> QED
      BY <2>1, <2>3, <3>1, FS_EmptySet DEF Explained
  <2>5. \A u \in Tasks : pc'[u] # "rewind"
    BY <2>1 DEF Locked, Tasks, Recording, Resetting
  <2> QED
    BY <2>2, <2>4, <2>5 DEF Accounted, Recording
<1>9. CASE Export
  <2>1. UNCHANGED <<log_buffer, log_count, seq_counter, summary, result>> /\ pc'["menu"] = pc["menu"]
    BY <1>9 DEF Export, exportSessionCsv, http_rest_session_log, EndPage, session_stats_get, Slot, CopyRecord,
                CopyRest, Locked, Tasks
  <2>2. pc' = pc \/ (pc["tcp"] # "rewind" /\ pc'["tcp"] # "rewind")
    BY <1>9 DEF Export, exportSessionCsv, http_rest_session_log, EndPage, session_stats_get, Slot, CopyRecord,
                CopyRest, Locked, Tasks
  <2> QED
    BY <2>1, <2>2, AccountedKept
<1>10. CASE UNCHANGED vars
  BY <1>10, AccountedKept DEF vars
<1> QED
  BY <1>1, <1>2, <1>3, <1>4, <1>5, <1>6, <1>7, <1>8, <1>9, <1>10 DEF Next, Record, Reset

\* Counted from the oldest record on, or by the slots: the same records.
LEMMA CountedBySlot ==
  ASSUME Types, HeadFollows, pc["menu"] # "count", NEW r
  PROVE  Cardinality({i \in 1 .. log_count : log_buffer[At(i)].result = r}) = Cardinality(Holding(log_buffer, log_count, r))
<1> DEFINE ByAge == {i \in 1 .. log_count : log_buffer[At(i)].result = r}
           f == [i \in ByAge |-> At(i)]
<1>1. log_head \in 0 .. Max - 1 /\ log_count \in 0 .. Max /\ Max \in Nat /\ Max > 0
  BY LogAssumption DEF Types, Slots
<1>2. ASSUME NEW i \in 1 .. log_count
      PROVE  At(i) = IF log_count < Max THEN i - 1
                     ELSE IF log_head + i - 1 < Max THEN log_head + i - 1 ELSE log_head + i - 1 - Max
  <2>1. At(i) = Back(log_count - i + 1)
    BY AtIs DEF Types
  <2>2. log_count - i + 1 \in 1 .. Max
    BY <1>1
  <2>3. Back(log_count - i + 1) = IF log_head < log_count - i + 1 THEN log_head + Max - (log_count - i + 1)
                                 ELSE log_head - (log_count - i + 1)
    BY <2>2, BackIs DEF Types
  <2>4. log_count < Max => log_head = log_count
    BY DEF HeadFollows
  <2> QED
    BY <1>1, <2>1, <2>3, <2>4
<1>3. ASSUME NEW s \in 0 .. log_count - 1 PROVE \E i \in 1 .. log_count : At(i) = s
  <2> DEFINE i == IF log_count < Max THEN s + 1 ELSE IF s < log_head THEN s + Max - log_head + 1 ELSE s - log_head + 1
  <2>1. i \in 1 .. log_count
    BY <1>1
  <2>2. At(i) = s
    BY <1>1, <1>2, <2>1
  <2> QED
    BY <2>1, <2>2
<1>4. \A i, j \in 1 .. log_count : At(i) = At(j) => i = j
  BY <1>1, <1>2
<1>5. \A i \in 1 .. log_count : At(i) \in 0 .. log_count - 1
  BY <1>1, <1>2
<1>6. f \in [ByAge -> Holding(log_buffer, log_count, r)]
  BY <1>5 DEF Holding
<1>7. f \in Bijection(ByAge, Holding(log_buffer, log_count, r))
  <2>1. \A i, j \in ByAge : f[i] = f[j] => i = j
    BY <1>4
  <2>2. \A s \in Holding(log_buffer, log_count, r) : \E i \in ByAge : f[i] = s
    BY <1>3 DEF Holding
  <2> HIDE DEF f, ByAge
  <2> QED
    BY <1>6, <2>1, <2>2 DEF Bijection, Injection, Surjection, IsInjective
<1>8. IsFiniteSet(ByAge)
  <2>1. IsFiniteSet(1 .. log_count) /\ ByAge \in SUBSET (1 .. log_count)
    BY <1>1, FS_Interval
  <2> QED
    BY <2>1, FS_Subset
<1> HIDE DEF f, ByAge
<1>9. Cardinality(ByAge) = Cardinality(Holding(log_buffer, log_count, r))
  BY <1>7, <1>8, FS_Bijection DEF ExistsBijection
<1> QED
  BY <1>9 DEF ByAge

-----------------------------------------------------------------------------
(* What an undisturbed reader collects. *)

LEMMA NextUndisturbed == Types /\ Locked /\ Undisturbed /\ [Next]_vars => Undisturbed'
<1> SUFFICES ASSUME Types, Locked, Undisturbed, [Next]_vars, quiet' PROVE Undisturbed'
  BY DEF Undisturbed
<1> USE DEF Goto, reader, log
<1>1. CASE Record
  <2>1. UNCHANGED quiet => pc["menu"] \in Recording
    BY <1>1 DEF Record, session_stats_record, WriteFields, AdvanceHead, CountRecord, RunningTotals, Take, Recording
  <2>2. UNCHANGED quiet
    BY <1>1 DEF Record, session_stats_record, WriteFields, AdvanceHead, CountRecord, RunningTotals, Take, Hold, Give
  <2> QED
    BY <2>1, <2>2 DEF Locked, Tasks, Free
<1>2. CASE Reset
  <2>1. PICK t \in Tasks : session_stats_reset(t) \/ ClearSummary(t) \/ Rewind(t)
    BY <1>2 DEF Reset
  <2>2. pc[t] \in Resetting /\ UNCHANGED quiet
    BY <2>1 DEF session_stats_reset, ClearSummary, Rewind, Take, Hold, Give, Resetting
  <2> QED
    BY <2>2 DEF Locked, Tasks, Free
<1>3. CASE exportSessionCsv
  <2>1. export' = [st |-> "between", from |-> 0, total |-> 0, rows |-> <<>>]
        /\ pc' = pc /\ log_count' = log_count /\ page' = page
    BY <1>3 DEF exportSessionCsv
  <2>2. export'.st = "between" /\ export'.from = 0 /\ Len(export'.rows) = 0
    BY <2>1
  <2>3. pc["tcp"] \notin Reading
    BY <1>3 DEF exportSessionCsv, Locked
  <2> QED
    BY <2>1, <2>2, <2>3 DEF Undisturbed, Types, Reading
<1> DEFINE Same == UNCHANGED <<log_buffer, log_head, log_count, seq_counter>> /\ quiet
<1>4. Same => \A i : At(i)' = At(i)
  BY DEF At
<1>5. CASE http_rest_session_log
  <2>1. Same /\ export' = [export EXCEPT !.st = "page", !.total = log_count] /\ export.st = "between"
        /\ pc' = [pc EXCEPT !["tcp"] = "row"]
    BY <1>5 DEF http_rest_session_log
  <2>2. export'.st = "page" /\ export'.total = log_count /\ export'.from = export.from /\ export'.rows = export.rows
    BY <2>1 DEF Types
  <2>3. pc'["tcp"] = "row"
    BY <2>1 DEF Locked, Tasks
  <2> QED
    BY <1>4, <2>1, <2>2, <2>3 DEF Undisturbed
<1>6. CASE EndPage
  <2> DEFINE st == IF page.rows = 0 \/ export.from >= export.total THEN "done" ELSE "between"
  <2>1. Same /\ export' = [export EXCEPT !.st = st] /\ pc["tcp"] = "row" /\ pc' = [pc EXCEPT !["tcp"] = "idle"]
        /\ (page.rows > 0 \/ export.from >= log_count)
    BY <1>6 DEF EndPage
  <2>2. export'.st = st /\ export'.total = export.total /\ export'.from = export.from /\ export'.rows = export.rows
    BY <2>1 DEF Types
  <2>3. pc'["tcp"] = "idle"
    BY <2>1 DEF Locked, Tasks
  <2>4. export.st = "page" /\ export.total = log_count /\ export.from <= log_count
    BY <2>1 DEF Locked, Undisturbed, Reading
  <2>5. st = "done" => export.from = log_count
    BY <2>1, <2>4 DEF Types
  <2>6. st \in {"done", "between"}
    OBVIOUS
  <2> HIDE DEF st
  <2> QED
    BY <1>4, <2>1, <2>2, <2>3, <2>4, <2>5, <2>6 DEF Undisturbed
<1>7. CASE session_stats_get
  <2>1. Same /\ page' = [page EXCEPT !.seen = log_count] /\ pc' = [pc EXCEPT !["tcp"] = "slot"] /\ export' = export
        /\ export.from < log_count
    BY <1>7 DEF session_stats_get
  <2>2. page'.seen = log_count /\ pc'["tcp"] = "slot"
    BY <2>1 DEF Types, Locked, Tasks
  <2> QED
    BY <1>4, <2>1, <2>2 DEF Undisturbed
<1>8. CASE Slot
  <2>1. Same /\ pc["tcp"] = "slot" /\ pc' = [pc EXCEPT !["tcp"] = "copy"] /\ export' = export
    BY <1>8 DEF Slot
  <2>2. page.seen = log_count /\ export.from < log_count
    BY <2>1 DEF Undisturbed
  <2>3. page' = [page EXCEPT !.slot = (((log_head + Max - log_count) % Max) + export.from) % Max]
    BY <1>8, <2>2 DEF Slot
  <2>4. export.from \in 0 .. log_count - 1
    BY <2>2, LogAssumption DEF Types
  <2>5. (((log_head + Max - log_count) % Max) + export.from) % Max = At(export.from + 1)
    BY <2>4, SlotIs DEF Types
  <2>6. page'.slot = At(export.from + 1) /\ pc'["tcp"] = "copy"
    BY <2>1, <2>3, <2>5 DEF Types, Locked, Tasks
  <2> QED
    BY <1>4, <2>1, <2>2, <2>6 DEF Undisturbed
<1>9. CASE CopyRecord
  <2>1. Same /\ pc["tcp"] = "copy" /\ pc' = [pc EXCEPT !["tcp"] = "copy_rest"] /\ export' = export
        /\ page' = [page EXCEPT !.rec = [page.rec EXCEPT !.seq = log_buffer[page.slot].seq]]
    BY <1>9 DEF CopyRecord
  <2>2. page'.slot = page.slot /\ page'.rec.seq = log_buffer[page.slot].seq /\ pc'["tcp"] = "copy_rest"
    BY <2>1 DEF Types, Record_t, Locked, Tasks
  <2> QED
    BY <1>4, <2>1, <2>2 DEF Undisturbed
<1>10. CASE CopyRest
  <2> DEFINE rec == [page.rec EXCEPT !.result = log_buffer[page.slot].result]
  <2>1. Same /\ pc["tcp"] = "copy_rest" /\ pc' = [pc EXCEPT !["tcp"] = "row"]
        /\ export' = [export EXCEPT !.from = @ + 1, !.rows = Append(@, rec)]
    BY <1>10 DEF CopyRest
  <2>2. page.rec.seq = log_buffer[page.slot].seq /\ page.slot = At(export.from + 1)
        /\ export.from < log_count /\ export.st = "page" /\ export.total = log_count
    BY <2>1 DEF Undisturbed, Locked, Reading
  <2>3. rec = log_buffer[At(export.from + 1)] /\ rec \in Record_t
    BY <2>2 DEF Types, Record_t
  <2> HIDE DEF rec
  <2>4. export'.from = export.from + 1 /\ export'.rows = Append(export.rows, rec) /\ export'.st = "page"
        /\ export'.total = log_count /\ pc'["tcp"] = "row"
    BY <2>1, <2>2 DEF Types, Locked, Tasks
  <2>5. export.rows \in Seq(Record_t) /\ export.from \in Nat /\ Len(export.rows) = export.from
        /\ \A i \in 1 .. export.from : export.rows[i] = log_buffer[At(i)]
    <3>1. export.rows \in Seq(Record_t) /\ export.from \in Nat
      BY DEF Types
    <3>2. Len(export.rows) = export.from /\ \A i \in 1 .. export.from : export.rows[i] = log_buffer[At(i)]
      BY <2>1, <2>2 DEF Undisturbed
    <3> QED
      BY <3>1, <3>2
  <2>6. Len(export'.rows) = export'.from
    BY <2>3, <2>4, <2>5
  <2>7. ASSUME NEW i \in 1 .. export'.from PROVE export'.rows[i] = log_buffer[At(i)]
    <3>1. CASE i = export.from + 1
      BY <2>3, <2>4, <2>5, <3>1
    <3>2. CASE i # export.from + 1
      <4>1. i \in 1 .. Len(export.rows)
        BY <2>4, <2>5, <3>2
      <4>2. Append(export.rows, rec)[i] = export.rows[i]
        BY <2>3, <2>5, <4>1
      <4> QED
        BY <2>4, <2>5, <4>1, <4>2
    <3> QED
      BY <3>1, <3>2
  <2>8. export'.from <= log_count
    BY <2>2, <2>4, <2>5 DEF Types
  <2> QED
    BY <1>4, <2>1, <2>4, <2>6, <2>7, <2>8 DEF Undisturbed
<1>11. CASE UNCHANGED vars
  BY <1>11 DEF vars, Undisturbed, At
<1> QED
  BY <1>1, <1>2, <1>3, <1>5, <1>6, <1>7, <1>8, <1>9, <1>10, <1>11 DEF Next, Export

-----------------------------------------------------------------------------
(* The theorems. *)

IInv == Types /\ Locked /\ RingHolds /\ TotalsFollow /\ HeadFollows /\ Accounted /\ Undisturbed

LEMMA Invariance == Spec => []IInv
<1>1. Init => IInv
  BY InitTyped, InitRing DEF IInv
<1>2. IInv /\ [Next]_vars => IInv'
  BY NextTypes, NextLocked, NextRing, NextTotals, NextHead, NextAccounted, NextUndisturbed DEF IInv
<1> QED
  BY <1>1, <1>2, PTL DEF Spec

\* Whenever nobody writes, the ring holds the newest throws of the session, oldest
\* first; the totals add up to all of them, and of each result they count as many as
\* the ring holds and at most what was overwritten besides (session_stats.h:65).
THEOREM LogIsCurrent == Spec => []LogIsTheSession
<1>1. ASSUME IInv, stats_mutex = Free PROVE LogHoldsNewest /\ TotalsMatchLog
  <2> USE DEF IInv
  <2>1. pc["menu"] \notin Recording /\ \A t \in Tasks : pc[t] # "rewind"
    BY <1>1 DEF Locked, Tasks, Free, Resetting
  <2>2. log_count = Smaller(seq_counter) /\ Newest(seq_counter, log_count)
    BY <1>1, <2>1 DEF RingHolds, Recording
  <2>3. ASSUME NEW i \in 1 .. log_count PROVE log_buffer[At(i)].seq = seq_counter - log_count + i
    <3>1. log_count - i + 1 \in 1 .. log_count
      BY <1>1, LogAssumption DEF Types
    <3>2. At(i) = Back(log_count - i + 1)
      BY <1>1, AtIs DEF Types
    <3>3. log_buffer[Back(log_count - i + 1)].seq = seq_counter - (log_count - i + 1) + 1
      BY <2>2, <3>1 DEF Newest
    <3> QED
      BY <1>1, <3>2, <3>3 DEF Types
  <2>4. LogHoldsNewest
    BY <2>2, <2>3 DEF LogHoldsNewest, Smaller
  <2>5. TotalsAddUp
    BY <1>1, <2>1 DEF TotalsFollow, TotalsAddUp, Counted
  <2>6. \A r \in Results : Explained(log_buffer, log_count, r, seq_counter, summary[r])
    BY <1>1, <2>1 DEF Accounted
  <2>7. \A r \in Results : Cardinality({i \in 1 .. log_count : log_buffer[At(i)].result = r})
                          = Cardinality(Holding(log_buffer, log_count, r))
    BY <1>1, <2>1, CountedBySlot DEF Recording
  <2> QED
    BY <2>4, <2>5, <2>6, <2>7 DEF TotalsMatchLog, Explained
<1>2. IInv => LogIsTheSession
  BY <1>1 DEF LogIsTheSession
<1> QED
  BY Invariance, <1>2, PTL

\* An export that nobody disturbs is the whole log, oldest throw first, for every size
\* of the ring and of a page (session_stats.c:72).
THEOREM ExportIsTheLog == Spec => []QuietExportIsTheLog
<1>1. ASSUME IInv, export.st = "done", quiet PROVE export.rows = [i \in 1 .. log_count |-> log_buffer[At(i)]]
  <2>1. export.rows \in Seq(Record_t)
    BY <1>1 DEF IInv, Types
  <2>2. Len(export.rows) = log_count /\ \A i \in 1 .. log_count : export.rows[i] = log_buffer[At(i)]
    BY <1>1 DEF IInv, Undisturbed
  <2> QED
    BY <2>1, <2>2
<1>2. IInv => QuietExportIsTheLog
  BY <1>1 DEF QuietExportIsTheLog
<1> QED
  BY Invariance, <1>2, PTL
===============================================================================
