----------------------------- MODULE SessionLog -----------------------------
(***************************************************************************)
(* The session statistics of src/session_stats.c: the ring of throw        *)
(* records and the running totals.  The menu task records a throw and may  *)
(* reset the session; the TCP/IP thread resets it over REST and serves the *)
(* log page by page to a browser that puts the pages together to a table.  *)
(* Recording and resetting hold stats_mutex; the page handler does not     *)
(* take it, so each of its reads falls between two steps of a recorder.    *)
(*                                                                         *)
(* Of a record only its number and its result are kept, written and copied *)
(* one after the other; of the totals the counts.                          *)
(***************************************************************************)
EXTENDS Integers, Sequences, FiniteSets

CONSTANTS
    Max,          \* SESSION_LOG_MAX
    PageRows,     \* rows of a page
    Outcomes,     \* results of the throws (bound)
    MaxSeq        \* throws of a session (bound)

ASSUME LogAssumption == Max \in Nat \ {0} /\ PageRows \in Nat \ {0} /\ MaxSeq \in Nat /\ Outcomes \subseteq {"PASS", "UNDER", "OVER"}

Results == {"PASS", "UNDER", "OVER"}
Tasks == {"menu", "tcp"}
Free == "free"

VARIABLES
    log_buffer, log_head, log_count, seq_counter, summary,
    stats_mutex,   \* the task that holds it, or Free
    pc,            \* [Tasks -> the step a task is at]
    result,        \* of the throw being recorded
    page,          \* local variables of the page handler
    export,        \* the browser's table
    quiet          \* nobody has taken the mutex since the export began (history)

log == <<log_buffer, log_head, log_count, seq_counter, summary>>
reader == <<page, export>>
vars == <<log, stats_mutex, pc, result, reader, quiet>>

NoThrows == [total |-> 0, PASS |-> 0, UNDER |-> 0, OVER |-> 0]
throw_record_t == [seq : 0 .. MaxSeq, result : Results]
NoRecord == [seq |-> 0, result |-> "PASS"]
NoPage == [rows |-> 0, seen |-> 0, slot |-> 0, rec |-> NoRecord]
Slots == 0 .. Max - 1
Steps == {"idle", "fields", "head", "count", "totals", "clear", "rewind", "row", "slot", "copy", "copy_rest"}

Init ==
    /\ log_buffer = [s \in Slots |-> NoRecord] /\ log_head = 0 /\ log_count = 0
    /\ seq_counter = 0 /\ summary = NoThrows /\ stats_mutex = Free
    /\ pc = [t \in Tasks |-> "idle"] /\ result = "PASS"
    /\ page = NoPage
    /\ export = [st |-> "none", from |-> 0, total |-> 0, rows |-> <<>>]
    /\ quiet = FALSE

-----------------------------------------------------------------------------
(* Writers. *)

Goto(t, from, to) == pc[t] = from /\ pc' = [pc EXCEPT ![t] = to]
Take(t) == stats_mutex = Free /\ stats_mutex' = t /\ quiet' = FALSE
Give == stats_mutex' = Free /\ UNCHANGED quiet
Hold == UNCHANGED <<stats_mutex, quiet>>

\* A throw is over: its number goes into the next slot.
session_stats_record(r) ==
    /\ Goto("menu", "idle", "fields") /\ Take("menu")
    /\ seq_counter < MaxSeq
    /\ seq_counter' = seq_counter + 1 /\ result' = r
    /\ log_buffer' = [log_buffer EXCEPT ![log_head].seq = seq_counter + 1]
    /\ UNCHANGED <<log_head, log_count, summary, reader>>
WriteFields ==
    /\ Goto("menu", "fields", "head") /\ Hold
    /\ log_buffer' = [log_buffer EXCEPT ![log_head].result = result]
    /\ UNCHANGED <<log_head, log_count, seq_counter, summary, result, reader>>
AdvanceHead ==
    /\ Goto("menu", "head", "count") /\ Hold
    /\ log_head' = (log_head + 1) % Max
    /\ UNCHANGED <<log_buffer, log_count, seq_counter, summary, result, reader>>
\* mutant: the last slot of the ring is never counted
CountRecordShort ==
    /\ Goto("menu", "count", "totals") /\ Hold
    /\ log_count' = IF log_count + 1 < Max THEN log_count + 1 ELSE log_count
    /\ UNCHANGED <<log_buffer, log_head, seq_counter, summary, result, reader>>
CountRecord ==
    /\ Goto("menu", "count", "totals") /\ Hold
    /\ log_count' = IF log_count < Max THEN log_count + 1 ELSE log_count
    /\ UNCHANGED <<log_buffer, log_head, seq_counter, summary, result, reader>>
RunningTotals ==
    /\ Goto("menu", "totals", "idle") /\ Give
    /\ summary' = [summary EXCEPT !.total = @ + 1, ![result] = @ + 1]
    /\ UNCHANGED <<log_buffer, log_head, log_count, seq_counter, result, reader>>

\* From the session page of the menu, or over REST.
session_stats_reset(t) ==
    /\ Goto(t, "idle", "clear") /\ Take(t)
    /\ UNCHANGED <<log, result, reader>>
ClearSummary(t) ==
    /\ Goto(t, "clear", "rewind") /\ Hold
    /\ summary' = NoThrows
    /\ UNCHANGED <<log_buffer, log_head, log_count, seq_counter, result, reader>>
Rewind(t) ==
    /\ Goto(t, "rewind", "idle") /\ Give
    /\ log_head' = 0 /\ log_count' = 0 /\ seq_counter' = 0
    /\ UNCHANGED <<log_buffer, summary, result, reader>>

-----------------------------------------------------------------------------
(* The reader. *)

exportSessionCsv ==
    /\ export.st \in {"none", "done"}
    /\ export' = [st |-> "between", from |-> 0, total |-> 0, rows |-> <<>>]
    /\ quiet' = (stats_mutex = Free)
    /\ UNCHANGED <<log, stats_mutex, pc, result, page>>

http_rest_session_log ==
    /\ export.st = "between" /\ Goto("tcp", "idle", "row")
    /\ export' = [export EXCEPT !.st = "page", !.total = log_count]
    /\ UNCHANGED <<log, stats_mutex, result, page, quiet>>

\* The last row is out, or the text has no room for another one; the browser goes on
\* until it has as many rows as the page said, or gets an empty page.
EndPage ==
    /\ Goto("tcp", "row", "idle")
    /\ page.rows > 0 \/ export.from >= log_count
    /\ export' = [export EXCEPT !.st = IF page.rows = 0 \/ export.from >= export.total
                                      THEN "done" ELSE "between"]
    /\ page' = NoPage
    /\ UNCHANGED <<log, stats_mutex, result, quiet>>

session_stats_get ==
    /\ page.rows < PageRows /\ export.from < log_count
    /\ Goto("tcp", "row", "slot")
    /\ page' = [page EXCEPT !.seen = log_count]
    /\ UNCHANGED <<log, stats_mutex, result, export, quiet>>

\* mutant: the log is taken to start at the head even if it is not full
SlotFromHead ==
    /\ Goto("tcp", "slot", "copy")
    /\ page' = [page EXCEPT !.slot = (log_head + export.from) % Max]
    /\ UNCHANGED <<log, stats_mutex, result, export, quiet>>
\* log_count may be read once for the check and the slot, or twice.
Slot ==
    /\ Goto("tcp", "slot", "copy")
    /\ \E count \in {page.seen, log_count} :
          LET start == (log_head + Max - count) % Max
          IN page' = [page EXCEPT !.slot = (start + export.from) % Max]
    /\ UNCHANGED <<log, stats_mutex, result, export, quiet>>

CopyRecord ==
    /\ Goto("tcp", "copy", "copy_rest")
    /\ page' = [page EXCEPT !.rec.seq = log_buffer[page.slot].seq]
    /\ UNCHANGED <<log, stats_mutex, result, export, quiet>>
CopyRest ==
    /\ Goto("tcp", "copy_rest", "row")
    /\ LET rec == [page.rec EXCEPT !.result = log_buffer[page.slot].result]
       IN /\ page' = [page EXCEPT !.rec = rec, !.rows = @ + 1]
          /\ export' = [export EXCEPT !.from = @ + 1, !.rows = Append(@, rec)]
    /\ UNCHANGED <<log, stats_mutex, result, quiet>>

-----------------------------------------------------------------------------
Record ==
    \/ \E r \in Outcomes : session_stats_record(r)
    \/ WriteFields \/ AdvanceHead \/ CountRecord \/ RunningTotals
Reset == \E t \in Tasks : session_stats_reset(t) \/ ClearSummary(t) \/ Rewind(t)
Export ==
    \/ exportSessionCsv \/ http_rest_session_log \/ EndPage
    \/ session_stats_get \/ Slot \/ CopyRecord \/ CopyRest
Next == Record \/ Reset \/ Export
Spec == Init /\ [][Next]_vars

-----------------------------------------------------------------------------
(* Properties. *)

\* The slot of the i-th oldest record.
At(i) == (log_head + Max - log_count + i - 1) % Max

TypeOK ==
    /\ log_buffer \in [Slots -> throw_record_t]
    /\ log_head \in Slots /\ log_count \in 0 .. Max /\ seq_counter \in 0 .. MaxSeq
    /\ summary \in [{"total"} \union Results -> 0 .. MaxSeq]
    /\ stats_mutex \in Tasks \union {Free} /\ pc \in [Tasks -> Steps] /\ result \in Results
    /\ page.slot \in Slots /\ page.rec \in throw_record_t

\* The log holds the newest throws of the session, all of them up to its size, oldest
\* first.
LogHoldsNewest ==
    /\ log_count = IF seq_counter < Max THEN seq_counter ELSE Max
    /\ \A i \in 1 .. log_count : log_buffer[At(i)].seq = seq_counter - log_count + i

\* The totals count every throw of the session once, and the log accounts for them:
\* what is not in it any more was overwritten.
TotalsAddUp ==
    /\ summary["total"] = seq_counter
    /\ summary["PASS"] + summary["UNDER"] + summary["OVER"] = seq_counter
TotalsMatchLog ==
    /\ TotalsAddUp
    /\ \A r \in Results :
          LET kept == Cardinality({i \in 1 .. log_count : log_buffer[At(i)].result = r})
          IN kept <= summary[r] /\ summary[r] <= kept + (seq_counter - log_count)

\* Whenever nobody is writing, the log and the totals describe the same session
\* (session_stats.h:65 "idx 0 = oldest retained").
LogIsTheSession == stats_mutex = Free => LogHoldsNewest /\ TotalsMatchLog

\* An export during which no throw was recorded and no session reset is the whole log,
\* oldest throw first, however it is cut into pages.
QuietExportIsTheLog ==
    export.st = "done" /\ quiet =>
        export.rows = [i \in 1 .. log_count |-> log_buffer[At(i)]]

\* "every throw logged ... exportable as CSV" (README.md:85): no throw is missing
\* between two throws of a table, none appears twice.
ExportHasNoGap ==
    \A i \in 1 .. Len(export.rows) - 1 : export.rows[i + 1].seq = export.rows[i].seq + 1

=============================================================================
