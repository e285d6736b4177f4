----------------------------- MODULE FileOrder -----------------------------
(***************************************************************************)
(* How the HTTP uploader orders the files of its directory, and what the   *)
(* record of the last file that it sent says after a restart.              *)
(*                                                                         *)
(* A name is its place in strcmp's order (text) and, when it is dated, the *)
(* time and the serial number that it is made of; a file is a name and the *)
(* time of its last change.  HttpUploader takes the files in this order as *)
(* the numbers 1, 2, 3 ...                                                 *)
(***************************************************************************)
EXTENDS Integers

Unordered == [valid |-> FALSE, ts |-> 0, seq |-> 0]
Ordered(t, n) == [valid |-> TRUE, ts |-> t, seq |-> n]

\* parse_data_file_basename_order: data_YYYYMMDD_hhmmss_N, whatever follows
DatedOrder(name) == IF name.dated THEN Ordered(name.ts, name.seq) ELSE Unordered

\* init_file_order: the time of the last change stands in for a date, 0 is none.
InitOrder(name, fallback) ==
    IF name.dated THEN DatedOrder(name)
    ELSE IF fallback # 0 THEN Ordered(fallback, 0) ELSE Unordered

\* list_log_files
Item(file) == [order |-> InitOrder(file.name, file.mtime), name |-> file.name]

\* compare_file_order: what has no order comes before all that has one.
Before(x, y) ==
    LET a == x.order  b == y.order IN
    \/ ~a.valid /\ b.valid
    \/ /\ a.valid /\ b.valid
       /\ \/ a.ts < b.ts
          \/ a.ts = b.ts /\ a.seq < b.seq
          \/ a.ts = b.ts /\ a.seq = b.seq /\ x.name.text < y.name.text
    \/ ~a.valid /\ ~b.valid /\ x.name.text < y.name.text

\* cmp_file_item
Listed(f, g) == \/ Before(Item(f), Item(g))
                \/ ~Before(Item(g), Item(f)) /\ f.mtime < g.mtime
-----------------------------------------------------------------------------
(* The record *)

NoName == [text |-> 0, dated |-> FALSE, ts |-> 0, seq |-> 0]
NoState == [valid |-> FALSE, order |-> Unordered, name |-> NoName]

\* is_item_after_sent_state
AfterSentState(x, state) == ~state.valid \/ Before(state, x)

\* advance_sent_state: an item without an order is not recorded.
Advance(state, x) ==
    IF x.order.valid THEN [valid |-> TRUE, order |-> x.order, name |-> x.name] ELSE state

\* save_sent_state writes one line, the time and the name.  A file of an older
\* version has the name only; there may be no line at all.
NoRecord == [form |-> "none", ts |-> 0, name |-> NoName]
Save(state) == [form |-> "stamped", ts |-> state.order.ts, name |-> state.name]

\* resolve_sent_state_order: "mtime" is that of the file of this name in the
\* directory, 0 when it is not there.
ResolveOrder(name, saved, mtime) ==
    IF InitOrder(name, saved).valid THEN InitOrder(name, saved) ELSE InitOrder(name, mtime)

\* load_sent_state
Load(record, mtime) ==
    LET saved == IF record.form = "stamped" THEN record.ts ELSE 0
        order == ResolveOrder(record.name, saved, mtime) IN
    IF record.form = "none" \/ ~order.valid THEN NoState
    ELSE [valid |-> TRUE, order |-> order, name |-> record.name]
=============================================================================
