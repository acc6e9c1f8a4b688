------------------------- MODULE CliProgressController -------------------------
(***************************************************************************)
(* src/Storage/progress.cpp: the table entries that the table tasks and    *)
(* the partition workers report to, and what the user sees of them.  Every *)
(* call holds mutex_ from its first to its last line, so a call is one     *)
(* step.                                                                   *)
(*                                                                         *)
(* On a terminal (interactive_tty_) a frame of one line per table is drawn *)
(* over and over at the bottom of the screen; a thread of the controller   *)
(* redraws it when it is dirty, and failure messages go above it.          *)
(* Otherwise (append_only_) a line is appended for an entry from time to   *)
(* time; of these lines the model keeps the last one of each table.  Quiet *)
(* runs have no controller.                                                *)
(*                                                                         *)
(* The module gives the calls; Program makes them.                         *)
(***************************************************************************)
EXTENDS Integers, Sequences

CONSTANTS
  TableCount,   \* number of tables shown, at least one
  MaxRows       \* the largest value of rows_written (2^64 - 1 in the code)

ASSUME TableCountAssumption == TableCount \in Nat \ {0}
ASSUME MaxRowsAssumption == MaxRows \in Nat

VARIABLES
  interactive_tty,  \* interactive_tty_; append_only_ is its negation
  entries,          \* tables_
  display,          \* the terminal, and frame_drawn_, rendered_lines_, render_dirty_
  appended,         \* append_only_: the last line of each table
  stop_requested,   \* stop_requested_
  render_thread,    \* where the render thread is
  reported          \* history: the tables of the ReportFailure calls

cliVars ==
  <<interactive_tty, entries, display, appended, stop_requested, render_thread, reported>>

Tables == 1 .. TableCount
Statuses == {"Pending", "Running", "Done", "Failed"}
Entry == [status : Statuses, rows_written : 0 .. MaxRows, part_count : Nat, completed_parts : Nat]

Line(t, entry) == [table |-> t, entry |-> entry]
Message(t) == [message |-> t]
Blank == [blank |-> TRUE]
Notice == [notice |-> TRUE]
NoLine == [none |-> TRUE]

-----------------------------------------------------------------------------
(* The terminal: `cursor` is the row the next line goes to.                *)

Up(d, n) == [d EXCEPT !.cursor = @ - n]

\* Lines written from the cursor down, over what is there.
Write(d, lines) ==
  [d EXCEPT
    !.screen = SubSeq(@, 1, d.cursor - 1) \o lines \o SubSeq(@, d.cursor + Len(lines), Len(@)),
    !.cursor = @ + Len(lines)]

Frame(es) == [t \in Tables |-> Line(t, es[t])]

\* RenderFrameLocked on a terminal, where `lines` come out.
DrawLines(d, lines) ==
  [Write(IF d.frame_drawn THEN Up(d, d.rendered_lines) ELSE d, lines) EXCEPT
     !.rendered_lines = TableCount, !.frame_drawn = TRUE, !.dirty = FALSE]

RenderFrame(d, es) == DrawLines(d, Frame(es))

\* Another writer puts a line on the stream when k lines of the frame are out.
FrameAround(d, es, k) ==
  DrawLines(d, SubSeq(Frame(es), 1, k) \o <<Notice>> \o SubSeq(Frame(es), k + 1, TableCount))

\* ClearFrameLocked(return_to_frame_start = true).
ClearFrame(d) ==
  IF d.frame_drawn
    THEN Up(Write(Up(d, d.rendered_lines), [i \in 1 .. d.rendered_lines |-> Blank]), d.rendered_lines)
    ELSE d

\* Mutant of WriteFailureMessage: the message is written where the frame will be drawn.
MessageUnderFrame(d, es, t) == RenderFrame(Write(ClearFrame(d), <<Message(t)>>), es)

\* WriteFailureMessage on a terminal: the message takes the first line of the
\* frame, and a new frame begins below it.
WriteFailureMessage(d, es, t) ==
  RenderFrame([Write(ClearFrame(d), <<Message(t)>>) EXCEPT
                 !.frame_drawn = FALSE, !.rendered_lines = 0], es)

-----------------------------------------------------------------------------

NewEntry == [status |-> "Pending", rows_written |-> 0, part_count |-> 0, completed_parts |-> 0]

EmptyTerminal ==
  [screen |-> <<>>, cursor |-> 1, frame_drawn |-> FALSE, rendered_lines |-> 0, dirty |-> TRUE]

\* The constructor draws the first frame and starts the render thread.
CliInit ==
  /\ interactive_tty \in BOOLEAN
  /\ entries = [t \in Tables |-> NewEntry]
  /\ display = IF interactive_tty THEN RenderFrame(EmptyTerminal, entries) ELSE EmptyTerminal
  /\ appended = [t \in Tables |-> NoLine]
  /\ stop_requested = FALSE
  /\ render_thread = IF interactive_tty THEN "test" ELSE "none"
  /\ reported = <<>>

\* render_cv_.notify_all: the thread tests its predicate again.
Notify == render_thread' = IF render_thread = "asleep" THEN "test" ELSE render_thread

\* RequestRender after an update: at once, or by the render thread.
RequestRender(immediate) ==
  \/ /\ ~interactive_tty
     /\ UNCHANGED <<display, render_thread>>
  \/ /\ interactive_tty
     /\ immediate
     /\ display' = RenderFrame(display, entries')
     /\ UNCHANGED render_thread
  \/ /\ interactive_tty
     /\ ~immediate
     /\ display' = [display EXCEPT !.dirty = TRUE]
     /\ Notify

\* MaybeEmitAppendOnly: the first line of a table and a forced one are always
\* written; whether another is due depends on the clock and on the percentage.
MaybeEmitAppendOnly(t, force) ==
  LET emitted == [appended EXCEPT ![t] = Line(t, entries'[t])]
  IN  appended' \in IF interactive_tty THEN {appended}
                    ELSE IF force \/ appended[t] = NoLine THEN {emitted}
                    ELSE {appended, emitted}

\* What every call but ReportFailure does with the entry it has changed.
Update(t, entry, force, immediate) ==
  /\ entries' = [entries EXCEPT ![t] = entry]
  /\ MaybeEmitAppendOnly(t, force)
  /\ RequestRender(immediate)
  /\ UNCHANGED <<interactive_tty, stop_requested, reported>>

Status(t) == entries[t].status

MarkTableStarted(t, part_count) ==
  IF Status(t) = "Failed" THEN UNCHANGED cliVars
  ELSE Update(t, [entries[t] EXCEPT !.part_count = part_count, !.status = "Running"], TRUE, FALSE)

\* rows_written saturates.
AddCommittedRows(t, rows) ==
  IF rows = 0 \/ Status(t) \in {"Failed", "Done"} THEN UNCHANGED cliVars
  ELSE Update(t, [entries[t] EXCEPT !.status = "Running",
                                    !.rows_written = IF MaxRows - @ < rows THEN MaxRows ELSE @ + rows],
              FALSE, FALSE)

\* Mutant of MarkPartCompleted: a failed table is running again.
MarkPartRevives(t) ==
  IF Status(t) = "Done" THEN UNCHANGED cliVars
  ELSE Update(t, [entries[t] EXCEPT !.status = "Running", !.completed_parts = @ + 1], FALSE, FALSE)

MarkPartCompleted(t) ==
  IF Status(t) \in {"Failed", "Done"} THEN UNCHANGED cliVars
  ELSE LET count == entries[t].completed_parts + 1
           bound == entries[t].part_count
       IN  Update(t, [entries[t] EXCEPT !.status = "Running",
                                        !.completed_parts = IF bound \in 1 .. count THEN bound ELSE count],
                  FALSE, FALSE)

MarkTableFinished(t) ==
  IF Status(t) = "Failed" THEN UNCHANGED cliVars
  ELSE Update(t, [entries[t] EXCEPT !.status = "Done",
                                    !.completed_parts = IF entries[t].part_count > 0
                                                          THEN entries[t].part_count ELSE @],
              TRUE, TRUE)

\* No test of the status: a table that failed fails again, with a message of its own.
ReportFailure(t) ==
  /\ entries' = [entries EXCEPT ![t].status = "Failed"]
  /\ MaybeEmitAppendOnly(t, TRUE)
  /\ display' = IF interactive_tty THEN WriteFailureMessage(display, entries', t) ELSE display
  /\ reported' = Append(reported, t)
  /\ UNCHANGED <<interactive_tty, stop_requested, render_thread>>

\* Mutant of RequestStop: no notify_all.
RequestStopSilently ==
  /\ stop_requested' = TRUE
  /\ UNCHANGED <<interactive_tty, entries, display, appended, render_thread, reported>>

\* Stop, its first block.
RequestStop ==
  /\ stop_requested' = TRUE
  /\ Notify
  /\ UNCHANGED <<interactive_tty, entries, display, appended, reported>>

\* Stop, after the join: what the render thread did not draw is drawn now.
LastFrame ==
  /\ render_thread \in {"none", "ended"}
  /\ display' = IF interactive_tty THEN RenderFrame(display, entries) ELSE display
  /\ UNCHANGED <<interactive_tty, entries, appended, stop_requested, render_thread, reported>>

\* RenderLoop from one sleep to the next, all of it under the mutex.
RenderLoop ==
  /\ render_thread = "test"
  /\ \/ /\ stop_requested
        /\ render_thread' = "ended"
        /\ UNCHANGED display
     \/ /\ ~stop_requested
        /\ render_thread' = "asleep"
        /\ display' = IF display.dirty THEN RenderFrame(display, entries) ELSE display
  /\ UNCHANGED <<interactive_tty, entries, appended, stop_requested, reported>>

\* Whoever writes a line to the stream without the mutex writes it where the
\* cursor is: below the frame, which does not learn of it, or between two lines
\* of a frame that the render thread is drawing.
ForeignLine ==
  /\ \/ /\ display' = IF interactive_tty THEN Write(display, <<Notice>>) ELSE display
        /\ UNCHANGED render_thread
     \/ /\ render_thread = "test" /\ ~stop_requested /\ display.dirty
        /\ \E k \in 0 .. TableCount - 1 : display' = FrameAround(display, entries, k)
        /\ render_thread' = "asleep"
  /\ UNCHANGED <<interactive_tty, entries, appended, stop_requested, reported>>

-----------------------------------------------------------------------------
(* Properties *)

CliTypeOK ==
  /\ interactive_tty \in BOOLEAN
  /\ entries \in [Tables -> Entry]
  /\ display.cursor \in Nat \ {0}
  /\ display.frame_drawn \in BOOLEAN
  /\ display.dirty \in BOOLEAN
  /\ display.rendered_lines \in {0, TableCount}
  /\ stop_requested \in BOOLEAN
  /\ render_thread \in {"none", "test", "asleep", "ended"}
  /\ reported \in Seq(Tables)

\* No failure message is ever drawn over: they are at the top of the screen, in
\* the order of the reports.
MessagesKept ==
  interactive_tty => \A i \in DOMAIN reported : display.screen[i] = Message(reported[i])

\* The line of table t in the frame, which is what is at the bottom of the screen.
Shown(t) == display.screen[Len(display.screen) - TableCount + t]

\* Of the rows between the messages and the cursor, all are the frame but
\* `stray` ones: one whole frame and no part of an old one when there are none.
ScreenWhole(stray) ==
  interactive_tty =>
    /\ Len(display.screen) = Len(reported) + stray + TableCount
    /\ display.cursor = Len(display.screen) + 1
    /\ stray = 0 => \A t \in Tables : "table" \in DOMAIN Shown(t) /\ Shown(t).table = t

\* A frame that is not up to date is marked dirty and the render thread is awake
\* to draw it, or the controller is stopping.
StaleIsDirty ==
  interactive_tty /\ ~stop_requested =>
    \/ \A t \in Tables : Shown(t) = Line(t, entries[t])
    \/ display.dirty /\ render_thread = "test"

\* What the user is left with: every entry as it is in the last frame; without
\* a terminal, the last line of every table that ended.
ShowsEntries ==
  IF interactive_tty
    THEN \A t \in Tables : Shown(t) = Line(t, entries[t])
    ELSE \A t \in Tables : Status(t) \in {"Done", "Failed"} => appended[t] = Line(t, entries[t])
=============================================================================
