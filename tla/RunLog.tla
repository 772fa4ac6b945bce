------------------------------- MODULE RunLog -------------------------------
(***************************************************************************)
(* The observability log of agent runs (main/agent/observability): the bus *)
(* with its two sinks, the buffered daily files, the run index, the reader *)
(* the log viewer asks, and the timeline it folds a run into.  Days pass,  *)
(* writes fail and the process dies at any moment.                         *)
(***************************************************************************)
EXTENDS Naturals, Sequences, SequencesExt

CONSTANTS
  Runs,       \* agent runs
  Tools,      \* tool-use ids
  LastDay,    \* bound: days 0..LastDay
  PerRun,     \* bound: events one run emits
  QueueLimit, \* MAX_QUEUED_EVENTS
  BufferLimit,\* maxBufferChars, in events
  Trouble,    \* bound: failed writes, restarts and mode changes of a behaviour
  None        \* no run, no stretch

VARIABLES
  day,       \* the wall clock, in days
  loggingMode, \* "errors" or "full"
  sinks,     \* 0, 1 (the file sink) or 2 (and the index sink)
  queue,     \* events emitted before a sink is attached
  buffer,    \* the file sink's lines that are not on disk
  daily,     \* per day: the lines of its file
  latest,    \* the day the latest.jsonl link points at
  runsIndex, \* runs-index.jsonl
  logger,    \* per run: its run logger
  troubles,  \* bound: how many there were
  kept,      \* history: events the file sink accepted, in order
  lost,      \* history: accepted events a failed write or a crash took
  overnight  \* history: events still buffered when the day of their run's end was over

vars == <<day, loggingMode, sinks, queue, buffer, daily, latest, runsIndex, logger,
          troubles, kept, lost, overnight>>

Days == 0..LastDay
NoLogger == [pc |-> "none", n |-> 0, stretch |-> None, waiting |-> FALSE, tools |-> {}]

Init ==
  /\ day = 0
  /\ loggingMode = "errors"
  /\ sinks = 0
  /\ queue = <<>> /\ buffer = <<>> /\ runsIndex = <<>>
  /\ daily = [d \in Days |-> <<>>]
  /\ latest = None
  /\ logger = [r \in Runs |-> NoLogger]
  /\ troubles = 0 /\ kept = <<>> /\ lost = {} /\ overnight = {}

isErrorClassEvent(e) == e.kind \in {"start", "end", "fail", "error"}

Troubled(bad) ==
  /\ bad => troubles < Trouble
  /\ troubles' = troubles + (IF bad THEN 1 ELSE 0)

\* appendFileSync to the file of the day of the flush, which latest.jsonl then names; what a
\* failed write took is gone.
OnDisk(lines, gone) ==
  /\ daily' = [daily EXCEPT ![day] = @ \o lines]
  /\ latest' = IF lines = <<>> THEN latest ELSE day
  /\ lost' = lost \cup ToSet(gone)

\* flush: the buffer is emptied before it is written, and a failure is swallowed.
Flush(written) ==
  /\ buffer' = <<>>
  /\ IF written THEN OnDisk(buffer, <<>>) ELSE OnDisk(<<>>, buffer)

\* The filtered file sink takes some events of a batch, line by line: the line that fills the
\* buffer flushes it, those behind it stay.  Each flush may fail on its own.
Buffered(events, written, size) ==
  LET accepted == SelectSeq(events, LAMBDA e : loggingMode = "full" \/ isErrorClassEvent(e))
      all == buffer \o accepted
      flushes == Len(all) \div size
      Lines(which) == FlattenSeq([f \in 1..flushes |->
                        IF f \in which THEN SubSeq(all, (f - 1) * size + 1, f * size) ELSE <<>>])
  IN  /\ kept' = kept \o accepted
      /\ buffer' = SubSeq(all, flushes * size + 1, Len(all))
      /\ \E bad \in IF written THEN {{}} ELSE SUBSET (1..flushes) \ {{}} :
           OnDisk(Lines(1..flushes \ bad), Lines(bad))
      /\ Troubled(~written)

\* Mutant: the buffer is flushed once it is over the limit.
FlushLate(events, written) == Buffered(events, written, BufferLimit + 1)

FileSink(events, written) == Buffered(events, written, BufferLimit)

\* The index sink mirrors run boundaries, each written through at once.
IndexSink(events) ==
  runsIndex' = runsIndex \o
    [i \in 1..Len(SelectSeq(events, LAMBDA e : e.kind \in {"start", "end"})) |->
      LET e == SelectSeq(events, LAMBDA x : x.kind \in {"start", "end"})[i]
      IN  [kind |-> e.kind, run |-> e.run, date |-> day]]

\* agentLog.emit, for the events one call of the run logger emits.
Emit(events, written) ==
  IF sinks = 0
  THEN /\ queue' = SubSeq(queue \o events, 1, IF Len(queue) + Len(events) > QueueLimit
                                              THEN QueueLimit ELSE Len(queue) + Len(events))
       /\ UNCHANGED <<buffer, daily, latest, lost, kept, runsIndex, troubles>>
  ELSE /\ FileSink(events, written)
       /\ IF sinks = 2 THEN IndexSink(events) ELSE UNCHANGED runsIndex
       /\ UNCHANGED queue

Event(r, n, kind, tool) == [run |-> r, n |-> n, kind |-> kind, tool |-> tool]

\* An error of the main process before a run: queued when nothing is attached yet.
EmitEarly ==
  /\ sinks = 0 /\ Len(queue) <= QueueLimit /\ day = 0 /\ kept = <<>>
  /\ Emit(<<Event(None, Len(queue), "error", None)>>, TRUE)
  /\ UNCHANGED <<day, loggingMode, sinks, logger, overnight>>

\* registerLogsIpc: the file sink takes the queued events, the index sink finds none.
AttachFile ==
  /\ sinks = 0
  /\ sinks' = 1 /\ queue' = <<>>
  /\ FileSink(queue, TRUE)
  /\ UNCHANGED <<day, loggingMode, runsIndex, logger, overnight>>

AttachIndex ==
  /\ sinks = 1
  /\ sinks' = 2
  /\ UNCHANGED <<day, loggingMode, queue, buffer, daily, latest, runsIndex, logger,
                 troubles, kept, lost, overnight>>

\* logs:setMode: the very next event is filtered by the new mode.
SetMode(mode) ==
  /\ sinks = 2 /\ mode # loggingMode /\ Troubled(TRUE)
  /\ loggingMode' = mode
  /\ UNCHANGED <<day, sinks, queue, buffer, daily, latest, runsIndex, logger,
                 kept, lost, overnight>>

\* What one recorded event emits: ttft first, then the stretch it closes, then itself.
Emitted(r, kind, tool) ==
  LET l == logger[r]
      token == kind \in {"text", "thinking", "use"} /\ l.waiting
      closes == /\ l.stretch # None /\ l.stretch # kind
                /\ kind \in {"text", "thinking", "turn", "use", "end"}
      names == (IF token THEN <<"ttft">> ELSE <<>>)
               \o (IF closes THEN <<"stretch">> ELSE <<>>)
               \o (IF kind \in {"text", "thinking"} THEN <<>> ELSE <<kind>>)
  IN  [i \in 1..Len(names) |->
        Event(r, l.n + i, names[i], IF names[i] = kind THEN tool ELSE None)]

Logged(r, kind, tool) ==
  LET l == logger[r]
  IN  [pc |-> IF kind \in {"end", "error"} THEN "over" ELSE "running",
       n |-> l.n + Len(Emitted(r, kind, tool)),
       stretch |-> CASE kind \in {"text", "thinking"} -> kind
                     [] kind \in {"turn", "use", "end"} -> None
                     [] OTHER -> l.stretch,
       waiting |-> kind = "turn" \/ (l.waiting /\ kind \notin {"text", "thinking", "use"}),
       tools |-> CASE kind = "use" -> l.tools \cup {tool}
                   [] kind \in {"ok", "fail"} -> l.tools \ {tool}
                   [] OTHER -> l.tools]

\* createRunLogger emits run_start; the handler is registered after the sinks.
StartRun(r, written) ==
  /\ sinks = 2 /\ logger[r].pc = "none"
  /\ Emit(<<Event(r, 0, "start", None)>>, written)
  /\ logger' = [logger EXCEPT ![r].pc = "running"]
  /\ UNCHANGED <<day, loggingMode, sinks, overnight>>

\* record(event), for the events whose order or pairing a reader depends on.
Record(r, kind, tool, written) ==
  /\ sinks = 2 /\ logger[r].pc = "running" /\ logger[r].n < PerRun
  /\ kind \in {"text", "thinking", "turn", "use", "ok", "fail"}
  /\ IF kind = "use" THEN tool \in Tools \ logger[r].tools
     ELSE IF kind \in {"ok", "fail"} THEN tool \in logger[r].tools ELSE tool = None
  /\ Emit(Emitted(r, kind, tool), written)
  /\ logger' = [logger EXCEPT ![r] = Logged(r, kind, tool)]
  /\ UNCHANGED <<day, loggingMode, sinks, overnight>>

\* The handler's last words: end(terminal), or error when the loop threw.
EndRun(r, kind, written) ==
  /\ sinks = 2 /\ logger[r].pc = "running"
  /\ kind \in {"end", "error"}
  /\ Emit(Emitted(r, kind, None), written)
  /\ logger' = [logger EXCEPT ![r] = Logged(r, kind, None)]
  /\ UNCHANGED <<day, loggingMode, sinks, overnight>>

\* The one-second timer, the finally block of a run, and logs:listRuns / logs:readRun.
FlushLog(written) ==
  /\ buffer # <<>>
  /\ Flush(written) /\ Troubled(~written)
  /\ UNCHANGED <<day, loggingMode, sinks, queue, runsIndex, logger, kept, overnight>>

\* will-quit disposes the sinks, a crash does not; then the process starts again.
Restart(quits) ==
  /\ sinks = 2 /\ Troubled(TRUE)
  /\ IF quits THEN Flush(TRUE)
     ELSE buffer' = <<>> /\ lost' = lost \cup ToSet(buffer) /\ UNCHANGED <<daily, latest>>
  /\ sinks' = 0 /\ queue' = <<>>
  /\ logger' = [r \in Runs |-> IF logger[r].pc = "running" THEN [NoLogger EXCEPT !.pc = "over"]
                               ELSE logger[r]]
  /\ UNCHANGED <<day, loggingMode, runsIndex, kept, overnight>>

Midnight ==
  /\ day < LastDay
  /\ day' = day + 1
  /\ overnight' = overnight \cup
       {e \in ToSet(buffer) : e.run = None \/ logger[e.run].pc = "over"}
  /\ UNCHANGED <<loggingMode, sinks, queue, buffer, daily, latest, runsIndex, logger,
                 troubles, kept, lost>>

Next ==
  \/ EmitEarly \/ AttachFile \/ AttachIndex \/ Midnight
  \/ \E mode \in {"errors", "full"} : SetMode(mode)
  \/ \E quits \in BOOLEAN : Restart(quits)
  \/ \E written \in BOOLEAN : FlushLog(written)
  \/ \E r \in Runs, written \in BOOLEAN :
       \/ StartRun(r, written)
       \/ \E kind \in {"end", "error"} : EndRun(r, kind, written)
       \/ \E kind \in {"text", "thinking", "turn", "use", "ok", "fail"}, tool \in Tools \cup {None} :
            Record(r, kind, tool, written)

Spec == Init /\ [][Next]_vars

----------------------------------------------------------------------------
(* The reader *)

\* listRuns: a start opens a summary, an end without one is unlistable.
ListRuns ==
  LET Line(acc, line) ==
        CASE line.kind = "start" -> [acc EXCEPT ![line.run] = [start |-> line.date, end |-> None]]
          [] acc[line.run].start # None -> [acc EXCEPT ![line.run].end = line.date]
          [] OTHER -> acc
  IN  FoldLeft(Line, [r \in Runs |-> [start |-> None, end |-> None]], runsIndex)

\* Mutant: the run that never ended is looked for on its first day only.
FirstDayOnly(summary) ==
  IF summary.start = None THEN {}
  ELSE summary.start..(IF summary.end = None THEN summary.start ELSE summary.end)

\* candidateDates: start to end, or the next day for a run that never ended.
CandidateDates(summary) ==
  IF summary.start = None THEN {}
  ELSE summary.start..(IF summary.end = None THEN summary.start + 1 ELSE summary.end)

\* readRunEvents: the run's lines of the candidate files, in the order of the days.
ReadRunEvents(r) ==
  LET dates == CandidateDates(ListRuns[r])
      Of(d) == IF d \in dates THEN SelectSeq(daily[d], LAMBDA e : e.run = r) ELSE <<>>
  IN  FoldLeft(LAMBDA acc, d : acc \o Of(d), <<>>, [i \in 1..(LastDay + 1) |-> i - 1])

\* buildRunTimeline: a result completes the row its tool_use opened, or stands alone.
BuildRunTimeline(events) ==
  LET Row(e, done) == [tool |-> e.tool, done |-> done, bad |-> e.kind \in {"fail", "error"}]
      Step(acc, e) ==
        CASE e.kind = "use" ->
               [acc EXCEPT !.items = Append(@, Row(e, FALSE)),
                           !.open = [@ EXCEPT ![e.tool] = Len(acc.items) + 1]]
          [] e.kind \in {"ok", "fail"} ->
               LET failed == IF e.kind = "fail" THEN 1 ELSE 0
               IN  IF acc.open[e.tool] # 0
                   THEN [acc EXCEPT !.items = [@ EXCEPT ![acc.open[e.tool]] = Row(e, TRUE)],
                                    !.open = [@ EXCEPT ![e.tool] = 0], !.errors = @ + failed]
                   ELSE [acc EXCEPT !.items = Append(@, Row(e, TRUE)), !.errors = @ + failed]
          [] e.kind = "error" ->
               [acc EXCEPT !.items = Append(@, Row(e, TRUE)), !.errors = @ + 1]
          [] e.kind \in {"start", "end", "ttft"} -> acc
          [] OTHER -> [acc EXCEPT !.items = Append(@, Row(e, TRUE))]
  IN  FoldLeft(Step, [items |-> <<>>, open |-> [t \in Tools |-> 0], errors |-> 0], events)

----------------------------------------------------------------------------
(* Properties *)

TypeOK ==
  /\ day \in Days /\ latest \in Days \cup {None}
  /\ loggingMode \in {"errors", "full"} /\ sinks \in 0..2
  /\ Len(queue) <= QueueLimit /\ Len(buffer) < BufferLimit
  /\ lost \subseteq ToSet(kept) /\ overnight \subseteq ToSet(kept)
  /\ \A r \in Runs : logger[r].n <= PerRun + 3

\* What the sink accepted is on disk, still buffered, or known lost - once and in order.
Accounted ==
  LET written == FoldLeft(LAMBDA acc, d : acc \o daily[d], <<>>, [i \in 1..(LastDay + 1) |-> i - 1])
  IN  written \o buffer = SelectSeq(kept, LAMBDA e : e \notin lost)

\* The viewer finds every event of a run that is on disk, except what was flushed
\* after the day the run ended on, or later than the day after the start of a run
\* that never ended.
RunsReadable ==
  \A r \in Runs :
    LET found == ReadRunEvents(r)
        summary == ListRuns[r]
        reached == IF summary.end = None THEN summary.start + 1 ELSE LastDay
        disk == UNION {ToSet(daily[d]) : d \in {x \in Days : summary.start # None => x <= reached}}
    IN  ToSet(SelectSeq(kept, LAMBDA e : e.run = r)) \cap disk
          \subseteq ToSet(found) \cup overnight

\* A failure that was read is shown: every failing event has a row marked as one, and
\* a row stays open only while its result is not in the stream.
FailuresShown ==
  \A r \in Runs :
    LET events == ReadRunEvents(r)
        line == BuildRunTimeline(events)
        bad == SelectSeq(events, LAMBDA e : e.kind \in {"fail", "error"})
    IN  /\ Len(bad) = line.errors
        /\ Len(bad) = Len(SelectSeq(line.items, LAMBDA i : i.bad))
        /\ \A i \in 1..Len(events) :
             events[i].kind = "use" /\ (\E j \in i + 1..Len(events) :
               events[j].kind \in {"ok", "fail"} /\ events[j].tool = events[i].tool)
             => \E k \in 1..Len(line.items) : line.items[k].tool = events[i].tool /\ line.items[k].done

LogKept == Accounted /\ RunsReadable /\ FailuresShown
=============================================================================
