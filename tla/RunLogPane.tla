----------------------------- MODULE RunLogPane -----------------------------
(***************************************************************************)
(* The run log tab (RunLogView): the list of runs, the run that is picked, *)
(* its events folded into rows (buildRunTimeline), and the replay step.    *)
(* Listing the runs and reading one share a token: whichever was asked     *)
(* last wins.  A run logged in errors-only mode keeps its failing results  *)
(* without the calls they answer.                                          *)
(***************************************************************************)
EXTENDS Naturals, Sequences, FiniteSets
LOCAL INSTANCE SequencesExt

CONSTANTS
  Runs,      \* bound: runs logged; run n is newer than run n - 1
  SessionOf, \* the session of each run
  Errors,    \* the runs logged in errors-only mode
  CallIds,   \* tool-use ids
  Events,    \* bound: events logged, of all runs
  Asks,      \* bound: questions to the main process
  None       \* no run, no page

VARIABLES
  logs,     \* the events of each run so far
  begun,    \* the runs logged so far: 1 .. begun
  active,   \* the session the user is in
  runs,     \* the list shown
  selected, \* the run picked
  page,     \* the run and the events shown, or None
  step,     \* the replay step
  token,    \* of the question asked last
  asked     \* the questions under way

vars == <<logs, begun, active, runs, selected, page, step, token, asked>>
view == <<runs, selected, page, step>>

Init ==
  /\ logs = [r \in 1 .. Runs |-> <<>>] /\ begun = 0
  /\ active \in {SessionOf[r] : r \in 1 .. Runs}
  /\ runs = <<>> /\ selected = None /\ page = None /\ step = 0
  /\ token = 1 /\ asked = {[of |-> 1, run |-> None]}

----------------------------------------------------------------------------
(* buildRunTimeline.                                                        *)

Fails(e) == e.type = "error" \/ (e.type = "tool_result" /\ ~e.ok)

Row(e) == [type |-> e.type, error |-> Fails(e), first |-> FALSE]

\* Mutant: a result without its call is left out.
DropsResult(t, e) ==
  IF e.id \in DOMAIN t.open
  THEN [t EXCEPT !.rows[t.open[e.id]].error = Fails(e)]
  ELSE t

\* A result completes the row of its call, or has one of its own.
Completes(t, e) ==
  IF e.id \in DOMAIN t.open
  THEN [t EXCEPT !.rows[t.open[e.id]].error = Fails(e), !.open = [i \in DOMAIN @ \ {e.id} |-> @[i]]]
  ELSE [t EXCEPT !.rows = Append(@, Row(e))]

Folded(t, e) ==
  CASE e.type = "run_end" -> t
    [] e.type = "ttft" -> IF t.turn = 0 THEN t ELSE [t EXCEPT !.rows[t.turn].first = TRUE]
    [] e.type = "turn_start" -> [t EXCEPT !.rows = Append(@, Row(e)), !.turn = Len(t.rows) + 1]
    [] e.type = "tool_use" ->
         [t EXCEPT !.rows = Append(@, Row(e)),
                   !.open = [i \in DOMAIN @ \cup {e.id} |-> IF i = e.id THEN Len(t.rows) + 1 ELSE @[i]]]
    [] e.type = "tool_result" -> Completes(t, e)
    [] OTHER -> [t EXCEPT !.rows = Append(@, Row(e))]

Timeline(events) ==
  LET folded == FoldLeft(Folded, [rows |-> <<>>, open |-> <<>>, turn |-> 0], events)
  IN  [rows |-> folded.rows,
       errorCount |-> Cardinality({i \in DOMAIN events : Fails(events[i])}),
       boundariesOnly |-> \A i \in DOMAIN events : events[i].type = "run_end"]

----------------------------------------------------------------------------
(* The runs, and the user's session.                                        *)

Open(log) ==
  {id \in CallIds : \E i \in DOMAIN log :
     /\ log[i].type = "tool_use" /\ log[i].id = id
     /\ \A j \in i + 1 .. Len(log) : log[j].type = "tool_result" => log[j].id # id}

Logged(r) ==
  {[type |-> "error"], [type |-> "run_end"]}
    \cup (IF r \in Errors
          THEN {[type |-> "tool_result", id |-> id, ok |-> FALSE] : id \in CallIds}
          ELSE {[type |-> t] : t \in {"turn_start", "ttft"}}
               \cup {[type |-> "tool_use", id |-> id] : id \in CallIds \ Open(logs[r])}
               \cup {[type |-> "tool_result", id |-> id, ok |-> ok] : id \in Open(logs[r]), ok \in BOOLEAN})

Begins == begun < Runs /\ begun' = begun + 1 /\ UNCHANGED <<logs, active, view, token, asked>>

Logs(r) ==
  /\ r <= begun /\ Len(FlattenSeq(logs)) < Events
  /\ \A i \in DOMAIN logs[r] : logs[r][i].type # "run_end"
  /\ \E e \in Logged(r) : logs' = [logs EXCEPT ![r] = Append(@, e)]
  /\ UNCHANGED <<begun, active, view, token, asked>>

----------------------------------------------------------------------------
(* RunLogView.                                                              *)

\* The question for the list is the one for no run.
Ask(run) == token' = token + 1 /\ asked' = asked \cup {[of |-> token + 1, run |-> run]}

MayAsk == Cardinality(asked) < Asks /\ token <= Asks

\* The refresh button, and every change of the active session.
RefreshRuns == MayAsk /\ Ask(None) /\ UNCHANGED <<logs, begun, active, view>>
TurnsTo(s) == s # active /\ active' = s /\ MayAsk /\ Ask(None) /\ UNCHANGED <<logs, begun, view>>

\* The picker.
PicksRun(r) ==
  /\ Contains(runs, r) /\ MayAsk /\ selected' = r /\ Ask(r)
  /\ UNCHANGED <<logs, begun, active, runs, page, step>>

\* Mutant: every answer is shown.
AnyAnswer(q) == q.of <= token

IsLatest(q) == q.of = token

\* The active session's runs first, both parts newest first.
Sorted ==
  LET newest == [i \in 1 .. begun |-> begun + 1 - i]
      Mine(r) == SessionOf[r] = active
  IN  SelectSeq(newest, Mine) \o SelectSeq(newest, LAMBDA r : ~Mine(r))

Keeps(rs) == IF Contains(rs, selected) THEN selected ELSE IF rs = <<>> THEN None ELSE Head(rs)

LastStep(rows) == IF rows = <<>> THEN 0 ELSE Len(rows) - 1

\* listRuns answers, or fails: an empty list; the selected run is read next.
RunsListed(q, ok) ==
  /\ q \in asked /\ q.run = None
  /\ IF IsLatest(q)
     THEN LET rs == IF ok THEN Sorted ELSE <<>>
          IN  /\ runs' = rs /\ selected' = Keeps(rs) /\ step' = step
              /\ IF selected' = None
                 THEN page' = None /\ token' = token /\ asked' = asked \ {q}
                 ELSE /\ page' = page /\ token' = token + 1
                      /\ asked' = (asked \ {q}) \cup {[of |-> token', run |-> selected']}
     ELSE asked' = asked \ {q} /\ UNCHANGED <<view, token>>
  /\ UNCHANGED <<logs, begun, active>>

RunRead(q, ok) ==
  /\ q \in asked /\ q.run # None /\ asked' = asked \ {q}
  /\ IF IsLatest(q)
     THEN IF ok THEN /\ page' = [run |-> q.run, events |-> logs[q.run]]
                     /\ step' = LastStep(Timeline(logs[q.run]).rows)
                ELSE page' = None /\ step' = step
     ELSE UNCHANGED <<page, step>>
  /\ UNCHANGED <<logs, begun, active, runs, selected, token>>

\* The arrows, the slider, a click on a row: within the rows.
SetStep(n) ==
  /\ page # None /\ Timeline(page.events).rows # <<>>
  /\ step' = IF n < Len(Timeline(page.events).rows) THEN n ELSE LastStep(Timeline(page.events).rows)
  /\ UNCHANGED <<logs, begun, active, runs, selected, page, token, asked>>

Next ==
  \/ Begins \/ RefreshRuns
  \/ \E r \in 1 .. Runs : Logs(r) \/ PicksRun(r)
  \/ \E s \in {SessionOf[r] : r \in 1 .. Runs} : TurnsTo(s)
  \/ \E q \in asked, ok \in BOOLEAN : RunsListed(q, ok) \/ RunRead(q, ok)
  \/ \E n \in 0 .. Events : SetStep(n)

Spec == Init /\ [][Next]_vars

----------------------------------------------------------------------------
\* The shape of the pane's state.
TypeOK ==
  /\ begun \in 0 .. Runs /\ selected \in (1 .. begun) \cup {None} /\ step \in 0 .. Events
  /\ \A q \in asked : q.of \in 1 .. token /\ q.run \in (1 .. begun) \cup {None}
  /\ page = None \/ page.run \in 1 .. begun

\* Once the last question is answered the rows are those of the run the picker names, and it is
\* one of the list: an answer that comes late or out of order never shows under another run.
ShowsThePicked ==
  (\A q \in asked : q.of # token) =>
     /\ page # None => page.run = selected
     /\ selected = None \/ Contains(runs, selected)

\* Every failure of the log is a row of its own, marked, and the header counts them all; the
\* replay stands on a row.
FailuresStandOut ==
  page # None =>
    LET shown == Timeline(page.events)
    IN  /\ Cardinality({i \in DOMAIN shown.rows : shown.rows[i].error}) = shown.errorCount
        /\ shown.rows # <<>> => step < Len(shown.rows)

\* The tab's promises together.
RunLogSound == ShowsThePicked /\ FailuresStandOut
=============================================================================
