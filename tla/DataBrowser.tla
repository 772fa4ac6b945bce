----------------------------- MODULE DataBrowser -----------------------------
(***************************************************************************)
(* The data browser panel (DataBrowserView): a project's database sources, *)
(* a source's tables, a page of a table, of a query handed over by the     *)
(* chat or typed in the console, or of a local file.  Every question to    *)
(* the main process takes a stamp, and its answer is dropped when another  *)
(* has taken a newer one.  The panel is a record, and each method of the   *)
(* view an operator on it.                                                 *)
(***************************************************************************)
EXTENDS Naturals, FiniteSets

CONSTANTS
  Projects,  \* projects of the user's sessions
  SourcesOf, \* the database sources of each project, numbered
  Tables,    \* tables of every source, numbered
  Files,     \* local data files
  Acts,      \* bound: the user's and the chat's acts
  None       \* nothing selected, nothing shown

VARIABLES
  panel,
  handoff, \* a query of the chat that waits for the sources, or None
  acts

vars == <<panel, handoff, acts>>

First(set) == IF set = {} THEN None ELSE CHOOSE x \in set : \A y \in set : x <= y
Fresh == [page |-> 0, sort |-> None, filter |-> FALSE]

----------------------------------------------------------------------------
(* What is to be fetched.                                                   *)

HasTarget(p) == IF p.fileMode THEN p.file # None ELSE p.source # None /\ (p.query \/ p.table # None)

\* viewState, describeQuery: the statement of the grid's state.
Statement(p) ==
  [of |-> IF p.fileMode THEN <<"file">> ELSE IF p.query THEN <<"query", p.source>> ELSE <<"table", p.source, p.table>>,
   view |-> p.view]

\* Mutant: an answer to an older question is shown.
AnyStamp(p, r) == r.stamp <= p.stamp

IsLatest(p, r) == r.stamp = p.stamp

Ask(p, r) == [p EXCEPT !.refused = FALSE, !.stamp = @ + 1, !.asked = @ \cup {[r EXCEPT !.stamp = p.stamp + 1]}]

Question(kind, what, chain) == [kind |-> kind, what |-> what, chain |-> chain, stamp |-> 0]

ResetGrid(p) == [p EXCEPT !.grid = None, !.hasNext = FALSE]

\* buildGrid and the status line.
Shows(p, statement, more) == [p EXCEPT !.grid = statement, !.hasNext = more, !.status = "rows"]

\* runQueryNow: the stamp is taken even when there is nothing to fetch; a file's rows are at hand.
RunQuery(p, chain) ==
  IF ~HasTarget(p) THEN [p EXCEPT !.stamp = @ + 1]
  ELSE IF p.fileMode THEN Shows([p EXCEPT !.stamp = @ + 1], Statement(p), TRUE)
  ELSE Ask([p EXCEPT !.status = "querying"], Question("rows", Statement(p), chain))

----------------------------------------------------------------------------
(* Sources and tables.                                                      *)

\* renderSelects: drawn anew, the source list stands on its first entry.
RenderSelects(p) ==
  [p EXCEPT !.source = IF p.fileMode THEN None ELSE First(p.sources), !.table = IF p.query THEN None ELSE First(p.tables)]

ExitFileMode(p) == [p EXCEPT !.fileMode = FALSE, !.file = None]

LoadTables(p, chain) ==
  LET cleared == ResetGrid([p EXCEPT !.tables = {}, !.table = None, !.stamp = @ + (IF p.source = None THEN 1 ELSE 0)])
  IN  IF p.source = None THEN cleared ELSE Ask([cleared EXCEPT !.status = "loading"], Question("tables", p.source, chain))

\* onSourceChanged: nothing to do while the file is what is picked.
SourceChanged(p, chain) ==
  IF p.fileMode /\ p.source = None THEN p
  ELSE LET q == IF p.fileMode THEN RenderSelects(ExitFileMode(p)) ELSE p
       IN  LoadTables([q EXCEPT !.query = FALSE, !.view = Fresh], chain)

\* loadSources starts the chain that a handed-over query waits for.
LoadSources(p) ==
  LET cleared == ResetGrid([p EXCEPT !.sources = {}, !.source = None, !.tables = {}, !.table = None, !.chain = @ + 1, !.status = "loading"])
  IN  Ask(cleared, Question("sources", p.project, cleared.chain))

HandedOver(p) == [p EXCEPT !.query = TRUE, !.view = Fresh]

----------------------------------------------------------------------------
(* Answers.                                                                 *)

SourcesLoaded(p, r) ==
  LET q == RenderSelects([p EXCEPT !.sources = SourcesOf[r.what]])
  IN  IF q.sources = {} THEN [q EXCEPT !.status = "none"] ELSE SourceChanged(q, r.chain)

\* A query needs no catalog; a table does.
TablesListed(p, r, ok) ==
  LET q == [p EXCEPT !.tables = IF ok THEN Tables ELSE {}]
      drawn == [q EXCEPT !.table = IF q.query THEN None ELSE First(q.tables)]
  IN  IF ok \/ p.query THEN RunQuery(drawn, r.chain) ELSE [p EXCEPT !.status = "failed"]

RowsFetched(p, r, ok, more) ==
  IF ok THEN Shows(p, r.what, more) ELSE [ResetGrid(p) EXCEPT !.status = "failed"]

FileOpened(p, r) ==
  RunQuery(RenderSelects([p EXCEPT !.fileMode = TRUE, !.query = FALSE, !.view = Fresh]), 0)

\* The provider keeps the file it has read, even when the panel has gone on.
Answered(p, r, ok, more) ==
  LET q == [p EXCEPT !.asked = @ \ {r}, !.file = IF r.kind = "file" /\ ok THEN r.what ELSE @]
  IN  CASE ~IsLatest(p, r) -> q
        [] r.kind = "sources" -> SourcesLoaded(q, r)
        [] r.kind = "tables" -> TablesListed(q, r, ok)
        [] r.kind = "rows" -> RowsFetched(q, r, ok, more)
        [] r.kind = "file" -> IF ok THEN FileOpened(q, r) ELSE [q EXCEPT !.status = "failed"]

----------------------------------------------------------------------------
Init ==
  /\ \E p \in Projects :
       panel = LoadSources([project |-> p, sources |-> {}, tables |-> {}, source |-> None, table |-> None, query |-> FALSE,
                            fileMode |-> FALSE, file |-> None, view |-> Fresh, grid |-> None, hasNext |-> FALSE,
                            status |-> "none", stamp |-> 0, chain |-> 0, asked |-> {}, refused |-> FALSE])
  /\ handoff = None /\ acts = 0

Act(p) == acts < Acts /\ acts' = acts + 1 /\ panel' = p

\* The active session is of another project.
TurnsTo(project) ==
  /\ project # panel.project /\ Act(LoadSources([panel EXCEPT !.project = project]))
  /\ UNCHANGED handoff

PicksSource(s) ==
  /\ s \in panel.sources /\ (s # panel.source \/ panel.fileMode)
  /\ Act(SourceChanged([panel EXCEPT !.source = s], 0)) /\ UNCHANGED handoff

\* onTableChanged leaves query mode.
PicksTable(t) ==
  /\ ~panel.fileMode /\ t \in panel.tables /\ t # panel.table
  /\ Act(RunQuery([panel EXCEPT !.table = t, !.query = FALSE, !.view = Fresh], 0)) /\ UNCHANGED handoff

\* runConsoleSql
RunsConsole ==
  /\ ~panel.fileMode /\ panel.source # None
  /\ Act(RunQuery([panel EXCEPT !.query = TRUE, !.table = None, !.view = Fresh], 0)) /\ UNCHANGED handoff

\* The page buttons, the sort, the header filters of the grid that is shown.
Turns(n) ==
  /\ n \in {panel.view.page - 1, panel.view.page + 1} /\ n \in 0 .. 1 /\ (n > panel.view.page => panel.hasNext)
  /\ Act(RunQuery([panel EXCEPT !.view.page = n], 0)) /\ UNCHANGED handoff

NextSort(sort) == CASE sort = None -> "asc" [] sort = "asc" -> "desc" [] sort = "desc" -> None

CyclesSort ==
  /\ panel.grid # None
  /\ Act(RunQuery([panel EXCEPT !.view.sort = NextSort(@), !.view.page = 0], 0)) /\ UNCHANGED handoff

SyncsFilter ==
  /\ panel.grid # None
  /\ Act(RunQuery([panel EXCEPT !.view.filter = ~@, !.view.page = 0], 0)) /\ UNCHANGED handoff

OpensFile(f) ==
  /\ Act(Ask([panel EXCEPT !.status = "loading"], Question("file", f, 0))) /\ UNCHANGED handoff

\* The refresh button: a file is read again.
Refreshes ==
  /\ Act(IF panel.fileMode THEN Ask([panel EXCEPT !.status = "loading"], Question("file", panel.file, 0))
         ELSE RunQuery(panel, 0))
  /\ UNCHANGED handoff

Answers(r, ok, more) ==
  /\ r \in panel.asked /\ (r.kind = "sources" => ok) /\ (more => ok /\ r.kind = "rows")
  /\ panel' = Answered(panel, r, ok, more) /\ UNCHANGED <<handoff, acts>>

\* applyBrowseRequest: the chat hands a query of source s over, and awaits the sources of that moment.
HandsOver(s) ==
  /\ handoff = None /\ handoff' = [source |-> s, chain |-> panel.chain] /\ acts < Acts /\ acts' = acts + 1
  /\ UNCHANGED panel

Browses ==
  /\ handoff # None /\ \A r \in panel.asked : r.chain # handoff.chain
  /\ LET p == IF panel.fileMode THEN RenderSelects(ExitFileMode(panel)) ELSE panel
     IN  panel' = IF handoff.source \in p.sources THEN LoadTables(HandedOver([p EXCEPT !.source = handoff.source]), 0)
                  ELSE [p EXCEPT !.query = FALSE, !.status = "missing", !.refused = TRUE]
  /\ handoff' = None /\ UNCHANGED acts

AllSources == UNION {SourcesOf[p] : p \in Projects}

Next ==
  \/ \E p \in Projects : TurnsTo(p)
  \/ \E s \in AllSources : PicksSource(s) \/ HandsOver(s)
  \/ \E t \in Tables : PicksTable(t)
  \/ \E n \in 0 .. 1 : Turns(n)
  \/ \E f \in Files : OpensFile(f)
  \/ RunsConsole \/ CyclesSort \/ SyncsFilter \/ Refreshes \/ Browses
  \/ \E r \in panel.asked, ok, more \in BOOLEAN : Answers(r, ok, more)

Spec == Init /\ [][Next]_vars

----------------------------------------------------------------------------
\* The shape of the panel.
TypeOK ==
  /\ panel.source \in panel.sources \cup {None} /\ panel.tables \subseteq Tables
  /\ panel.fileMode => panel.file # None
  /\ panel.view.page \in 0 .. 1 /\ acts \in 0 .. Acts
  /\ \A r \in panel.asked : r.stamp <= panel.stamp

\* When the status line counts rows, the grid holds the answer to the statement of the state the controls show
\* (source, table or query, page, sort, filters): whatever order the answers came in, and whatever was
\* picked, handed over or switched meanwhile.  One case is left out: a hand-off whose source is unknown drops
\* the query that is browsed but takes no stamp, so that query's answer may still come.
RowsMatch == panel.status = "rows" /\ ~panel.refused => panel.grid = Statement(panel)

\* No source is offered, nor browsed, that is not of the active session's project.
SourcesAreTheProjects ==
  /\ panel.sources \subseteq SourcesOf[panel.project]
  /\ panel.status = "rows" /\ ~panel.fileMode => panel.grid.of[2] \in SourcesOf[panel.project]

\* The panel's promises together.
BrowserSound == RowsMatch /\ SourcesAreTheProjects
=============================================================================
