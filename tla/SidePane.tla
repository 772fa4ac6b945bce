------------------------------ MODULE SidePane ------------------------------
(***************************************************************************)
(* The side pane: its tabs (AuxiliaryBarPart), the artifacts and the       *)
(* review of the active session.  A view lives as long as its tab.  The    *)
(* artifacts view has the index of a scope rebuilt once in its life, then  *)
(* lists it; it starts again whenever the active session changes, while    *)
(* what it asked before is still under way.                                *)
(***************************************************************************)
EXTENDS Naturals, Sequences, FiniteSets

CONSTANTS
  Kinds,     \* kinds of tab, "artifacts" and "review" among them
  Sessions,  \* session ids
  ScopeOf,   \* the project of each session, or None
  Summaries, \* bound: versions of a session's summary of changes
  Made,      \* bound: tabs ever opened
  Loads,     \* bound: loads a view starts
  None       \* no tab, no project

VARIABLES
  tabs, front, made, \* the open tabs, the one in front, the instance counter
  session,           \* the active session
  summary,           \* the version of each session's summary of changes
  view,              \* the artifacts view: its token, what it lists
  rebuilt,           \* the scopes each view had rebuilt
  loads,             \* its loads under way, of this view or of one that was closed
  review             \* what the review tab shows

vars == <<tabs, front, made, session, summary, view, rebuilt, loads, review>>
pane == <<tabs, front, made>>

Scopes == {ScopeOf[s] : s \in Sessions} \cup {None}
Ids(ts) == {ts[i].id : i \in DOMAIN ts}
TabsOf(ts, kind) == {i \in DOMAIN ts : ts[i].kind = kind}

Init ==
  /\ tabs = <<>> /\ front = None /\ made = 0
  /\ session \in Sessions /\ summary = [s \in Sessions |-> 0]
  /\ view = None /\ rebuilt = [n \in 1 .. Made |-> {}]
  /\ loads = <<>> /\ review = None

----------------------------------------------------------------------------
(* ArtifactsView.                                                           *)

\* load: the scopes of the active session, then the projectless one.
Load(v, s) ==
  [of |-> v.of, token |-> v.token + 1, left |-> IF ScopeOf[s] = None THEN <<None>> ELSE <<ScopeOf[s], None>>,
   rebuilding |-> FALSE, listed |-> FALSE]

Reloads(v, s) ==
  /\ v.token < Loads
  /\ view' = [v EXCEPT !.token = @ + 1]
  /\ loads' = Append(loads, Load(v, s))

\* The next scope this view had not rebuilt yet, whoever else waits for it.
ToRebuild(load) == SelectSeq(load.left, LAMBDA c : c \notin rebuilt[load.of])

Rebuilds(i) ==
  /\ i \in DOMAIN loads /\ ~loads[i].rebuilding /\ ToRebuild(loads[i]) # <<>>
  /\ LET scope == Head(ToRebuild(loads[i]))
     IN  /\ rebuilt' = [rebuilt EXCEPT ![loads[i].of] = @ \cup {scope}]
         /\ loads' = [loads EXCEPT ![i].left = <<scope>> \o ToRebuild(loads[i]), ![i].rebuilding = TRUE]
  /\ UNCHANGED <<pane, session, summary, view, review>>

\* A rebuild that fails is reported, and the load goes on.
Rebuilt(i) ==
  /\ i \in DOMAIN loads /\ loads[i].rebuilding
  /\ loads' = [loads EXCEPT ![i].left = Tail(@), ![i].rebuilding = FALSE]
  /\ UNCHANGED <<pane, session, summary, view, rebuilt, review>>

\* bridge.list(): the index as it is, while another load of the view may be rebuilding it.
Lists(i) ==
  /\ i \in DOMAIN loads /\ ~loads[i].rebuilding /\ ToRebuild(loads[i]) = <<>> /\ ~loads[i].listed
  /\ loads' = [loads EXCEPT ![i].listed = TRUE, ![i].left = <<>>]
  /\ UNCHANGED <<pane, session, summary, view, rebuilt, review>>


\* disposed, token: only the latest load of the view that asked is shown.
IsLatest(load) == view # None /\ load.of = view.of /\ load.token = view.token

Listed(i) ==
  /\ i \in DOMAIN loads /\ loads[i].listed
  /\ view' = IF IsLatest(loads[i]) THEN [view EXCEPT !.entries = loads[i].token] ELSE view
  /\ loads' = SubSeq(loads, 1, i - 1) \o SubSeq(loads, i + 1, Len(loads))
  /\ UNCHANGED <<pane, session, summary, rebuilt, review>>

NewView(id) == [of |-> id, token |-> 0, entries |-> None]

----------------------------------------------------------------------------
(* ChangesView, and the active session.                                     *)

\* render: of the active session, which it then follows.
Shows(s, sums) == [session |-> s, version |-> sums[s]]

\* Every view that follows the active session starts again.
TurnsTo(s) ==
  /\ s # session /\ session' = s
  /\ review' = IF review = None THEN None ELSE Shows(s, summary)
  /\ IF view = None THEN UNCHANGED <<view, loads>> ELSE Reloads(view, s)
  /\ UNCHANGED <<pane, summary, rebuilt>>

\* Mutant: a summary written anywhere is shown.
AnySummary(s) == review # None

Follows(s) == review # None /\ s = session

\* A run of s ends, and its summary is written.
RunEnds(s) ==
  /\ summary[s] < Summaries /\ summary' = [summary EXCEPT ![s] = @ + 1]
  /\ review' = IF Follows(s) THEN Shows(s, summary') ELSE review
  /\ UNCHANGED <<pane, session, view, rebuilt, loads>>

----------------------------------------------------------------------------
(* The tabs.                                                                *)

\* openTab: a kind that is open is focused.
OpenTab(kind) ==
  IF TabsOf(tabs, kind) # {}
  THEN front' = tabs[CHOOSE i \in TabsOf(tabs, kind) : TRUE].id /\ UNCHANGED <<tabs, made, view, loads, review>>
  ELSE /\ made < Made /\ made' = made + 1
       /\ tabs' = Append(tabs, [id |-> made', kind |-> kind]) /\ front' = made'
       /\ review' = IF kind = "review" THEN Shows(session, summary) ELSE review
       /\ IF kind = "artifacts" THEN Reloads(NewView(made'), session) ELSE UNCHANGED <<view, loads>>

\* The picker of an empty pane, the + menu; the requests of the chat and of the artifacts (surface,
\* review, data), each consumed once.
PicksTab(kind) == OpenTab(kind) /\ UNCHANGED <<session, summary, rebuilt>>

\* Mutant: the tab that comes in front is the one after the closed one, if any.
NextOnly(rest, i) == IF i <= Len(rest) THEN rest[i].id ELSE None

Neighbor(rest, i) ==
  IF i <= Len(rest) THEN rest[i].id ELSE IF i > 1 THEN rest[i - 1].id ELSE None

ClosesTab(i) ==
  /\ i \in DOMAIN tabs
  /\ LET rest == SubSeq(tabs, 1, i - 1) \o SubSeq(tabs, i + 1, Len(tabs))
     IN  tabs' = rest /\ front' = IF front = tabs[i].id THEN Neighbor(rest, i) ELSE front
  /\ view' = IF tabs[i].kind = "artifacts" THEN None ELSE view
  /\ review' = IF tabs[i].kind = "review" THEN None ELSE review
  /\ UNCHANGED <<made, session, summary, rebuilt, loads>>

FocusesTab(i) ==
  /\ i \in DOMAIN tabs /\ front # tabs[i].id /\ front' = tabs[i].id
  /\ UNCHANGED <<tabs, made, session, summary, view, rebuilt, loads, review>>

Next ==
  \/ \E k \in Kinds : PicksTab(k)
  \/ \E s \in Sessions : TurnsTo(s) \/ RunEnds(s)
  \/ \E i \in 1 .. Made : ClosesTab(i) \/ FocusesTab(i)
  \/ \E i \in 1 .. Loads * Made : Rebuilds(i) \/ Rebuilt(i) \/ Lists(i) \/ Listed(i)

Spec == Init /\ [][Next]_vars

----------------------------------------------------------------------------
\* The shape of the pane's state.
TypeOK ==
  /\ made \in 0 .. Made /\ Ids(tabs) \subseteq 1 .. made /\ session \in Sessions
  /\ (view = None) = (TabsOf(tabs, "artifacts") = {})
  /\ (review = None) = (TabsOf(tabs, "review") = {})

\* While a tab is open one is in front, whichever was closed, and no kind is open twice.
TabsSound ==
  /\ IF tabs = <<>> THEN front = None ELSE front \in Ids(tabs)
  /\ \A k \in Kinds : Cardinality(TabsOf(tabs, k)) <= 1

\* Once nothing is under way the artifacts are those the view asked for last, never the answer to
\* an earlier question or to a view that was closed.
LatestListed ==
  view # None /\ (\A i \in DOMAIN loads : loads[i].of # view.of) =>
    view.entries = view.token

\* The review is of the active session, as its last run left it.
ReviewFollows == review # None => review = Shows(session, summary)

\* The pane's promises together.
PaneSound == TabsSound /\ LatestListed /\ ReviewFollows
=============================================================================
