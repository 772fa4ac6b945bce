------------------------------ MODULE Sidebar ------------------------------
(***************************************************************************)
(* The sidebar: sessions and projects as SessionsList shows them.  Each    *)
(* render rebuilds it and subscribes to every session it finds; what it    *)
(* shows between two renders is what the last one saw.  ProjectsService    *)
(* asks the main process for the projects again after each change, and the *)
(* answers may come in another order than the questions.                   *)
(***************************************************************************)
EXTENDS Naturals, Sequences, FiniteSets

CONSTANTS
  Sessions, \* session ids
  Projects, \* project ids
  Lists,    \* bound: lists of projects under way
  Folds,    \* bound: sections and groups folded at once
  None      \* no session, no project

VARIABLES
  sessions,  \* the provider's: None, or project, pinned, archived, running
  mode,      \* the workbench's mode
  active,    \* the window's session
  stored,    \* the projects of the main process
  lists,     \* answers under way, and the project to open when one comes
  projects,  \* ProjectsService: the projects it knows
  current,   \* its active project
  collapsed, \* sections and groups the user folded
  bound,     \* sessions the last render subscribed to
  shown      \* what it shows

vars == <<sessions, mode, active, stored, lists, projects, current, collapsed, bound, shown>>
window == <<mode, active>>
service == <<stored, lists, projects, current>>

Existing(ss) == {s \in Sessions : ss[s] # None}
Sections == {"pinned", "chat", "projects"}

----------------------------------------------------------------------------
(* SessionsList.                                                            *)

Live(ss) == {s \in Existing(ss) : ~ss[s].archived}

\* Mutant: the chat section takes the sessions without a project, not those of one that is gone.
WithoutProject(ss, ps) == {s \in Live(ss) : ~ss[s].pinned /\ ss[s].project = None}

Homeless(ss, ps) == {s \in Live(ss) : ~ss[s].pinned /\ ss[s].project \notin ps}

\* createSidebarSessionModel: no row is active on the New Session page.
Model(ss, ps, m, a, folded) ==
  [pinned |-> {s \in Live(ss) : ss[s].pinned},
   groups |-> [p \in ps |-> {s \in Live(ss) : ~ss[s].pinned /\ ss[s].project = p}],
   chat |-> Homeless(ss, ps),
   running |-> {s \in Live(ss) : ss[s].running},
   active |-> IF m = "newSession" THEN None ELSE a,
   folded |-> folded]

Now == Model(sessions, projects, mode, active, collapsed)

\* Mutant: only the rows on screen are subscribed to.
OnScreen(ss) == Live(ss)

\* bindRows: every session, the archived ones too.
Followed(ss) == Existing(ss)

\* render: a full rebuild.
Render(ss, ps, m, a, folded) == shown' = Model(ss, ps, m, a, folded) /\ bound' = Followed(ss)

Init ==
  /\ sessions = [s \in Sessions |-> None] /\ mode = "newSession" /\ active = None
  /\ stored \in SUBSET Projects /\ lists = <<>>
  /\ projects = stored /\ current \in (IF stored = {} THEN {None} ELSE stored)
  /\ collapsed = {} /\ bound = {}
  /\ shown = Model(sessions, projects, mode, active, collapsed)

\* The user folds a section (a rebuild) or a group (its list is hidden at once, and the set is what
\* the next rebuild goes by).
Toggles(x) ==
  /\ x \in Sections \cup projects
  /\ collapsed' = IF x \in collapsed THEN collapsed \ {x} ELSE collapsed \cup {x}
  /\ Cardinality(collapsed') <= Folds
  /\ IF x \in Sections THEN Render(sessions, projects, mode, active, collapsed')
     ELSE shown' = [shown EXCEPT !.folded = collapsed'] /\ UNCHANGED bound
  /\ UNCHANGED <<sessions, window, service>>

\* A pin, an archive, a run that starts or ends: only a session that is followed is heard.
Changes(s, row) ==
  /\ sessions[s] # None /\ row # sessions[s] /\ row.project = sessions[s].project
  /\ sessions' = [sessions EXCEPT ![s] = row]
  /\ IF s \in bound THEN Render(sessions', projects, mode, active, collapsed)
     ELSE UNCHANGED <<shown, bound>>
  /\ UNCHANGED <<window, service, collapsed>>

\* A new session, under the active project: the provider fires, and the window turns to it.
Starts(s) ==
  /\ sessions[s] = None
  /\ sessions' = [sessions EXCEPT
       ![s] = [project |-> current, pinned |-> FALSE, archived |-> FALSE, running |-> TRUE]]
  /\ mode' = "conversation" /\ active' = s
  /\ Render(sessions', projects, mode', active', collapsed)
  /\ UNCHANGED <<service, collapsed>>

Deletes(s) ==
  /\ sessions[s] # None
  /\ sessions' = [sessions EXCEPT ![s] = None]
  /\ \E next \in IF active = s THEN Existing(sessions') \cup {None} ELSE {active} :
       /\ next = None => active = None \/ Existing(sessions') = {}
       /\ active' = next
       /\ mode' = IF next = None THEN "newSession" ELSE mode
  /\ Render(sessions', projects, mode', active', collapsed)
  /\ UNCHANGED <<service, collapsed>>

\* openSession, showNewSession: the row's click, the palette, the shortcut.
Opens(s) ==
  /\ s \in Existing(sessions) \cup {None} /\ <<s, mode>> # <<active, "conversation">>
  /\ active' = (IF s = None THEN active ELSE s)
  /\ mode' = (IF s = None THEN "newSession" ELSE "conversation") /\ <<mode', active'>> # <<mode, active>>
  /\ Render(sessions, projects, mode', active', collapsed)
  /\ UNCHANGED <<sessions, service, collapsed>>

----------------------------------------------------------------------------
(* ProjectsService.                                                         *)

\* A change in the main process, then bridge.list().
Asks(change, open) ==
  /\ Len(lists) < Lists /\ stored' = change
  /\ lists' = Append(lists, [of |-> change, open |-> open])
  /\ UNCHANGED <<sessions, window, projects, current, collapsed, bound, shown>>

\* addProjectViaDialog; deleteProject, after which the provider keeps the sessions it has.
AddsProject(p) == p \notin stored /\ Asks(stored \cup {p}, p)
DeletesProject(p) == p \in stored /\ Asks(stored \ {p}, None)

\* addCodeRoot, removeCodeRoot, pickCodeRoot: the same projects, with other roots.
ChangesRoots == stored # {} /\ Asks(stored, None)

\* Mutant: refresh leaves the active project as it is.
KeepCurrent(ps) == {current}

Retained(ps) == IF current \in ps THEN {current} ELSE IF ps = {} THEN {None} ELSE ps

\* refresh, and then the project that was added is opened, if the answer has it.
Listed(i) ==
  /\ i \in DOMAIN lists
  /\ lists' = SubSeq(lists, 1, i - 1) \o SubSeq(lists, i + 1, Len(lists))
  /\ projects' = lists[i].of
  /\ current' \in IF lists[i].open \in lists[i].of THEN {lists[i].open} ELSE Retained(lists[i].of)
  /\ Render(sessions, projects', mode, active, collapsed)
  /\ UNCHANGED <<sessions, window, stored, collapsed>>

\* setActiveProject: the picker, or the + of a group, which opens the New Session page.
PicksProject(p) ==
  /\ p \in projects /\ current' = p
  /\ mode' = "newSession" /\ Render(sessions, projects, mode', active, collapsed)
  /\ UNCHANGED <<sessions, active, stored, lists, projects, collapsed>>

Next ==
  \/ \E s \in Sessions :
       \/ Starts(s) \/ Deletes(s) \/ Opens(s)
       \/ \E pinned, archived, running \in BOOLEAN :
            sessions[s] # None /\ Changes(s, [project |-> sessions[s].project, pinned |-> pinned,
                                              archived |-> archived, running |-> running])
  \/ Opens(None)
  \/ \E x \in Sections \cup Projects : Toggles(x)
  \/ \E p \in Projects : AddsProject(p) \/ DeletesProject(p) \/ PicksProject(p)
  \/ ChangesRoots
  \/ \E i \in 1 .. Lists : Listed(i)

Spec == Init /\ [][Next]_vars

----------------------------------------------------------------------------
\* The shape of the sidebar's state.
TypeOK ==
  /\ \A s \in Existing(sessions) :
       sessions[s] \in [project : Projects \cup {None}, pinned : BOOLEAN, archived : BOOLEAN, running : BOOLEAN]
  /\ mode \in {"newSession", "conversation"} /\ active \in Sessions \cup {None}
  /\ stored \subseteq Projects /\ projects \subseteq Projects /\ Len(lists) <= Lists
  /\ current \in Projects \cup {None} /\ bound \subseteq Sessions
  /\ collapsed \subseteq Sections \cup Projects

\* Whatever changed last, and in whatever session, the sidebar shows it: no change is one it did
\* not subscribe to, and an archived session that comes back comes back on screen.
SidebarFollows == shown = Now

\* Every session that is not archived has one row, even while its project is being deleted or an
\* old list of projects has just come in.
OneRowEach ==
  \A s \in Live(sessions) :
    Cardinality({g \in DOMAIN shown.groups : s \in shown.groups[g]}
                \cup {x \in {"pinned", "chat"} : s \in shown[x]}) = 1

\* A new session goes to a project the sidebar shows, unless there is none.
CurrentIsListed == IF projects = {} THEN current = None ELSE current \in projects

\* The sidebar's promises together.
SidebarSound == SidebarFollows /\ OneRowEach /\ CurrentIsListed
=============================================================================
