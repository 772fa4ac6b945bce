-------------------------- MODULE WorkbenchWindow --------------------------
(***************************************************************************)
(* The window: which session it shows (VisibleSessions, SessionsService),  *)
(* what the parts were told of it (SessionsPartService, one microtask      *)
(* later), the side pane, and the widths the grid gives the content row.   *)
(* Starting, forking, sending and deleting go through the provider, whose  *)
(* writes end in the order they were made; the user goes on clicking.      *)
(***************************************************************************)
EXTENDS Integers, Sequences, FiniteSets

CONSTANTS
  Sessions, \* session ids
  Pending,  \* bound: provider calls under way
  Windows,  \* widths of the window
  Pins,     \* widths the user may drag the side pane to
  None      \* no session, no pinned width

VARIABLES
  provider, \* the provider's sessions, newest first
  calls,    \* its calls under way
  visible, active, \* VisibleSessions
  synced,   \* a sync of the parts is scheduled
  shown,    \* what the parts were last told
  mode, pane, maximized, sidebar, \* the mode, and what the user opened
  window, pin \* the window's width, and the side pane's if dragged

vars == <<provider, calls, visible, active, synced, shown, mode, pane, maximized, sidebar,
          window, pin>>

view == <<visible, active, synced>>
panes == <<mode, pane, maximized>>
frame == <<sidebar, window, pin>>

Ids(s) == {s[i] : i \in DOMAIN s}

Init ==
  /\ provider = <<>> /\ calls = <<>>
  /\ visible = <<>> /\ active = None /\ synced = TRUE
  /\ shown = [visible |-> <<>>, active |-> None]
  /\ mode = "newSession" /\ pane = FALSE /\ maximized = FALSE /\ sidebar = TRUE
  /\ window \in Windows /\ pin = None

----------------------------------------------------------------------------
(* VisibleSessions.                                                         *)

\* Mutant: setSessions keeps the active session whatever became of it.
KeepActive(now, sessions) == IF active # None THEN active ELSE IF now # <<>> THEN now[1] ELSE None

\* resolveNextActive: the active session while it is visible, then the first one.
NextActive(now, sessions) ==
  IF active \in Ids(now) THEN active
  ELSE IF now # <<>> THEN now[1] ELSE IF sessions # <<>> THEN sessions[1] ELSE None

\* setSessions: sessions that are gone leave the window, and the first one takes their place.
SetSessions(sessions) ==
  LET kept == SelectSeq(visible, LAMBDA s : s \in Ids(sessions))
      now == IF kept = <<>> /\ sessions # <<>> THEN <<sessions[1]>> ELSE kept
  IN  /\ visible' = now /\ active' = NextActive(now, sessions) /\ synced' = FALSE

Show(s) == visible' = <<s>> /\ active' = s /\ synced' = FALSE

\* syncPart, in a microtask: the parts get both at once.
Sync ==
  /\ ~synced /\ synced' = TRUE
  /\ shown' = [visible |-> visible, active |-> active]
  /\ UNCHANGED <<provider, calls, visible, active, panes, frame>>

ShowConversation(open) ==
  /\ mode' = "conversation"
  /\ pane' = (IF open = "as is" THEN pane ELSE open = "open")
  /\ maximized' = (maximized /\ open # "closed")

ShowNewSession == mode' = "newSession" /\ pane' = FALSE /\ maximized' = FALSE

----------------------------------------------------------------------------
(* SessionsService.                                                         *)

Call(op, s) ==
  /\ Len(calls) < Pending
  /\ op \in {"send", "fork", "delete", "edit"} => s \in Ids(provider)
  /\ op = "start" => s \notin Ids(provider)
  /\ op = "fork" => Sessions \ Ids(provider) # {}
  /\ \A i \in DOMAIN calls : op = "start" => calls[i].id # s
  /\ calls' = Append(calls, [op |-> op, id |-> s])
  /\ UNCHANGED <<provider, view, shown, panes, frame>>

\* A write to a session that was deleted meanwhile fails, and the call rejects.
Rejects ==
  /\ calls # <<>> /\ Head(calls).op # "start" /\ Head(calls).id \notin Ids(provider)
  /\ calls' = Tail(calls)
  /\ UNCHANGED <<provider, view, shown, panes, frame>>

Settles(op) == calls # <<>> /\ Head(calls).op = op /\ calls' = Tail(calls)

\* The provider puts the session first and fires; then the window turns to it, whatever the
\* user opened meanwhile.
Started(op, s) ==
  /\ Settles(op) /\ s \notin Ids(provider)
  /\ op = "start" => Head(calls).id = s
  /\ op = "fork" => Head(calls).id \in Ids(provider) /\ \A i \in DOMAIN calls : calls[i].op = "start" => calls[i].id # s
  /\ provider' = <<s>> \o provider
  /\ Show(s) /\ ShowConversation(IF op = "start" THEN "closed" ELSE "as is")
  /\ UNCHANGED <<shown, frame>>

Sent ==
  /\ Settles("send") /\ Head(calls).id \in Ids(provider)
  /\ Show(Head(calls).id) /\ ShowConversation("as is")
  /\ UNCHANGED <<provider, shown, frame>>

\* A rename, a state or a plan's review: the sessions are the same, and so is the window.
Edited ==
  /\ Settles("edit") /\ Head(calls).id \in Ids(provider)
  /\ SetSessions(provider) /\ UNCHANGED <<provider, shown, panes, frame>>

\* The last session's deletion must not leave the conversation mode on an empty view.
Deleted ==
  /\ Settles("delete") /\ Head(calls).id \in Ids(provider)
  /\ provider' = SelectSeq(provider, LAMBDA s : s # Head(calls).id)
  /\ SetSessions(provider')
  /\ IF active' = None THEN ShowNewSession ELSE UNCHANGED panes
  /\ UNCHANGED <<shown, frame>>

Open(s) ==
  /\ s \in Ids(provider) /\ Show(s) /\ ShowConversation("as is")
  /\ UNCHANGED <<provider, calls, shown, frame>>

NewTask == ShowNewSession /\ UNCHANGED <<provider, calls, view, shown, frame>>

----------------------------------------------------------------------------
(* The frame: panes, the sash, the grid.                                    *)

\* toggleSidePane, in any mode: it does not touch the maximized state, hideSidePane does.
TogglePane ==
  /\ pane' = ~pane
  /\ UNCHANGED <<provider, calls, view, shown, mode, maximized, frame>>

\* A card or an artifact of the conversation opens the data, surface or review tab.
OpenPanel ==
  /\ mode = "conversation" /\ ShowConversation("open")
  /\ UNCHANGED <<provider, calls, view, shown, frame>>

AuxVisible == mode = "conversation" /\ pane

ToggleMaximized ==
  /\ AuxVisible /\ maximized' = ~maximized
  /\ UNCHANGED <<provider, calls, view, shown, mode, pane, frame>>

ToggleSidebar ==
  /\ sidebar' = ~sidebar /\ UNCHANGED <<provider, calls, view, shown, panes, window, pin>>

Resize(w) ==
  /\ window' = w /\ UNCHANGED <<provider, calls, view, shown, panes, sidebar, pin>>

\* In tens of pixels: minimumWidth, the dimensions, and the conversation's maximum.
MinWidth == [sessions |-> 64, aux |-> 26]
AuxWidth == 34
SessionsMax == 98
SidebarWidth == 27

Lower(x, y) == IF x < y THEN x ELSE y
Higher(x, y) == IF x > y THEN x ELSE y

\* The sash: dragged within the window, never under the minimum, and kept for the next launch.
Drag(x) ==
  /\ AuxVisible /\ ~maximized
  /\ LET room == window - (IF sidebar THEN SidebarWidth ELSE 0) - MinWidth.sessions
     IN  pin' = Higher(MinWidth.aux, Lower(room, Higher(MinWidth.aux, x)))
  /\ UNCHANGED <<provider, calls, view, shown, panes, sidebar, window>>

Unpin ==
  /\ AuxVisible /\ ~maximized /\ pin' = None
  /\ UNCHANGED <<provider, calls, view, shown, panes, sidebar, window>>

Available == window - (IF sidebar THEN Lower(window, SidebarWidth) ELSE 0)
Row == (IF AuxVisible /\ maximized THEN {} ELSE {"sessions"}) \cup (IF AuxVisible THEN {"aux"} ELSE {})

\* computeHorizontalWidths: a view alone takes the row; when two do not fit at their minimum
\* the pane is dropped; else the conversation grows first and the pane shrinks first.
Widths ==
  LET aux == Higher(MinWidth.aux, IF pin = None THEN AuxWidth ELSE pin)
      spare == Available - MinWidth.sessions - aux
      grown == Lower(SessionsMax - MinWidth.sessions, spare)
      auxGrown == IF pin = None THEN spare - grown ELSE 0
  IN  CASE Row = {"sessions"} -> [sessions |-> Available, aux |-> 0]
        [] Row = {"aux"} -> [sessions |-> 0, aux |-> Available]
        [] MinWidth.sessions + MinWidth.aux > Available -> [sessions |-> Available, aux |-> 0]
        [] spare >= 0 -> [sessions |-> MinWidth.sessions + spare - auxGrown, aux |-> aux + auxGrown]
        [] OTHER -> [sessions |-> MinWidth.sessions, aux |-> aux + spare]

\* A restart: the list is read again, the mode and the panes are not kept, the pin is.
Restart ==
  /\ calls = <<>> /\ mode = "conversation"
  /\ visible' = (IF provider = <<>> THEN <<>> ELSE <<provider[1]>>)
  /\ active' = (IF provider = <<>> THEN None ELSE provider[1]) /\ synced' = FALSE
  /\ ShowNewSession /\ sidebar' = TRUE /\ UNCHANGED <<provider, calls, shown, window, pin>>

Next ==
  \/ Sync \/ Rejects \/ Sent \/ Edited \/ Deleted \/ NewTask \/ Restart
  \/ TogglePane \/ OpenPanel \/ ToggleMaximized \/ ToggleSidebar \/ Unpin
  \/ \E s \in Sessions :
       \/ Open(s) \/ \E op \in {"start", "send", "fork", "delete", "edit"} : Call(op, s)
       \/ \E op \in {"start", "fork"} : Started(op, s)
  \/ \E w \in Windows : Resize(w)
  \/ \E x \in Pins : Drag(x)

Spec == Init /\ [][Next]_vars

----------------------------------------------------------------------------

TypeOK ==
  /\ Ids(provider) \subseteq Sessions /\ Len(calls) <= Pending
  /\ synced \in BOOLEAN /\ pane \in BOOLEAN /\ maximized \in BOOLEAN /\ sidebar \in BOOLEAN
  /\ mode \in {"newSession", "conversation"} /\ active \in Sessions \cup {None}
  /\ window \in Windows /\ pin \in Nat \cup {None}

\* The content of the sessions part: the active session, or the new-session page.
Content == IF mode = "newSession" THEN None ELSE shown.active

\* What the window shows exists: the parts know the same pair as the service once a microtask
\* has run, the active session is one of the visible ones, all of them are the provider's, and
\* the conversation mode never stands on an empty view.
ShownExists ==
  /\ synced => shown = [visible |-> visible, active |-> active]
  /\ Ids(visible) \subseteq Ids(provider) /\ (active # None => active \in Ids(visible))
  /\ provider # <<>> => active # None
  /\ synced /\ mode = "conversation" => Content # None

\* The row is filled and nothing overlaps, no view is squeezed under its minimum unless it is
\* alone, a pinned pane does not outgrow its pin, and the conversation gives way only to a
\* maximized pane.
RowFits ==
  /\ Widths.sessions + Widths.aux = Available /\ Widths.sessions >= 0 /\ Widths.aux >= 0
  /\ Widths.sessions # 0 /\ Widths.aux # 0 =>
       /\ Widths.sessions >= MinWidth.sessions /\ Widths.aux >= MinWidth.aux
       /\ pin # None => Widths.aux <= Higher(pin, MinWidth.aux)
  /\ Widths.sessions = 0 /\ Available > 0 => maximized

WindowSound == ShownExists /\ RowFits
=============================================================================
