---------------------------- MODULE MentionMenu ----------------------------
(***************************************************************************)
(* The pickers over the composer's input: @ files, # sessions (and $       *)
(* skills, which work the same way) and / commands.  Each has its own menu *)
(* and reads the token at the caret after every edit.  The list of files   *)
(* is loaded when the menu opens, and the answer may come after the menu   *)
(* was closed, or opened again for another project.                        *)
(*                                                                         *)
(* A text is a sequence of characters: the three triggers, a blank and one *)
(* letter.  A menu lists two entries for an empty query, one for a letter  *)
(* and none for anything else.                                             *)
(***************************************************************************)
EXTENDS Integers, Sequences, FiniteSets

CONSTANTS
  Projects, \* projects whose files can be listed
  Width,    \* bound: characters in the input
  Loads,    \* bound: listings under way
  None      \* no menu, no listing

VARIABLES
  text, caret, \* the input, and how many characters are left of the caret
  menus,       \* per trigger: None, or where its token starts, the entries and the active one
  paths,       \* the files the menu lists: those of a project, once loaded
  loads,       \* listings under way, of which one may be the menu's
  project,     \* the project of the open session
  asked,       \* of which project the open menu asked the files, for the properties
  replaced     \* whether the text was replaced without an input event since the last one

vars == <<text, caret, menus, paths, loads, project, asked, replaced>>

Triggers == {"@", "#", "/"}
Blank == " "
Characters == Triggers \cup {Blank, "a"}

Init ==
  /\ text = <<>> /\ caret = 0 /\ menus = [g \in Triggers |-> None]
  /\ paths = None /\ loads = <<>> /\ project \in Projects /\ asked = None /\ replaced = FALSE

----------------------------------------------------------------------------
(* The token at the caret.                                                  *)

Last(s) == CHOOSE i \in s : \A j \in s : j <= i

\* Mutant: a trigger counts wherever it stands.
AnyTrigger(t, i) == TRUE

\* A trigger counts at the start and after a blank.
AtBoundary(t, i) == i = 1 \/ t[i - 1] = Blank

\* findMentionQuery, findCommandQuery: where the token starts, or 0.
Token(g, t, c) ==
  IF g = "/" THEN IF c >= 1 /\ t[1] = "/" /\ \A i \in 2 .. c : t[i] # Blank THEN 1 ELSE 0
  ELSE LET stops == {i \in 1 .. c : t[i] \in {g, Blank}}
       IN  IF stops # {} /\ t[Last(stops)] = g /\ AtBoundary(t, Last(stops)) THEN Last(stops) ELSE 0

Query(t, c, start) == SubSeq(t, start + 1, c)

\* filterMentionPaths, filterCommands and the filter of the entities.
Matches(query) == CASE query = <<>> -> 2 [] query = <<"a">> -> 1 [] OTHER -> 0

----------------------------------------------------------------------------
(* Menus.                                                                   *)

\* Mutant: the active entry stays where it was when the list gets shorter.
KeepActive(active, items) == active

Clamp(active, items) == IF items = 0 THEN 0 ELSE IF active > items - 1 THEN items - 1 ELSE active

Menu(g, t, c, files) ==
  LET start == Token(g, t, c)
      active == IF menus[g] = None THEN 0 ELSE menus[g].active
      items == IF g = "@" /\ files = None THEN 0 ELSE Matches(Query(t, c, start))
  IN  IF start = 0 THEN None
      ELSE [start |-> start, items |-> items, active |-> Clamp(active, items)]

\* closeMenu bumps the generation: a listing under way is nobody's any more.
Forgotten == [i \in DOMAIN loads |-> [loads[i] EXCEPT !.current = FALSE]]

CloseAll(gs) ==
  /\ menus' = [g \in Triggers |-> IF g \in gs THEN None ELSE menus[g]]
  /\ IF "@" \in gs THEN paths' = None /\ loads' = Forgotten /\ asked' = None
     ELSE UNCHANGED <<paths, loads, asked>>

\* refresh, of the pickers in gs.  The file picker loads once per menu.
Refresh(gs, t, c) ==
  LET opens == "@" \in gs /\ Token("@", t, c) # 0
      loading == \E i \in DOMAIN loads : loads[i].current
  IN  /\ menus' = [g \in Triggers |-> IF g \in gs THEN Menu(g, t, c, paths) ELSE menus[g]]
      /\ IF "@" \notin gs THEN UNCHANGED <<paths, loads, asked>>
         ELSE IF ~opens THEN paths' = None /\ loads' = Forgotten /\ asked' = None
         ELSE /\ UNCHANGED paths
              /\ asked' = IF menus["@"] = None THEN project ELSE asked
              /\ IF paths = None /\ ~loading
                 THEN Len(loads) < Loads /\ loads' = Append(loads, [of |-> project, current |-> TRUE])
                 ELSE UNCHANGED loads

Shown == {g \in Triggers : menus[g] # None}

\* Mutant: a late answer is taken for the open menu's.
AnyAnswer(load) == TRUE

\* A stale response for a closed menu is ignored.
ForThisMenu(load) == load.current

LoadSettles(i, ok) ==
  /\ i \in DOMAIN loads
  /\ LET load == loads[i]
         rest == SubSeq(loads, 1, i - 1) \o SubSeq(loads, i + 1, Len(loads))
     IN  IF ForThisMenu(load) /\ menus["@"] # None
         THEN IF ok /\ Token("@", text, caret) # 0
              THEN /\ paths' = load.of /\ loads' = rest
                   /\ menus' = [menus EXCEPT !["@"] = Menu("@", text, caret, load.of)]
                   /\ UNCHANGED asked
              ELSE /\ menus' = [menus EXCEPT !["@"] = None] /\ paths' = None /\ asked' = None
                   /\ loads' = [j \in DOMAIN rest |-> [rest[j] EXCEPT !.current = FALSE]]
         ELSE loads' = rest /\ UNCHANGED <<menus, paths, asked>>
  /\ UNCHANGED <<text, caret, project, replaced>>

----------------------------------------------------------------------------
(* The input.                                                               *)

Edit(t, c) ==
  /\ text' = t /\ caret' = c /\ replaced' = FALSE
  /\ Refresh(Triggers, t, c) /\ UNCHANGED project

Left == SubSeq(text, 1, caret)
Right == SubSeq(text, caret + 1, Len(text))

Types(ch) == Len(text) < Width /\ Edit(Append(Left, ch) \o Right, caret + 1)
Erases == caret > 0 /\ Edit(SubSeq(text, 1, caret - 1) \o Right, caret - 1)

\* A click or an arrow key refreshes the menus that are open.
MovesCaret(c) ==
  /\ c \in 0 .. Len(text) /\ c # caret /\ caret' = c
  /\ Refresh(Shown, text, c) /\ UNCHANGED <<text, project, replaced>>

\* The arrows go round the open menu, and nothing else sees them.
Arrow(g, delta) ==
  /\ menus[g] # None
  /\ menus' = [menus EXCEPT ![g].active =
       IF menus[g].items = 0 THEN 0 ELSE (@ + delta + menus[g].items) % menus[g].items]
  /\ UNCHANGED <<text, caret, paths, loads, project, asked, replaced>>

\* pick: the entry's inline text and a blank replace the token; the input event closes the menu.
PicksMention(g) ==
  /\ g # "/" /\ menus[g] # None /\ menus[g].items > 0 /\ menus[g].start - 1 <= caret
  /\ LET before == SubSeq(text, 1, menus[g].start - 1) \o <<g, "a", Blank>>
     IN  /\ Len(before) + Len(Right) <= Width + 2
         /\ text' = before \o Right /\ caret' = Len(before)
  /\ replaced' = FALSE /\ CloseAll(Triggers) /\ UNCHANGED project

\* An action clears the input, a template takes its place.
PicksCommand(t) ==
  /\ menus["/"] # None /\ menus["/"].items > 0 /\ t \in {<<>>, <<"a">>}
  /\ text' = t /\ caret' = Len(t) /\ replaced' = FALSE
  /\ CloseAll(Triggers) /\ UNCHANGED project

\* Escape, a click elsewhere, the blur that lasts, Enter on an empty list.
Closes(g) ==
  /\ menus[g] # None /\ CloseAll({g}) /\ UNCHANGED <<text, caret, project, replaced>>

\* A sent message or a held follow-up replaces the text: no input event, and the menus stay.
Replaced(t) ==
  /\ t \in {<<>>, <<"a", "a">>} /\ t # text
  /\ text' = t /\ caret' = Len(t) /\ replaced' = TRUE
  /\ UNCHANGED <<menus, paths, loads, project, asked>>

OpensSession(p) ==
  /\ p # project /\ project' = p
  /\ UNCHANGED <<text, caret, menus, paths, loads, asked, replaced>>

Next ==
  \/ Erases
  \/ \E ch \in Characters : Types(ch)
  \/ \E c \in 0 .. Width + 2 : MovesCaret(c)
  \/ \E g \in Triggers : Closes(g) \/ PicksMention(g) \/ \E d \in {-1, 1} : Arrow(g, d)
  \/ \E t \in {<<>>, <<"a">>, <<"a", "a">>} : PicksCommand(t) \/ Replaced(t)
  \/ \E i \in 1 .. Loads, ok \in BOOLEAN : LoadSettles(i, ok)
  \/ \E p \in Projects : OpensSession(p)

Spec == Init /\ [][Next]_vars

----------------------------------------------------------------------------
\* The shape of the pickers' state.
TypeOK ==
  /\ text \in Seq(Characters) /\ Len(text) <= Width + 2 /\ caret \in 0 .. Len(text)
  /\ project \in Projects /\ paths \in Projects \cup {None} /\ asked \in Projects \cup {None}
  /\ Len(loads) <= Loads /\ Cardinality({i \in DOMAIN loads : loads[i].current}) <= 1

\* One menu at most is open over a text the user edited: no key is taken twice.
OneMenu == replaced \/ Cardinality(Shown) <= 1

\* The active entry is one of the list, and the token still starts where the menu says, so that
\* what is picked replaces it and nothing else.
PickIsSound ==
  \A g \in Shown :
    /\ menus[g].items > 0 => menus[g].active < menus[g].items
    /\ ~replaced => Token(g, text, caret) = menus[g].start

\* The files in the menu are those of the project it was opened for, not of one that was open when
\* an earlier menu was closed.
ListsItsProject == paths # None => paths = asked

\* The pickers together.
MenusSound == OneMenu /\ PickIsSound /\ ListsItsProject
=============================================================================
