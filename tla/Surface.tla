------------------------------ MODULE Surface ------------------------------
(***************************************************************************)
(* The workbench surface: the batches of statements a session's model      *)
(* emits (surfacePatch.ts), the text of one while it still arrives, the    *)
(* tab that collects and folds the batches of the session on view          *)
(* (surfaceView.ts), and the panel whose edits stay in the window until a  *)
(* button confirms them (SurfacePanel.tsx, fieldMapping.ts).               *)
(***************************************************************************)
EXTENDS UiDsl

CONSTANTS
  Sessions, \* sessions the window can show
  Chunks,   \* bound: the chunks of a text that arrives
  Patches,  \* bound: the batches a behaviour posts
  Edits     \* bound: what the user does to the panel

VARIABLES
  stream,   \* the text that has arrived so far
  chunks,   \* bound: how many chunks of it
  painted,  \* the incremental parser's memo and its last paint
  messages, \* per session: its surface_patch messages
  posted,   \* bound: batches posted
  active,   \* the session on view
  folded,   \* the panel's fold of the batches it was given
  edits,    \* the panel's edits: by state name, by field, by table, column and row
  mappingEdits, \* the panel's edited pairings, by field_mapping node
  acts,     \* bound: edits and presses so far
  sent      \* the form the last confirm carried, by session

vars == <<stream, chunks, painted, messages, posted, active, folded, edits, mappingEdits, acts, sent>>

Null == <<"null">>
Text(x) == <<Quote, Word(x), Quote>>
Patch(surface, statements) == [surface |-> surface, statements |-> statements]

----------------------------------------------------------------------------
(* Inputs: the chunks a text arrives in, and whole batches. *)

RootOf(names) == <<Word("root"), Sign("="), Word("Stack"), Sign("("), Sign("[")>> \o names
                 \o <<Sign("]"), Sign(")")>>
FieldLine(name, state) ==
  <<Word(name), Sign("="), Word("TextField"), Sign("(")>> \o Text("x")
  \o <<Sign(","), StateName(state), Sign(")")>>
DeclareLine(state, x) == <<StateName(state), Sign("=")>> \o Text(x)
Lines(a, b) == a \o <<NewLine>> \o b
ButtonLine ==
  <<Word("b"), Sign("="), Word("Button"), Sign("(")>> \o Text("go")
  \o <<Sign(","), Word("Action"), Sign("("), Sign("["), Piece("step", <<"Set">>), Sign("("),
       StateName("n"), Sign(",")>> \o Text("y") \o <<Sign(")"), Sign(","),
       Piece("step", <<"Reset">>), Sign("("), StateName("u"), Sign(")"), Sign(","),
       Piece("step", <<"ToAssistant">>), Sign("(")>> \o Text("go")
  \o <<Sign(")"), Sign("]"), Sign(")"), Sign(")")>>
TableLine ==
  <<Word("t"), Sign("="), Word("Table"), Sign("("), Sign("[")>> \o Text("c")
  \o <<Sign("]"), Sign(","), Sign("["), Sign("[")>> \o Text("v")
  \o <<Sign("]"), Sign("]"), Sign(","), Sign("["), Piece("step", <<"Editable">>), Sign("(")>>
  \o Text("c") \o <<Sign(")"), Sign("]"), Sign(")")>>
MappingLine ==
  <<Word("f"), Sign("="), Word("field_mapping"), Sign("(")>> \o Text("from")
  \o <<Sign(","), Sign("[")>> \o Text("p") \o <<Sign(",")>> \o Text("q")
  \o <<Sign("]"), Sign(",")>> \o Text("to") \o <<Sign(","), Sign("[")>> \o Text("p")
  \o <<Sign(",")>> \o Text("q") \o <<Sign("]"), Sign(","), Sign("["), Sign("[")>> \o Text("p")
  \o <<Sign(",")>> \o Text("q") \o <<Sign("]"), Sign("]"), Sign(")")>>

StreamChunks ==
  {<<NewLine>>, <<Word("root"), Sign("=")>>, <<Word("Stack"), Sign("("), Sign("[")>>,
   <<Word("a")>>, <<Sign(",")>>, <<Sign("]"), Sign(")")>>, <<Quote>>, <<Word("a"), Sign("=")>>,
   FieldLine("a", "n"), DeclareLine("n", "x"), <<Piece("bad", <<"?">>)>>}
Batches ==
  {Lines(RootOf(<<Word("a"), Sign(","), Word("t")>>), FieldLine("a", "n")),
   Lines(RootOf(<<Word("b"), Sign(","), Word("f"), Sign(","), Word("root")>>), ButtonLine),
   Lines(DeclareLine("n", "d"), TableLine),
   Lines(FieldLine("a", "u"), MappingLine),
   Lines(<<Word("a"), Sign("=")>> \o Text("x"), DeclareLine("n", "e")),
   FieldLine("a", "n") \o <<Sign(")")>>}

----------------------------------------------------------------------------

Init ==
  /\ stream = <<>> /\ chunks = 0 /\ painted = Push(NoStatements, <<>>, FALSE)
  /\ messages = [s \in Sessions |-> <<>>] /\ posted = 0
  /\ active \in Sessions /\ folded = FoldSurface(<<>>)
  /\ edits = NoStatements /\ mappingEdits = NoStatements
  /\ acts = 0 /\ sent = NoStatements

\* parseSurfacePatchProps: a batch is taken when there is something in it and it lints clean.
Accepts(statements) == ~Blank(statements) /\ LintClean(statements)

\* collect: of the patches that still validate, those of the surface the last one names.
OfLastSurface(valid) == SelectSeq(valid, LAMBDA p : p.surface = Last(valid).surface)
BatchesOf(patches) == [i \in 1..Len(patches) |-> patches[i].statements]
Collected(patches) ==
  BatchesOf(OfLastSurface(SelectSeq(patches, LAMBDA p : Accepts(p.statements))))

\* A further chunk arrives and is painted.
Stream(chunk) ==
  /\ posted = 0 /\ chunks < Chunks
  /\ stream' = stream \o chunk /\ chunks' = chunks + 1
  /\ painted' = Push(painted.memo, stream', FALSE)
  /\ UNCHANGED <<messages, posted, active, folded, edits, mappingEdits, acts, sent>>

\* The model's tool call: a batch that lints clean becomes a message, another is refused.
Post(session, surface, statements) ==
  /\ posted < Patches
  /\ stream \in {<<>>, statements}
  /\ posted' = posted + 1
  /\ stream' = <<>> /\ painted' = Push(NoStatements, <<>>, FALSE)
  /\ messages' = IF Accepts(statements)
                 THEN [messages EXCEPT ![session] = Append(@, Patch(surface, statements))]
                 ELSE messages
  /\ folded' = IF messages'[active] = messages[active] THEN folded
               ELSE FoldSurface(Collected(messages'[active]))
  /\ UNCHANGED <<chunks, active, edits, mappingEdits, acts, sent>>

\* bindSession: another session is collected; the panel, its edits in it, is the same one.
Select(session) ==
  /\ posted > 0 /\ session # active
  /\ active' = session
  /\ folded' = FoldSurface(Collected(messages[session]))
  /\ UNCHANGED <<stream, chunks, painted, messages, posted, edits, mappingEdits, acts, sent>>

\* eachNode: the nodes of one component, through nodes and arrays.
RECURSIVE Nodes(_, _)
Nodes(v, component) ==
  (IF v.kind = "node" /\ v.args[1].kind = component THEN {v} ELSE {})
  \cup (IF v.kind = "node"
        THEN UNION {Nodes(v.args[1].args[i], component) : i \in 1..Len(v.args[1].args)}
        ELSE IF v.kind = "array" THEN UNION {Nodes(v.args[i], component) : i \in 1..Len(v.args)}
        ELSE {})
ArgOf(node, i) ==
  IF i <= Len(node.args[1].args) THEN node.args[1].args[i] ELSE Value("none", <<>>, <<>>)
Shown(component) == Nodes(folded.tree, component)

\* What a field edits: its state, or itself.
Binding(field) ==
  IF ArgOf(field, 2).kind = "state" THEN <<"$">> \o ArgOf(field, 2).name ELSE <<"#">> \o field.name
\* The cells of a table in a column some Editable names.
Cells(table) ==
  LET columns == ArgOf(table, 1).args
      rows == ArgOf(table, 2).args
      caps == ArgOf(table, 3).args
  IN  {table.name \o columns[c].name \o <<r>> :
         c \in {k \in 1..Len(columns) :
                  \E i \in 1..Len(caps) :
                    caps[i].name = <<"Editable">> /\ caps[i].args[1].name = columns[k].name},
         r \in 1..Len(rows)}

Keys == {Binding(f) : f \in Shown("TextField")} \cup UNION {Cells(t) : t \in Shown("Table")}
Read(key) ==
  CASE key \in DOMAIN edits /\ edits[key] # Null -> edits[key]
    [] key \in DOMAIN folded.states /\ folded.states[key] # Null -> folded.states[key]
    [] OTHER -> <<>>

\* The user types into a field or a cell.
Type(key, value) ==
  /\ acts < Edits /\ acts' = acts + 1
  /\ edits' = (key :> value) @@ edits
  /\ UNCHANGED <<stream, chunks, painted, messages, posted, active, folded, mappingEdits, sent>>

\* parseFieldLinks: the pairs of the declared rows, each once.
Declared(node) ==
  LET rows == ArgOf(node, 5).args
      isText(row, i) == i <= Len(row) /\ row[i].kind = "string" /\ row[i].name # <<>>
  IN  {<<rows[i].args[1].name, rows[i].args[2].name>> :
         i \in {k \in 1..Len(rows) : isText(rows[k].args, 1) /\ isText(rows[k].args, 2)}}
Links(node) == IF node.name \in DOMAIN mappingEdits THEN mappingEdits[node.name] ELSE Declared(node)

\* connectFieldLink: the new pair drives out those that share an end.
Connected(links, pair) == {l \in links : l[1] # pair[1] /\ l[2] # pair[2]} \cup {pair}

\* A line is drawn in the canvas, or one is deleted.
DragLink(node, links) ==
  /\ acts < Edits /\ acts' = acts + 1
  /\ mappingEdits' = (node.name :> links) @@ mappingEdits
  /\ UNCHANGED <<stream, chunks, painted, messages, posted, active, folded, edits, sent>>

\* snapshot: every declared state as read, every edit of a field or a cell, every pairing.
Snapshot ==
  [form |-> [key \in DOMAIN folded.states \cup {k \in DOMAIN edits : k[1] # "$"} |->
               IF key \in DOMAIN folded.states THEN Read(key) ELSE edits[key]],
   links |-> [n \in {m.name : m \in Shown("field_mapping")} |->
                UNION {Links(m) : m \in {k \in Shown("field_mapping") : k.name = n}}]]

\* One step of an action: what it makes of the edits.
StepEdits(current, step) ==
  CASE step.name = <<"Set">> /\ step.args[1].kind = "state" /\ step.args[2].kind \in Literals ->
         ((<<"$">> \o step.args[1].name) :> step.args[2].name) @@ current
    [] step.name = <<"Reset">> /\ step.args[1].kind = "state" ->
         [k \in DOMAIN current \ {<<"$">> \o step.args[1].name} |-> current[k]]
    [] OTHER -> current

\* runAction: its steps in order; a confirm takes the form of the last paint, so what a step
\* before it set is not in it.
Press(button) ==
  LET steps == ArgOf(button, 2).args
  IN  /\ acts < Edits /\ acts' = acts + 1
      /\ edits' = FoldLeft(StepEdits, edits, steps)
      /\ sent' = IF \E i \in 1..Len(steps) : steps[i].name = <<"ToAssistant">>
                 THEN (active :> Snapshot) @@ sent ELSE sent
      /\ UNCHANGED <<stream, chunks, painted, messages, posted, active, folded, mappingEdits>>

Next ==
  \/ \E chunk \in StreamChunks : Stream(chunk)
  \/ \E s \in Sessions, b \in Batches \cup {stream} : Post(s, "main", b)
  \/ \E s \in Sessions : Post(s, "other", FieldLine("a", "u"))
  \/ \E s \in Sessions : Select(s)
  \/ \E key \in Keys : Type(key, <<"y">>)
  \/ \E node \in Shown("field_mapping") :
       \/ \E pair \in {<<<<"p">>, <<"p">>>>, <<<<"q">>, <<"q">>>>} :
            DragLink(node, Connected(Links(node), pair))
       \/ \E pair \in Links(node) : DragLink(node, Links(node) \ {pair})
  \/ \E button \in Shown("Button") : Press(button)

Spec == Init /\ [][Next]_vars

----------------------------------------------------------------------------

TypeOK ==
  /\ chunks \in 0..Chunks /\ posted \in 0..Patches /\ acts \in 0..Edits
  /\ active \in Sessions /\ DOMAIN sent \subseteq Sessions
  /\ \A s \in Sessions : Len(messages[s]) <= posted

\* Nothing that arrived complete is withdrawn while more arrives: where the lines before the
\* last are complete, the paint holds every valid statement in them.  And the parser never
\* meets an open bracket or string, unless the text was complete before its last line was cut.
CompleteIsPainted ==
  /\ Balanced(AutocloseFragment(stream)) \/ Balanced(stream)
  /\ LET whole == WithoutLastLine(stream)
     IN  Balanced(whole) => DOMAIN Statements(SplitStatements(whole)) \subseteq DOMAIN painted.defs

\* The memo never shows: a paint, and the final pass, are what parsing from nothing gives.
MemoTransparent ==
  /\ painted.defs = Push(NoStatements, stream, FALSE).defs
  /\ [Push(painted.memo, stream, TRUE) EXCEPT !.memo = <<>>]
       = [memo |-> <<>>] @@ ParseProgram(stream)

\* Batches that were let in fold to what one text with all of them parses to: where a batch
\* was cut cannot be seen.
ReplayIsConcatenation ==
  folded.defs =
    ParseProgram(FoldLeft(LAMBDA all, b : Lines(all, b), <<>>, Collected(messages[active]))).defs

\* A hole on the surface has a reason: its name is reported as undefined or circular, or names
\* a value that is no component.
HolesExplained ==
  /\ \A n \in Mentioned(folded.tree, "hole") :
       IF n \in DOMAIN folded.defs THEN folded.defs[n].kind # "component"
       ELSE \E e \in folded.errors : e[1] = "undefined" /\ e[3] = n
  /\ \A n \in Mentioned(folded.tree, "loop") : <<"circular", n>> \in folded.errors

\* What the user changed where it can be seen reaches the model with the next confirm, but for
\* a field bound to a state nobody declared, which the panel counts among its errors.
EditsReachModel ==
  \A key \in Keys \cap DOMAIN edits :
    \/ key \in DOMAIN Snapshot.form /\ Snapshot.form[key] = edits[key]
    \/ \E e \in folded.errors : e[1] = "undeclared" /\ <<"$">> \o e[3] = key

\* A pairing that begins one to one stays one to one.
PairingOneToOne ==
  \A n \in DOMAIN mappingEdits : \A k, l \in mappingEdits[n] : k[1] = l[1] <=> k[2] = l[2]

SurfaceSound ==
  /\ CompleteIsPainted /\ MemoTransparent /\ ReplayIsConcatenation /\ HolesExplained
  /\ EditsReachModel /\ PairingOneToOne
=============================================================================
