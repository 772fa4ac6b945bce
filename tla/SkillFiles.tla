----------------------------- MODULE SkillFiles -----------------------------
(***************************************************************************)
(* Skills: one markdown file each under dataRoot/skills, its name the id a *)
(* `$mention' records (skillsStorage.ts), listed, saved and deleted from   *)
(* the settings page (skillSettingsView.ts, skillsService.ts) and read     *)
(* when a run attaches them.  A file is written in place and no lock       *)
(* orders two handlers.                                                    *)
(***************************************************************************)
EXTENDS Naturals, FiniteSets

CONSTANTS
  Names, \* slugs of the names a skill may be given
  Asks,  \* bound: calls of the page, a crash included
  None   \* no file, nobody's skill, no editor

VARIABLES
  files,     \* per id: the skill, or None
  view,      \* the service's skills
  editing,   \* the page's editor: None, "new" or the id
  error,     \* the page shows an error in it
  asked,     \* calls under way
  asks,      \* bound: calls so far
  mentions,  \* history: what `$mentions' of old sessions stood for
  promised,  \* history: the skills that were saved and not deleted since
  disturbed  \* history: two calls overlapped, a write was cut short, or the id of a deleted skill was used again

vars == <<files, view, editing, error, asked, asks, mentions, promised, disturbed>>

\* slugifySkillName, with the counter that makes it unique.
Ids == Names \X (1 .. Asks + 1)
New == <<"new", 0>>
Closed == <<"none", 0>>
Skills == [origin : Nat, name : Names, body : Nat]
Skill(origin, name, body) == [origin |-> origin, name |-> name, body |-> body]

\* No file is not a skill.
Slugged == None \notin Skills /\ Asks \in Nat

\* What writeFile leaves between truncating the file and writing it.
Truncated(skill) == [skill EXCEPT !.origin = None, !.body = 0]
Listed(fs) == {<<id, fs[id]>> : id \in {i \in Ids : fs[i] # None}}

Init ==
  /\ files = [id \in Ids |-> None] /\ view = {}
  /\ editing = Closed /\ error = FALSE
  /\ asked = {} /\ asks = 0
  /\ mentions = {} /\ promised = {} /\ disturbed = FALSE

Call(n, op, at, id, name, seen) ==
  [n |-> n, op |-> op, at |-> at, id |-> id, name |-> name, seen |-> seen]
Ask(op, id, name) ==
  /\ asks < Asks /\ asks' = asks + 1
  /\ asked' = asked \cup {Call(asks', op, "asked", id, name, {})}
  /\ disturbed' = (disturbed \/ asked # {})

----------------------------------------------------------------------------
(* The page.                                                                *)

OpensEditor(id) ==
  /\ id = New => editing = Closed
  /\ editing' = id /\ error' = FALSE
  /\ UNCHANGED <<files, view, asked, asks, mentions, promised, disturbed>>

Cancels ==
  /\ editing = New \/ \E s \in view : s[1] = editing
  /\ editing' = Closed /\ error' = FALSE
  /\ UNCHANGED <<files, view, asked, asks, mentions, promised, disturbed>>

SavesSkill(name) ==
  /\ editing = New \/ \E s \in view : s[1] = editing
  /\ Ask(IF editing = New THEN "create" ELSE "edit", editing, name)
  /\ UNCHANGED <<files, view, editing, error, mentions, promised>>

\* The rows but the edited one have a button to delete.
Deletes(s) ==
  /\ s[1] # editing /\ Ask("delete", s[1], s[2].name)
  /\ UNCHANGED <<files, view, editing, error, mentions, promised>>

\* A message is sent with a skill attached.
Mentions(s) ==
  /\ s[2].origin # None /\ mentions' = mentions \cup {<<s[1], s[2].origin>>}
  /\ UNCHANGED <<files, view, editing, error, asked, asks, promised, disturbed>>

----------------------------------------------------------------------------
(* skillsStorage.ts.                                                        *)

\* A call goes on, as it is but for where it is, its id and what it has seen.
Moves(q, at, id, seen) == asked' = (asked \ {q}) \cup {Call(q.n, q.op, at, id, q.name, seen)}

\* The first counter no file has.
FreshId(name) ==
  LET free == {k \in 1 .. Asks + 1 : files[<<name, k>>] = None}
  IN  <<name, CHOOSE k \in free : \A j \in free : k <= j>>

\* Mutant: an edit is written under the id of the new name.
IdOfName(q) == IF q.op = "create" THEN FreshId(q.name) ELSE <<q.name, q.id[2]>>

\* upsertSkill: a new skill takes an id of its own, an edit keeps the one it has.
IdFor(q) == IF q.op = "create" THEN FreshId(q.name) ELSE q.id

Origin(q) == IF q.op = "create" THEN q.n ELSE files[q.id].origin

\* The directory is listed, or the file looked for; an unknown skill is an error.
Resolves(q) ==
  /\ q.at = "asked"
  /\ IF q.op = "create" \/ files[q.id] # None
     THEN Moves(q, "writing", IdFor(q), {<<IdFor(q), Skill(Origin(q), q.name, q.n)>>})
     ELSE Moves(q, IF q.op = "delete" THEN "saved" ELSE "failed", q.id, q.seen)
  /\ UNCHANGED <<files, view, editing, error, asks, mentions, promised, disturbed>>

\* writeFile opens the file, and with it empties it.
Truncates(q) ==
  /\ q.at = "writing" /\ q.op # "delete"
  /\ files' = [files EXCEPT ![q.id] = Truncated(Skill(None, q.id[1], 0))]
  /\ Moves(q, "emptied", q.id, q.seen)
  /\ disturbed' = (disturbed \/ (q.op = "create" /\ \E m \in mentions : m[1] = q.id))
  /\ UNCHANGED <<view, editing, error, asks, mentions, promised>>

\* The skill is there, under what it was made of and the name of the form.
Writes(q) ==
  /\ q.at = "emptied"
  /\ \E new \in q.seen :
       /\ files' = [files EXCEPT ![q.id] = new[2]]
       /\ promised' = {s \in promised : s[2].origin # new[2].origin} \cup {new}
  /\ Moves(q, "saved", q.id, q.seen)
  /\ UNCHANGED <<view, editing, error, asks, mentions, disturbed>>

\* deleteSkill.
Removes(q) ==
  /\ q.at = "writing" /\ q.op = "delete"
  /\ files' = [files EXCEPT ![q.id] = None]
  /\ promised' = {s \in promised : s[1] # q.id}
  /\ Moves(q, "saved", q.id, q.seen)
  /\ UNCHANGED <<view, editing, error, asks, mentions, disturbed>>

----------------------------------------------------------------------------
(* skillsService.ts: every save and every deletion lists the skills again.  *)

Lists(q) ==
  /\ q.at = "saved" /\ Moves(q, "listed", q.id, Listed(files))
  /\ UNCHANGED <<files, view, editing, error, asks, mentions, promised, disturbed>>

\* A save that went well closes whatever editor is open.
Shows(q) ==
  /\ q.at = "listed" /\ asked' = asked \ {q} /\ view' = q.seen
  /\ IF q.op = "delete" THEN UNCHANGED <<editing, error>> ELSE editing' = Closed /\ error' = FALSE
  /\ UNCHANGED <<files, asks, mentions, promised, disturbed>>

\* The typed text is drawn over with the stored one.
Fails(q) ==
  /\ q.at = "failed" /\ asked' = asked \ {q} /\ error' = TRUE
  /\ UNCHANGED <<files, view, editing, asks, mentions, promised, disturbed>>

\* The process dies and starts again.
Restarts ==
  /\ asks < Asks /\ asks' = asks + 1
  /\ asked' = {} /\ view' = Listed(files)
  /\ editing' = Closed /\ error' = FALSE
  /\ disturbed' = (disturbed \/ \E q \in asked : q.at = "emptied")
  /\ UNCHANGED <<files, mentions, promised>>

Next ==
  \/ OpensEditor(New) \/ Cancels \/ Restarts
  \/ \E s \in view : OpensEditor(s[1]) \/ Deletes(s) \/ Mentions(s)
  \/ \E name \in Names : SavesSkill(name)
  \/ \E q \in asked :
       Resolves(q) \/ Truncates(q) \/ Writes(q) \/ Removes(q) \/ Lists(q) \/ Shows(q) \/ Fails(q)

Spec == Init /\ [][Next]_vars

----------------------------------------------------------------------------
TypeOK ==
  /\ \A id \in Ids : files[id] = None \/ files[id].name \in Names
  /\ editing \in Ids \cup {New, Closed} /\ error \in BOOLEAN
  /\ asks \in 0 .. Asks /\ Cardinality(asked) <= asks

\* What was saved is in the directory, as it was saved last, and nothing else is: unless two calls
\* overlapped or a write was cut short.
SavedIsKept == ~disturbed /\ asked = {} => Listed(files) = promised

\* The page lists what the directory has once the calls are answered.
ViewIsListed == ~disturbed /\ asked = {} => view = Listed(files)

\* A mention of an old session stands for the skill it named, renamed or not, or for none once that was
\* deleted: for another only if that took the id of the deleted one.
MentionsResolve ==
  ~disturbed /\ asked = {} =>
    \A m \in mentions :
      IF files[m[1]] = None THEN \A s \in promised : s[2].origin # m[2] ELSE files[m[1]].origin = m[2]

\* The skills' promises together.
SkillsKept == SavedIsKept /\ ViewIsListed /\ MentionsResolve
=============================================================================
